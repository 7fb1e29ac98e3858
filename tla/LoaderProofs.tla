---------------------------- MODULE LoaderProofs ----------------------------
(***************************************************************************)
(* Proofs about ClassMap, SelectorTable, Loader and Dispatch, for any      *)
(* images, classes, methods, names and hashes, and any allocations that    *)
(* fail.                                                                   *)
(***************************************************************************)
EXTENDS Dispatch, TLAPS, FiniteSetTheorems, SequenceTheorems, WellFoundedInduction

Slot == 0 .. MapSize - 1
Map == [Slot -> Entry \cup {Nil}]

\* There are not more names than the map has room for.
NamesFit == IsFiniteSet(Name) /\ Cardinality(Name) <= MapSize

LEMMA Constants ==
  /\ Nil \notin Class /\ Nil \notin Name /\ Nil \notin Entry /\ Nil \notin Nat
  /\ Classes \in [Image -> Seq(Class)] /\ Aliases \in [Image -> Seq(Entry)]
  /\ NameOf \in [Class -> Name] /\ NameHash \in [Name -> Nat] /\ MapSize \in Nat \ {0}
BY ClassMapAssumption

LEMMA Least ==
  ASSUME NEW T, T \subseteq Nat, T # {}
  PROVE  \E x \in T : \A y \in T : x <= y
<1>1. PICK x \in T : \A y \in T : ~(<<y, x>> \in OpToRel(<, Nat))
  BY NatLessThanWellFounded, WFMin
<1>2. \A y \in T : ~(y < x)
  BY <1>1 DEF OpToRel
<1> QED
  BY <1>2
-----------------------------------------------------------------------------
(* Probing *)

LEMMA SameRemainder ==
  ASSUME NEW h \in Nat, NEW s \in Nat \ {0}, NEW x \in 0 .. s - 1, NEW y \in 0 .. s - 1,
         (h + x) % s = (h + y) % s
  PROVE  x = y
<1>1. PICK p \in Int, q \in Int, r \in Int : h + x = (s * p) + r /\ h + y = (s * q) + r
  <2>1. /\ h + x = (s * ((h + x) \div s)) + ((h + x) % s)
        /\ h + y = (s * ((h + y) \div s)) + ((h + y) % s)
    OBVIOUS
  <2>2. (h + x) \div s \in Int /\ (h + y) \div s \in Int /\ (h + x) % s \in Int
    OBVIOUS
  <2> QED
    BY <2>1, <2>2
<1>2. PICK d \in Int : d = p - q
  OBVIOUS
<1>3. x - y = s * d
  BY <1>1, <1>2
<1>4. ~(d >= 1)
  <2> SUFFICES ASSUME d >= 1 PROVE FALSE
    OBVIOUS
  <2>1. s * d >= s
    OBVIOUS
  <2> QED
    BY <1>3, <2>1
<1>5. ~(d <= -1)
  <2> SUFFICES ASSUME d <= -1 PROVE FALSE
    OBVIOUS
  <2>1. s * d <= -s
    OBVIOUS
  <2> QED
    BY <1>3, <2>1
<1>6. d = 0
  BY <1>4, <1>5
<1> QED
  BY <1>3, <1>6

\* Where the k-th step of a search for n looks.
Step(n, k) == (NameHash[n] + k) % MapSize

LEMMA Steps ==
  ASSUME NEW n \in Name
  PROVE  /\ \A k \in Slot : Step(n, k) \in Slot
         /\ \A k, l \in Slot : Step(n, k) = Step(n, l) => k = l
<1>1. PICK h \in Nat : h = NameHash[n]
  BY Constants
<1>2. PICK s \in Nat \ {0} : s = MapSize
  BY Constants
<1>3. ASSUME NEW k \in 0 .. s - 1 PROVE (h + k) % s \in 0 .. s - 1
  OBVIOUS
<1>4. ASSUME NEW k \in 0 .. s - 1, NEW l \in 0 .. s - 1, (h + k) % s = (h + l) % s PROVE k = l
  BY <1>4, SameRemainder
<1> QED
  BY <1>1, <1>2, <1>3, <1>4 DEF Step, Slot

LEMMA Probing ==
  ASSUME NEW n \in Name, NEW places
  PROVE  \/ /\ Probe(NameHash[n], MapSize, places) = Nil
            /\ \A k \in Slot : Step(n, k) \notin places
         \/ \E k \in Slot : /\ Probe(NameHash[n], MapSize, places) = Step(n, k)
                            /\ Step(n, k) \in places
                            /\ \A l \in Slot : Step(n, l) \in places => k <= l
<1> DEFINE steps == {k \in Slot : Step(n, k) \in places}
<1>1. Probe(NameHash[n], MapSize, places) =
        IF steps = {} THEN Nil ELSE Step(n, CHOOSE k \in steps : \A l \in steps : k <= l)
  BY DEF Probe, Step, Slot
<1>2. CASE steps = {}
  BY <1>1, <1>2
<1>3. CASE steps # {}
  <2>1. steps \subseteq Nat
    BY Constants DEF Slot
  <2>2. \E k \in steps : \A l \in steps : k <= l
    <3> HIDE DEF steps
    <3> QED
      BY <1>3, <2>1, Least
  <2>3. PICK k : /\ k = CHOOSE x \in steps : \A l \in steps : x <= l
                 /\ k \in steps /\ \A l \in steps : k <= l
    BY <2>2
  <2> QED
    BY <1>1, <1>3, <2>3
<1> QED
  BY <1>2, <1>3

\* Whether a search for n may end at i, and does.
Fits(map, i, n) == map[i] = Nil \/ map[i].name = n
IsPlace(map, n, i) ==
  \E k \in Slot : i = Step(n, k) /\ Fits(map, i, n)
                  /\ \A l \in Slot : Fits(map, Step(n, l), n) => k <= l

LEMMA PlaceFound ==
  ASSUME NEW map, NEW n \in Name
  PROVE  \/ MapPlace(map, n) = Nil /\ \A k \in Slot : ~Fits(map, Step(n, k), n)
         \/ MapPlace(map, n) \in Slot /\ IsPlace(map, n, MapPlace(map, n))
<1> DEFINE places == {i \in Slot : Fits(map, i, n)}
<1>1. MapPlace(map, n) = Probe(NameHash[n], MapSize, places)
  BY DEF MapPlace, Slot, Fits
<1>2. \A k \in Slot : Step(n, k) \in places <=> Fits(map, Step(n, k), n)
  BY Steps
<1> HIDE DEF places
<1>3. CASE /\ Probe(NameHash[n], MapSize, places) = Nil
           /\ \A k \in Slot : Step(n, k) \notin places
  BY <1>1, <1>2, <1>3
<1>4. CASE \E k \in Slot : /\ Probe(NameHash[n], MapSize, places) = Step(n, k)
                           /\ Step(n, k) \in places
                           /\ \A l \in Slot : Step(n, l) \in places => k <= l
  <2>1. PICK k \in Slot : /\ MapPlace(map, n) = Step(n, k) /\ Fits(map, Step(n, k), n)
                          /\ \A l \in Slot : Fits(map, Step(n, l), n) => k <= l
    BY <1>1, <1>2, <1>4
  <2>2. MapPlace(map, n) \in Slot
    BY <2>1, Steps
  <2> QED
    BY <2>1, <2>2 DEF IsPlace
<1> QED
  BY <1>3, <1>4, Probing

LEMMA OnePlace ==
  ASSUME NEW map, NEW n \in Name, NEW i, NEW j, IsPlace(map, n, i), IsPlace(map, n, j)
  PROVE  i = j
<1>1. PICK k \in Slot : i = Step(n, k) /\ Fits(map, i, n)
                        /\ \A l \in Slot : Fits(map, Step(n, l), n) => k <= l
  BY DEF IsPlace
<1>2. PICK m \in Slot : j = Step(n, m) /\ Fits(map, j, n)
                        /\ \A l \in Slot : Fits(map, Step(n, l), n) => m <= l
  BY DEF IsPlace
<1>3. k <= m /\ m <= k /\ k \in Int /\ m \in Int
  BY <1>1, <1>2 DEF Slot
<1>4. k = m
  BY <1>3
<1> QED
  BY <1>1, <1>2, <1>4

LEMMA PlaceIs ==
  ASSUME NEW map, NEW n \in Name, NEW i, IsPlace(map, n, i)
  PROVE  MapPlace(map, n) = i /\ i \in Slot
<1>1. PICK k \in Slot : i = Step(n, k) /\ Fits(map, i, n)
  BY DEF IsPlace
<1>2. i \in Slot /\ Fits(map, Step(n, k), n)
  BY <1>1, Steps
<1>3. MapPlace(map, n) \in Slot /\ IsPlace(map, n, MapPlace(map, n))
  BY <1>2, PlaceFound
<1> QED
  BY <1>2, <1>3, OnePlace
-----------------------------------------------------------------------------
(* A map in which every entry is where a search for its name ends *)

Ordered(map) ==
  /\ map \in Map
  /\ \A i \in Slot : map[i] # Nil => IsPlace(map, map[i].name, i)

LEMMA EntryAt ==
  ASSUME NEW map \in Map, NEW i \in Slot, map[i] # Nil
  PROVE  map[i] \in Entry /\ map[i].name \in Name /\ map[i].cls \in Class
BY DEF Map, Entry

\* What a lookup finds is in the map, and what is in the map is found.
LEMMA LookupIs ==
  ASSUME NEW map, Ordered(map), NEW n \in Name
  PROVE  \/ MapLookup(map, n) = Nil /\ \A i \in Slot : map[i] # Nil => map[i].name # n
         \/ \E i \in Slot : /\ map[i] # Nil /\ map[i].name = n
                            /\ MapLookup(map, n) = map[i].cls /\ map[i].cls \in Class
<1>1. Nil \notin Slot
  BY Constants DEF Slot
<1>2. CASE \E i \in Slot : map[i] # Nil /\ map[i].name = n
  <2>1. PICK i \in Slot : map[i] # Nil /\ map[i].name = n
    BY <1>2
  <2>2. MapPlace(map, n) = i
    BY <2>1, PlaceIs DEF Ordered
  <2>3. MapLookup(map, n) = map[i].cls
    BY <1>1, <2>1, <2>2 DEF MapLookup
  <2> QED
    BY <2>1, <2>3, EntryAt DEF Ordered
<1>3. CASE \A i \in Slot : map[i] # Nil => map[i].name # n
  <2>1. CASE MapPlace(map, n) = Nil
    BY <1>3, <2>1 DEF MapLookup
  <2>2. CASE MapPlace(map, n) \in Slot /\ IsPlace(map, n, MapPlace(map, n))
    <3>1. Fits(map, MapPlace(map, n), n)
      BY <2>2 DEF IsPlace
    <3>2. map[MapPlace(map, n)] = Nil
      BY <1>3, <2>2, <3>1 DEF Fits
    <3> QED
      BY <1>3, <3>2 DEF MapLookup
  <2> QED
    BY <2>1, <2>2, PlaceFound
<1> QED
  BY <1>2, <1>3

\* As long as the names fit, there is a place for each: where a search does not
\* end there is an entry with another name, and no name is there twice.
LEMMA RoomForAll ==
  ASSUME NamesFit, NEW map, Ordered(map), NEW n \in Name
  PROVE  MapPlace(map, n) \in Slot /\ IsPlace(map, n, MapPlace(map, n))
<1> SUFFICES ASSUME \A k \in Slot : ~Fits(map, Step(n, k), n) PROVE FALSE
  BY PlaceFound
<1> DEFINE f == [k \in Slot |-> map[Step(n, k)].name]
<1>1. ASSUME NEW k \in Slot
      PROVE  /\ Step(n, k) \in Slot /\ map[Step(n, k)] # Nil
             /\ f[k] \in Name \ {n} /\ IsPlace(map, f[k], Step(n, k))
  <2>1. Step(n, k) \in Slot /\ map[Step(n, k)] # Nil /\ map[Step(n, k)].name # n
    BY Steps DEF Fits
  <2>2. map[Step(n, k)].name \in Name /\ IsPlace(map, map[Step(n, k)].name, Step(n, k))
    BY <2>1, EntryAt DEF Ordered
  <2> QED
    BY <2>1, <2>2
<1>2. f \in [Slot -> Name \ {n}]
  BY <1>1
<1>3. IsFiniteSet(Slot) /\ Cardinality(Slot) = MapSize
  BY FS_Interval, Constants DEF Slot
<1>4. IsFiniteSet(Name \ {n}) /\ Cardinality(Name \ {n}) < Cardinality(Slot)
  <2>1. IsFiniteSet(Name) /\ Cardinality(Name) \in Nat /\ Cardinality(Name) <= MapSize
    BY FS_CardinalityType DEF NamesFit
  <2>2. IsFiniteSet(Name \ {n}) /\ Cardinality(Name \ {n}) = Cardinality(Name) - 1
    BY <2>1, FS_RemoveElement
  <2>3. MapSize \in Nat
    BY Constants
  <2> QED
    BY <1>3, <2>1, <2>2, <2>3
<1> HIDE DEF f
<1>5. PICK k \in Slot, l \in Slot : k # l /\ f[k] = f[l]
  BY <1>2, <1>3, <1>4, FS_PigeonHole
<1>6. IsPlace(map, f[k], Step(n, k)) /\ IsPlace(map, f[k], Step(n, l)) /\ f[k] \in Name
  BY <1>1, <1>5
<1>7. Step(n, k) = Step(n, l)
  BY <1>6, OnePlace
<1> QED
  BY <1>5, <1>7, Steps

\* An entry in a place where a search for its name ends: the place of any other
\* name stays.
LEMMA PlaceStays ==
  ASSUME NEW map \in Map, NEW e \in Entry, NEW i \in Slot, IsPlace(map, e.name, i),
         NEW g, g = [map EXCEPT ![i] = e],
         NEW m \in Name, NEW j \in Slot, IsPlace(map, m, j), Fits(g, j, m)
  PROVE  IsPlace(g, m, j)
<1>1. PICK k \in Slot : j = Step(m, k) /\ \A l \in Slot : Fits(map, Step(m, l), m) => k <= l
  BY DEF IsPlace
<1>2. ASSUME NEW l \in Slot, Fits(g, Step(m, l), m) PROVE Fits(map, Step(m, l), m)
  <2>1. Step(m, l) \in Slot
    BY Steps
  <2>2. CASE Step(m, l) = i
    <3>1. g[i] = e /\ e # Nil
      BY Constants DEF Map
    <3>2. m = e.name
      BY <1>2, <2>2, <3>1 DEF Fits
    <3>3. Fits(map, i, e.name)
      BY DEF IsPlace
    <3> QED
      BY <2>2, <3>2, <3>3
  <2>3. CASE Step(m, l) # i
    <3>1. g[Step(m, l)] = map[Step(m, l)]
      BY <2>1, <2>3 DEF Map
    <3> QED
      BY <1>2, <3>1 DEF Fits
  <2> QED
    BY <2>2, <2>3
<1>3. \A l \in Slot : Fits(g, Step(m, l), m) => k <= l
  BY <1>1, <1>2
<1> QED
  BY <1>1, <1>3 DEF IsPlace

LEMMA Inserted ==
  ASSUME NamesFit, NEW map, Ordered(map), NEW e \in Entry, NEW g, g = MapInsert(map, e)
  PROVE  /\ Ordered(g)
         /\ MapLookup(g, e.name) = e.cls
         /\ \A n \in Name : n # e.name => MapLookup(g, n) = MapLookup(map, n)
<1>0. e.name \in Name /\ e.cls \in Class /\ e # Nil /\ map \in Map
  BY Constants DEF Entry, Ordered
<1>1. PICK i \in Slot : i = MapPlace(map, e.name) /\ IsPlace(map, e.name, i)
  BY <1>0, RoomForAll
<1>2. g = [map EXCEPT ![i] = e]
  BY <1>1, Constants DEF MapInsert, Slot
<1>3. g \in Map /\ g[i] = e /\ \A j \in Slot : j # i => g[j] = map[j]
  BY <1>0, <1>1, <1>2 DEF Map
<1>4. Fits(map, i, e.name)
  BY <1>1 DEF IsPlace
<1>5. ASSUME NEW j \in Slot, g[j] # Nil PROVE IsPlace(g, g[j].name, j)
  <2>1. IsPlace(map, g[j].name, j)
    <3>1. CASE j = i
      BY <1>1, <1>3, <3>1
    <3>2. CASE j # i
      BY <1>3, <1>5, <3>2 DEF Ordered
    <3> QED
      BY <3>1, <3>2
  <2>2. g[j].name \in Name /\ Fits(g, j, g[j].name)
    BY <1>3, <1>5, EntryAt DEF Fits
  <2> QED
    BY <1>0, <1>1, <1>2, <2>1, <2>2, PlaceStays
<1>6. Ordered(g)
  BY <1>3, <1>5 DEF Ordered
<1>7. MapLookup(g, e.name) = e.cls
  <2>1. MapPlace(g, e.name) = i
    BY <1>0, <1>3, <1>5, PlaceIs
  <2> QED
    BY <1>0, <1>3, <2>1, Constants DEF MapLookup, Slot
<1>8. ASSUME NEW n \in Name, n # e.name PROVE MapLookup(g, n) = MapLookup(map, n)
  <2>1. \A j \in Slot : (g[j] # Nil /\ g[j].name = n) <=> (map[j] # Nil /\ map[j].name = n)
    BY <1>0, <1>3, <1>4, <1>8 DEF Fits
  <2>2. CASE \E j \in Slot : map[j] # Nil /\ map[j].name = n
    <3>1. PICK j \in Slot : map[j] # Nil /\ map[j].name = n
      BY <2>2
    <3>2. g[j] # Nil /\ g[j].name = n /\ g[j] = map[j]
      BY <1>3, <1>8, <2>1, <3>1
    <3>3. MapPlace(map, n) = j /\ MapPlace(g, n) = j
      BY <1>5, <3>1, <3>2, PlaceIs DEF Ordered
    <3> QED
      BY <3>2, <3>3 DEF MapLookup
  <2>3. CASE \A j \in Slot : map[j] # Nil => map[j].name # n
    <3>1. MapLookup(map, n) = Nil
      BY <2>3, LookupIs
    <3>2. \A j \in Slot : g[j] # Nil => g[j].name # n
      BY <2>1, <2>3
    <3>3. MapLookup(g, n) = Nil
      BY <1>6, <3>2, LookupIs
    <3> QED
      BY <3>1, <3>3
  <2> QED
    BY <2>2, <2>3
<1> QED
  BY <1>6, <1>7, <1>8
-----------------------------------------------------------------------------
(* What an image registers, one class or alias at a time *)

Registers(f, map, list, n) ==
  f = [k \in 0 .. n |-> IF k = 0 THEN map ELSE MapInsert(f[k - 1], list[k])]

LEMMA RegistersExists ==
  ASSUME NEW map, NEW list, NEW n \in Nat
  PROVE  \E f : Registers(f, map, list, n)
<1> DEFINE T == {m \in Nat : ~\E f : Registers(f, map, list, m)}
<1> SUFFICES ASSUME T # {} PROVE FALSE
  OBVIOUS
<1>1. PICK m \in T : \A y \in T : m <= y
  BY Least
<1>2. m \in Nat /\ ~\E f : Registers(f, map, list, m)
  BY <1>1
<1>3. CASE m = 0
  <2>1. PICK f : f = [k \in 0 .. m |-> map]
    OBVIOUS
  <2>2. f = [k \in 0 .. m |-> IF k = 0 THEN map ELSE MapInsert(f[k - 1], list[k])]
    BY <1>3, <2>1
  <2> QED
    BY <1>2, <2>2 DEF Registers
<1>4. CASE m # 0
  <2>1. m - 1 \in Nat /\ m - 1 \notin T
    BY <1>1, <1>2, <1>4
  <2>2. PICK f : Registers(f, map, list, m - 1)
    BY <2>1
  <2>3. \A k \in 0 .. m - 1 : f[k] = IF k = 0 THEN map ELSE MapInsert(f[k - 1], list[k])
    BY <2>2 DEF Registers
  <2>4. PICK g : g = [k \in 0 .. m |-> IF k = m THEN MapInsert(f[m - 1], list[m]) ELSE f[k]]
    OBVIOUS
  <2>5. \A k \in 0 .. m - 1 : g[k] = f[k]
    BY <1>2, <2>4
  <2>6. ASSUME NEW k \in 0 .. m
        PROVE  g[k] = IF k = 0 THEN map ELSE MapInsert(g[k - 1], list[k])
    <3>1. CASE k = m
      <4>1. k # 0 /\ m - 1 \in 0 .. m - 1 /\ g[k] = MapInsert(f[m - 1], list[m])
        BY <1>2, <1>4, <2>4, <3>1
      <4>2. g[k - 1] = f[m - 1]
        BY <2>5, <3>1, <4>1
      <4> QED
        BY <3>1, <4>1, <4>2
    <3>2. CASE k # m
      <4>1. k \in 0 .. m - 1 /\ (k # 0 => k - 1 \in 0 .. m - 1)
        BY <1>2, <3>2
      <4> QED
        BY <2>3, <2>5, <4>1
    <3> QED
      BY <3>1, <3>2
  <2>7. g = [k \in 0 .. m |-> IF k = 0 THEN map ELSE MapInsert(g[k - 1], list[k])]
    BY <2>4, <2>6
  <2> QED
    BY <1>2, <2>7 DEF Registers
<1> QED
  BY <1>3, <1>4

LEMMA RegisteredIs ==
  ASSUME NEW map, NEW list, Len(list) \in Nat
  PROVE  \E f : Registers(f, map, list, Len(list)) /\ Registered(map, list) = f[Len(list)]
<1> DEFINE f == CHOOSE with : Registers(with, map, list, Len(list))
<1>1. Registered(map, list) = f[Len(list)]
  BY DEF Registered, Registers
<1>2. Registers(f, map, list, Len(list))
  BY RegistersExists
<1> HIDE DEF f
<1> QED
  BY <1>1, <1>2

\* The j-th of the first k that list registers is the last of them under n.
IsLast(list, k, n, j) ==
  j \in 1 .. k /\ list[j].name = n /\ \A l \in 1 .. k : list[l].name = n => l <= j
None(list, k, n) == \A l \in 1 .. k : list[l].name # n

\* g is map with the first k of list registered.
Holds(g, map, list, k) ==
  /\ Ordered(g)
  /\ \A n \in Name : \/ None(list, k, n) /\ MapLookup(g, n) = MapLookup(map, n)
                     \/ \E j : IsLast(list, k, n, j) /\ MapLookup(g, n) = list[j].cls

LEMMA OneMore ==
  ASSUME NamesFit, NEW map, NEW k \in Nat \ {0}, NEW list, list[k] \in Entry,
         NEW f, Holds(f, map, list, k - 1), NEW g, g = MapInsert(f, list[k])
  PROVE  Holds(g, map, list, k)
<1>1. /\ Ordered(g) /\ MapLookup(g, list[k].name) = list[k].cls
      /\ \A n \in Name : n # list[k].name => MapLookup(g, n) = MapLookup(f, n)
  BY Inserted DEF Holds
<1>2. \A l \in 1 .. k : l = k \/ l \in 1 .. k - 1
  OBVIOUS
<1>3. k \in 1 .. k /\ 1 .. k - 1 \subseteq 1 .. k
  OBVIOUS
<1>4. ASSUME NEW n \in Name
      PROVE  \/ None(list, k, n) /\ MapLookup(g, n) = MapLookup(map, n)
             \/ \E j : IsLast(list, k, n, j) /\ MapLookup(g, n) = list[j].cls
  <2>1. CASE n = list[k].name
    <3>1. IsLast(list, k, n, k)
      BY <1>3, <2>1 DEF IsLast
    <3> QED
      BY <1>1, <2>1, <3>1
  <2>2. CASE n # list[k].name
    <3>1. MapLookup(g, n) = MapLookup(f, n)
      BY <1>1, <2>2
    <3>2. CASE None(list, k - 1, n) /\ MapLookup(f, n) = MapLookup(map, n)
      <4>1. None(list, k, n)
        BY <1>2, <2>2, <3>2 DEF None
      <4> QED
        BY <3>1, <3>2, <4>1
    <3>3. CASE \E j : IsLast(list, k - 1, n, j) /\ MapLookup(f, n) = list[j].cls
      <4>1. PICK j : IsLast(list, k - 1, n, j) /\ MapLookup(f, n) = list[j].cls
        BY <3>3
      <4>2. IsLast(list, k, n, j)
        BY <1>2, <1>3, <2>2, <4>1 DEF IsLast
      <4> QED
        BY <3>1, <4>1, <4>2
    <3> QED
      BY <3>2, <3>3 DEF Holds
  <2> QED
    BY <2>1, <2>2
<1> QED
  BY <1>1, <1>4 DEF Holds

LEMMA AllRegistered ==
  ASSUME NamesFit, NEW map, Ordered(map), NEW list \in Seq(Entry)
  PROVE  Holds(Registered(map, list), map, list, Len(list))
<1>1. PICK n \in Nat : n = Len(list)
  BY LenProperties
<1>2. PICK f : Registers(f, map, list, n) /\ Registered(map, list) = f[n]
  BY <1>1, RegisteredIs
<1>3. \A k \in 0 .. n : f[k] = IF k = 0 THEN map ELSE MapInsert(f[k - 1], list[k])
  BY <1>2 DEF Registers
<1>4. \A k \in 1 .. n : list[k] \in Entry
  BY <1>1, ElementOfSeq
<1> DEFINE T == {k \in Nat : k <= n /\ ~Holds(f[k], map, list, k)}
<1>5. CASE T = {}
  <2>1. n \in Nat /\ n <= n /\ n \notin T
    BY <1>5
  <2>2. Holds(f[n], map, list, n)
    BY <2>1
  <2> QED
    BY <1>1, <1>2, <2>2
<1>6. CASE T # {}
  <2>1. PICK k \in T : \A y \in T : k <= y
    BY <1>6, Least
  <2>2. k \in Nat /\ k <= n /\ ~Holds(f[k], map, list, k)
    BY <2>1
  <2>3. CASE k = 0
    <3>1. f[k] = map /\ 1 .. k = {}
      BY <1>3, <2>2, <2>3
    <3> QED
      BY <2>2, <3>1 DEF Holds, None
  <2>4. CASE k # 0
    <3>1. k - 1 \in Nat /\ k - 1 <= n /\ k - 1 \notin T
      BY <2>1, <2>2, <2>4
    <3>2. Holds(f[k - 1], map, list, k - 1)
      BY <3>1
    <3>3. f[k] = MapInsert(f[k - 1], list[k]) /\ list[k] \in Entry /\ k \in Nat \ {0}
      BY <1>3, <1>4, <2>2, <2>4
    <3> HIDE DEF T
    <3> QED
      BY <2>2, <3>2, <3>3, OneMore
  <2> QED
    BY <2>3, <2>4
<1> QED
  BY <1>5, <1>6

LEMMA LastIs ==
  ASSUME NEW list \in Seq(Entry), NEW n, NEW before
  PROVE  \/ None(list, Len(list), n) /\ LastOf(list, n, before) = before
         \/ \E j : IsLast(list, Len(list), n, j) /\ LastOf(list, n, before) = list[j].cls
<1>1. PICK m \in Nat : m = Len(list)
  BY LenProperties
<1>2. DOMAIN list = 1 .. m
  BY <1>1, LenProperties
<1> DEFINE at == {k \in 1 .. m : list[k].name = n}
<1>3. LastOf(list, n, before) =
        IF at = {} THEN before ELSE list[CHOOSE k \in at : \A l \in at : l <= k].cls
  BY <1>2 DEF LastOf
<1>4. CASE at = {}
  <2>1. None(list, m, n)
    BY <1>4 DEF None
  <2> QED
    BY <1>1, <1>3, <1>4, <2>1
<1>5. CASE at # {}
  <2> DEFINE T == {m - k : k \in at}
  <2>1. T \subseteq Nat /\ T # {}
    BY <1>5
  <2>2. \E d \in T : \A y \in T : d <= y
    <3> HIDE DEF T
    <3> QED
      BY <2>1, Least
  <2>3. PICK k \in at : \A l \in at : m - k <= m - l
    BY <2>2
  <2>4. \A l \in at : l <= k
    BY <2>3
  <2>5. PICK j : j = (CHOOSE x \in at : \A l \in at : l <= x) /\ j \in at /\ \A l \in at : l <= j
    BY <2>4
  <2>6. IsLast(list, m, n, j)
    BY <2>5 DEF IsLast
  <2> QED
    BY <1>1, <1>3, <1>5, <2>5, <2>6
<1> QED
  BY <1>4, <1>5
-----------------------------------------------------------------------------
(* The list of classes *)

\* The list with what is at i, unless it is there already.
WithClassAt(map, before, i) ==
  IF map[i] = Nil \/ map[i].cls \in Range(before) THEN before ELSE Append(before, map[i].cls)

Lists(f, map, n) ==
  f = [i \in 0 .. n |-> IF i = 0 THEN <<>> ELSE WithClassAt(map, f[i - 1], i - 1)]

LEMMA ListsExists ==
  ASSUME NEW map, NEW n \in Nat
  PROVE  \E f : Lists(f, map, n)
<1> DEFINE T == {m \in Nat : ~\E f : Lists(f, map, m)}
<1> SUFFICES ASSUME T # {} PROVE FALSE
  OBVIOUS
<1>1. PICK m \in T : \A y \in T : m <= y
  BY Least
<1>2. m \in Nat /\ ~\E f : Lists(f, map, m)
  BY <1>1
<1>3. CASE m = 0
  <2>1. PICK f : f = [i \in 0 .. m |-> <<>>]
    OBVIOUS
  <2>2. f = [i \in 0 .. m |-> IF i = 0 THEN <<>> ELSE WithClassAt(map, f[i - 1], i - 1)]
    BY <1>3, <2>1
  <2> QED
    BY <1>2, <2>2 DEF Lists
<1>4. CASE m # 0
  <2>1. m - 1 \in Nat /\ m - 1 \notin T
    BY <1>1, <1>2, <1>4
  <2>2. PICK f : Lists(f, map, m - 1)
    BY <2>1
  <2>3. \A i \in 0 .. m - 1 : f[i] = IF i = 0 THEN <<>> ELSE WithClassAt(map, f[i - 1], i - 1)
    BY <2>2 DEF Lists
  <2>4. PICK g : g = [i \in 0 .. m |-> IF i = m THEN WithClassAt(map, f[m - 1], m - 1) ELSE f[i]]
    OBVIOUS
  <2>5. \A i \in 0 .. m - 1 : g[i] = f[i]
    BY <1>2, <2>4
  <2>6. ASSUME NEW i \in 0 .. m
        PROVE  g[i] = IF i = 0 THEN <<>> ELSE WithClassAt(map, g[i - 1], i - 1)
    <3>1. CASE i = m
      <4>1. i # 0 /\ m - 1 \in 0 .. m - 1 /\ g[i] = WithClassAt(map, f[m - 1], m - 1)
        BY <1>2, <1>4, <2>4, <3>1
      <4>2. g[i - 1] = f[m - 1]
        BY <2>5, <3>1, <4>1
      <4> QED
        BY <3>1, <4>1, <4>2
    <3>2. CASE i # m
      <4>1. i \in 0 .. m - 1 /\ (i # 0 => i - 1 \in 0 .. m - 1)
        BY <1>2, <3>2
      <4> QED
        BY <2>3, <2>5, <4>1
    <3> QED
      BY <3>1, <3>2
  <2>7. g = [i \in 0 .. m |-> IF i = 0 THEN <<>> ELSE WithClassAt(map, g[i - 1], i - 1)]
    BY <2>4, <2>6
  <2> QED
    BY <1>2, <2>7 DEF Lists
<1> QED
  BY <1>3, <1>4

LEMMA ClassListIs == \E f : Lists(f, classMap, MapSize) /\ ClassList = f[MapSize]
<1> DEFINE f == CHOOSE list : Lists(list, classMap, MapSize)
<1>1. ClassList = f[MapSize]
  BY DEF ClassList, Lists, WithClassAt
<1>2. Lists(f, classMap, MapSize)
  BY ListsExists, Constants
<1> HIDE DEF f
<1> QED
  BY <1>1, <1>2

\* list has the classes of the first i places of map, each once.
Listed(list, map, i) ==
  /\ list \in Seq(Class) /\ IsInjective(list)
  /\ \A c : c \in Range(list) <=> \E j \in Slot : j < i /\ map[j] # Nil /\ map[j].cls = c

LEMMA Appended ==
  ASSUME NEW S, NEW q \in Seq(S), NEW x \in S
  PROVE  /\ Append(q, x) \in Seq(S) /\ Range(Append(q, x)) = Range(q) \cup {x}
         /\ IsInjective(q) /\ x \notin Range(q) => IsInjective(Append(q, x))
<1>1. PICK n \in Nat : n = Len(q)
  BY LenProperties
<1>2. DOMAIN q = 1 .. n
  BY <1>1, LenProperties
<1>3. PICK r : r = Append(q, x)
  OBVIOUS
<1>4. r \in Seq(S) /\ Len(r) = n + 1 /\ r[n + 1] = x /\ \A i \in 1 .. n : r[i] = q[i]
  BY <1>1, <1>3, AppendProperties
<1>5. DOMAIN r = 1 .. n + 1
  BY <1>4, LenProperties
<1>6. \A i \in 1 .. n + 1 : i = n + 1 \/ i \in 1 .. n
  OBVIOUS
<1>7. n + 1 \in 1 .. n + 1 /\ 1 .. n \subseteq 1 .. n + 1
  OBVIOUS
<1>8. Range(r) = Range(q) \cup {x}
  BY <1>2, <1>4, <1>5, <1>6, <1>7 DEF Range
<1>9. IsInjective(q) /\ x \notin Range(q) => IsInjective(r)
  BY <1>2, <1>4, <1>5, <1>6 DEF Range, IsInjective
<1> QED
  BY <1>3, <1>4, <1>8, <1>9

LEMMA OneMoreListed ==
  ASSUME NEW map \in Map, NEW i \in Slot, NEW list, Listed(list, map, i)
  PROVE  Listed(WithClassAt(map, list, i), map, i + 1)
<1>1. \A j \in Slot : j < i + 1 <=> j < i \/ j = i
  BY DEF Slot
<1>2. CASE map[i] = Nil
  BY <1>1, <1>2 DEF Listed, WithClassAt
<1>3. CASE map[i] # Nil /\ map[i].cls \in Range(list)
  <2>1. WithClassAt(map, list, i) = list
    BY <1>3 DEF WithClassAt
  <2> QED
    BY <1>1, <1>3, <2>1 DEF Listed
<1>4. CASE map[i] # Nil /\ map[i].cls \notin Range(list)
  <2>1. PICK c \in Class : c = map[i].cls
    BY <1>4, EntryAt
  <2>2. WithClassAt(map, list, i) = Append(list, c)
    BY <1>4, <2>1 DEF WithClassAt
  <2>3. /\ Append(list, c) \in Seq(Class) /\ Range(Append(list, c)) = Range(list) \cup {c}
        /\ IsInjective(Append(list, c))
    BY <1>4, <2>1, Appended DEF Listed
  <2>4. \A x : x \in Range(list) \cup {c}
               <=> \E j \in Slot : j < i + 1 /\ map[j] # Nil /\ map[j].cls = x
    BY <1>1, <1>4, <2>1 DEF Listed
  <2> QED
    BY <2>2, <2>3, <2>4 DEF Listed
<1> QED
  BY <1>2, <1>3, <1>4

LEMMA ClassesListed ==
  ASSUME classMap \in Map
  PROVE  Listed(ClassList, classMap, MapSize)
<1>1. PICK n \in Nat : n = MapSize
  BY Constants
<1>2. PICK f : Lists(f, classMap, n) /\ ClassList = f[n]
  BY <1>1, ClassListIs
<1>3. \A i \in 0 .. n : f[i] = IF i = 0 THEN <<>> ELSE WithClassAt(classMap, f[i - 1], i - 1)
  BY <1>2 DEF Lists
<1> DEFINE T == {i \in Nat : i <= n /\ ~Listed(f[i], classMap, i)}
<1>4. CASE T = {}
  <2>1. n \in Nat /\ n <= n /\ n \notin T
    BY <1>4
  <2>2. Listed(f[n], classMap, n)
    BY <2>1
  <2> QED
    BY <1>1, <1>2, <2>2
<1>5. CASE T # {}
  <2>1. PICK i \in T : \A y \in T : i <= y
    BY <1>5, Least
  <2>2. i \in Nat /\ i <= n /\ ~Listed(f[i], classMap, i)
    BY <2>1
  <2>3. CASE i = 0
    <3>1. f[i] = <<>>
      BY <1>3, <2>2, <2>3
    <3>2. <<>> \in Seq(Class) /\ DOMAIN <<>> = {}
      BY EmptySeq
    <3>3. IsInjective(<<>>) /\ Range(<<>>) = {}
      BY <3>2 DEF IsInjective, Range
    <3>4. \A j \in Slot : ~(j < i)
      BY <2>3 DEF Slot
    <3> QED
      BY <2>2, <3>1, <3>2, <3>3, <3>4 DEF Listed
  <2>4. CASE i # 0
    <3>1. i - 1 \in Nat /\ i - 1 <= n /\ i - 1 \notin T
      BY <2>1, <2>2, <2>4
    <3>2. Listed(f[i - 1], classMap, i - 1)
      BY <3>1
    <3>3. f[i] = WithClassAt(classMap, f[i - 1], i - 1) /\ i - 1 \in Slot /\ (i - 1) + 1 = i
      BY <1>1, <1>3, <2>2, <2>4 DEF Slot
    <3>4. Listed(WithClassAt(classMap, f[i - 1], i - 1), classMap, (i - 1) + 1)
      BY <3>2, <3>3, OneMoreListed
    <3> QED
      BY <2>2, <3>3, <3>4
  <2> QED
    BY <2>3, <2>4
<1> QED
  BY <1>4, <1>5

LEMMA ListOfClasses ==
  ASSUME classMap \in Map
  PROVE  IsInjective(ClassList) /\ Range(ClassList) = MappedClasses(classMap)
<1>1. Listed(ClassList, classMap, MapSize)
  BY ClassesListed
<1>2. \A j \in Slot : j < MapSize
  BY Constants DEF Slot
<1>3. \A c : c \in Range(ClassList) <=> \E j \in Slot : classMap[j] # Nil /\ classMap[j].cls = c
  BY <1>1, <1>2 DEF Listed
<1>4. \A c : c \in MappedClasses(classMap)
             <=> \E j \in Slot : classMap[j] # Nil /\ classMap[j].cls = c
  BY DEF MappedClasses, Slot
<1> QED
  BY <1>1, <1>3, <1>4 DEF Listed
-----------------------------------------------------------------------------
(* The class map *)

\* What has been registered is what is found, and the classes of the images are
\* registered under their names.
MapInv ==
  /\ loaded \subseteq Image /\ Ordered(classMap)
  /\ DOMAIN registered = Name
  /\ \A n \in Name : /\ MapLookup(classMap, n) = registered[n]
                     /\ registered[n] \in LoadedClasses \cup {Nil}
  /\ \A c \in LoadedClasses : c \in Class /\ registered[NameOf[c]] = c

LEMMA ElementsIn ==
  ASSUME NEW S, NEW q \in Seq(S)
  PROVE  /\ Range(q) \subseteq S
         /\ \A x \in Range(q) : \E i \in 1 .. Len(q) : q[i] = x
         /\ \A i \in 1 .. Len(q) : q[i] \in Range(q)
<1>1. PICK n \in Nat : n = Len(q)
  BY LenProperties
<1>2. DOMAIN q = 1 .. n /\ \A i \in 1 .. n : q[i] \in S
  BY <1>1, LenProperties, ElementOfSeq
<1> QED
  BY <1>1, <1>2 DEF Range

\* The classes come first, then the aliases.
LEMMA RegistrationsAre ==
  ASSUME NEW img \in Image
  PROVE  /\ Registrations(img) \in Seq(Entry)
         /\ \A k \in 1 .. Len(Registrations(img)) : LET e == Registrations(img)[k] IN
              \/ e.cls \in Range(Classes[img]) /\ e.name = NameOf[e.cls]
              \/ e \in Range(Aliases[img]) /\ e.name \notin Range(NameOf)
         /\ \A c \in Range(Classes[img]) : \E k \in 1 .. Len(Registrations(img)) :
              Registrations(img)[k].name = NameOf[c]
<1>1. PICK p \in Seq(Class) : p = Classes[img]
  BY Constants
<1>2. PICK q \in Seq(Entry) : q = Aliases[img]
  BY Constants
<1>3. PICK n \in Nat : n = Len(p)
  BY LenProperties
<1>4. DOMAIN p = 1 .. n /\ \A k \in 1 .. n : p[k] \in Class /\ p[k] \in Range(p)
  BY <1>3, LenProperties, ElementOfSeq DEF Range
<1>5. PICK own : own = [k \in 1 .. n |-> [name |-> NameOf[p[k]], cls |-> p[k]]]
  OBVIOUS
<1>6. \A k \in 1 .. n : own[k].name = NameOf[p[k]] /\ own[k].cls = p[k] /\ own[k] \in Entry
  BY <1>4, <1>5, Constants DEF Entry
<1>7. own \in Seq(Entry) /\ Len(own) = n
  <2>1. own \in [1 .. n -> Entry]
    BY <1>5, <1>6
  <2> QED
    BY <2>1, SeqDef, LenProperties
<1>8. PICK m \in Nat : m = Len(q)
  BY LenProperties
<1>9. \A k \in 1 .. m : q[k] \in Range(q)
  BY <1>8, ElementsIn
<1>10. PICK list : list = own \o q
  OBVIOUS
<1>11. Registrations(img) = list
  BY <1>1, <1>2, <1>4, <1>5, <1>10 DEF Registrations
<1>12. /\ list \in Seq(Entry) /\ Len(list) = n + m
       /\ \A k \in 1 .. n + m : list[k] = IF k <= n THEN own[k] ELSE q[k - n]
  BY <1>7, <1>8, <1>10, ConcatProperties
<1>13. \A a \in Range(q) : a.name \notin Range(NameOf)
  BY <1>2, ClassMapAssumption
<1>14. ASSUME NEW k \in 1 .. n + m
       PROVE  \/ list[k].cls \in Range(p) /\ list[k].name = NameOf[list[k].cls]
              \/ list[k] \in Range(q) /\ list[k].name \notin Range(NameOf)
  <2>1. CASE k <= n
    <3>1. k \in 1 .. n /\ list[k] = own[k]
      BY <1>12, <2>1
    <3> QED
      BY <1>4, <1>6, <3>1
  <2>2. CASE k > n
    <3>1. k - n \in 1 .. m /\ list[k] = q[k - n]
      BY <1>12, <2>2
    <3> QED
      BY <1>9, <1>13, <3>1
  <2> QED
    BY <2>1, <2>2
<1>15. ASSUME NEW c \in Range(p) PROVE \E k \in 1 .. n + m : list[k].name = NameOf[c]
  <2>1. PICK k \in 1 .. n : p[k] = c
    BY <1>4 DEF Range
  <2>2. k \in 1 .. n + m /\ list[k] = own[k]
    BY <1>12
  <2> QED
    BY <1>6, <2>1, <2>2
<1> QED
  BY <1>1, <1>2, <1>11, <1>12, <1>14, <1>15

LEMMA MapStarts == MapInit => MapInv
<1> SUFFICES ASSUME MapInit PROVE MapInv
  OBVIOUS
<1>1. classMap \in Map /\ \A i \in Slot : classMap[i] = Nil
  BY DEF MapInit, Map, Slot
<1>2. Ordered(classMap)
  BY <1>1 DEF Ordered
<1>3. \A n \in Name : MapLookup(classMap, n) = Nil
  BY <1>1, <1>2, LookupIs
<1>4. LoadedClasses = {}
  BY DEF LoadedClasses, MapInit
<1> QED
  BY <1>2, <1>3, <1>4 DEF MapInit, MapInv

LEMMA LoadingKeeps ==
  ASSUME NamesFit, MapInv, NEW img \in Image, LoadClasses(img)
  PROVE  MapInv' /\ LoadedClasses' = Linked(img) /\ LoadedClasses \subseteq LoadedClasses'
<1>1. PICK list : list = Registrations(img)
  OBVIOUS
<1>2. /\ list \in Seq(Entry)
      /\ \A k \in 1 .. Len(list) :
           \/ list[k].cls \in Range(Classes[img]) /\ list[k].name = NameOf[list[k].cls]
           \/ list[k] \in Range(Aliases[img]) /\ list[k].name \notin Range(NameOf)
      /\ \A c \in Range(Classes[img]) : \E k \in 1 .. Len(list) : list[k].name = NameOf[c]
  BY <1>1, RegistrationsAre
<1>3. LoadedClasses' = Linked(img)
  BY DEF LoadClasses, LoadedClasses, Linked
<1>4. LoadedClasses \subseteq Linked(img) /\ Range(Classes[img]) \subseteq Linked(img)
  BY DEF Linked
<1>5. Range(Classes[img]) \subseteq Class
  <2>1. Classes[img] \in Seq(Class)
    BY Constants
  <2> QED
    BY <2>1, ElementsIn
<1>6. \A c \in Linked(img) : c \in Class
  BY <1>5 DEF MapInv, Linked
<1>7. \A k \in 1 .. Len(list) : list[k].cls \in Linked(img)
  BY <1>2, <1>4 DEF LoadClasses
<1>8. Holds(classMap', classMap, list, Len(list))
  BY <1>1, <1>2, AllRegistered DEF MapInv, LoadClasses
<1>9. DOMAIN registered' = Name
      /\ \A n \in Name : registered'[n] = LastOf(list, n, registered[n])
  BY <1>1 DEF LoadClasses
\* Both are of the last registration under the name, or as before.
<1>10. ASSUME NEW n \in Name
       PROVE  /\ MapLookup(classMap', n) = registered'[n]
              /\ \/ None(list, Len(list), n) /\ registered'[n] = registered[n]
                 \/ \E j : IsLast(list, Len(list), n, j) /\ registered'[n] = list[j].cls
  <2>1. MapLookup(classMap, n) = registered[n]
    BY DEF MapInv
  <2>2. \/ None(list, Len(list), n) /\ LastOf(list, n, registered[n]) = registered[n]
        \/ \E j : IsLast(list, Len(list), n, j)
                  /\ LastOf(list, n, registered[n]) = list[j].cls
    BY <1>2, LastIs
  <2>3. \/ None(list, Len(list), n) /\ MapLookup(classMap', n) = MapLookup(classMap, n)
        \/ \E j : IsLast(list, Len(list), n, j) /\ MapLookup(classMap', n) = list[j].cls
    BY <1>8 DEF Holds
  <2>4. CASE None(list, Len(list), n)
    <3>1. ~\E j : IsLast(list, Len(list), n, j)
      BY <2>4 DEF None, IsLast
    <3> QED
      BY <1>9, <2>1, <2>2, <2>3, <3>1
  <2>5. CASE ~None(list, Len(list), n)
    <3>1. PICK j : IsLast(list, Len(list), n, j) /\ LastOf(list, n, registered[n]) = list[j].cls
      BY <2>2, <2>5
    <3>2. PICK i : IsLast(list, Len(list), n, i) /\ MapLookup(classMap', n) = list[i].cls
      BY <2>3, <2>5
    <3>3. i = j
      <4>1. i <= j /\ j <= i /\ i \in Int /\ j \in Int
        BY <3>1, <3>2 DEF IsLast
      <4> QED
        BY <4>1
    <3> QED
      BY <1>9, <3>1, <3>2, <3>3
  <2> QED
    BY <2>4, <2>5
<1>11. ASSUME NEW n \in Name PROVE registered'[n] \in Linked(img) \cup {Nil}
  <2>1. CASE registered'[n] = registered[n]
    BY <1>4, <2>1 DEF MapInv
  <2>2. CASE \E j : IsLast(list, Len(list), n, j) /\ registered'[n] = list[j].cls
    BY <1>7, <2>2 DEF IsLast
  <2> QED
    BY <1>10, <2>1, <2>2
\* Under a class's name it is that class that is registered.
<1>12. ASSUME NEW c \in Linked(img) PROVE registered'[NameOf[c]] = c
  <2>1. c \in Class /\ NameOf[c] \in Name /\ NameOf[c] \in Range(NameOf)
    BY <1>6, Constants DEF Range
  <2>2. CASE None(list, Len(list), NameOf[c]) /\ registered'[NameOf[c]] = registered[NameOf[c]]
    <3>1. c \notin Range(Classes[img])
      BY <1>2, <2>2 DEF None
    <3> QED
      BY <2>2, <3>1 DEF Linked, MapInv
  <2>3. CASE \E j : IsLast(list, Len(list), NameOf[c], j) /\ registered'[NameOf[c]] = list[j].cls
    <3>1. PICK j : IsLast(list, Len(list), NameOf[c], j) /\ registered'[NameOf[c]] = list[j].cls
      BY <2>3
    <3>2. j \in 1 .. Len(list) /\ list[j].name = NameOf[c]
      BY <3>1 DEF IsLast
    <3>3. list[j].cls \in Class /\ NameOf[list[j].cls] = NameOf[c]
      BY <1>2, <1>5, <2>1, <3>2
    <3>4. list[j].cls = c
      BY <2>1, <3>3, ClassMapAssumption
    <3> QED
      BY <3>1, <3>4
  <2> QED
    BY <1>10, <2>1, <2>2, <2>3
<1>13. Ordered(classMap') /\ loaded' \subseteq Image
  BY <1>8 DEF Holds, LoadClasses, MapInv
<1>14. MapInv'
  BY <1>3, <1>6, <1>9, <1>10, <1>11, <1>12, <1>13 DEF MapInv
<1> QED
  BY <1>3, <1>4, <1>14

LEMMA AliasKeeps ==
  ASSUME NamesFit, MapInv, NEW c \in Class, NEW n \in Name, RegisterAlias(c, n)
  PROVE  MapInv' /\ LoadedClasses' = LoadedClasses
<1>1. LoadedClasses' = LoadedClasses
  BY DEF RegisterAlias, LoadedClasses
<1>2. PICK e \in Entry : e = [name |-> n, cls |-> c]
  BY DEF Entry
<1>3. e.name = n /\ e.cls = c
  BY <1>2
<1>4. /\ Ordered(classMap') /\ MapLookup(classMap', n) = c
      /\ \A m \in Name : m # n => MapLookup(classMap', m) = MapLookup(classMap, m)
  BY <1>2, <1>3, Inserted DEF RegisterAlias, MapInv
<1>5. /\ DOMAIN registered' = Name /\ registered'[n] = c
      /\ \A m \in Name : m # n => registered'[m] = registered[m]
  BY DEF RegisterAlias, MapInv
<1>6. ASSUME NEW m \in Name
      PROVE  MapLookup(classMap', m) = registered'[m] /\ registered'[m] \in LoadedClasses \cup {Nil}
  BY <1>4, <1>5 DEF MapInv, RegisterAlias
<1>7. ASSUME NEW d \in LoadedClasses PROVE d \in Class /\ registered'[NameOf[d]] = d
  <2>1. d \in Class /\ registered[NameOf[d]] = d
    BY DEF MapInv
  <2>2. NameOf[d] \in Name /\ NameOf[d] \in Range(NameOf)
    BY <2>1, Constants DEF Range
  <2>3. NameOf[d] # n
    BY <2>2 DEF RegisterAlias
  <2> QED
    BY <1>5, <2>1, <2>2, <2>3
<1>8. MapInv'
  BY <1>1, <1>4, <1>5, <1>6, <1>7 DEF MapInv, RegisterAlias
<1> QED
  BY <1>1, <1>8

LEMMA MapStutters ==
  ASSUME MapInv, UNCHANGED mapVars
  PROVE  MapInv' /\ LoadedClasses' = LoadedClasses
BY DEF MapInv, LoadedClasses, mapVars

\* The map has the classes that are loaded.
LEMMA MappedAreLoaded ==
  ASSUME MapInv
  PROVE  MappedClasses(classMap) = LoadedClasses
<1>1. \A x : x \in MappedClasses(classMap)
             <=> \E i \in Slot : classMap[i] # Nil /\ classMap[i].cls = x
  BY DEF MappedClasses, Slot
<1>2. Ordered(classMap) /\ classMap \in Map
  BY DEF MapInv, Ordered
<1>3. ASSUME NEW i \in Slot, classMap[i] # Nil PROVE classMap[i].cls \in LoadedClasses
  <2>1. classMap[i].name \in Name /\ classMap[i].cls \in Class
    BY <1>2, <1>3, EntryAt
  <2>2. MapPlace(classMap, classMap[i].name) = i
    BY <1>2, <1>3, <2>1, PlaceIs DEF Ordered
  <2>3. MapLookup(classMap, classMap[i].name) = classMap[i].cls
    BY <1>3, <2>2, Constants DEF MapLookup, Slot
  <2>4. classMap[i].cls \in LoadedClasses \cup {Nil}
    BY <2>1, <2>3 DEF MapInv
  <2> QED
    BY <2>1, <2>4, Constants
<1>4. ASSUME NEW c \in LoadedClasses PROVE \E i \in Slot : classMap[i] # Nil /\ classMap[i].cls = c
  <2>1. c \in Class /\ registered[NameOf[c]] = c
    BY DEF MapInv
  <2>2. NameOf[c] \in Name
    BY <2>1, Constants
  <2>3. MapLookup(classMap, NameOf[c]) = c /\ c # Nil
    BY <2>1, <2>2, Constants DEF MapInv
  <2> QED
    BY <1>2, <2>2, <2>3, LookupIs
<1> QED
  BY <1>1, <1>3, <1>4

LEMMA MappedThenLoaded == MapInv' => MappedClasses(classMap') = LoadedClasses'
<1>1. MapInv => MappedClasses(classMap) = LoadedClasses
  BY MappedAreLoaded
<1>2. MapInv' => (MappedClasses(classMap) = LoadedClasses)'
  BY <1>1, PTL
<1> QED
  BY <1>2 DEF MappedClasses

LEMMA InvFinds == MapInv => ClassesFound
<1> SUFFICES ASSUME MapInv PROVE ClassesFound
  OBVIOUS
<1>1. classMap \in Map
  BY DEF MapInv, Ordered
<1> QED
  BY <1>1, ListOfClasses, MappedAreLoaded DEF MapInv, ClassesFound

\* Whatever images are loaded in whatever order and whatever aliases are given,
\* a class is found under each of its names and nothing under any other, and
\* objc_copyClassList lists each loaded class once, as long as the map has room
\* for the names.
THEOREM NamesFound ==
  ASSUME NamesFit
  PROVE  Spec => []ClassesFound
<1>1. Init => MapInv
  BY MapStarts DEF Init
<1>2. MapInv /\ [Next]_vars => MapInv'
  <2> SUFFICES ASSUME MapInv, [Next]_vars PROVE MapInv'
    OBVIOUS
  <2>1. ASSUME NEW img \in Image, Load(img) PROVE MapInv'
    BY <2>1, LoadingKeeps DEF Load
  <2>2. ASSUME NEW c \in Class, NEW n \in Name, RegisterAlias(c, n) PROVE MapInv'
    BY <2>2, AliasKeeps
  <2>3. CASE UNCHANGED mapVars
    BY <2>3, MapStutters
  <2> QED
    BY <2>1, <2>2, <2>3 DEF Next, vars
<1>3. MapInv => ClassesFound
  BY InvFinds
<1> QED
  BY <1>1, <1>2, <1>3, PTL DEF Spec
-----------------------------------------------------------------------------
(* The table of selectors: entries are inserted, each name once *)

\* A name, or that of a method without a selector
Readable == SelName \cup {Nil}

LEMMA SelectorConstants ==
  /\ Selectors \in [Image -> Seq(SelName)] /\ Builtins \in Seq(SelName)
  /\ \A t \in Table : Methods[t] \in Seq(SelName)
BY SelectorAssumption

\* r is s with x behind the first b.
HasBetween(r, S, s, x, b) ==
  /\ r \in Seq(S) /\ Len(r) = Len(s) + 1
  /\ \A i \in 1 .. Len(s) + 1 :
       r[i] = IF i <= b THEN s[i] ELSE IF i = b + 1 THEN x ELSE s[i - 1]

LEMMA InsertedAt ==
  ASSUME NEW S, NEW s \in Seq(S), NEW x \in S, NEW b \in 0 .. Len(s)
  PROVE  HasBetween(InsertAt(s, 1 + b, x), S, s, x, b)
<1>1. PICK n \in Nat : n = Len(s)
  BY LenProperties
<1>2. PICK p : p = SubSeq(s, 1, b)
  OBVIOUS
<1>3. PICK q : q = SubSeq(s, 1 + b, n)
  OBVIOUS
<1>4. \A i \in 1 .. n : s[i] \in S
  BY <1>1, ElementOfSeq
<1>5. p \in Seq(S) /\ Len(p) = b /\ \A i \in 1 .. b : p[i] = s[i]
  <2>1. \A i \in 1 .. b : s[i] \in S
    BY <1>1, <1>4
  <2>2. SubSeq(s, 1, b) = [i \in 1 .. b |-> s[i]]
    BY <1>1, SubSeqProperties
  <2>3. p \in [1 .. b -> S]
    BY <1>2, <2>1, <2>2
  <2>4. p \in Seq(S) /\ Len(p) = b
    BY <1>1, <2>3, SeqDef, LenProperties
  <2> QED
    BY <1>2, <2>2, <2>4
<1>6. q \in Seq(S) /\ Len(q) = n - b /\ \A i \in 1 .. n - b : q[i] = s[i + b]
  <2>1. SubSeq(s, 1 + b, n) = [i \in 1 .. n - b |-> s[i + b]]
    BY <1>1, SubSeqProperties
  <2>2. \A i \in 1 .. n - b : i + b \in 1 .. n
    BY <1>1
  <2>3. q \in [1 .. n - b -> S]
    BY <1>3, <1>4, <2>1, <2>2
  <2>4. q \in Seq(S) /\ Len(q) = n - b
    BY <1>1, <2>3, SeqDef, LenProperties
  <2> QED
    BY <1>3, <2>1, <2>4
<1>7. PICK m : m = Append(p, x)
  OBVIOUS
<1>8. m \in Seq(S) /\ Len(m) = b + 1 /\ m[b + 1] = x /\ \A i \in 1 .. b : m[i] = s[i]
  BY <1>5, <1>7, AppendProperties
<1>9. p \o <<x>> = m
  BY <1>5, <1>7, AppendIsConcat
<1>10. PICK r : r = m \o q
  OBVIOUS
<1>11. /\ r \in Seq(S) /\ Len(r) = n + 1
       /\ \A i \in 1 .. n + 1 : r[i] = IF i <= b + 1 THEN m[i] ELSE q[i - (b + 1)]
  <2>1. /\ m \o q \in Seq(S) /\ Len(m \o q) = Len(m) + Len(q)
        /\ \A i \in 1 .. Len(m) + Len(q) :
             (m \o q)[i] = IF i <= Len(m) THEN m[i] ELSE q[i - Len(m)]
    BY <1>6, <1>8, ConcatProperties
  <2>2. (b + 1) + (n - b) = n + 1
    BY <1>1
  <2>3. /\ r \in Seq(S) /\ Len(r) = (b + 1) + (n - b)
        /\ \A i \in 1 .. (b + 1) + (n - b) : r[i] = IF i <= b + 1 THEN m[i] ELSE q[i - (b + 1)]
    BY <1>6, <1>8, <1>10, <2>1
  <2> QED
    BY ONLY <2>2, <2>3
<1>12. InsertAt(s, 1 + b, x) = r
  <2>1. (1 + b) - 1 = b
    BY <1>1
  <2>2. InsertAt(s, 1 + b, x) = SubSeq(s, 1, (1 + b) - 1) \o <<x>> \o SubSeq(s, 1 + b, Len(s))
    BY DEF InsertAt
  <2>3. SubSeq(s, 1, (1 + b) - 1) = p /\ SubSeq(s, 1 + b, Len(s)) = q
    BY <1>1, <1>2, <1>3, <2>1
  <2> QED
    BY <1>9, <1>10, <2>2, <2>3
<1>13. ASSUME NEW i \in 1 .. n + 1
       PROVE  r[i] = IF i <= b THEN s[i] ELSE IF i = b + 1 THEN x ELSE s[i - 1]
  <2>1. CASE i <= b
    BY <1>1, <1>8, <1>11, <2>1
  <2>2. CASE i = b + 1
    BY <1>1, <1>8, <1>11, <2>2
  <2>3. CASE i > b + 1
    <3>1. i - (b + 1) \in 1 .. n - b /\ (i - (b + 1)) + b = i - 1
      BY <1>1, <2>3
    <3>2. r[i] = q[i - (b + 1)]
      BY <1>1, <1>11, <2>3
    <3>3. q[i - (b + 1)] = s[i - 1]
      BY <1>6, <3>1
    <3> QED
      BY <1>1, <2>3, <3>2, <3>3
  <2> QED
    BY <1>1, <2>1, <2>2, <2>3
<1> QED
  BY <1>1, <1>11, <1>12, <1>13 DEF HasBetween

\* Names, each once
NamesOnce(table) == table \in Seq(SelName) /\ IsInjective(table)

LEMMA EntryInserted ==
  ASSUME NEW table, NamesOnce(table), NEW n \in SelName
  PROVE  /\ NamesOnce(InsertEntry(table, n)) /\ n \in Range(InsertEntry(table, n))
         /\ Range(table) \subseteq Range(InsertEntry(table, n))
<1>1. table \in Seq(SelName) /\ IsInjective(table)
  BY DEF NamesOnce
<1>2. CASE n \in Range(table)
  BY <1>1, <1>2 DEF InsertEntry, NamesOnce
<1>3. CASE n \notin Range(table)
  <2>1. PICK k \in Nat : k = Len(table)
    BY <1>1, LenProperties
  <2>2. DOMAIN table = 1 .. k
    BY <1>1, <2>1, LenProperties
  <2>3. PICK b : b = Cardinality({i \in DOMAIN table : SelBucket[table[i]] < SelBucket[n]})
    OBVIOUS
  <2>4. b \in 0 .. k
    <3> DEFINE T == {i \in 1 .. k : SelBucket[table[i]] < SelBucket[n]}
    <3>1. IsFiniteSet(1 .. k) /\ Cardinality(1 .. k) = k
      BY FS_Interval
    <3>2. T \in SUBSET (1 .. k)
      OBVIOUS
    <3>3. b = Cardinality(T)
      BY <2>2, <2>3
    <3> HIDE DEF T
    <3>4. IsFiniteSet(T) /\ Cardinality(T) <= k
      BY <3>1, <3>2, FS_Subset
    <3>5. Cardinality(T) \in Nat
      BY <3>4, FS_CardinalityType
    <3> QED
      BY <3>3, <3>4, <3>5
  <2>5. PICK r : r = InsertAt(table, 1 + b, n)
    OBVIOUS
  <2>6. InsertEntry(table, n) = r
    BY <1>3, <2>3, <2>5 DEF InsertEntry
  <2>7. /\ r \in Seq(SelName) /\ Len(r) = k + 1
        /\ \A i \in 1 .. k + 1 :
             r[i] = IF i <= b THEN table[i] ELSE IF i = b + 1 THEN n ELSE table[i - 1]
    <3>1. HasBetween(r, SelName, table, n, b)
      BY <1>1, <2>1, <2>4, <2>5, InsertedAt
    <3> QED
      BY <2>1, <3>1 DEF HasBetween
  <2>8. DOMAIN r = 1 .. k + 1
    BY <2>7, LenProperties
  <2>9. \A i \in 1 .. k : table[i] # n
    BY <1>3, <2>2 DEF Range
  \* Where each of the old ones has come from
  <2>10. ASSUME NEW i \in 1 .. k + 1, i # b + 1
         PROVE  \E o \in 1 .. k : r[i] = table[o] /\ i = IF o <= b THEN o ELSE o + 1
    <3>1. CASE i <= b
      BY <2>4, <2>7, <3>1
    <3>2. CASE i > b + 1
      <4>1. i - 1 \in 1 .. k /\ ~(i - 1 <= b) /\ i = (i - 1) + 1 /\ r[i] = table[i - 1]
        BY <2>4, <2>7, <3>2
      <4> QED
        BY <4>1
    <3> QED
      BY <2>4, <2>10, <3>1, <3>2
  <2>11. IsInjective(r)
    <3> SUFFICES ASSUME NEW i \in 1 .. k + 1, NEW j \in 1 .. k + 1, r[i] = r[j] PROVE i = j
      BY <2>8 DEF IsInjective
    <3>1. CASE i = b + 1 /\ j = b + 1
      BY <3>1
    <3>2. CASE i = b + 1 /\ j # b + 1
      BY <2>4, <2>7, <2>9, <2>10, <3>2
    <3>3. CASE i # b + 1 /\ j = b + 1
      BY <2>4, <2>7, <2>9, <2>10, <3>3
    <3>4. CASE i # b + 1 /\ j # b + 1
      <4>1. PICK o \in 1 .. k : r[i] = table[o] /\ i = IF o <= b THEN o ELSE o + 1
        BY <2>10, <3>4
      <4>2. PICK u \in 1 .. k : r[j] = table[u] /\ j = IF u <= b THEN u ELSE u + 1
        BY <2>10, <3>4
      <4>3. o = u
        BY <1>1, <2>2, <4>1, <4>2 DEF IsInjective
      <4> QED
        BY <4>1, <4>2, <4>3
    <3> QED
      BY <3>1, <3>2, <3>3, <3>4
  <2>12. \A o \in 1 .. k : \E i \in 1 .. k + 1 : r[i] = table[o]
    <3> SUFFICES ASSUME NEW o \in 1 .. k PROVE \E i \in 1 .. k + 1 : r[i] = table[o]
      OBVIOUS
    <3>1. CASE o <= b
      BY <2>7, <3>1
    <3>2. CASE o > b
      <4>1. o + 1 \in 1 .. k + 1 /\ ~(o + 1 <= b) /\ o + 1 # b + 1 /\ (o + 1) - 1 = o
        BY <2>4, <3>2
      <4>2. r[o + 1] = table[o]
        BY <2>7, <4>1
      <4> QED
        BY <4>1, <4>2
    <3> QED
      BY <2>4, <3>1, <3>2
  <2>13. Range(table) \subseteq Range(r)
    BY <2>2, <2>8, <2>12 DEF Range
  <2>14. n \in Range(r)
    <3>1. b + 1 \in 1 .. k + 1 /\ r[b + 1] = n
      BY <2>4, <2>7
    <3> QED
      BY <2>8, <3>1 DEF Range
  <2> QED
    BY <2>6, <2>7, <2>11, <2>13, <2>14 DEF NamesOnce
<1> QED
  BY <1>2, <1>3

\* The table with one more name, unless there is none or no memory for it.
WithName(table, n, fails) ==
  IF n = Nil \/ <<"entry", n>> \in fails THEN table ELSE InsertEntry(table, n)

Names(f, table, names, fails, n) ==
  f = [k \in 0 .. n |-> IF k = 0 THEN table ELSE WithName(f[k - 1], names[k], fails)]

LEMMA NamesExists ==
  ASSUME NEW table, NEW names, NEW fails, NEW n \in Nat
  PROVE  \E f : Names(f, table, names, fails, n)
<1> DEFINE T == {m \in Nat : ~\E f : Names(f, table, names, fails, m)}
<1> SUFFICES ASSUME T # {} PROVE FALSE
  OBVIOUS
<1>1. PICK m \in T : \A y \in T : m <= y
  BY Least
<1>2. m \in Nat /\ ~\E f : Names(f, table, names, fails, m)
  BY <1>1
<1>3. CASE m = 0
  <2>1. PICK f : f = [k \in 0 .. m |-> table]
    OBVIOUS
  <2>2. f = [k \in 0 .. m |-> IF k = 0 THEN table ELSE WithName(f[k - 1], names[k], fails)]
    BY <1>3, <2>1
  <2> QED
    BY <1>2, <2>2 DEF Names
<1>4. CASE m # 0
  <2>1. m - 1 \in Nat /\ m - 1 \notin T
    BY <1>1, <1>2, <1>4
  <2>2. PICK f : Names(f, table, names, fails, m - 1)
    BY <2>1
  <2>3. \A k \in 0 .. m - 1 : f[k] = IF k = 0 THEN table ELSE WithName(f[k - 1], names[k], fails)
    BY <2>2 DEF Names
  <2>4. PICK g : g = [k \in 0 .. m |-> IF k = m THEN WithName(f[m - 1], names[m], fails) ELSE f[k]]
    OBVIOUS
  <2>5. \A k \in 0 .. m - 1 : g[k] = f[k]
    BY <1>2, <2>4
  <2>6. ASSUME NEW k \in 0 .. m
        PROVE  g[k] = IF k = 0 THEN table ELSE WithName(g[k - 1], names[k], fails)
    <3>1. CASE k = m
      <4>1. k # 0 /\ m - 1 \in 0 .. m - 1 /\ g[k] = WithName(f[m - 1], names[m], fails)
        BY <1>2, <1>4, <2>4, <3>1
      <4>2. g[k - 1] = f[m - 1]
        BY <2>5, <3>1, <4>1
      <4> QED
        BY <3>1, <4>1, <4>2
    <3>2. CASE k # m
      <4>1. k \in 0 .. m - 1 /\ (k # 0 => k - 1 \in 0 .. m - 1)
        BY <1>2, <3>2
      <4> QED
        BY <2>3, <2>5, <4>1
    <3> QED
      BY <3>1, <3>2
  <2>7. g = [k \in 0 .. m |-> IF k = 0 THEN table ELSE WithName(g[k - 1], names[k], fails)]
    BY <2>4, <2>6
  <2> QED
    BY <1>2, <2>7 DEF Names
<1> QED
  BY <1>3, <1>4

LEMMA WithNamesIs ==
  ASSUME NEW table, NEW names, NEW fails, Len(names) \in Nat
  PROVE  \E f : /\ Names(f, table, names, fails, Len(names))
                /\ WithNames(table, names, fails) = f[Len(names)]
<1> DEFINE f == CHOOSE with : Names(with, table, names, fails, Len(names))
<1>1. WithNames(table, names, fails) = f[Len(names)]
  BY DEF WithNames, Names, WithName
<1>2. Names(f, table, names, fails, Len(names))
  BY NamesExists
<1> HIDE DEF f
<1> QED
  BY <1>1, <1>2

\* g has the names of table, and all of its own once.
Extends(g, table) == NamesOnce(g) /\ Range(table) \subseteq Range(g)

LEMMA NamesKept ==
  ASSUME NEW table, NamesOnce(table), NEW names \in Seq(Readable), NEW fails
  PROVE  Extends(WithNames(table, names, fails), table)
<1>1. PICK n \in Nat : n = Len(names)
  BY LenProperties
<1>2. PICK f : Names(f, table, names, fails, n) /\ WithNames(table, names, fails) = f[n]
  BY <1>1, WithNamesIs
<1>3. \A k \in 0 .. n : f[k] = IF k = 0 THEN table ELSE WithName(f[k - 1], names[k], fails)
  BY <1>2 DEF Names
<1>4. \A k \in 1 .. n : names[k] \in Readable
  BY <1>1, ElementOfSeq
<1> DEFINE T == {k \in Nat : k <= n /\ ~Extends(f[k], table)}
<1>5. CASE T = {}
  <2>1. n \in Nat /\ n <= n /\ n \notin T
    BY <1>5
  <2> QED
    BY <1>2, <2>1
<1>6. CASE T # {}
  <2>1. PICK k \in T : \A y \in T : k <= y
    BY <1>6, Least
  <2>2. k \in Nat /\ k <= n /\ ~Extends(f[k], table)
    BY <2>1
  <2>3. CASE k = 0
    BY <1>3, <2>2, <2>3 DEF Extends
  <2>4. CASE k # 0
    <3>1. k - 1 \in Nat /\ k - 1 <= n /\ k - 1 \notin T
      BY <2>1, <2>2, <2>4
    <3>2. Extends(f[k - 1], table)
      BY <3>1
    <3>3. f[k] = WithName(f[k - 1], names[k], fails) /\ names[k] \in Readable
      BY <1>3, <1>4, <2>2, <2>4
    <3>4. CASE names[k] = Nil \/ <<"entry", names[k]>> \in fails
      BY <2>2, <3>2, <3>3, <3>4 DEF WithName
    <3>5. CASE ~(names[k] = Nil \/ <<"entry", names[k]>> \in fails)
      <4>1. f[k] = InsertEntry(f[k - 1], names[k]) /\ names[k] \in SelName
        BY <3>3, <3>5 DEF WithName, Readable
      <4>2. NamesOnce(f[k]) /\ Range(f[k - 1]) \subseteq Range(f[k])
        BY <3>2, <4>1, EntryInserted DEF Extends
      <4> QED
        BY <2>2, <3>2, <4>2 DEF Extends
    <3> QED
      BY <3>4, <3>5
  <2> QED
    BY <2>3, <2>4
<1> QED
  BY <1>5, <1>6
-----------------------------------------------------------------------------
(* Computations in steps, on the values of a set *)

LEMMA UpAll ==
  ASSUME NEW m \in Nat, NEW n \in Nat, NEW V, NEW f, f[m] \in V,
         \A k \in m + 1 .. n : f[k - 1] \in V => f[k] \in V
  PROVE  \A k \in m .. n : f[k] \in V
<1> DEFINE T == {k \in Nat : k \in m .. n /\ f[k] \notin V}
<1> SUFFICES ASSUME T # {} PROVE FALSE
  OBVIOUS
<1>1. PICK k \in T : \A y \in T : k <= y
  BY Least
<1>2. k \in Nat /\ k \in m .. n /\ f[k] \notin V
  BY <1>1
<1>3. k # m
  BY <1>2
<1>4. k - 1 \in Nat /\ k - 1 \in m .. n /\ k - 1 \notin T /\ k \in m + 1 .. n
  BY <1>1, <1>2, <1>3
<1> QED
  BY <1>2, <1>4

\* f goes up from a at m, and down from a at n.
GoesUp(f, m, n, a, step) ==
  f[m] = a /\ \A k \in m + 1 .. n : f[k] = step[<<f[k - 1], k>>]
GoesDown(f, n, a, step) ==
  f[n] = a /\ \A k \in 1 .. n - 1 : f[k] = step[<<f[k + 1], k>>]

LEMMA UpExists ==
  ASSUME NEW m \in Nat, NEW n \in Nat, m <= n, NEW V, NEW a \in V,
         NEW step \in [V \X (m + 1 .. n) -> V]
  PROVE  \E f \in [m .. n -> V] : GoesUp(f, m, n, a, step)
<1> DEFINE Good(i) == \E f \in [m .. i -> V] : GoesUp(f, m, i, a, step)
           T == {i \in Nat : i \in m .. n /\ ~Good(i)}
<1> SUFFICES ASSUME T # {} PROVE FALSE
  OBVIOUS
<1>1. PICK i \in T : \A y \in T : i <= y
  BY Least
<1>2. i \in Nat /\ i \in m .. n /\ ~Good(i)
  BY <1>1
<1>3. CASE i = m
  <2>1. PICK f : f = [k \in m .. i |-> a]
    OBVIOUS
  <2>2. f \in [m .. i -> V] /\ f[m] = a /\ m + 1 .. i = {}
    BY <1>3, <2>1
  <2>3. GoesUp(f, m, i, a, step)
    BY <2>2 DEF GoesUp
  <2> QED
    BY <1>2, <2>2, <2>3
<1>4. CASE i # m
  <2>1. i - 1 \in Nat /\ i - 1 \in m .. n /\ i - 1 \notin T
    BY <1>1, <1>2, <1>4
  <2>2. PICK f \in [m .. i - 1 -> V] :
          f[m] = a /\ \A k \in m + 1 .. i - 1 : f[k] = step[<<f[k - 1], k>>]
    BY <2>1 DEF GoesUp
  <2>3. i - 1 \in m .. i - 1 /\ i \in m + 1 .. n /\ f[i - 1] \in V
    BY <1>2, <2>1
  <2>4. step[<<f[i - 1], i>>] \in V
    BY <2>3
  <2>5. PICK g : g = [k \in m .. i |-> IF k = i THEN step[<<f[i - 1], i>>] ELSE f[k]]
    OBVIOUS
  <2>6. \A k \in m .. i - 1 : g[k] = f[k]
    BY <1>2, <2>5
  <2>7. g \in [m .. i -> V]
    <3>1. \A k \in m .. i : k = i \/ k \in m .. i - 1
      BY <1>2
    <3>2. \A k \in m .. i : g[k] \in V
      BY <2>2, <2>4, <2>5, <3>1
    <3> QED
      BY <2>5, <3>2
  <2>8. g[m] = a
    BY <2>1, <2>2, <2>6
  <2>9. ASSUME NEW k \in m + 1 .. i PROVE g[k] = step[<<g[k - 1], k>>]
    <3>1. CASE k = i
      <4>1. i \in m .. i
        BY <1>2
      <4>2. g[i] = step[<<f[i - 1], i>>]
        BY <2>5, <4>1
      <4>3. g[i - 1] = f[i - 1]
        BY <2>3, <2>6
      <4> QED
        BY ONLY <3>1, <4>2, <4>3
    <3>2. CASE k # i
      <4>1. k \in m .. i - 1 /\ k - 1 \in m .. i - 1 /\ k \in m + 1 .. i - 1
        BY <1>2, <3>2
      <4> QED
        BY <2>2, <2>6, <4>1
    <3> QED
      BY <3>1, <3>2
  <2>10. GoesUp(g, m, i, a, step)
    BY <2>8, <2>9 DEF GoesUp
  <2> QED
    BY <1>2, <2>7, <2>10
<1> QED
  BY <1>3, <1>4

LEMMA DownAll ==
  ASSUME NEW m \in Nat, NEW n \in Nat, NEW V, NEW f, f[n] \in V,
         \A k \in m .. n - 1 : f[k + 1] \in V => f[k] \in V
  PROVE  \A k \in m .. n : f[k] \in V
<1> SUFFICES ASSUME m <= n PROVE \A k \in m .. n : f[k] \in V
  OBVIOUS
<1>1. PICK g : g = [k \in 0 .. n - m |-> f[n - k]]
  OBVIOUS
<1>2. g[0] \in V
  BY <1>1
<1>3. ASSUME NEW k \in 0 + 1 .. n - m, g[k - 1] \in V PROVE g[k] \in V
  <2>1. n - k \in m .. n - 1 /\ k \in 0 .. n - m /\ k - 1 \in 0 .. n - m /\ n - (k - 1) = (n - k) + 1
    OBVIOUS
  <2>2. g[k] = f[n - k] /\ g[k - 1] = f[(n - k) + 1]
    BY <1>1, <2>1
  <2> QED
    BY <1>3, <2>1, <2>2
<1>4. 0 \in Nat /\ n - m \in Nat
  OBVIOUS
<1>5. \A k \in 0 .. n - m : g[k] \in V
  BY <1>2, <1>3, <1>4, UpAll
<1>6. ASSUME NEW k \in m .. n PROVE f[k] \in V
  <2>1. n - k \in 0 .. n - m /\ n - (n - k) = k
    OBVIOUS
  <2> QED
    BY <1>1, <1>5, <2>1
<1> QED
  BY <1>6

LEMMA DownExists ==
  ASSUME NEW n \in Nat \ {0}, NEW V, NEW a \in V, NEW step \in [V \X (1 .. n - 1) -> V]
  PROVE  \E f \in [1 .. n -> V] : GoesDown(f, n, a, step)
<1>1. PICK back : back = [x \in V \X (1 + 1 .. n) |-> step[<<x[1], n - (x[2] - 1)>>]]
  OBVIOUS
<1>2. \A v \in V, k \in 1 + 1 .. n : n - (k - 1) \in 1 .. n - 1
  OBVIOUS
<1>3. back \in [V \X (1 + 1 .. n) -> V] /\ \A v \in V, k \in 1 + 1 .. n :
        back[<<v, k>>] = step[<<v, n - (k - 1)>>]
  BY <1>1, <1>2
<1>4. 1 \in Nat /\ n \in Nat /\ 1 <= n
  OBVIOUS
<1>5. PICK g \in [1 .. n -> V] : GoesUp(g, 1, n, a, back)
  BY <1>3, <1>4, UpExists
<1>6. PICK f : f = [k \in 1 .. n |-> g[n - (k - 1)]]
  OBVIOUS
<1>7. f \in [1 .. n -> V]
  <2>1. \A k \in 1 .. n : n - (k - 1) \in 1 .. n
    OBVIOUS
  <2> QED
    BY <1>6, <2>1
<1>8. f[n] = a
  BY <1>4, <1>5, <1>6 DEF GoesUp
<1>9. ASSUME NEW k \in 1 .. n - 1 PROVE f[k] = step[<<f[k + 1], k>>]
  <2>1. PICK j : j = n - (k - 1)
    OBVIOUS
  <2>2. /\ j \in 1 + 1 .. n /\ j - 1 \in 1 .. n /\ n - (j - 1) = k
        /\ k \in 1 .. n /\ k + 1 \in 1 .. n /\ n - ((k + 1) - 1) = j - 1
    BY <2>1
  <2>3. f[k] = g[j] /\ f[k + 1] = g[j - 1]
    BY <1>6, <2>1, <2>2
  <2>4. g[j] = back[<<g[j - 1], j>>] /\ g[j - 1] \in V
    BY <1>5, <2>2 DEF GoesUp
  <2>5. back[<<g[j - 1], j>>] = step[<<g[j - 1], n - (j - 1)>>]
    BY <1>3, <2>2, <2>4
  <2> QED
    BY <2>2, <2>3, <2>4, <2>5
<1>10. GoesDown(f, n, a, step)
  BY <1>8, <1>9 DEF GoesDown
<1> QED
  BY <1>7, <1>10
-----------------------------------------------------------------------------
(* New selectors *)

FrozenStep(s, n, fails) == IF <<"frozen", n>> \in fails THEN s ELSE Append(s, n)
Freezes(f, table, fails, n) ==
  f = [k \in 0 .. n |-> IF k = 0 THEN <<>> ELSE FrozenStep(f[k - 1], table[k], fails)]

LEMMA FreezesExists ==
  ASSUME NEW table \in Seq(SelName), NEW fails, NEW n \in Nat, n = Len(table)
  PROVE  \E f : Freezes(f, table, fails, n)
<1> DEFINE V == Seq(SelName)
<1>1. 0 \in Nat /\ 0 <= n /\ 0 + 1 = 1 /\ <<>> \in V
  BY EmptySeq
<1>2. \A k \in 1 .. n : table[k] \in SelName
  BY ElementOfSeq
<1>3. \A v \in V, k \in 1 .. n : FrozenStep(v, table[k], fails) \in V
  BY <1>2, AppendProperties DEF FrozenStep
<1> HIDE DEF V
<1>4. PICK step : step = [x \in V \X (0 + 1 .. n) |-> FrozenStep(x[1], table[x[2]], fails)]
  OBVIOUS
<1>5. /\ step \in [V \X (0 + 1 .. n) -> V]
      /\ \A v \in V, k \in 1 .. n : step[<<v, k>>] = FrozenStep(v, table[k], fails)
  BY <1>1, <1>3, <1>4
<1>6. PICK a : a = <<>>
  OBVIOUS
<1>7. PICK f \in [0 .. n -> V] : GoesUp(f, 0, n, a, step)
  BY <1>1, <1>5, <1>6, UpExists
<1>8. ASSUME NEW k \in 0 .. n
      PROVE  f[k] = IF k = 0 THEN a ELSE FrozenStep(f[k - 1], table[k], fails)
  <2>1. CASE k = 0
    BY <1>7, <2>1 DEF GoesUp
  <2>2. CASE k # 0
    <3>1. k \in 0 + 1 .. n /\ k \in 1 .. n /\ k - 1 \in 0 .. n
      BY <2>2
    <3>2. f[k] = step[<<f[k - 1], k>>] /\ f[k - 1] \in V
      BY <1>7, <3>1 DEF GoesUp
    <3> QED
      BY <1>5, <2>2, <3>1, <3>2
  <2> QED
    BY <2>1, <2>2
<1>9. f = [k \in 0 .. n |-> IF k = 0 THEN a ELSE FrozenStep(f[k - 1], table[k], fails)]
  BY <1>7, <1>8
<1> QED
  BY <1>6, <1>9 DEF Freezes

LEMMA AppendedOnce ==
  ASSUME NEW s \in Seq(SelName), IsInjective(s), NEW x \in SelName, x \notin Range(s)
  PROVE  /\ NamesOnce(Append(s, x)) /\ Range(Append(s, x)) = Range(s) \cup {x}
<1>1. PICK n \in Nat : n = Len(s) /\ DOMAIN s = 1 .. n
  BY LenProperties
<1>2. PICK r : r = Append(s, x)
  OBVIOUS
<1>3. /\ r \in Seq(SelName) /\ Len(r) = n + 1 /\ r[n + 1] = x
      /\ \A i \in 1 .. n : r[i] = s[i]
  BY <1>1, <1>2, AppendProperties
<1>4. DOMAIN r = 1 .. n + 1
  BY <1>3, LenProperties
<1>5. \A i \in 1 .. n + 1 : i \in 1 .. n \/ i = n + 1
  OBVIOUS
<1>6. Range(r) = Range(s) \cup {x}
  <2>1. n + 1 \in 1 .. n + 1 /\ \A i \in 1 .. n : i \in 1 .. n + 1
    OBVIOUS
  <2> QED
    BY <1>1, <1>3, <1>4, <1>5, <2>1 DEF Range
<1>7. \A i \in 1 .. n : s[i] # x
  BY <1>1 DEF Range
<1>8. IsInjective(r)
  <2> SUFFICES ASSUME NEW i \in 1 .. n + 1, NEW j \in 1 .. n + 1, r[i] = r[j] PROVE i = j
    BY <1>4 DEF IsInjective
  <2>1. i \in 1 .. n /\ j \in 1 .. n => i = j
    BY <1>1, <1>3 DEF IsInjective
  <2> QED
    BY <1>3, <1>5, <1>7, <2>1
<1> QED
  BY <1>2, <1>3, <1>6, <1>8 DEF NamesOnce

\* The new selectors have the names of the entries that there was memory for,
\* each once.
LEMMA FrozenAre ==
  ASSUME NEW table, NamesOnce(table), NEW fails
  PROVE  /\ NamesOnce(Frozen(table, fails))
         /\ Range(Frozen(table, fails)) = {x \in Range(table) : <<"frozen", x>> \notin fails}
<1>1. table \in Seq(SelName) /\ IsInjective(table)
  BY DEF NamesOnce
<1>2. PICK n \in Nat : n = Len(table) /\ DOMAIN table = 1 .. n
  BY <1>1, LenProperties
<1>3. \A k \in 1 .. n : table[k] \in SelName
  BY <1>1, <1>2, ElementOfSeq
<1> DEFINE f == CHOOSE made : Freezes(made, table, fails, n)
<1>4. Frozen(table, fails) = f[n]
  BY <1>2 DEF Frozen, Freezes, FrozenStep
<1>5. Freezes(f, table, fails, n)
  BY <1>1, <1>2, FreezesExists
<1> HIDE DEF f
<1>6. \A k \in 0 .. n : f[k] = IF k = 0 THEN <<>> ELSE FrozenStep(f[k - 1], table[k], fails)
  BY <1>5 DEF Freezes
<1> DEFINE Upto(k) == {table[i] : i \in {j \in 1 .. k : <<"frozen", table[j]>> \notin fails}}
           Good(k) == NamesOnce(f[k]) /\ Range(f[k]) = Upto(k)
           T == {k \in Nat : k <= n /\ ~Good(k)}
<1>7. T = {}
  <2> SUFFICES ASSUME T # {} PROVE FALSE
    OBVIOUS
  <2>1. PICK k \in T : \A y \in T : k <= y
    BY Least
  <2>2. k \in Nat /\ k <= n /\ ~Good(k)
    BY <2>1
  <2>3. CASE k = 0
    <3>1. f[k] = <<>>
      BY <1>6, <2>2, <2>3
    <3>2. NamesOnce(f[k])
      BY <3>1, EmptySeq DEF NamesOnce, IsInjective
    <3>3. Range(f[k]) = {} /\ Upto(k) = {}
      BY <2>3, <3>1 DEF Range
    <3> QED
      BY <2>2, <3>2, <3>3
  <2>4. CASE k # 0
    <3>1. k - 1 \in Nat /\ k - 1 <= n /\ k \in 1 .. n /\ k \in 0 .. n
      <4>1. k \in Nat /\ k <= n
        BY <2>2
      <4> HIDE DEF T, Good
      <4> QED
        BY <2>4, <4>1
    <3>2. Good(k - 1)
      <4> HIDE DEF Good
      <4>1. ~(k <= k - 1)
        BY <3>1
      <4>2. k - 1 \notin T
        <5> HIDE DEF T
        <5> QED
          BY <2>1, <4>1
      <4> QED
        BY <3>1, <4>2
    <3>3. PICK s : s = f[k - 1]
      OBVIOUS
    <3>4. s \in Seq(SelName) /\ IsInjective(s) /\ Range(s) = Upto(k - 1)
      BY <3>2, <3>3 DEF NamesOnce
    <3>5. f[k] = FrozenStep(s, table[k], fails)
      BY <1>6, <2>4, <3>1, <3>3
    <3>6. \A j : j \in 1 .. k <=> j \in 1 .. k - 1 \/ j = k
      BY <3>1
    <3>7. CASE <<"frozen", table[k]>> \in fails
      <4>1. Upto(k) = Upto(k - 1)
        BY <3>6, <3>7
      <4>2. f[k] = s
        BY <3>5, <3>7 DEF FrozenStep
      <4> HIDE DEF Upto
      <4> QED
        BY <2>2, <3>4, <4>1, <4>2 DEF NamesOnce
    <3>8. CASE <<"frozen", table[k]>> \notin fails
      <4>1. Upto(k) = Upto(k - 1) \cup {table[k]}
        BY <3>6, <3>8
      <4>2. f[k] = Append(s, table[k]) /\ table[k] \in SelName
        BY <1>3, <3>1, <3>5, <3>8 DEF FrozenStep
      <4>3. table[k] \notin Upto(k - 1)
        <5>1. \A i \in 1 .. k - 1 : table[i] # table[k]
          BY <1>1, <1>2, <3>1 DEF IsInjective
        <5> QED
          BY <5>1
      <4> HIDE DEF Upto
      <4>4. NamesOnce(f[k]) /\ Range(f[k]) = Range(s) \cup {table[k]}
        BY <3>4, <4>2, <4>3, AppendedOnce
      <4> QED
        BY <2>2, <3>4, <4>1, <4>4
    <3> QED
      BY <3>7, <3>8
  <2> QED
    BY <2>3, <2>4
<1>8. Good(n)
  <2>1. n <= n /\ n \notin T
    BY <1>7
  <2> QED
    BY <2>1
<1>9. Upto(n) = {x \in Range(table) : <<"frozen", x>> \notin fails}
  BY <1>2 DEF Range
<1> QED
  BY <1>4, <1>8, <1>9
-----------------------------------------------------------------------------
(* The names that are collected *)

Flattens(f, seqs, n) ==
  f = [i \in 1 .. n |-> IF i = 1 THEN seqs[i] ELSE f[i - 1] \o seqs[i]]

LEMMA FlattensExists ==
  ASSUME NEW seqs, NEW n \in Nat
  PROVE  \E f : Flattens(f, seqs, n)
<1> DEFINE T == {m \in Nat : ~\E f : Flattens(f, seqs, m)}
<1> SUFFICES ASSUME T # {} PROVE FALSE
  OBVIOUS
<1>1. PICK m \in T : \A y \in T : m <= y
  BY Least
<1>2. m \in Nat /\ ~\E f : Flattens(f, seqs, m)
  BY <1>1
<1>3. CASE m = 0
  <2>1. PICK f : f = [i \in 1 .. m |-> seqs[i]]
    OBVIOUS
  <2>2. 1 .. m = {}
    BY <1>3
  <2>3. f = [i \in 1 .. m |-> IF i = 1 THEN seqs[i] ELSE f[i - 1] \o seqs[i]]
    BY <2>1, <2>2
  <2> QED
    BY <1>2, <2>3 DEF Flattens
<1>4. CASE m # 0
  <2>1. m - 1 \in Nat /\ m - 1 \notin T
    BY <1>1, <1>2, <1>4
  <2>2. PICK f : Flattens(f, seqs, m - 1)
    BY <2>1
  <2>3. \A i \in 1 .. m - 1 : f[i] = IF i = 1 THEN seqs[i] ELSE f[i - 1] \o seqs[i]
    BY <2>2 DEF Flattens
  <2>4. PICK x : x = IF m = 1 THEN seqs[m] ELSE f[m - 1] \o seqs[m]
    OBVIOUS
  <2>5. PICK g : g = [i \in 1 .. m |-> IF i = m THEN x ELSE f[i]]
    OBVIOUS
  <2>6. \A i \in 1 .. m - 1 : g[i] = f[i]
    BY <1>2, <2>5
  <2>7. ASSUME NEW i \in 1 .. m
        PROVE  g[i] = IF i = 1 THEN seqs[i] ELSE g[i - 1] \o seqs[i]
    <3>1. CASE i = m
      <4>1. g[i] = x
        BY <2>5, <3>1
      <4>2. i # 1 => i - 1 \in 1 .. m - 1
        BY <1>2, <3>1
      <4>3. i # 1 => g[i - 1] = f[i - 1]
        BY <2>6, <4>2
      <4> QED
        BY <2>4, <3>1, <4>1, <4>3
    <3>2. CASE i # m
      <4>1. i \in 1 .. m - 1 /\ (i # 1 => i - 1 \in 1 .. m - 1)
        BY <1>2, <3>2
      <4> QED
        BY <2>3, <2>6, <4>1
    <3> QED
      BY <3>1, <3>2
  <2>8. g = [i \in 1 .. m |-> IF i = 1 THEN seqs[i] ELSE g[i - 1] \o seqs[i]]
    BY <2>5, <2>7
  <2> QED
    BY <1>2, <2>8 DEF Flattens
<1> QED
  BY <1>3, <1>4

LEMMA Flattened ==
  ASSUME NEW S, NEW seqs \in Seq(Seq(S)), Len(seqs) # 0
  PROVE  FlattenSeq(seqs) \in Seq(S)
<1>1. PICK n \in Nat : n = Len(seqs)
  BY LenProperties
<1> DEFINE f == CHOOSE flatten : Flattens(flatten, seqs, n)
<1>2. FlattenSeq(seqs) = f[n]
  BY <1>1 DEF FlattenSeq, Flattens
<1>3. Flattens(f, seqs, n)
  BY FlattensExists
<1> HIDE DEF f
<1>4. \A i \in 1 .. n : f[i] = IF i = 1 THEN seqs[i] ELSE f[i - 1] \o seqs[i]
  BY <1>3 DEF Flattens
<1>5. \A i \in 1 .. n : seqs[i] \in Seq(S)
  BY <1>1, ElementOfSeq
<1> DEFINE T == {i \in Nat : i \in 1 .. n /\ f[i] \notin Seq(S)}
<1>6. CASE T = {}
  <2>1. n \in Nat /\ n \in 1 .. n /\ n \notin T
    BY <1>1, <1>6
  <2> QED
    BY <1>2, <2>1
<1>7. CASE T # {}
  <2>1. PICK i \in T : \A y \in T : i <= y
    BY <1>7, Least
  <2>2. i \in Nat /\ i \in 1 .. n /\ f[i] \notin Seq(S)
    BY <2>1
  <2>3. i # 1
    BY <1>4, <1>5, <2>2
  <2>4. i - 1 \in Nat /\ i - 1 \in 1 .. n /\ i - 1 \notin T
    BY <2>1, <2>2, <2>3
  <2>5. f[i - 1] \in Seq(S) /\ seqs[i] \in Seq(S) /\ f[i] = f[i - 1] \o seqs[i]
    BY <1>4, <1>5, <2>2, <2>3, <2>4
  <2>6. f[i - 1] \o seqs[i] \in Seq(S)
    BY <2>5, ConcatProperties
  <2> QED
    BY <2>2, <2>5, <2>6
<1> QED
  BY <1>6, <1>7

LEMMA RegionNamesTyped ==
  ASSUME NEW img \in Image, NEW names \in [Region -> Readable]
  PROVE  RegionNames(img, names) \in Seq(Readable)
<1>1. PICK n \in Nat : DOMAIN Selectors[img] = 1 .. n
  BY SelectorConstants, LenProperties
<1>2. \A i \in 1 .. n : <<img, i>> \in Region
  BY <1>1 DEF Region
<1>3. RegionNames(img, names) \in [1 .. n -> Readable]
  BY <1>1, <1>2 DEF RegionNames
<1> QED
  BY <1>3, SeqDef

LEMMA NamesReadable ==
  ASSUME NEW s \in Seq(SelName)
  PROVE  s \in Seq(Readable)
<1>1. PICK n \in Nat : s \in [1 .. n -> SelName]
  BY SeqDef
<1>2. s \in [1 .. n -> Readable]
  BY <1>1 DEF Readable
<1> QED
  BY <1>2, SeqDef

LEMMA MethodNamesTyped ==
  ASSUME NEW t \in Table
  PROVE  MethodNames(t) \in Seq(Readable)
<1>1. PICK p \in Seq(SelName) : p = Methods[t]
  BY SelectorConstants
<1>2. PICK n \in Nat : n = Len(p)
  BY LenProperties
<1>3. DOMAIN p = 1 .. n /\ \A i \in 1 .. n : p[i] \in SelName
  BY <1>2, LenProperties, ElementOfSeq
<1>4. MethodNames(t) = [i \in 1 .. n |-> IF selOf[<<t, i>>] = Nil THEN Nil ELSE p[i]]
  BY <1>1, <1>3 DEF MethodNames
<1>5. MethodNames(t) \in [1 .. n -> Readable]
  BY <1>3, <1>4 DEF Readable
<1> QED
  BY <1>5, SeqDef

LEMMA NamesCollected ==
  ASSUME NEW r \in Seq(Image), NEW map \in Map, NEW names \in [Region -> Readable]
  PROVE  /\ CollectedNames(r, map, names) \in Seq(Seq(Readable))
         /\ Len(CollectedNames(r, map, names)) # 0
<1>1. PICK n \in Nat : n = Len(r)
  BY LenProperties
<1>2. DOMAIN r = 1 .. n /\ \A k \in 1 .. n : r[k] \in Image
  BY <1>1, LenProperties, ElementOfSeq
<1>3. PICK p : p = [k \in 1 .. n |-> RegionNames(r[k], names)]
  OBVIOUS
<1>4. p \in Seq(Seq(Readable))
  <2>1. \A k \in 1 .. n : RegionNames(r[k], names) \in Seq(Readable)
    BY <1>2, RegionNamesTyped
  <2>2. p \in [1 .. n -> Seq(Readable)]
    BY <1>3, <2>1
  <2> QED
    BY <2>2, SeqDef
<1>5. PICK q : q = [i \in 1 .. MapSize |->
                      IF map[i - 1] = Nil THEN <<>>
                      ELSE MethodNames(<<map[i - 1].cls, "instances">>)
                           \o MethodNames(<<map[i - 1].cls, "class">>)]
  OBVIOUS
<1>6. q \in Seq(Seq(Readable))
  <2>1. ASSUME NEW i \in 1 .. MapSize PROVE q[i] \in Seq(Readable)
    <3>1. CASE map[i - 1] = Nil
      BY <1>5, <3>1, EmptySeq
    <3>2. CASE map[i - 1] # Nil
      <4>1. i - 1 \in Slot
        BY Constants DEF Slot
      <4>2. map[i - 1].cls \in Class
        BY <3>2, <4>1, EntryAt
      <4>3. <<map[i - 1].cls, "instances">> \in Table /\ <<map[i - 1].cls, "class">> \in Table
        BY <4>2 DEF Table, Side
      <4>4. PICK u, v : /\ u = MethodNames(<<map[i - 1].cls, "instances">>)
                        /\ v = MethodNames(<<map[i - 1].cls, "class">>)
        OBVIOUS
      <4>5. u \in Seq(Readable) /\ v \in Seq(Readable)
        BY <4>3, <4>4, MethodNamesTyped
      <4>6. q[i] = u \o v
        BY <1>5, <3>2, <4>4
      <4> QED
        BY <4>5, <4>6, ConcatProperties
    <3> QED
      BY <3>1, <3>2
  <2>2. q \in [1 .. MapSize -> Seq(Readable)] /\ MapSize \in Nat
    BY <1>5, <2>1, Constants
  <2> QED
    BY <2>2, SeqDef
<1>7. PICK w : w = p \o q
  OBVIOUS
<1>8. w \in Seq(Seq(Readable))
  BY <1>4, <1>6, <1>7, ConcatProperties
<1>9. PICK b \in Seq(Readable) : b = Builtins
  BY SelectorConstants, NamesReadable
<1>10. PICK x : x = Append(w, b)
  OBVIOUS
<1>11. CollectedNames(r, map, names) = w \o <<b>>
  BY <1>2, <1>3, <1>5, <1>7, <1>9 DEF CollectedNames
<1>12. w \o <<b>> = x
  BY <1>8, <1>9, <1>10, AppendIsConcat
<1>13. x \in Seq(Seq(Readable)) /\ Len(x) = Len(w) + 1 /\ Len(w) \in Nat
  BY <1>8, <1>10, AppendProperties, LenProperties
<1>14. Len(x) # 0
  BY <1>13
<1> QED
  BY ONLY <1>11, <1>12, <1>13, <1>14

\* Whatever fails, no entry is lost and none is there twice.
LEMMA Collected ==
  ASSUME NamesOnce(entries), NEW r \in Seq(Image), NEW map \in Map,
         NEW names \in [Region -> Readable], NEW fails
  PROVE  Extends(Collect(r, map, names, fails), entries)
<1>1. PICK lists \in Seq(Seq(Readable)) : lists = CollectedNames(r, map, names) /\ Len(lists) # 0
  BY NamesCollected
<1>2. FlattenSeq(lists) \in Seq(Readable)
  BY <1>1, Flattened
<1> QED
  BY <1>1, <1>2, NamesKept DEF Collect
-----------------------------------------------------------------------------
(* Selectors *)

\* Every selector a method uses is the image's own or of the generation that is
\* live. Unless its name is lost, a selector of a region has its own name, and
\* one that was redirected is of a known region and has a slot, so that it is
\* redirected again, or its name lost, when the next generation takes over. What
\* interning answered was live then.
MethodsLive ==
  \A m \in Method :
    IF m[1][1] \in LoadedClasses THEN selOf[m] \in {Nil, generation} ELSE selOf[m] = 0
OwnName(r) == Selectors[r[1]][r[2]]
NamesLive ==
  \A r \in Region :
    \/ OwnName(r) \in lost
    \/ /\ spelled[r] = OwnName(r)
       /\ \/ nameOf[r] = 0
          \/ /\ nameOf[r] = generation /\ r[1] \in Range(regions)
             /\ OwnName(r) \in Range(bySlot)
HandedLive ==
  \A s \in Static :
    handed[s] # Nil => /\ handed[s].at \subseteq loaded
                       /\ handed[s].at = loaded => handed[s].sel \in {0, generation}
SelectorInv ==
  /\ regions \in Seq(Image)
  /\ NamesOnce(entries) /\ IsInjective(bySlot) /\ Range(bySlot) \subseteq Range(entries)
  /\ spelled \in [Region -> Readable] /\ DOMAIN handed = Static
  /\ MethodsLive /\ NamesLive /\ HandedLive

LEMMA OwnNames ==
  ASSUME NEW r \in Region
  PROVE  r[1] \in Image /\ OwnName(r) \in SelName
<1>1. PICK img \in Image : r \in {img} \X DOMAIN Selectors[img]
  BY DEF Region
<1>2. PICK n \in Nat : n = Len(Selectors[img]) /\ DOMAIN Selectors[img] = 1 .. n
  BY SelectorConstants, LenProperties
<1>3. \A i \in 1 .. n : Selectors[img][i] \in SelName
  BY <1>2, SelectorConstants, ElementOfSeq
<1> QED
  BY <1>1, <1>2, <1>3 DEF OwnName

LEMMA SelectorsStart == MapInit /\ SelectorInit => SelectorInv
<1> SUFFICES ASSUME MapInit, SelectorInit PROVE SelectorInv
  OBVIOUS
<1>1. /\ regions = <<>> /\ entries = <<>> /\ bySlot = <<>>
      /\ spelled = [r \in Region |-> OwnName(r)] /\ handed = [s \in Static |-> Nil]
  BY DEF SelectorInit, OwnName
<1>2. DOMAIN <<>> = {} /\ <<>> \in Seq(Image) /\ <<>> \in Seq(SelName)
  BY EmptySeq
<1>3. IsInjective(<<>>) /\ Range(<<>>) = {}
  BY <1>2 DEF IsInjective, Range
<1>4. LoadedClasses = {}
  BY DEF MapInit, LoadedClasses
<1>5. MethodsLive
  BY <1>4 DEF MethodsLive, SelectorInit
<1>6. spelled \in [Region -> Readable] /\ NamesLive
  <2>1. nameOf = [r \in Region |-> 0]
    BY DEF SelectorInit
  <2> QED
    BY <1>1, <2>1, OwnNames DEF NamesLive, Readable
<1>7. DOMAIN handed = Static /\ HandedLive
  BY <1>1 DEF HandedLive
<1> QED
  BY <1>1, <1>2, <1>3, <1>5, <1>6, <1>7 DEF SelectorInv, NamesOnce

\* What is read where names are still there is those names.
LEMMA ReadingsAre ==
  ASSUME spelled \in [Region -> Readable], NEW others, others \subseteq SelName,
         NEW names \in Readings(others)
  PROVE  /\ names \in [Region -> Readable]
         /\ \A r \in Region : nameOf[r] \in {0, generation} => names[r] = spelled[r]
<1>1. PICK read \in [Stranded -> others \cup {Nil}] :
        names = [r \in Region |-> IF r \in Stranded THEN read[r] ELSE spelled[r]]
  BY DEF Readings
<1>2. \A r \in Region : r \in Stranded => read[r] \in Readable
  BY DEF Readable
<1>3. \A r \in Region : nameOf[r] \in {0, generation} => r \notin Stranded
  BY DEF Stranded
<1> QED
  BY <1>1, <1>2, <1>3

\* One more region, the new one first.
LEMMA RegionAdded ==
  ASSUME NEW img \in Image, NEW s \in Seq(Image)
  PROVE  <<img>> \o s \in Seq(Image) /\ Range(s) \subseteq Range(<<img>> \o s)
<1>1. PICK o : o = <<img>>
  OBVIOUS
<1>2. o \in Seq(Image) /\ Len(o) = 1
  BY <1>1
<1>3. PICK n \in Nat : n = Len(s)
  BY LenProperties
<1>4. PICK r : r = o \o s
  OBVIOUS
<1>5. /\ r \in Seq(Image) /\ Len(r) = 1 + n
      /\ \A i \in 1 .. 1 + n : r[i] = IF i <= 1 THEN o[i] ELSE s[i - 1]
  <2>1. /\ o \o s \in Seq(Image) /\ Len(o \o s) = Len(o) + Len(s)
        /\ \A i \in 1 .. Len(o) + Len(s) :
             (o \o s)[i] = IF i <= Len(o) THEN o[i] ELSE s[i - Len(o)]
    BY <1>2, ConcatProperties
  <2> QED
    BY ONLY <1>2, <1>3, <1>4, <2>1
<1>6. DOMAIN r = 1 .. 1 + n /\ DOMAIN s = 1 .. n
  BY <1>3, <1>5, LenProperties
<1>7. ASSUME NEW i \in 1 .. n PROVE \E j \in 1 .. 1 + n : r[j] = s[i]
  <2>1. i + 1 \in 1 .. 1 + n /\ ~(i + 1 <= 1) /\ (i + 1) - 1 = i
    OBVIOUS
  <2>2. r[i + 1] = s[i]
    BY <1>5, <2>1
  <2> QED
    BY <2>1, <2>2
<1>8. Range(s) \subseteq Range(r)
  BY <1>6, <1>7 DEF Range
<1> QED
  BY <1>1, <1>4, <1>5, <1>8

\* What a load does to selectors, from the regions r, the map, the entries and the
\* slots that it makes.
SelectorsLoaded(r, map, table, slots, valid, gen, fails) ==
  /\ regions' = r /\ entries' = table /\ bySlot' = slots /\ frozen' = valid
  /\ generation' = gen /\ selOf' = Canonical(map, slots, valid, gen)
  /\ \E second \in Readings(Range(table)) :
       LET new == IF valid THEN Redirected(r, slots, second) ELSE {} IN
       /\ nameOf' = [x \in Region |-> IF x \in new THEN gen ELSE nameOf[x]]
       /\ spelled' = [x \in Region |-> IF x \in new THEN second[x] ELSE spelled[x]]
  /\ lost' = IF valid THEN lost \cup {n \in Range(bySlot) : <<"frozen", n>> \in fails} ELSE lost
  /\ handed' = handed
NewSlots(table, valid, fails) == IF valid THEN Frozen(table, fails) ELSE bySlot
NewRegions(img, fails) ==
  IF <<"region", img>> \in fails \/ Selectors[img] = <<>> THEN regions ELSE <<img>> \o regions
NewGeneration(valid) == IF valid THEN generation + 1 ELSE generation

LEMMA LoadingIs ==
  ASSUME NEW img \in Image, NEW fails, LoadSelectors(img, fails), NEW map, NEW r,
         map = Registered(classMap, Registrations(img)), r = NewRegions(img, fails)
  PROVE  \E first \in Readings(SelName \ Range(entries)), valid \in BOOLEAN :
           LET table == Collect(r, map, first, fails) IN
           /\ valid = (<<"slots", Nil>> \notin fails)
           /\ SelectorsLoaded(r, map, table, NewSlots(table, valid, fails), valid,
                              NewGeneration(valid), fails)
<1>1. \E first \in Readings(SelName \ Range(entries)) :
        LET table == Collect(NewRegions(img, fails), Registered(classMap, Registrations(img)), first, fails) IN
        SelectorsLoaded(NewRegions(img, fails), Registered(classMap, Registrations(img)), table,
                        NewSlots(table, <<"slots", Nil>> \notin fails, fails),
                        <<"slots", Nil>> \notin fails,
                        NewGeneration(<<"slots", Nil>> \notin fails), fails)
  BY Zenon DEF LoadSelectors, SelectorsLoaded, NewSlots, NewRegions, NewGeneration
<1>2. PICK first \in Readings(SelName \ Range(entries)) :
        SelectorsLoaded(r, map, Collect(r, map, first, fails),
                        NewSlots(Collect(r, map, first, fails), <<"slots", Nil>> \notin fails, fails),
                        <<"slots", Nil>> \notin fails,
                        NewGeneration(<<"slots", Nil>> \notin fails), fails)
  BY <1>1
<1>3. (<<"slots", Nil>> \notin fails) \in BOOLEAN
  OBVIOUS
<1> QED
  BY <1>2, <1>3

\* The classes of an image and its selectors.
LEMMA LoadKeeps ==
  ASSUME NamesFit, MapInv, SelectorInv, NEW img \in Image, NEW fails,
         LoadClasses(img), LoadSelectors(img, fails)
  PROVE  SelectorInv'
<1>1. MapInv' /\ LoadedClasses \subseteq LoadedClasses'
  BY LoadingKeeps
<1>2. PICK map : map = Registered(classMap, Registrations(img))
  OBVIOUS
<1>3. map = classMap' /\ map \in Map
  BY <1>1, <1>2 DEF LoadClasses, MapInv, Ordered
<1>4. MappedClasses(map) = LoadedClasses'
  BY <1>1, <1>3, MappedThenLoaded
<1>5. PICK r : r = NewRegions(img, fails)
  OBVIOUS
<1>6. r \in Seq(Image) /\ Range(regions) \subseteq Range(r)
  BY <1>5, RegionAdded DEF SelectorInv, NewRegions
<1>7. PICK first \in Readings(SelName \ Range(entries)), valid \in BOOLEAN :
        LET table == Collect(r, map, first, fails) IN
        /\ valid = (<<"slots", Nil>> \notin fails)
        /\ SelectorsLoaded(r, map, table, NewSlots(table, valid, fails), valid,
                           NewGeneration(valid), fails)
  BY <1>2, <1>5, LoadingIs
<1>8. PICK table, slots, gen :
        /\ table = Collect(r, map, first, fails) /\ slots = NewSlots(table, valid, fails)
        /\ gen = NewGeneration(valid)
  OBVIOUS
<1>9. SelectorsLoaded(r, map, table, slots, valid, gen, fails)
  BY <1>7, <1>8
<1>10. first \in [Region -> Readable]
  BY ReadingsAre DEF SelectorInv
<1>11. Extends(table, entries)
  BY <1>3, <1>6, <1>8, <1>10, Collected DEF SelectorInv
<1>12. NamesOnce(table) /\ Range(entries) \subseteq Range(table) /\ Range(table) \subseteq SelName
  BY <1>11, ElementsIn DEF Extends, NamesOnce
<1>13. /\ IsInjective(slots) /\ Range(slots) \subseteq Range(table)
       /\ valid => Range(slots) = {x \in Range(table) : <<"frozen", x>> \notin fails}
  BY <1>8, <1>12, FrozenAre DEF SelectorInv, NamesOnce, NewSlots
\* Methods of the loaded classes, old and new, have a name to look up or none.
<1>14. ASSUME NEW m \in Method
       PROVE  IF m[1][1] \in LoadedClasses' THEN selOf'[m] \in {Nil, gen} ELSE selOf'[m] = 0
  <2>1. selOf'[m] = IF m[1][1] \notin LoadedClasses' \/ ~(HasName(m) \/ selOf[m] = Nil) THEN selOf[m]
                    ELSE IF selOf[m] # Nil /\ SlotIn(slots, valid, NameOfMethod(m)) # Nil
                    THEN gen ELSE Nil
    BY <1>4, <1>9 DEF Canonical, SelectorsLoaded
  <2>2. IF m[1][1] \in LoadedClasses THEN selOf[m] \in {Nil, generation} ELSE selOf[m] = 0
    BY DEF SelectorInv, MethodsLive
  <2>3. HasName(m) \/ selOf[m] = Nil
    BY <2>2 DEF HasName
  <2> QED
    BY <1>1, <2>1, <2>2, <2>3
\* A redirected name is redirected again if there is a new selector of that name.
<1>15. PICK second, new :
         /\ second \in Readings(Range(table))
         /\ new = IF valid THEN Redirected(r, slots, second) ELSE {}
         /\ nameOf' = [x \in Region |-> IF x \in new THEN gen ELSE nameOf[x]]
         /\ spelled' = [x \in Region |-> IF x \in new THEN second[x] ELSE spelled[x]]
  <2>1. PICK second \in Readings(Range(table)) :
          LET new == IF valid THEN Redirected(r, slots, second) ELSE {} IN
          /\ nameOf' = [x \in Region |-> IF x \in new THEN gen ELSE nameOf[x]]
          /\ spelled' = [x \in Region |-> IF x \in new THEN second[x] ELSE spelled[x]]
    BY Zenon, <1>9 DEF SelectorsLoaded
  <2>2. PICK new : new = IF valid THEN Redirected(r, slots, second) ELSE {}
    OBVIOUS
  <2> QED
    BY Zenon, <2>1, <2>2
<1>16. /\ second \in [Region -> Readable]
       /\ \A x \in Region : nameOf[x] \in {0, generation} => second[x] = spelled[x]
  <2>1. spelled \in [Region -> Readable]
    BY DEF SelectorInv
  <2>2. second \in Readings(Range(table)) /\ Range(table) \subseteq SelName
    BY <1>12, <1>15
  <2> QED
    BY ONLY ReadingsAre, <2>1, <2>2
<1>17. spelled' \in [Region -> Readable]
  BY <1>15, <1>16 DEF SelectorInv
<1>18. ASSUME NEW x \in Region, OwnName(x) \notin lost'
       PROVE  /\ spelled'[x] = OwnName(x)
              /\ \/ nameOf'[x] = 0
                 \/ nameOf'[x] = gen /\ x[1] \in Range(r) /\ OwnName(x) \in Range(slots)
  <2>1. /\ OwnName(x) \notin lost
        /\ valid /\ OwnName(x) \in Range(bySlot) => <<"frozen", OwnName(x)>> \notin fails
    BY <1>9, <1>18 DEF SelectorsLoaded
  <2>2. /\ spelled[x] = OwnName(x)
        /\ \/ nameOf[x] = 0
           \/ /\ nameOf[x] = generation /\ x[1] \in Range(regions)
              /\ OwnName(x) \in Range(bySlot)
    BY <2>1 DEF SelectorInv, NamesLive
  <2>3. second[x] = OwnName(x)
    BY <1>16, <2>2
  <2>4. CASE x \in new
    <3>1. valid /\ x[1] \in Range(r) /\ second[x] \in Range(slots)
      BY <1>15, <2>4 DEF Redirected
    <3> QED
      BY <1>15, <2>3, <2>4, <3>1
  <2>5. CASE x \notin new
    <3>1. nameOf'[x] = nameOf[x] /\ spelled'[x] = OwnName(x)
      BY <1>15, <2>2, <2>5
    <3>2. CASE nameOf[x] = 0
      BY <3>1, <3>2
    <3>3. CASE nameOf[x] # 0 /\ valid
      <4>1. x[1] \in Range(r) /\ OwnName(x) \in Range(table) /\ <<"frozen", OwnName(x)>> \notin fails
        BY <1>6, <1>12, <2>1, <2>2, <3>3 DEF SelectorInv
      <4>2. OwnName(x) \in Range(slots)
        BY <1>13, <3>3, <4>1
      <4> QED
        BY <1>15, <2>3, <2>5, <3>3, <4>1, <4>2 DEF Redirected
    <3>4. CASE nameOf[x] # 0 /\ ~valid
      BY <1>6, <1>8, <2>2, <3>1, <3>4 DEF NewGeneration, NewSlots
    <3> QED
      BY <3>2, <3>3, <3>4
  <2> QED
    BY <2>4, <2>5
<1>19. MethodsLive'
  BY <1>9, <1>14 DEF MethodsLive, SelectorsLoaded
<1>20. NamesLive'
  BY <1>9, <1>18 DEF NamesLive, OwnName, SelectorsLoaded
<1>21. HandedLive'
  <2>1. loaded' = loaded \cup {img} /\ img \notin loaded
    BY DEF LoadClasses
  <2> QED
    BY <1>9, <2>1 DEF SelectorInv, HandedLive, SelectorsLoaded
<1> QED
  BY <1>6, <1>9, <1>12, <1>13, <1>17, <1>19, <1>20, <1>21
     DEF SelectorInv, NamesOnce, SelectorsLoaded

LEMMA InternKeeps ==
  ASSUME SelectorInv, NEW s \in Static, NEW fails, Intern(s, fails), UNCHANGED mapVars
  PROVE  SelectorInv'
<1>1. PICK n \in SelName : n = StaticName[s]
  BY SelectorAssumption
<1>2. Extends(WithNames(entries, <<n>>, fails), entries)
  <2>1. <<n>> \in Seq(Readable)
    BY DEF Readable
  <2> QED
    BY <2>1, NamesKept DEF SelectorInv
<1>3. NamesOnce(entries') /\ Range(entries) \subseteq Range(entries')
  BY <1>1, <1>2 DEF SelectorInv, Intern, Extends, NamesOnce
<1>4. LoadedClasses' = LoadedClasses /\ loaded' = loaded
  BY DEF LoadedClasses, mapVars
<1>5. MethodsLive'
  BY <1>4 DEF SelectorInv, MethodsLive, Intern
<1>6. NamesLive'
  BY DEF SelectorInv, NamesLive, Intern, OwnName
<1>7. PICK sel \in {0, generation} : handed' = [handed EXCEPT ![s] = [sel |-> sel, at |-> loaded]]
  BY DEF Intern, HandOut
<1>8. DOMAIN handed' = Static /\ generation' = generation
  BY <1>7 DEF SelectorInv, Intern
<1>9. HandedLive'
  <2> SUFFICES ASSUME NEW x \in Static, handed'[x] # Nil
               PROVE  /\ handed'[x].at \subseteq loaded
                      /\ handed'[x].at = loaded => handed'[x].sel \in {0, generation}
    BY <1>4, <1>8 DEF HandedLive
  <2>1. CASE x = s
    BY <1>7, <2>1 DEF SelectorInv
  <2>2. CASE x # s
    BY <1>7, <2>2 DEF SelectorInv, HandedLive
  <2> QED
    BY <2>1, <2>2
<1> QED
  BY <1>3, <1>5, <1>6, <1>8, <1>9 DEF SelectorInv, Intern

LEMMA SelectorsStay ==
  ASSUME SelectorInv, UNCHANGED selectorVars, loaded' = loaded
  PROVE  SelectorInv'
<1>1. MethodsLive' /\ NamesLive' /\ HandedLive'
  BY DEF SelectorInv, MethodsLive, NamesLive, HandedLive, OwnName, LoadedClasses, selectorVars
<1>2. NamesOnce(entries)' /\ IsInjective(bySlot)' /\ (Range(bySlot) \subseteq Range(entries))'
  BY DEF SelectorInv, selectorVars, NamesOnce
<1> QED
  BY <1>1, <1>2 DEF SelectorInv, selectorVars, NamesOnce

LEMMA SelectorsInitially == Init => MapInv /\ SelectorInv
BY MapStarts, SelectorsStart DEF Init

LEMMA SelectorsKept ==
  ASSUME NamesFit, MapInv, SelectorInv, [Next]_vars
  PROVE  MapInv' /\ SelectorInv'
<1>1. ASSUME NEW img \in Image, Load(img) PROVE MapInv' /\ SelectorInv'
  <2>1. PICK fails : LoadClasses(img) /\ LoadSelectors(img, fails)
    BY <1>1 DEF Load
  <2> QED
    BY <2>1, LoadingKeeps, LoadKeeps
<1>2. ASSUME NEW c \in Class, NEW n \in Name, RegisterAlias(c, n), UNCHANGED selectorVars
      PROVE  MapInv' /\ SelectorInv'
  BY <1>2, AliasKeeps, SelectorsStay DEF RegisterAlias
<1>3. ASSUME NEW s \in Static, NEW fails, Intern(s, fails), UNCHANGED mapVars
      PROVE  MapInv' /\ SelectorInv'
  BY <1>3, MapStutters, InternKeeps
<1>4. CASE UNCHANGED <<mapVars, selectorVars>>
  BY <1>4, MapStutters, SelectorsStay DEF mapVars
<1> QED
  BY <1>1, <1>2, <1>3, <1>4 DEF Next, vars

\* Whatever images are loaded in whatever order and whichever allocations for
\* selectors fail, that of a region, an entry, one new selector or all of them, no
\* method of a loaded class is left with a selector that has been freed, and a
\* selector of a region has its own name in memory that is still there. The
\* exception is a name whose selector was freed while the new one of that name
\* could not be allocated: of its selectors in regions nothing is said from then
\* on. A selector that interning hands out is good until the next image is loaded,
\* and no longer. Two selectors have two slots, and each has its entry.
THEOREM SelectorsStayLive ==
  ASSUME NamesFit
  PROVE  Spec => []SelectorsLive
<1>1. Init => MapInv /\ SelectorInv
  BY SelectorsInitially
<1>2. MapInv /\ SelectorInv /\ [Next]_vars => MapInv' /\ SelectorInv'
  BY SelectorsKept
<1>3. MapInv /\ SelectorInv => SelectorsLive
  <2> SUFFICES ASSUME SelectorInv PROVE SelectorsLive
    OBVIOUS
  <2>1. ASSUME NEW m \in Method, m[1] \in LoadedTables PROVE selOf[m] \in {Nil, generation}
    <3>1. m[1][1] \in LoadedClasses
      BY <2>1 DEF LoadedTables
    <3> QED
      BY <3>1 DEF SelectorInv, MethodsLive
  <2>2. \A r \in Region : \/ Selectors[r[1]][r[2]] \in lost
                          \/ /\ nameOf[r] \in {0, generation}
                             /\ spelled[r] = Selectors[r[1]][r[2]]
    BY DEF SelectorInv, NamesLive, OwnName
  <2>3. \A s \in Static : handed[s] # Nil /\ handed[s].at = loaded
                          => handed[s].sel \in {0, generation}
    BY DEF SelectorInv, HandedLive
  <2> QED
    BY <2>1, <2>2, <2>3 DEF SelectorInv, SelectorsLive
<1> QED
  BY <1>1, <1>2, <1>3, PTL DEF Spec
-----------------------------------------------------------------------------
(* Superclass chains. No class is above itself: where a chain starts there is *)
(* one computation of it, which the chains of its subclasses go on from.      *)

Links(A, f) ==
  /\ A \subseteq Class /\ \A c \in A : Super[c] \in A \cup {Nil}
  /\ f = [c \in A |-> IF Super[c] = Nil THEN <<c>> ELSE <<c>> \o f[Super[c]]]

LEMMA LinkOf ==
  ASSUME NEW A, NEW f, Links(A, f), NEW c \in A
  PROVE  f[c] = IF Super[c] = Nil THEN <<c>> ELSE <<c>> \o f[Super[c]]
BY DEF Links

LEMMA OneLink ==
  ASSUME NEW A, NEW f, Links(A, f), NEW B, NEW g, Links(B, g), NEW c \in A \cap B
  PROVE  f[c] = g[c]
<1> DEFINE C == {x \in A \cap B : f[x] # g[x]}
<1> SUFFICES ASSUME C # {} PROVE FALSE
  OBVIOUS
<1>1. C \in (SUBSET Class) \ {{}}
  BY DEF Links
<1>2. PICK x \in C : Super[x] \notin C
  BY <1>1, ClassMapAssumption
<1>3. x \in A /\ x \in B /\ f[x] # g[x]
  BY <1>2
<1>4. /\ f[x] = IF Super[x] = Nil THEN <<x>> ELSE <<x>> \o f[Super[x]]
      /\ g[x] = IF Super[x] = Nil THEN <<x>> ELSE <<x>> \o g[Super[x]]
  BY <1>3, LinkOf
<1>5. Super[x] # Nil
  BY <1>3, <1>4
<1>6. Super[x] \in A /\ Super[x] \in B
  BY <1>3, <1>5 DEF Links
<1>7. f[Super[x]] = g[Super[x]]
  BY <1>2, <1>6
<1> QED
  BY <1>3, <1>4, <1>7

LEMMA LinksExist ==
  ASSUME NEW c \in Class
  PROVE  \E A, f : c \in A /\ Links(A, f)
<1> DEFINE C == {x \in Class : ~\E A, f : x \in A /\ Links(A, f)}
<1> SUFFICES ASSUME C # {} PROVE FALSE
  OBVIOUS
<1>1. C \in (SUBSET Class) \ {{}}
  OBVIOUS
<1>2. PICK x \in C : Super[x] \notin C
  BY <1>1, ClassMapAssumption
<1>3. x \in Class /\ ~\E A, f : x \in A /\ Links(A, f)
  BY <1>2
<1>4. CASE Super[x] = Nil
  <2>1. PICK f : f = [y \in {x} |-> <<y>>]
    OBVIOUS
  <2>2. f = [y \in {x} |-> IF Super[y] = Nil THEN <<y>> ELSE <<y>> \o f[Super[y]]]
    BY <1>4, <2>1
  <2>3. Links({x}, f)
    BY <1>3, <1>4, <2>2 DEF Links
  <2> QED
    BY <1>3, <2>3
<1>5. CASE Super[x] # Nil
  <2>1. Super[x] \in Class
    BY <1>3, <1>5, ClassMapAssumption
  <2>2. PICK A, f : Super[x] \in A /\ Links(A, f)
    BY <1>2, <2>1
  <2>3. x \notin A
    BY <1>3, <2>2
  <2>4. PICK g : g = [y \in A \cup {x} |-> IF y = x THEN <<x>> \o f[Super[x]] ELSE f[y]]
    OBVIOUS
  <2>5. \A y \in A : g[y] = f[y]
    BY <2>3, <2>4
  <2>6. ASSUME NEW y \in A \cup {x}
        PROVE  g[y] = IF Super[y] = Nil THEN <<y>> ELSE <<y>> \o g[Super[y]]
    <3>1. CASE y = x
      BY <1>5, <2>2, <2>4, <2>5, <3>1
    <3>2. CASE y # x
      <4>1. y \in A /\ Super[y] \in A \cup {Nil}
        BY <2>2, <3>2 DEF Links
      <4>2. f[y] = IF Super[y] = Nil THEN <<y>> ELSE <<y>> \o f[Super[y]]
        BY <2>2, <4>1, LinkOf
      <4> QED
        BY <2>5, <4>1, <4>2
    <3> QED
      BY <3>1, <3>2
  <2>7. g = [y \in A \cup {x} |-> IF Super[y] = Nil THEN <<y>> ELSE <<y>> \o g[Super[y]]]
    BY <2>4, <2>6
  <2>8. A \cup {x} \subseteq Class /\ \A y \in A \cup {x} : Super[y] \in A \cup {x} \cup {Nil}
    BY <1>3, <2>2 DEF Links
  <2>9. Links(A \cup {x}, g)
    BY <2>7, <2>8 DEF Links
  <2> QED
    BY <1>3, <2>9
<1> QED
  BY <1>4, <1>5

LEMMA ChainLinks == Links(Class, Chain)
<1> DEFINE ofClass == [c \in Class |-> CHOOSE f : \E A : c \in A /\ Links(A, f)]
           whole == [c \in Class |-> ofClass[c][c]]
<1>1. ASSUME NEW c \in Class PROVE \E A : c \in A /\ Links(A, ofClass[c])
  BY LinksExist
<1>2. \A c \in Class : whole[c] = ofClass[c][c]
  OBVIOUS
<1>3. DOMAIN whole = Class /\ whole = [c \in Class |-> whole[c]]
  OBVIOUS
<1> HIDE DEF ofClass, whole
<1>4. ASSUME NEW c \in Class
      PROVE  whole[c] = IF Super[c] = Nil THEN <<c>> ELSE <<c>> \o whole[Super[c]]
  <2>1. PICK A : c \in A /\ Links(A, ofClass[c])
    BY <1>1
  <2>2. ofClass[c][c] = IF Super[c] = Nil THEN <<c>> ELSE <<c>> \o ofClass[c][Super[c]]
    BY <2>1, LinkOf
  <2>3. CASE Super[c] # Nil
    <3>1. Super[c] \in Class /\ Super[c] \in A
      BY <2>1, <2>3 DEF Links
    <3>2. PICK B : Super[c] \in B /\ Links(B, ofClass[Super[c]])
      BY <1>1, <3>1
    <3>3. ofClass[c][Super[c]] = ofClass[Super[c]][Super[c]]
      BY <2>1, <3>1, <3>2, OneLink
    <3> QED
      BY <1>2, <2>2, <3>1, <3>3
  <2> QED
    BY <1>2, <2>2, <2>3
<1>5. whole = [c \in Class |-> IF Super[c] = Nil THEN <<c>> ELSE <<c>> \o whole[Super[c]]]
  BY <1>3, <1>4
<1>6. Chain = CHOOSE f : f = [c \in Class |-> IF Super[c] = Nil THEN <<c>> ELSE <<c>> \o f[Super[c]]]
  BY DEF Chain
<1>7. Chain = [c \in Class |-> IF Super[c] = Nil THEN <<c>> ELSE <<c>> \o Chain[Super[c]]]
  BY <1>5, <1>6
<1> QED
  BY <1>7, ClassMapAssumption DEF Links

\* A class comes first in its chain, the chain of its superclass follows.
ChainOf(c, p) ==
  /\ p \in Seq(Class) /\ Len(p) \in Nat \ {0} /\ p[1] = c
  /\ IF Super[c] = Nil THEN Len(p) = 1
     ELSE /\ Super[c] \in Class /\ Len(p) = 1 + Len(Chain[Super[c]])
          /\ \A k \in 1 .. Len(Chain[Super[c]]) : p[k + 1] = Chain[Super[c]][k]

LEMMA Behind ==
  ASSUME NEW S, NEW x \in S, NEW q \in Seq(S), NEW p, p = <<x>> \o q
  PROVE  /\ p \in Seq(S) /\ Len(p) = 1 + Len(q)
         /\ p[1] = x /\ \A k \in 1 .. Len(q) : p[k + 1] = q[k]
<1>1. PICK n \in Nat : n = Len(q)
  BY LenProperties
<1>2. PICK o : o = <<x>>
  OBVIOUS
<1>3. o \in Seq(S) /\ Len(o) = 1 /\ o[1] = x
  BY <1>2
<1>4. /\ o \o q \in Seq(S) /\ Len(o \o q) = Len(o) + Len(q)
      /\ \A i \in 1 .. Len(o) + Len(q) :
           (o \o q)[i] = IF i <= Len(o) THEN o[i] ELSE q[i - Len(o)]
  BY <1>3, ConcatProperties
<1>5. p = o \o q
  BY <1>2
<1>6. p \in Seq(S) /\ Len(p) = 1 + n /\ \A i \in 1 .. 1 + n : p[i] = IF i <= 1 THEN o[i] ELSE q[i - 1]
  BY ONLY <1>1, <1>3, <1>4, <1>5
<1>7. p[1] = x /\ \A k \in 1 .. n : p[k + 1] = q[k]
  <2>1. ASSUME NEW k \in 1 .. n PROVE p[k + 1] = q[k]
    <3>1. k + 1 \in 1 .. 1 + n /\ ~(k + 1 <= 1) /\ (k + 1) - 1 = k
      OBVIOUS
    <3> QED
      BY <1>6, <3>1
  <2> QED
    BY <1>3, <1>6, <2>1
<1> QED
  BY ONLY <1>1, <1>6, <1>7

LEMMA ChainIs ==
  ASSUME NEW c \in Class
  PROVE  ChainOf(c, Chain[c])
<1>1. ASSUME NEW x \in Class
      PROVE  /\ Super[x] \in Class \cup {Nil}
             /\ Chain[x] = IF Super[x] = Nil THEN <<x>> ELSE <<x>> \o Chain[Super[x]]
  <2>1. Chain[x] = IF Super[x] = Nil THEN <<x>> ELSE <<x>> \o Chain[Super[x]]
    BY ChainLinks, LinkOf
  <2> QED
    BY <2>1, ClassMapAssumption
<1> DEFINE C == {x \in Class : ~ChainOf(x, Chain[x])}
<1> SUFFICES ASSUME C # {} PROVE FALSE
  OBVIOUS
<1>2. C \in (SUBSET Class) \ {{}}
  OBVIOUS
<1>3. PICK x \in C : Super[x] \notin C
  BY <1>2, ClassMapAssumption
<1>4. x \in Class /\ ~ChainOf(x, Chain[x])
  BY <1>3
<1>5. CASE Super[x] = Nil
  <2>1. PICK p : p = <<x>>
    OBVIOUS
  <2>2. p \in Seq(Class) /\ Len(p) = 1 /\ p[1] = x
    BY <1>4, <2>1
  <2>3. Chain[x] = p
    BY <1>1, <1>4, <1>5, <2>1
  <2> QED
    BY <1>4, <1>5, <2>2, <2>3 DEF ChainOf
<1>6. CASE Super[x] # Nil
  <2>1. PICK q : q = Chain[Super[x]]
    OBVIOUS
  <2>2. Super[x] \in Class /\ ChainOf(Super[x], q)
    BY <1>1, <1>3, <1>4, <1>6, <2>1
  <2>3. q \in Seq(Class) /\ Len(q) \in Nat
    BY <2>2 DEF ChainOf
  <2>4. PICK p : p = <<x>> \o q
    OBVIOUS
  <2>5. p \in Seq(Class) /\ Len(p) = 1 + Len(q) /\ p[1] = x /\ \A k \in 1 .. Len(q) : p[k + 1] = q[k]
    BY <1>4, <2>3, <2>4, Behind
  <2>6. Chain[x] = p /\ Len(p) \in Nat \ {0}
    <3>1. Chain[x] = <<x>> \o Chain[Super[x]]
      BY <1>1, <1>4, <1>6
    <3>2. Len(p) \in Nat \ {0}
      BY <2>3, <2>5
    <3> QED
      BY ONLY <2>1, <2>4, <3>1, <3>2
  <2>7. Len(p) = 1 + Len(Chain[Super[x]]) /\ \A k \in 1 .. Len(Chain[Super[x]]) : p[k + 1] = Chain[Super[x]][k]
    BY ONLY <2>1, <2>5
  <2>8. ChainOf(x, p)
    BY <1>6, <2>2, <2>5, <2>6, <2>7 DEF ChainOf
  <2> QED
    BY <1>4, <2>6, <2>8
<1> QED
  BY <1>5, <1>6
-----------------------------------------------------------------------------
(* The chain of a table of methods: the table itself, then the chain of the  *)
(* one above it                                                              *)

Top(t) == Super[t[1]] = Nil /\ t[2] = "instances"
Above(t) == IF Super[t[1]] # Nil THEN <<Super[t[1]], t[2]>> ELSE <<t[1], "instances">>

\* p is the chain of t.
TablesFrom(t, p) ==
  LET q == Chain[t[1]] IN
  IF t[2] = "instances"
  THEN Len(p) = Len(q) /\ \A k \in 1 .. Len(q) : p[k] = <<q[k], "instances">>
  ELSE /\ Len(p) = Len(q) + 1 /\ p[Len(q) + 1] = <<q[Len(q)], "instances">>
       /\ \A k \in 1 .. Len(q) : p[k] = <<q[k], "class">>

LEMMA TablesAre ==
  ASSUME NEW t \in Table
  PROVE  TableChain(t) \in Seq(Table) /\ TablesFrom(t, TableChain(t))
<1>1. t[1] \in Class /\ t[2] \in {"instances", "class"}
  BY DEF Table, Side
<1>2. PICK q : q = Chain[t[1]]
  OBVIOUS
<1>3. ChainOf(t[1], q)
  BY <1>1, <1>2, ChainIs
<1>4. PICK n \in Nat \ {0} : n = Len(q)
  BY <1>3 DEF ChainOf
<1>5. q \in Seq(Class) /\ DOMAIN q = 1 .. n /\ \A k \in 1 .. n : q[k] \in Class
  BY <1>3, <1>4, LenProperties, ElementOfSeq DEF ChainOf
<1>6. PICK p : p = [k \in 1 .. n |-> <<q[k], t[2]>>]
  OBVIOUS
<1>7. p \in Seq(Table) /\ Len(p) = n /\ \A k \in 1 .. n : p[k] = <<q[k], t[2]>>
  <2>1. \A k \in 1 .. n : <<q[k], t[2]>> \in Table
    BY <1>1, <1>5 DEF Table, Side
  <2>2. p \in [1 .. n -> Table]
    BY <1>6, <2>1
  <2> QED
    BY <1>6, <2>2, SeqDef, LenProperties
<1>8. CASE t[2] = "instances"
  <2>1. TableChain(t) = p
    BY <1>2, <1>5, <1>6, <1>8 DEF TableChain
  <2>2. TablesFrom(t, p)
    BY <1>2, <1>4, <1>7, <1>8 DEF TablesFrom
  <2> QED
    BY <1>7, <2>1, <2>2
<1>9. CASE t[2] = "class"
  <2>1. PICK x : x = <<q[n], "instances">>
    OBVIOUS
  <2>2. x \in Table
    BY <1>5, <2>1 DEF Table, Side
  <2>3. PICK r : r = Append(p, x)
    OBVIOUS
  <2>4. r \in Seq(Table) /\ Len(r) = n + 1 /\ r[n + 1] = x /\ \A i \in 1 .. n : r[i] = p[i]
    BY <1>7, <2>2, <2>3, AppendProperties
  <2>5. TableChain(t) = r
    BY <1>2, <1>4, <1>5, <1>6, <1>9, <2>1, <2>3 DEF TableChain
  <2>6. \A i \in 1 .. n : r[i] = <<q[i], "class">>
    BY <1>7, <1>9, <2>4
  <2>7. TablesFrom(t, r)
    BY <1>2, <1>4, <1>9, <2>1, <2>4, <2>6 DEF TablesFrom
  <2> QED
    BY <2>4, <2>5, <2>7
<1> QED
  BY <1>1, <1>8, <1>9

\* p goes on from t with the chain of the table above t.
Upward(t, p) ==
  /\ p \in Seq(Table) /\ Len(p) \in Nat \ {0} /\ p[1] = t
  /\ IF Top(t) THEN Len(p) = 1
     ELSE /\ Above(t) \in Table /\ Len(p) = 1 + Len(TableChain(Above(t)))
          /\ \A k \in 1 .. Len(TableChain(Above(t))) : p[k + 1] = TableChain(Above(t))[k]

LEMMA TableChainIs ==
  ASSUME NEW t \in Table
  PROVE  Upward(t, TableChain(t))
<1>1. t[1] \in Class /\ t[2] \in {"instances", "class"} /\ t = <<t[1], t[2]>>
  BY DEF Table, Side
<1>2. PICK c \in Class : c = t[1]
  BY <1>1
<1>3. PICK p : p = TableChain(t)
  OBVIOUS
<1>4. PICK q : q = Chain[c]
  OBVIOUS
<1>5. ChainOf(c, q) /\ p \in Seq(Table) /\ TablesFrom(t, p)
  BY <1>2, <1>3, <1>4, ChainIs, TablesAre
<1>6. PICK n \in Nat \ {0} : n = Len(q)
  BY <1>5 DEF ChainOf
<1>7. /\ t[2] = "instances" => Len(p) = n /\ \A k \in 1 .. n : p[k] = <<q[k], "instances">>
      /\ t[2] = "class" => /\ Len(p) = n + 1 /\ p[n + 1] = <<q[n], "instances">>
                           /\ \A k \in 1 .. n : p[k] = <<q[k], "class">>
  BY <1>1, <1>2, <1>4, <1>5, <1>6 DEF TablesFrom
<1>8. q[1] = c
  BY <1>5 DEF ChainOf
<1>9. p \in Seq(Table) /\ Len(p) \in Nat \ {0} /\ p[1] = t
  <2>1. 1 \in 1 .. n
    OBVIOUS
  <2>2. CASE t[2] = "instances"
    <3>1. p[1] = <<q[1], "instances">> /\ Len(p) = n
      BY <1>7, <2>1, <2>2
    <3> QED
      BY <1>1, <1>2, <1>5, <1>8, <2>2, <3>1
  <2>3. CASE t[2] = "class"
    <3>1. p[1] = <<q[1], "class">> /\ Len(p) = n + 1
      BY <1>7, <2>1, <2>3
    <3> QED
      BY <1>1, <1>2, <1>5, <1>8, <2>3, <3>1
  <2> QED
    BY <1>1, <2>2, <2>3
<1>10. CASE Top(t)
  <2>1. n = 1 /\ t[2] = "instances"
    BY <1>2, <1>5, <1>6, <1>10 DEF Top, ChainOf
  <2> QED
    BY <1>3, <1>7, <1>9, <1>10, <2>1 DEF Upward
<1>11. CASE Super[c] = Nil /\ t[2] = "class"
  <2>1. PICK u : u = <<c, "instances">>
    OBVIOUS
  <2>2. u \in Table /\ u[1] = c /\ u[2] = "instances"
    BY <2>1 DEF Table, Side
  <2>3. Above(t) = u /\ ~Top(t)
    BY <1>2, <1>11, <2>1 DEF Above, Top
  <2>4. PICK r : r = TableChain(u)
    OBVIOUS
  <2>5. TablesFrom(u, r)
    BY <2>2, <2>4, TablesAre
  <2>6. n = 1
    BY <1>5, <1>6, <1>11 DEF ChainOf
  <2>7. Len(r) = 1 /\ r[1] = u
    <3>1. Len(r) = Len(q) /\ \A k \in 1 .. Len(q) : r[k] = <<q[k], "instances">>
      BY <1>4, <2>2, <2>5 DEF TablesFrom
    <3>2. Len(q) = 1
      BY <1>6, <2>6
    <3> QED
      BY <1>8, <2>1, <3>1, <3>2
  <2>8. Len(p) = 1 + Len(r) /\ \A k \in 1 .. Len(r) : p[k + 1] = r[k]
    BY <1>7, <1>8, <1>11, <2>1, <2>6, <2>7
  <2> QED
    BY <1>3, <1>9, <2>2, <2>3, <2>4, <2>8 DEF Upward
<1>12. CASE Super[c] # Nil
  <2>1. PICK d \in Class : d = Super[c]
    BY <1>5, <1>12 DEF ChainOf
  <2>2. PICK u : u = <<d, t[2]>>
    OBVIOUS
  <2>3. u \in Table /\ u[1] = d /\ u[2] = t[2]
    BY <1>1, <2>2 DEF Table, Side
  <2>4. Above(t) = u /\ ~Top(t)
    BY <1>2, <1>12, <2>1, <2>2 DEF Above, Top
  <2>5. PICK r : r = TableChain(u)
    OBVIOUS
  <2>6. PICK v : v = Chain[d]
    OBVIOUS
  <2>7. TablesFrom(u, r) /\ ChainOf(d, v)
    BY <2>3, <2>5, <2>6, TablesAre, ChainIs
  <2>8. PICK m \in Nat \ {0} : m = Len(v)
    BY <2>7 DEF ChainOf
  <2>9. n = 1 + m /\ \A k \in 1 .. m : q[k + 1] = v[k]
    <3>1. Len(q) = 1 + Len(Chain[Super[c]])
          /\ \A k \in 1 .. Len(Chain[Super[c]]) : q[k + 1] = Chain[Super[c]][k]
      BY <1>5, <1>12 DEF ChainOf
    <3> QED
      BY ONLY <1>6, <2>1, <2>6, <2>8, <3>1
  <2>10. /\ t[2] = "instances" => Len(r) = m /\ \A k \in 1 .. m : r[k] = <<v[k], "instances">>
         /\ t[2] = "class" => /\ Len(r) = m + 1 /\ r[m + 1] = <<v[m], "instances">>
                              /\ \A k \in 1 .. m : r[k] = <<v[k], "class">>
    BY <1>1, <2>3, <2>6, <2>7, <2>8 DEF TablesFrom
  <2>11. Len(p) = 1 + Len(r) /\ \A k \in 1 .. Len(r) : p[k + 1] = r[k]
    <3>1. CASE t[2] = "instances"
      <4>1. \A k \in 1 .. m : k + 1 \in 1 .. n
        BY <2>9
      <4> QED
        BY <1>7, <2>9, <2>10, <3>1, <4>1
    <3>2. CASE t[2] = "class"
      <4>1. ASSUME NEW k \in 1 .. m + 1 PROVE p[k + 1] = r[k]
        <5>1. CASE k = m + 1
          <6>1. k + 1 = n + 1 /\ m \in 1 .. m /\ m + 1 = n
            BY <2>9, <5>1
          <6>2. q[n] = v[m]
            BY <2>9, <6>1
          <6> QED
            BY <1>7, <2>10, <3>2, <5>1, <6>1, <6>2
        <5>2. CASE k # m + 1
          <6>1. k \in 1 .. m /\ k + 1 \in 1 .. n
            BY <2>9, <5>2
          <6>2. p[k + 1] = <<q[k + 1], "class">> /\ r[k] = <<v[k], "class">>
            BY <1>7, <2>10, <3>2, <6>1
          <6> QED
            BY <2>9, <6>1, <6>2
        <5> QED
          BY <5>1, <5>2
      <4>2. Len(p) = 1 + Len(r) /\ Len(r) = m + 1
        BY <1>7, <2>9, <2>10, <3>2
      <4> QED
        BY <4>1, <4>2
    <3> QED
      BY <1>1, <3>1, <3>2
  <2> QED
    BY <1>3, <1>9, <2>3, <2>4, <2>5, <2>11 DEF Upward
<1> QED
  BY <1>1, <1>2, <1>10, <1>11, <1>12 DEF Top

LEMMA TablesFounded ==
  ASSUME NEW B, B \subseteq Table, B # {}
  PROVE  \E t \in B : ~Top(t) => Above(t) \in Table /\ Above(t) \notin B
<1>1. PICK L : L = {Len(TableChain(t)) : t \in B}
  OBVIOUS
<1>2. \A t \in Table : Len(TableChain(t)) \in Nat
  BY TableChainIs DEF Upward
<1>3. PICK n \in L : \A m \in L : n <= m
  <2>1. L \subseteq Nat /\ L # {}
    BY <1>1, <1>2
  <2> QED
    BY <2>1, Least
<1>4. PICK t \in B : n = Len(TableChain(t))
  BY <1>1
<1>5. ASSUME ~Top(t) PROVE Above(t) \in Table /\ Above(t) \notin B
  <2>1. Above(t) \in Table /\ n = 1 + Len(TableChain(Above(t)))
    BY <1>4, <1>5, TableChainIs DEF Upward
  <2>2. Len(TableChain(Above(t))) \in Nat
    BY <1>2, <2>1
  <2>3. Len(TableChain(Above(t))) \notin L
    BY <1>3, <2>1, <2>2
  <2> QED
    BY <1>1, <2>1, <2>3
<1> QED
  BY <1>5

\* Each table of a chain is the one above that before it.
LEMMA ChainSteps ==
  ASSUME NEW t \in Table
  PROVE  LET p == TableChain(t) IN
         /\ \A k \in 1 .. Len(p) : p[k] \in Table
         /\ \A k \in 1 .. Len(p) - 1 : ~Top(p[k]) /\ p[k + 1] = Above(p[k])
         /\ Top(p[Len(p)])
<1> DEFINE Good(u) == LET p == TableChain(u) IN
                      /\ \A k \in 1 .. Len(p) - 1 : ~Top(p[k]) /\ p[k + 1] = Above(p[k])
                      /\ Top(p[Len(p)])
           B == {u \in Table : ~Good(u)}
<1>1. ASSUME B # {} PROVE FALSE
  <2>1. PICK u \in B : ~Top(u) => Above(u) \in Table /\ Above(u) \notin B
    BY <1>1, TablesFounded
  <2>2. u \in Table /\ ~Good(u)
    BY <2>1
  <2>3. PICK p : p = TableChain(u)
    OBVIOUS
  <2>4. Upward(u, p)
    BY <2>2, <2>3, TableChainIs
  <2>5. CASE Top(u)
    <3>1. Len(p) = 1 /\ p[1] = u
      BY <2>4, <2>5 DEF Upward
    <3>2. Top(p[Len(p)]) /\ 1 .. Len(p) - 1 = {}
      BY <2>5, <3>1
    <3> QED
      BY <2>2, <2>3, <3>2
  <2>6. CASE ~Top(u)
    <3>1. Above(u) \in Table /\ Good(Above(u))
      BY <2>1, <2>6
    <3>2. PICK q : q = TableChain(Above(u))
      OBVIOUS
    <3>3. Upward(Above(u), q)
      BY <3>1, <3>2, TableChainIs
    <3>4. /\ \A k \in 1 .. Len(q) - 1 : ~Top(q[k]) /\ q[k + 1] = Above(q[k])
          /\ Top(q[Len(q)])
      BY <3>1, <3>2
    <3>5. PICK n \in Nat \ {0} : n = Len(q)
      BY <3>3 DEF Upward
    <3>6. Len(p) = 1 + n /\ p[1] = u /\ q[1] = Above(u) /\ \A k \in 1 .. n : p[k + 1] = q[k]
      BY <2>4, <2>6, <3>2, <3>3, <3>5 DEF Upward
    <3>7. ASSUME NEW k \in 1 .. n PROVE ~Top(p[k]) /\ p[k + 1] = Above(p[k])
      <4>1. CASE k = 1
        BY <2>6, <3>6, <4>1
      <4>2. CASE k # 1
        <5>1. k - 1 \in 1 .. n - 1 /\ k - 1 \in 1 .. n /\ (k - 1) + 1 = k
          BY <4>2
        <5>2. p[k] = q[k - 1] /\ p[k + 1] = q[k]
          BY <3>6, <5>1
        <5>3. ~Top(q[k - 1]) /\ q[(k - 1) + 1] = Above(q[k - 1])
          BY <3>4, <3>5, <5>1
        <5> QED
          BY <5>1, <5>2, <5>3
      <4> QED
        BY <4>1, <4>2
    <3>8. Top(p[Len(p)])
      <4>1. p[n + 1] = q[n] /\ Len(p) = n + 1
        BY <3>6
      <4> QED
        BY <3>4, <3>5, <4>1
    <3>9. Len(p) - 1 = n
      BY <3>6
    <3>10. Good(u)
      BY <2>3, <3>7, <3>8, <3>9
    <3> QED
      BY <2>2, <3>10
  <2> QED
    BY <2>5, <2>6
<1>2. Good(t)
  BY <1>1
<1>3. TableChain(t) \in Seq(Table)
  BY TableChainIs DEF Upward
<1>4. \A k \in 1 .. Len(TableChain(t)) : TableChain(t)[k] \in Table
  BY <1>3, ElementOfSeq
<1> QED
  BY <1>2, <1>4
-----------------------------------------------------------------------------
(* What is found in a class, and up a chain *)

LEMMA FirstIs ==
  ASSUME NEW s, NEW n \in Nat, DOMAIN s = 1 .. n
  PROVE  \/ FirstFound(s) = Nil /\ \A k \in 1 .. n : s[k] = Nil
         \/ \E k \in 1 .. n : /\ FirstFound(s) = s[k] /\ s[k] # Nil
                              /\ \A j \in 1 .. n : j < k => s[j] = Nil
<1> DEFINE found == {k \in 1 .. n : s[k] # Nil}
<1>1. FirstFound(s) = IF found = {} THEN Nil ELSE s[Min(found)]
  BY DEF FirstFound
<1>2. CASE found = {}
  BY <1>1, <1>2
<1>3. CASE found # {}
  <2>1. found \subseteq Nat
    OBVIOUS
  <2>2. \E k \in found : \A l \in found : k <= l
    <3> HIDE DEF found
    <3> QED
      BY <1>3, <2>1, Least
  <2>3. PICK k : k = Min(found) /\ k \in found /\ \A l \in found : k <= l
    BY <2>2 DEF Min
  <2>4. k \in 1 .. n /\ s[k] # Nil /\ FirstFound(s) = s[k]
    BY <1>1, <1>3, <2>3
  <2>5. ASSUME NEW j \in 1 .. n, j < k PROVE s[j] = Nil
    <3>1. j \notin found
      BY <2>3, <2>4, <2>5
    <3> QED
      BY <3>1
  <2> QED
    BY <2>4, <2>5
<1> QED
  BY <1>2, <1>3

\* The first of g up the chain of t.
Up(g, t) == FirstFound([k \in DOMAIN TableChain(t) |-> g[TableChain(t)[k]]])

LEMMA UpIs ==
  ASSUME NEW g, NEW t \in Table
  PROVE  /\ g[t] # Nil => Up(g, t) = g[t]
         /\ g[t] = Nil /\ ~Top(t) => Up(g, t) = Up(g, Above(t))
         /\ g[t] = Nil /\ Top(t) => Up(g, t) = Nil
<1>1. PICK p : p = TableChain(t)
  OBVIOUS
<1>2. Upward(t, p)
  BY <1>1, TableChainIs
<1>3. PICK n \in Nat \ {0} : n = Len(p)
  BY <1>2 DEF Upward
<1>4. DOMAIN p = 1 .. n /\ p[1] = t
  BY <1>2, <1>3, LenProperties DEF Upward
<1>5. PICK s : s = [k \in 1 .. n |-> g[p[k]]]
  OBVIOUS
<1>6. DOMAIN s = 1 .. n /\ s[1] = g[t] /\ \A k \in 1 .. n : s[k] = g[p[k]]
  BY <1>4, <1>5
<1>7. Up(g, t) = FirstFound(s)
  BY <1>1, <1>4, <1>5 DEF Up
<1>8. \/ FirstFound(s) = Nil /\ \A k \in 1 .. n : s[k] = Nil
      \/ \E k \in 1 .. n : /\ FirstFound(s) = s[k] /\ s[k] # Nil
                           /\ \A j \in 1 .. n : j < k => s[j] = Nil
  BY <1>6, FirstIs
<1>9. 1 \in 1 .. n
  OBVIOUS
<1>10. CASE g[t] # Nil
  <2>1. PICK k \in 1 .. n : FirstFound(s) = s[k] /\ \A j \in 1 .. n : j < k => s[j] = Nil
    BY <1>6, <1>8, <1>9, <1>10
  <2>2. k = 1
    BY <1>6, <1>9, <1>10, <2>1
  <2> QED
    BY <1>6, <1>7, <1>10, <2>1, <2>2
<1>11. CASE g[t] = Nil /\ Top(t)
  <2>1. n = 1
    BY <1>2, <1>3, <1>11 DEF Upward
  <2>2. \A k \in 1 .. n : s[k] = Nil
    BY <1>6, <1>11, <2>1
  <2> QED
    BY <1>7, <1>8, <1>11, <2>2
<1>12. CASE g[t] = Nil /\ ~Top(t)
  <2>1. PICK q : q = TableChain(Above(t))
    OBVIOUS
  <2>2. Above(t) \in Table /\ Upward(Above(t), q)
    BY <1>2, <1>12, <2>1, TableChainIs DEF Upward
  <2>3. PICK m \in Nat \ {0} : m = Len(q)
    BY <2>2 DEF Upward
  <2>4. DOMAIN q = 1 .. m
    BY <2>2, <2>3, LenProperties DEF Upward
  <2>5. n = 1 + m /\ \A k \in 1 .. m : p[k + 1] = q[k]
    BY <1>2, <1>3, <1>12, <2>1, <2>3 DEF Upward
  <2>6. PICK u : u = [k \in 1 .. m |-> g[q[k]]]
    OBVIOUS
  <2>7. DOMAIN u = 1 .. m /\ Up(g, Above(t)) = FirstFound(u)
    BY <2>1, <2>4, <2>6 DEF Up
  <2>8. ASSUME NEW k \in 1 .. m PROVE k + 1 \in 1 .. n /\ s[k + 1] = u[k]
    <3>1. k + 1 \in 1 .. n
      BY <2>5
    <3> QED
      BY <1>6, <2>5, <2>6, <3>1
  <2>9. \A k \in 1 .. n : k = 1 \/ (k - 1 \in 1 .. m /\ (k - 1) + 1 = k)
    BY <2>5
  <2>10. \/ FirstFound(u) = Nil /\ \A k \in 1 .. m : u[k] = Nil
         \/ \E k \in 1 .. m : /\ FirstFound(u) = u[k] /\ u[k] # Nil
                              /\ \A j \in 1 .. m : j < k => u[j] = Nil
    BY <2>7, FirstIs
  <2>11. CASE FirstFound(s) = Nil /\ \A k \in 1 .. n : s[k] = Nil
    <3>1. \A k \in 1 .. m : u[k] = Nil
      BY <2>8, <2>11
    <3> QED
      BY <1>7, <1>12, <2>7, <2>10, <2>11, <3>1
  <2>12. CASE \E k \in 1 .. n : /\ FirstFound(s) = s[k] /\ s[k] # Nil
                                /\ \A j \in 1 .. n : j < k => s[j] = Nil
    <3>1. PICK k \in 1 .. n : /\ FirstFound(s) = s[k] /\ s[k] # Nil
                              /\ \A j \in 1 .. n : j < k => s[j] = Nil
      BY <2>12
    <3>2. k # 1
      BY <1>6, <1>12, <3>1
    <3>3. k - 1 \in 1 .. m /\ s[k] = u[k - 1] /\ u[k - 1] # Nil
      BY <2>8, <2>9, <3>1, <3>2
    <3>4. \A j \in 1 .. m : j < k - 1 => u[j] = Nil
      <4> SUFFICES ASSUME NEW j \in 1 .. m, j < k - 1 PROVE u[j] = Nil
        OBVIOUS
      <4>1. j + 1 \in 1 .. n /\ j + 1 < k /\ s[j + 1] = u[j]
        BY <2>8
      <4> QED
        BY <3>1, <4>1
    <3>5. PICK i \in 1 .. m : /\ FirstFound(u) = u[i] /\ u[i] # Nil
                              /\ \A j \in 1 .. m : j < i => u[j] = Nil
      BY <2>10, <3>3
    <3>6. ~(i < k - 1) /\ ~(k - 1 < i)
      BY <3>3, <3>4, <3>5
    <3>7. i = k - 1
      BY <3>6
    <3> QED
      BY <1>7, <1>12, <2>7, <3>1, <3>3, <3>5, <3>7
  <2> QED
    BY <1>8, <2>11, <2>12
<1> QED
  BY <1>10, <1>11, <1>12

LEMMA MethodsOf ==
  ASSUME NEW t \in Table
  PROVE  /\ Methods[t] \in Seq(SelName) /\ IsInjective(Methods[t])
         /\ DOMAIN Methods[t] \subseteq 1 .. 10
         /\ \A i \in DOMAIN Methods[t] :
              Methods[t][i] \in SelName /\ <<t, i>> \in Method /\ <<t, i>> # Nil
<1>1. Methods[t] \in Seq(SelName) /\ IsInjective(Methods[t]) /\ Len(Methods[t]) <= 10
  BY SelectorAssumption
<1>2. PICK n \in Nat : n = Len(Methods[t])
  BY <1>1, LenProperties
<1>3. DOMAIN Methods[t] = 1 .. n /\ n <= 10
  BY <1>1, <1>2, LenProperties
<1>4. ASSUME NEW i \in 1 .. n
      PROVE  Methods[t][i] \in SelName /\ <<t, i>> \in Method /\ <<t, i>> # Nil
  <2>1. Methods[t][i] \in SelName
    BY <1>1, <1>2, ElementOfSeq
  <2>2. i \in 1 .. 10 /\ <<t, i>> \in Table \X (1 .. 10)
    BY <1>3
  <2>3. <<t, i>> \in Method
    BY <1>3, <2>2 DEF Method
  <2> QED
    BY <2>1, <2>2, <2>3, SelectorAssumption
<1> QED
  BY <1>1, <1>3, <1>4

\* Of the methods of a class with one name there is one, the first and the last.
LEMMA OnlyOne ==
  ASSUME NEW t \in Table, NEW n, NEW I, I \subseteq DOMAIN Methods[t], I # {},
         \A i \in I : Methods[t][i] = n
  PROVE  \E i \in I : /\ I = {i} /\ Min(I) = i /\ (CHOOSE x \in I : \A j \in I : j <= x) = i
                      /\ <<t, i>> # Nil
<1>1. PICK i : i \in I
  OBVIOUS
<1>2. \A j \in I : j = i
  BY <1>1, MethodsOf DEF IsInjective
<1>3. I = {i} /\ i <= i /\ <<t, i>> # Nil
  BY <1>1, <1>2, MethodsOf
<1>4. Min(I) = i
  BY <1>3 DEF Min
<1>5. (CHOOSE x \in I : \A j \in I : j <= x) = i
  BY <1>3
<1> QED
  BY <1>1, <1>3, <1>4, <1>5

LEMMA SlotIs ==
  ASSUME NEW table, NamesOnce(table), NEW valid \in BOOLEAN, NEW n
  PROVE  /\ ~(valid /\ n \in Range(table)) => SlotIn(table, valid, n) = Nil
         /\ valid /\ n \in Range(table) =>
              /\ SlotIn(table, valid, n) \in Nat /\ SlotIn(table, valid, n) # Nil
              /\ SlotIn(table, valid, n) + 1 \in DOMAIN table
              /\ table[SlotIn(table, valid, n) + 1] = n
<1>1. ASSUME valid, n \in Range(table)
      PROVE  /\ SlotIn(table, valid, n) \in Nat /\ SlotIn(table, valid, n) # Nil
             /\ SlotIn(table, valid, n) + 1 \in DOMAIN table
             /\ table[SlotIn(table, valid, n) + 1] = n
  <2>1. PICK s : s = (CHOOSE x \in DOMAIN table : table[x] = n) /\ s \in DOMAIN table /\ table[s] = n
    BY <1>1 DEF Range
  <2>2. SlotIn(table, valid, n) = s - 1
    BY <1>1, <2>1 DEF SlotIn
  <2>3. DOMAIN table = 1 .. Len(table) /\ Len(table) \in Nat
    BY LenProperties DEF NamesOnce
  <2>4. s - 1 \in Nat /\ (s - 1) + 1 = s
    BY <2>1, <2>3
  <2> QED
    BY <2>1, <2>2, <2>4, Constants
<1> QED
  BY <1>1 DEF SlotIn

\* Two names with one slot are one.
LEMMA SlotsDiffer ==
  ASSUME NEW table, NamesOnce(table), NEW valid \in BOOLEAN, NEW n, NEW m,
         SlotIn(table, valid, n) # Nil, SlotIn(table, valid, m) = SlotIn(table, valid, n)
  PROVE  m = n
<1>1. /\ table[SlotIn(table, valid, n) + 1] = n
      /\ table[SlotIn(table, valid, m) + 1] = m
  BY SlotIs
<1> QED
  BY <1>1

LEMMA SlotBack ==
  ASSUME NEW table, NamesOnce(table), NEW s \in DOMAIN table, NEW valid \in BOOLEAN, NEW n
  PROVE  s - 1 # Nil /\ (SlotIn(table, valid, n) = s - 1 => valid /\ table[s] = n)
<1>1. s \in Nat \ {0}
  BY LenProperties DEF NamesOnce
<1>2. s - 1 \in Nat /\ s - 1 # Nil /\ (s - 1) + 1 = s
  BY <1>1, Constants
<1> QED
  BY <1>2, SlotIs
-----------------------------------------------------------------------------
(* The ways to find a method *)

\* What the loader's computations see of the selectors, and what a dispatch
\* table of t should have in slot s.
SelectorState == [bySlot |-> bySlot, frozen |-> frozen, selOf |-> selOf]
Entries(S, s) == [t \in Table |-> OwnEntry(S, t, s)]

\* The tables of a set of loaded ones have what the search up the chain finds, or
\* nothing.
TableRight(S, t, d) ==
  DOMAIN d = DOMAIN S.bySlot /\ \A s \in DOMAIN S.bySlot : d[s] \in {Nil, Up(Entries(S, s), t)}

Supered == \A c \in LoadedClasses : Super[c] \in LoadedClasses \cup {Nil}

\* A method that has a selector has one that is in a slot,
Slotted ==
  \A m \in Method : m[1] \in LoadedTables /\ selOf[m] # Nil =>
    frozen /\ NameOfMethod(m) \in Range(bySlot)

\* and all have if none could not be made.
AllSelected == selectorsFailed \/ \A m \in Method : selOf[m] # Nil

\* Where a method has lost its selector so have those it overrides.
LostAbove ==
  \A t \in Table : LET p == TableChain(t) IN
    \A j, k \in 1 .. Len(p) : j < k =>
      \A i \in DOMAIN Methods[p[j]], l \in DOMAIN Methods[p[k]] :
        Methods[p[j]][i] = Methods[p[k]][l] /\ selOf[<<p[j], i>>] = Nil
        => selOf[<<p[k], l>>] = Nil

RightTables ==
  \A t \in Table : dtable[t] # Nil => /\ t \in LoadedTables
                                      /\ TableRight(SelectorState, t, dtable[t])

SlotsTyped == NamesOnce(bySlot) /\ frozen \in BOOLEAN /\ generation \in Nat

LEMMA OwnMethodsIs ==
  ASSUME NEW t \in Table, NEW n
  PROVE  \/ /\ OwnMethods(t, n) = Nil
            /\ \A i \in DOMAIN Methods[t] : Methods[t][i] = n => selOf[<<t, i>>] = Nil
         \/ \E i \in DOMAIN Methods[t] :
              /\ Methods[t][i] = n /\ selOf[<<t, i>>] # Nil
              /\ OwnMethods(t, n) = <<t, i>> /\ <<t, i>> # Nil
<1> DEFINE own == {i \in DOMAIN Methods[t] : selOf[<<t, i>>] # Nil /\ Methods[t][i] = n}
<1>1. OwnMethods(t, n) = IF own = {} THEN Nil ELSE <<t, Min(own)>>
  BY DEF OwnMethods, SlotsMatch, NameOfMethod
<1>2. CASE own = {}
  BY <1>1, <1>2
<1>3. CASE own # {}
  <2>1. own \subseteq DOMAIN Methods[t] /\ \A i \in own : Methods[t][i] = n /\ selOf[<<t, i>>] # Nil
    OBVIOUS
  <2> HIDE DEF own
  <2>2. PICK i \in own : Min(own) = i /\ <<t, i>> # Nil
    BY <1>3, <2>1, OnlyOne
  <2> QED
    BY <1>1, <1>3, <2>1, <2>2
<1> QED
  BY <1>2, <1>3

LEMMA NamedIs ==
  ASSUME NEW t \in Table, NEW n
  PROVE  \/ Named(t, n) = Nil /\ \A i \in DOMAIN Methods[t] : Methods[t][i] # n
         \/ \E i \in DOMAIN Methods[t] :
              Methods[t][i] = n /\ Named(t, n) = <<t, i>> /\ <<t, i>> # Nil
<1>1. n \in Range(Methods[t]) <=> \E i \in DOMAIN Methods[t] : Methods[t][i] = n
  BY DEF Range
<1>2. CASE n \in Range(Methods[t])
  <2>1. PICK i : /\ i = CHOOSE x \in DOMAIN Methods[t] : Methods[t][x] = n
                 /\ i \in DOMAIN Methods[t] /\ Methods[t][i] = n
    BY <1>1, <1>2
  <2>2. Named(t, n) = <<t, i>> /\ <<t, i>> # Nil
    BY <1>2, <2>1, MethodsOf DEF Named
  <2> QED
    BY <2>1, <2>2
<1>3. CASE n \notin Range(Methods[t])
  BY <1>1, <1>3 DEF Named
<1> QED
  BY <1>2, <1>3

LEMMA SameSlotIs ==
  ASSUME SlotsTyped, Slotted, NEW t \in LoadedTables, t \in Table, NEW n
  PROVE  SameSlot(t, n) = OwnMethods(t, n)
<1>1. ASSUME NEW i \in DOMAIN Methods[t]
      PROVE  (selOf[<<t, i>>] # Nil /\ SlotOf(Methods[t][i]) = SlotOf(n))
             <=> SlotsMatch(<<t, i>>, n)
  <2> SUFFICES ASSUME selOf[<<t, i>>] # Nil
               PROVE  SlotOf(Methods[t][i]) = SlotOf(n) <=> Methods[t][i] = n
    BY DEF SlotsMatch, NameOfMethod
  <2>1. <<t, i>> \in Method
    BY MethodsOf
  <2>2. frozen /\ Methods[t][i] \in Range(bySlot)
    BY <2>1 DEF Slotted, NameOfMethod
  <2>3. SlotOf(Methods[t][i]) # Nil
    BY <2>2, SlotIs DEF SlotOf, SlotsTyped
  <2>4. ASSUME SlotOf(n) = SlotOf(Methods[t][i]) PROVE n = Methods[t][i]
    BY <2>3, <2>4, SlotsDiffer DEF SlotOf, SlotsTyped
  <2> QED
    BY <2>4
<1> DEFINE own == {i \in DOMAIN Methods[t] :
                     selOf[<<t, i>>] # Nil /\ SlotOf(Methods[t][i]) = SlotOf(n)}
<1>2. own = {i \in DOMAIN Methods[t] : SlotsMatch(<<t, i>>, n)}
  BY <1>1
<1>3. SameSlot(t, n) = IF own = {} THEN Nil ELSE <<t, Min(own)>>
  BY DEF SameSlot
<1>4. OwnMethods(t, n) = IF own = {} THEN Nil ELSE <<t, Min(own)>>
  BY <1>2 DEF OwnMethods
<1> QED
  BY <1>3, <1>4

\* With a class a set has all above, if it has the superclass of each.
LEMMA AllAbove ==
  ASSUME NEW C, \A c \in C : Super[c] \in C \cup {Nil}, NEW t \in Table,
         NEW j \in 1 .. Len(TableChain(t)), TableChain(t)[j] \in C \X Side
  PROVE  \A k \in j .. Len(TableChain(t)) : TableChain(t)[k] \in C \X Side
<1>1. PICK p : p = TableChain(t)
  OBVIOUS
<1>2. PICK n \in Nat : n = Len(p)
  BY <1>1, TableChainIs DEF Upward
<1>3. \A k \in 1 .. n - 1 : p[k] \in Table /\ ~Top(p[k]) /\ p[k + 1] = Above(p[k])
  <2>1. /\ \A k \in 1 .. n : p[k] \in Table
        /\ \A k \in 1 .. n - 1 : ~Top(p[k]) /\ p[k + 1] = Above(p[k])
    BY <1>1, <1>2, ChainSteps
  <2>2. \A k \in 1 .. n - 1 : k \in 1 .. n
    OBVIOUS
  <2> QED
    BY <2>1, <2>2
<1>4. j \in Nat /\ j \in 1 .. n /\ p[j] \in C \X Side
  BY <1>1, <1>2
<1>5. ASSUME NEW k \in j + 1 .. n, p[k - 1] \in C \X Side PROVE p[k] \in C \X Side
  <2>1. k - 1 \in 1 .. n - 1 /\ (k - 1) + 1 = k
    BY <1>4
  <2>2. PICK u : u = p[k - 1]
    OBVIOUS
  <2>3. u \in Table /\ ~Top(u) /\ p[k] = Above(u) /\ u[1] \in C /\ u[2] \in Side
    BY <1>3, <1>5, <2>1, <2>2
  <2>4. u[2] = "instances" \/ u[2] = "class"
    BY <2>3 DEF Side
  <2>5. Above(u) \in C \X Side
    BY <2>3 DEF Above, Side
  <2> QED
    BY <2>3, <2>5
<1>6. \A k \in j .. n : p[k] \in C \X Side
  BY <1>2, <1>4, <1>5, UpAll
<1> QED
  BY <1>1, <1>2, <1>6

LEMMA ReflectionWalks ==
  ASSUME SlotsTyped, Slotted, Supered, NEW t \in LoadedTables, t \in Table, NEW n
  PROVE  GetMethod(t, n) = Walk(t, n)
<1>1. PICK p : p = TableChain(t)
  OBVIOUS
<1>2. Upward(t, p)
  BY <1>1, TableChainIs
<1>3. PICK l \in Nat \ {0} : l = Len(p) /\ DOMAIN p = 1 .. l
  BY <1>2, LenProperties DEF Upward
<1>4. ASSUME NEW k \in 1 .. l PROVE SameSlot(p[k], n) = OwnMethods(p[k], n)
  <2>1. p[1] \in LoadedTables /\ 1 \in 1 .. Len(p)
    BY <1>2, <1>3 DEF Upward
  <2>2. p[k] \in LoadedTables
    BY <1>1, <1>3, <2>1, AllAbove DEF Supered, LoadedTables
  <2>3. p[k] \in Table
    BY <1>1, <1>3, ChainSteps
  <2> QED
    BY <2>2, <2>3, SameSlotIs
<1>5. [k \in DOMAIN p |-> SameSlot(p[k], n)] = [k \in DOMAIN p |-> OwnMethods(p[k], n)]
  BY <1>3, <1>4
<1> QED
  BY <1>1, <1>5 DEF GetMethod, Walk

\* The search up the chain finds the nearest method or, if that one has lost its
\* selector, none.
LEMMA WalkFinds ==
  ASSUME LostAbove, NEW t \in Table, NEW n
  PROVE  /\ Walk(t, n) \in {Nil, Nearest(t, n)}
         /\ (\A m \in Method : selOf[m] # Nil) => Walk(t, n) = Nearest(t, n)
<1>1. PICK p : p = TableChain(t)
  OBVIOUS
<1>2. Upward(t, p)
  BY <1>1, TableChainIs
<1>3. PICK l \in Nat \ {0} : l = Len(p) /\ DOMAIN p = 1 .. l
  BY <1>2, LenProperties DEF Upward
<1>4. \A k \in 1 .. l : p[k] \in Table
  BY <1>1, <1>3, ChainSteps
<1>5. PICK w : w = [k \in 1 .. l |-> OwnMethods(p[k], n)]
  OBVIOUS
<1>6. PICK v : v = [k \in 1 .. l |-> Named(p[k], n)]
  OBVIOUS
<1>7. Walk(t, n) = FirstFound(w) /\ Nearest(t, n) = FirstFound(v)
  BY <1>1, <1>3, <1>5, <1>6 DEF Walk, Nearest
<1>8. ASSUME NEW k \in 1 .. l
      PROVE  \/ w[k] = Nil /\ v[k] = Nil
             \/ \E i \in DOMAIN Methods[p[k]] :
                  /\ Methods[p[k]][i] = n /\ v[k] = <<p[k], i>> /\ v[k] # Nil
                  /\ w[k] = IF selOf[<<p[k], i>>] = Nil THEN Nil ELSE v[k]
  <2>1. PICK u \in Table : u = p[k]
    BY <1>4
  <2>2. w[k] = OwnMethods(u, n) /\ v[k] = Named(u, n)
    BY <1>5, <1>6, <2>1
  <2>3. \/ Named(u, n) = Nil /\ \A i \in DOMAIN Methods[u] : Methods[u][i] # n
        \/ \E i \in DOMAIN Methods[u] :
             Methods[u][i] = n /\ Named(u, n) = <<u, i>> /\ <<u, i>> # Nil
    BY NamedIs
  <2>4. \/ /\ OwnMethods(u, n) = Nil
           /\ \A i \in DOMAIN Methods[u] : Methods[u][i] = n => selOf[<<u, i>>] = Nil
        \/ \E i \in DOMAIN Methods[u] :
             /\ Methods[u][i] = n /\ selOf[<<u, i>>] # Nil
             /\ OwnMethods(u, n) = <<u, i>> /\ <<u, i>> # Nil
    BY OwnMethodsIs
  <2>5. \A i, j \in DOMAIN Methods[u] : Methods[u][i] = Methods[u][j] => i = j
    BY MethodsOf DEF IsInjective
  <2>6. CASE Named(u, n) = Nil /\ \A i \in DOMAIN Methods[u] : Methods[u][i] # n
    BY <2>2, <2>4, <2>6
  <2>7. CASE \E i \in DOMAIN Methods[u] :
               Methods[u][i] = n /\ Named(u, n) = <<u, i>> /\ <<u, i>> # Nil
    <3>1. PICK i \in DOMAIN Methods[u] :
            Methods[u][i] = n /\ Named(u, n) = <<u, i>> /\ <<u, i>> # Nil
      BY <2>7
    <3>2. OwnMethods(u, n) = IF selOf[<<u, i>>] = Nil THEN Nil ELSE <<u, i>>
      <4>1. CASE selOf[<<u, i>>] = Nil
        BY <2>4, <2>5, <3>1, <4>1
      <4>2. CASE selOf[<<u, i>>] # Nil
        BY <2>4, <2>5, <3>1, <4>2
      <4> QED
        BY <4>1, <4>2
    <3> QED
      BY <2>1, <2>2, <3>1, <3>2
  <2> QED
    BY <2>3, <2>6, <2>7
<1>9. DOMAIN w = 1 .. l /\ DOMAIN v = 1 .. l
  BY <1>5, <1>6
<1>10. \/ FirstFound(v) = Nil /\ \A k \in 1 .. l : v[k] = Nil
       \/ \E k \in 1 .. l : /\ FirstFound(v) = v[k] /\ v[k] # Nil
                            /\ \A j \in 1 .. l : j < k => v[j] = Nil
  BY <1>9, FirstIs
<1>11. \/ FirstFound(w) = Nil /\ \A k \in 1 .. l : w[k] = Nil
       \/ \E k \in 1 .. l : /\ FirstFound(w) = w[k] /\ w[k] # Nil
                            /\ \A j \in 1 .. l : j < k => w[j] = Nil
  BY <1>9, FirstIs
<1>12. CASE FirstFound(v) = Nil /\ \A k \in 1 .. l : v[k] = Nil
  <2>1. \A k \in 1 .. l : w[k] = Nil
    BY <1>8, <1>12
  <2>2. FirstFound(w) = Nil
    BY <1>11, <2>1
  <2> QED
    BY <1>7, <1>12, <2>2
<1>13. CASE \E k \in 1 .. l : /\ FirstFound(v) = v[k] /\ v[k] # Nil
                              /\ \A j \in 1 .. l : j < k => v[j] = Nil
  <2>1. PICK k \in 1 .. l : /\ FirstFound(v) = v[k] /\ v[k] # Nil
                            /\ \A j \in 1 .. l : j < k => v[j] = Nil
    BY <1>13
  <2>2. PICK i \in DOMAIN Methods[p[k]] :
          /\ Methods[p[k]][i] = n /\ v[k] = <<p[k], i>>
          /\ w[k] = IF selOf[<<p[k], i>>] = Nil THEN Nil ELSE v[k]
    BY <1>8, <2>1
  <2>3. \A j \in 1 .. l : j < k => w[j] = Nil
    BY <1>8, <2>1
  <2>4. CASE selOf[<<p[k], i>>] # Nil
    <3>1. w[k] = v[k] /\ w[k] # Nil
      BY <2>1, <2>2, <2>4
    <3>2. PICK h \in 1 .. l : /\ FirstFound(w) = w[h] /\ w[h] # Nil
                              /\ \A j \in 1 .. l : j < h => w[j] = Nil
      BY <1>11, <3>1
    <3>3. ~(h < k) /\ ~(k < h)
      BY <2>3, <3>1, <3>2
    <3>4. h = k
      BY <3>3
    <3> QED
      BY <1>7, <2>1, <3>1, <3>2, <3>4
  <2>5. CASE selOf[<<p[k], i>>] = Nil
    <3>1. ASSUME NEW h \in 1 .. l, k < h PROVE w[h] = Nil
      <4> SUFFICES ASSUME w[h] # Nil PROVE FALSE
        OBVIOUS
      <4>1. PICK x \in DOMAIN Methods[p[h]] : Methods[p[h]][x] = n /\ selOf[<<p[h], x>>] # Nil
        BY <1>8
      <4>2. Methods[p[k]][i] = Methods[p[h]][x] /\ selOf[<<p[k], i>>] = Nil
        BY <2>2, <2>5, <4>1
      <4>3. selOf[<<p[h], x>>] = Nil
        BY <1>1, <1>3, <3>1, <4>2 DEF LostAbove
      <4> QED
        BY <4>1, <4>3
    <3>2. w[k] = Nil
      BY <2>2, <2>5
    <3>3. ASSUME NEW h \in 1 .. l PROVE w[h] = Nil
      <4>1. h < k \/ h = k \/ k < h
        OBVIOUS
      <4> QED
        BY <2>3, <3>1, <3>2, <4>1
    <3>4. FirstFound(w) = Nil
      BY <1>11, <3>3
    <3>5. <<p[k], i>> \in Method
      BY <1>4, <2>2, MethodsOf
    <3> QED
      BY <1>7, <2>5, <3>4, <3>5
  <2> QED
    BY <2>4, <2>5
<1> QED
  BY <1>10, <1>12, <1>13

\* What a dispatch table has is what the search up the chain finds.
LEMMA LookupWalks ==
  ASSUME SlotsTyped, RightTables, NEW t \in Table, NEW n
  PROVE  LookupImp(t, n) = Walk(t, n)
<1> SUFFICES ASSUME DtableImp(t, n) # Nil PROVE DtableImp(t, n) = Walk(t, n)
  BY DEF LookupImp
<1>1. dtable[t] # Nil /\ SlotOf(n) # Nil /\ DtableImp(t, n) = dtable[t][SlotOf(n) + 1]
  BY DEF DtableImp
<1>2. PICK s : s = SlotOf(n) + 1
  OBVIOUS
<1>3. s \in DOMAIN bySlot /\ bySlot[s] = n /\ SlotOf(n) = s - 1 /\ frozen /\ n \in Range(bySlot)
  <2>1. frozen /\ n \in Range(bySlot)
    BY <1>1, SlotIs DEF SlotOf, SlotsTyped
  <2>2. SlotOf(n) \in Nat /\ SlotOf(n) + 1 \in DOMAIN bySlot /\ bySlot[SlotOf(n) + 1] = n
    BY <2>1, SlotIs DEF SlotOf, SlotsTyped
  <2> QED
    BY <1>2, <2>1, <2>2
<1>4. PICK S : S = SelectorState
  OBVIOUS
<1>5. S.bySlot = bySlot /\ S.frozen = frozen /\ S.selOf = selOf
  BY <1>4 DEF SelectorState
<1>6. dtable[t][s] = Up(Entries(S, s), t)
  <2>1. TableRight(S, t, dtable[t])
    BY <1>1, <1>4 DEF RightTables
  <2>2. dtable[t][s] # Nil
    BY <1>1, <1>2
  <2> QED
    BY <1>3, <1>5, <2>1, <2>2 DEF TableRight
\* In the slot of a name are the methods with that name.
<1>7. ASSUME NEW u \in Table PROVE OwnEntry(S, u, s) = OwnMethods(u, n)
  <2> DEFINE named == {i \in DOMAIN Methods[u] :
                         S.selOf[<<u, i>>] # Nil /\ SlotIn(S.bySlot, S.frozen, Methods[u][i]) = s - 1}
             own == {i \in DOMAIN Methods[u] : SlotsMatch(<<u, i>>, n)}
  <2>1. ASSUME NEW i \in DOMAIN Methods[u]
        PROVE  SlotIn(bySlot, frozen, Methods[u][i]) = s - 1 <=> Methods[u][i] = n
    <3>1. ASSUME SlotIn(bySlot, frozen, Methods[u][i]) = s - 1 PROVE Methods[u][i] = n
      BY <1>1, <1>3, <3>1, SlotsDiffer DEF SlotOf, SlotsTyped
    <3>2. ASSUME Methods[u][i] = n PROVE SlotIn(bySlot, frozen, Methods[u][i]) = s - 1
      BY <1>3, <3>2 DEF SlotOf
    <3> QED
      BY <3>1, <3>2
  <2>2. named = own
    BY <1>5, <2>1 DEF SlotsMatch, NameOfMethod
  <2>3. OwnEntry(S, u, s) = IF named = {} THEN Nil
                            ELSE <<u, CHOOSE i \in named : \A j \in named : j <= i>>
    BY DEF OwnEntry
  <2>4. OwnMethods(u, n) = IF own = {} THEN Nil ELSE <<u, Min(own)>>
    BY DEF OwnMethods
  <2>5. own \subseteq DOMAIN Methods[u] /\ \A i \in own : Methods[u][i] = n
    BY DEF SlotsMatch, NameOfMethod
  <2> HIDE DEF named, own
  <2>6. CASE own = {}
    BY <2>2, <2>3, <2>4, <2>6
  <2>7. CASE own # {}
    <3>1. PICK i \in own : Min(own) = i /\ (CHOOSE x \in own : \A j \in own : j <= x) = i
      BY <2>5, <2>7, OnlyOne
    <3> QED
      BY <2>2, <2>3, <2>4, <2>7, <3>1
  <2> QED
    BY <2>6, <2>7
<1>8. PICK p : p = TableChain(t)
  OBVIOUS
<1>9. \A k \in DOMAIN p : p[k] \in Table
  <2>1. DOMAIN p = 1 .. Len(p)
    BY <1>8, TableChainIs, LenProperties DEF Upward
  <2> QED
    BY <1>8, <2>1, ChainSteps
<1>10. \A k \in DOMAIN p : Entries(S, s)[p[k]] = OwnMethods(p[k], n)
  BY <1>7, <1>9 DEF Entries
<1>11. [k \in DOMAIN p |-> Entries(S, s)[p[k]]] = [k \in DOMAIN p |-> OwnMethods(p[k], n)]
  BY <1>10
<1>12. Up(Entries(S, s), t) = Walk(t, n)
  BY <1>8, <1>11 DEF Up, Walk
<1> QED
  BY <1>1, <1>2, <1>6, <1>12
-----------------------------------------------------------------------------
(* Names that are collected get an entry *)

LEMMA PartsFlattened ==
  ASSUME NEW S, NEW seqs \in Seq(Seq(S)), NEW i \in 1 .. Len(seqs)
  PROVE  Range(seqs[i]) \subseteq Range(FlattenSeq(seqs))
<1>1. PICK n \in Nat : n = Len(seqs)
  BY LenProperties
<1> DEFINE f == CHOOSE flatten : Flattens(flatten, seqs, n)
<1>2. FlattenSeq(seqs) = f[n]
  BY <1>1 DEF FlattenSeq, Flattens
<1>3. Flattens(f, seqs, n)
  BY FlattensExists
<1> HIDE DEF f
<1>4. \A k \in 1 .. n : f[k] = IF k = 1 THEN seqs[k] ELSE f[k - 1] \o seqs[k]
  BY <1>3 DEF Flattens
<1>5. \A k \in 1 .. n : seqs[k] \in Seq(S)
  BY <1>1, ElementOfSeq
<1>6. i \in Nat /\ i \in 1 .. n /\ seqs[i] \in Seq(S)
  BY <1>1, <1>5
<1> DEFINE V == {s \in Seq(S) : Range(seqs[i]) \subseteq Range(s)}
<1>7. \A k \in 1 .. n : f[k] \in Seq(S)
  <2>1. f[1] \in Seq(S)
    BY <1>4, <1>5, <1>6
  <2>2. ASSUME NEW k \in 1 + 1 .. n, f[k - 1] \in Seq(S) PROVE f[k] \in Seq(S)
    <3>1. k \in 1 .. n /\ k # 1
      OBVIOUS
    <3>2. f[k] = f[k - 1] \o seqs[k] /\ seqs[k] \in Seq(S)
      BY <1>4, <1>5, <3>1
    <3> QED
      BY <2>2, <3>2, ConcatProperties
  <2>3. 1 \in Nat
    OBVIOUS
  <2> QED
    BY <2>1, <2>2, <2>3, UpAll
<1>8. f[i] \in V
  <2>1. CASE i = 1
    BY <1>4, <1>6, <2>1
  <2>2. CASE i # 1
    <3>1. f[i] = f[i - 1] \o seqs[i] /\ f[i - 1] \in Seq(S)
      <4>1. i - 1 \in 1 .. n
        BY <1>6, <2>2
      <4> QED
        BY <1>4, <1>6, <1>7, <2>2, <4>1
    <3>2. Range(f[i]) = Range(f[i - 1]) \cup Range(seqs[i])
      BY <1>6, <3>1, RangeConcatenation
    <3> QED
      BY <1>6, <1>7, <3>2
  <2> QED
    BY <2>1, <2>2
<1>9. ASSUME NEW k \in i + 1 .. n, f[k - 1] \in V PROVE f[k] \in V
  <2>1. k \in 1 .. n /\ k # 1
    BY <1>6
  <2>2. f[k] = f[k - 1] \o seqs[k] /\ seqs[k] \in Seq(S) /\ f[k] \in Seq(S)
    BY <1>4, <1>5, <1>7, <2>1
  <2>3. Range(f[k]) = Range(f[k - 1]) \cup Range(seqs[k])
    BY <1>9, <2>2, RangeConcatenation
  <2> QED
    BY <1>9, <2>2, <2>3
<1>10. \A k \in i .. n : f[k] \in V
  <2> HIDE DEF V
  <2> QED
    BY <1>6, <1>8, <1>9, UpAll
<1>11. n \in i .. n
  BY <1>6
<1> QED
  BY <1>2, <1>10, <1>11

LEMMA NamesAdded ==
  ASSUME NEW table, NamesOnce(table), NEW names \in Seq(Readable), NEW fails,
         NEW i \in 1 .. Len(names), names[i] # Nil, <<"entry", names[i]>> \notin fails
  PROVE  names[i] \in Range(WithNames(table, names, fails))
<1>1. PICK n \in Nat : n = Len(names)
  BY LenProperties
<1>2. PICK f : Names(f, table, names, fails, n) /\ WithNames(table, names, fails) = f[n]
  BY <1>1, WithNamesIs
<1>3. \A k \in 0 .. n : f[k] = IF k = 0 THEN table ELSE WithName(f[k - 1], names[k], fails)
  BY <1>2 DEF Names
<1>4. \A k \in 1 .. n : names[k] \in Readable
  BY <1>1, ElementOfSeq
<1> DEFINE V == {s \in Seq(SelName) : IsInjective(s)}
           W == {s \in Seq(SelName) : IsInjective(s) /\ names[i] \in Range(s)}
<1>5. ASSUME NEW k \in 1 .. n, f[k - 1] \in V
      PROVE  /\ f[k] \in V /\ Range(f[k - 1]) \subseteq Range(f[k])
             /\ names[k] # Nil /\ <<"entry", names[k]>> \notin fails => names[k] \in Range(f[k])
  <2>1. f[k] = WithName(f[k - 1], names[k], fails) /\ names[k] \in Readable
    BY <1>3, <1>4
  <2>2. CASE names[k] = Nil \/ <<"entry", names[k]>> \in fails
    BY <1>5, <2>1, <2>2 DEF WithName
  <2>3. CASE ~(names[k] = Nil \/ <<"entry", names[k]>> \in fails)
    <3>1. f[k] = InsertEntry(f[k - 1], names[k]) /\ names[k] \in SelName
      BY <2>1, <2>3 DEF WithName, Readable
    <3>2. NamesOnce(f[k - 1])
      BY <1>5 DEF NamesOnce
    <3>3. /\ NamesOnce(f[k]) /\ Range(f[k - 1]) \subseteq Range(f[k])
          /\ names[k] \in Range(f[k])
      BY <3>1, <3>2, EntryInserted
    <3> QED
      BY <3>3 DEF NamesOnce
  <2> QED
    BY <2>2, <2>3
<1>6. \A k \in 0 .. n : f[k] \in V
  <2>1. f[0] \in V
    BY <1>3 DEF NamesOnce
  <2> HIDE DEF V
  <2>2. 0 \in Nat /\ 0 + 1 = 1
    OBVIOUS
  <2>3. \A k \in 0 + 1 .. n : f[k - 1] \in V => f[k] \in V
    BY <1>5, <2>2
  <2> QED
    BY <2>1, <2>2, <2>3, UpAll
<1>7. i \in Nat /\ i \in 1 .. n /\ \A k \in i .. n : k \in 1 .. n /\ k - 1 \in 0 .. n
  BY <1>1
<1>8. f[i] \in W
  BY <1>5, <1>6, <1>7
<1>9. ASSUME NEW k \in i + 1 .. n, f[k - 1] \in W PROVE f[k] \in W
  <2>1. k \in 1 .. n /\ f[k - 1] \in V
    BY <1>7, <1>9
  <2> QED
    BY <1>5, <1>9, <2>1
<1>10. \A k \in i .. n : f[k] \in W
  <2> HIDE DEF W
  <2> QED
    BY <1>7, <1>8, <1>9, UpAll
<1>11. n \in i .. n
  BY <1>7
<1> QED
  BY <1>2, <1>10, <1>11

\* The names of a mapped class's methods are among those that are collected.
LEMMA MethodsCollected ==
  ASSUME NEW r \in Seq(Image), NEW map \in Map, NEW names \in [Region -> Readable],
         NEW j \in Slot, map[j] # Nil, NEW side \in Side, NEW t, t = <<map[j].cls, side>>, NEW i \in DOMAIN Methods[t],
         selOf[<<t, i>>] # Nil
  PROVE  \E l \in 1 .. Len(CollectedNames(r, map, names)) :
           Methods[t][i] \in Range(CollectedNames(r, map, names)[l])
<1>1. PICK n \in Nat : n = Len(r) /\ DOMAIN r = 1 .. n
  BY LenProperties
<1>2. PICK p : p = [k \in 1 .. n |-> RegionNames(r[k], names)]
  OBVIOUS
<1>3. p \in Seq({RegionNames(x, names) : x \in Image}) /\ Len(p) = n
  <2>1. \A k \in 1 .. n : r[k] \in Image
    BY <1>1, ElementOfSeq
  <2>2. p \in [1 .. n -> {RegionNames(x, names) : x \in Image}]
    BY <1>2, <2>1
  <2> QED
    BY <2>2, SeqDef, LenProperties
<1>4. PICK c \in Class : c = map[j].cls
  BY EntryAt
<1>5. PICK u, v : u = MethodNames(<<c, "instances">>) /\ v = MethodNames(<<c, "class">>)
  OBVIOUS
<1>6. u \in Seq(Readable) /\ v \in Seq(Readable)
  BY <1>4, <1>5, MethodNamesTyped DEF Table, Side
<1>7. PICK part : part = [k \in 1 .. MapSize |->
                           IF map[k - 1] = Nil THEN <<>>
                           ELSE MethodNames(<<map[k - 1].cls, "instances">>)
                                \o MethodNames(<<map[k - 1].cls, "class">>)]
  OBVIOUS
<1>8. MapSize \in Nat /\ j + 1 \in 1 .. MapSize /\ (j + 1) - 1 = j /\ j + 1 \in Nat
  BY Constants DEF Slot
<1>9. part[j + 1] = u \o v
  BY <1>4, <1>5, <1>7, <1>8
<1>10. Methods[t][i] \in Range(u) \cup Range(v)
  <2>1. t = <<c, side>> /\ t \in Table /\ side \in {"instances", "class"}
    BY <1>4 DEF Table, Side
  <2>2. MethodNames(t) = [k \in DOMAIN Methods[t] |-> IF selOf[<<t, k>>] = Nil THEN Nil ELSE Methods[t][k]]
    BY DEF MethodNames
  <2>3. MethodNames(t)[i] = Methods[t][i] /\ i \in DOMAIN MethodNames(t)
    BY <2>2
  <2>4. Methods[t][i] \in Range(MethodNames(t))
    BY <2>3 DEF Range
  <2> QED
    BY <1>5, <2>1, <2>4
<1>11. Range(u \o v) = Range(u) \cup Range(v)
  BY <1>6, RangeConcatenation
<1>12. PICK all : all = CollectedNames(r, map, names)
  OBVIOUS
<1>13. all = p \o part \o <<Builtins>>
  BY <1>1, <1>2, <1>7, <1>12 DEF CollectedNames
<1>14. n + (j + 1) \in 1 .. Len(all) /\ all[n + (j + 1)] = part[j + 1]
  <2> DEFINE T == {RegionNames(x, names) : x \in Image} \cup {part[k] : k \in 1 .. MapSize} \cup {Builtins}
  <2>1. p \in Seq(T) /\ part \in Seq(T) /\ Len(part) = MapSize
    <3>1. p \in Seq(T)
      <4>1. {RegionNames(x, names) : x \in Image} \subseteq T
        OBVIOUS
      <4> HIDE DEF T
      <4> QED
        BY <1>3, <4>1, SeqMonotonic
    <3>2. part \in [1 .. MapSize -> T]
      BY <1>7
    <3> HIDE DEF T
    <3>3. part \in Seq(T) /\ Len(part) = MapSize
      BY <1>8, <3>2, SeqDef, LenProperties
    <3> QED
      BY <3>1, <3>3
  <2>2. PICK b : b = <<Builtins>>
    OBVIOUS
  <2>3. Builtins \in T
    OBVIOUS
  <2> HIDE DEF T
  <2>4. b \in Seq(T) /\ Len(b) = 1
    BY <2>2, <2>3
  <2>5. PICK w : w = p \o part
    OBVIOUS
  <2>6. /\ w \in Seq(T) /\ Len(w) = n + MapSize
        /\ \A k \in 1 .. n + MapSize : w[k] = IF k <= n THEN p[k] ELSE part[k - n]
    BY <1>3, <2>1, <2>5, ConcatProperties
  <2>7. /\ Len(w \o b) = Len(w) + 1
        /\ \A k \in 1 .. Len(w) + 1 : (w \o b)[k] = IF k <= Len(w) THEN w[k] ELSE b[k - Len(w)]
    <3>1. /\ Len(w \o b) = Len(w) + Len(b)
          /\ \A k \in 1 .. Len(w) + Len(b) : (w \o b)[k] = IF k <= Len(w) THEN w[k] ELSE b[k - Len(w)]
      BY <2>4, <2>6, ConcatProperties
    <3> QED
      BY ONLY <2>4, <3>1
  <2>8. all = w \o b
    BY <1>13, <2>2, <2>5
  <2>9. /\ n + (j + 1) \in 1 .. n + MapSize /\ ~(n + (j + 1) <= n)
        /\ (n + (j + 1)) - n = j + 1
    BY <1>8
  <2>10. w[n + (j + 1)] = part[j + 1]
    BY <2>6, <2>9
  <2>11. /\ Len(all) = (n + MapSize) + 1
         /\ \A k \in 1 .. (n + MapSize) + 1 : k <= n + MapSize => all[k] = w[k]
    BY <2>6, <2>7, <2>8
  <2> QED
    BY <1>8, <2>9, <2>10, <2>11
<1> QED
  BY <1>9, <1>10, <1>11, <1>12, <1>14

\* A method of a mapped class that has a selector has an entry again, unless
\* there is no memory for it.
LEMMA MethodEntered ==
  ASSUME NamesOnce(entries), NEW r \in Seq(Image), NEW map \in Map,
         NEW read \in [Region -> Readable], NEW fails, NEW m \in Method, m[1][1] \in MappedClasses(map), selOf[m] # Nil,
         <<"entry", NameOfMethod(m)>> \notin fails
  PROVE  NameOfMethod(m) \in Range(Collect(r, map, read, fails))
<1>1. PICK t, i : m = <<t, i>> /\ t \in Table /\ i \in DOMAIN Methods[t]
  BY DEF Method
<1>2. t[1] \in MappedClasses(map) /\ NameOfMethod(m) = Methods[t][i] /\ selOf[<<t, i>>] # Nil
  BY <1>1 DEF NameOfMethod
<1>3. PICK side \in Side : t = <<t[1], side>>
  BY <1>1 DEF Table
<1>4. PICK j \in Slot : map[j] # Nil /\ map[j].cls = t[1]
  BY <1>2 DEF MappedClasses, Slot
<1>5. PICK lists \in Seq(Seq(Readable)) : lists = CollectedNames(r, map, read) /\ Len(lists) # 0
  BY NamesCollected
<1>6. PICK l \in 1 .. Len(lists) : Methods[t][i] \in Range(lists[l])
  <2>1. t = <<map[j].cls, side>>
    BY <1>3, <1>4
  <2> QED
    BY <1>1, <1>2, <1>4, <1>5, <2>1, MethodsCollected
<1>7. PICK names \in Seq(Readable) : names = FlattenSeq(lists)
  BY <1>5, Flattened
<1>8. Methods[t][i] \in Range(names)
  BY <1>5, <1>6, <1>7, PartsFlattened
<1>9. PICK k \in 1 .. Len(names) : names[k] = Methods[t][i]
  <2>1. DOMAIN names = 1 .. Len(names)
    BY LenProperties
  <2> QED
    BY <1>8, <2>1 DEF Range
<1>10. Methods[t][i] \in SelName /\ Methods[t][i] # Nil
  <2>1. Methods[t][i] \in SelName
    BY <1>1, MethodsOf
  <2> QED
    BY <2>1, SelectorAssumption
<1>11. names[k] # Nil /\ <<"entry", names[k]>> \notin fails
  BY <1>2, <1>9, <1>10
<1>12. names[k] \in Range(WithNames(entries, names, fails))
  BY <1>7, <1>9, <1>11, NamesAdded
<1> QED
  BY <1>2, <1>5, <1>7, <1>9, <1>12 DEF Collect
-----------------------------------------------------------------------------
(* Selectors of methods after a load *)

\* Whether selectors could be made.
Unharmed(fails) == \A f \in fails : f[1] \notin {"entry", "frozen", "slots"}

LEMMA SelectorsAfter ==
  ASSUME NamesFit, MapInv, SelectorInv, SlotsTyped, NEW img \in Image, NEW fails,
         LoadClasses(img), LoadSelectors(img, fails)
  PROVE  /\ SlotsTyped'
         /\ \A m \in Method :
              /\ m[1][1] \notin LoadedClasses => selOf[m] = 0
              /\ m[1][1] \notin LoadedClasses' => selOf'[m] = 0
              /\ m[1][1] \in LoadedClasses' =>
                   selOf'[m] = IF selOf[m] # Nil /\ SlotIn(bySlot', frozen', NameOfMethod(m)) # Nil
                               THEN generation' ELSE Nil
              /\ m[1][1] \in LoadedClasses' /\ selOf[m] # Nil /\ Unharmed(fails) =>
                   SlotIn(bySlot', frozen', NameOfMethod(m)) # Nil
<1>1. MapInv' /\ LoadedClasses \subseteq LoadedClasses'
  BY LoadingKeeps
<1>2. PICK map : map = Registered(classMap, Registrations(img))
  OBVIOUS
<1>3. map = classMap' /\ map \in Map
  BY <1>1, <1>2 DEF LoadClasses, MapInv, Ordered
<1>4. MappedClasses(map) = LoadedClasses'
  BY <1>1, <1>3, MappedThenLoaded
<1>5. PICK r : r = NewRegions(img, fails)
  OBVIOUS
<1>6. r \in Seq(Image)
  BY <1>5, RegionAdded DEF SelectorInv, NewRegions
<1>7. PICK first \in Readings(SelName \ Range(entries)), valid \in BOOLEAN :
        LET table == Collect(r, map, first, fails) IN
        /\ valid = (<<"slots", Nil>> \notin fails)
        /\ SelectorsLoaded(r, map, table, NewSlots(table, valid, fails), valid,
                           NewGeneration(valid), fails)
  BY <1>2, <1>5, LoadingIs
<1>8. PICK table, slots, gen :
        /\ table = Collect(r, map, first, fails) /\ slots = NewSlots(table, valid, fails)
        /\ gen = NewGeneration(valid)
  OBVIOUS
<1>9. SelectorsLoaded(r, map, table, slots, valid, gen, fails)
  BY <1>7, <1>8
<1>10. first \in [Region -> Readable]
  BY ReadingsAre DEF SelectorInv
<1>11. NamesOnce(table)
  BY <1>3, <1>6, <1>8, <1>10, Collected DEF SelectorInv, Extends
<1>12. /\ valid => NamesOnce(slots)
       /\ valid => Range(slots) = {x \in Range(table) : <<"frozen", x>> \notin fails}
  BY <1>8, <1>11, FrozenAre DEF NewSlots
<1>13. SlotsTyped'
  <2>1. NamesOnce(slots) /\ gen \in Nat
    BY <1>8, <1>12 DEF SlotsTyped, NewSlots, NewGeneration
  <2> QED
    BY <1>9, <2>1 DEF SlotsTyped, NamesOnce, SelectorsLoaded
<1>14. ASSUME NEW m \in Method
       PROVE  /\ m[1][1] \notin LoadedClasses => selOf[m] = 0
              /\ m[1][1] \notin LoadedClasses' => selOf'[m] = 0
              /\ m[1][1] \in LoadedClasses' =>
                   selOf'[m] = IF selOf[m] # Nil /\ SlotIn(slots, valid, NameOfMethod(m)) # Nil
                               THEN gen ELSE Nil
  <2>1. selOf'[m] = IF m[1][1] \notin LoadedClasses' \/ ~(HasName(m) \/ selOf[m] = Nil) THEN selOf[m]
                    ELSE IF selOf[m] # Nil /\ SlotIn(slots, valid, NameOfMethod(m)) # Nil
                    THEN gen ELSE Nil
    BY <1>4, <1>9 DEF Canonical, SelectorsLoaded
  <2>2. IF m[1][1] \in LoadedClasses THEN selOf[m] \in {Nil, generation} ELSE selOf[m] = 0
    BY DEF SelectorInv, MethodsLive
  <2>3. HasName(m) \/ selOf[m] = Nil
    BY <2>2 DEF HasName
  <2> QED
    BY <1>1, <2>1, <2>2, <2>3
<1>15. ASSUME NEW m \in Method, m[1][1] \in LoadedClasses', selOf[m] # Nil, Unharmed(fails)
       PROVE  SlotIn(slots, valid, NameOfMethod(m)) # Nil
  <2>1. /\ <<"entry", NameOfMethod(m)>> \notin fails /\ <<"frozen", NameOfMethod(m)>> \notin fails
        /\ <<"slots", Nil>> \notin fails
    BY <1>15 DEF Unharmed
  <2>2. NameOfMethod(m) \in Range(table)
    BY <1>3, <1>4, <1>6, <1>8, <1>10, <1>15, <2>1, MethodEntered DEF SelectorInv
  <2>3. valid /\ NameOfMethod(m) \in Range(slots)
    BY <1>7, <1>12, <2>1, <2>2
  <2> QED
    BY <1>12, <2>3, SlotIs
<1> QED
  BY <1>9, <1>13, <1>14, <1>15 DEF SelectorsLoaded

LEMMA SuperedAfter ==
  ASSUME NamesFit, MapInv, Supered, NEW img \in Image, LoadClasses(img)
  PROVE  Supered'
<1>1. LoadedClasses' = Linked(img) /\ LoadedClasses \subseteq LoadedClasses'
  BY LoadingKeeps
<1>2. ASSUME NEW c \in Linked(img) PROVE Super[c] \in Linked(img) \cup {Nil}
  <2>1. CASE c \in LoadedClasses
    BY <1>1, <2>1 DEF Supered
  <2>2. CASE c \in Range(Classes[img])
    BY <2>2 DEF LoadClasses
  <2> QED
    BY <2>1, <2>2 DEF Linked
<1> QED
  BY <1>1, <1>2 DEF Supered

LEMMA SlottedAfter ==
  ASSUME NamesFit, MapInv, SelectorInv, SlotsTyped, NEW img \in Image, NEW fails,
         LoadClasses(img), LoadSelectors(img, fails)
  PROVE  Slotted'
<1>1. SlotsTyped'
  BY SelectorsAfter
<1>2. ASSUME NEW m \in Method, m[1] \in LoadedTables', selOf'[m] # Nil
      PROVE  frozen' /\ NameOfMethod(m) \in Range(bySlot')
  <2>1. m[1][1] \in LoadedClasses'
    BY <1>2 DEF LoadedTables
  <2>2. SlotIn(bySlot', frozen', NameOfMethod(m)) # Nil
    BY <1>2, <2>1, SelectorsAfter
  <2>3. NamesOnce(bySlot') /\ frozen' \in BOOLEAN
    BY <1>1 DEF SlotsTyped, NamesOnce
  <2> QED
    BY <2>2, <2>3, SlotIs
<1> QED
  BY <1>2 DEF Slotted, NameOfMethod

LEMMA SelectedAfter ==
  ASSUME NamesFit, MapInv, SelectorInv, SlotsTyped, AllSelected, NEW img \in Image, NEW fails,
         LoadClasses(img), LoadSelectors(img, fails),
         selectorsFailed' = (selectorsFailed \/ \E f \in fails : f[1] \in {"entry", "frozen", "slots"})
  PROVE  AllSelected'
<1> SUFFICES ASSUME ~selectorsFailed', NEW m \in Method PROVE selOf'[m] # Nil
  BY DEF AllSelected
<1>1. Unharmed(fails) /\ selOf[m] # Nil
  BY DEF AllSelected, Unharmed
<1>2. SlotsTyped'
  BY SelectorsAfter
<1>3. generation' # Nil /\ 0 # Nil
  BY <1>2, Constants DEF SlotsTyped
<1>4. CASE m[1][1] \in LoadedClasses'
  <2>1. SlotIn(bySlot', frozen', NameOfMethod(m)) # Nil
    BY <1>1, <1>4, SelectorsAfter
  <2>2. selOf'[m] = generation'
    BY <1>1, <1>4, <2>1, SelectorsAfter
  <2> QED
    BY <1>3, <2>2
<1>5. CASE m[1][1] \notin LoadedClasses'
  BY <1>3, <1>5, SelectorsAfter
<1> QED
  BY <1>4, <1>5

LEMMA LostAfter ==
  ASSUME NamesFit, MapInv, SelectorInv, SlotsTyped, Supered, LostAbove, NEW img \in Image, NEW fails,
         LoadClasses(img), LoadSelectors(img, fails)
  PROVE  LostAbove'
<1>1. SlotsTyped' /\ Supered'
  BY SelectorsAfter, SuperedAfter
<1>2. generation' # Nil /\ 0 # Nil
  BY <1>1, Constants DEF SlotsTyped
<1>3. ASSUME NEW t \in Table, NEW j \in 1 .. Len(TableChain(t)), NEW k \in 1 .. Len(TableChain(t)), j < k,
             NEW i \in DOMAIN Methods[TableChain(t)[j]], NEW l \in DOMAIN Methods[TableChain(t)[k]],
             Methods[TableChain(t)[j]][i] = Methods[TableChain(t)[k]][l],
             selOf'[<<TableChain(t)[j], i>>] = Nil
      PROVE  selOf'[<<TableChain(t)[k], l>>] = Nil
  <2>1. PICK u, v : u = TableChain(t)[j] /\ v = TableChain(t)[k]
    OBVIOUS
  <2>2. u \in Table /\ v \in Table
    BY <2>1, ChainSteps
  <2>3. PICK m, h : m = <<u, i>> /\ h = <<v, l>> /\ m \in Method /\ h \in Method
    BY <1>3, <2>1, <2>2, MethodsOf
  <2>4. m[1] = u /\ h[1] = v /\ NameOfMethod(m) = NameOfMethod(h)
    BY <1>3, <2>1, <2>3 DEF NameOfMethod
  <2>5. selOf'[m] = Nil
    BY <1>3, <2>1, <2>3
  <2>6. u[1] \in LoadedClasses'
    <3>1. m[1][1] \in LoadedClasses'
      BY <1>2, <2>3, <2>5, SelectorsAfter
    <3> QED
      BY <2>4, <3>1
  <2>7. v[1] \in LoadedClasses'
    <3>1. u \in LoadedClasses' \X Side
      BY <2>2, <2>6 DEF Table
    <3>2. \A c \in LoadedClasses' : Super[c] \in LoadedClasses' \cup {Nil}
      BY <1>1 DEF Supered
    <3>3. k \in j .. Len(TableChain(t))
      BY <1>3
    <3>4. v \in LoadedClasses' \X Side
      BY <2>1, <3>1, <3>2, <3>3, AllAbove
    <3> QED
      BY <3>4
  <2>8. selOf'[h] = IF selOf[h] # Nil /\ SlotIn(bySlot', frozen', NameOfMethod(h)) # Nil
                    THEN generation' ELSE Nil
    BY <2>3, <2>4, <2>7, SelectorsAfter
  <2>9. selOf'[m] = IF selOf[m] # Nil /\ SlotIn(bySlot', frozen', NameOfMethod(m)) # Nil
                    THEN generation' ELSE Nil
    BY <2>3, <2>4, <2>6, SelectorsAfter
  <2>10. CASE selOf[m] = Nil
    <3>1. selOf[h] = Nil
      BY <1>3, <2>1, <2>3, <2>10 DEF LostAbove
    <3> QED
      BY <2>1, <2>3, <2>8, <3>1
  <2>11. CASE selOf[m] # Nil
    BY <1>2, <2>1, <2>3, <2>4, <2>5, <2>8, <2>9, <2>11
  <2> QED
    BY <2>10, <2>11
<1> QED
  BY <1>3 DEF LostAbove
-----------------------------------------------------------------------------
(* Dispatch tables after a load *)

LEMMA SameEntries ==
  ASSUME NEW S, NEW T, S.bySlot = T.bySlot, S.frozen = T.frozen, S.selOf = T.selOf, NEW t, NEW d,
         TableRight(S, t, d)
  PROVE  TableRight(T, t, d)
<1>1. ASSUME NEW u, NEW s PROVE OwnEntry(S, u, s) = OwnEntry(T, u, s)
  BY DEF OwnEntry
<1>2. ASSUME NEW s PROVE Entries(S, s) = Entries(T, s)
  BY <1>1 DEF Entries
<1> QED
  BY <1>2 DEF TableRight

\* Dispatch tables that are right, of tables of the classes in C only.
Found(S) == {Nil} \cup {Up(Entries(S, s), t) : s \in DOMAIN S.bySlot, t \in Table}
Tables(S, C) ==
  {D \in [Table -> {Nil} \cup [DOMAIN S.bySlot -> Found(S)]] :
     \A t \in Table : D[t] # Nil => t \in C \X Side /\ TableRight(S, t, D[t])}

LEMMA NewTableRight ==
  ASSUME NEW S, NEW t \in Table, NEW inherited,
         inherited = Nil \/ (~Top(t) /\ TableRight(S, Above(t), inherited))
  PROVE  /\ NewTable(S, t, inherited) \in [DOMAIN S.bySlot -> Found(S)]
         /\ TableRight(S, t, NewTable(S, t, inherited))
<1>1. PICK d : d = NewTable(S, t, inherited)
  OBVIOUS
<1>2. d = [s \in DOMAIN S.bySlot |-> d[s]] /\ DOMAIN d = DOMAIN S.bySlot
  <2>1. CASE inherited = Nil
    BY <1>1, <2>1 DEF NewTable
  <2>2. CASE inherited # Nil
    BY <1>1, <2>2 DEF NewTable
  <2> QED
    BY <2>1, <2>2
<1>3. ASSUME NEW s \in DOMAIN S.bySlot PROVE d[s] \in {Nil, Up(Entries(S, s), t)}
  <2>1. PICK g : g = Entries(S, s)
    OBVIOUS
  <2>2. g[t] = OwnEntry(S, t, s)
    BY <2>1 DEF Entries
  <2>3. /\ g[t] # Nil => Up(g, t) = g[t]
        /\ g[t] = Nil /\ ~Top(t) => Up(g, t) = Up(g, Above(t))
    BY UpIs
  <2>4. CASE inherited = Nil
    <3>1. d[s] = g[t]
      BY <1>1, <2>2, <2>4 DEF NewTable
    <3> QED
      BY <2>1, <2>3, <3>1
  <2>5. CASE inherited # Nil
    <3>1. d[s] = IF g[t] = Nil THEN inherited[s] ELSE g[t]
      BY <1>1, <2>2, <2>5 DEF NewTable, OverInherited
    <3>2. ~Top(t) /\ inherited[s] \in {Nil, Up(g, Above(t))}
      BY <2>1, <2>5 DEF TableRight
    <3> QED
      BY <2>1, <2>3, <3>1, <3>2
  <2> QED
    BY <2>4, <2>5
<1>4. TableRight(S, t, d)
  BY <1>2, <1>3 DEF TableRight
<1>5. \A s \in DOMAIN S.bySlot : d[s] \in Found(S)
  BY <1>3 DEF Found
<1>6. d \in [DOMAIN S.bySlot -> Found(S)]
  BY <1>2, <1>5
<1> QED
  BY <1>1, <1>4, <1>6

\* One step of BuildTable, up the chain p.
Build(D, S, p, fails, k, above) ==
  IF D[p[k]] # Nil THEN D
  ELSE IF <<"dtable", p[k], IF k = 1 THEN Nil ELSE p[k - 1]>> \in fails THEN above
  ELSE [above EXCEPT ![p[k]] = NewTable(S, p[k], IF k = Len(p) THEN Nil ELSE above[p[k + 1]])]

LEMMA OneBuilt ==
  ASSUME NEW S, NEW C, NEW fails, NEW p, NEW k, NEW D \in Tables(S, C), NEW above \in Tables(S, C),
         p[k] \in Table, p[k] \in C \X Side,
         k = Len(p) \/ (~Top(p[k]) /\ p[k + 1] = Above(p[k]) /\ p[k + 1] \in Table)
  PROVE  Build(D, S, p, fails, k, above) \in Tables(S, C)
<1>1. PICK t \in Table : t = p[k]
  OBVIOUS
<1>2. PICK inherited : inherited = IF k = Len(p) THEN Nil ELSE above[p[k + 1]]
  OBVIOUS
<1>3. inherited = Nil \/ (~Top(t) /\ TableRight(S, Above(t), inherited))
  <2>1. \A u \in Table : above[u] = Nil \/ TableRight(S, u, above[u])
    BY DEF Tables
  <2> QED
    BY <1>1, <1>2, <2>1
<1>4. PICK d : d = NewTable(S, t, inherited)
  OBVIOUS
<1>5. d \in [DOMAIN S.bySlot -> Found(S)] /\ TableRight(S, t, d)
  BY <1>3, <1>4, NewTableRight
<1>6. PICK with : with = [above EXCEPT ![t] = d]
  OBVIOUS
<1>7. above \in [Table -> {Nil} \cup [DOMAIN S.bySlot -> Found(S)]]
  BY DEF Tables
<1>8. /\ with \in [Table -> {Nil} \cup [DOMAIN S.bySlot -> Found(S)]]
      /\ with[t] = d /\ \A u \in Table : u # t => with[u] = above[u]
  <2> DEFINE T == {Nil} \cup [DOMAIN S.bySlot -> Found(S)]
  <2>1. d \in T /\ above \in [Table -> T]
    BY <1>5, <1>7
  <2> HIDE DEF T
  <2>2. with \in [Table -> T] /\ with[t] = d /\ \A u \in Table : u # t => with[u] = above[u]
    BY <1>6, <2>1
  <2> QED
    BY <2>2 DEF T
<1>9. \A u \in Table : with[u] # Nil => u \in C \X Side /\ TableRight(S, u, with[u])
  <2>1. \A u \in Table : above[u] # Nil => u \in C \X Side /\ TableRight(S, u, above[u])
    BY DEF Tables
  <2> QED
    BY <1>1, <1>5, <1>8, <2>1
<1>10. with \in Tables(S, C)
  BY <1>8, <1>9 DEF Tables
<1> QED
  BY <1>1, <1>2, <1>4, <1>6, <1>10 DEF Build

Builds(b, D, S, p, fails) ==
  b = [k \in DOMAIN p |-> Build(D, S, p, fails, k, IF k = Len(p) THEN D ELSE b[k + 1])]

LEMMA TableBuilt ==
  ASSUME NEW S, NEW C, \A c \in C : Super[c] \in C \cup {Nil}, NEW fails,
         NEW D \in Tables(S, C), NEW t \in Table, t \in C \X Side
  PROVE  BuildTable(D, S, t, fails) \in Tables(S, C)
<1> SUFFICES ASSUME S.bySlot # <<>> PROVE BuildTable(D, S, t, fails) \in Tables(S, C)
  BY DEF BuildTable
<1>1. PICK p : p = TableChain(t)
  OBVIOUS
<1>2. Upward(t, p)
  BY <1>1, TableChainIs
<1>3. PICK n \in Nat \ {0} : n = Len(p) /\ DOMAIN p = 1 .. n
  BY <1>2, LenProperties DEF Upward
<1>4. /\ \A k \in 1 .. n : p[k] \in Table
      /\ \A k \in 1 .. n - 1 : ~Top(p[k]) /\ p[k + 1] = Above(p[k])
  BY <1>1, <1>3, ChainSteps
<1>5. \A k \in 1 .. n : p[k] \in C \X Side
  <2>1. 1 \in 1 .. Len(p) /\ p[1] \in C \X Side
    BY <1>2, <1>3 DEF Upward
  <2> QED
    BY <1>1, <1>3, <2>1, AllAbove
<1> DEFINE V == Tables(S, C)
<1>6. \A k \in 1 .. n, above \in V : Build(D, S, p, fails, k, above) \in V
  <2> SUFFICES ASSUME NEW k \in 1 .. n, NEW above \in V PROVE Build(D, S, p, fails, k, above) \in V
    OBVIOUS
  <2>1. k = Len(p) \/ (~Top(p[k]) /\ p[k + 1] = Above(p[k]) /\ p[k + 1] \in Table)
    <3>1. k = n \/ (k \in 1 .. n - 1 /\ k + 1 \in 1 .. n)
      OBVIOUS
    <3> QED
      BY <1>3, <1>4, <3>1
  <2>2. p[k] \in Table /\ p[k] \in C \X Side
    BY <1>4, <1>5
  <2> QED
    BY <2>1, <2>2, OneBuilt
<1>7. PICK a : a = Build(D, S, p, fails, n, D)
  OBVIOUS
<1>8. PICK step : step = [x \in V \X (1 .. n - 1) |-> Build(D, S, p, fails, x[2], x[1])]
  OBVIOUS
<1> HIDE DEF V
<1>9. a \in V /\ D \in V
  <2>1. n \in 1 .. n /\ D \in V
    BY DEF V
  <2> QED
    BY <1>6, <1>7, <2>1
<1>10. /\ step \in [V \X (1 .. n - 1) -> V]
       /\ \A v \in V, k \in 1 .. n - 1 : step[<<v, k>>] = Build(D, S, p, fails, k, v)
  <2>1. \A k \in 1 .. n - 1 : k \in 1 .. n
    OBVIOUS
  <2> QED
    BY <1>6, <1>8, <2>1
<1>11. PICK g \in [1 .. n -> V] : GoesDown(g, n, a, step)
  BY <1>9, <1>10, DownExists
<1>12. Builds(g, D, S, p, fails)
  <2>1. ASSUME NEW k \in 1 .. n
        PROVE  g[k] = Build(D, S, p, fails, k, IF k = Len(p) THEN D ELSE g[k + 1])
    <3>1. CASE k = n
      BY <1>3, <1>7, <1>11, <3>1 DEF GoesDown
    <3>2. CASE k # n
      <4>1. k \in 1 .. n - 1 /\ k + 1 \in 1 .. n /\ k # Len(p)
        BY <1>3, <3>2
      <4>2. g[k] = step[<<g[k + 1], k>>] /\ g[k + 1] \in V
        BY <1>11, <4>1 DEF GoesDown
      <4> QED
        BY <1>10, <4>1, <4>2
    <3> QED
      BY <3>1, <3>2
  <2>2. g = [k \in DOMAIN p |-> g[k]]
    BY <1>3
  <2> QED
    BY <1>3, <2>1, <2>2 DEF Builds
<1> DEFINE b == CHOOSE x : Builds(x, D, S, p, fails)
<1>13. BuildTable(D, S, t, fails) = b[1]
  BY <1>1 DEF BuildTable, Builds, Build
<1>14. Builds(b, D, S, p, fails)
  BY <1>12
<1> HIDE DEF b
<1>15. \A k \in 1 .. n : b[k] = Build(D, S, p, fails, k, IF k = Len(p) THEN D ELSE b[k + 1])
  BY <1>3, <1>14 DEF Builds
<1>16. b[n] \in V
  <2>1. n \in 1 .. n
    OBVIOUS
  <2> QED
    BY <1>3, <1>6, <1>9, <1>15, <2>1
<1>17. ASSUME NEW k \in 1 .. n - 1, b[k + 1] \in V PROVE b[k] \in V
  <2>1. k \in 1 .. n /\ k # Len(p)
    BY <1>3
  <2>2. b[k] = Build(D, S, p, fails, k, b[k + 1])
    BY <1>15, <2>1
  <2> QED
    BY <1>6, <1>17, <2>1, <2>2
<1>18. \A k \in 1 .. n : b[k] \in V
  BY <1>16, <1>17, DownAll
<1>19. 1 \in 1 .. n
  OBVIOUS
<1> QED
  BY <1>13, <1>18, <1>19 DEF V

\* One step of BuiltTables, through the map.
BuildClass(D, S, map, fails, i) ==
  IF map[i - 1] = Nil THEN D
  ELSE BuildTable(BuildTable(D, S, <<map[i - 1].cls, "instances">>, fails),
                  S, <<map[i - 1].cls, "class">>, fails)
BuildsAll(b, D, S, map, fails) ==
  b = [i \in 0 .. MapSize |-> IF i = 0 THEN D ELSE BuildClass(b[i - 1], S, map, fails, i)]

LEMMA AllBuilt ==
  ASSUME NEW S, NEW map \in Map, NEW fails,
         \A c \in MappedClasses(map) : Super[c] \in MappedClasses(map) \cup {Nil},
         \A t \in Table : dtable[t] # Nil => t[1] \in MappedClasses(map)
  PROVE  BuiltTables(map, S, fails) \in Tables(S, MappedClasses(map))
<1>1. PICK C : C = MappedClasses(map)
  OBVIOUS
<1> DEFINE V == Tables(S, C)
<1>2. PICK D : D = [t \in Table |-> IF t[1] \in C THEN Nil ELSE dtable[t]]
  OBVIOUS
<1>3. D \in V
  <2>1. \A t \in Table : D[t] = Nil
    BY <1>1, <1>2
  <2>2. D = [t \in Table |-> Nil]
    BY <1>2, <2>1
  <2> QED
    BY <2>1, <2>2 DEF Tables
<1>4. ASSUME NEW i \in 1 .. MapSize, NEW E \in V PROVE BuildClass(E, S, map, fails, i) \in V
  <2> SUFFICES ASSUME map[i - 1] # Nil PROVE BuildClass(E, S, map, fails, i) \in V
    BY DEF BuildClass
  <2>1. i - 1 \in Slot
    BY Constants DEF Slot
  <2>2. PICK c \in Class : c = map[i - 1].cls
    BY <2>1, EntryAt
  <2>3. c \in C
    BY <1>1, <2>1, <2>2 DEF MappedClasses, Slot
  <2>4. \A side \in Side : <<c, side>> \in Table /\ <<c, side>> \in C \X Side
    BY <2>2, <2>3 DEF Table
  <2>5. "instances" \in Side /\ "class" \in Side
    BY DEF Side
  <2>6. \A d \in C : Super[d] \in C \cup {Nil}
    BY <1>1
  <2>7. PICK F : F = BuildTable(E, S, <<c, "instances">>, fails)
    OBVIOUS
  <2>8. F \in V
    BY <2>4, <2>5, <2>6, <2>7, TableBuilt
  <2>9. BuildTable(F, S, <<c, "class">>, fails) \in V
    BY <2>4, <2>5, <2>6, <2>8, TableBuilt
  <2> QED
    BY <2>2, <2>7, <2>9 DEF BuildClass
<1> HIDE DEF V
<1>5. PICK step : step = [x \in V \X (0 + 1 .. MapSize) |-> BuildClass(x[1], S, map, fails, x[2])]
  OBVIOUS
<1>6. 0 \in Nat /\ MapSize \in Nat /\ 0 <= MapSize /\ 0 + 1 = 1
  BY Constants
<1>7. /\ step \in [V \X (0 + 1 .. MapSize) -> V]
      /\ \A v \in V, i \in 1 .. MapSize : step[<<v, i>>] = BuildClass(v, S, map, fails, i)
  BY <1>4, <1>5, <1>6
<1>8. PICK g \in [0 .. MapSize -> V] : GoesUp(g, 0, MapSize, D, step)
  BY <1>3, <1>6, <1>7, UpExists
<1>9. BuildsAll(g, D, S, map, fails)
  <2>1. ASSUME NEW i \in 0 .. MapSize
        PROVE  g[i] = IF i = 0 THEN D ELSE BuildClass(g[i - 1], S, map, fails, i)
    <3>1. CASE i = 0
      BY <1>8, <3>1 DEF GoesUp
    <3>2. CASE i # 0
      <4>1. i \in 1 .. MapSize /\ i \in 0 + 1 .. MapSize /\ i - 1 \in 0 .. MapSize
        BY <1>6, <3>2
      <4>2. g[i] = step[<<g[i - 1], i>>] /\ g[i - 1] \in V
        BY <1>8, <4>1 DEF GoesUp
      <4> QED
        BY <1>7, <3>2, <4>1, <4>2
    <3> QED
      BY <3>1, <3>2
  <2>2. g = [i \in 0 .. MapSize |-> g[i]]
    OBVIOUS
  <2> QED
    BY <2>1, <2>2 DEF BuildsAll
<1> DEFINE b == CHOOSE x : BuildsAll(x, D, S, map, fails)
<1>10. BuiltTables(map, S, fails) = b[MapSize]
  BY <1>1, <1>2 DEF BuiltTables, BuildsAll, BuildClass
<1>11. BuildsAll(b, D, S, map, fails)
  BY <1>9
<1> HIDE DEF b
<1>12. b[0] \in V
  BY <1>3, <1>6, <1>11 DEF BuildsAll
<1>13. ASSUME NEW i \in 0 + 1 .. MapSize, b[i - 1] \in V PROVE b[i] \in V
  <2>1. i \in 1 .. MapSize /\ i \in 0 .. MapSize /\ i # 0
    BY <1>6
  <2>2. b[i] = BuildClass(b[i - 1], S, map, fails, i)
    BY <1>11, <2>1 DEF BuildsAll
  <2> QED
    BY <1>4, <1>13, <2>1, <2>2
<1>14. \A i \in 0 .. MapSize : b[i] \in V
  BY <1>6, <1>12, <1>13, UpAll
<1>15. MapSize \in 0 .. MapSize
  BY <1>6
<1> QED
  BY <1>1, <1>10, <1>14, <1>15 DEF V

\* What RightTables says, of given tables.
TablesAreRight(T, D, L) == \A t \in Table : D[t] # Nil => t \in L /\ TableRight(T, t, D[t])

LEMMA RightThen ==
  ASSUME NEW T, NEW D, NEW L, TablesAreRight(T, D, L)
  PROVE  (T = SelectorState /\ D = dtable /\ L = LoadedTables => RightTables)'
<1>1. T = SelectorState /\ D = dtable /\ L = LoadedTables => RightTables
  BY DEF RightTables, TablesAreRight
<1> QED
  BY <1>1, PTL

LEMMA TablesAfter ==
  ASSUME NamesFit, MapInv, Supered, RightTables, NEW img \in Image, NEW fails,
         LoadClasses(img), Finalize(fails)
  PROVE  RightTables'
<1>1. MapInv' /\ LoadedClasses \subseteq LoadedClasses'
  BY LoadingKeeps
<1>2. PICK map : map = classMap'
  OBVIOUS
<1>3. map \in Map
  BY <1>1, <1>2 DEF MapInv, Ordered
<1>4. MappedClasses(map) = LoadedClasses'
  BY <1>1, <1>2, MappedThenLoaded
<1>5. Supered'
  BY SuperedAfter
<1>6. \A c \in MappedClasses(map) : Super[c] \in MappedClasses(map) \cup {Nil}
  BY <1>4, <1>5 DEF Supered
<1>7. \A t \in Table : dtable[t] # Nil => t[1] \in MappedClasses(map)
  BY <1>1, <1>4 DEF RightTables, LoadedTables
<1>8. PICK S : S = [bySlot |-> bySlot', frozen |-> frozen', generation |-> generation',
                    selOf |-> selOf', layout |-> layout']
  OBVIOUS
<1>9. dtable' = BuiltTables(map, S, fails)
  BY <1>2, <1>8 DEF Finalize
<1>10. dtable' \in Tables(S, MappedClasses(map))
  BY <1>3, <1>6, <1>7, <1>9, AllBuilt
<1>11. PICK T : T = [bySlot |-> bySlot', frozen |-> frozen', selOf |-> selOf']
  OBVIOUS
<1>12. S.bySlot = T.bySlot /\ S.frozen = T.frozen /\ S.selOf = T.selOf
  BY <1>8, <1>11
<1>13. ASSUME NEW t \in Table, dtable'[t] # Nil
       PROVE  t \in LoadedTables' /\ TableRight(T, t, dtable'[t])
  <2>1. t \in MappedClasses(map) \X Side /\ TableRight(S, t, dtable'[t])
    BY <1>10, <1>13 DEF Tables
  <2>2. TableRight(T, t, dtable'[t])
    BY <1>12, <2>1, SameEntries
  <2> QED
    BY <1>4, <2>1, <2>2 DEF LoadedTables
<1>14. PICK D, L : D = dtable' /\ L = LoadedTables'
  OBVIOUS
<1>15. TablesAreRight(T, D, L)
  BY <1>13, <1>14 DEF TablesAreRight
<1>16. SelectorState' = T
  BY <1>11 DEF SelectorState
<1> QED
  BY <1>14, <1>15, <1>16, RightThen
-----------------------------------------------------------------------------
(* Forwarding *)

\* A method that is found in a loaded class has a selector in a slot.
LEMMA FoundHasSlot ==
  ASSUME SlotsTyped, Slotted, Supered, NEW t \in LoadedTables, t \in Table, NEW n, Walk(t, n) # Nil
  PROVE  SlotOf(n) # Nil
<1>1. PICK p : p = TableChain(t)
  OBVIOUS
<1>2. Upward(t, p)
  BY <1>1, TableChainIs
<1>3. PICK l \in Nat \ {0} : l = Len(p) /\ DOMAIN p = 1 .. l
  BY <1>2, LenProperties DEF Upward
<1>4. PICK w : w = [k \in 1 .. l |-> OwnMethods(p[k], n)]
  OBVIOUS
<1>5. Walk(t, n) = FirstFound(w) /\ DOMAIN w = 1 .. l
  BY <1>1, <1>3, <1>4 DEF Walk
<1>6. PICK k \in 1 .. l : w[k] # Nil
  BY <1>5, FirstIs
<1>7. PICK u : u = p[k]
  OBVIOUS
<1>8. u \in Table
  BY <1>1, <1>3, <1>7, ChainSteps
<1>9. u \in LoadedTables
  <2>1. 1 \in 1 .. Len(p) /\ p[1] \in LoadedClasses \X Side
    BY <1>2, <1>3 DEF Upward, LoadedTables
  <2>2. \A c \in LoadedClasses : Super[c] \in LoadedClasses \cup {Nil}
    BY DEF Supered
  <2> QED
    BY <1>1, <1>3, <1>7, <2>1, <2>2, AllAbove DEF LoadedTables
<1>10. OwnMethods(u, n) # Nil
  BY <1>4, <1>6, <1>7
<1>11. PICK i \in DOMAIN Methods[u] : Methods[u][i] = n /\ selOf[<<u, i>>] # Nil
  BY <1>8, <1>10, OwnMethodsIs
<1>12. frozen /\ n \in Range(bySlot)
  <2>1. <<u, i>> \in Method
    BY <1>8, MethodsOf
  <2> QED
    BY <1>9, <1>11, <2>1 DEF Slotted, NameOfMethod
<1> QED
  BY <1>12, SlotIs DEF SlotOf, SlotsTyped

\* One hop of Resolve and of After, given what comes after it.
Stops(o, n) ==
  \/ LookupImp(TableOf[o], n) # Nil \/ SlotOf(ForwardSel) = Nil \/ n = ForwardSel
  \/ Walk(TableOf[o], ForwardSel) = Nil \/ Target(o, n) \in {Nil, o}
Answer(o, n) == [receiver |-> o, imp |-> LookupImp(TableOf[o], n)]
ResolveHop(o, n, left, then) ==
  IF Stops(o, n) THEN Answer(o, n)
  ELSE IF LastHop(left) THEN Answer(Target(o, n), n) ELSE then[Target(o, n)]
Resolves(f, n) ==
  f = [left \in 1 .. Hops |-> [o \in Object |-> ResolveHop(o, n, left, f[left - 1])]]

Rests(o, n) ==
  Responds(o, n) \/ ~Responds(o, ForwardSel) \/ n = ForwardSel \/ Target(o, n) = Nil
AfterHop(o, n, hops, then) == IF hops = 0 \/ Rests(o, n) THEN o ELSE then[Target(o, n)]
Goes(f, n, most) ==
  f = [hops \in 0 .. most |-> [o \in Object |-> AfterHop(o, n, hops, f[hops - 1])]]

LEMMA TargetIs ==
  ASSUME NEW o \in Object, NEW n \in SelName, Target(o, n) # Nil
  PROVE  Target(o, n) \in Object /\ TableOf[Target(o, n)] \in LoadedTables
<1>1. Forward[<<o, n>>] \in Object \cup {Nil}
  <2>1. <<o, n>> \in Object \X SelName
    OBVIOUS
  <2> QED
    BY <2>1, DispatchAssumption
<1> QED
  BY <1>1 DEF Target

LEMMA AfterIs ==
  ASSUME NEW n \in SelName
  PROVE  \E f \in [0 .. Hops -> [Object -> Object]] :
           /\ Goes(f, n, Hops) /\ \A o : After(o, n, Hops) = f[Hops][o]
<1> DEFINE V == [Object -> Object]
<1>1. Hops \in Nat \ {0} /\ 0 \in Nat /\ 0 <= Hops /\ 0 + 1 = 1
  BY DispatchAssumption
<1>2. PICK step : step = [x \in V \X (0 + 1 .. Hops) |-> [o \in Object |-> AfterHop(o, n, x[2], x[1])]]
  OBVIOUS
<1>3. PICK a : a = [o \in Object |-> o]
  OBVIOUS
<1>4. ASSUME NEW v \in V, NEW k PROVE [o \in Object |-> AfterHop(o, n, k, v)] \in V
  <2>1. ASSUME NEW o \in Object PROVE AfterHop(o, n, k, v) \in Object
    <3>1. CASE k = 0 \/ Rests(o, n)
      BY <3>1 DEF AfterHop
    <3>2. CASE ~(k = 0 \/ Rests(o, n))
      <4>1. Target(o, n) \in Object
        BY <3>2, TargetIs DEF Rests
      <4> QED
        BY <3>2, <4>1 DEF AfterHop
    <3> QED
      BY <3>1, <3>2
  <2> QED
    BY <2>1
<1>5. a \in V
  BY <1>3
<1> HIDE DEF V
<1>6. /\ step \in [V \X (0 + 1 .. Hops) -> V]
      /\ \A v \in V, k \in 0 + 1 .. Hops : step[<<v, k>>] = [o \in Object |-> AfterHop(o, n, k, v)]
  BY <1>2, <1>4
<1>7. PICK g \in [0 .. Hops -> V] : GoesUp(g, 0, Hops, a, step)
  BY <1>1, <1>5, <1>6, UpExists
<1>8. Goes(g, n, Hops)
  <2>1. ASSUME NEW k \in 0 .. Hops
        PROVE  g[k] = [o \in Object |-> AfterHop(o, n, k, g[k - 1])]
    <3>1. CASE k = 0
      <4>1. g[k] = a
        BY <1>7, <3>1 DEF GoesUp
      <4> QED
        BY <1>3, <3>1, <4>1 DEF AfterHop
    <3>2. CASE k # 0
      <4>1. k \in 0 + 1 .. Hops /\ k - 1 \in 0 .. Hops
        BY <1>1, <3>2
      <4>2. g[k] = step[<<g[k - 1], k>>] /\ g[k - 1] \in V
        BY <1>7, <4>1 DEF GoesUp
      <4> QED
        BY <1>6, <4>1, <4>2
    <3> QED
      BY <3>1, <3>2
  <2>2. g = [k \in 0 .. Hops |-> g[k]]
    OBVIOUS
  <2> QED
    BY <2>1, <2>2 DEF Goes
<1> DEFINE f == CHOOSE x : Goes(x, n, Hops)
<1>9. \A o : After(o, n, Hops) = f[Hops][o]
  BY DEF After, Goes, AfterHop, Rests
<1>10. Goes(f, n, Hops)
  BY <1>8
<1> HIDE DEF f
<1>11. \A k \in 0 .. Hops : f[k] = [o \in Object |-> AfterHop(o, n, k, f[k - 1])]
  BY <1>10 DEF Goes
<1>12. f[0] \in V
  <2>1. 0 \in 0 .. Hops
    BY <1>1
  <2>2. f[0] = a
    BY <1>3, <1>11, <2>1 DEF AfterHop
  <2> QED
    BY <1>5, <2>2
<1>13. ASSUME NEW k \in 0 + 1 .. Hops, f[k - 1] \in V PROVE f[k] \in V
  <2>1. k \in 0 .. Hops
    BY <1>1
  <2>2. PICK v \in V : v = f[k - 1]
    BY <1>13
  <2>3. f[k] = [o \in Object |-> AfterHop(o, n, k, v)]
    BY <1>11, <2>1, <2>2
  <2> QED
    BY <1>4, <2>3
<1>14. \A k \in 0 .. Hops : f[k] \in V
  BY <1>1, <1>12, <1>13, UpAll
<1>15. f \in [0 .. Hops -> V]
  BY <1>10, <1>14 DEF Goes
<1> QED
  BY <1>9, <1>10, <1>15 DEF V

LEMMA ResolveIs ==
  ASSUME NEW n \in SelName
  PROVE  \E f : Resolves(f, n) /\ \A o : Resolve(o, n) = f[Hops][o]
<1> DEFINE R == [receiver : Object, imp : {LookupImp(TableOf[o], n) : o \in Object}]
           V == [Object -> R]
<1>1. Hops \in Nat \ {0} /\ 1 \in Nat /\ 1 <= Hops
  BY DispatchAssumption
<1>2. \A o \in Object : Answer(o, n) \in R
  BY DEF Answer
<1> HIDE DEF R
<1>3. ASSUME NEW v, NEW k, LastHop(k) \/ v \in V
      PROVE  [o \in Object |-> ResolveHop(o, n, k, v)] \in V
  <2>1. ASSUME NEW o \in Object PROVE ResolveHop(o, n, k, v) \in R
    <3>1. CASE Stops(o, n)
      BY <1>2, <3>1 DEF ResolveHop
    <3>2. CASE ~Stops(o, n)
      <4>1. Target(o, n) \in Object
        BY <3>2, TargetIs DEF Stops
      <4>2. CASE LastHop(k)
        BY <1>2, <3>2, <4>1, <4>2 DEF ResolveHop
      <4>3. CASE ~LastHop(k)
        BY <1>3, <3>2, <4>1, <4>3 DEF ResolveHop
      <4> QED
        BY <4>2, <4>3
    <3> QED
      BY <3>1, <3>2
  <2> QED
    BY <2>1
<1>4. PICK a : a = [o \in Object |-> ResolveHop(o, n, 1, Nil)]
  OBVIOUS
<1>5. LastHop(1) /\ a \in V
  <2>1. LastHop(1)
    BY DEF LastHop
  <2> QED
    BY <1>3, <1>4, <2>1
<1>6. PICK step : step = [x \in V \X (1 + 1 .. Hops) |-> [o \in Object |-> ResolveHop(o, n, x[2], x[1])]]
  OBVIOUS
<1> HIDE DEF V
<1>7. /\ step \in [V \X (1 + 1 .. Hops) -> V]
      /\ \A v \in V, k \in 1 + 1 .. Hops : step[<<v, k>>] = [o \in Object |-> ResolveHop(o, n, k, v)]
  BY <1>3, <1>6
<1>8. PICK g \in [1 .. Hops -> V] : GoesUp(g, 1, Hops, a, step)
  BY <1>1, <1>5, <1>7, UpExists
<1>9. Resolves(g, n)
  <2>1. ASSUME NEW k \in 1 .. Hops
        PROVE  g[k] = [o \in Object |-> ResolveHop(o, n, k, g[k - 1])]
    <3>1. CASE k = 1
      <4>1. g[1] = a
        BY <1>8 DEF GoesUp
      <4>2. \A o : ResolveHop(o, n, 1, Nil) = ResolveHop(o, n, 1, g[1 - 1])
        BY <1>5 DEF ResolveHop
      <4> QED
        BY <1>4, <3>1, <4>1, <4>2
    <3>2. CASE k # 1
      <4>1. k \in 1 + 1 .. Hops /\ k - 1 \in 1 .. Hops
        BY <1>1, <3>2
      <4>2. g[k] = step[<<g[k - 1], k>>] /\ g[k - 1] \in V
        BY <1>8, <4>1 DEF GoesUp
      <4> QED
        BY <1>7, <4>1, <4>2
    <3> QED
      BY <3>1, <3>2
  <2>2. g = [k \in 1 .. Hops |-> g[k]]
    OBVIOUS
  <2> QED
    BY <2>1, <2>2 DEF Resolves
<1> DEFINE f == CHOOSE x : Resolves(x, n)
<1>10. \A o : Resolve(o, n) = f[Hops][o]
  BY DEF Resolve, Resolves, ResolveHop, Stops, Answer
<1>11. Resolves(f, n)
  BY <1>9
<1> QED
  BY <1>10, <1>11

Reachable == {o \in Object : TableOf[o] \in LoadedTables}

\* Both stop at the same receivers, but that one without end goes in a circle
\* where an object answers itself.
LEMMA StopsRests ==
  ASSUME SlotsTyped, Slotted, Supered, RightTables, NEW n \in SelName, NEW o \in Reachable
  PROVE  /\ Stops(o, n) <=> Rests(o, n) \/ Target(o, n) = o
         /\ ~Rests(o, n) => Target(o, n) \in Reachable
<1>1. o \in Object /\ TableOf[o] \in LoadedTables /\ TableOf[o] \in Table
  BY DispatchAssumption DEF Reachable
<1>2. PICK t \in Table : t = TableOf[o] /\ t \in LoadedTables
  BY <1>1
<1>3. LookupImp(t, ForwardSel) = Walk(t, ForwardSel)
  BY LookupWalks
<1>4. SlotOf(ForwardSel) = Nil => Walk(t, ForwardSel) = Nil
  BY <1>2, FoundHasSlot
<1>5. Stops(o, n) <=> Rests(o, n) \/ Target(o, n) = o
  BY <1>2, <1>3, <1>4 DEF Stops, Rests, Responds
<1>6. ~Rests(o, n) => Target(o, n) \in Reachable
  BY <1>1, TargetIs DEF Rests, Reachable
<1> QED
  BY <1>5, <1>6

LEMMA Forwarded ==
  ASSUME SlotsTyped, Slotted, Supered, RightTables, NEW n \in SelName, NEW receiver \in Reachable
  PROVE  /\ After(receiver, n, Hops) \in Reachable
         /\ Resolve(receiver, n) = Answer(After(receiver, n, Hops), n)
<1>1. Hops \in Nat \ {0} /\ 1 \in Nat /\ 1 <= Hops /\ 0 + 1 = 1
  BY DispatchAssumption
<1>2. PICK f \in [0 .. Hops -> [Object -> Object]] :
        Goes(f, n, Hops) /\ \A o : After(o, n, Hops) = f[Hops][o]
  BY AfterIs
<1>3. PICK r : Resolves(r, n) /\ \A o : Resolve(o, n) = r[Hops][o]
  BY ResolveIs
<1>4. \A k \in 0 .. Hops, o \in Object : f[k][o] = AfterHop(o, n, k, f[k - 1])
  BY <1>2 DEF Goes
<1>5. \A k \in 1 .. Hops, o \in Object : r[k][o] = ResolveHop(o, n, k, r[k - 1])
  BY <1>3 DEF Resolves
<1>6. \A o \in Reachable : o \in Object
  BY DEF Reachable
\* An object that answers itself is where the message stays.
<1>7. ASSUME NEW k \in 0 .. Hops, NEW o \in Reachable, Rests(o, n) \/ Target(o, n) = o
      PROVE  f[k][o] = o
  <2>1. PICK g, V : g = [l \in 0 .. Hops |-> f[l][o]] /\ V = {o}
    OBVIOUS
  <2>2. 0 \in 0 .. Hops /\ f[0][o] = o
    BY <1>1, <1>4, <1>6 DEF AfterHop
  <2>3. g[0] \in V
    BY <2>1, <2>2
  <2>4. ASSUME NEW l \in 0 + 1 .. Hops, g[l - 1] \in V PROVE g[l] \in V
    <3>1. l \in 0 .. Hops /\ l - 1 \in 0 .. Hops /\ l # 0
      BY <1>1
    <3>2. f[l - 1][o] = o
      BY <2>1, <2>4, <3>1
    <3>3. f[l][o] = AfterHop(o, n, l, f[l - 1])
      BY <1>4, <1>6, <3>1
    <3>4. f[l][o] = o
      BY <1>7, <3>1, <3>2, <3>3 DEF AfterHop
    <3> QED
      BY <2>1, <3>1, <3>4
  <2>5. 0 \in Nat /\ Hops \in Nat
    BY <1>1
  <2>6. \A l \in 0 .. Hops : g[l] \in V
    BY <2>3, <2>4, <2>5, UpAll
  <2> QED
    BY <2>1, <2>6
<1>8. PICK h : h = [k \in 1 .. Hops |-> <<r[k], f[k]>>]
  OBVIOUS
<1> DEFINE W == {x \in {<<r[k], f[k]>> : k \in 1 .. Hops} :
                   \A o \in Reachable : x[2][o] \in Reachable /\ x[1][o] = Answer(x[2][o], n)}
<1>9. ASSUME NEW k \in 1 .. Hops PROVE h[k] = <<r[k], f[k]>> /\ (h[k] \in W <=>
        \A o \in Reachable : f[k][o] \in Reachable /\ r[k][o] = Answer(f[k][o], n))
  BY <1>8
<1> HIDE DEF W
<1>10. h[1] \in W
  <2>1. 1 \in 1 .. Hops /\ 1 \in 0 .. Hops /\ 0 \in 0 .. Hops /\ 1 # 0 /\ 1 - 1 = 0
    BY <1>1
  <2>2. ASSUME NEW o \in Reachable
        PROVE  f[1][o] \in Reachable /\ r[1][o] = Answer(f[1][o], n)
    <3>1. f[1][o] = AfterHop(o, n, 1, f[0]) /\ r[1][o] = ResolveHop(o, n, 1, r[0])
      BY <1>4, <1>5, <1>6, <2>1
    <3>2. CASE Stops(o, n)
      <4>1. f[1][o] = o
        BY <1>7, <2>1, <3>2, StopsRests
      <4> QED
        BY <3>1, <3>2, <4>1 DEF ResolveHop
    <3>3. CASE ~Stops(o, n)
      <4>1. ~Rests(o, n) /\ Target(o, n) \in Reachable
        BY <3>3, StopsRests
      <4>2. f[0][Target(o, n)] = Target(o, n)
        BY <1>4, <1>6, <2>1, <4>1 DEF AfterHop
      <4>3. f[1][o] = Target(o, n)
        BY <2>1, <3>1, <4>1, <4>2 DEF AfterHop
      <4>4. r[1][o] = Answer(Target(o, n), n)
        BY <3>1, <3>3 DEF ResolveHop, LastHop
      <4> QED
        BY <4>1, <4>3, <4>4
    <3> QED
      BY <3>2, <3>3
  <2> QED
    BY <1>9, <2>1, <2>2
<1>11. ASSUME NEW k \in 1 + 1 .. Hops, h[k - 1] \in W PROVE h[k] \in W
  <2>1. k \in 1 .. Hops /\ k \in 0 .. Hops /\ k - 1 \in 1 .. Hops /\ k # 0 /\ k # 1
    BY <1>1
  <2>2. \A o \in Reachable : f[k - 1][o] \in Reachable /\ r[k - 1][o] = Answer(f[k - 1][o], n)
    BY <1>9, <1>11, <2>1
  <2>3. ASSUME NEW o \in Reachable
        PROVE  f[k][o] \in Reachable /\ r[k][o] = Answer(f[k][o], n)
    <3>1. f[k][o] = AfterHop(o, n, k, f[k - 1]) /\ r[k][o] = ResolveHop(o, n, k, r[k - 1])
      BY <1>4, <1>5, <1>6, <2>1
    <3>2. CASE Stops(o, n)
      <4>1. f[k][o] = o
        BY <1>7, <2>1, <3>2, StopsRests
      <4> QED
        BY <3>1, <3>2, <4>1 DEF ResolveHop
    <3>3. CASE ~Stops(o, n)
      <4>1. ~Rests(o, n) /\ Target(o, n) \in Reachable
        BY <3>3, StopsRests
      <4>2. f[k][o] = f[k - 1][Target(o, n)]
        BY <2>1, <3>1, <4>1 DEF AfterHop
      <4>3. r[k][o] = r[k - 1][Target(o, n)]
        BY <2>1, <3>1, <3>3 DEF ResolveHop, LastHop
      <4> QED
        BY <2>2, <4>1, <4>2, <4>3
    <3> QED
      BY <3>2, <3>3
  <2> QED
    BY <1>9, <2>1, <2>3
<1>12. \A k \in 1 .. Hops : h[k] \in W
  BY <1>1, <1>10, <1>11, UpAll
<1>13. Hops \in 1 .. Hops
  BY <1>1
<1>14. f[Hops][receiver] \in Reachable /\ r[Hops][receiver] = Answer(f[Hops][receiver], n)
  BY <1>9, <1>12, <1>13
<1> QED
  BY <1>2, <1>3, <1>14
-----------------------------------------------------------------------------
(* Dispatch *)

\* The dispatch tables have what the search up the chain finds, that search
\* misses a method only for selectors that could not be made, and then finds
\* none of those it overrides either.
DispatchInv ==
  SlotsTyped /\ Supered /\ Slotted /\ AllSelected /\ LostAbove /\ RightTables

LEMMA DispatchStarts == Init => DispatchInv
<1> SUFFICES ASSUME Init PROVE DispatchInv
  OBVIOUS
<1>1. LoadedClasses = {} /\ LoadedTables = {}
  BY DEF Init, MapInit, LoadedClasses, LoadedTables
<1>2. SlotsTyped
  <2>1. bySlot = <<>> /\ frozen = FALSE /\ generation = 0
    BY DEF Init, SelectorInit
  <2>2. NamesOnce(<<>>)
    BY DEF NamesOnce, IsInjective
  <2> QED
    BY <2>1, <2>2 DEF SlotsTyped
<1>3. \A m \in Method : selOf[m] = 0 /\ selOf[m] # Nil
  <2>1. selOf = [m \in Method |-> 0]
    BY DEF Init, SelectorInit
  <2>2. 0 # Nil
    BY Constants
  <2> QED
    BY <2>1, <2>2
<1>4. Supered /\ Slotted /\ AllSelected
  BY <1>1, <1>3 DEF Supered, Slotted, AllSelected
<1>5. LostAbove
  <2> SUFFICES ASSUME NEW t \in Table, NEW j \in 1 .. Len(TableChain(t)),
                      NEW i \in DOMAIN Methods[TableChain(t)[j]]
               PROVE  selOf[<<TableChain(t)[j], i>>] # Nil
    BY DEF LostAbove
  <2>1. TableChain(t)[j] \in Table
    BY ChainSteps
  <2>2. <<TableChain(t)[j], i>> \in Method
    BY <2>1, MethodsOf
  <2> QED
    BY <1>3, <2>2
<1>6. RightTables
  BY DEF RightTables, Init
<1> QED
  BY <1>2, <1>4, <1>5, <1>6 DEF DispatchInv

LEMMA DispatchAfter ==
  ASSUME NamesFit, MapInv, SelectorInv, DispatchInv, NEW img \in Image, Load(img)
  PROVE  DispatchInv'
<1>1. PICK fails : /\ LoadClasses(img) /\ LoadSelectors(img, fails) /\ Finalize(fails)
                   /\ selectorsFailed' = (selectorsFailed \/ \E f \in fails : f[1] \in {"entry", "frozen", "slots"})
  BY DEF Load
<1>2. SlotsTyped /\ Supered /\ Slotted /\ AllSelected /\ LostAbove /\ RightTables
  BY DEF DispatchInv
<1>3. SlotsTyped'
  BY <1>1, <1>2, SelectorsAfter
<1>4. Supered' /\ Slotted'
  BY <1>1, <1>2, SuperedAfter, SlottedAfter
<1>5. AllSelected'
  BY <1>1, <1>2, SelectedAfter
<1>6. LostAbove'
  BY <1>1, <1>2, LostAfter
<1>7. RightTables'
  BY <1>1, <1>2, TablesAfter
<1> QED
  BY <1>3, <1>4, <1>5, <1>6, <1>7 DEF DispatchInv

LEMMA DispatchStays ==
  ASSUME DispatchInv, LoadedClasses' = LoadedClasses,
         UNCHANGED <<bySlot, frozen, generation, selOf, dtable, selectorsFailed>>
  PROVE  DispatchInv'
<1>1. SlotsTyped'
  BY DEF DispatchInv, SlotsTyped, NamesOnce
<1>2. Supered' /\ Slotted' /\ AllSelected'
  BY DEF DispatchInv, Supered, Slotted, AllSelected, LoadedTables, NameOfMethod, Range
<1>3. LostAbove'
  BY DEF DispatchInv, LostAbove
<1>4. RightTables'
  <2>1. PICK T, D, L : T = SelectorState /\ D = dtable /\ L = LoadedTables
    OBVIOUS
  <2>2. TablesAreRight(T, D, L)
    BY <2>1 DEF DispatchInv, RightTables, TablesAreRight
  <2>3. SelectorState' = T /\ dtable' = D /\ LoadedTables' = L
    BY <2>1 DEF SelectorState, LoadedTables
  <2> QED
    BY <2>2, <2>3, RightThen
<1> QED
  BY <1>1, <1>2, <1>3, <1>4 DEF DispatchInv

LEMMA DispatchKept ==
  ASSUME NamesFit, MapInv, SelectorInv, DispatchInv, [Next]_vars
  PROVE  DispatchInv'
<1>1. ASSUME NEW img \in Image, Load(img) PROVE DispatchInv'
  BY <1>1, DispatchAfter
<1>2. ASSUME UNCHANGED <<loaded, bySlot, frozen, generation, selOf, dtable, selectorsFailed>>
      PROVE  DispatchInv'
  <2>1. LoadedClasses' = LoadedClasses
    BY <1>2 DEF LoadedClasses
  <2> QED
    BY <1>2, <2>1, DispatchStays
<1>3. ASSUME NEW c \in Class, NEW n \in Name, RegisterAlias(c, n), UNCHANGED <<selectorVars, computedVars>>
      PROVE  DispatchInv'
  BY <1>2, <1>3 DEF RegisterAlias, selectorVars, computedVars
<1>4. ASSUME NEW s \in Static, NEW fails, Intern(s, fails), UNCHANGED <<mapVars, computedVars>>
      PROVE  DispatchInv'
  BY <1>2, <1>4 DEF Intern, mapVars, computedVars
<1>5. CASE UNCHANGED vars
  BY <1>2, <1>5 DEF vars, mapVars, selectorVars, computedVars
<1> QED
  BY <1>1, <1>3, <1>4, <1>5 DEF Next

LEMMA TablesOfClasses ==
  ASSUME MapInv, NEW t \in LoadedTables
  PROVE  t \in Table
BY DEF MapInv, LoadedTables, Table

LEMMA Finds ==
  ASSUME DispatchInv, NEW t \in Table, NEW n
  PROVE  /\ LookupImp(t, n) \in {Nil, Nearest(t, n)}
         /\ ~selectorsFailed => LookupImp(t, n) = Nearest(t, n)
<1>1. LookupImp(t, n) = Walk(t, n)
  BY LookupWalks DEF DispatchInv
<1>2. ~selectorsFailed => \A m \in Method : selOf[m] # Nil
  BY DEF DispatchInv, AllSelected
<1> QED
  BY <1>1, <1>2, WalkFinds DEF DispatchInv

LEMMA InvAgrees ==
  ASSUME MapInv, DispatchInv
  PROVE  MessagesFindNearest /\ ReflectionAgrees /\ ForwardingReaches
<1>1. ASSUME NEW t \in LoadedTables, NEW n \in SelName
      PROVE  \/ LookupImp(t, n) = Nearest(t, n)
             \/ selectorsFailed /\ LookupImp(t, n) = Nil
  BY TablesOfClasses, Finds
<1>2. ASSUME NEW t \in LoadedTables, NEW n \in SelName
      PROVE  GetMethod(t, n) = LookupImp(t, n)
  <2>1. t \in Table
    BY TablesOfClasses
  <2>2. GetMethod(t, n) = Walk(t, n) /\ LookupImp(t, n) = Walk(t, n)
    BY <2>1, ReflectionWalks, LookupWalks DEF DispatchInv
  <2> QED
    BY <2>2
<1>3. ASSUME NEW o \in Object, NEW n \in SelName, TableOf[o] \in LoadedTables, ~selectorsFailed
      PROVE  /\ Resolve(o, n).receiver = After(o, n, Hops)
             /\ Resolve(o, n).imp = Nearest(TableOf[Resolve(o, n).receiver], n)
  <2>1. o \in Reachable
    BY <1>3 DEF Reachable
  <2>2. PICK a : a = After(o, n, Hops) /\ a \in Reachable /\ Resolve(o, n) = Answer(a, n)
    BY <2>1, Forwarded DEF DispatchInv
  <2>3. TableOf[a] \in Table
    BY <2>2, DispatchAssumption DEF Reachable
  <2>4. LookupImp(TableOf[a], n) = Nearest(TableOf[a], n)
    BY <1>3, <2>3, Finds
  <2>5. Resolve(o, n).receiver = a /\ Resolve(o, n).imp = LookupImp(TableOf[a], n)
    BY <2>2 DEF Answer
  <2> QED
    BY <2>2, <2>4, <2>5
<1> QED
  BY <1>1, <1>2, <1>3 DEF MessagesFindNearest, ReflectionAgrees, ForwardingReaches

LEMMA DispatchInvariant ==
  ASSUME NamesFit
  PROVE  Spec => [](MapInv /\ SelectorInv /\ DispatchInv)
<1>1. Init => MapInv /\ SelectorInv /\ DispatchInv
  BY SelectorsInitially, DispatchStarts
<1>2. MapInv /\ SelectorInv /\ DispatchInv /\ [Next]_vars
      => (MapInv /\ SelectorInv /\ DispatchInv)'
  BY SelectorsKept, DispatchKept
<1> QED
  BY <1>1, <1>2, PTL DEF Spec

\* Whatever images are loaded in whatever order and whichever allocations fail,
\* sf_lookup_imp_in_class answers the method of the nearest class that has one,
\* from the dispatch table or from the chain; after a load that could not make
\* all selectors it may answer none, but never one that is overridden.
THEOREM NearestFound ==
  ASSUME NamesFit
  PROVE  Spec => []MessagesFindNearest
<1>1. MapInv /\ SelectorInv /\ DispatchInv => MessagesFindNearest
  BY InvAgrees
<1> QED
  BY <1>1, DispatchInvariant, PTL

\* class_getInstanceMethod and class_getClassMethod, which compare slots of
\* selectors, find the very method that a message runs.
THEOREM ReflectionFinds ==
  ASSUME NamesFit
  PROVE  Spec => []ReflectionAgrees
<1>1. MapInv /\ SelectorInv /\ DispatchInv => ReflectionAgrees
  BY InvAgrees
<1> QED
  BY <1>1, DispatchInvariant, PTL

\* While selectors could be made sf_resolve_message_dispatch takes a message from
\* receiver to receiver as long as none responds, for Hops hops at most, and
\* answers the one it ends at with that one's own nearest method, however the
\* objects name each other as targets.
THEOREM ForwardingEnds ==
  ASSUME NamesFit
  PROVE  Spec => []ForwardingReaches
<1>1. MapInv /\ SelectorInv /\ DispatchInv => ForwardingReaches
  BY InvAgrees
<1> QED
  BY <1>1, DispatchInvariant, PTL
-----------------------------------------------------------------------------
(* Tagged pointers *)

TagSlotNumber == 1 .. TagSlots - 1
ClaimedSlots == [classes : [TagSlotNumber -> Class \cup {Nil}], conflicts : SUBSET TagSlotNumber]

\* The classes that claim slot s in the first i places of a map.
Claiming(map, S, i, s) ==
  {c \in Class : TagSlot[c] = s /\ \E j \in Slot : /\ j < i /\ map[j] # Nil /\ Claims(map, S, map[j])
                                                   /\ map[j].cls = c}

\* A slot has the only class of a set, or none; with two it is in conflict.
SlotRight(T, s, A) ==
  \/ A = {} /\ T.classes[s] = Nil /\ s \notin T.conflicts
  \/ A = {T.classes[s]} /\ T.classes[s] # Nil /\ s \notin T.conflicts
  \/ T.classes[s] = Nil /\ s \in T.conflicts /\ \E c, d \in A : c # d

LEMMA ClaimRight ==
  ASSUME NEW T \in ClaimedSlots, NEW c \in Class, NEW r \in TagSlotNumber, NEW s \in TagSlotNumber,
         NEW A, NEW B, SlotRight(T, s, A), B = IF r = s THEN A \cup {c} ELSE A
  PROVE  Claim(T, c, r) \in ClaimedSlots /\ SlotRight(Claim(T, c, r), s, B)
<1>1. T.classes \in [TagSlotNumber -> Class \cup {Nil}] /\ T.conflicts \subseteq TagSlotNumber
      /\ T = [classes |-> T.classes, conflicts |-> T.conflicts]
  BY DEF ClaimedSlots
<1>2. c # Nil
  BY Constants
<1>3. PICK U : U = Claim(T, c, r)
  OBVIOUS
<1>4. CASE r \in T.conflicts
  <2>1. U = T
    BY <1>3, <1>4 DEF Claim
  <2>2. r = s => A # {} /\ \E x, y \in B : x # y
    BY <1>4 DEF SlotRight
  <2> QED
    BY <1>3, <1>4, <2>1, <2>2 DEF SlotRight
<1>5. CASE r \notin T.conflicts /\ T.classes[r] = Nil
  <2>1. U = [T EXCEPT !.classes[r] = c]
    BY <1>3, <1>5 DEF Claim
  <2>2. /\ U = [classes |-> [T.classes EXCEPT ![r] = c], conflicts |-> T.conflicts]
        /\ U.classes = [T.classes EXCEPT ![r] = c] /\ U.conflicts = T.conflicts
    BY <1>1, <2>1
  <2>3. U \in ClaimedSlots
    BY <1>1, <2>2 DEF ClaimedSlots
  <2>4. U.classes[s] = IF r = s THEN c ELSE T.classes[s]
    BY <1>1, <2>2
  <2>5. CASE r = s
    <3>1. A = {}
      BY <1>5, <2>5 DEF SlotRight
    <3> QED
      BY <1>2, <1>3, <1>5, <2>2, <2>3, <2>4, <2>5, <3>1 DEF SlotRight
  <2>6. CASE r # s
    BY <1>3, <2>2, <2>3, <2>4, <2>6 DEF SlotRight
  <2> QED
    BY <2>5, <2>6
<1>6. CASE r \notin T.conflicts /\ T.classes[r] = c
  <2>1. U = T
    BY <1>2, <1>3, <1>6 DEF Claim
  <2>2. r = s => B = A
    BY <1>2, <1>6 DEF SlotRight
  <2> QED
    BY <1>3, <2>1, <2>2
<1>7. CASE r \notin T.conflicts /\ T.classes[r] # Nil /\ T.classes[r] # c
  <2>1. U = [T EXCEPT !.classes[r] = Nil, !.conflicts = @ \cup {r}]
    BY <1>3, <1>7 DEF Claim
  <2>2. /\ U = [classes |-> [T.classes EXCEPT ![r] = Nil], conflicts |-> T.conflicts \cup {r}]
        /\ U.classes = [T.classes EXCEPT ![r] = Nil] /\ U.conflicts = T.conflicts \cup {r}
    BY <1>1, <2>1
  <2>3. U \in ClaimedSlots
    BY <1>1, <2>2 DEF ClaimedSlots
  <2>4. U.classes[s] = IF r = s THEN Nil ELSE T.classes[s]
    BY <1>1, <2>2
  <2>5. CASE r = s
    <3>1. A = {T.classes[s]}
      BY <1>7, <2>5 DEF SlotRight
    <3>2. T.classes[s] \in B /\ c \in B /\ T.classes[s] # c
      BY <1>7, <2>5, <3>1
    <3> QED
      BY <1>3, <2>2, <2>3, <2>4, <2>5, <3>2 DEF SlotRight
  <2>6. CASE r # s
    BY <1>3, <2>2, <2>3, <2>4, <2>6 DEF SlotRight
  <2> QED
    BY <2>5, <2>6
<1> QED
  BY <1>4, <1>5, <1>6, <1>7

\* One step of TaggedClasses.
ClaimAt(T, map, S, i) ==
  IF map[i - 1] = Nil \/ ~Claims(map, S, map[i - 1]) THEN T
  ELSE Claim(T, map[i - 1].cls, TagSlot[map[i - 1].cls])
NoClaims == [classes |-> [s \in TagSlotNumber |-> Nil], conflicts |-> {}]
ClaimsAll(f, map, S) ==
  f = [i \in 0 .. MapSize |-> IF i = 0 THEN NoClaims ELSE ClaimAt(f[i - 1], map, S, i)]
Rightly(T, map, S, i) ==
  T \in ClaimedSlots /\ \A s \in TagSlotNumber : SlotRight(T, s, Claiming(map, S, i, s))

LEMMA OneClaimed ==
  ASSUME NEW map \in Map, NEW S, NEW i \in 1 .. MapSize, NEW T, Rightly(T, map, S, i - 1)
  PROVE  Rightly(ClaimAt(T, map, S, i), map, S, i)
<1>1. PICK j : j = i - 1 /\ j \in Slot /\ i \in Nat /\ j \in Nat
  BY Constants DEF Slot
<1>2. \A l \in Slot : l < i <=> l < j \/ l = j
  BY <1>1 DEF Slot
<1>3. T \in ClaimedSlots
  BY DEF Rightly
<1>4. CASE map[j] = Nil \/ ~Claims(map, S, map[j])
  <2>1. ASSUME NEW s PROVE Claiming(map, S, i, s) = Claiming(map, S, j, s)
    BY <1>1, <1>2, <1>4 DEF Claiming
  <2>2. ClaimAt(T, map, S, i) = T
    BY <1>1, <1>4 DEF ClaimAt
  <2> QED
    BY <1>1, <2>1, <2>2 DEF Rightly
<1>5. CASE map[j] # Nil /\ Claims(map, S, map[j])
  <2>1. PICK c \in Class : c = map[j].cls
    BY <1>1, <1>5, EntryAt
  <2>2. TagSlot[c] \in TagSlotNumber
    BY <1>5, <2>1 DEF Claims, TagSlotNumber
  <2>3. ClaimAt(T, map, S, i) = Claim(T, c, TagSlot[c])
    BY <1>1, <1>5, <2>1 DEF ClaimAt
  <2>4. ASSUME NEW s \in TagSlotNumber
        PROVE  Claiming(map, S, i, s) = IF TagSlot[c] = s THEN Claiming(map, S, j, s) \cup {c}
                                        ELSE Claiming(map, S, j, s)
    BY <1>1, <1>2, <1>5, <2>1 DEF Claiming
  <2>5. ASSUME NEW s \in TagSlotNumber
        PROVE  /\ Claim(T, c, TagSlot[c]) \in ClaimedSlots
               /\ SlotRight(Claim(T, c, TagSlot[c]), s, Claiming(map, S, i, s))
    <3>1. SlotRight(T, s, Claiming(map, S, j, s))
      BY <1>1 DEF Rightly
    <3> QED
      BY <1>3, <2>2, <2>4, <3>1, ClaimRight
  <2> QED
    BY <2>2, <2>3, <2>5 DEF Rightly
<1> QED
  BY <1>4, <1>5

LEMMA AllClaimed ==
  ASSUME NEW map \in Map, NEW S
  PROVE  \E T : TaggedClasses(map, S) = T.classes /\ Rightly(T, map, S, MapSize)
<1> DEFINE V == {x \in (0 .. MapSize) \X ClaimedSlots : Rightly(x[2], map, S, x[1])}
<1>1. 0 \in Nat /\ MapSize \in Nat /\ 0 <= MapSize /\ 0 + 1 = 1
  BY Constants
<1>2. \A i \in 0 .. MapSize : \A T : <<i, T>> \in V <=> Rightly(T, map, S, i)
  BY DEF Rightly
<1>3. Rightly(NoClaims, map, S, 0)
  <2>1. NoClaims \in ClaimedSlots
    BY DEF NoClaims, ClaimedSlots
  <2>2. ASSUME NEW s PROVE Claiming(map, S, 0, s) = {}
    BY DEF Claiming, Slot
  <2>3. \A s \in TagSlotNumber : NoClaims.classes[s] = Nil /\ s \notin NoClaims.conflicts
    BY DEF NoClaims
  <2> QED
    BY <2>1, <2>2, <2>3 DEF Rightly, SlotRight
<1>4. PICK a : a = <<0, NoClaims>>
  OBVIOUS
<1>5. a \in V
  <2>1. 0 \in 0 .. MapSize
    BY <1>1
  <2> QED
    BY <1>2, <1>3, <1>4, <2>1
<1>6. PICK step : step = [x \in V \X (0 + 1 .. MapSize) |->
                            IF x[1][1] = x[2] - 1 THEN <<x[2], ClaimAt(x[1][2], map, S, x[2])>> ELSE a]
  OBVIOUS
<1>7. /\ step \in [V \X (0 + 1 .. MapSize) -> V]
      /\ \A v \in V, i \in 1 .. MapSize :
           v[1] = i - 1 => step[<<v, i>>] = <<i, ClaimAt(v[2], map, S, i)>>
  <2>1. ASSUME NEW v \in V, NEW i \in 1 .. MapSize, v[1] = i - 1
        PROVE  <<i, ClaimAt(v[2], map, S, i)>> \in V
    <3>1. Rightly(v[2], map, S, i - 1)
      BY <2>1
    <3>2. Rightly(ClaimAt(v[2], map, S, i), map, S, i)
      BY <3>1, OneClaimed
    <3>3. i \in 0 .. MapSize
      BY <1>1
    <3> QED
      BY <1>2, <3>2, <3>3
  <2> HIDE DEF V
  <2> QED
    BY <1>1, <1>5, <1>6, <2>1
<1>8. PICK g \in [0 .. MapSize -> V] : GoesUp(g, 0, MapSize, a, step)
  <2> HIDE DEF V
  <2> QED
    BY <1>1, <1>5, <1>7, UpExists
<1>9. \A i \in 0 .. MapSize : g[i] \in V /\ g[i][1] \in 0 .. MapSize
  BY <1>8
<1> HIDE DEF V
<1>10. ASSUME NEW i \in 0 .. MapSize PROVE g[i][1] = i
  <2>1. PICK h, zero : h = [k \in 0 .. MapSize |-> g[k][1] - k] /\ zero = {0}
    OBVIOUS
  <2>2. h[0] \in zero
    <3>1. g[0][1] = 0
      BY <1>4, <1>8 DEF GoesUp
    <3> QED
      BY <1>1, <2>1, <3>1
  <2>3. ASSUME NEW k \in 0 + 1 .. MapSize, h[k - 1] \in zero PROVE h[k] \in zero
    <3>1. k \in 1 .. MapSize /\ k \in 0 .. MapSize /\ k - 1 \in 0 .. MapSize
      BY <1>1
    <3>2. g[k - 1][1] = k - 1
      <4>1. g[k - 1][1] - (k - 1) = 0 /\ g[k - 1][1] \in 0 .. MapSize
        BY <1>9, <2>1, <2>3, <3>1
      <4> QED
        BY <4>1
    <3>3. g[k] = step[<<g[k - 1], k>>] /\ g[k - 1] \in V
      BY <1>8, <1>9, <3>1 DEF GoesUp
    <3>4. g[k] = <<k, ClaimAt(g[k - 1][2], map, S, k)>>
      BY <1>7, <3>1, <3>2, <3>3
    <3>5. g[k][1] - k = 0
      BY <3>4
    <3> QED
      BY <2>1, <3>1, <3>5
  <2>4. \A k \in 0 .. MapSize : h[k] \in zero
    BY <1>1, <2>2, <2>3, UpAll
  <2>5. g[i][1] - i = 0 /\ g[i][1] \in 0 .. MapSize
    BY <1>9, <2>1, <2>4
  <2> QED
    BY <2>5
<1>11. PICK e : e = [i \in 0 .. MapSize |-> g[i][2]]
  OBVIOUS
<1>12. ClaimsAll(e, map, S)
  <2>1. ASSUME NEW i \in 0 .. MapSize
        PROVE  e[i] = IF i = 0 THEN NoClaims ELSE ClaimAt(e[i - 1], map, S, i)
    <3>1. CASE i = 0
      BY <1>4, <1>8, <1>11, <3>1 DEF GoesUp
    <3>2. CASE i # 0
      <4>1. i \in 1 .. MapSize /\ i \in 0 + 1 .. MapSize /\ i - 1 \in 0 .. MapSize
        BY <1>1, <3>2
      <4>2. g[i] = step[<<g[i - 1], i>>] /\ g[i - 1] \in V /\ g[i - 1][1] = i - 1
        BY <1>8, <1>9, <1>10, <4>1 DEF GoesUp
      <4>3. g[i] = <<i, ClaimAt(g[i - 1][2], map, S, i)>>
        BY <1>7, <4>1, <4>2
      <4> QED
        BY <1>11, <3>2, <4>1, <4>3
    <3> QED
      BY <3>1, <3>2
  <2>2. e = [i \in 0 .. MapSize |-> e[i]]
    BY <1>11
  <2> QED
    BY <2>1, <2>2 DEF ClaimsAll
<1> DEFINE f == CHOOSE x : ClaimsAll(x, map, S)
<1>13. TaggedClasses(map, S) = f[MapSize].classes
  BY DEF TaggedClasses, ClaimsAll, ClaimAt, NoClaims, TagSlotNumber
<1>14. ClaimsAll(f, map, S)
  BY <1>12
<1> HIDE DEF f
<1>15. PICK h : h = [i \in 0 .. MapSize |-> <<i, f[i]>>]
  OBVIOUS
<1>16. h[0] \in V
  <2>1. 0 \in 0 .. MapSize /\ f[0] = NoClaims
    BY <1>1, <1>14 DEF ClaimsAll
  <2> QED
    BY <1>2, <1>3, <1>15, <2>1
<1>17. ASSUME NEW i \in 0 + 1 .. MapSize, h[i - 1] \in V PROVE h[i] \in V
  <2>1. i \in 1 .. MapSize /\ i \in 0 .. MapSize /\ i - 1 \in 0 .. MapSize /\ i # 0
    BY <1>1
  <2>2. Rightly(f[i - 1], map, S, i - 1)
    BY <1>2, <1>15, <1>17, <2>1
  <2>3. Rightly(ClaimAt(f[i - 1], map, S, i), map, S, i)
    BY <2>1, <2>2, OneClaimed
  <2>4. f[i] = ClaimAt(f[i - 1], map, S, i)
    BY <1>14, <2>1 DEF ClaimsAll
  <2> QED
    BY <1>2, <1>15, <2>1, <2>3, <2>4
<1>18. \A i \in 0 .. MapSize : h[i] \in V
  BY <1>1, <1>16, <1>17, UpAll
<1>19. MapSize \in 0 .. MapSize
  BY <1>1
<1>20. Rightly(f[MapSize], map, S, MapSize)
  BY <1>2, <1>15, <1>18, <1>19
<1> QED
  BY <1>13, <1>20

LEMMA ExactIs ==
  ASSUME NEW S, NamesOnce(S.bySlot), S.frozen = TRUE, NEW t \in Table, NEW n,
         \A i \in DOMAIN Methods[t] :
           S.selOf[<<t, i>>] = S.generation /\ Methods[t][i] \in Range(S.bySlot)
  PROVE  Exact(S, t, n) # Nil <=> n \in Range(Methods[t])
<1> DEFINE own == {i \in DOMAIN Methods[t] : Methods[t][i] = n /\ S.selOf[<<t, i>>] = S.generation}
<1>1. Exact(S, t, n) = IF SlotIn(S.bySlot, S.frozen, n) = Nil \/ own = {} THEN Nil ELSE <<t, Min(own)>>
  BY DEF Exact
<1>2. n \in Range(Methods[t]) <=> own # {}
  BY DEF Range
<1>3. own \subseteq DOMAIN Methods[t] /\ \A i \in own : Methods[t][i] = n /\ n \in Range(S.bySlot)
  OBVIOUS
<1> HIDE DEF own
<1>4. CASE own = {}
  BY <1>1, <1>2, <1>4
<1>5. CASE own # {}
  <2>1. PICK i \in own : Min(own) = i /\ <<t, i>> # Nil
    BY <1>3, <1>5, OnlyOne
  <2>2. n \in Range(S.bySlot)
    BY <1>3, <1>5
  <2>3. SlotIn(S.bySlot, S.frozen, n) # Nil
    BY <2>2, SlotIs
  <2> QED
    BY <1>1, <1>2, <1>5, <2>1, <2>3
<1> QED
  BY <1>4, <1>5

\* What TaggedSlotsExclusive says of a map, the classes in it and the slots.
Claimants(map, C, s) ==
  {c \in C : /\ TagSlot[c] = s /\ IsObjectIn(map, c) /\ ~IsValueIn(map, c)
             /\ TagSel \in Range(Methods[<<c, "class">>])}
TagsRight(map, C, T) ==
  \A s \in TagSlotNumber :
    T[s] = IF Cardinality(Claimants(map, C, s)) = 1 THEN CHOOSE c \in Claimants(map, C, s) : TRUE ELSE Nil

LEMMA TagsSay ==
  TaggedSlotsExclusive <=> selectorsFailed \/ TagsRight(classMap, LoadedClasses, tagged)
<1> DEFINE claiming(s) == {c \in LoadedClasses : /\ TagSlot[c] = s
                                                /\ IsObjectIn(classMap, c) /\ ~IsValueIn(classMap, c)
                                                /\ TagSel \in Range(Methods[<<c, "class">>])}
           Right(s) == tagged[s] = IF Cardinality(claiming(s)) = 1
                                   THEN CHOOSE c \in claiming(s) : TRUE ELSE Nil
<1>1. \A s : claiming(s) = Claimants(classMap, LoadedClasses, s)
  BY DEF Claimants
<1>2. TaggedSlotsExclusive <=> \A s \in TagSlotNumber : ~selectorsFailed => Right(s)
  BY DEF TaggedSlotsExclusive, TagSlotNumber
<1> HIDE DEF claiming
<1>3. ASSUME NEW s
      PROVE  Right(s) <=> tagged[s] = IF Cardinality(Claimants(classMap, LoadedClasses, s)) = 1
                          THEN CHOOSE c \in Claimants(classMap, LoadedClasses, s) : TRUE ELSE Nil
  BY <1>1
<1> HIDE DEF Right
<1> QED
  BY <1>2, <1>3 DEF TagsRight

LEMMA TagsMoot == (selectorsFailed => TaggedSlotsExclusive)'
<1>1. selectorsFailed => TaggedSlotsExclusive
  BY TagsSay
<1> QED
  BY <1>1, PTL

LEMMA TagsThen ==
  ASSUME NEW map, NEW C, NEW T, TagsRight(map, C, T)
  PROVE  (map = classMap /\ C = LoadedClasses /\ T = tagged => TaggedSlotsExclusive)'
<1>1. map = classMap /\ C = LoadedClasses /\ T = tagged => TaggedSlotsExclusive
  BY TagsSay
<1> QED
  BY <1>1, PTL

LEMMA ClaimantsAre ==
  ASSUME NEW map, Ordered(map), NEW C, C = MappedClasses(map), NEW S, NEW s \in TagSlotNumber,
         \A c \in C : c \in Class /\ MapLookup(map, NameOf[c]) = c,
         \A c \in C : Exact(S, <<c, "class">>, TagSel) # Nil <=> TagSel \in Range(Methods[<<c, "class">>])
  PROVE  Claimants(map, C, s) = Claiming(map, S, MapSize, s)
<1>1. map \in Map /\ MapSize \in Nat
  BY Constants DEF Ordered
<1>2. ASSUME NEW c \in Claimants(map, C, s) PROVE c \in Claiming(map, S, MapSize, s)
  <2>1. /\ c \in C /\ c \in Class /\ TagSlot[c] = s /\ IsObjectIn(map, c) /\ ~IsValueIn(map, c)
        /\ Exact(S, <<c, "class">>, TagSel) # Nil /\ MapLookup(map, NameOf[c]) = c
    BY DEF Claimants
  <2>2. NameOf[c] \in Name /\ c # Nil
    BY <2>1, Constants
  <2>3. PICK j \in Slot : map[j] # Nil /\ map[j].name = NameOf[c] /\ map[j].cls = c
    BY <2>1, <2>2, LookupIs
  <2>4. j < MapSize
    BY <1>1 DEF Slot
  <2>5. Claims(map, S, map[j])
    BY <2>1, <2>3 DEF Claims, TagSlotNumber
  <2> QED
    BY <2>1, <2>3, <2>4, <2>5 DEF Claiming
<1>3. ASSUME NEW c \in Claiming(map, S, MapSize, s) PROVE c \in Claimants(map, C, s)
  <2>1. PICK j \in Slot : map[j] # Nil /\ Claims(map, S, map[j]) /\ map[j].cls = c
    BY DEF Claiming
  <2>2. c \in C
    BY <2>1 DEF MappedClasses, Slot
  <2>3. /\ TagSlot[c] = s /\ IsObjectIn(map, c) /\ ~IsValueIn(map, c)
        /\ Exact(S, <<c, "class">>, TagSel) # Nil
    BY <2>1 DEF Claiming, Claims
  <2> QED
    BY <2>2, <2>3 DEF Claimants
<1> QED
  BY <1>2, <1>3

LEMMA TagsBuilt ==
  ASSUME NEW map, Ordered(map), NEW C, C = MappedClasses(map), NEW S,
         \A c \in C : c \in Class /\ MapLookup(map, NameOf[c]) = c,
         \A c \in C : Exact(S, <<c, "class">>, TagSel) # Nil <=> TagSel \in Range(Methods[<<c, "class">>])
  PROVE  TagsRight(map, C, TaggedClasses(map, S))
<1>1. map \in Map /\ MapSize \in Nat
  BY Constants DEF Ordered
<1>2. PICK T : TaggedClasses(map, S) = T.classes /\ Rightly(T, map, S, MapSize)
  BY <1>1, AllClaimed
<1>3. ASSUME NEW s \in TagSlotNumber
      PROVE  T.classes[s] = IF Cardinality(Claimants(map, C, s)) = 1
                            THEN CHOOSE c \in Claimants(map, C, s) : TRUE ELSE Nil
  <2>1. PICK A : A = Claimants(map, C, s) /\ A = Claiming(map, S, MapSize, s)
    BY ClaimantsAre
  <2>2. SlotRight(T, s, A)
    BY <1>2, <2>1 DEF Rightly
  <2>3. IsFiniteSet(A)
    <3>1. IsFiniteSet(0 .. MapSize - 1)
      BY <1>1, FS_Interval
    <3>2. IsFiniteSet({j \in 0 .. MapSize - 1 : map[j] # Nil})
      BY <3>1, FS_Subset
    <3>3. PICK used, f : used = {j \in 0 .. MapSize - 1 : map[j] # Nil} /\ f = [j \in used |-> map[j].cls]
      OBVIOUS
    <3>4. f \in Surjection(used, C)
      <4>1. \A x : x \in C <=> \E j \in used : x = f[j]
        BY <3>3 DEF MappedClasses
      <4>2. f \in [used -> C]
        BY <3>3, <4>1
      <4> QED
        BY <4>1, <4>2 DEF Surjection
    <3>5. IsFiniteSet(C)
      BY <3>2, <3>3, <3>4, FS_Surjection
    <3>6. A \subseteq C
      BY <2>1 DEF Claimants
    <3> QED
      BY <3>5, <3>6, FS_Subset
  <2>4. Cardinality(A) = 1 <=> \E x : A = {x}
    BY <2>3, FS_Singleton
  <2>5. T.classes[s] = IF Cardinality(A) = 1 THEN CHOOSE c \in A : TRUE ELSE Nil
    <3>1. CASE A = {} /\ T.classes[s] = Nil
      BY <2>4, <3>1
    <3>2. CASE A = {T.classes[s]}
      <4>1. (CHOOSE c \in A : TRUE) = T.classes[s]
        BY <3>2
      <4> QED
        BY <2>4, <3>2, <4>1
    <3>3. CASE T.classes[s] = Nil /\ \E c, d \in A : c # d
      BY <2>4, <3>3
    <3> QED
      BY <2>2, <3>1, <3>2, <3>3 DEF SlotRight
  <2> QED
    BY <2>1, <2>5
<1> QED
  BY <1>2, <1>3 DEF TagsRight

LEMMA TagsAfter ==
  ASSUME NamesFit, MapInv, SelectorInv, DispatchInv, NEW img \in Image, Load(img), ~selectorsFailed'
  PROVE  TaggedSlotsExclusive'
<1>1. PICK fails : LoadClasses(img) /\ LoadSelectors(img, fails) /\ Finalize(fails)
  BY DEF Load
<1>2. MapInv' /\ SelectorInv' /\ DispatchInv'
  BY <1>1, LoadingKeeps, LoadKeeps, DispatchAfter
<1>3. PICK map, C : map = classMap' /\ C = LoadedClasses'
  OBVIOUS
<1>4. MappedClasses(map) = C /\ Ordered(map)
  BY <1>2, <1>3, MappedThenLoaded DEF MapInv
<1>5. ASSUME NEW c \in C PROVE c \in Class /\ MapLookup(map, NameOf[c]) = c
  <2>1. c \in Class /\ registered'[NameOf[c]] = c
    BY <1>2, <1>3, <1>5 DEF MapInv
  <2>2. NameOf[c] \in Name
    BY <2>1, Constants
  <2> QED
    BY <1>2, <1>3, <2>1, <2>2 DEF MapInv
<1>6. PICK S : S = [bySlot |-> bySlot', frozen |-> frozen', generation |-> generation',
                    selOf |-> selOf', layout |-> layout']
  OBVIOUS
<1>7. S.bySlot = bySlot' /\ S.frozen = frozen' /\ S.generation = generation' /\ S.selOf = selOf'
  BY <1>6
<1>8. ASSUME NEW c \in C
      PROVE  Exact(S, <<c, "class">>, TagSel) # Nil <=> TagSel \in Range(Methods[<<c, "class">>])
  <2>1. PICK t : t = <<c, "class">>
    OBVIOUS
  <2>2. t \in Table /\ t \in LoadedTables' /\ t[1] = c
    BY <1>3, <1>5, <2>1 DEF Table, Side, LoadedTables
  <2>3. SlotsTyped' /\ Slotted' /\ AllSelected'
    BY <1>2 DEF DispatchInv
  <2>4. ASSUME NEW i \in DOMAIN Methods[t]
        PROVE  selOf'[<<t, i>>] = generation' /\ Methods[t][i] \in Range(bySlot') /\ frozen'
    <3>1. PICK m \in Method : m = <<t, i>>
      BY <2>2, MethodsOf
    <3>2. m[1] = t /\ NameOfMethod(m) = Methods[t][i]
      BY <3>1 DEF NameOfMethod
    <3>3. selOf'[m] # Nil
      BY <2>3, <3>1 DEF AllSelected
    <3>4. selOf'[m] \in {Nil, generation'}
      BY <1>2, <1>3, <2>2, <3>1, <3>2 DEF SelectorInv, MethodsLive
    <3>5. frozen' /\ NameOfMethod(m) \in Range(bySlot')
      BY <2>2, <2>3, <3>1, <3>2, <3>3 DEF Slotted, NameOfMethod
    <3> QED
      BY <3>1, <3>2, <3>3, <3>4, <3>5
  <2>5. NamesOnce(bySlot') /\ frozen' \in BOOLEAN
    BY <2>3 DEF SlotsTyped, NamesOnce
  <2>6. CASE frozen'
    BY <1>7, <2>1, <2>2, <2>4, <2>5, <2>6, ExactIs
  <2>7. CASE ~frozen'
    <3>1. DOMAIN Methods[t] = {}
      BY <2>4, <2>7
    <3>2. Exact(S, t, TagSel) = Nil /\ TagSel \notin Range(Methods[t])
      BY <3>1 DEF Exact, Range
    <3> QED
      BY <2>1, <3>2
  <2> QED
    BY <2>6, <2>7
<1>9. TagsRight(map, C, TaggedClasses(map, S))
  BY <1>4, <1>5, <1>8, TagsBuilt
<1>10. tagged' = TaggedClasses(map, S)
  BY <1>1, <1>3, <1>6 DEF Finalize
<1> QED
  BY <1>3, <1>9, <1>10, TagsThen

LEMMA TagsStay ==
  ASSUME TaggedSlotsExclusive, ~selectorsFailed, LoadedClasses' = LoadedClasses,
         tagged' = tagged,
         MapLookup(classMap', ObjectName) = MapLookup(classMap, ObjectName),
         MapLookup(classMap', ValueName) = MapLookup(classMap, ValueName)
  PROVE  TaggedSlotsExclusive'
<1>1. PICK map, C, T : map = classMap' /\ C = LoadedClasses /\ T = tagged
  OBVIOUS
<1>2. ASSUME NEW c PROVE /\ IsObjectIn(map, c) <=> IsObjectIn(classMap, c)
                         /\ IsValueIn(map, c) <=> IsValueIn(classMap, c)
  BY <1>1 DEF IsObjectIn, IsValueIn
<1>3. \A s : Claimants(map, C, s) = Claimants(classMap, C, s)
  BY <1>2 DEF Claimants
<1>4. TagsRight(classMap, C, T)
  BY <1>1, TagsSay
<1>5. TagsRight(map, C, T)
  BY <1>3, <1>4 DEF TagsRight
<1> QED
  BY <1>1, <1>5, TagsThen

LEMMA TagsStart == Init => TaggedSlotsExclusive
<1> SUFFICES ASSUME Init PROVE TaggedSlotsExclusive
  OBVIOUS
<1>1. LoadedClasses = {}
  BY DEF Init, MapInit, LoadedClasses
<1>2. \A s \in 1 .. TagSlots - 1 : tagged[s] = Nil
  BY DEF Init
<1>3. Cardinality({}) = 0
  BY FS_EmptySet
<1> QED
  BY <1>1, <1>2, <1>3 DEF TaggedSlotsExclusive

LEMMA TagsKept ==
  ASSUME NamesFit, MapInv, SelectorInv, DispatchInv, TaggedSlotsExclusive, [Next]_vars
  PROVE  TaggedSlotsExclusive'
<1> SUFFICES ASSUME ~selectorsFailed' PROVE TaggedSlotsExclusive'
  BY TagsMoot
<1>1. ASSUME NEW img \in Image, Load(img) PROVE TaggedSlotsExclusive'
  BY <1>1, TagsAfter
<1>2. ObjectName \in Range(NameOf) /\ ValueName \in Range(NameOf)
      /\ ObjectName \in Name /\ ValueName \in Name
  BY LoaderAssumption, Constants DEF Range
<1>3. ASSUME NEW c \in Class, NEW n \in Name, RegisterAlias(c, n), UNCHANGED <<selectorVars, computedVars>>
      PROVE  TaggedSlotsExclusive'
  <2>1. LoadedClasses' = LoadedClasses
    BY <1>3, AliasKeeps
  <2>2. PICK e \in Entry : e = [name |-> n, cls |-> c]
    BY <1>3 DEF Entry
  <2>3. \A m \in Name : m # n => MapLookup(classMap', m) = MapLookup(classMap, m)
    <3>1. e.name = n
      BY <2>2
    <3> QED
      BY <1>3, <2>2, <3>1, Inserted DEF RegisterAlias, MapInv
  <2>4. ObjectName # n /\ ValueName # n
    BY <1>2, <1>3 DEF RegisterAlias
  <2>5. tagged' = tagged /\ selectorsFailed' = selectorsFailed
    BY <1>3 DEF computedVars
  <2> QED
    BY <1>2, <2>1, <2>3, <2>4, <2>5, TagsStay
<1>4. ASSUME UNCHANGED <<mapVars, computedVars>> PROVE TaggedSlotsExclusive'
  <2>1. /\ LoadedClasses' = LoadedClasses /\ classMap' = classMap
        /\ tagged' = tagged /\ selectorsFailed' = selectorsFailed
    BY <1>4 DEF mapVars, computedVars, LoadedClasses
  <2>2. /\ MapLookup(classMap', ObjectName) = MapLookup(classMap, ObjectName)
        /\ MapLookup(classMap', ValueName) = MapLookup(classMap, ValueName)
    BY <2>1
  <2> QED
    BY <2>1, <2>2, TagsStay
<1> QED
  BY <1>1, <1>3, <1>4 DEF Next, vars

\* Whatever images are loaded in whatever order, while selectors could be made
\* sf_rebuild_tagged_pointer_class_map_unlocked leaves a slot of tagged pointers
\* to the only loaded class that claims it, and to none if there are two or
\* none, however the class map is ordered and whatever aliases it has.
THEOREM TagsExclusive ==
  ASSUME NamesFit
  PROVE  Spec => []TaggedSlotsExclusive
<1>1. Init => TaggedSlotsExclusive
  BY TagsStart
<1>2. MapInv /\ SelectorInv /\ DispatchInv /\ TaggedSlotsExclusive /\ [Next]_vars
      => TaggedSlotsExclusive'
  BY TagsKept
<1> QED
  BY <1>1, <1>2, DispatchInvariant, PTL DEF Spec
=============================================================================
