------------------------------ MODULE Dispatch ------------------------------
(* How a message finds its method (Runtime/src/dispatch/dispatch.c), how     *)
(* reflection does (loader.c), over the tables of the loader.                *)
EXTENDS Loader

CONSTANTS
  Object,       \* receivers
  TableOf,      \* [Object -> Table]: the class of each
  Forward,      \* [Object \X SelName -> Object \cup {Nil}]: what its method
                \* forwardingTargetForSelector: answers
  ForwardSel,   \* "forwardingTargetForSelector:"
  Hops          \* 8

ASSUME DispatchAssumption ==
  /\ Nil \notin Object
  /\ TableOf \in [Object -> Table]
  /\ Forward \in [Object \X SelName -> Object \cup {Nil}]
  /\ ForwardSel \in SelName /\ Hops \in Nat \ {0}

\* sf_selector_slot
SlotOf(n) == SlotIn(bySlot, frozen, n)

\* sf_lookup_dtable_imp
DtableImp(t, n) ==
  IF dtable[t] = Nil \/ SlotOf(n) = Nil THEN Nil ELSE dtable[t][SlotOf(n) + 1]

\* selector_slots_match: by slot if both have one, else by name.
SlotsMatch(m, n) == selOf[m] # Nil /\ NameOfMethod(m) = n
OwnMethods(t, n) ==
  LET own == {i \in DOMAIN Methods[t] : SlotsMatch(<<t, i>>, n)} IN
  IF own = {} THEN Nil ELSE <<t, Min(own)>>

\* The first in a sequence that is there.
FirstFound(s) ==
  LET found == {k \in DOMAIN s : s[k] # Nil} IN IF found = {} THEN Nil ELSE s[Min(found)]

\* lookup_method_in_class_local: the first method up the chain.
Walk(t, n) == FirstFound([k \in DOMAIN TableChain(t) |-> OwnMethods(TableChain(t)[k], n)])

LookupTableOnly(t, n) == DtableImp(t, n)
\* sf_lookup_imp_in_class: also what objc_msg_lookup_super does with the
\* superclass.
LookupImp(t, n) == IF DtableImp(t, n) # Nil THEN DtableImp(t, n) ELSE Walk(t, n)

\* class_getInstanceMethod and class_getClassMethod compare slots only.
SameSlot(t, n) ==
  LET own == {i \in DOMAIN Methods[t] :
                selOf[<<t, i>>] # Nil /\ SlotOf(Methods[t][i]) = SlotOf(n)} IN
  IF own = {} THEN Nil ELSE <<t, Min(own)>>
GetMethod(t, n) == FirstFound([k \in DOMAIN TableChain(t) |-> SameSlot(TableChain(t)[k], n)])

LastHopEarly(left) == left <= 2
LastHop(left) == left = 1
\* The object that is answered, if it can be there yet.
Target(o, n) ==
  IF Forward[<<o, n>>] # Nil /\ TableOf[Forward[<<o, n>>]] \in LoadedTables THEN Forward[<<o, n>>] ELSE Nil

\* sf_resolve_message_dispatch
Resolve(receiver, n) ==
  LET resolve[left \in 1 .. Hops] ==
        [o \in Object |->
           LET imp == LookupImp(TableOf[o], n)
               target == Target(o, n) IN
           IF \/ imp # Nil \/ SlotOf(ForwardSel) = Nil \/ n = ForwardSel
              \/ Walk(TableOf[o], ForwardSel) = Nil \/ target \in {Nil, o}
           THEN [receiver |-> o, imp |-> imp]
           ELSE IF LastHop(left) THEN [receiver |-> target, imp |-> LookupImp(TableOf[target], n)]
           ELSE resolve[left - 1][target]]
  IN resolve[Hops][receiver]
-----------------------------------------------------------------------------
\* What a message should find: the method of the nearest class that has one.
Named(t, n) ==
  IF n \in Range(Methods[t]) THEN <<t, CHOOSE i \in DOMAIN Methods[t] : Methods[t][i] = n>> ELSE Nil
Nearest(t, n) == FirstFound([k \in DOMAIN TableChain(t) |-> Named(TableChain(t)[k], n)])

\* A message finds the nearest implementation or, after a load that could not
\* make all selectors, perhaps none; never one that is overridden. Dispatch
\* tables that cannot be allocated change nothing.
MessagesFindNearest ==
  \A t \in LoadedTables, n \in SelName :
    \/ LookupImp(t, n) = Nearest(t, n)
    \/ selectorsFailed /\ LookupImp(t, n) = Nil

\* Reflection finds the method a message runs.
ReflectionAgrees ==
  \A t \in LoadedTables, n \in SelName : GetMethod(t, n) = LookupImp(t, n)

\* The receivers that forwarding goes through: it stops at one that responds,
\* or has no other target.
Responds(o, n) == LookupImp(TableOf[o], n) # Nil
After(receiver, n, most) ==
  LET after[hops \in 0 .. most] ==
        [o \in Object |->
           IF \/ hops = 0 \/ Responds(o, n) \/ ~Responds(o, ForwardSel) \/ n = ForwardSel
              \/ Target(o, n) = Nil
           THEN o ELSE after[hops - 1][Target(o, n)]]
  IN after[most][receiver]

\* A message is forwarded as long as nobody on the way responds, up to the limit
\* of hops, to the receiver whose own method is then run.
ForwardingReaches ==
  \A o \in Object, n \in SelName : TableOf[o] \in LoadedTables =>
    LET r == Resolve(o, n) IN
    ~selectorsFailed =>
      /\ r.receiver = After(o, n, Hops)
      /\ r.imp = Nearest(TableOf[r.receiver], n)

\* The ranges of memory in an object: its ivars and its embedded values.
IvarRanges(c) ==
  UNION {{[at |-> layout.offset[d][i], len |-> Ivars[d][i].size] :
            i \in {j \in DOMAIN Ivars[d] : layout.offset[d][j] # MaxOffset}} :
         d \in Range(Chain[c])}
ValueRanges(c) == {[at |-> s.at, len |-> s.len] : s \in Range(layout.slots[c])}
Apart(r, s) == r.at + r.len <= s.at \/ s.at + s.len <= r.at
CountIvars(c) == FoldLeft(LAMBDA n, d : n + Len(Ivars[d]), 0, Chain[c])

\* Ivars and embedded values of an object, its superclasses' included, lie
\* behind the class pointer, within the instance, and apart.
RangesApart(c) ==
  LET all == IvarRanges(c) \cup ValueRanges(c) IN
  /\ \A r \in all : r.at >= Word /\ r.at + r.len <= InstanceSize(layout, c)
  /\ \A r, s \in all : r = s \/ Apart(r, s)
  /\ Cardinality(all) = CountIvars(c) + Len(layout.slots[c])

\* An embedded value belongs to an ivar of its class, where that ivar is now,
\* has room for an instance of it, and lies in a subclass where it does in the
\* class.
SlotFollowsIvar(c, s) ==
  /\ \E d \in Range(Chain[c]) : \E i \in DOMAIN Ivars[d] :
       /\ layout.offset[d][i] = s.owner
       /\ Ivars[d][i].type \in Name /\ MapLookup(classMap, Ivars[d][i].type) = s.cls
       /\ s \in Range(layout.slots[d])
  /\ s.at % Word = 0 /\ s.len >= HeaderSize + InstanceSize(layout, s.cls)

\* No two things in an object overlap, and every embedded value has its ivar and
\* room, however often images are loaded, in whichever order value classes need
\* each other's size, and whichever slots could not be allocated.
LayoutSound ==
  \A c \in LoadedClasses :
    /\ RangesApart(c)
    /\ \A s \in Range(layout.slots[c]) : SlotFollowsIvar(c, s)

\* The object ivars of a class and its superclasses, where they are now.
ObjectIvars(table) ==
  UNION {{layout.offset[t[1]][i] :
            i \in {j \in DOMAIN Ivars[t[1]] : IsObjectIvar(layout, t[1], j)}} :
         t \in {u \in Range(TableChain(table)) : u[2] = "instances"}}

\* The metadata of a class is found and is its own; it lists object ivars only,
\* each once, and unless its arrays could not be allocated all of them, and an
\* object is released trivially only if there is none.
StrongOffsetsRight ==
  \A t \in LoadedTables :
    LET m == MetaFor(meta, t)
        all == ObjectIvars(t) IN
    /\ m # Nil /\ m.of = t /\ IsInjective(m.strong) /\ Range(m.strong) \subseteq all
    /\ (~\E f \in failed : f[1] = "offsets") =>
         /\ Range(m.strong) = all
         /\ m.trivial => all = {}

\* A slot of tagged pointers belongs to a class if no other loaded class claims
\* it: to none if two do. Objects that are not values may claim one.
TaggedSlotsExclusive ==
  \A slot \in 1 .. TagSlots - 1 :
    LET claiming == {c \in LoadedClasses : /\ TagSlot[c] = slot
                                           /\ IsObjectIn(classMap, c) /\ ~IsValueIn(classMap, c)
                                           /\ TagSel \in Range(Methods[<<c, "class">>])} IN
    ~selectorsFailed =>
      tagged[slot] = IF Cardinality(claiming) = 1 THEN CHOOSE c \in claiming : TRUE ELSE Nil
=============================================================================
