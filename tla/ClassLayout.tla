---------------------------- MODULE ClassLayout ----------------------------
(* Where the ivars of a class and the storage of its embedded values lie     *)
(* (Runtime/src/loader.c, sf_fix_class_layout), as operators on a record     *)
(* that the loader keeps:                                                    *)
(*   offset  the offset variable of each ivar                                *)
(*   size    instance_size; the compiler's value is minus the ivars' own size*)
(*   slots   the embedded value slots of each class                          *)
(*   fixed   g_layout_fixed_map; active: g_layout_active_stack               *)
(* The options are the defaults: no inline value storage, and offsets that   *)
(* sf_loader_local_ivar_offset_unlocked does not know.                       *)
EXTENDS ClassMap

CONSTANTS
  Ivars,        \* [Class -> Seq([type, size, local])]; local is the compiler's offset
  Word,         \* sizeof(void *)
  HeaderSize,   \* sizeof(SFObjHeader_t)
  MaxOffset     \* INT32_MAX

\* The type of an ivar: the name of its class (@"Name"), any other object, or
\* something else.
IvarType == Name \cup {"id", "other"}

ASSUME LayoutAssumption ==
  /\ Name \cap {"id", "other"} = {}
  /\ Word \in Nat \ {0} /\ HeaderSize \in Nat /\ MaxOffset \in Nat
  /\ \A c \in Class : \A i \in DOMAIN Ivars[c] :
       /\ Ivars[c][i].type \in IvarType
       /\ Ivars[c][i].size \in Nat /\ Ivars[c][i].local \in Nat
-----------------------------------------------------------------------------
AtLeast(a, b) == IF a >= b THEN a ELSE b
Aligned(n) == ((n + Word - 1) \div Word) * Word

\* What the loader keeps.
ValueSlot == [cls : Class, owner : Nat, at : Nat, len : Nat]
Layout == [offset : [Class -> Seq(Nat)], size : [Class -> Int],
           slots : [Class -> Seq(ValueSlot)], fixed : SUBSET Class, active : Seq(Class)]

IsSubclass(c, d) == d \in Range(Chain[c])

\* sf_compiler_instance_size
InstanceSize(L, c) ==
  AtLeast(Word, IF L.size[c] < 0 THEN -L.size[c] ELSE L.size[c])

\* sf_type_is_object_ivar; an offset at the limit is no offset.
IsObjectIvar(L, c, i) ==
  Ivars[c][i].type \in Name \cup {"id"} /\ L.offset[c][i] # MaxOffset

\* sf_count_object_ivars_in_list, sf_collect_object_ivar_offsets
ObjectIvarOffsets(L, c) ==
  LET indices == SelectSeq([i \in DOMAIN Ivars[c] |-> i],
                           LAMBDA i : IsObjectIvar(L, c, i)) IN
  [k \in DOMAIN indices |-> L.offset[c][indices[k]]]

\* sf_embedded_value_storage_size
EmbeddedSize(L, c) == Aligned(HeaderSize + InstanceSize(L, c))

\* The storage of the local slots follows the ivars.
Stored(slots, end) ==
  LET stored[k \in 0 .. Len(slots)] ==
        IF k = 0 THEN <<>>
        ELSE LET before == stored[k - 1]
                 from == IF k = 1 THEN end ELSE before[k - 1].at + before[k - 1].len IN
             Append(before, [slots[k] EXCEPT !.at = Aligned(from)])
  IN stored[Len(slots)]
StoredEnd(slots, end) ==
  IF slots = <<>> THEN end
  ELSE LET last == slots[Len(slots)] IN Aligned(last.at + last.len)

OffsetBehindPointer(offset, base) == IF offset > base THEN offset ELSE offset + Word
\* The ivars start behind the superclass; what they hold already is added
\* again each time the layout is fixed.
ShiftedOffset(offset, base) ==
  IF offset + base > MaxOffset THEN MaxOffset ELSE offset + base

\* The slots of the superclass come first, unless the merged array cannot be
\* allocated: then the class's own values are not embedded.
MergedSlots(inherited, own, fails) ==
  IF inherited = <<>> \/ own = <<>> THEN inherited \o own
  ELSE IF fails THEN inherited ELSE inherited \o own

\* layout_fixed_contains, layout_active_contains and layout_active_push
IsFixed(L, c) == c \in L.fixed
IsActive(L, c) == c \in Range(L.active)
Entered(L, c) == [L EXCEPT !.active = Append(@, c)]

\* sf_set_value_slots_for_class_unlocked, layout_active_pop and the end of
\* sf_fix_class_layout
WithSlots(L, c, slots) == [L EXCEPT !.slots[c] = slots]
Left(L) == [L EXCEPT !.active = SubSeq(@, 1, Len(@) - 1)]
Finished(L, c, size, slots) ==
  Left([WithSlots(L, c, slots) EXCEPT !.size[c] = size, !.fixed = @ \cup {c}])

\* sf_fix_class_layout. named[n] is the class of that name, values the value
\* classes, fails the allocations that fail.
FixLayout(start, class, named, values, fails) ==
  LET
  fix[L \in Layout, c \in Class] ==
  IF IsFixed(L, c) \/ IsActive(L, c) THEN L
  ELSE
  LET above == IF Super[c] = Nil THEN Entered(L, c) ELSE fix[Entered(L, c), Super[c]]
      base == IF Super[c] = Nil THEN Word ELSE InstanceSize(above, Super[c])
      inherited == IF Super[c] = Nil THEN <<>> ELSE above.slots[Super[c]]
      Embeds(W, i) ==
        /\ Ivars[c][i].type \in Name
        /\ W.L.offset[c][i] # MaxOffset
        /\ LET v == named[Ivars[c][i].type] IN
           v # Nil /\ v \in values /\ ~IsActive(W.L, v)
        /\ <<"values", c>> \notin fails
      Place(W, i) ==
        LET at == ShiftedOffset(W.L.offset[c][i], base)
            placed == [W EXCEPT
              !.L.offset[c][i] = at,
              !.end = IF at = MaxOffset THEN @ ELSE AtLeast(@, at + Ivars[c][i].size)]
            v == named[Ivars[c][i].type]
            inner == fix[placed.L, v] IN
        IF ~Embeds(placed, i) THEN placed
        ELSE [placed EXCEPT
                !.L = inner,
                !.own = Append(@, [cls |-> v, owner |-> at, at |-> 0,
                                   len |-> EmbeddedSize(inner, v)])]
      ivars == FoldLeftDomain(Place, [L |-> above, end |-> base, own |-> <<>>], Ivars[c])
      visible == Aligned(ivars.end)
      own == Stored(ivars.own, visible)
      slots == MergedSlots(inherited, own, <<"merged", c>> \in fails) IN
  Finished(ivars.L, c, IF Len(slots) = Len(inherited) THEN visible ELSE StoredEnd(own, visible),
           slots)
  IN fix[start, class]
=============================================================================
