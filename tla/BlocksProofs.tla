---------------------------- MODULE BlocksProofs ----------------------------
(***************************************************************************)
(* Proofs about BlocksRuntime, for any number of threads that copy and     *)
(* release blocks at the same time, any blocks and variables captured by   *)
(* them, and any maximum of the reference counts. What other memory holds  *)
(* is filled by Collections; the invariant is one for both.                *)
(***************************************************************************)
EXTENDS Collections, TLAPS, FiniteSetTheorems, FunctionTheorems, SequenceTheorems

Item == Cell \cup Global \cup {Nil}
Place == [cell : Cell \cup Holder, at : Nat]
Step == [drops : BOOLEAN, slot : Nat, item : Cell \cup Literal \cup {Nil}]
RuntimeCall ==
  [op : {"restore", "copy", "keep", "release", "dispose", "byref", "fill", "empty"},
   ref : Item \cup Literal \cup Holder, at : Nat,
   into : Place \cup Allocator \cup {Nil} \cup Seq(Step)]
Content ==
  [from : Literal \cup Var \cup Kind \cup {Nil}, rc : 0 .. Latch, fields : Seq(Item),
   by : Allocator \cup {Nil}]

TypeOK ==
  /\ cells \in [Cell \cup Holder -> Content]
  /\ forward \in [Var -> Cell \cup {Nil}]
  /\ open \in [Thread -> BOOLEAN]
  /\ held \in [Cell -> Nat]
  /\ work \in [Thread -> Seq(RuntimeCall)]
  /\ override \in [Thread -> Allocator \cup {Nil}]

\* A copy helper, or a collection, has a value to put into an empty field of
\* what it makes.
Placed(t, k) ==
  LET into == work[t][k].into
      outer == work[t][k - 1] IN
  /\ into \in Place /\ k > 1 /\ outer.ref = into.cell
  /\ into.at \in DOMAIN cells[into.cell].fields
  /\ cells[into.cell].fields[into.at] = Nil
  /\ \/ /\ outer.op = "keep" /\ into.cell \in Cell /\ outer.at = into.at + 1
        /\ Captures[cells[into.cell].from][into.at] \in Literal
     \/ /\ outer.op = "fill" /\ into.cell \in Holder /\ outer.at - 1 \in DOMAIN outer.into
        /\ ~outer.into[outer.at - 1].drops /\ outer.into[outer.at - 1].slot = into.at

RestoreOK(t, k) == k = 1 /\ work[t][k].ref = Nil /\ work[t][k].into \in Allocator
CopyOK(t, k) == work[t][k].ref \in Literal /\ (work[t][k].into = Nil \/ Placed(t, k))
KeepOK(t, k) ==
  LET c == work[t][k].ref
      i == work[t][k].at IN
  /\ c \in Cell /\ cells[c].from \in Literal
  /\ i \in 1 .. Len(cells[c].fields) + 1
  /\ \A j \in DOMAIN cells[c].fields : j >= i => cells[c].fields[j] = Nil
  /\ work[t][k].into = Nil \/ Placed(t, k)
DisposeOK(t, k) ==
  LET c == work[t][k].ref IN
  /\ c \in Cell /\ Used(c) /\ cells[c].rc = 0
  /\ work[t][k].at \in 1 .. Len(cells[c].fields) + 1
ByrefOK(t, k) ==
  LET d == work[t][k].ref IN d \in Item /\ (d \in Cell => cells[d].from \in Var)

\* The steps of an initialiser put nothing where something is.
DropBetween(steps, i, j, slot) == \E l \in i .. j - 1 : steps[l].drops /\ steps[l].slot = slot
InTurn(steps) ==
  \A i, j \in DOMAIN steps :
    i < j /\ ~steps[i].drops /\ ~steps[j].drops /\ steps[i].slot = steps[j].slot
      => DropBetween(steps, i + 1, j, steps[j].slot)
StepsOK(steps) ==
  /\ steps \in Seq(Step) /\ InTurn(steps)
  /\ \A j \in DOMAIN steps : ~steps[j].drops => steps[j].item # Nil
RoomFor(steps, i, fields) ==
  \A j \in DOMAIN steps :
    /\ steps[j].slot \in DOMAIN fields
    /\ j >= i /\ ~steps[j].drops /\ fields[steps[j].slot] # Nil
         => DropBetween(steps, i, j, steps[j].slot)
FillOK(t, k) ==
  LET h == work[t][k].ref
      i == work[t][k].at
      steps == work[t][k].into IN
  /\ h \in Holder /\ Used(h) /\ StepsOK(steps) /\ i \in 1 .. Len(steps) + 1
  /\ RoomFor(steps, i, cells[h].fields)
EmptyOK(t, k) ==
  LET h == work[t][k].ref IN
  h \in Holder /\ Used(h) /\ work[t][k].at \in 1 .. Len(cells[h].fields) + 1

\* What a call that a thread is in may rely on.
CallOK(t, k) ==
  LET op == work[t][k].op IN
  /\ op = "restore" => RestoreOK(t, k)
  /\ op = "copy" => CopyOK(t, k)
  /\ op = "keep" => KeepOK(t, k)
  /\ op = "release" => work[t][k].ref \in Item
  /\ op = "dispose" => DisposeOK(t, k)
  /\ op = "byref" => ByrefOK(t, k)
  /\ op = "fill" => FillOK(t, k)
  /\ op = "empty" => EmptyOK(t, k)
CallsOK == \A t \in Thread : \A k \in DOMAIN work[t] : CallOK(t, k)

\* One call makes a block, and one disposes of it.
Alone(op) ==
  \A x, y \in Calls : CallAt(x).op = op /\ CallAt(y).op = op /\ CallAt(x).ref = CallAt(y).ref
                        => x = y

\* A block has one field for each captured value, and a variable none. The
\* fields of captured variables hold variables.
ContentOK(c) ==
  /\ ~Used(c) => cells[c] = Unused
  /\ cells[c].from \notin Kind
  /\ cells[c].from \in Var => cells[c].fields = <<>>
  /\ cells[c].from \in Literal => Len(cells[c].fields) = Len(Captures[cells[c].from])
  /\ \A i \in DOMAIN cells[c].fields :
       LET d == cells[c].fields[i] IN
       d \in Cell /\ ~Dropped(c, i) /\ Captures[cells[c].from][i] \in Var
         => cells[d].from \in Var
FieldsOK == \A c \in Cell : ContentOK(c)
HoldersOK ==
  \A k \in Holder :
    cells[k].from \in Kind \cup {Nil} /\ (cells[k].from = Nil => cells[k] = Unused)

ForwardOK == \A v \in Var : forward[v] # Nil => cells[forward[v]].from = v

Finite == \A c \in Cell : IsFiniteSet(CallsOn(c)) /\ IsFiniteSet(FieldsOn(c))
ZeroDisposed == \A c \in Cell : Used(c) /\ cells[c].rc = 0 => DisposesOf(c) # {}

\* What was asked for by _Block_copy_with_allocator, if a thread is in it
Asked(t) == IF work[t] # <<>> /\ work[t][1].op = "restore" THEN work[t][1].into ELSE Nil

IInv ==
  /\ TypeOK /\ CallsOK /\ Alone("keep") /\ Alone("dispose")
  /\ FieldsOK /\ HoldersOK /\ ForwardOK /\ Finite
  /\ HeapCountsExact /\ ZeroDisposed /\ CopiesUseAllocator

\* A collection is in one call, and what an initialiser was given the program
\* keeps.
HoldersAlone ==
  \A x, y \in Calls : CallAt(x).ref \in Holder /\ CallAt(x).ref = CallAt(y).ref => x = y
LentHeld == \A c \in Cell : Lent(c) => held[c] > 0
-----------------------------------------------------------------------------
(* Stacks of calls *)

LEMMA Distinct ==
  /\ Nil \notin Cell /\ Nil \notin Literal /\ Nil \notin Var /\ Nil \notin Allocator
  /\ Cell \cap Literal = {} /\ Cell \cap Holder = {} /\ Literal \cap Var = {}
  /\ Holder \cap Literal = {} /\ Nil \notin Holder
  /\ Kind \cap (Literal \cup Var \cup {Nil}) = {}
  /\ Global \subseteq Literal
  /\ IsFiniteSet(Thread) /\ IsFiniteSet(Var) /\ IsFiniteSet(Cell)
  /\ Latch \in Nat /\ Latch > 2
BY BlocksAssumption, CollectionsAssumption

LEMMA StackTop ==
  ASSUME TypeOK, NEW t \in Thread
  PROVE  /\ work[t] \in Seq(RuntimeCall) /\ Len(work[t]) \in Nat
         /\ DOMAIN work[t] = 1 .. Len(work[t])
         /\ \A k \in DOMAIN work[t] : work[t][k] \in RuntimeCall
         /\ work[t] # <<>> => Len(work[t]) > 0 /\ Len(work[t]) \in DOMAIN work[t]
         /\ work[t] = <<>> => Len(work[t]) = 0
<1>1. work[t] \in Seq(RuntimeCall)
  BY DEF TypeOK
<1> QED
  BY <1>1, LenProperties, ElementOfSeq, EmptySeq

\* The calls of t before the innermost one are the first n - 1 of those after a
\* step, and those of the other threads are what they were.
OnlyTop(t, n) ==
  /\ \A u \in Thread : u # t => work'[u] = work[u]
  /\ \A k \in 1 .. n - 1 : k \in DOMAIN work'[t] /\ work'[t][k] = work[t][k]
  /\ work'[t] \in Seq(RuntimeCall)

LEMMA OuterCalls ==
  ASSUME TypeOK, NEW t \in Thread, work[t] # <<>>
  PROVE  /\ Outer(t) \in Seq(RuntimeCall) /\ Len(Outer(t)) = Len(work[t]) - 1
         /\ \A k \in 1 .. Len(work[t]) - 1 : Outer(t)[k] = work[t][k]
<1>1. Len(work[t]) \in Nat /\ Len(work[t]) > 0 /\ DOMAIN work[t] = 1 .. Len(work[t])
  BY StackTop
<1>2. PICK n \in Nat : n = Len(work[t]) - 1
  BY SMTT(40), <1>1
<1>3. \A k \in 1 .. n : work[t][k] \in RuntimeCall
  BY <1>1, <1>2, StackTop
<1>4. /\ SubSeq(work[t], 1, n) \in Seq(RuntimeCall)
      /\ Len(SubSeq(work[t], 1, n)) = IF 1 <= n THEN n - 1 + 1 ELSE 0
      /\ \A k \in 1 .. n - 1 + 1 : SubSeq(work[t], 1, n)[k] = work[t][1 + k - 1]
  BY <1>3, SubSeqProperties
<1>5. Outer(t) = SubSeq(work[t], 1, n)
  BY <1>2 DEF Outer
<1> QED
  BY <1>2, <1>4, <1>5

LEMMA Returned ==
  ASSUME TypeOK, NEW t \in Thread, work[t] # <<>>, Return(t)
  PROVE  /\ OnlyTop(t, Len(work[t])) /\ Len(work[t]) \in Nat \ {0}
         /\ DOMAIN work[t] = 1 .. Len(work[t]) /\ DOMAIN work'[t] = 1 .. Len(work[t]) - 1
<1>1. work'[t] = Outer(t) /\ \A u \in Thread : u # t => work'[u] = work[u]
  BY DEF Return, TypeOK
<1> QED
  BY <1>1, OuterCalls, StackTop, LenProperties DEF OnlyTop

LEMMA Became ==
  ASSUME TypeOK, NEW t \in Thread, work[t] # <<>>, NEW call \in RuntimeCall, Become(t, call)
  PROVE  /\ OnlyTop(t, Len(work[t])) /\ Len(work[t]) \in Nat \ {0}
         /\ DOMAIN work[t] = 1 .. Len(work[t]) /\ DOMAIN work'[t] = 1 .. Len(work[t])
         /\ work'[t][Len(work[t])] = call
<1>1. work'[t] = Append(Outer(t), call) /\ \A u \in Thread : u # t => work'[u] = work[u]
  BY DEF Become, TypeOK
<1>2. /\ Append(Outer(t), call) \in Seq(RuntimeCall)
      /\ Len(Append(Outer(t), call)) = Len(Outer(t)) + 1
      /\ \A k \in 1 .. Len(Outer(t)) : Append(Outer(t), call)[k] = Outer(t)[k]
      /\ Append(Outer(t), call)[Len(Outer(t)) + 1] = call
  BY OuterCalls, AppendProperties
<1>3. DOMAIN work'[t] = 1 .. Len(work[t])
  BY <1>1, <1>2, OuterCalls, StackTop, LenProperties
<1> QED
  BY <1>1, <1>2, <1>3, OuterCalls, StackTop DEF OnlyTop

\* The innermost call is where it was, at its next captured value.
GoesOn(t, n) ==
  /\ work'[t][n].op = work[t][n].op /\ work'[t][n].ref = work[t][n].ref
  /\ work'[t][n].into = work[t][n].into /\ work'[t][n].at = work[t][n].at + 1

LEMMA NextValue ==
  ASSUME NEW call \in RuntimeCall
  PROVE  [call EXCEPT !.at = @ + 1] \in RuntimeCall
<1> PICK ops : ops = {"restore", "copy", "keep", "release", "dispose", "byref", "fill", "empty"}
  OBVIOUS
<1> PICK intos : intos = Place \cup Allocator \cup {Nil} \cup Seq(Step)
  OBVIOUS
<1> PICK rfs : rfs = Item \cup Literal \cup Holder
  OBVIOUS
<1>1. RuntimeCall = [op : ops, ref : rfs, at : Nat, into : intos]
  BY DEF RuntimeCall
<1>2. call \in [op : ops, ref : rfs, at : Nat, into : intos]
  BY <1>1
<1>3. [call EXCEPT !.at = @ + 1] \in [op : ops, ref : rfs, at : Nat, into : intos]
  BY <1>2
<1> QED
  BY <1>1, <1>3

\* The innermost call goes on, and the calls given are in it.
LEMMA Advanced ==
  ASSUME TypeOK, NEW t \in Thread, work[t] # <<>>, NEW calls \in Seq(RuntimeCall),
         Advance(t, calls)
  PROVE  /\ OnlyTop(t, Len(work[t])) /\ Len(work[t]) \in Nat \ {0}
         /\ DOMAIN work[t] = 1 .. Len(work[t])
         /\ DOMAIN work'[t] = 1 .. Len(work[t]) + Len(calls)
         /\ GoesOn(t, Len(work[t]))
         /\ \A k \in 1 .. Len(calls) : work'[t][Len(work[t]) + k] = calls[k]
<1> PICK n : n = Len(work[t])
  OBVIOUS
<1> PICK top : top = [work[t][n] EXCEPT !.at = @ + 1]
  OBVIOUS
<1>1. n \in Nat \ {0} /\ DOMAIN work[t] = 1 .. n /\ work[t][n] \in RuntimeCall
  BY StackTop
<1>2. top \in RuntimeCall
  BY <1>1, NextValue
<1>3. PICK s : s = Append(Outer(t), top)
  OBVIOUS
<1>4. /\ s \in Seq(RuntimeCall) /\ Len(s) = n
      /\ \A k \in 1 .. n - 1 : s[k] = work[t][k]
      /\ s[n] = top
  BY SMTT(40), <1>1, <1>2, <1>3, OuterCalls, AppendProperties
<1>5. work'[t] = s \o calls /\ \A u \in Thread : u # t => work'[u] = work[u]
  BY <1>3 DEF Advance, Innermost, TypeOK
<1>6. /\ s \o calls \in Seq(RuntimeCall) /\ Len(s \o calls) = n + Len(calls)
      /\ \A k \in 1 .. n + Len(calls) : (s \o calls)[k] = IF k <= n THEN s[k] ELSE calls[k - n]
      /\ Len(calls) \in Nat
  <2>1. /\ s \o calls \in Seq(RuntimeCall) /\ Len(s \o calls) = Len(s) + Len(calls)
        /\ \A k \in 1 .. Len(s) + Len(calls) :
             (s \o calls)[k] = IF k <= Len(s) THEN s[k] ELSE calls[k - Len(s)]
    <3>1. s \in Seq(RuntimeCall)
      BY <1>4
    <3> QED
      BY ONLY <3>1, calls \in Seq(RuntimeCall), ConcatProperties
  <2> QED
    BY <1>4, <2>1, LenProperties
<1>7. DOMAIN work'[t] = 1 .. n + Len(calls)
  BY <1>5, <1>6, LenProperties
<1>8. /\ \A k \in 1 .. n - 1 : work'[t][k] = work[t][k]
      /\ work'[t][n] = top
      /\ \A k \in 1 .. Len(calls) : work'[t][n + k] = calls[k]
  BY <1>1, <1>4, <1>5, <1>6
<1>9. GoesOn(t, n)
  BY <1>1, <1>8 DEF GoesOn, RuntimeCall
<1>10. OnlyTop(t, n)
  BY <1>1, <1>5, <1>6, <1>7, <1>8 DEF OnlyTop
<1> QED
  BY <1>1, <1>7, <1>8, <1>9, <1>10

LEMMA AdvancedAlone ==
  ASSUME TypeOK, NEW t \in Thread, work[t] # <<>>, Advance(t, <<>>)
  PROVE  /\ OnlyTop(t, Len(work[t])) /\ Len(work[t]) \in Nat \ {0}
         /\ DOMAIN work[t] = 1 .. Len(work[t]) /\ DOMAIN work'[t] = 1 .. Len(work[t])
         /\ GoesOn(t, Len(work[t]))
<1> PICK calls : calls = <<>>
  OBVIOUS
<1>1. calls \in Seq(RuntimeCall) /\ Len(calls) = 0 /\ Advance(t, calls)
  BY EmptySeq
<1>2. /\ OnlyTop(t, Len(work[t])) /\ Len(work[t]) \in Nat \ {0}
      /\ DOMAIN work[t] = 1 .. Len(work[t])
      /\ DOMAIN work'[t] = 1 .. Len(work[t]) + Len(calls)
      /\ GoesOn(t, Len(work[t]))
      /\ \A k \in 1 .. Len(calls) : work'[t][Len(work[t]) + k] = calls[k]
  BY <1>1, Advanced
<1> QED
  BY <1>1, <1>2

LEMMA AdvancedInto ==
  ASSUME TypeOK, NEW t \in Thread, work[t] # <<>>, NEW call \in RuntimeCall,
         Advance(t, <<call>>)
  PROVE  /\ OnlyTop(t, Len(work[t])) /\ Len(work[t]) \in Nat \ {0}
         /\ DOMAIN work[t] = 1 .. Len(work[t]) /\ DOMAIN work'[t] = 1 .. Len(work[t]) + 1
         /\ GoesOn(t, Len(work[t])) /\ work'[t][Len(work[t]) + 1] = call
<1> PICK calls : calls = <<call>>
  OBVIOUS
<1>1. calls \in Seq(RuntimeCall) /\ Len(calls) = 1 /\ calls[1] = call /\ Advance(t, calls)
  OBVIOUS
<1>2. /\ OnlyTop(t, Len(work[t])) /\ Len(work[t]) \in Nat \ {0}
      /\ DOMAIN work[t] = 1 .. Len(work[t])
      /\ DOMAIN work'[t] = 1 .. Len(work[t]) + Len(calls)
      /\ GoesOn(t, Len(work[t]))
      /\ \A k \in 1 .. Len(calls) : work'[t][Len(work[t]) + k] = calls[k]
  BY <1>1, Advanced
<1> QED
  BY <1>1, <1>2

LEMMA Begun ==
  ASSUME TypeOK, NEW t \in Thread, work[t] = <<>>, NEW s \in Seq(RuntimeCall),
         work' = [work EXCEPT ![t] = s]
  PROVE  OnlyTop(t, 0) /\ work'[t] = s /\ DOMAIN work[t] = 1 .. 0 /\ DOMAIN work'[t] = 1 .. Len(s)
<1>1. work'[t] = s /\ \A u \in Thread : u # t => work'[u] = work[u]
  BY DEF TypeOK
<1> QED
  BY <1>1, StackTop, LenProperties DEF OnlyTop
-----------------------------------------------------------------------------
(* The calls that refer to an allocation *)

N(b) == IF b THEN 1 ELSE 0
Counts(call, c) == call.op \in {"keep", "release", "byref"} /\ call.ref = c
Disposes(call, c) == call.op = "dispose" /\ call.ref = c
Drops(call, c, i) == call.op \in {"dispose", "empty"} /\ call.ref = c /\ i < call.at

LEMMA CallsAre ==
  \A x : x \in Calls <=> \E u \in Thread : \E k \in DOMAIN work[u] : x = <<u, k>>
BY DEF Calls

LEMMA CallsOnAre ==
  \A c, x : x \in CallsOn(c) <=>
    \E u \in Thread : \E k \in DOMAIN work[u] : x = <<u, k>> /\ Counts(work[u][k], c)
BY CallsAre DEF CallsOn, CallAt, Counts

LEMMA DisposesOfAre ==
  \A c, x : x \in DisposesOf(c) <=>
    \E u \in Thread : \E k \in DOMAIN work[u] : x = <<u, k>> /\ Disposes(work[u][k], c)
BY CallsAre DEF DisposesOf, CallAt, Disposes

LEMMA DroppedIs ==
  \A c, i : Dropped(c, i) <=>
    \E u \in Thread : \E k \in DOMAIN work[u] : Drops(work[u][k], c, i)
<1> SUFFICES ASSUME NEW c, NEW i
             PROVE  Dropped(c, i) <=>
                      \E u \in Thread : \E k \in DOMAIN work[u] : Drops(work[u][k], c, i)
  OBVIOUS
<1>1. \A u \in Thread : \A k \in DOMAIN work[u] :
        <<u, k>> \in Calls /\ CallAt(<<u, k>>) = work[u][k]
  BY CallsAre DEF CallAt
<1>2. \A x \in Calls : \E u \in Thread : \E k \in DOMAIN work[u] : x = <<u, k>>
  BY CallsAre
<1>3. Dropped(c, i) <=> \E x \in Calls : Drops(CallAt(x), c, i)
  BY DEF Dropped, Drops
<1>4. ASSUME Dropped(c, i)
      PROVE  \E u \in Thread : \E k \in DOMAIN work[u] : Drops(work[u][k], c, i)
  <2>1. PICK x \in Calls : Drops(CallAt(x), c, i)
    BY <1>3, <1>4
  <2>2. PICK u \in Thread : \E k \in DOMAIN work[u] : x = <<u, k>>
    BY <1>2
  <2>3. PICK k \in DOMAIN work[u] : x = <<u, k>>
    BY <2>2
  <2>4. Drops(work[u][k], c, i)
    BY <1>1, <2>1, <2>3
  <2> QED
    BY <2>4
<1>5. ASSUME NEW u \in Thread, NEW k \in DOMAIN work[u], Drops(work[u][k], c, i)
      PROVE  Dropped(c, i)
  <2>1. <<u, k>> \in Calls /\ Drops(CallAt(<<u, k>>), c, i)
    BY <1>1, <1>5
  <2> QED
    BY <1>3, <2>1
<1> QED
  BY <1>4, <1>5

LEMMA CallsOnAreNext ==
  \A c, x : x \in CallsOn(c)' <=>
    \E u \in Thread : \E k \in DOMAIN work'[u] : x = <<u, k>> /\ Counts(work'[u][k], c)
<1>1. (\A c, x : x \in CallsOn(c) <=>
         \E u \in Thread : \E k \in DOMAIN work[u] : x = <<u, k>> /\ Counts(work[u][k], c))'
  BY CallsOnAre, PTL
<1> QED
  BY <1>1 DEF Counts

LEMMA DisposesOfAreNext ==
  \A c, x : x \in DisposesOf(c)' <=>
    \E u \in Thread : \E k \in DOMAIN work'[u] : x = <<u, k>> /\ Disposes(work'[u][k], c)
<1>1. (\A c, x : x \in DisposesOf(c) <=>
         \E u \in Thread : \E k \in DOMAIN work[u] : x = <<u, k>> /\ Disposes(work[u][k], c))'
  BY DisposesOfAre, PTL
<1> QED
  BY <1>1 DEF Disposes

LEMMA DroppedIsNext ==
  \A c, i : Dropped(c, i)' <=>
    \E u \in Thread : \E k \in DOMAIN work'[u] : Drops(work'[u][k], c, i)
<1>1. (\A c, i : Dropped(c, i) <=>
         \E u \in Thread : \E k \in DOMAIN work[u] : Drops(work[u][k], c, i))'
  BY DroppedIs, PTL
<1> QED
  BY <1>1 DEF Drops

\* The set of calls on c after a step of thread t: n is where its innermost call
\* was, m where it is now.
LEMMA CallsOnAfter ==
  ASSUME TypeOK, NEW t \in Thread, NEW n \in Nat, NEW m \in Nat, OnlyTop(t, n),
         DOMAIN work[t] = 1 .. n, DOMAIN work'[t] = 1 .. m, m >= n - 1, NEW c
  PROVE  CallsOn(c)' = (CallsOn(c) \ {<<t, n>>})
                         \cup {<<t, k>> : k \in {j \in n .. m : j > 0 /\ Counts(work'[t][j], c)}}
<1> DEFINE new == {<<t, k>> : k \in {j \in n .. m : j > 0 /\ Counts(work'[t][j], c)}}
<1>1. ASSUME NEW x
      PROVE  x \in CallsOn(c)' <=> (x \in CallsOn(c) /\ x # <<t, n>>) \/ x \in new
  <2>1. ASSUME NEW u \in Thread, NEW k \in DOMAIN work'[u], x = <<u, k>>,
               Counts(work'[u][k], c)
        PROVE  (x \in CallsOn(c) /\ x # <<t, n>>) \/ x \in new
    <3>1. CASE u # t
      BY <2>1, <3>1, CallsOnAre DEF OnlyTop
    <3>2. CASE u = t /\ k < n
      BY <2>1, <3>2, CallsOnAre DEF OnlyTop
    <3>3. CASE u = t /\ k >= n
      BY <2>1, <3>3
    <3> QED
      BY <3>1, <3>2, <3>3
  <2>2. ASSUME NEW u \in Thread, NEW k \in DOMAIN work[u], x = <<u, k>>,
               Counts(work[u][k], c), x # <<t, n>>
        PROVE  x \in CallsOn(c)'
    <3>1. CASE u # t
      BY <2>2, <3>1, CallsOnAreNext DEF OnlyTop
    <3>2. CASE u = t
      BY <2>2, <3>2, CallsOnAreNext DEF OnlyTop
    <3> QED
      BY <3>1, <3>2
  <2>3. ASSUME x \in new PROVE x \in CallsOn(c)'
    BY <2>3, CallsOnAreNext
  <2> HIDE DEF new
  <2> QED
    BY <2>1, <2>2, <2>3, CallsOnAre, CallsOnAreNext
<1> QED
  BY <1>1

LEMMA TopCounts ==
  ASSUME TypeOK, NEW t \in Thread, NEW n \in Nat, DOMAIN work[t] = 1 .. n, NEW c
  PROVE  <<t, n>> \in CallsOn(c) <=> n > 0 /\ Counts(work[t][n], c)
BY CallsOnAre

\* A thread returns from its innermost call.
LEMMA CountReturn ==
  ASSUME TypeOK, NEW t \in Thread, NEW n \in Nat \ {0}, OnlyTop(t, n),
         DOMAIN work[t] = 1 .. n, DOMAIN work'[t] = 1 .. n - 1,
         NEW c, IsFiniteSet(CallsOn(c))
  PROVE  /\ IsFiniteSet(CallsOn(c)')
         /\ Cardinality(CallsOn(c)') = Cardinality(CallsOn(c)) - N(Counts(work[t][n], c))
<1>1. CallsOn(c)' = (CallsOn(c) \ {<<t, n>>})
                     \cup {<<t, k>> : k \in {j \in n .. n - 1 : j > 0 /\ Counts(work'[t][j], c)}}
  BY CallsOnAfter
<1>2. CallsOn(c)' = CallsOn(c) \ {<<t, n>>}
  BY <1>1
<1>3. <<t, n>> \in CallsOn(c) <=> Counts(work[t][n], c)
  BY TopCounts
<1>4. /\ IsFiniteSet(CallsOn(c) \ {<<t, n>>})
      /\ Cardinality(CallsOn(c) \ {<<t, n>>}) =
           IF <<t, n>> \in CallsOn(c) THEN Cardinality(CallsOn(c)) - 1 ELSE Cardinality(CallsOn(c))
  BY FS_RemoveElement
<1>5. Cardinality(CallsOn(c)) \in Nat
  BY FS_CardinalityType
<1> QED
  BY <1>2, <1>3, <1>4, <1>5 DEF N

\* The innermost call becomes another.
LEMMA CountBecome ==
  ASSUME TypeOK, NEW t \in Thread, NEW n \in Nat \ {0}, OnlyTop(t, n),
         DOMAIN work[t] = 1 .. n, DOMAIN work'[t] = 1 .. n,
         NEW c, IsFiniteSet(CallsOn(c))
  PROVE  /\ IsFiniteSet(CallsOn(c)')
         /\ Cardinality(CallsOn(c)') = Cardinality(CallsOn(c))
                                       - N(Counts(work[t][n], c)) + N(Counts(work'[t][n], c))
<1> PICK rest : rest = CallsOn(c) \ {<<t, n>>}
  OBVIOUS
<1>1. CallsOn(c)' = rest
                     \cup {<<t, k>> : k \in {j \in n .. n : j > 0 /\ Counts(work'[t][j], c)}}
  BY CallsOnAfter
<1>2. CallsOn(c)' = IF Counts(work'[t][n], c) THEN rest \cup {<<t, n>>} ELSE rest
  BY <1>1
<1>3. <<t, n>> \in CallsOn(c) <=> Counts(work[t][n], c)
  BY TopCounts
<1>4. /\ IsFiniteSet(rest)
      /\ Cardinality(rest) =
           IF <<t, n>> \in CallsOn(c) THEN Cardinality(CallsOn(c)) - 1 ELSE Cardinality(CallsOn(c))
      /\ <<t, n>> \notin rest
  BY FS_RemoveElement
<1>5. /\ IsFiniteSet(rest \cup {<<t, n>>})
      /\ Cardinality(rest \cup {<<t, n>>}) = Cardinality(rest) + 1
  BY <1>4, FS_AddElement
<1>6. Cardinality(CallsOn(c)) \in Nat
  BY FS_CardinalityType
<1> QED
  BY <1>2, <1>3, <1>4, <1>5, <1>6 DEF N

\* One call more, in the innermost one, which stays the call it was.
LEMMA CountInto ==
  ASSUME TypeOK, NEW t \in Thread, NEW n \in Nat, NEW m, m = n + 1, OnlyTop(t, n),
         DOMAIN work[t] = 1 .. n, DOMAIN work'[t] = 1 .. m,
         n > 0 => GoesOn(t, n), NEW c, IsFiniteSet(CallsOn(c))
  PROVE  /\ IsFiniteSet(CallsOn(c)')
         /\ Cardinality(CallsOn(c)') = Cardinality(CallsOn(c)) + N(Counts(work'[t][m], c))
<1>1. CallsOn(c)' = (CallsOn(c) \ {<<t, n>>})
                     \cup {<<t, k>> : k \in {j \in n .. m : j > 0 /\ Counts(work'[t][j], c)}}
  BY CallsOnAfter
<1>2. <<t, n>> \in CallsOn(c) <=> n > 0 /\ Counts(work[t][n], c)
  BY TopCounts
<1>3. n > 0 => (Counts(work'[t][n], c) <=> Counts(work[t][n], c))
  BY DEF GoesOn, Counts
<1>4. CallsOn(c)' = IF Counts(work'[t][m], c) THEN CallsOn(c) \cup {<<t, m>>}
                    ELSE CallsOn(c)
  <2>1. n \in n .. m /\ m \in n .. m /\ m > 0 /\ \A j \in n .. m : j = n \/ j = m
    OBVIOUS
  <2>2. \A j \in n .. m : j > 0 /\ j # m /\ Counts(work'[t][j], c) => <<t, n>> \in CallsOn(c) /\ j = n
    BY <1>2, <1>3, <2>1
  <2>3. <<t, n>> \in CallsOn(c) => n \in n .. m /\ n > 0 /\ Counts(work'[t][n], c)
    BY <1>2, <1>3, <2>1
  <2> QED
    BY <1>1, <2>1, <2>2, <2>3
<1>5. <<t, m>> \notin CallsOn(c)
  BY CallsOnAre
<1>6. /\ IsFiniteSet(CallsOn(c) \cup {<<t, m>>})
      /\ Cardinality(CallsOn(c) \cup {<<t, m>>}) = Cardinality(CallsOn(c)) + 1
  BY <1>5, FS_AddElement
<1>7. Cardinality(CallsOn(c)) \in Nat
  BY FS_CardinalityType
<1> QED
  BY <1>4, <1>6, <1>7 DEF N

\* The innermost call goes on by itself.
LEMMA CountGoOn ==
  ASSUME TypeOK, NEW t \in Thread, NEW n \in Nat \ {0}, OnlyTop(t, n),
         DOMAIN work[t] = 1 .. n, DOMAIN work'[t] = 1 .. n, GoesOn(t, n), NEW c
  PROVE  CallsOn(c)' = CallsOn(c)
<1>1. CallsOn(c)' = (CallsOn(c) \ {<<t, n>>})
                     \cup {<<t, k>> : k \in {j \in n .. n : j > 0 /\ Counts(work'[t][j], c)}}
  BY CallsOnAfter
<1>2. <<t, n>> \in CallsOn(c) <=> Counts(work[t][n], c)
  BY TopCounts
<1>3. Counts(work'[t][n], c) <=> Counts(work[t][n], c)
  BY DEF GoesOn, Counts
<1> QED
  BY <1>1, <1>2, <1>3

\* Calls of the dispose helper go on when others come and go.
LEMMA NoDisposeChanges ==
  ASSUME TypeOK, NEW t \in Thread, NEW n \in Nat, NEW m \in Nat, OnlyTop(t, n),
         DOMAIN work[t] = 1 .. n, DOMAIN work'[t] = 1 .. m, m >= n - 1,
         n > 0 => work[t][n].op \notin {"dispose", "empty"},
         \A k \in 1 .. m : k >= n => work'[t][k].op \notin {"dispose", "empty"}
  PROVE  /\ \A c : DisposesOf(c)' = DisposesOf(c)
         /\ \A c, i : Dropped(c, i)' <=> Dropped(c, i)
<1>1. ASSUME NEW u \in Thread, NEW k \in DOMAIN work[u], work[u][k].op \in {"dispose", "empty"}
      PROVE  k \in DOMAIN work'[u] /\ work'[u][k] = work[u][k]
  <2>1. CASE u # t
    BY <1>1, <2>1 DEF OnlyTop
  <2>2. CASE u = t
    <3>1. k \in 1 .. n - 1
      BY <1>1, <2>2
    <3> QED
      BY <2>2, <3>1 DEF OnlyTop
  <2> QED
    BY <2>1, <2>2
<1>2. ASSUME NEW u \in Thread, NEW k \in DOMAIN work'[u], work'[u][k].op \in {"dispose", "empty"}
      PROVE  k \in DOMAIN work[u] /\ work'[u][k] = work[u][k]
  <2>1. CASE u # t
    BY <1>2, <2>1 DEF OnlyTop
  <2>2. CASE u = t
    <3>1. k \in 1 .. n - 1
      BY <1>2, <2>2
    <3> QED
      BY <2>2, <3>1 DEF OnlyTop
  <2> QED
    BY <2>1, <2>2
<1>3. ASSUME NEW c, NEW x PROVE x \in DisposesOf(c)' <=> x \in DisposesOf(c)
  BY <1>1, <1>2, DisposesOfAre, DisposesOfAreNext DEF Disposes
<1>5. ASSUME NEW c, NEW i PROVE Dropped(c, i)' <=> Dropped(c, i)
  <2>1. ASSUME NEW u \in Thread, NEW k \in DOMAIN work[u], Drops(work[u][k], c, i)
        PROVE  k \in DOMAIN work'[u] /\ Drops(work'[u][k], c, i)
    BY <1>1, <2>1 DEF Drops
  <2>2. ASSUME NEW u \in Thread, NEW k \in DOMAIN work'[u], Drops(work'[u][k], c, i)
        PROVE  k \in DOMAIN work[u] /\ Drops(work[u][k], c, i)
    BY <1>2, <2>2 DEF Drops
  <2> QED
    BY <2>1, <2>2, DroppedIs, DroppedIsNext
<1>6. ASSUME NEW c PROVE DisposesOf(c)' = DisposesOf(c)
  <2>1. \A x : x \in DisposesOf(c)' <=> x \in DisposesOf(c)
    BY <1>3
  <2> QED
    BY <2>1, Zenon DEF DisposesOf
<1> QED
  BY <1>5, <1>6
-----------------------------------------------------------------------------
(* The fields that refer to an allocation *)

FieldOn(d, i, c) ==
  i \in DOMAIN cells[d].fields /\ cells[d].fields[i] = c /\ ~Dropped(d, i)

LEMMA FieldsOnAre ==
  \A c, x : x \in FieldsOn(c) <=> \E d \in Cell \cup Holder : \E i : x = <<d, i>> /\ FieldOn(d, i, c)
BY DEF FieldsOn, Fields, FieldOn

LEMMA FieldsOnAreNext ==
  \A c, x : x \in FieldsOn(c)' <=> \E d \in Cell \cup Holder : \E i : x = <<d, i>> /\ FieldOn(d, i, c)'
<1>1. (\A c, x : x \in FieldsOn(c) <=>
         \E d \in Cell \cup Holder : \E i : x = <<d, i>> /\ FieldOn(d, i, c))'
  BY FieldsOnAre, PTL
<1> QED
  BY <1>1

LEMMA FieldsSame ==
  ASSUME NEW c, \A d \in Cell \cup Holder : \A i : FieldOn(d, i, c)' <=> FieldOn(d, i, c)
  PROVE  FieldsOn(c)' = FieldsOn(c)
BY FieldsOnAre, FieldsOnAreNext

LEMMA FieldGained ==
  ASSUME NEW c, NEW d \in Cell \cup Holder, NEW i, ~FieldOn(d, i, c), IsFiniteSet(FieldsOn(c)),
         \A e \in Cell \cup Holder : \A j : e # d \/ j # i => (FieldOn(e, j, c)' <=> FieldOn(e, j, c))
  PROVE  /\ IsFiniteSet(FieldsOn(c)')
         /\ Cardinality(FieldsOn(c)') = Cardinality(FieldsOn(c)) + N(FieldOn(d, i, c)')
<1>1. <<d, i>> \notin FieldsOn(c)
  BY FieldsOnAre
<1>2. ASSUME NEW x
      PROVE  x \in FieldsOn(c)' <=> x \in FieldsOn(c) \/ (x = <<d, i>> /\ FieldOn(d, i, c)')
  <2>1. ASSUME NEW e \in Cell \cup Holder, NEW j, x = <<e, j>>
        PROVE  /\ x \in FieldsOn(c) <=> FieldOn(e, j, c)
               /\ x \in FieldsOn(c)' <=> FieldOn(e, j, c)'
    BY <2>1, FieldsOnAre, FieldsOnAreNext
  <2>2. x \in FieldsOn(c) \/ x \in FieldsOn(c)' => \E e \in Cell \cup Holder : \E j : x = <<e, j>>
    BY FieldsOnAre, FieldsOnAreNext
  <2> QED
    BY <2>1, <2>2
<1>3. FieldsOn(c)' = IF FieldOn(d, i, c)' THEN FieldsOn(c) \cup {<<d, i>>} ELSE FieldsOn(c)
  BY <1>2
<1>4. /\ IsFiniteSet(FieldsOn(c) \cup {<<d, i>>})
      /\ Cardinality(FieldsOn(c) \cup {<<d, i>>}) = Cardinality(FieldsOn(c)) + 1
  BY <1>1, FS_AddElement
<1>5. Cardinality(FieldsOn(c)) \in Nat
  BY FS_CardinalityType
<1> QED
  BY <1>3, <1>4, <1>5 DEF N

LEMMA FieldLost ==
  ASSUME NEW c, NEW d \in Cell \cup Holder, NEW i, ~FieldOn(d, i, c)', IsFiniteSet(FieldsOn(c)),
         \A e \in Cell \cup Holder : \A j : e # d \/ j # i => (FieldOn(e, j, c)' <=> FieldOn(e, j, c))
  PROVE  /\ IsFiniteSet(FieldsOn(c)')
         /\ Cardinality(FieldsOn(c)') = Cardinality(FieldsOn(c)) - N(FieldOn(d, i, c))
<1>1. <<d, i>> \in FieldsOn(c) <=> FieldOn(d, i, c)
  BY FieldsOnAre
<1>2. ASSUME NEW x
      PROVE  x \in FieldsOn(c)' <=> x \in FieldsOn(c) /\ x # <<d, i>>
  <2>1. ASSUME NEW e \in Cell \cup Holder, NEW j, x = <<e, j>>
        PROVE  /\ x \in FieldsOn(c) <=> FieldOn(e, j, c)
               /\ x \in FieldsOn(c)' <=> FieldOn(e, j, c)'
    BY <2>1, FieldsOnAre, FieldsOnAreNext
  <2>2. x \in FieldsOn(c) \/ x \in FieldsOn(c)' => \E e \in Cell \cup Holder : \E j : x = <<e, j>>
    BY FieldsOnAre, FieldsOnAreNext
  <2> QED
    BY <2>1, <2>2
<1>3. FieldsOn(c)' = FieldsOn(c) \ {<<d, i>>}
  BY <1>2
<1>4. /\ IsFiniteSet(FieldsOn(c) \ {<<d, i>>})
      /\ Cardinality(FieldsOn(c) \ {<<d, i>>}) =
           IF <<d, i>> \in FieldsOn(c) THEN Cardinality(FieldsOn(c)) - 1 ELSE Cardinality(FieldsOn(c))
  BY FS_RemoveElement
<1>5. Cardinality(FieldsOn(c)) \in Nat
  BY FS_CardinalityType
<1> QED
  BY <1>1, <1>3, <1>4, <1>5 DEF N
-----------------------------------------------------------------------------
(* What the counts say *)

\* What is referred to is there and is not being disposed of.
LEMMA Sums ==
  ASSUME IInv, NEW c \in Cell
  PROVE  /\ held[c] \in Nat /\ IsFiniteSet(VarsOn(c)) /\ IsFiniteSet(CallsOn(c))
         /\ IsFiniteSet(FieldsOn(c)) /\ Cardinality(VarsOn(c)) \in Nat
         /\ Cardinality(CallsOn(c)) \in Nat /\ Cardinality(FieldsOn(c)) \in Nat
         /\ References(c) \in Nat /\ cells[c].rc \in 0 .. Latch
         /\ cells[c] \in Content
<1>1. held[c] \in Nat /\ cells[c] \in Content
  BY DEF IInv, TypeOK
<1>2. cells[c].rc \in 0 .. Latch
  BY <1>1 DEF Content
<1>3. IsFiniteSet(VarsOn(c))
  BY Distinct, FS_Subset DEF VarsOn
<1>4. IsFiniteSet(CallsOn(c)) /\ IsFiniteSet(FieldsOn(c))
  BY DEF IInv, Finite
<1>5. /\ Cardinality(VarsOn(c)) \in Nat
      /\ Cardinality(CallsOn(c)) \in Nat /\ Cardinality(FieldsOn(c)) \in Nat
  BY <1>3, <1>4, FS_CardinalityType
<1> QED
  BY <1>1, <1>2, <1>3, <1>4, <1>5 DEF References

LEMMA Counted ==
  ASSUME IInv, NEW c \in Cell,
         held[c] > 0 \/ VarsOn(c) # {} \/ CallsOn(c) # {} \/ FieldsOn(c) # {}
  PROVE  /\ References(c) > 0 /\ Used(c) /\ cells[c].rc \in 1 .. Latch
         /\ cells[c].rc \in {References(c), Latch}
<1>1. /\ VarsOn(c) # {} => Cardinality(VarsOn(c)) > 0
      /\ CallsOn(c) # {} => Cardinality(CallsOn(c)) > 0
      /\ FieldsOn(c) # {} => Cardinality(FieldsOn(c)) > 0
  BY Sums, FS_EmptySet
<1>2. References(c) > 0
  BY <1>1, Sums DEF References
<1>3. Used(c) /\ cells[c].rc \in {References(c), Latch}
  BY <1>2 DEF IInv, HeapCountsExact
<1> QED
  BY <1>2, <1>3, Sums, Distinct

LEMMA Uncounted ==
  ASSUME IInv, NEW c \in Cell, ~Used(c) \/ cells[c].rc = 0
  PROVE  References(c) = 0 /\ held[c] = 0 /\ VarsOn(c) = {} /\ CallsOn(c) = {} /\ FieldsOn(c) = {}
<1>1. References(c) = 0
  BY Distinct DEF IInv, HeapCountsExact
<1>2. ~(held[c] > 0 \/ VarsOn(c) # {} \/ CallsOn(c) # {} \/ FieldsOn(c) # {})
  BY <1>1, Counted
<1> QED
  BY <1>1, <1>2, Sums
-----------------------------------------------------------------------------
(* Steps that leave what a call relies on as it was *)

Keeps(c) ==
  /\ cells'[c].from = cells[c].from /\ cells'[c].fields = cells[c].fields
  /\ cells'[c].by = cells[c].by
  /\ cells[c].rc = 0 => cells'[c].rc = 0

Relies(call) ==
  \/ call.op \in {"keep", "dispose", "byref"} /\ call.ref \in Cell
  \/ call.op \in {"fill", "empty"} /\ call.ref \in Holder

LEMMA PlacedKept ==
  ASSUME NEW t \in Thread, NEW k \in DOMAIN work[t], Placed(t, k),
         work'[t][k].into = work[t][k].into, work'[t][k - 1] = work[t][k - 1],
         Keeps(work[t][k - 1].ref)
  PROVE  Placed(t, k)'
BY DEF Placed, Keeps, Place

LEMMA CallKept ==
  ASSUME NEW t \in Thread, NEW k \in DOMAIN work[t], CallOK(t, k),
         work'[t][k] = work[t][k], Relies(work[t][k]) => Keeps(work[t][k].ref),
         k > 1 => /\ work'[t][k - 1] = work[t][k - 1]
                  /\ Relies(work[t][k - 1]) => Keeps(work[t][k - 1].ref)
  PROVE  CallOK(t, k)'
<1>1. Placed(t, k) => Placed(t, k)'
  <2> SUFFICES ASSUME Placed(t, k) PROVE Placed(t, k)'
    OBVIOUS
  <2>1. k > 1 /\ Relies(work[t][k - 1])
    BY DEF Placed, Place, Relies
  <2> QED
    BY <2>1, PlacedKept
<1>2. RestoreOK(t, k) => RestoreOK(t, k)'
  BY DEF RestoreOK
<1>3. CopyOK(t, k) => CopyOK(t, k)'
  BY <1>1 DEF CopyOK
<1>4. work[t][k].op = "keep" /\ KeepOK(t, k) => KeepOK(t, k)'
  BY <1>1 DEF KeepOK, Relies, Keeps
<1>5. work[t][k].op = "dispose" /\ DisposeOK(t, k) => DisposeOK(t, k)'
  BY DEF DisposeOK, Relies, Keeps, Used
<1>6. work[t][k].op = "byref" /\ ByrefOK(t, k) => ByrefOK(t, k)'
  BY DEF ByrefOK, Relies, Keeps
<1>7. work[t][k].op = "fill" /\ FillOK(t, k) => FillOK(t, k)'
  BY DEF FillOK, Relies, Keeps, Used
<1>8. work[t][k].op = "empty" /\ EmptyOK(t, k) => EmptyOK(t, k)'
  BY DEF EmptyOK, Relies, Keeps, Used
<1> QED
  BY <1>2, <1>3, <1>4, <1>5, <1>6, <1>7, <1>8 DEF CallOK

\* The calls that go on after a step of t whose innermost call was the n-th find
\* what they rely on.
Spares(t, n) ==
  \A u \in Thread : \A k \in DOMAIN work[u] :
    (u = t => k < n) /\ Relies(work[u][k]) => Keeps(work[u][k].ref)

LEMMA OthersOK ==
  ASSUME IInv, NEW t \in Thread, NEW n \in Nat, OnlyTop(t, n), 1 .. n - 1 \subseteq DOMAIN work[t],
         Spares(t, n), NEW u \in Thread, NEW k \in DOMAIN work'[u], u = t => k < n,
         DOMAIN work'[t] \subseteq Nat \ {0}
  PROVE  CallOK(u, k)'
<1>1. k \in DOMAIN work[u] /\ k \in Nat \ {0} /\ work'[u][k] = work[u][k]
  <2>1. CASE u = t
    <3>1. k \in 1 .. n - 1
      BY <2>1
    <3> QED
      BY <2>1, <3>1 DEF OnlyTop
  <2>2. CASE u # t
    BY <2>2, StackTop DEF OnlyTop, IInv
  <2> QED
    BY <2>1, <2>2
<1>2. k > 1 => k - 1 \in DOMAIN work[u] /\ work'[u][k - 1] = work[u][k - 1]
  <2>1. CASE u = t
    <3>1. k > 1 => k - 1 \in 1 .. n - 1
      BY <1>1, <2>1
    <3> QED
      BY <2>1, <3>1 DEF OnlyTop
  <2>2. CASE u # t
    BY <1>1, <2>2, StackTop DEF OnlyTop, IInv
  <2> QED
    BY <2>1, <2>2
<1>3. Relies(work[u][k]) => Keeps(work[u][k].ref)
  BY <1>1 DEF Spares
<1>4. k > 1 /\ Relies(work[u][k - 1]) => Keeps(work[u][k - 1].ref)
  BY <1>1, <1>2 DEF Spares
<1>5. CallOK(u, k)
  BY <1>1 DEF IInv, CallsOK
<1> QED
  BY <1>1, <1>2, <1>3, <1>4, <1>5, CallKept

\* No second call makes, or disposes of, the same block.
LEMMA AloneKept ==
  ASSUME NEW op, Alone(op),
         \A u \in Thread : \A k \in DOMAIN work'[u] : work'[u][k].op = op =>
           k \in DOMAIN work[u] /\ work[u][k].op = op /\ work[u][k].ref = work'[u][k].ref
  PROVE  Alone(op)'
<1>1. \A x \in Calls' : CallAt(x)'.op = op =>
        x \in Calls /\ CallAt(x).op = op /\ CallAt(x).ref = CallAt(x)'.ref
  BY DEF Calls, CallAt
<1> QED
  BY <1>1 DEF Alone

LEMMA AloneBegun ==
  ASSUME NEW op, Alone(op), NEW t \in Thread, NEW n \in DOMAIN work'[t],
         \A u \in Thread : \A k \in DOMAIN work'[u] : work'[u][k].op = op /\ (u # t \/ k # n) =>
           k \in DOMAIN work[u] /\ work[u][k].op = op /\ work[u][k].ref = work'[u][k].ref,
         \A u \in Thread : \A k \in DOMAIN work[u] :
           work[u][k].op = op => work[u][k].ref # work'[t][n].ref
  PROVE  Alone(op)'
<1>1. \A x \in Calls' : CallAt(x)'.op = op /\ x # <<t, n>> =>
        /\ x \in Calls /\ CallAt(x).op = op /\ CallAt(x).ref = CallAt(x)'.ref
        /\ CallAt(x).ref # work'[t][n].ref
  BY DEF Calls, CallAt
<1>2. CallAt(<<t, n>>)' = work'[t][n]
  BY DEF CallAt
<1> QED
  BY <1>1, <1>2 DEF Alone

\* Contents that are kept; those that are not had no reference from a field.
LEMMA FieldsOKKept ==
  ASSUME IInv, TypeOK',
         \A c \in Cell : Keeps(c),
         \A c \in Cell : \A i \in DOMAIN cells[c].fields : Dropped(c, i) => Dropped(c, i)'
  PROVE  FieldsOK'
<1> SUFFICES ASSUME NEW c \in Cell
             PROVE  /\ ~Used(c)' => cells'[c] = Unused
                    /\ cells'[c].from \notin Kind
                    /\ cells'[c].from \in Var => cells'[c].fields = <<>>
                    /\ cells'[c].from \in Literal =>
                         Len(cells'[c].fields) = Len(Captures[cells'[c].from])
                    /\ \A i \in DOMAIN cells'[c].fields :
                         LET d == cells'[c].fields[i] IN
                         d \in Cell /\ ~Dropped(c, i)' /\ Captures[cells'[c].from][i] \in Var
                           => cells'[d].from \in Var
  BY DEF FieldsOK, ContentOK
<1>1. Keeps(c)
  OBVIOUS
<1>2. ~Used(c)' => cells'[c] = Unused
  <2> SUFFICES ASSUME ~Used(c)' PROVE cells'[c] = Unused
    OBVIOUS
  <2>1. cells[c] = Unused
    BY <1>1 DEF Keeps, Used, IInv, FieldsOK, ContentOK
  <2>2. cells'[c] \in Content
    BY DEF TypeOK
  <2> QED
    BY <1>1, <2>1, <2>2 DEF Keeps, Unused, Content
<1>3. \A d \in Cell : cells'[d].from = cells[d].from
  BY DEF Keeps
<1> QED
  BY <1>1, <1>2, <1>3 DEF Keeps, IInv, FieldsOK, ContentOK

\* Steps that at most change counts leave the fields and their references.
LEMMA OnlyCountsMove ==
  ASSUME IInv, TypeOK', \A c \in Cell : Keeps(c), \A k \in Holder : cells'[k] = cells[k],
         \A c, i : Dropped(c, i)' <=> Dropped(c, i)
  PROVE  /\ FieldsOK' /\ HoldersOK'
         /\ \A t \in Thread, n \in Nat : Spares(t, n)
         /\ \A c : FieldsOn(c)' = FieldsOn(c)
<1>1. FieldsOK'
  BY FieldsOKKept
<1>2. HoldersOK'
  BY DEF IInv, HoldersOK
<1>3. \A t \in Thread, n \in Nat : Spares(t, n)
  BY DEF Spares, Relies, Keeps
<1>4. \A d \in Cell \cup Holder : cells'[d].fields = cells[d].fields
  BY DEF Keeps
<1>5. ASSUME NEW c PROVE FieldsOn(c)' = FieldsOn(c)
  BY <1>4, FieldsSame DEF FieldOn
<1> QED
  BY <1>1, <1>2, <1>3, <1>5

LEMMA AskedKept ==
  ASSUME TypeOK, NEW t \in Thread, NEW n \in Nat, NEW m \in Nat, OnlyTop(t, n),
         DOMAIN work[t] = 1 .. n, DOMAIN work'[t] = 1 .. m, m >= n - 1,
         n = 1 => work[t][n].op # "restore",
         n <= 1 /\ m >= 1 => work'[t][1].op # "restore",
         NEW u \in Thread
  PROVE  Asked(u)' = Asked(u)
<1>1. CASE u # t
  BY <1>1 DEF OnlyTop, Asked
<1>2. CASE u = t /\ n >= 2
  <2>1. work'[t][1] = work[t][1] /\ 1 \in DOMAIN work[t] /\ 1 \in DOMAIN work'[t]
    BY <1>2 DEF OnlyTop
  <2>2. work[t] # <<>> /\ work'[t] # <<>>
    BY <2>1
  <2> QED
    BY <1>2, <2>1, <2>2 DEF Asked
<1>3. CASE u = t /\ n < 2
  <2>1. work[t] # <<>> => n = 1
    BY <1>3, StackTop
  <2>2. work'[t] # <<>> => m >= 1
    <3>1. work'[t] \in Seq(RuntimeCall)
      BY DEF OnlyTop
    <3> QED
      BY <3>1, EmptySeq, LenProperties
  <2>3. Asked(t) = Nil
    BY <2>1 DEF Asked
  <2>4. Asked(t)' = Nil
    BY <1>3, <2>2 DEF Asked
  <2> QED
    BY <1>3, <2>3, <2>4
<1> QED
  BY <1>1, <1>2, <1>3

\* Copies that go on were made by the allocator that is still asked for.
LEMMA AllocatorsKept ==
  ASSUME CopiesUseAllocator, override' = override,
         \A u \in Thread : Asked(u)' = Asked(u),
         \A u \in Thread : \A k \in DOMAIN work'[u] : work'[u][k].op = "keep" =>
           \/ /\ k \in DOMAIN work[u] /\ work[u][k].op = "keep"
              /\ work[u][k].ref = work'[u][k].ref
              /\ cells'[work[u][k].ref].by = cells[work[u][k].ref].by
           \/ cells'[work'[u][k].ref].by = override[u]
  PROVE  CopiesUseAllocator'
<1> SUFFICES ASSUME NEW u \in Thread
             PROVE  /\ override'[u] = Asked(u)'
                    /\ \A k \in DOMAIN work'[u] :
                         work'[u][k].op = "keep" => cells'[work'[u][k].ref].by = Asked(u)'
  BY DEF CopiesUseAllocator, Asked
<1>1. override[u] = Asked(u) /\ \A k \in DOMAIN work[u] :
        work[u][k].op = "keep" => cells[work[u][k].ref].by = Asked(u)
  BY DEF CopiesUseAllocator, Asked
<1> QED
  BY <1>1
-----------------------------------------------------------------------------
(* Assignments to what is allocated *)

LEMMA CountUpdate ==
  ASSUME NEW f \in [Cell \cup Holder -> Content], NEW c \in Cell, NEW r \in 0 .. Latch,
         NEW g, g = [f EXCEPT ![c].rc = r]
  PROVE  /\ g \in [Cell \cup Holder -> Content]
         /\ g[c].from = f[c].from /\ g[c].fields = f[c].fields
         /\ g[c].by = f[c].by /\ g[c].rc = r
         /\ \A d \in Cell \cup Holder : d # c => g[d] = f[d]
<1> PICK kind : kind = Literal \cup Var \cup Kind \cup {Nil}
  OBVIOUS
<1> PICK fld : fld = Seq(Item)
  OBVIOUS
<1> PICK allocs : allocs = Allocator \cup {Nil}
  OBVIOUS
<1>1. Content = [from : kind, rc : 0 .. Latch, fields : fld, by : allocs]
  BY DEF Content
<1>2. f[c] \in [from : kind, rc : 0 .. Latch, fields : fld, by : allocs]
  BY <1>1
<1>3. PICK new : new = [f[c] EXCEPT !.rc = r]
  OBVIOUS
<1>4. /\ new \in [from : kind, rc : 0 .. Latch, fields : fld, by : allocs]
      /\ new.from = f[c].from /\ new.fields = f[c].fields
      /\ new.by = f[c].by /\ new.rc = r
  BY <1>2, <1>3
<1>5. g = [f EXCEPT ![c] = new]
  BY <1>3
<1>6. new \in Content
  BY <1>1, <1>4
<1>7. /\ g \in [Cell \cup Holder -> Content] /\ g[c] = new
      /\ \A d \in Cell \cup Holder : d # c => g[d] = f[d]
  BY <1>5, <1>6
<1> QED
  BY <1>4, <1>7

LEMMA CountSet ==
  ASSUME TypeOK, NEW c \in Cell, NEW r \in 0 .. Latch, cells' = [cells EXCEPT ![c].rc = r]
  PROVE  /\ cells' \in [Cell \cup Holder -> Content]
         /\ cells'[c].from = cells[c].from /\ cells'[c].fields = cells[c].fields
         /\ cells'[c].by = cells[c].by /\ cells'[c].rc = r
         /\ \A d \in Cell \cup Holder : d # c => cells'[d] = cells[d]
<1>1. cells \in [Cell \cup Holder -> Content]
  BY DEF TypeOK
<1>2. PICK g : g = [cells EXCEPT ![c].rc = r]
  OBVIOUS
<1>3. /\ g \in [Cell \cup Holder -> Content]
      /\ g[c].from = cells[c].from /\ g[c].fields = cells[c].fields
      /\ g[c].by = cells[c].by /\ g[c].rc = r
      /\ \A d \in Cell \cup Holder : d # c => g[d] = cells[d]
  BY <1>1, <1>2, CountUpdate
<1> QED
  BY <1>2, <1>3

LEMMA Bounds ==
  ASSUME NEW r \in 0 .. Latch
  PROVE  Incr(r) \in 0 .. Latch /\ Decr(r) \in 0 .. Latch /\ (r > 0 => Incr(r) > 0)
BY Distinct DEF Incr, Decr
-----------------------------------------------------------------------------
(* The program: copies, retains, enters a frame *)

LEMMA CountNone ==
  ASSUME TypeOK, NEW t \in Thread, NEW n \in Nat, NEW m \in Nat, OnlyTop(t, n),
         DOMAIN work[t] = 1 .. n, DOMAIN work'[t] = 1 .. m, m >= n - 1, NEW c,
         n > 0 => ~Counts(work[t][n], c),
         \A k \in 1 .. m : k >= n => ~Counts(work'[t][k], c)
  PROVE  CallsOn(c)' = CallsOn(c)
<1>1. CallsOn(c)' = (CallsOn(c) \ {<<t, n>>})
                     \cup {<<t, k>> : k \in {j \in n .. m : j > 0 /\ Counts(work'[t][j], c)}}
  BY CallsOnAfter
<1>2. <<t, n>> \notin CallsOn(c)
  BY TopCounts
<1>3. {j \in n .. m : j > 0 /\ Counts(work'[t][j], c)} = {}
  OBVIOUS
<1> QED
  BY <1>1, <1>2, <1>3

\* A thread that was in no call begins calls that have no reference to a block
\* of the heap yet.
LEMMA Begins ==
  ASSUME IInv, NEW t \in Thread, work[t] = <<>>, NEW s \in Seq(RuntimeCall),
         work' = [work EXCEPT ![t] = s],
         \A k \in DOMAIN s : s[k].op \notin {"keep", "dispose", "empty"}
  PROVE  /\ OnlyTop(t, 0) /\ work'[t] = s
         /\ Len(s) \in Nat /\ DOMAIN work[t] = 1 .. 0 /\ DOMAIN work'[t] = 1 .. Len(s)
         /\ work' \in [Thread -> Seq(RuntimeCall)]
         /\ \A c : DisposesOf(c)' = DisposesOf(c)
         /\ \A c, i : Dropped(c, i)' <=> Dropped(c, i)
         /\ Alone("keep")' /\ Alone("dispose")'
         /\ \A c : (\A k \in DOMAIN s : ~Counts(s[k], c)) => CallsOn(c)' = CallsOn(c)
         /\ (s # <<>> => s[1].op # "restore") => \A u \in Thread : Asked(u)' = Asked(u)
<1>0. TypeOK
  BY DEF IInv
<1>1. /\ OnlyTop(t, 0) /\ work'[t] = s /\ DOMAIN work[t] = 1 .. 0 /\ DOMAIN work'[t] = 1 .. Len(s)
      /\ Len(s) \in Nat /\ (Len(s) >= 1 => s # <<>>)
      /\ DOMAIN s = 1 .. Len(s)
  <2>1. OnlyTop(t, 0) /\ work'[t] = s /\ DOMAIN work[t] = 1 .. 0 /\ DOMAIN work'[t] = 1 .. Len(s)
    BY <1>0, Begun
  <2>2. Len(s) \in Nat /\ DOMAIN s = 1 .. Len(s)
    BY LenProperties
  <2>3. Len(s) >= 1 => s # <<>>
    BY EmptySeq
  <2> QED
    BY <2>1, <2>2, <2>3
<1>2. work' \in [Thread -> Seq(RuntimeCall)]
  BY <1>0 DEF TypeOK
<1>3. /\ \A c : DisposesOf(c)' = DisposesOf(c)
      /\ \A c, i : Dropped(c, i)' <=> Dropped(c, i)
  BY <1>0, <1>1, NoDisposeChanges
<1>4. \A op \in {"keep", "dispose"} :
        \A u \in Thread : \A k \in DOMAIN work'[u] : work'[u][k].op = op =>
           k \in DOMAIN work[u] /\ work[u][k].op = op /\ work[u][k].ref = work'[u][k].ref
  BY <1>1 DEF OnlyTop
<1>5. Alone("keep")' /\ Alone("dispose")'
  BY <1>4, AloneKept DEF IInv
<1>6. ASSUME NEW c, \A k \in DOMAIN s : ~Counts(s[k], c) PROVE CallsOn(c)' = CallsOn(c)
  BY <1>0, <1>1, <1>6, CountNone
<1>7. ASSUME s # <<>> => s[1].op # "restore", NEW u \in Thread PROVE Asked(u)' = Asked(u)
  BY <1>0, <1>1, <1>7, AskedKept
<1> QED
  BY <1>1, <1>2, <1>3, <1>5, <1>6, <1>7

LEMMA SameCells ==
  ASSUME IInv, TypeOK', cells' = cells, \A c, i : Dropped(c, i)' <=> Dropped(c, i)
  PROVE  /\ FieldsOK' /\ HoldersOK'
         /\ \A t \in Thread, n \in Nat : Spares(t, n)
         /\ \A c : FieldsOn(c)' = FieldsOn(c)
<1>1. \A c \in Cell : Keeps(c)
  BY DEF Keeps
<1>2. \A k \in Holder : cells'[k] = cells[k]
  OBVIOUS
<1> QED
  BY <1>1, <1>2, OnlyCountsMove

LEMMA CopyStep ==
  ASSUME IInv, NEW t \in Thread, NEW b \in Literal, NEW a \in Allocator \cup {Nil}, Copy(t, b, a)
  PROVE  IInv'
<1>1. PICK copy : copy = Call("copy", b, 0, Nil)
  OBVIOUS
<1>2. PICK restore : restore = Call("restore", override[t], 0, a)
  OBVIOUS
<1>3. PICK s : s = IF a = Nil THEN <<copy>> ELSE <<restore, copy>>
  OBVIOUS
<1>4. TypeOK /\ work[t] = <<>> /\ override[t] = Nil
  BY DEF Copy, IInv, CopiesUseAllocator
<1>5. copy \in RuntimeCall /\ (a # Nil => restore \in RuntimeCall)
  BY <1>1, <1>2, <1>4 DEF RuntimeCall, Call, Item
<1>6. /\ s \in Seq(RuntimeCall) /\ s # <<>>
      /\ DOMAIN s = IF a = Nil THEN 1 .. 1 ELSE 1 .. 2
      /\ s[1] = IF a = Nil THEN copy ELSE restore
      /\ a # Nil => s[2] = copy
  <2>1. CASE a = Nil
    BY <1>3, <1>5, <2>1
  <2>2. CASE a # Nil
    BY <1>3, <1>5, <2>2
  <2> QED
    BY <2>1, <2>2
<1>7. /\ copy.op = "copy" /\ copy.ref = b /\ copy.into = Nil
      /\ restore.op = "restore" /\ restore.ref = Nil /\ restore.into = a
  BY <1>1, <1>2, <1>4 DEF Call
<1>8. /\ \A k \in DOMAIN s : s[k].op \notin {"keep", "dispose", "empty"}
      /\ \A k \in DOMAIN s : \A c : ~Counts(s[k], c)
  BY <1>6, <1>7 DEF Counts
<1>9. /\ work' = [work EXCEPT ![t] = s]
      /\ override' = IF a = Nil THEN override ELSE [override EXCEPT ![t] = a]
      /\ UNCHANGED <<cells, forward, open, held>>
  BY <1>1, <1>2, <1>3 DEF Copy
<1>10. /\ OnlyTop(t, 0) /\ work'[t] = s
       /\ Len(s) \in Nat /\ DOMAIN work[t] = 1 .. 0 /\ DOMAIN work'[t] = 1 .. Len(s)
       /\ work' \in [Thread -> Seq(RuntimeCall)]
       /\ \A c : DisposesOf(c)' = DisposesOf(c)
       /\ \A c, i : Dropped(c, i)' <=> Dropped(c, i)
       /\ Alone("keep")' /\ Alone("dispose")'
       /\ \A c : CallsOn(c)' = CallsOn(c)
  <2>1. work' = [work EXCEPT ![t] = s]
    BY <1>9
  <2>2. /\ OnlyTop(t, 0) /\ work'[t] = s
        /\ Len(s) \in Nat /\ DOMAIN work[t] = 1 .. 0 /\ DOMAIN work'[t] = 1 .. Len(s)
        /\ work' \in [Thread -> Seq(RuntimeCall)]
        /\ \A c : DisposesOf(c)' = DisposesOf(c)
        /\ \A c, i : Dropped(c, i)' <=> Dropped(c, i)
        /\ Alone("keep")' /\ Alone("dispose")'
        /\ \A c : (\A k \in DOMAIN s : ~Counts(s[k], c)) => CallsOn(c)' = CallsOn(c)
    BY <1>4, <1>6, <1>8, <2>1, Begins
  <2>3. \A c : CallsOn(c)' = CallsOn(c)
    BY <1>8, <2>2
  <2> QED
    BY <2>2, <2>3
<1>11. TypeOK'
  BY <1>4, <1>9, <1>10 DEF TypeOK
<1>12. /\ FieldsOK' /\ HoldersOK'
       /\ \A n \in Nat : Spares(t, n)
       /\ \A c : FieldsOn(c)' = FieldsOn(c)
  BY <1>9, <1>10, <1>11, SameCells
<1>13. CallsOK'
  <2>1. ASSUME NEW u \in Thread, NEW k \in DOMAIN work'[u], u # t PROVE CallOK(u, k)'
    <3>1. DOMAIN work'[t] \subseteq Nat \ {0}
      BY <1>10
    <3> QED
      BY <1>10, <1>12, <2>1, <3>1, OthersOK
  <2>2. ASSUME NEW k \in DOMAIN work'[t] PROVE CallOK(t, k)'
    <3>1. work'[t][k] = copy \/ (work'[t][k] = restore /\ k = 1 /\ a # Nil)
      BY <1>6, <1>10, <2>2, LenProperties
    <3> QED
      BY <1>7, <3>1 DEF CallOK, CopyOK, RestoreOK
  <2> QED
    BY <2>1, <2>2 DEF CallsOK
<1>14. ForwardOK'
  BY <1>9 DEF IInv, ForwardOK
<1>15. /\ Finite' /\ HeapCountsExact' /\ ZeroDisposed'
  <2>1. \A c \in Cell : VarsOn(c)' = VarsOn(c)
    BY <1>9 DEF VarsOn
  <2>2. \A c \in Cell : References(c)' = References(c)
    BY <1>9, <1>10, <1>12, <2>1 DEF References
  <2>3. HeapCountsExact'
    BY <1>9, <2>2 DEF IInv, HeapCountsExact, Used
  <2> QED
    BY <1>9, <1>10, <1>12, <2>3 DEF IInv, Finite, ZeroDisposed, Used
<1>16. CopiesUseAllocator'
  <2> SUFFICES ASSUME NEW u \in Thread
               PROVE  /\ override'[u] = Asked(u)'
                      /\ \A k \in DOMAIN work'[u] :
                           work'[u][k].op = "keep" => cells'[work'[u][k].ref].by = Asked(u)'
    BY DEF CopiesUseAllocator, Asked
  <2>1. override[u] = Asked(u) /\ \A k \in DOMAIN work[u] :
          work[u][k].op = "keep" => cells[work[u][k].ref].by = Asked(u)
    BY DEF IInv, CopiesUseAllocator, Asked
  <2>2. CASE u # t
    <3>1. work'[u] = work[u] /\ Asked(u)' = Asked(u) /\ override'[u] = override[u]
      BY <1>4, <1>9, <1>10, <2>2 DEF OnlyTop, Asked, TypeOK
    <3> QED
      BY <1>9, <2>1, <3>1
  <2>3. CASE u = t
    <3>1. \A k \in DOMAIN work'[t] : work'[t][k].op # "keep"
      BY <1>6, <1>8, <1>10, LenProperties
    <3>2. Asked(t)' = a
      BY <1>6, <1>7, <1>10 DEF Asked
    <3>3. override'[t] = a
      BY <1>4, <1>9 DEF TypeOK
    <3> QED
      BY <2>3, <3>1, <3>2, <3>3
  <2> QED
    BY <2>2, <2>3
<1> QED
  BY <1>10, <1>11, <1>12, <1>13, <1>14, <1>15, <1>16 DEF IInv
-----------------------------------------------------------------------------
(* What most steps have in common *)

\* After a step of t the calls that were there find what they rely on: those it
\* has put in the place of its innermost call are left to look at.
LEMMA CallsGoOn ==
  ASSUME IInv, NEW t \in Thread, NEW n \in Nat, NEW m \in Nat, OnlyTop(t, n),
         1 .. n - 1 \subseteq DOMAIN work[t], DOMAIN work'[t] = 1 .. m, Spares(t, n),
         \A k \in n .. m : k > 0 => CallOK(t, k)'
  PROVE  CallsOK'
<1> SUFFICES ASSUME NEW u \in Thread, NEW k \in DOMAIN work'[u] PROVE CallOK(u, k)'
  BY DEF CallsOK
<1>1. CASE u = t => k < n
  <2>1. DOMAIN work'[t] \subseteq Nat \ {0}
    OBVIOUS
  <2> QED
    BY <1>1, <2>1, OthersOK
<1>2. CASE u = t /\ k >= n
  BY <1>2
<1> QED
  BY <1>1, <1>2

LEMMA AllocatorsGoOn ==
  ASSUME IInv, NEW t \in Thread, NEW n \in Nat, NEW m \in Nat, OnlyTop(t, n),
         1 .. n - 1 \subseteq DOMAIN work[t], DOMAIN work'[t] = 1 .. m, Spares(t, n),
         override' = override, \A u \in Thread : Asked(u)' = Asked(u),
         \A k \in n .. m : k > 0 /\ work'[t][k].op = "keep" =>
           cells'[work'[t][k].ref].by = override[t]
  PROVE  CopiesUseAllocator'
<1>1. ASSUME NEW u \in Thread, NEW k \in DOMAIN work'[u], work'[u][k].op = "keep"
      PROVE  \/ /\ k \in DOMAIN work[u] /\ work[u][k].op = "keep"
                /\ work[u][k].ref = work'[u][k].ref
                /\ cells'[work[u][k].ref].by = cells[work[u][k].ref].by
             \/ cells'[work'[u][k].ref].by = override[u]
  <2>1. CASE u = t => k < n
    <3>1. k \in DOMAIN work[u] /\ work'[u][k] = work[u][k]
      BY <2>1 DEF OnlyTop
    <3>2. CallOK(u, k)
      BY <3>1 DEF IInv, CallsOK
    <3>3. Relies(work[u][k])
      BY <1>1, <3>1, <3>2 DEF CallOK, KeepOK, Relies
    <3>4. Keeps(work[u][k].ref)
      BY <2>1, <3>1, <3>3 DEF Spares
    <3> QED
      BY <1>1, <3>1, <3>4 DEF Keeps
  <2>2. CASE u = t /\ k >= n
    BY <1>1, <2>2
  <2> QED
    BY <2>1, <2>2
<1>2. CopiesUseAllocator
  BY DEF IInv
<1> QED
  BY <1>1, <1>2, AllocatorsKept

\* No call that makes or disposes of a block is begun.
LEMMA AloneGoesOn ==
  ASSUME IInv, NEW t \in Thread, NEW n \in Nat, NEW m \in Nat, OnlyTop(t, n),
         DOMAIN work[t] = 1 .. n, DOMAIN work'[t] = 1 .. m,
         NEW op \in {"keep", "dispose"},
         \A k \in n .. m : k > 0 /\ work'[t][k].op = op => k = n /\ GoesOn(t, n)
  PROVE  Alone(op)'
<1>1. ASSUME NEW u \in Thread, NEW k \in DOMAIN work'[u], work'[u][k].op = op
      PROVE  k \in DOMAIN work[u] /\ work[u][k].op = op /\ work[u][k].ref = work'[u][k].ref
  <2>1. CASE u = t => k < n
    BY <1>1, <2>1 DEF OnlyTop
  <2>2. CASE u = t /\ k >= n
    BY <1>1, <2>2 DEF GoesOn
  <2> QED
    BY <2>1, <2>2
<1>2. Alone(op)
  BY DEF IInv
<1> QED
  BY <1>1, <1>2, AloneKept

LEMMA WorkTyped ==
  ASSUME IInv, NEW t \in Thread, NEW n \in Nat, OnlyTop(t, n), NEW s,
         work' = [work EXCEPT ![t] = s]
  PROVE  work' \in [Thread -> Seq(RuntimeCall)]
BY DEF OnlyTop, IInv, TypeOK

\* The thread returns from its innermost call, which did not dispose of a block.
LEMMA ReturnStep ==
  ASSUME IInv, NEW t \in Thread, work[t] # <<>>, NEW n, n = Len(work[t]),
         work[t][n].op \notin {"dispose", "empty"}, Return(t)
  PROVE  /\ n \in Nat \ {0} /\ n - 1 \in Nat /\ OnlyTop(t, n)
         /\ DOMAIN work[t] = 1 .. n /\ DOMAIN work'[t] = 1 .. n - 1
         /\ work' \in [Thread -> Seq(RuntimeCall)]
         /\ \A c : DisposesOf(c)' = DisposesOf(c)
         /\ \A c, i : Dropped(c, i)' <=> Dropped(c, i)
         /\ Alone("keep")' /\ Alone("dispose")'
         /\ \A c \in Cell :
              /\ IsFiniteSet(CallsOn(c)')
              /\ Cardinality(CallsOn(c)') = Cardinality(CallsOn(c)) - N(Counts(work[t][n], c))
         /\ work[t][n].op # "restore" => \A u \in Thread : Asked(u)' = Asked(u)
<1>1. TypeOK
  BY DEF IInv
<1>2. /\ n \in Nat \ {0} /\ n - 1 \in Nat /\ OnlyTop(t, n)
      /\ DOMAIN work[t] = 1 .. n /\ DOMAIN work'[t] = 1 .. n - 1
  BY <1>1, Returned
<1>3. work' \in [Thread -> Seq(RuntimeCall)]
  BY <1>2, WorkTyped DEF Return
<1>4. /\ \A c : DisposesOf(c)' = DisposesOf(c)
      /\ \A c, i : Dropped(c, i)' <=> Dropped(c, i)
  BY <1>1, <1>2, NoDisposeChanges
<1>5. Alone("keep")' /\ Alone("dispose")'
  BY <1>2, AloneGoesOn
<1>6. ASSUME NEW c \in Cell
      PROVE  /\ IsFiniteSet(CallsOn(c)')
             /\ Cardinality(CallsOn(c)') = Cardinality(CallsOn(c)) - N(Counts(work[t][n], c))
  <2>1. IsFiniteSet(CallsOn(c))
    BY Sums
  <2> QED
    BY <1>1, <1>2, <2>1, CountReturn
<1>7. ASSUME work[t][n].op # "restore", NEW u \in Thread PROVE Asked(u)' = Asked(u)
  BY <1>1, <1>2, <1>7, AskedKept
<1> QED
  BY <1>2, <1>3, <1>4, <1>5, <1>6, <1>7

\* The innermost call goes on, with at most one call in it that is not of a
\* block that is made or disposed of.
LEMMA GoOnStep ==
  ASSUME IInv, NEW t \in Thread, work[t] # <<>>, NEW n, n = Len(work[t]),
         work[t][n].op \notin {"dispose", "empty", "restore"}, Advance(t, <<>>)
  PROVE  /\ n \in Nat \ {0} /\ OnlyTop(t, n) /\ GoesOn(t, n)
         /\ DOMAIN work[t] = 1 .. n /\ DOMAIN work'[t] = 1 .. n
         /\ work' \in [Thread -> Seq(RuntimeCall)]
         /\ \A c : DisposesOf(c)' = DisposesOf(c)
         /\ \A c, i : Dropped(c, i)' <=> Dropped(c, i)
         /\ Alone("keep")' /\ Alone("dispose")'
         /\ \A c \in Cell : CallsOn(c)' = CallsOn(c)
         /\ \A u \in Thread : Asked(u)' = Asked(u)
<1>1. TypeOK
  BY DEF IInv
<1>2. /\ n \in Nat \ {0} /\ OnlyTop(t, n) /\ GoesOn(t, n)
      /\ DOMAIN work[t] = 1 .. n /\ DOMAIN work'[t] = 1 .. n
  BY <1>1, AdvancedAlone
<1>3. work' \in [Thread -> Seq(RuntimeCall)]
  BY <1>2, WorkTyped DEF Advance
<1>4. work'[t][n].op = work[t][n].op
  BY <1>2 DEF GoesOn
<1>5. /\ \A c : DisposesOf(c)' = DisposesOf(c)
      /\ \A c, i : Dropped(c, i)' <=> Dropped(c, i)
  <2>1. \A k \in 1 .. n : k >= n => work'[t][k].op \notin {"dispose", "empty"}
    BY <1>4
  <2> QED
    BY <1>1, <1>2, <2>1, NoDisposeChanges
<1>6. Alone("keep")' /\ Alone("dispose")'
  <2>1. \A k \in n .. n : k = n /\ GoesOn(t, n)
    BY <1>2
  <2> QED
    BY <1>2, <2>1, AloneGoesOn
<1>7. \A c \in Cell : CallsOn(c)' = CallsOn(c)
  BY <1>1, <1>2, CountGoOn
<1>8. ASSUME NEW u \in Thread PROVE Asked(u)' = Asked(u)
  <2>1. n <= 1 /\ n >= 1 => work'[t][1].op # "restore"
    BY <1>2, <1>4
  <2> QED
    BY <1>1, <1>2, <2>1, AskedKept
<1> QED
  BY <1>2, <1>3, <1>5, <1>6, <1>7, <1>8
LEMMA WorkStays ==
  ASSUME IInv, NEW t \in Thread, work[t] = <<>>, work' = work
  PROVE  /\ OnlyTop(t, 0) /\ DOMAIN work[t] = 1 .. 0 /\ DOMAIN work'[t] = 1 .. 0
         /\ \A c : DisposesOf(c)' = DisposesOf(c)
         /\ \A c, i : Dropped(c, i)' <=> Dropped(c, i)
         /\ Alone("keep")' /\ Alone("dispose")'
         /\ \A c : CallsOn(c)' = CallsOn(c)
         /\ \A u \in Thread : Asked(u)' = Asked(u)
<1>1. PICK s : s = <<>>
  OBVIOUS
<1>2. s \in Seq(RuntimeCall) /\ DOMAIN s = {} /\ Len(s) = 0
  BY <1>1
<1>3. work' = [work EXCEPT ![t] = s]
  BY <1>1 DEF IInv, TypeOK
<1>4. /\ OnlyTop(t, 0)
      /\ DOMAIN work[t] = 1 .. 0 /\ DOMAIN work'[t] = 1 .. Len(s)
      /\ \A c : DisposesOf(c)' = DisposesOf(c)
      /\ \A c, i : Dropped(c, i)' <=> Dropped(c, i)
      /\ Alone("keep")' /\ Alone("dispose")'
      /\ \A c : (\A k \in DOMAIN s : ~Counts(s[k], c)) => CallsOn(c)' = CallsOn(c)
      /\ (s # <<>> => s[1].op # "restore") => \A u \in Thread : Asked(u)' = Asked(u)
  BY <1>2, <1>3, Begins
<1>5. \A c : CallsOn(c)' = CallsOn(c)
  BY <1>2, <1>4
<1>6. \A u \in Thread : Asked(u)' = Asked(u)
  BY <1>1, <1>4
<1> QED
  BY <1>2, <1>4, <1>5, <1>6

Exact(c) == IF Used(c) THEN cells[c].rc \in {References(c), Latch} ELSE References(c) = 0

LEMMA SameCount ==
  ASSUME IInv, NEW c \in Cell, References(c)' = References(c),
         cells'[c].from = cells[c].from, cells'[c].rc = cells[c].rc
  PROVE  Exact(c)'
BY DEF IInv, HeapCountsExact, Exact, Used

LEMMA OneMore ==
  ASSUME IInv, NEW c \in Cell, References(c) > 0, References(c)' = References(c) + 1,
         cells'[c].from = cells[c].from, cells'[c].rc = Incr(cells[c].rc)
  PROVE  Exact(c)' /\ cells'[c].rc > 0
<1>1. Used(c) /\ cells[c].rc \in {References(c), Latch}
  BY Sums DEF IInv, HeapCountsExact
<1> QED
  BY <1>1, Sums, Distinct DEF Incr, Exact, Used

LEMMA OneLess ==
  ASSUME IInv, NEW c \in Cell, References(c) > 0, References(c)' = References(c) - 1,
         cells'[c].from = cells[c].from, cells'[c].rc = Decr(cells[c].rc)
  PROVE  Exact(c)'
<1>1. Used(c) /\ cells[c].rc \in {References(c), Latch}
  BY Sums DEF IInv, HeapCountsExact
<1> QED
  BY <1>1, Sums, Distinct DEF Decr, Exact, Used

\* A block without references goes on being disposed of.
LEMMA ZerosKept ==
  ASSUME IInv, NEW c \in Cell, cells'[c].from = cells[c].from,
         cells'[c].rc = cells[c].rc, DisposesOf(c) # {} => DisposesOf(c)' # {},
         Used(c)', cells'[c].rc = 0
  PROVE  DisposesOf(c)' # {}
BY DEF IInv, ZeroDisposed, Used

\* What is to be shown of an allocation after a step
CellOK(d) ==
  /\ IsFiniteSet(CallsOn(d)) /\ IsFiniteSet(FieldsOn(d))
  /\ Exact(d) /\ (Used(d) /\ cells[d].rc = 0 => DisposesOf(d) # {})

LEMMA Whole ==
  ASSUME TypeOK', CallsOK', Alone("keep")', Alone("dispose")', FieldsOK', HoldersOK',
         ForwardOK', CopiesUseAllocator', \A d \in Cell : CellOK(d)'
  PROVE  IInv'
<1>1. Finite'
  BY DEF CellOK, Finite
<1>2. HeapCountsExact'
  BY DEF CellOK, HeapCountsExact, Exact
<1>3. ZeroDisposed'
  BY DEF CellOK, ZeroDisposed
<1> QED
  BY <1>1, <1>2, <1>3 DEF IInv

LEMMA ForwardKept ==
  ASSUME IInv, forward' = forward, \A d \in Cell : Keeps(d)
  PROVE  ForwardOK'
<1>1. \A v \in Var : forward[v] # Nil => forward[v] \in Cell
  BY DEF IInv, TypeOK
<1>2. \A d \in Cell : cells'[d].from = cells[d].from
  BY DEF Keeps
<1> QED
  BY <1>1, <1>2 DEF IInv, ForwardOK

LEMMA Balance ==
  ASSUME IInv, NEW c \in Cell, NEW v \in Int, NEW h \in Int, NEW x \in Int, NEW f \in Int,
         held'[c] = held[c] + h, Cardinality(VarsOn(c)') = Cardinality(VarsOn(c)) + v,
         Cardinality(CallsOn(c)') = Cardinality(CallsOn(c)) + x,
         Cardinality(FieldsOn(c)') = Cardinality(FieldsOn(c)) + f
  PROVE  References(c)' = References(c) + h + v + x + f
<1>1. References(c)' = held'[c] + Cardinality(VarsOn(c)')
                       + Cardinality(CallsOn(c)') + Cardinality(FieldsOn(c)')
  BY DEF References
<1> QED
  BY <1>1, Sums DEF References

LEMMA RetainStep ==
  ASSUME IInv, NEW t \in Thread, NEW c \in Cell, Retain(t, c)
  PROVE  IInv'
<1>0. TypeOK
  BY DEF IInv
<1>1. /\ work[t] = <<>> /\ held[c] > 0 /\ held' = [held EXCEPT ![c] = @ + 1]
      /\ cells' = [cells EXCEPT ![c].rc = Incr(@)]
      /\ work' = work /\ override' = override /\ forward' = forward /\ open' = open
  BY DEF Retain
<1>2. References(c) > 0 /\ cells[c].rc \in 1 .. Latch
  BY <1>1, Counted
<1>3. Incr(cells[c].rc) \in 0 .. Latch
  BY <1>2, Bounds
<1>4. /\ cells' \in [Cell \cup Holder -> Content]
      /\ cells'[c].from = cells[c].from /\ cells'[c].fields = cells[c].fields
      /\ cells'[c].by = cells[c].by /\ cells'[c].rc = Incr(cells[c].rc)
      /\ \A d \in Cell \cup Holder : d # c => cells'[d] = cells[d]
  <2>1. cells' = [cells EXCEPT ![c].rc = Incr(cells[c].rc)]
    BY <1>1
  <2> QED
    BY <1>0, <1>3, <2>1, CountSet
<1>5. \A d \in Cell : Keeps(d)
  BY <1>2, <1>4 DEF Keeps
<1>6. \A k \in Holder : cells'[k] = cells[k]
  BY <1>4, Distinct
<1>7. /\ OnlyTop(t, 0) /\ DOMAIN work[t] = 1 .. 0 /\ DOMAIN work'[t] = 1 .. 0
      /\ \A d : DisposesOf(d)' = DisposesOf(d)
      /\ \A d, i : Dropped(d, i)' <=> Dropped(d, i)
      /\ Alone("keep")' /\ Alone("dispose")'
      /\ \A d : CallsOn(d)' = CallsOn(d)
      /\ \A u \in Thread : Asked(u)' = Asked(u)
  BY <1>0, <1>1, WorkStays
<1>8. TypeOK'
  BY <1>0, <1>1, <1>4 DEF TypeOK
<1>9. /\ FieldsOK' /\ HoldersOK' /\ Spares(t, 0) /\ \A d : FieldsOn(d)' = FieldsOn(d)
  BY <1>5, <1>6, <1>7, <1>8, OnlyCountsMove
<1>10. CallsOK' /\ CopiesUseAllocator'
  BY <1>1, <1>7, <1>9, CallsGoOn, AllocatorsGoOn
<1>11. ForwardOK'
  BY <1>1, <1>5, ForwardKept
<1>12. ASSUME NEW d \in Cell
       PROVE  CellOK(d)'
  <2>1. VarsOn(d)' = VarsOn(d)
    BY <1>1 DEF VarsOn
  <2>2. References(d)' = References(d) + N(d = c)
    <3>1. held'[d] = held[d] + N(d = c)
      BY <1>0, <1>1 DEF TypeOK, N
    <3> QED
      BY <1>7, <1>9, <2>1, <3>1, Sums DEF References, N
  <2>3. CASE d = c
    BY <1>2, <1>4, <1>7, <1>9, <2>2, <2>3, OneMore, Sums DEF N, CellOK
  <2>4. CASE d # c
    <3>1. References(d)' = References(d) /\ cells'[d] = cells[d]
      BY <1>4, <2>2, <2>4, Sums DEF N
    <3> QED
      BY <1>7, <1>9, <3>1, SameCount, ZerosKept, Sums DEF CellOK
  <2> QED
    BY <2>3, <2>4
<1> QED
  BY <1>7, <1>8, <1>9, <1>10, <1>11, <1>12, Whole

LEMMA EnterFrameStep ==
  ASSUME IInv, NEW t \in Thread, EnterFrame(t)
  PROVE  IInv'
<1>0. TypeOK
  BY DEF IInv
<1>1. /\ work[t] = <<>> /\ open' = [open EXCEPT ![t] = TRUE]
      /\ cells' = cells /\ forward' = forward /\ held' = held
      /\ work' = work /\ override' = override
  BY DEF EnterFrame
<1>2. /\ OnlyTop(t, 0) /\ DOMAIN work[t] = 1 .. 0 /\ DOMAIN work'[t] = 1 .. 0
      /\ \A d : DisposesOf(d)' = DisposesOf(d)
      /\ \A d, i : Dropped(d, i)' <=> Dropped(d, i)
      /\ Alone("keep")' /\ Alone("dispose")'
      /\ \A d : CallsOn(d)' = CallsOn(d)
      /\ \A u \in Thread : Asked(u)' = Asked(u)
  BY <1>0, <1>1, WorkStays
<1>3. TypeOK'
  BY <1>0, <1>1 DEF TypeOK
<1>4. /\ FieldsOK' /\ HoldersOK' /\ Spares(t, 0) /\ \A d : FieldsOn(d)' = FieldsOn(d)
  BY <1>1, <1>2, <1>3, SameCells
<1>5. CallsOK' /\ CopiesUseAllocator'
  BY <1>1, <1>2, <1>4, CallsGoOn, AllocatorsGoOn
<1>6. ForwardOK'
  BY <1>1 DEF IInv, ForwardOK
<1>7. ASSUME NEW d \in Cell
      PROVE  CellOK(d)'
  <2>1. VarsOn(d)' = VarsOn(d)
    BY <1>1 DEF VarsOn
  <2>2. References(d)' = References(d)
    BY <1>1, <1>2, <1>4, <2>1 DEF References
  <2> QED
    BY <1>1, <1>2, <1>4, <2>2, SameCount, ZerosKept, Sums DEF CellOK
<1> QED
  BY <1>2, <1>3, <1>4, <1>5, <1>6, <1>7, Whole
-----------------------------------------------------------------------------
(* The program: releases. The ends of calls *)

LEMMA DoingCall ==
  ASSUME IInv, NEW t \in Thread, NEW op, Doing(t, op), NEW n, n = Len(work[t])
  PROVE  /\ work[t] # <<>> /\ n \in Nat \ {0} /\ DOMAIN work[t] = 1 .. n /\ n \in DOMAIN work[t]
         /\ work[t][n] \in RuntimeCall /\ work[t][n].op = op /\ Innermost(t) = work[t][n]
         /\ CallOK(t, n)
<1>1. TypeOK
  BY DEF IInv
<1>2. /\ work[t] # <<>> /\ n \in Nat \ {0} /\ DOMAIN work[t] = 1 .. n /\ n \in DOMAIN work[t]
      /\ work[t][n] \in RuntimeCall /\ work[t][n].op = op /\ Innermost(t) = work[t][n]
  BY <1>1, StackTop DEF Doing, Innermost
<1> QED
  BY <1>2 DEF IInv, CallsOK

LEMMA ReleaseStep ==
  ASSUME IInv, NEW t \in Thread, NEW c \in Cell, Release(t, c)
  PROVE  IInv'
<1>0. TypeOK
  BY DEF IInv
<1>1. PICK call : call = Call("release", c, 0, Nil)
  OBVIOUS
<1>2. PICK s : s = <<call>>
  OBVIOUS
<1>3. call.op = "release" /\ call.ref = c
  BY <1>1 DEF Call
<1>4. call \in RuntimeCall
  BY <1>1 DEF RuntimeCall, Call, Item
<1>5. s \in Seq(RuntimeCall) /\ Len(s) = 1 /\ DOMAIN s = 1 .. 1 /\ s[1] = call
  BY <1>2, <1>4
<1>6. /\ work[t] = <<>> /\ held[c] > 0 /\ held' = [held EXCEPT ![c] = @ - 1]
      /\ work' = [work EXCEPT ![t] = s]
      /\ cells' = cells /\ forward' = forward /\ open' = open /\ override' = override
  BY <1>0, <1>1, <1>2 DEF Release, TypeOK
<1>7. \A k \in DOMAIN s : s[k].op \notin {"keep", "dispose", "empty"}
  BY <1>3, <1>5
<1>8. s[1].op # "restore"
  BY <1>3, <1>5
<1>9. /\ OnlyTop(t, 0) /\ work'[t] = s
      /\ DOMAIN work[t] = 1 .. 0 /\ DOMAIN work'[t] = 1 .. 1
      /\ work' \in [Thread -> Seq(RuntimeCall)]
      /\ \A d : DisposesOf(d)' = DisposesOf(d)
      /\ \A d, i : Dropped(d, i)' <=> Dropped(d, i)
      /\ Alone("keep")' /\ Alone("dispose")'
      /\ \A u \in Thread : Asked(u)' = Asked(u)
  <2>1. /\ OnlyTop(t, 0) /\ work'[t] = s
        /\ DOMAIN work[t] = 1 .. 0 /\ DOMAIN work'[t] = 1 .. Len(s)
        /\ work' \in [Thread -> Seq(RuntimeCall)]
        /\ \A d : DisposesOf(d)' = DisposesOf(d)
        /\ \A d, i : Dropped(d, i)' <=> Dropped(d, i)
        /\ Alone("keep")' /\ Alone("dispose")'
        /\ (s # <<>> => s[1].op # "restore") => \A u \in Thread : Asked(u)' = Asked(u)
    BY <1>5, <1>6, <1>7, Begins
  <2> QED
    BY <1>5, <1>8, <2>1
<1>10. held'[c] = held[c] - 1 /\ \A d \in Cell : d # c => held'[d] = held[d]
  BY <1>0, <1>6 DEF TypeOK
<1>11. TypeOK'
  <2>1. held' \in [Cell -> Nat]
    BY <1>0, <1>6 DEF TypeOK
  <2> QED
    BY <1>0, <1>6, <1>9, <2>1 DEF TypeOK
<1>12. /\ FieldsOK' /\ HoldersOK' /\ Spares(t, 0) /\ \A d : FieldsOn(d)' = FieldsOn(d)
  BY <1>6, <1>9, <1>11, SameCells
<1>13. CallsOK'
  <2>1. CallOK(t, 1)'
    BY <1>3, <1>5, <1>9 DEF CallOK, Item
  <2>2. \A k \in 0 .. 1 : k > 0 => CallOK(t, k)'
    BY <2>1
  <2>3. 1 .. 0 - 1 \subseteq DOMAIN work[t]
    OBVIOUS
  <2> QED
    BY <1>9, <1>12, <2>2, <2>3, CallsGoOn
<1>14. CopiesUseAllocator'
  <2>1. \A k \in 0 .. 1 : k > 0 => work'[t][k].op # "keep"
    BY <1>3, <1>5, <1>9
  <2> QED
    BY <1>6, <1>9, <1>12, <2>1, AllocatorsGoOn
<1>15. ForwardOK'
  BY <1>6 DEF IInv, ForwardOK
<1>16. ASSUME NEW d \in Cell
       PROVE  CellOK(d)'
  <2>1. VarsOn(d)' = VarsOn(d)
    BY <1>6 DEF VarsOn
  <2>2. /\ IsFiniteSet(CallsOn(d)')
        /\ Cardinality(CallsOn(d)') = Cardinality(CallsOn(d)) + N(Counts(work'[t][1], d))
    <3>1. IsFiniteSet(CallsOn(d))
      BY Sums
    <3>2. 0 \in Nat /\ 1 = 0 + 1 /\ (0 > 0 => GoesOn(t, 0))
      OBVIOUS
    <3> QED
      BY <1>0, <1>9, <3>1, <3>2, CountInto
  <2>3. N(Counts(work'[t][1], d)) = IF d = c THEN 1 ELSE 0
    BY <1>3, <1>5, <1>9 DEF Counts, N
  <2>4. References(d)' = References(d)
    <3>1. held'[d] = held[d] - (IF d = c THEN 1 ELSE 0)
      BY <1>10, Sums
    <3> QED
      BY <1>12, <2>1, <2>2, <2>3, <3>1, Sums DEF References
  <2> QED
    BY <1>6, <1>9, <1>12, <2>2, <2>4, SameCount, ZerosKept, Sums DEF CellOK
<1> QED
  BY <1>9, <1>11, <1>12, <1>13, <1>14, <1>15, <1>16, Whole

LEMMA RestoreStep ==
  ASSUME IInv, NEW t \in Thread, Restore(t)
  PROVE  IInv'
<1>0. TypeOK
  BY DEF IInv
<1>1. PICK n : n = Len(work[t])
  OBVIOUS
<1>2. /\ work[t] # <<>> /\ n = 1 /\ work[t][n].op = "restore"
      /\ work[t][n].ref = Nil /\ Innermost(t) = work[t][n]
  <2>1. Doing(t, "restore")
    BY DEF Restore
  <2>2. /\ work[t] # <<>> /\ work[t][n].op = "restore"
        /\ Innermost(t) = work[t][n] /\ CallOK(t, n)
    BY <1>1, <2>1, DoingCall
  <2> QED
    BY <2>2 DEF CallOK, RestoreOK
<1>3. /\ Return(t) /\ override' = [override EXCEPT ![t] = Nil]
      /\ cells' = cells /\ forward' = forward /\ open' = open /\ held' = held
  BY <1>2 DEF Restore
<1>4. /\ OnlyTop(t, n) /\ n - 1 \in Nat
      /\ DOMAIN work[t] = 1 .. n /\ DOMAIN work'[t] = 1 .. n - 1
      /\ work' \in [Thread -> Seq(RuntimeCall)]
      /\ \A d : DisposesOf(d)' = DisposesOf(d)
      /\ \A d, i : Dropped(d, i)' <=> Dropped(d, i)
      /\ Alone("keep")' /\ Alone("dispose")'
      /\ \A d \in Cell :
           /\ IsFiniteSet(CallsOn(d)')
           /\ Cardinality(CallsOn(d)') = Cardinality(CallsOn(d)) - N(Counts(work[t][n], d))
  BY <1>1, <1>2, <1>3, ReturnStep
<1>5. TypeOK'
  BY <1>0, <1>3, <1>4 DEF TypeOK
<1>6. /\ FieldsOK' /\ HoldersOK' /\ Spares(t, n) /\ \A d : FieldsOn(d)' = FieldsOn(d)
  BY <1>2, <1>3, <1>4, <1>5, SameCells
<1>7. CallsOK'
  <2>1. n \in Nat /\ \A k \in n .. n - 1 : k > 0 => CallOK(t, k)'
    BY <1>2
  <2> QED
    BY <1>4, <1>6, <2>1, CallsGoOn
<1>8. ForwardOK'
  BY <1>3 DEF IInv, ForwardOK
<1>9. ASSUME NEW d \in Cell
      PROVE  CellOK(d)'
  <2>1. VarsOn(d)' = VarsOn(d)
    BY <1>3 DEF VarsOn
  <2>2. N(Counts(work[t][n], d)) = 0
    BY <1>2 DEF Counts, N
  <2>3. References(d)' = References(d)
    BY <1>3, <1>4, <1>6, <2>1, <2>2, Sums DEF References
  <2> QED
    BY <1>3, <1>4, <1>6, <2>3, SameCount, ZerosKept, Sums DEF CellOK
<1>10. CopiesUseAllocator'
  <2> SUFFICES ASSUME NEW u \in Thread
               PROVE  /\ override'[u] = Asked(u)'
                      /\ \A k \in DOMAIN work'[u] :
                           work'[u][k].op = "keep" => cells'[work'[u][k].ref].by = Asked(u)'
    BY DEF CopiesUseAllocator, Asked
  <2>1. override[u] = Asked(u) /\ \A k \in DOMAIN work[u] :
          work[u][k].op = "keep" => cells[work[u][k].ref].by = Asked(u)
    BY DEF IInv, CopiesUseAllocator, Asked
  <2>2. CASE u # t
    <3>1. work'[u] = work[u] /\ Asked(u)' = Asked(u) /\ override'[u] = override[u]
      BY <1>0, <1>3, <1>4, <2>2 DEF OnlyTop, Asked, TypeOK
    <3> QED
      BY <1>3, <2>1, <3>1
  <2>3. CASE u = t
    <3>1. DOMAIN work'[t] = {}
      BY <1>2, <1>4
    <3>2. work'[t] = <<>>
      <4>1. work'[t] \in Seq(RuntimeCall)
        BY <1>4
      <4>2. Len(work'[t]) = 0
        <5>1. Len(work'[t]) \in Nat /\ DOMAIN work'[t] = 1 .. Len(work'[t])
          BY <4>1, LenProperties
        <5>2. Len(work'[t]) > 0 => 1 \in DOMAIN work'[t]
          BY <5>1
        <5> QED
          BY <3>1, <5>1, <5>2
      <4>3. work'[t] # <<>> => Len(work'[t]) \in Nat \ {0}
        BY <4>1, EmptySeq
      <4> QED
        BY <4>2, <4>3
    <3>3. Asked(t)' = Nil
      BY <3>2 DEF Asked
    <3>4. override'[t] = Nil
      BY <1>0, <1>3 DEF TypeOK
    <3> QED
      BY <2>3, <3>1, <3>3, <3>4
  <2> QED
    BY <2>2, <2>3
<1> QED
  BY <1>4, <1>5, <1>6, <1>7, <1>8, <1>9, <1>10, Whole

\* A release of something that is not on the heap, or that has other references
LEMMA ReleaseReturns ==
  ASSUME IInv, NEW t \in Thread, NEW op \in {"release", "byref"}, Doing(t, op),
         NEW n, n = Len(work[t]), Return(t),
         UNCHANGED <<forward, open, held, override>>,
         cells' \in [Cell \cup Holder -> Content], \A d \in Cell : Keeps(d),
         \A k \in Holder : cells'[k] = cells[k],
         \A d \in Cell : cells'[d].rc =
           IF d = work[t][n].ref THEN Decr(cells[d].rc) ELSE cells[d].rc,
         work[t][n].ref \in Cell => Decr(cells[work[t][n].ref].rc) > 0
  PROVE  IInv'
<1>0. TypeOK
  BY DEF IInv
<1>1. /\ work[t] # <<>> /\ n \in Nat \ {0} /\ DOMAIN work[t] = 1 .. n /\ n \in DOMAIN work[t]
      /\ work[t][n].op = op
  BY DoingCall
<1>2. /\ OnlyTop(t, n) /\ n - 1 \in Nat /\ DOMAIN work'[t] = 1 .. n - 1
      /\ work' \in [Thread -> Seq(RuntimeCall)]
      /\ \A d : DisposesOf(d)' = DisposesOf(d)
      /\ \A d, i : Dropped(d, i)' <=> Dropped(d, i)
      /\ Alone("keep")' /\ Alone("dispose")'
      /\ \A d \in Cell :
           /\ IsFiniteSet(CallsOn(d)')
           /\ Cardinality(CallsOn(d)') = Cardinality(CallsOn(d)) - N(Counts(work[t][n], d))
      /\ \A u \in Thread : Asked(u)' = Asked(u)
  BY <1>1, ReturnStep
<1>3. forward' = forward /\ open' = open /\ held' = held /\ override' = override
  OBVIOUS
<1>4. TypeOK'
  BY <1>0, <1>2, <1>3 DEF TypeOK
<1>5. /\ FieldsOK' /\ HoldersOK' /\ Spares(t, n) /\ \A d : FieldsOn(d)' = FieldsOn(d)
  BY <1>1, <1>2, <1>4, OnlyCountsMove
<1>6. CallsOK' /\ CopiesUseAllocator'
  <2>1. n \in Nat /\ \A k \in n .. n - 1 : k > 0 => CallOK(t, k)'
    BY <1>1
  <2>2. \A k \in n .. n - 1 : k > 0 /\ work'[t][k].op = "keep" =>
          cells'[work'[t][k].ref].by = override[t]
    BY <1>1
  <2>3. CallsOK'
    BY <1>1, <1>2, <1>5, <2>1, CallsGoOn
  <2> QED
    BY <1>1, <1>2, <1>3, <1>5, <2>1, <2>2, <2>3, AllocatorsGoOn
<1>7. ForwardOK'
  BY <1>3, ForwardKept
<1>8. ASSUME NEW d \in Cell
      PROVE  CellOK(d)'
  <2>1. VarsOn(d)' = VarsOn(d)
    BY <1>3 DEF VarsOn
  <2>2. N(Counts(work[t][n], d)) = IF d = work[t][n].ref THEN 1 ELSE 0
    BY <1>1 DEF Counts, N
  <2>3. References(d)' = References(d) - (IF d = work[t][n].ref THEN 1 ELSE 0)
    BY <1>2, <1>3, <1>5, <2>1, <2>2, Sums DEF References
  <2>4. IsFiniteSet(CallsOn(d)') /\ IsFiniteSet(FieldsOn(d)')
    BY <1>2, <1>5, Sums
  <2>5. cells'[d].from = cells[d].from
    BY DEF Keeps
  <2>6. CASE d = work[t][n].ref
    <3>1. References(d) > 0
      <4>1. <<t, n>> \in CallsOn(d)
        BY <1>1, <2>6, CallsOnAre DEF Counts
      <4> QED
        BY <4>1, Counted
    <3>2. References(d)' = References(d) - 1 /\ cells'[d].rc = Decr(cells[d].rc)
      BY <2>3, <2>6
    <3>3. cells'[d].rc # 0
      BY <2>6, <3>2
    <3> QED
      BY <2>4, <2>5, <3>1, <3>2, <3>3, OneLess DEF CellOK
  <2>7. CASE d # work[t][n].ref
    <3>1. References(d)' = References(d) /\ cells'[d].rc = cells[d].rc
      BY <2>3, <2>7, Sums
    <3> QED
      BY <1>2, <2>4, <2>5, <3>1, SameCount, ZerosKept DEF CellOK
  <2> QED
    BY <2>6, <2>7
<1> QED
  BY <1>2, <1>4, <1>5, <1>6, <1>7, <1>8, Whole

\* A call empties a collection, never a block.
LEMMA EmptiesHolder ==
  ASSUME IInv, NEW u \in Thread, NEW k \in DOMAIN work[u], work[u][k].op = "empty"
  PROVE  work[u][k].ref \in Holder /\ work[u][k].ref \notin Cell
<1>1. CallOK(u, k)
  BY DEF IInv, CallsOK
<1> QED
  BY <1>1, Distinct DEF CallOK, EmptyOK

\* The last reference to a block is released: the call becomes the one that
\* disposes of it.
LEMMA LastReleaseStep ==
  ASSUME IInv, NEW t \in Thread, Doing(t, "release"), NEW n, n = Len(work[t]),
         NEW c \in Cell, work[t][n].ref = c,
         cells' = [cells EXCEPT ![c].rc = Decr(@)], ~(Decr(cells[c].rc) > 0),
         Become(t, Call("dispose", c, 1, Nil)),
         UNCHANGED <<forward, open, held, override>>
  PROVE  IInv'
<1>0. TypeOK
  BY DEF IInv
<1>1. /\ work[t] # <<>> /\ n \in Nat \ {0} /\ DOMAIN work[t] = 1 .. n /\ n \in DOMAIN work[t]
      /\ work[t][n].op = "release" /\ work[t][n].ref = c
  BY DoingCall
<1>2. <<t, n>> \in CallsOn(c)
  BY <1>1, CallsOnAre DEF Counts
<1>3. /\ References(c) > 0 /\ Used(c) /\ cells[c].rc \in 1 .. Latch
      /\ cells[c].rc \in {References(c), Latch}
  BY <1>2, Counted
<1>4. References(c) = 1 /\ cells[c].rc = 1 /\ Decr(cells[c].rc) = 0
  BY <1>3, Distinct, Sums DEF Decr
<1>5. /\ cells' \in [Cell \cup Holder -> Content]
      /\ cells'[c].from = cells[c].from /\ cells'[c].fields = cells[c].fields
      /\ cells'[c].by = cells[c].by /\ cells'[c].rc = 0
      /\ \A d \in Cell \cup Holder : d # c => cells'[d] = cells[d]
  <2>1. cells' = [cells EXCEPT ![c].rc = Decr(cells[c].rc)]
    OBVIOUS
  <2>2. Decr(cells[c].rc) \in 0 .. Latch
    BY Sums, Bounds
  <2> QED
    BY <1>0, <1>4, <2>1, <2>2, CountSet
<1>6. forward' = forward /\ open' = open /\ held' = held /\ override' = override
  OBVIOUS
<1>7. PICK call : call = Call("dispose", c, 1, Nil)
  OBVIOUS
<1>8. call \in RuntimeCall /\ call.op = "dispose" /\ call.ref = c /\ call.at = 1
  BY <1>7 DEF RuntimeCall, Call, Item
<1>9. /\ OnlyTop(t, n) /\ DOMAIN work'[t] = 1 .. n /\ work'[t][n] = call
      /\ work' \in [Thread -> Seq(RuntimeCall)]
  <2>1. Become(t, call)
    BY <1>7
  <2>2. OnlyTop(t, n) /\ DOMAIN work'[t] = 1 .. n /\ work'[t][n] = call
    BY <1>0, <1>1, <1>8, <2>1, Became
  <2> QED
    BY <1>1, <2>1, <2>2, WorkTyped DEF Become
<1>10. TypeOK'
  BY <1>0, <1>5, <1>6, <1>9 DEF TypeOK
<1>11. \A d \in Cell : Keeps(d)
  BY <1>3, <1>5, Distinct DEF Keeps
\* No dispose of c was there, and those that were go on.
<1>12. ASSUME NEW u \in Thread, NEW k \in DOMAIN work[u],
              work[u][k].op \in {"dispose", "empty"}
       PROVE  /\ work[u][k].ref # c
              /\ k \in DOMAIN work'[u] /\ work'[u][k] = work[u][k]
  <2>1. CallOK(u, k)
    BY DEF IInv, CallsOK
  <2>2. work[u][k].ref # c
    <3>1. CASE work[u][k].op = "dispose"
      BY <1>4, <3>1, <2>1 DEF CallOK, DisposeOK
    <3>2. CASE work[u][k].op = "empty"
      BY <3>2, EmptiesHolder
    <3> QED
      BY <1>12, <3>1, <3>2
  <2>3. CASE u = t
    <3>1. k \in 1 .. n - 1
      BY <1>1, <1>12, <2>3
    <3> QED
      BY <1>9, <2>2, <2>3, <3>1 DEF OnlyTop
  <2>4. CASE u # t
    BY <1>9, <2>2, <2>4 DEF OnlyTop
  <2> QED
    BY <2>3, <2>4
<1>13. ASSUME NEW u \in Thread, NEW k \in DOMAIN work'[u], u # t \/ k # n
       PROVE  k \in DOMAIN work[u] /\ work'[u][k] = work[u][k]
  <2>1. CASE u = t
    <3>1. k \in 1 .. n - 1
      BY <1>9, <1>13, <2>1
    <3> QED
      BY <1>1, <1>9, <2>1, <3>1 DEF OnlyTop
  <2>2. CASE u # t
    BY <1>9, <2>2 DEF OnlyTop
  <2> QED
    BY <2>1, <2>2
<1>14. Alone("dispose")'
  <2>1. n \in DOMAIN work'[t] /\ work'[t][n].ref = c /\ Alone("dispose")
    BY <1>1, <1>8, <1>9 DEF IInv
  <2>2. \A u \in Thread : \A k \in DOMAIN work'[u] : work'[u][k].op = "dispose" /\ (u # t \/ k # n) =>
          k \in DOMAIN work[u] /\ work[u][k].op = "dispose" /\ work[u][k].ref = work'[u][k].ref
    BY <1>13
  <2>3. \A u \in Thread : \A k \in DOMAIN work[u] :
          work[u][k].op = "dispose" => work[u][k].ref # work'[t][n].ref
    BY <1>12, <2>1
  <2> QED
    BY <2>1, <2>2, <2>3, AloneBegun
<1>15. Alone("keep")'
  <2>1. \A k \in n .. n : k > 0 /\ work'[t][k].op = "keep" => k = n /\ GoesOn(t, n)
    BY <1>1, <1>8, <1>9
  <2> QED
    BY <1>1, <1>9, <2>1, AloneGoesOn
\* The fields of c are all still to be dropped.
<1>16. ASSUME NEW d, NEW i PROVE Dropped(d, i) => Dropped(d, i)'
  BY <1>12, DroppedIs, DroppedIsNext DEF Drops
<1>17. ASSUME NEW d \in Cell \cup Holder, NEW i \in DOMAIN cells[d].fields, Dropped(d, i)'
       PROVE  Dropped(d, i)
  <2>1. PICK u \in Thread : \E k \in DOMAIN work'[u] : Drops(work'[u][k], d, i)
    BY <1>17, DroppedIsNext
  <2>2. PICK k \in DOMAIN work'[u] : Drops(work'[u][k], d, i)
    BY <2>1
  <2>3. CASE u # t \/ k # n
    BY <1>13, <2>2, <2>3, DroppedIs
  <2>4. CASE u = t /\ k = n
    <3>1. d = c /\ i < 1
      BY <1>8, <1>9, <2>2, <2>4 DEF Drops
    <3>2. cells[c].fields \in Seq(Item)
      BY <1>0 DEF TypeOK, Content
    <3> QED
      BY <1>17, <3>1, <3>2, LenProperties
  <2> QED
    BY <2>3, <2>4
<1>18. FieldsOK'
  BY <1>10, <1>11, <1>16, FieldsOKKept
<1>19. HoldersOK'
  BY <1>5, Distinct DEF IInv, HoldersOK
<1>20. Spares(t, n)
  <2>1. \A k \in Holder : Keeps(k)
    BY <1>5, Distinct DEF Keeps
  <2> QED
    BY <1>11, <2>1 DEF Spares, Relies
<1>21. ASSUME NEW d PROVE FieldsOn(d)' = FieldsOn(d)
  <2>1. \A e \in Cell \cup Holder : cells'[e].fields = cells[e].fields
    BY <1>5
  <2>2. \A e \in Cell \cup Holder : \A i : FieldOn(e, i, d)' <=> FieldOn(e, i, d)
    BY <1>16, <1>17, <2>1 DEF FieldOn
  <2> QED
    BY <2>2, FieldsSame
<1>22. CallsOK'
  <2>1. DisposeOK(t, n)'
    <3>1. cells[c].fields \in Seq(Item)
      BY <1>0 DEF TypeOK, Content
    <3>2. Used(c)' /\ 1 \in 1 .. Len(cells'[c].fields) + 1
      BY <1>3, <1>5, <3>1, LenProperties DEF Used
    <3> QED
      BY <1>5, <1>8, <1>9, <3>2 DEF DisposeOK
  <2>2. \A k \in n .. n : k > 0 => CallOK(t, k)'
    BY <1>8, <1>9, <2>1 DEF CallOK
  <2> QED
    BY <1>1, <1>9, <1>20, <2>2, CallsGoOn
<1>23. CopiesUseAllocator'
  <2>1. \A k \in n .. n : k > 0 /\ work'[t][k].op = "keep" =>
          cells'[work'[t][k].ref].by = override[t]
    BY <1>8, <1>9
  <2>2. ASSUME NEW u \in Thread PROVE Asked(u)' = Asked(u)
    <3>1. /\ n = 1 => work[t][n].op # "restore"
          /\ n <= 1 /\ n >= 1 => work'[t][1].op # "restore"
          /\ n \in Nat /\ n >= n - 1
      BY <1>1, <1>8, <1>9
    <3> QED
      BY <1>0, <1>1, <1>9, <3>1, AskedKept
  <2> QED
    BY SMTT(40), <1>1, <1>6, <1>9, <1>20, <2>1, <2>2, AllocatorsGoOn
<1>24. ForwardOK'
  BY <1>6, <1>11, ForwardKept
<1>25. ASSUME NEW d \in Cell PROVE CellOK(d)'
  <2>1. VarsOn(d)' = VarsOn(d)
    BY <1>6 DEF VarsOn
  <2>2. /\ IsFiniteSet(CallsOn(d)')
        /\ Cardinality(CallsOn(d)') = Cardinality(CallsOn(d)) - (IF d = c THEN 1 ELSE 0)
    <3>1. IsFiniteSet(CallsOn(d))
      BY Sums
    <3>2. /\ IsFiniteSet(CallsOn(d)')
          /\ Cardinality(CallsOn(d)') = Cardinality(CallsOn(d))
                                        - N(Counts(work[t][n], d)) + N(Counts(work'[t][n], d))
      BY <1>0, <1>1, <1>9, <3>1, CountBecome
    <3>3. /\ N(Counts(work[t][n], d)) = (IF d = c THEN 1 ELSE 0)
          /\ N(Counts(work'[t][n], d)) = 0
      BY <1>1, <1>8, <1>9 DEF Counts, N
    <3> QED
      BY <3>2, <3>3, Sums
  <2>3. References(d)' = References(d) - (IF d = c THEN 1 ELSE 0)
    <3>1. FieldsOn(d)' = FieldsOn(d) /\ held'[d] = held[d]
      BY <1>6, <1>21
    <3>2. References(d)' = held'[d] + Cardinality(VarsOn(d)')
                           + Cardinality(CallsOn(d)') + Cardinality(FieldsOn(d)')
      BY DEF References
    <3>3. PICK x \in 0 .. 1 : x = IF d = c THEN 1 ELSE 0
      OBVIOUS
    <3>4. References(d)' = held[d] + Cardinality(VarsOn(d))
                           + (Cardinality(CallsOn(d)) - x) + Cardinality(FieldsOn(d))
      BY <2>1, <2>2, <3>1, <3>2, <3>3
    <3>5. References(d)' = References(d) - x
      BY <3>4, Sums DEF References
    <3> QED
      BY <3>3, <3>5
  <2>4. IsFiniteSet(CallsOn(d)') /\ IsFiniteSet(FieldsOn(d)')
    BY <1>21, <2>2, Sums
  <2>5. CASE d = c
    <3>1. cells'[d].rc = Decr(cells[d].rc) /\ cells'[d].from = cells[d].from
      BY <1>4, <1>5, <2>5
    <3>2. References(d) > 0 /\ References(d)' = References(d) - 1
      BY <1>3, <2>3, <2>5
    <3>3. <<t, n>> \in DisposesOf(d)'
      BY <1>1, <1>8, <1>9, <2>5, DisposesOfAreNext DEF Disposes
    <3> QED
      BY <2>4, <3>1, <3>2, <3>3, OneLess DEF CellOK
  <2>6. CASE d # c
    <3>1. References(d)' = References(d) /\ cells'[d] = cells[d]
      BY <1>5, <2>3, <2>6, Sums
    <3>2. DisposesOf(d) # {} => DisposesOf(d)' # {}
      <4>1. ASSUME NEW x \in DisposesOf(d) PROVE x \in DisposesOf(d)'
        BY <1>12, <4>1, DisposesOfAre, DisposesOfAreNext DEF Disposes
      <4> QED
        BY <4>1
    <3> QED
      BY <2>4, <3>1, <3>2, SameCount, ZerosKept DEF CellOK
  <2> QED
    BY <2>5, <2>6
<1> QED
  BY <1>10, <1>14, <1>15, <1>18, <1>19, <1>22, <1>23, <1>24, <1>25, Whole

LEMMA ReleaseBlockStep ==
  ASSUME IInv, NEW t \in Thread, ReleaseBlock(t)
  PROVE  IInv'
<1>0. TypeOK
  BY DEF IInv
<1>1. PICK n : n = Len(work[t])
  OBVIOUS
<1>2. PICK c : c = work[t][n].ref
  OBVIOUS
<1>3. Doing(t, "release") /\ UNCHANGED <<forward, open, held, override>>
  BY DEF ReleaseBlock
<1>4. Innermost(t) = work[t][n] /\ work[t][n].op = "release"
  BY <1>1, <1>3, DoingCall
<1>5. CASE c \notin Cell
  <2>1. Return(t) /\ cells' = cells
    BY <1>2, <1>4, <1>5 DEF ReleaseBlock
  <2>2. cells' \in [Cell \cup Holder -> Content]
    BY <1>0, <2>1 DEF TypeOK
  <2>3. \A d \in Cell : Keeps(d)
    BY <2>1 DEF Keeps
  <2>4. \A d \in Cell : d # work[t][n].ref
    BY <1>2, <1>5
  <2> QED
    BY <1>1, <1>2, <1>3, <1>5, <2>1, <2>2, <2>3, <2>4, ReleaseReturns
<1>6. CASE c \in Cell /\ Decr(cells[c].rc) > 0
  <2>1. Return(t) /\ cells' = [cells EXCEPT ![c].rc = Decr(@)]
    BY <1>2, <1>4, <1>6 DEF ReleaseBlock
  <2>2. cells[c].rc \in 0 .. Latch /\ Decr(cells[c].rc) \in 0 .. Latch
    BY <1>6, Sums, Bounds
  <2>3. /\ cells' \in [Cell \cup Holder -> Content]
        /\ cells'[c].from = cells[c].from /\ cells'[c].fields = cells[c].fields
        /\ cells'[c].by = cells[c].by /\ cells'[c].rc = Decr(cells[c].rc)
        /\ \A d \in Cell \cup Holder : d # c => cells'[d] = cells[d]
    <3>1. cells' = [cells EXCEPT ![c].rc = Decr(cells[c].rc)]
      BY <2>1
    <3> QED
      BY <1>0, <1>6, <2>2, <3>1, CountSet
  <2>4. cells[c].rc # 0
    BY <1>6 DEF Decr
  <2>5. \A d \in Cell : Keeps(d)
    BY <2>3, <2>4 DEF Keeps
  <2>6. \A k \in Holder : cells'[k] = cells[k]
    BY <1>6, <2>3, Distinct
  <2>7. \A d \in Cell : cells'[d].rc =
          IF d = work[t][n].ref THEN Decr(cells[d].rc) ELSE cells[d].rc
    BY <1>2, <2>3
  <2>8. work[t][n].ref \in Cell => Decr(cells[work[t][n].ref].rc) > 0
    BY <1>2, <1>6
  <2> QED
    BY <1>1, <1>3, <2>1, <2>3, <2>5, <2>6, <2>7, <2>8, ReleaseReturns
<1>7. CASE c \in Cell /\ ~(Decr(cells[c].rc) > 0)
  <2>1. /\ cells' = [cells EXCEPT ![c].rc = Decr(@)]
        /\ Become(t, Call("dispose", c, 1, Nil))
    BY <1>2, <1>4, <1>7 DEF ReleaseBlock
  <2> QED
    BY <1>1, <1>2, <1>3, <1>7, <2>1, LastReleaseStep
<1> QED
  BY <1>5, <1>6, <1>7
-----------------------------------------------------------------------------
(* Memory that is freed or filled *)

\* Where the blocks and variables that have a reference are what they were.
LEMMA ContentKept ==
  ASSUME IInv, NEW c \in Cell, cells'[c] = cells[c],
         \A i : Dropped(c, i) => Dropped(c, i)',
         \A e \in Cell : FieldsOn(e) # {} => cells'[e].from = cells[e].from
  PROVE  ContentOK(c)'
<1>1. ContentOK(c)
  BY DEF IInv, FieldsOK
<1>2. ASSUME NEW i \in DOMAIN cells[c].fields, cells[c].fields[i] \in Cell, ~Dropped(c, i)'
      PROVE  cells'[cells[c].fields[i]].from = cells[cells[c].fields[i]].from
  <2>1. FieldOn(c, i, cells[c].fields[i])
    BY <1>2 DEF FieldOn
  <2>2. <<c, i>> \in FieldsOn(cells[c].fields[i])
    BY <2>1, FieldsOnAre
  <2> QED
    BY <1>2, <2>2
<1> QED
  BY <1>1, <1>2 DEF ContentOK, Used

\* An allocation that nothing refers to gets other contents, which refer to
\* nothing, and what it held was dropped.
LEMMA Refilled ==
  ASSUME IInv, TypeOK', NEW d \in Cell, FieldsOn(d) = {},
         \A c \in Cell \cup Holder : c # d => cells'[c] = cells[c],
         \A c, i : c # d => (Dropped(c, i)' <=> Dropped(c, i)),
         \A i \in DOMAIN cells[d].fields : cells[d].fields[i] \in Cell => Dropped(d, i),
         \A i \in DOMAIN cells'[d].fields : cells'[d].fields[i] \notin Cell,
         ~Used(d)' => cells'[d] = Unused, cells'[d].from \notin Kind,
         cells'[d].from \in Var => cells'[d].fields = <<>>,
         cells'[d].from \in Literal => Len(cells'[d].fields) = Len(Captures[cells'[d].from])
  PROVE  FieldsOK' /\ HoldersOK' /\ \A x \in Cell : FieldsOn(x)' = FieldsOn(x)
<1>1. ASSUME NEW c \in Cell PROVE ContentOK(c)'
  <2>1. CASE c = d
    BY <2>1 DEF ContentOK
  <2>2. CASE c # d
    <3>1. \A i : Dropped(c, i) => Dropped(c, i)'
      BY <2>2
    <3>2. cells'[c] = cells[c] /\ \A e \in Cell : FieldsOn(e) # {} => cells'[e].from = cells[e].from
      BY <2>2
    <3> QED
      BY <3>1, <3>2, ContentKept
  <2> QED
    BY <2>1, <2>2
<1>2. HoldersOK'
  BY Distinct DEF IInv, HoldersOK
<1>3. ASSUME NEW x \in Cell PROVE FieldsOn(x)' = FieldsOn(x)
  <2>1. ASSUME NEW e \in Cell \cup Holder, NEW i PROVE FieldOn(e, i, x)' <=> FieldOn(e, i, x)
    <3>1. CASE e # d
      BY <3>1 DEF FieldOn
    <3>2. CASE e = d
      BY <3>2 DEF FieldOn
    <3> QED
      BY <3>1, <3>2
  <2> QED
    BY <2>1, FieldsSame
<1> QED
  BY <1>1, <1>2, <1>3 DEF FieldsOK

\* Only the innermost call of t had to do with it.
LEMMA SparesOthers ==
  ASSUME IInv, NEW t \in Thread, NEW n \in Nat, NEW d \in Cell,
         \A c \in Cell \cup Holder : c # d => Keeps(c),
         CallsOn(d) \subseteq {<<t, n>>}, DisposesOf(d) \subseteq {<<t, n>>}
  PROVE  Spares(t, n)
<1> SUFFICES ASSUME NEW u \in Thread, NEW k \in DOMAIN work[u], u = t => k < n, Relies(work[u][k])
             PROVE  Keeps(work[u][k].ref)
  BY DEF Spares
<1>1. CASE work[u][k].ref = d
  <2>1. <<u, k>> \in CallsOn(d) \cup DisposesOf(d)
    BY <1>1, CallsOnAre, DisposesOfAre, Distinct DEF Relies, Counts, Disposes
  <2>2. <<u, k>> = <<t, n>>
    BY <2>1
  <2>3. u = t /\ k = n
    BY <2>2
  <2> QED
    BY <2>3
<1> QED
  BY <1>1 DEF Relies

LEMMA UnusedTyped == Unused \in Content
<1>1. <<>> \in Seq(Item) /\ 0 \in 0 .. Latch
  BY Distinct, EmptySeq
<1> QED
  BY <1>1 DEF Content, Unused

\* The only call on an allocation with one reference
LEMMA OnlyCall ==
  ASSUME IInv, NEW c \in Cell, NEW x \in CallsOn(c), Decr(cells[c].rc) = 0
  PROVE  /\ cells[c].rc = 1 /\ References(c) = 1 /\ held[c] = 0
         /\ VarsOn(c) = {} /\ FieldsOn(c) = {} /\ CallsOn(c) = {x} /\ DisposesOf(c) = {}
<1>1. /\ References(c) > 0 /\ Used(c) /\ cells[c].rc \in 1 .. Latch
      /\ cells[c].rc \in {References(c), Latch}
  BY Counted
<1>2. cells[c].rc = 1 /\ References(c) = 1
  BY <1>1, Distinct, Sums DEF Decr
<1>3. Cardinality(CallsOn(c)) > 0
  BY Sums, FS_EmptySet
<1>4. /\ held[c] = 0 /\ Cardinality(VarsOn(c)) = 0 /\ Cardinality(FieldsOn(c)) = 0
      /\ Cardinality(CallsOn(c)) = 1
  BY <1>2, <1>3, Sums DEF References
<1>5. VarsOn(c) = {} /\ FieldsOn(c) = {}
  BY <1>4, Sums, FS_EmptySet
<1>6. CallsOn(c) = {x}
  <2>1. PICK y : CallsOn(c) = {y}
    BY <1>4, Sums, FS_Singleton
  <2> QED
    BY <2>1
<1>7. DisposesOf(c) = {}
  <2> SUFFICES ASSUME NEW y \in DisposesOf(c) PROVE FALSE
    OBVIOUS
  <2>1. PICK u \in Thread : \E k \in DOMAIN work[u] : Disposes(work[u][k], c)
    BY DisposesOfAre
  <2>2. PICK k \in DOMAIN work[u] : Disposes(work[u][k], c)
    BY <2>1
  <2>3. CallOK(u, k)
    BY DEF IInv, CallsOK
  <2> QED
    BY <1>2, <2>2, <2>3 DEF CallOK, Disposes, DisposeOK
<1> QED
  BY <1>2, <1>4, <1>5, <1>6, <1>7

\* A variable that is freed
LEMMA FreeVariableStep ==
  ASSUME IInv, NEW t \in Thread, Doing(t, "byref"), NEW n, n = Len(work[t]),
         NEW d \in Cell, work[t][n].ref = d, Decr(cells[d].rc) = 0,
         cells' = [cells EXCEPT ![d] = Unused], Return(t),
         UNCHANGED <<forward, open, held, override>>
  PROVE  IInv'
<1>0. TypeOK
  BY DEF IInv
<1>1. /\ work[t] # <<>> /\ n \in Nat \ {0} /\ DOMAIN work[t] = 1 .. n /\ n \in DOMAIN work[t]
      /\ work[t][n].op = "byref" /\ work[t][n].ref = d /\ CallOK(t, n)
  BY DoingCall
<1>2. /\ OnlyTop(t, n) /\ n - 1 \in Nat /\ DOMAIN work'[t] = 1 .. n - 1
      /\ work' \in [Thread -> Seq(RuntimeCall)]
      /\ \A c : DisposesOf(c)' = DisposesOf(c)
      /\ \A c, i : Dropped(c, i)' <=> Dropped(c, i)
      /\ Alone("keep")' /\ Alone("dispose")'
      /\ \A c \in Cell :
           /\ IsFiniteSet(CallsOn(c)')
           /\ Cardinality(CallsOn(c)') = Cardinality(CallsOn(c)) - N(Counts(work[t][n], c))
      /\ \A u \in Thread : Asked(u)' = Asked(u)
  BY <1>1, ReturnStep
<1>3. forward' = forward /\ open' = open /\ held' = held /\ override' = override
  OBVIOUS
<1>4. <<t, n>> \in CallsOn(d)
  BY <1>1, CallsOnAre DEF Counts
<1>5. /\ cells[d].rc = 1 /\ References(d) = 1 /\ held[d] = 0
      /\ VarsOn(d) = {} /\ FieldsOn(d) = {} /\ CallsOn(d) = {<<t, n>>} /\ DisposesOf(d) = {}
  BY <1>4, OnlyCall
<1>6. /\ cells' \in [Cell \cup Holder -> Content] /\ cells'[d] = Unused
      /\ \A c \in Cell \cup Holder : c # d => cells'[c] = cells[c]
  BY <1>0, UnusedTyped DEF TypeOK
<1>7. TypeOK'
  BY <1>0, <1>2, <1>3, <1>6 DEF TypeOK
<1>8. cells[d].fields = <<>>
  BY <1>1 DEF CallOK, ByrefOK, IInv, FieldsOK, ContentOK
<1>9. /\ Unused.fields = <<>> /\ Unused.from = Nil /\ Unused.rc = 0
      /\ Nil \notin Var \cup Literal \cup Kind /\ DOMAIN <<>> = {}
  BY Distinct DEF Unused
<1>10. FieldsOK' /\ HoldersOK' /\ \A x \in Cell : FieldsOn(x)' = FieldsOn(x)
  <2>1. /\ \A i \in DOMAIN cells[d].fields : cells[d].fields[i] \in Cell => Dropped(d, i)
        /\ \A i \in DOMAIN cells'[d].fields : cells'[d].fields[i] \notin Cell
        /\ ~Used(d)' => cells'[d] = Unused
        /\ cells'[d].from \notin Kind
        /\ cells'[d].from \in Var => cells'[d].fields = <<>>
        /\ cells'[d].from \in Literal => Len(cells'[d].fields) = Len(Captures[cells'[d].from])
    BY <1>6, <1>8, <1>9
  <2>2. \A c, i : c # d => (Dropped(c, i)' <=> Dropped(c, i))
    BY <1>2
  <2> QED
    BY <1>5, <1>6, <1>7, <2>1, <2>2, Refilled
<1>11. \A c \in Cell \cup Holder : c # d => Keeps(c)
  BY <1>6 DEF Keeps
<1>12. Spares(t, n)
  BY <1>1, <1>5, <1>11, SparesOthers
<1>13. CallsOK' /\ CopiesUseAllocator'
  <2>1. n \in Nat /\ \A k \in n .. n - 1 : k > 0 => CallOK(t, k)'
    BY <1>1
  <2>2. \A k \in n .. n - 1 : k > 0 /\ work'[t][k].op = "keep" =>
          cells'[work'[t][k].ref].by = override[t]
    BY <1>1
  <2>3. CallsOK'
    <3>1. 1 .. n - 1 \subseteq DOMAIN work[t]
      BY <1>1
    <3> QED
      BY <1>2, <1>12, <2>1, <3>1, CallsGoOn
  <2> QED
    BY SMTT(40), <1>1, <1>2, <1>3, <1>12, <2>1, <2>2, <2>3, AllocatorsGoOn
<1>14. ForwardOK'
  <2>1. \A v \in Var : forward[v] # Nil => forward[v] \in Cell /\ forward[v] # d
    BY <1>0, <1>5 DEF TypeOK, VarsOn
  <2> QED
    BY <1>3, <1>6, <2>1 DEF IInv, ForwardOK
<1>15. ASSUME NEW c \in Cell PROVE CellOK(c)'
  <2>1. VarsOn(c)' = VarsOn(c) /\ FieldsOn(c)' = FieldsOn(c) /\ held'[c] = held[c]
    BY <1>3, <1>10 DEF VarsOn
  <2>2. IsFiniteSet(CallsOn(c)') /\ IsFiniteSet(FieldsOn(c)')
    BY <1>2, <2>1, Sums
  <2>3. N(Counts(work[t][n], c)) = IF c = d THEN 1 ELSE 0
    BY <1>1 DEF Counts, N
  <2>4. References(c)' = References(c) - N(Counts(work[t][n], c))
    <3>1. Cardinality(CallsOn(c)') = Cardinality(CallsOn(c)) - N(Counts(work[t][n], c))
      BY <1>2
    <3>2. N(Counts(work[t][n], c)) \in 0 .. 1
      BY DEF N
    <3> QED
      BY SMTT(40), <2>1, <3>1, <3>2, Sums DEF References
  <2>5. CASE c = d
    <3>1. References(c)' = 0
      BY <1>5, <2>3, <2>4, <2>5
    <3>2. ~Used(c)'
      BY <1>6, <1>9, <2>5 DEF Used
    <3> QED
      BY <2>2, <3>1, <3>2 DEF CellOK, Exact
  <2>6. CASE c # d
    <3>1. References(c)' = References(c) /\ cells'[c] = cells[c]
      BY <1>6, <2>3, <2>4, <2>6, Sums
    <3> QED
      BY <1>2, <2>2, <3>1, SameCount, ZerosKept DEF CellOK
  <2> QED
    BY <2>5, <2>6
<1> QED
  BY <1>2, <1>7, <1>10, <1>13, <1>14, <1>15, Whole

LEMMA NoUpdate ==
  ASSUME NEW S, NEW T, NEW f \in [S -> T], NEW d, d \notin S, NEW e
  PROVE  [f EXCEPT ![d] = e] = f
OBVIOUS

LEMMA ReleaseVariableStep ==
  ASSUME IInv, NEW t \in Thread, ReleaseVariable(t)
  PROVE  IInv'
<1>0. TypeOK
  BY DEF IInv
<1>1. PICK n : n = Len(work[t])
  OBVIOUS
<1>2. PICK d : d = work[t][n].ref
  OBVIOUS
<1>3. Doing(t, "byref") /\ UNCHANGED <<forward, open, held, override>> /\ Return(t)
  BY DEF ReleaseVariable
<1>4. Innermost(t) = work[t][n] /\ n \in DOMAIN work[t] /\ work[t][n].op = "byref"
  BY <1>1, <1>3, DoingCall
<1>5. cells' = IF cells[d].rc # 0 /\ Decr(cells[d].rc) = 0 THEN [cells EXCEPT ![d] = Unused]
               ELSE [cells EXCEPT ![d].rc = Decr(@)]
  BY <1>2, <1>4 DEF ReleaseVariable
<1>6. CASE d \notin Cell
  <2>1. d \notin Cell \cup Holder
    <3>1. CallOK(t, n)
      BY <1>4 DEF IInv, CallsOK
    <3>2. d \in Global \cup {Nil}
      BY <1>2, <1>4, <1>6, <3>1 DEF CallOK, ByrefOK, Item
    <3> QED
      BY <1>6, <3>2, Distinct
  <2>2. cells' = cells
    <3>1. PICK less : less = [cells[d] EXCEPT !.rc = Decr(@)]
      OBVIOUS
    <3>2. [cells EXCEPT ![d] = Unused] = cells /\ [cells EXCEPT ![d] = less] = cells
      BY <1>0, <2>1, NoUpdate DEF TypeOK
    <3>3. [cells EXCEPT ![d].rc = Decr(@)] = [cells EXCEPT ![d] = less]
      BY <3>1
    <3> QED
      BY <1>5, <3>2, <3>3
  <2>3. cells' \in [Cell \cup Holder -> Content]
    BY <1>0, <2>2 DEF TypeOK
  <2>4. \A c \in Cell : Keeps(c)
    BY <2>2 DEF Keeps
  <2>5. \A c \in Cell : c # work[t][n].ref
    BY <1>2, <1>6
  <2> QED
    BY <1>1, <1>2, <1>3, <1>6, <2>2, <2>3, <2>4, <2>5, ReleaseReturns
<1>7. CASE d \in Cell
  <2>1. <<t, n>> \in CallsOn(d)
    BY <1>2, <1>4, CallsOnAre DEF Counts
  <2>2. cells[d].rc \in 1 .. Latch /\ Decr(cells[d].rc) \in 0 .. Latch
    BY <1>7, <2>1, Counted, Sums, Bounds
  <2>3. CASE Decr(cells[d].rc) = 0
    <3>1. cells' = [cells EXCEPT ![d] = Unused]
      BY <1>5, <2>2, <2>3
    <3> QED
      BY <1>1, <1>2, <1>3, <1>7, <2>3, <3>1, FreeVariableStep
  <2>4. CASE Decr(cells[d].rc) # 0
    <3>1. /\ cells' \in [Cell \cup Holder -> Content]
          /\ cells'[d].from = cells[d].from /\ cells'[d].fields = cells[d].fields
          /\ cells'[d].by = cells[d].by /\ cells'[d].rc = Decr(cells[d].rc)
          /\ \A c \in Cell \cup Holder : c # d => cells'[c] = cells[c]
      <4>1. cells' = [cells EXCEPT ![d].rc = Decr(cells[d].rc)]
        BY <1>5, <2>4
      <4> QED
        BY <1>0, <1>7, <2>2, <4>1, CountSet
    <3>2. \A c \in Cell : Keeps(c)
      BY <2>2, <3>1 DEF Keeps
    <3>3. \A k \in Holder : cells'[k] = cells[k]
      BY <1>7, <3>1, Distinct
    <3>4. \A c \in Cell : cells'[c].rc =
            IF c = work[t][n].ref THEN Decr(cells[c].rc) ELSE cells[c].rc
      BY <1>2, <3>1
    <3>5. work[t][n].ref \in Cell => Decr(cells[work[t][n].ref].rc) > 0
      BY <1>2, <2>2, <2>4
    <3> QED
      BY <1>1, <1>3, <3>1, <3>2, <3>3, <3>4, <3>5, ReleaseReturns
  <2> QED
    BY <2>3, <2>4
<1> QED
  BY <1>6, <1>7
-----------------------------------------------------------------------------
(* The end of a block *)

\* Only calls that dispose of c come and go.
EndsOnly(t, n, m, c) ==
  /\ n > 0 /\ work[t][n].op \in {"dispose", "empty"} => work[t][n].ref = c
  /\ \A k \in 1 .. m :
       k >= n /\ work'[t][k].op \in {"dispose", "empty"} => work'[t][k].ref = c

LEMMA OtherDisposes ==
  ASSUME IInv, NEW t \in Thread, NEW n \in Nat, NEW m \in Nat, OnlyTop(t, n),
         DOMAIN work[t] = 1 .. n, DOMAIN work'[t] = 1 .. m, NEW c,
         EndsOnly(t, n, m, c), m >= n - 1
  PROVE  /\ \A d : d # c => DisposesOf(d)' = DisposesOf(d)
         /\ \A d, i : d # c => (Dropped(d, i)' <=> Dropped(d, i))
<1>1. ASSUME NEW u \in Thread, NEW k \in DOMAIN work[u], u # t \/ k # n
      PROVE  k \in DOMAIN work'[u] /\ work'[u][k] = work[u][k]
  <2>1. CASE u # t
    BY <1>1, <2>1 DEF OnlyTop
  <2>2. CASE u = t
    <3>1. k \in 1 .. n - 1
      BY <1>1, <2>2
    <3> QED
      BY <2>2, <3>1 DEF OnlyTop
  <2> QED
    BY <2>1, <2>2
<1>2. ASSUME NEW u \in Thread, NEW k \in DOMAIN work'[u], u = t => k < n
      PROVE  k \in DOMAIN work[u] /\ work'[u][k] = work[u][k]
  <2>1. CASE u # t
    BY <1>2, <2>1 DEF OnlyTop
  <2>2. CASE u = t
    <3>1. k \in 1 .. n - 1
      BY <1>2, <2>2
    <3> QED
      BY <2>2, <3>1 DEF OnlyTop
  <2> QED
    BY <2>1, <2>2
<1>3. ASSUME NEW d, d # c, NEW call, NEW i, Disposes(call, d) \/ Drops(call, d, i)
      PROVE  call.op \in {"dispose", "empty"} /\ call.ref # c
  BY <1>3 DEF Disposes, Drops
<1>4. ASSUME NEW u \in Thread, NEW k \in DOMAIN work[u],
             work[u][k].op \in {"dispose", "empty"}, work[u][k].ref # c
      PROVE  k \in DOMAIN work'[u] /\ work'[u][k] = work[u][k]
  <2>1. u # t \/ k # n
    BY <1>4, StackTop DEF EndsOnly, IInv
  <2> QED
    BY <1>1, <2>1
<1>5. ASSUME NEW u \in Thread, NEW k \in DOMAIN work'[u],
             work'[u][k].op \in {"dispose", "empty"}, work'[u][k].ref # c
      PROVE  k \in DOMAIN work[u] /\ work'[u][k] = work[u][k]
  <2>1. u = t => k < n
    BY <1>5 DEF EndsOnly
  <2> QED
    BY <1>2, <2>1
<1>6. ASSUME NEW d, d # c, NEW i PROVE Dropped(d, i)' <=> Dropped(d, i)
  <2>1. ASSUME NEW u \in Thread, NEW k \in DOMAIN work[u], Drops(work[u][k], d, i)
        PROVE  k \in DOMAIN work'[u] /\ Drops(work'[u][k], d, i)
    <3>1. work[u][k].op \in {"dispose", "empty"} /\ work[u][k].ref # c
      BY <1>3, <1>6, <2>1
    <3> QED
      BY <1>4, <2>1, <3>1
  <2>2. ASSUME NEW u \in Thread, NEW k \in DOMAIN work'[u], Drops(work'[u][k], d, i)
        PROVE  k \in DOMAIN work[u] /\ Drops(work[u][k], d, i)
    <3>1. work'[u][k].op \in {"dispose", "empty"} /\ work'[u][k].ref # c
      BY <1>3, <1>6, <2>2
    <3>2. k \in DOMAIN work[u] /\ work'[u][k] = work[u][k]
      BY <1>5, <3>1
    <3> QED
      BY <2>2, <3>2
  <2> QED
    BY <2>1, <2>2, DroppedIs, DroppedIsNext
<1>7. ASSUME NEW d, d # c PROVE DisposesOf(d)' = DisposesOf(d)
  <2>1. ASSUME NEW u \in Thread, NEW k \in DOMAIN work[u], Disposes(work[u][k], d)
        PROVE  k \in DOMAIN work'[u] /\ Disposes(work'[u][k], d)
    <3>1. work[u][k].op \in {"dispose", "empty"} /\ work[u][k].ref # c
      BY <1>7, <2>1 DEF Disposes
    <3> QED
      BY <1>4, <2>1, <3>1
  <2>2. ASSUME NEW u \in Thread, NEW k \in DOMAIN work'[u], Disposes(work'[u][k], d)
        PROVE  k \in DOMAIN work[u] /\ Disposes(work[u][k], d)
    <3>1. work'[u][k].op \in {"dispose", "empty"} /\ work'[u][k].ref # c
      BY <1>7, <2>2 DEF Disposes
    <3>2. k \in DOMAIN work[u] /\ work'[u][k] = work[u][k]
      BY <1>5, <3>1
    <3> QED
      BY <2>2, <3>2
  <2>3. \A x : x \in DisposesOf(d)' <=> x \in DisposesOf(d)
    BY <2>1, <2>2, DisposesOfAre, DisposesOfAreNext
  <2> QED
    BY <2>3, Zenon DEF DisposesOf
<1> QED
  BY <1>6, <1>7

\* A thread disposes of a block on its own: what has been dropped is what its
\* dispose helper has passed.
LEMMA Disposing ==
  ASSUME IInv, NEW t \in Thread, Doing(t, "dispose"), NEW n, n = Len(work[t]),
         NEW c, c = work[t][n].ref
  PROVE  /\ c \in Cell /\ Used(c) /\ cells[c].rc = 0
         /\ work[t][n].at \in 1 .. Len(cells[c].fields) + 1
         /\ cells[c].fields \in Seq(Item) /\ Len(cells[c].fields) \in Nat
         /\ DOMAIN cells[c].fields = 1 .. Len(cells[c].fields)
         /\ DisposesOf(c) = {<<t, n>>}
         /\ \A i : Dropped(c, i) <=> i < work[t][n].at
<1>1. /\ n \in DOMAIN work[t] /\ work[t][n].op = "dispose" /\ CallOK(t, n)
  BY DoingCall
<1>2. /\ c \in Cell /\ Used(c) /\ cells[c].rc = 0
      /\ work[t][n].at \in 1 .. Len(cells[c].fields) + 1
  BY <1>1 DEF CallOK, DisposeOK
<1>3. cells[c].fields \in Seq(Item)
  BY <1>2, Sums DEF Content
<1>4. ASSUME NEW u \in Thread, NEW k \in DOMAIN work[u], work[u][k].op = "dispose",
             work[u][k].ref = c
      PROVE  u = t /\ k = n
  <2>1. <<u, k>> \in Calls /\ <<t, n>> \in Calls
    BY <1>1, CallsAre
  <2>2. CallAt(<<u, k>>) = work[u][k] /\ CallAt(<<t, n>>) = work[t][n]
    BY DEF CallAt
  <2>3. <<u, k>> = <<t, n>>
    BY <1>1, <1>4, <2>1, <2>2 DEF IInv, Alone
  <2> QED
    BY <2>3
<1>5. DisposesOf(c) = {<<t, n>>}
  <2>1. ASSUME NEW x PROVE x \in DisposesOf(c) <=> x = <<t, n>>
    BY <1>1, <1>4, DisposesOfAre DEF Disposes
  <2> QED
    BY <2>1
<1>6. ASSUME NEW i PROVE Dropped(c, i) <=> i < work[t][n].at
  <2>1. ASSUME NEW u \in Thread, NEW k \in DOMAIN work[u], Drops(work[u][k], c, i)
        PROVE  i < work[t][n].at
    <3>1. u = t /\ k = n
      BY <1>2, <1>4, <2>1, EmptiesHolder DEF Drops
    <3> QED
      BY <2>1, <3>1 DEF Drops
  <2>2. i < work[t][n].at => Drops(work[t][n], c, i)
    BY <1>1 DEF Drops
  <2> QED
    BY <1>1, <2>1, <2>2, DroppedIs
<1> QED
  BY <1>2, <1>3, <1>5, <1>6, LenProperties

\* The dispose helper is done, and the memory is freed.
LEMMA DisposeEndStep ==
  ASSUME IInv, NEW t \in Thread, Doing(t, "dispose"), NEW n, n = Len(work[t]),
         NEW c, c = work[t][n].ref, work[t][n].at > Len(cells[c].fields),
         cells' = [cells EXCEPT ![c] = Unused], Return(t),
         UNCHANGED <<forward, open, held, override>>
  PROVE  IInv'
<1>0. TypeOK
  BY DEF IInv
<1>1. /\ work[t] # <<>> /\ n \in Nat \ {0} /\ DOMAIN work[t] = 1 .. n /\ n \in DOMAIN work[t]
      /\ work[t][n].op = "dispose"
  BY DoingCall
<1>2. /\ c \in Cell /\ Used(c) /\ cells[c].rc = 0
      /\ DisposesOf(c) = {<<t, n>>}
      /\ \A i : Dropped(c, i) <=> i < work[t][n].at
      /\ Len(cells[c].fields) \in Nat /\ DOMAIN cells[c].fields = 1 .. Len(cells[c].fields)
      /\ work[t][n].at \in 1 .. Len(cells[c].fields) + 1
  BY Disposing
<1>3. References(c) = 0 /\ CallsOn(c) = {} /\ FieldsOn(c) = {} /\ VarsOn(c) = {}
  BY <1>2, Uncounted
<1>4. /\ OnlyTop(t, n) /\ n - 1 \in Nat /\ DOMAIN work'[t] = 1 .. n - 1
      /\ work' \in [Thread -> Seq(RuntimeCall)]
  <2>1. OnlyTop(t, n) /\ n - 1 \in Nat /\ DOMAIN work'[t] = 1 .. n - 1
    BY <1>0, <1>1, Returned
  <2> QED
    BY <1>1, <2>1, WorkTyped DEF Return
<1>5. forward' = forward /\ open' = open /\ held' = held /\ override' = override
  OBVIOUS
<1>6. /\ cells' \in [Cell \cup Holder -> Content] /\ cells'[c] = Unused
      /\ \A d \in Cell \cup Holder : d # c => cells'[d] = cells[d]
  BY <1>0, <1>2, UnusedTyped DEF TypeOK
<1>7. TypeOK'
  BY <1>0, <1>4, <1>5, <1>6 DEF TypeOK
<1>8. /\ Unused.fields = <<>> /\ Unused.from = Nil /\ Unused.rc = 0
      /\ Nil \notin Var \cup Literal \cup Kind /\ DOMAIN <<>> = {}
  BY Distinct DEF Unused
<1>9. /\ \A d : d # c => DisposesOf(d)' = DisposesOf(d)
      /\ \A d, i : d # c => (Dropped(d, i)' <=> Dropped(d, i))
  <2>1. /\ n \in Nat /\ n - 1 >= n - 1
        /\ EndsOnly(t, n, n - 1, c)
    BY <1>1 DEF EndsOnly
  <2> QED
    BY <1>1, <1>4, <2>1, OtherDisposes
<1>10. FieldsOK' /\ HoldersOK' /\ \A x \in Cell : FieldsOn(x)' = FieldsOn(x)
  <2>1. \A i \in DOMAIN cells[c].fields : Dropped(c, i)
    BY <1>2
  <2>2. /\ \A i \in DOMAIN cells'[c].fields : cells'[c].fields[i] \notin Cell
        /\ ~Used(c)' => cells'[c] = Unused
        /\ cells'[c].from \notin Kind
        /\ cells'[c].from \in Var => cells'[c].fields = <<>>
        /\ cells'[c].from \in Literal => Len(cells'[c].fields) = Len(Captures[cells'[c].from])
    BY <1>6, <1>8
  <2> QED
    BY <1>2, <1>3, <1>6, <1>7, <1>9, <2>1, <2>2, Refilled
<1>11. Spares(t, n)
  <2>1. \A d \in Cell \cup Holder : d # c => Keeps(d)
    BY <1>6 DEF Keeps
  <2> QED
    BY <1>1, <1>2, <1>3, <2>1, SparesOthers
<1>12. CallsOK' /\ CopiesUseAllocator' /\ Alone("keep")' /\ Alone("dispose")'
  <2>1. /\ n \in Nat /\ \A k \in n .. n - 1 : k > 0 => CallOK(t, k)'
        /\ n - 1 >= n - 1
        /\ n = 1 => work[t][n].op # "restore"
        /\ n <= 1 /\ n - 1 >= 1 => work'[t][1].op # "restore"
    BY <1>1
  <2>2. \A k \in n .. n - 1 : k > 0 /\ work'[t][k].op = "keep" =>
          cells'[work'[t][k].ref].by = override[t]
    BY <1>1
  <2>3. CallsOK'
    BY <1>1, <1>4, <1>11, <2>1, CallsGoOn
  <2>4. ASSUME NEW u \in Thread PROVE Asked(u)' = Asked(u)
    BY <1>0, <1>1, <1>4, <2>1, AskedKept
  <2>5. CopiesUseAllocator'
    BY <1>1, <1>4, <1>5, <1>11, <2>1, <2>2, <2>4, AllocatorsGoOn
  <2>6. ASSUME NEW op \in {"keep", "dispose"} PROVE Alone(op)'
    <3>1. \A k \in n .. n - 1 : k > 0 /\ work'[t][k].op = op => k = n /\ GoesOn(t, n)
      BY <1>1
    <3> QED
      BY <1>1, <1>4, <3>1, AloneGoesOn
  <2> QED
    BY <2>3, <2>5, <2>6
<1>13. ForwardOK'
  <2>1. \A v \in Var : forward[v] # Nil => forward[v] \in Cell /\ forward[v] # c
    BY <1>0, <1>3 DEF TypeOK, VarsOn
  <2> QED
    BY <1>5, <1>6, <2>1 DEF IInv, ForwardOK
<1>14. ASSUME NEW d \in Cell PROVE CellOK(d)'
  <2>1. VarsOn(d)' = VarsOn(d) /\ FieldsOn(d)' = FieldsOn(d) /\ held'[d] = held[d]
    BY <1>5, <1>10 DEF VarsOn
  <2>2. /\ IsFiniteSet(CallsOn(d)') /\ Cardinality(CallsOn(d)') = Cardinality(CallsOn(d))
    <3>1. IsFiniteSet(CallsOn(d)) /\ Cardinality(CallsOn(d)) \in Nat
      BY Sums
    <3>2. /\ IsFiniteSet(CallsOn(d)')
          /\ Cardinality(CallsOn(d)') = Cardinality(CallsOn(d)) - N(Counts(work[t][n], d))
      BY <1>0, <1>1, <1>4, <3>1, CountReturn
    <3>3. N(Counts(work[t][n], d)) = 0
      BY <1>1 DEF Counts, N
    <3> QED
      BY <3>1, <3>2, <3>3
  <2>3. IsFiniteSet(FieldsOn(d)') /\ References(d)' = References(d)
    BY <2>1, <2>2, Sums DEF References
  <2>4. CASE d = c
    <3>1. ~Used(d)' /\ References(d)' = 0
      BY <1>3, <1>6, <1>8, <2>3, <2>4 DEF Used
    <3> QED
      BY <2>2, <2>3, <3>1 DEF CellOK, Exact
  <2>5. CASE d # c
    <3>1. cells'[d] = cells[d] /\ DisposesOf(d)' = DisposesOf(d)
      BY <1>6, <1>9, <2>5
    <3> QED
      BY <2>2, <2>3, <3>1, SameCount, ZerosKept DEF CellOK
  <2> QED
    BY <2>4, <2>5
<1> QED
  BY <1>7, <1>10, <1>12, <1>13, <1>14, Whole

\* The dispose helper passes a captured value on: the call that releases it has
\* the reference that the field had.
LEMMA DisposeValueStep ==
  ASSUME IInv, NEW t \in Thread, Doing(t, "dispose"), NEW n, n = Len(work[t]),
         NEW c, c = work[t][n].ref, NEW i \in DOMAIN cells[c].fields, i = work[t][n].at,
         NEW call \in RuntimeCall, call.op \in {"byref", "release"},
         call.op = "byref" => Captures[cells[c].from][i] \in Var,
         call.ref = cells[c].fields[i],
         Advance(t, <<call>>), UNCHANGED <<cells, forward, open, held, override>>
  PROVE  IInv'
<1>0. TypeOK
  BY DEF IInv
<1>1. /\ work[t] # <<>> /\ n \in Nat \ {0} /\ DOMAIN work[t] = 1 .. n /\ n \in DOMAIN work[t]
      /\ work[t][n].op = "dispose"
  BY DoingCall
<1>2. /\ c \in Cell /\ Used(c) /\ cells[c].rc = 0
      /\ DisposesOf(c) = {<<t, n>>}
      /\ \A j : Dropped(c, j) <=> j < i
      /\ Len(cells[c].fields) \in Nat /\ DOMAIN cells[c].fields = 1 .. Len(cells[c].fields)
      /\ cells[c].fields \in Seq(Item)
      /\ i \in 1 .. Len(cells[c].fields) + 1
  BY Disposing
<1>3. i \in DOMAIN cells[c].fields /\ ~Dropped(c, i) /\ cells[c].fields[i] \in Item
  BY SMTT(40), <1>2, ElementOfSeq
<1>4. /\ call.op \in {"byref", "release"} /\ call.ref = cells[c].fields[i]
      /\ call.op = "byref" => Captures[cells[c].from][i] \in Var
  OBVIOUS
<1>5. call \in RuntimeCall
  OBVIOUS
<1>6. PICK m \in Nat : m = n + 1
  BY <1>1
<1>7. /\ OnlyTop(t, n) /\ DOMAIN work'[t] = 1 .. m /\ GoesOn(t, n) /\ work'[t][m] = call
      /\ work' \in [Thread -> Seq(RuntimeCall)]
  <2>1. /\ OnlyTop(t, n) /\ DOMAIN work'[t] = 1 .. n + 1
        /\ GoesOn(t, n) /\ work'[t][n + 1] = call
    BY <1>0, <1>1, <1>5, AdvancedInto
  <2> QED
    BY <1>1, <1>6, <2>1, WorkTyped DEF Advance
<1>8. /\ work'[t][n].op = "dispose" /\ work'[t][n].ref = c /\ work'[t][n].at = i + 1
      /\ \A k \in n .. m : k = n \/ k = m
      /\ n \in Nat /\ m >= n - 1 /\ n # m
  BY <1>1, <1>6, <1>7 DEF GoesOn
<1>9. cells' = cells /\ forward' = forward /\ open' = open /\ held' = held /\ override' = override
  OBVIOUS
<1>10. TypeOK'
  BY <1>0, <1>7, <1>9 DEF TypeOK
<1>11. \A k \in n .. m : work'[t][k].op # "keep" /\ (work'[t][k].op = "dispose" => k = n)
  BY <1>4, <1>7, <1>8
<1>12. Alone("keep")' /\ Alone("dispose")'
  <2>1. ASSUME NEW op \in {"keep", "dispose"} PROVE Alone(op)'
    <3>1. \A k \in n .. m : k > 0 /\ work'[t][k].op = op => k = n /\ GoesOn(t, n)
      BY <1>7, <1>11
    <3> QED
      BY <1>1, <1>6, <1>7, <1>8, <3>1, AloneGoesOn
  <2> QED
    BY <2>1
<1>13. /\ \A d : d # c => DisposesOf(d)' = DisposesOf(d)
       /\ \A d, j : d # c => (Dropped(d, j)' <=> Dropped(d, j))
  <2>1. EndsOnly(t, n, m, c)
    <3>1. work[t][n].ref = c
      OBVIOUS
    <3>2. ASSUME NEW k \in 1 .. m, k >= n, work'[t][k].op \in {"dispose", "empty"}
          PROVE  work'[t][k].ref = c
      <4>1. k = n \/ k = m
        BY ONLY <1>8, <3>2, m \in Nat
      <4>2. work'[t][m].op \notin {"dispose", "empty"}
        BY ONLY <1>4, <1>7
      <4> QED
        BY ONLY <1>8, <3>2, <4>1, <4>2
    <3> QED
      BY ONLY <3>1, <3>2 DEF EndsOnly
  <2> QED
    BY <1>1, <1>6, <1>7, <1>8, <2>1, OtherDisposes
<1>14. ASSUME NEW j \in 1 .. Len(cells[c].fields) PROVE Dropped(c, j)' <=> j < i + 1
  <2>1. ASSUME NEW u \in Thread, NEW k \in DOMAIN work'[u], Drops(work'[u][k], c, j)
        PROVE  j < i + 1
    <3>1. CASE u = t /\ k >= n
      <4>1. k \in n .. m
        BY <1>7, <2>1, <3>1
      <4>2. k = n
        BY <1>4, <1>7, <1>8, <2>1, <3>1, <4>1 DEF Drops
      <4> QED
        BY <1>8, <2>1, <3>1, <4>2 DEF Drops
    <3>2. CASE u = t => k < n
      <4>1. k \in DOMAIN work[u] /\ work'[u][k] = work[u][k]
        <5>1. CASE u = t
          <6>1. k \in 1 .. n - 1
            BY <1>7, <2>1, <3>2, <5>1
          <6> QED
            BY <1>1, <1>7, <5>1, <6>1 DEF OnlyTop
        <5>2. CASE u # t
          BY <1>7, <2>1, <5>2 DEF OnlyTop
        <5> QED
          BY <5>1, <5>2
      <4>2. Dropped(c, j)
        BY <2>1, <4>1, DroppedIs
      <4> QED
        BY <1>2, <4>2
    <3> QED
      BY <1>7, <1>8, <2>1, <3>1, <3>2
  <2>2. ASSUME j < i + 1 PROVE Dropped(c, j)'
    <3>1. n \in DOMAIN work'[t] /\ Drops(work'[t][n], c, j)
      BY <1>1, <1>6, <1>7, <1>8, <2>2 DEF Drops
    <3> QED
      BY <3>1, DroppedIsNext
  <2> QED
    BY <2>1, <2>2, DroppedIsNext
<1>15. FieldsOK'
  <2>1. \A d \in Cell : Keeps(d)
    BY <1>9 DEF Keeps
  <2>2. ASSUME NEW d \in Cell, NEW j \in DOMAIN cells[d].fields, Dropped(d, j)
        PROVE  Dropped(d, j)'
    <3>1. CASE d = c
      <4>1. j \in 1 .. Len(cells[c].fields) /\ j < i
        BY <1>2, <2>2, <3>1
      <4>2. j < i + 1
        BY <1>2, <4>1
      <4> QED
        BY <1>14, <3>1, <4>1, <4>2
    <3>2. CASE d # c
      BY <1>13, <2>2, <3>2
    <3> QED
      BY <3>1, <3>2
  <2> QED
    BY <1>10, <2>1, <2>2, FieldsOKKept
<1>16. HoldersOK' /\ Spares(t, n)
  BY <1>9 DEF IInv, HoldersOK, Spares, Relies, Keeps
\* The only field that changes is the one that the call has.
<1>17. /\ \A x : FieldOn(c, i, x) <=> x = cells[c].fields[i]
       /\ \A x : ~FieldOn(c, i, x)'
       /\ \A x : \A e \in Cell \cup Holder : \A j :
            e # c \/ j # i => (FieldOn(e, j, x)' <=> FieldOn(e, j, x))
  <2>1. ASSUME NEW x PROVE (FieldOn(c, i, x) <=> x = cells[c].fields[i]) /\ ~FieldOn(c, i, x)'
    <3>1. FieldOn(c, i, x) <=> x = cells[c].fields[i]
      BY ONLY <1>3 DEF FieldOn
    <3>2. i \in 1 .. Len(cells[c].fields) /\ i < i + 1
      BY ONLY <1>2, <1>3
    <3>3. Dropped(c, i)'
      BY ONLY <1>14, <3>2
    <3> QED
      BY ONLY <3>1, <3>3 DEF FieldOn
  <2>2. ASSUME NEW x, NEW e \in Cell \cup Holder, NEW j, e # c \/ j # i
        PROVE  FieldOn(e, j, x)' <=> FieldOn(e, j, x)
    <3>1. CASE e # c
      BY <1>9, <1>13, <3>1 DEF FieldOn
    <3>2. CASE e = c
      <4>1. j \in 1 .. Len(cells[c].fields) => (Dropped(c, j)' <=> Dropped(c, j))
        <5> SUFFICES ASSUME j \in 1 .. Len(cells[c].fields)
                     PROVE  Dropped(c, j)' <=> Dropped(c, j)
          OBVIOUS
        <5>1. j \in Int /\ i \in Int /\ j # i
          BY ONLY <1>2, <2>2, <3>2, j \in 1 .. Len(cells[c].fields)
        <5>2. (Dropped(c, j)' <=> j < i + 1) /\ (Dropped(c, j) <=> j < i)
          BY ONLY <1>2, <1>14, j \in 1 .. Len(cells[c].fields)
        <5>3. j < i + 1 <=> j < i
          BY ONLY <5>1
        <5> QED
          BY ONLY <5>2, <5>3
      <4> QED
        BY <1>2, <1>9, <3>2, <4>1 DEF FieldOn
    <3> QED
      BY <3>1, <3>2
  <2> QED
    BY <2>1, <2>2
<1>18. CallsOK'
  <2>1. CallOK(t, n)'
    <3>1. Used(c)' /\ cells'[c].rc = 0 /\ i + 1 \in 1 .. Len(cells'[c].fields) + 1
      BY SMTT(40), <1>2, <1>3, <1>9 DEF Used
    <3> QED
      BY <1>2, <1>8, <3>1 DEF CallOK, DisposeOK
  <2>2. CallOK(t, m)'
    <3>1. call.op = "byref" /\ cells[c].fields[i] \in Cell => cells[cells[c].fields[i]].from \in Var
      BY <1>2, <1>3, <1>4 DEF IInv, FieldsOK, ContentOK
    <3>2. call.ref \in Item
      BY <1>3, <1>4
    <3>3. work'[t][m].op = "byref" => ByrefOK(t, m)'
      BY ONLY <1>4, <1>7, <1>9, <3>1, <3>2 DEF ByrefOK
    <3>4. work'[t][m].op = "release" => work'[t][m].ref \in Item
      BY ONLY <1>4, <1>7, <3>2
    <3>5. work'[t][m].op \in {"byref", "release"}
      BY ONLY <1>4, <1>7
    <3> QED
      BY ONLY <3>3, <3>4, <3>5 DEF CallOK
  <2>3. \A k \in n .. m : k > 0 => CallOK(t, k)'
    BY <1>8, <2>1, <2>2
  <2> QED
    BY SMTT(40), <1>1, <1>7, <1>8, <1>16, <2>3, CallsGoOn
<1>19. CopiesUseAllocator'
  <2>1. \A k \in n .. m : k > 0 /\ work'[t][k].op = "keep" =>
          cells'[work'[t][k].ref].by = override[t]
    BY <1>11
  <2>2. ASSUME NEW u \in Thread PROVE Asked(u)' = Asked(u)
    <3>1. /\ n = 1 => work[t][n].op # "restore"
          /\ n <= 1 /\ m >= 1 => work'[t][1].op # "restore"
      BY <1>1, <1>8
    <3> QED
      BY <1>0, <1>1, <1>7, <1>8, <3>1, AskedKept
  <2> QED
    <3>1. 1 .. n - 1 \subseteq DOMAIN work[t] /\ n \in Nat
      BY ONLY <1>1
    <3>2. OnlyTop(t, n) /\ DOMAIN work'[t] = 1 .. m /\ Spares(t, n) /\ override' = override
      BY ONLY <1>7, <1>9, <1>16
    <3> QED
      BY ONLY IInv, t \in Thread, m \in Nat, <2>1, <2>2, <3>1, <3>2, AllocatorsGoOn
<1>20. ForwardOK'
  BY <1>9 DEF IInv, ForwardOK
<1>21. ASSUME NEW d \in Cell PROVE CellOK(d)'
  <2>1. PICK x \in 0 .. 1 : x = IF d = cells[c].fields[i] THEN 1 ELSE 0
    OBVIOUS
  <2>2. IsFiniteSet(CallsOn(d)') /\ Cardinality(CallsOn(d)') = Cardinality(CallsOn(d)) + x
    <3>1. /\ IsFiniteSet(CallsOn(d)')
          /\ Cardinality(CallsOn(d)') = Cardinality(CallsOn(d)) + N(Counts(work'[t][m], d))
      <4>1. IsFiniteSet(CallsOn(d)) /\ (n > 0 => GoesOn(t, n))
        BY <1>7, Sums
      <4> QED
        BY <1>0, <1>1, <1>6, <1>7, <1>8, <4>1, CountInto
    <3>2. N(Counts(work'[t][m], d)) = x
      BY <1>4, <1>7, <2>1 DEF Counts, N
    <3> QED
      BY <3>1, <3>2
  <2>3. IsFiniteSet(FieldsOn(d)') /\ Cardinality(FieldsOn(d)') = Cardinality(FieldsOn(d)) + (0 - x)
    <3>1. /\ IsFiniteSet(FieldsOn(d)')
          /\ Cardinality(FieldsOn(d)') = Cardinality(FieldsOn(d)) - N(FieldOn(c, i, d))
      <4>1. /\ IsFiniteSet(FieldsOn(d)) /\ ~FieldOn(c, i, d)' /\ c \in Cell \cup Holder
            /\ \A e \in Cell \cup Holder : \A j :
                 e # c \/ j # i => (FieldOn(e, j, d)' <=> FieldOn(e, j, d))
        BY <1>2, <1>17, Sums
      <4> QED
        BY ONLY <4>1, FieldLost
    <3>2. N(FieldOn(c, i, d)) = x
      BY <1>17, <2>1 DEF N
    <3> QED
      BY <3>1, <3>2, Sums
  <2>4. VarsOn(d)' = VarsOn(d) /\ held'[d] = held[d]
    BY <1>9 DEF VarsOn
  <2>5. References(d)' = References(d)
    <3>1. /\ held'[d] = held[d] + 0 /\ Cardinality(VarsOn(d)') = Cardinality(VarsOn(d)) + 0
          /\ x \in Int /\ 0 - x \in Int /\ 0 \in Int
      BY <2>4, Sums
    <3>2. References(d)' = References(d) + 0 + 0 + x + (0 - x)
      BY ZenonT(40), <2>2, <2>3, <3>1, Balance
    <3> QED
      BY <3>1, <3>2, Sums
  <2>6. DisposesOf(d) # {} => DisposesOf(d)' # {}
    <3>1. CASE d # c
      BY <1>13, <3>1
    <3>2. CASE d = c
      <4>1. <<t, n>> \in DisposesOf(c)'
        BY SMTT(40), <1>1, <1>6, <1>7, <1>8, DisposesOfAreNext DEF Disposes
      <4> QED
        BY <3>2, <4>1
    <3> QED
      BY <3>1, <3>2
  <2> QED
    BY <1>9, <2>2, <2>3, <2>5, <2>6, SameCount, ZerosKept DEF CellOK
<1> QED
  BY <1>10, <1>12, <1>15, <1>16, <1>18, <1>19, <1>20, <1>21, Whole

LEMMA DisposeStep ==
  ASSUME IInv, NEW t \in Thread, Dispose(t)
  PROVE  IInv'
<1>1. PICK n : n = Len(work[t])
  OBVIOUS
<1>2. PICK c : c = work[t][n].ref
  OBVIOUS
<1>3. PICK i : i = work[t][n].at
  OBVIOUS
<1>4. Doing(t, "dispose") /\ UNCHANGED <<forward, open, held, override>>
  BY DEF Dispose
<1>5. Innermost(t) = work[t][n]
  BY <1>1, <1>4, DoingCall
<1>6. CASE i > Len(cells[c].fields)
  <2>1. cells' = [cells EXCEPT ![c] = Unused] /\ Return(t)
    BY <1>2, <1>3, <1>5, <1>6 DEF Dispose
  <2> QED
    BY <1>1, <1>2, <1>3, <1>4, <1>6, <2>1, DisposeEndStep
<1>7. CASE ~(i > Len(cells[c].fields))
  <2>1. PICK call : call = Call(IF Captures[cells[c].from][i] \in Var THEN "byref" ELSE "release",
                                cells[c].fields[i], 0, Nil)
    OBVIOUS
  <2>2. Advance(t, <<call>>) /\ cells' = cells
    BY <1>2, <1>3, <1>5, <1>7, <2>1 DEF Dispose
  <2>3. Advance(t, <<call>>) /\ UNCHANGED <<cells, forward, open, held, override>>
    BY <1>4, <2>2
  <2>4. i \in DOMAIN cells[c].fields /\ cells[c].fields[i] \in Item
    <3>1. /\ Len(cells[c].fields) \in Nat /\ DOMAIN cells[c].fields = 1 .. Len(cells[c].fields)
          /\ cells[c].fields \in Seq(Item)
          /\ i \in 1 .. Len(cells[c].fields) + 1
      BY <1>1, <1>2, <1>3, <1>4, Disposing
    <3>2. i \in DOMAIN cells[c].fields
      BY <1>7, <3>1
    <3> QED
      BY <3>1, <3>2, ElementOfSeq
  <2>5. /\ call \in RuntimeCall /\ call.op \in {"byref", "release"}
        /\ call.op = "byref" => Captures[cells[c].from][i] \in Var
        /\ call.ref = cells[c].fields[i]
    BY <2>1, <2>4 DEF RuntimeCall, Call
  <2> QED
    BY <1>1, <1>2, <1>3, <1>4, <2>3, <2>4, <2>5, DisposeValueStep
<1> QED
  BY <1>6, <1>7
-----------------------------------------------------------------------------
(* Values that are put into a field *)

\* The block that a copy helper works on has a reference, and no other call
\* relies on it.
LEMMA MakerAlone ==
  ASSUME IInv, NEW t \in Thread, NEW p \in DOMAIN work[t], work[t][p].op = "keep",
         NEW e, e = work[t][p].ref
  PROVE  /\ e \in Cell /\ cells[e].from \in Literal /\ cells[e].rc \in 1 .. Latch
         /\ DisposesOf(e) = {} /\ \A i : ~Dropped(e, i)
         /\ \A u \in Thread : \A k \in DOMAIN work[u] :
              Relies(work[u][k]) /\ work[u][k].ref = e => u = t /\ k = p
<1>1. CallOK(t, p)
  BY DEF IInv, CallsOK
<1>2. e \in Cell /\ cells[e].from \in Literal
  BY <1>1 DEF CallOK, KeepOK
<1>3. cells[e].rc \in 1 .. Latch
  <2>1. <<t, p>> \in CallsOn(e)
    BY CallsOnAre DEF Counts
  <2> QED
    BY <1>2, <2>1, Counted
<1>4. ASSUME NEW u \in Thread, NEW k \in DOMAIN work[u], work[u][k].ref = e
      PROVE  work[u][k].op # "dispose" /\ work[u][k].op # "byref"
  <2>1. CallOK(u, k)
    BY DEF IInv, CallsOK
  <2> QED
    BY <1>2, <1>3, <1>4, <2>1, Distinct DEF CallOK, DisposeOK, ByrefOK
<1>5. ASSUME NEW u \in Thread, NEW k \in DOMAIN work[u], work[u][k].ref = e,
             work[u][k].op = "keep"
      PROVE  u = t /\ k = p
  <2>1. <<u, k>> \in Calls /\ <<t, p>> \in Calls
    BY CallsAre
  <2>2. CallAt(<<u, k>>) = work[u][k] /\ CallAt(<<t, p>>) = work[t][p]
    BY DEF CallAt
  <2>3. <<u, k>> = <<t, p>>
    BY <1>5, <2>1, <2>2 DEF IInv, Alone
  <2> QED
    BY <2>3
<1>6. DisposesOf(e) = {}
  BY <1>4, DisposesOfAre DEF Disposes
<1>7. \A i : ~Dropped(e, i)
  BY <1>2, <1>4, EmptiesHolder, DroppedIs DEF Drops
<1>8. e \notin Holder
  BY <1>2, Distinct
<1> QED
  BY <1>2, <1>3, <1>4, <1>5, <1>6, <1>7, <1>8 DEF Relies

\* So has a collection that an initialiser fills, or that is given an item.
LEMMA FillerAlone ==
  ASSUME IInv, HoldersAlone, NEW t \in Thread, NEW p \in DOMAIN work[t],
         work[t][p].op = "fill", NEW e, e = work[t][p].ref
  PROVE  /\ e \in Holder /\ Used(e) /\ \A i : ~Dropped(e, i)
         /\ \A u \in Thread : \A k \in DOMAIN work[u] : work[u][k].ref = e => u = t /\ k = p
<1>1. CallOK(t, p)
  BY DEF IInv, CallsOK
<1>2. e \in Holder /\ Used(e)
  BY <1>1 DEF CallOK, FillOK
<1>3. ASSUME NEW u \in Thread, NEW k \in DOMAIN work[u], work[u][k].ref = e
      PROVE  u = t /\ k = p
  <2>1. <<u, k>> \in Calls /\ <<t, p>> \in Calls
    BY CallsAre
  <2>2. CallAt(<<u, k>>) = work[u][k] /\ CallAt(<<t, p>>) = work[t][p]
    BY DEF CallAt
  <2>3. <<u, k>> = <<t, p>>
    BY <1>2, <1>3, <2>1, <2>2 DEF HoldersAlone
  <2> QED
    BY <2>3
<1>4. \A i : ~Dropped(e, i)
  BY <1>3, DroppedIs DEF Drops
<1> QED
  BY <1>2, <1>3, <1>4

LEMMA MakerSpares ==
  ASSUME IInv, NEW t \in Thread, NEW n \in DOMAIN work[t], work[t][n].op = "keep",
         \A c \in Cell : c # work[t][n].ref /\ (CallsOn(c) # {} \/ DisposesOf(c) # {}) => Keeps(c),
         \A k \in Holder : Keeps(k)
  PROVE  Spares(t, n)
<1>0. \A u \in Thread : \A k \in DOMAIN work[u] : Relies(work[u][k]) /\ work[u][k].ref \notin Holder =>
        CallsOn(work[u][k].ref) # {} \/ DisposesOf(work[u][k].ref) # {}
  <2> SUFFICES ASSUME NEW u \in Thread, NEW k \in DOMAIN work[u], Relies(work[u][k]),
                      work[u][k].ref \notin Holder
               PROVE  <<u, k>> \in CallsOn(work[u][k].ref) \cup DisposesOf(work[u][k].ref)
    OBVIOUS
  <2> QED
    BY CallsOnAre, DisposesOfAre DEF Relies, Counts, Disposes
<1>1. \A u \in Thread : \A k \in DOMAIN work[u] :
        Relies(work[u][k]) /\ work[u][k].ref = work[t][n].ref => u = t /\ k = n
  BY MakerAlone
<1>2. n \in Nat
  BY StackTop DEF IInv
<1> QED
  BY <1>0, <1>1, <1>2 DEF Spares, Relies

\* The field i of e has the value x now.
Put(e, i, x) ==
  /\ DOMAIN cells'[e].fields = DOMAIN cells[e].fields
  /\ Len(cells'[e].fields) = Len(cells[e].fields)
  /\ cells'[e].fields[i] = x
  /\ \A j \in DOMAIN cells[e].fields : j # i => cells'[e].fields[j] = cells[e].fields[j]

LEMMA PutTyped ==
  ASSUME NEW content \in Content, NEW i \in DOMAIN content.fields, NEW x \in Item,
         NEW r \in 0 .. Latch
  PROVE  LET new == [from |-> content.from, rc |-> r,
                     fields |-> [content.fields EXCEPT ![i] = x], by |-> content.by] IN
         /\ new \in Content
         /\ DOMAIN new.fields = DOMAIN content.fields
         /\ Len(new.fields) = Len(content.fields)
         /\ new.fields[i] = x
         /\ \A j \in DOMAIN content.fields : j # i => new.fields[j] = content.fields[j]
<1>1. PICK s : s = content.fields
  OBVIOUS
<1>2. s \in Seq(Item) /\ i \in DOMAIN s
  BY <1>1 DEF Content
<1>3. PICK q : q = [s EXCEPT ![i] = x]
  OBVIOUS
<1>4. /\ q \in Seq(Item) /\ Len(q) = Len(s) /\ DOMAIN q = DOMAIN s
      /\ \A j \in DOMAIN s : q[j] = IF j = i THEN x ELSE s[j]
  <2>1. i \in 1 .. Len(s)
    BY <1>2, LenProperties
  <2>2. /\ q \in Seq(Item) /\ Len(q) = Len(s)
        /\ \A j \in 1 .. Len(s) : q[j] = IF j = i THEN x ELSE s[j]
    BY <1>2, <1>3, <2>1, ExceptSeq
  <2> QED
    BY <1>2, <2>2, LenProperties
<1>5. content.from \in Literal \cup Var \cup Kind \cup {Nil} /\ content.by \in Allocator \cup {Nil}
  BY DEF Content
<1> QED
  BY <1>1, <1>2, <1>3, <1>4, <1>5 DEF Content

WithField(f, g, e, i, x) == g = [f EXCEPT ![e].fields[i] = x]
OnlyField(f, g, e, i, x) ==
  /\ g \in [Cell \cup Holder -> Content]
  /\ g[e].from = f[e].from /\ g[e].by = f[e].by /\ g[e].rc = f[e].rc
  /\ DOMAIN g[e].fields = DOMAIN f[e].fields /\ Len(g[e].fields) = Len(f[e].fields)
  /\ g[e].fields[i] = x
  /\ \A j \in DOMAIN f[e].fields : j # i => g[e].fields[j] = f[e].fields[j]
  /\ \A y \in Cell \cup Holder : y # e => g[y] = f[y]

LEMMA FieldUpdate ==
  ASSUME NEW f \in [Cell \cup Holder -> Content], NEW e \in Cell \cup Holder, NEW i \in DOMAIN f[e].fields,
         NEW x \in Item, NEW g, WithField(f, g, e, i, x)
  PROVE  OnlyField(f, g, e, i, x)
<1>1. PICK content : content = f[e]
  OBVIOUS
<1>2. content \in Content /\ content.rc \in 0 .. Latch
  BY <1>1 DEF Content
<1>3. PICK new : new = [from |-> content.from, rc |-> content.rc,
                        fields |-> [content.fields EXCEPT ![i] = x], by |-> content.by]
  OBVIOUS
<1>4. /\ new \in Content
      /\ DOMAIN new.fields = DOMAIN content.fields
      /\ Len(new.fields) = Len(content.fields)
      /\ new.fields[i] = x
      /\ \A j \in DOMAIN content.fields : j # i => new.fields[j] = content.fields[j]
  BY <1>1, <1>2, <1>3, PutTyped
<1>5. [content EXCEPT !.fields[i] = x] = new
  <2>1. PICK kind, counts, fld, allocs : Content = [from : kind, rc : counts, fields : fld, by : allocs]
    BY DEF Content
  <2>2. content \in [from : kind, rc : counts, fields : fld, by : allocs]
    BY <1>2, <2>1
  <2>3. PICK q : q = [content.fields EXCEPT ![i] = x]
    OBVIOUS
  <2>4. [content EXCEPT !.fields[i] = x] = [content EXCEPT !.fields = q]
    BY <2>3
  <2>5. [content EXCEPT !.fields = q] =
          [from |-> content.from, rc |-> content.rc, fields |-> q, by |-> content.by]
    BY <2>2
  <2> QED
    BY <1>3, <2>3, <2>4, <2>5
<1>6. g = [f EXCEPT ![e] = new]
  BY <1>1, <1>5 DEF WithField
<1>7. /\ g \in [Cell \cup Holder -> Content] /\ g[e] = new
      /\ \A y \in Cell \cup Holder : y # e => g[y] = f[y]
  BY <1>4, <1>6
<1> QED
  BY <1>1, <1>3, <1>4, <1>7 DEF OnlyField

LEMMA FieldSet ==
  ASSUME TypeOK, NEW e \in Cell \cup Holder, NEW i \in DOMAIN cells[e].fields, NEW x \in Item,
         cells' = [cells EXCEPT ![e].fields[i] = x]
  PROVE  /\ cells' \in [Cell \cup Holder -> Content] /\ Put(e, i, x)
         /\ cells'[e].from = cells[e].from /\ cells'[e].by = cells[e].by
         /\ cells'[e].rc = cells[e].rc
         /\ \A y \in Cell \cup Holder : y # e => cells'[y] = cells[y]
<1>1. cells \in [Cell \cup Holder -> Content]
  BY DEF TypeOK
<1>2. WithField(cells, cells', e, i, x)
  BY DEF WithField
<1>3. OnlyField(cells, cells', e, i, x)
  BY <1>1, <1>2, FieldUpdate
<1> QED
  BY <1>3 DEF OnlyField, Put

\* A helper puts a value into a field of e, and at most one allocation gets
\* contents that have no fields.
LEMMA FieldPut ==
  ASSUME IInv, TypeOK', NEW e \in Cell \cup Holder, NEW i \in DOMAIN cells[e].fields,
         NEW x \in Item, cells[e].fields[i] = Nil, Put(e, i, x), Used(e), cells'[e].from = cells[e].from,
         \A y \in Cell \cup Holder : y # e => cells'[y].fields = cells[y].fields,
         \A k \in Holder : k # e => cells'[k] = cells[k],
         \A y \in Cell : FieldsOn(y) # {} => cells'[y].from = cells[y].from,
         \A y \in Cell : y # e /\ cells'[y].from # cells[y].from =>
           cells'[y].from \in Var /\ cells[y].fields = <<>>,
         \A y \in Cell : y # e /\ ~Used(y)' => cells'[y] = cells[y],
         \A j : ~Dropped(e, j),
         \A c, j : Dropped(c, j)' <=> Dropped(c, j),
         e \in Cell /\ x \in Cell /\ Captures[cells[e].from][i] \in Var => cells'[x].from \in Var
  PROVE  /\ FieldsOK' /\ HoldersOK'
         /\ \A d \in Cell :
              /\ IsFiniteSet(FieldsOn(d)')
              /\ Cardinality(FieldsOn(d)') = Cardinality(FieldsOn(d)) + N(d = x)
<1>1. ASSUME NEW y \in Cell, NEW j \in DOMAIN cells[y].fields, cells[y].fields[j] \in Cell,
             ~Dropped(y, j)
      PROVE  cells'[cells[y].fields[j]].from = cells[cells[y].fields[j]].from
  <2>1. FieldOn(y, j, cells[y].fields[j])
    BY <1>1 DEF FieldOn
  <2>2. <<y, j>> \in FieldsOn(cells[y].fields[j])
    BY <2>1, FieldsOnAre
  <2> QED
    BY <1>1, <2>2
<1>2. ASSUME e \in Cell PROVE ContentOK(e)'
  <2>1. ContentOK(e) /\ Used(e)' /\ e \in Cell
    BY <1>2 DEF IInv, FieldsOK, Used
  <2>2. /\ cells'[e].from \in Var => cells'[e].fields = <<>>
        /\ cells'[e].from \in Literal => Len(cells'[e].fields) = Len(Captures[cells'[e].from])
    <3>1. cells[e].fields # <<>>
      OBVIOUS
    <3>2. /\ cells[e].from \in Var => cells[e].fields = <<>>
          /\ cells[e].from \in Literal => Len(cells[e].fields) = Len(Captures[cells[e].from])
      BY ONLY <2>1 DEF ContentOK
    <3>3. cells'[e].from = cells[e].from /\ Len(cells'[e].fields) = Len(cells[e].fields)
      BY DEF Put
    <3> QED
      BY ONLY <3>1, <3>2, <3>3
  <2>3. ASSUME NEW j \in DOMAIN cells'[e].fields, cells'[e].fields[j] \in Cell,
               Captures[cells'[e].from][j] \in Var
        PROVE  cells'[cells'[e].fields[j]].from \in Var
    <3>1. CASE j = i
      BY <2>1, <2>3, <3>1 DEF Put
    <3>2. CASE j # i
      <4>1. j \in DOMAIN cells[e].fields /\ cells'[e].fields[j] = cells[e].fields[j]
        BY <2>3, <3>2 DEF Put
      <4>2. cells[cells[e].fields[j]].from \in Var
        BY <2>1, <2>3, <4>1 DEF ContentOK
      <4> QED
        BY <1>1, <2>3, <4>1, <4>2
    <3> QED
      BY <3>1, <3>2
  <2> QED
    BY <2>1, <2>2, <2>3 DEF ContentOK
<1>3. ASSUME NEW y \in Cell, y # e PROVE ContentOK(y)'
  <2>1. ContentOK(y) /\ cells'[y].fields = cells[y].fields
    BY <1>3 DEF IInv, FieldsOK
  <2>2. CASE cells'[y].from = cells[y].from
    <3>1. ~Used(y)' => cells'[y] = Unused
      BY <1>3, <2>1, <2>2 DEF ContentOK, Used
    <3>2. ASSUME NEW j \in DOMAIN cells'[y].fields, cells'[y].fields[j] \in Cell, ~Dropped(y, j)',
                 Captures[cells'[y].from][j] \in Var
          PROVE  cells'[cells'[y].fields[j]].from \in Var
      BY <1>1, <2>1, <2>2, <3>2 DEF ContentOK
    <3> QED
      BY <2>1, <2>2, <3>1, <3>2 DEF ContentOK
  <2>3. CASE cells'[y].from # cells[y].from
    <3>1. cells'[y].from \in Var /\ cells'[y].fields = <<>>
      BY <1>3, <2>1, <2>3
    <3>2. Used(y)' /\ cells'[y].from \notin Literal \cup Kind
      BY <3>1, Distinct DEF Used
    <3> QED
      BY <3>1, <3>2 DEF ContentOK
  <2> QED
    BY <2>2, <2>3
<1>4. FieldsOK' /\ HoldersOK'
  <2>1. FieldsOK'
    BY <1>2, <1>3 DEF FieldsOK
  <2> QED
    BY <2>1 DEF IInv, HoldersOK, Used
<1>5. ASSUME NEW d \in Cell
      PROVE  /\ IsFiniteSet(FieldsOn(d)')
             /\ Cardinality(FieldsOn(d)') = Cardinality(FieldsOn(d)) + N(d = x)
  <2>1. ~FieldOn(e, i, d)
    BY Distinct DEF FieldOn
  <2>2. FieldOn(e, i, d)' <=> d = x
    BY DEF FieldOn, Put
  <2>3. ASSUME NEW y \in Cell \cup Holder, NEW j, y # e \/ j # i
        PROVE  FieldOn(y, j, d)' <=> FieldOn(y, j, d)
    <3>1. CASE y # e
      BY <3>1 DEF FieldOn
    <3>2. CASE y = e
      BY <2>3, <3>2 DEF FieldOn, Put
    <3> QED
      BY <3>1, <3>2
  <2>4. /\ IsFiniteSet(FieldsOn(d)')
        /\ Cardinality(FieldsOn(d)') = Cardinality(FieldsOn(d)) + N(FieldOn(e, i, d)')
    <3>1. IsFiniteSet(FieldsOn(d))
      BY Sums
    <3> QED
      BY <2>1, <2>3, <3>1, FieldGained
  <2> QED
    BY <2>2, <2>4 DEF N
<1> QED
  BY <1>4, <1>5

\* A copy is over: what it has made is where it belongs, which has the
\* reference that the call had.
Delivered(t, n, x) ==
  \/ work[t][n].op = "keep" /\ x = work[t][n].ref
  \/ work[t][n].op = "copy" /\ x \notin Cell /\ x \in Item

LEMMA DeliverPart ==
  ASSUME IInv, NEW t \in Thread, NEW n, n = Len(work[t]), work[t] # <<>>, NEW x, Delivered(t, n, x),
         Return(t), UNCHANGED <<forward, open, override>>
  PROVE  /\ n \in Nat \ {0} /\ n - 1 \in Nat /\ OnlyTop(t, n)
         /\ DOMAIN work[t] = 1 .. n /\ DOMAIN work'[t] = 1 .. n - 1
         /\ work' \in [Thread -> Seq(RuntimeCall)]
         /\ \A c : DisposesOf(c)' = DisposesOf(c)
         /\ \A c, i : Dropped(c, i)' <=> Dropped(c, i)
         /\ Alone("keep")' /\ Alone("dispose")'
         /\ \A c \in Cell :
              /\ IsFiniteSet(CallsOn(c)')
              /\ Cardinality(CallsOn(c)') = Cardinality(CallsOn(c)) - N(c = x)
         /\ \A u \in Thread : Asked(u)' = Asked(u)
         /\ forward' = forward /\ open' = open /\ override' = override
         /\ x \in Item /\ n \in DOMAIN work[t] /\ CallOK(t, n)
<1>1. work[t][n].op \in {"keep", "copy"}
  BY DEF Delivered
<1>2. n \in DOMAIN work[t] /\ CallOK(t, n)
  BY StackTop DEF IInv, CallsOK
<1>3. /\ n \in Nat \ {0} /\ n - 1 \in Nat /\ OnlyTop(t, n)
      /\ DOMAIN work[t] = 1 .. n /\ DOMAIN work'[t] = 1 .. n - 1
      /\ work' \in [Thread -> Seq(RuntimeCall)]
      /\ \A c : DisposesOf(c)' = DisposesOf(c)
      /\ \A c, i : Dropped(c, i)' <=> Dropped(c, i)
      /\ Alone("keep")' /\ Alone("dispose")'
      /\ \A c \in Cell :
           /\ IsFiniteSet(CallsOn(c)')
           /\ Cardinality(CallsOn(c)') = Cardinality(CallsOn(c)) - N(Counts(work[t][n], c))
      /\ \A u \in Thread : Asked(u)' = Asked(u)
  BY <1>1, ReturnStep
<1>4. \A c \in Cell : N(Counts(work[t][n], c)) = N(c = x)
  BY DEF Delivered, Counts, N
<1>5. x \in Item
  BY <1>2 DEF Delivered, CallOK, KeepOK, Item
<1> QED
  BY <1>2, <1>3, <1>4, <1>5

LEMMA DeliverToProgram ==
  ASSUME IInv, NEW t \in Thread, NEW n, n = Len(work[t]), work[t] # <<>>, NEW x, Delivered(t, n, x),
         Return(t), UNCHANGED <<forward, open, override>>, cells' = cells,
         held' = IF x \in Cell THEN [held EXCEPT ![x] = @ + 1] ELSE held
  PROVE  IInv'
<1>0. TypeOK
  BY DEF IInv
<1>1. /\ n \in Nat \ {0} /\ n - 1 \in Nat /\ OnlyTop(t, n)
      /\ DOMAIN work[t] = 1 .. n /\ DOMAIN work'[t] = 1 .. n - 1
      /\ work' \in [Thread -> Seq(RuntimeCall)]
      /\ \A c : DisposesOf(c)' = DisposesOf(c)
      /\ \A c, i : Dropped(c, i)' <=> Dropped(c, i)
      /\ Alone("keep")' /\ Alone("dispose")'
      /\ \A c \in Cell :
           /\ IsFiniteSet(CallsOn(c)')
           /\ Cardinality(CallsOn(c)') = Cardinality(CallsOn(c)) - N(c = x)
      /\ \A u \in Thread : Asked(u)' = Asked(u)
      /\ forward' = forward /\ open' = open /\ override' = override
  BY SMTT(40), DeliverPart
<1>2. held' \in [Cell -> Nat] /\ \A d \in Cell : held'[d] = held[d] + N(d = x)
  <2>1. held \in [Cell -> Nat]
    BY <1>0 DEF TypeOK
  <2> QED
    BY <2>1 DEF N
<1>3. TypeOK'
  BY <1>0, <1>1, <1>2 DEF TypeOK
<1>4. /\ FieldsOK' /\ HoldersOK' /\ Spares(t, n) /\ \A d : FieldsOn(d)' = FieldsOn(d)
  BY <1>1, <1>3, SameCells
<1>5. CallsOK' /\ CopiesUseAllocator'
  <2>1. /\ n \in Nat /\ \A k \in n .. n - 1 : k > 0 => CallOK(t, k)'
        /\ 1 .. n - 1 \subseteq DOMAIN work[t]
    BY <1>1
  <2>2. \A k \in n .. n - 1 : k > 0 /\ work'[t][k].op = "keep" =>
          cells'[work'[t][k].ref].by = override[t]
    BY <1>1
  <2>3. CallsOK'
    BY <1>1, <1>4, <2>1, CallsGoOn
  <2> QED
    BY <1>1, <1>4, <2>1, <2>2, <2>3, AllocatorsGoOn
<1>6. ForwardOK'
  BY <1>1 DEF IInv, ForwardOK
<1>7. ASSUME NEW d \in Cell PROVE CellOK(d)'
  <2>1. PICK y \in 0 .. 1 : y = N(d = x)
    BY DEF N
  <2>2. VarsOn(d)' = VarsOn(d) /\ FieldsOn(d)' = FieldsOn(d)
    BY <1>1, <1>4 DEF VarsOn
  <2>3. /\ IsFiniteSet(CallsOn(d)') /\ IsFiniteSet(FieldsOn(d)')
        /\ Cardinality(CallsOn(d)') = Cardinality(CallsOn(d)) + (0 - y)
    BY <1>1, <2>1, <2>2, Sums
  <2>4. held'[d] = held[d] + y
    BY <1>2, <2>1
  <2>5. References(d)' = References(d)
    BY SMTT(40), <2>2, <2>3, <2>4, Sums DEF References
  <2> QED
    BY <1>1, <2>3, <2>5, SameCount, ZerosKept DEF CellOK
<1> QED
  BY <1>1, <1>3, <1>4, <1>5, <1>6, <1>7, Whole

\* The field i of e, and nothing else, has the value x now.
Filled(e, i, x) ==
  /\ cells' \in [Cell \cup Holder -> Content] /\ Put(e, i, x)
  /\ cells'[e].from = cells[e].from /\ cells'[e].by = cells[e].by
  /\ cells'[e].rc = cells[e].rc
  /\ \A y \in Cell \cup Holder : y # e => cells'[y] = cells[y]

\* A call n is in the call p, which makes e and waits for the value of field i.
WaitsFor(t, n, p, e, i) ==
  /\ p \in DOMAIN work[t] /\ p \in Nat /\ p > 0 /\ n = p + 1 /\ p = n - 1
  /\ work[t][p].ref = e
  /\ i \in DOMAIN cells[e].fields /\ cells[e].fields[i] = Nil
  /\ \/ /\ work[t][p].op = "keep" /\ e \in Cell /\ work[t][p].at = i + 1
        /\ Captures[cells[e].from][i] \in Literal
     \/ /\ work[t][p].op = "fill" /\ e \in Holder /\ work[t][p].at - 1 \in DOMAIN work[t][p].into
        /\ ~work[t][p].into[work[t][p].at - 1].drops
        /\ work[t][p].into[work[t][p].at - 1].slot = i

LEMMA MakerWaits ==
  ASSUME IInv, NEW t \in Thread, NEW n \in DOMAIN work[t], Placed(t, n),
         NEW e, e = work[t][n].into.cell, NEW i, i = work[t][n].into.at
  PROVE  \E p \in DOMAIN work[t] : WaitsFor(t, n, p, e, i)
<1>1. n \in Nat /\ DOMAIN work[t] = 1 .. Len(work[t]) /\ n > 1
  BY StackTop DEF IInv, Placed
<1>2. PICK p \in Nat : p = n - 1
  BY <1>1
<1>3. p \in DOMAIN work[t] /\ p > 0 /\ n = p + 1
  BY <1>1, <1>2, StackTop DEF IInv
<1>4. PICK outer : outer = work[t][p]
  OBVIOUS
<1>5. /\ outer.ref = e /\ i \in DOMAIN cells[e].fields /\ cells[e].fields[i] = Nil
      /\ \/ /\ outer.op = "keep" /\ e \in Cell /\ outer.at = i + 1
            /\ Captures[cells[e].from][i] \in Literal
         \/ /\ outer.op = "fill" /\ e \in Holder /\ outer.at - 1 \in DOMAIN outer.into
            /\ ~outer.into[outer.at - 1].drops /\ outer.into[outer.at - 1].slot = i
  BY <1>2, <1>4 DEF Placed
<1>6. /\ p \in DOMAIN work[t] /\ p \in Nat /\ p > 0 /\ n = p + 1 /\ p = n - 1
      /\ work[t][p].ref = e
      /\ i \in DOMAIN cells[e].fields /\ cells[e].fields[i] = Nil
  BY ONLY <1>2, <1>3, <1>4, <1>5
<1>7. WaitsFor(t, n, p, e, i)
  BY ONLY <1>4, <1>5, <1>6, Zenon DEF WaitsFor
<1> QED
  BY <1>3, <1>7

LEMMA WaiterAlone ==
  ASSUME IInv, HoldersAlone, NEW t \in Thread, NEW n, NEW p, NEW e, NEW i, WaitsFor(t, n, p, e, i)
  PROVE  /\ e \in Cell \cup Holder /\ Used(e) /\ \A j : ~Dropped(e, j)
         /\ \A u \in Thread : \A k \in DOMAIN work[u] :
              Relies(work[u][k]) /\ work[u][k].ref = e => u = t /\ k = p
<1>1. p \in DOMAIN work[t] /\ e = work[t][p].ref
  BY DEF WaitsFor
<1>2. CASE work[t][p].op = "keep"
  <2>1. e \in Cell /\ cells[e].from \in Literal /\ \A j : ~Dropped(e, j)
    BY <1>1, <1>2, MakerAlone
  <2>2. Used(e)
    BY <2>1, Distinct DEF Used
  <2> QED
    BY <1>1, <1>2, <2>1, <2>2, MakerAlone
<1>3. CASE work[t][p].op = "fill"
  BY <1>1, <1>3, FillerAlone
<1> QED
  BY <1>2, <1>3 DEF WaitsFor

LEMMA FilledFields ==
  ASSUME IInv, HoldersAlone, TypeOK', NEW t \in Thread, NEW n, NEW p, NEW e, NEW i, NEW x \in Item,
         WaitsFor(t, n, p, e, i), Filled(e, i, x),
         \A c, j : Dropped(c, j)' <=> Dropped(c, j)
  PROVE  /\ FieldsOK' /\ HoldersOK' /\ Spares(t, p)
         /\ \A d \in Cell :
              /\ IsFiniteSet(FieldsOn(d)')
              /\ Cardinality(FieldsOn(d)') = Cardinality(FieldsOn(d)) + N(d = x)
<1>1. /\ e \in Cell \cup Holder /\ Used(e) /\ \A j : ~Dropped(e, j)
      /\ \A u \in Thread : \A k \in DOMAIN work[u] :
           Relies(work[u][k]) /\ work[u][k].ref = e => u = t /\ k = p
  BY WaiterAlone
<1>2. /\ Put(e, i, x) /\ cells'[e].from = cells[e].from
      /\ \A y \in Cell \cup Holder : y # e => cells'[y] = cells[y]
  BY DEF Filled
<1>3. /\ i \in DOMAIN cells[e].fields /\ cells[e].fields[i] = Nil
      /\ e \in Cell => Captures[cells[e].from][i] \in Literal
  BY Distinct DEF WaitsFor
<1>4. Used(e)
  BY <1>1
<1>5. \A y \in Cell \cup Holder : y # e => cells'[y].fields = cells[y].fields
  BY <1>2
<1>6. \A k \in Holder : k # e => cells'[k] = cells[k]
  BY <1>2
<1>7. \A y \in Cell : FieldsOn(y) # {} => cells'[y].from = cells[y].from
  BY <1>2
<1>8. \A y \in Cell : y # e /\ cells'[y].from # cells[y].from =>
        cells'[y].from \in Var /\ cells[y].fields = <<>>
  BY <1>2
<1>9. \A y \in Cell : y # e /\ ~Used(y)' => cells'[y] = cells[y]
  BY <1>2
<1>10. e \in Cell /\ x \in Cell /\ Captures[cells[e].from][i] \in Var => cells'[x].from \in Var
  BY <1>3, Distinct
<1>11. /\ FieldsOK' /\ HoldersOK'
       /\ \A d \in Cell :
            /\ IsFiniteSet(FieldsOn(d)')
            /\ Cardinality(FieldsOn(d)') = Cardinality(FieldsOn(d)) + N(d = x)
  BY <1>1, <1>2, <1>3, <1>4, <1>5, <1>6, <1>7, <1>8, <1>9, <1>10, FieldPut
<1>12. Spares(t, p)
  <2>1. \A y \in Cell \cup Holder : y # e => Keeps(y)
    BY <1>2 DEF Keeps
  <2>2. p \in Nat
    BY DEF WaitsFor
  <2> QED
    BY <1>1, <2>1, <2>2 DEF Spares, Relies
<1> QED
  BY <1>11, <1>12

\* The call that makes a block goes on after the value of a field.
LEMMA MakerGoesOn ==
  ASSUME IInv, NEW t \in Thread, NEW p \in DOMAIN work[t], work[t][p].op = "keep",
         NEW e, e = work[t][p].ref, NEW i \in DOMAIN cells[e].fields, NEW x, Put(e, i, x),
         cells'[e].from = cells[e].from, Spares(t, p), work[t][p].at <= i + 1,
         work'[t][p].op = "keep", work'[t][p].ref = e, work'[t][p].at = i + 1,
         work'[t][p].into = work[t][p].into,
         \A k \in 1 .. p - 1 : work'[t][k] = work[t][k]
  PROVE  CallOK(t, p)'
<1>1. KeepOK(t, p) /\ p \in Nat /\ DOMAIN work[t] = 1 .. Len(work[t])
  BY StackTop DEF IInv, CallsOK, CallOK
<1>2. e \in Cell /\ cells[e].from \in Literal
  BY <1>1 DEF KeepOK
<1>3. Placed(t, p) => Placed(t, p)'
  <2> SUFFICES ASSUME Placed(t, p) PROVE Placed(t, p)'
    OBVIOUS
  <2>1. p > 1 /\ Relies(work[t][p - 1])
    BY DEF Placed, Place, Relies
  <2>2. p - 1 \in DOMAIN work[t] /\ p - 1 < p /\ work'[t][p - 1] = work[t][p - 1]
    BY <1>1, <2>1
  <2>3. Keeps(work[t][p - 1].ref)
    BY <2>1, <2>2 DEF Spares
  <2> QED
    BY <2>2, <2>3, PlacedKept
<1>4. DOMAIN cells[e].fields = 1 .. Len(cells[e].fields) /\ Len(cells[e].fields) \in Nat
  <2>1. cells[e].fields \in Seq(Item)
    BY <1>2, Sums DEF IInv, TypeOK, Content
  <2> QED
    BY <2>1, LenProperties
<1>5. work[t][p].at \in Nat
  BY StackTop DEF IInv, RuntimeCall
<1>6. ASSUME NEW j \in DOMAIN cells'[e].fields, j >= i + 1
      PROVE  cells'[e].fields[j] = Nil
  <2>1. j \in DOMAIN cells[e].fields /\ j # i /\ j >= work[t][p].at
    BY <1>4, <1>5, <1>6 DEF Put
  <2>2. cells[e].fields[j] = Nil
    BY <1>1, <2>1 DEF KeepOK
  <2> QED
    BY <2>1, <2>2 DEF Put
<1>7. i + 1 \in 1 .. Len(cells'[e].fields) + 1
  BY <1>4 DEF Put
<1>8. work'[t][p].into = Nil \/ Placed(t, p)'
  BY <1>1, <1>3 DEF KeepOK
<1>9. KeepOK(t, p)'
  BY <1>2, <1>6, <1>7, <1>8 DEF KeepOK
<1> QED
  BY <1>9 DEF CallOK

\* There is room for the steps that follow one that puts an item into a slot,
\* at the latest when the item is there.
LEMMA RoomAfterPut ==
  ASSUME NEW steps, StepsOK(steps), NEW q \in DOMAIN steps, ~steps[q].drops, NEW f, NEW g,
         DOMAIN g = DOMAIN f, \A s \in DOMAIN f : s # steps[q].slot => g[s] = f[s],
         RoomFor(steps, q + 1, f) \/ (RoomFor(steps, q, f) /\ f[steps[q].slot] = Nil)
  PROVE  RoomFor(steps, q + 1, g)
<1>1. q \in Nat /\ DOMAIN steps = 1 .. Len(steps) /\ Len(steps) \in Nat
  BY LenProperties DEF StepsOK
<1> SUFFICES ASSUME NEW j \in DOMAIN steps
             PROVE  /\ steps[j].slot \in DOMAIN g
                    /\ j >= q + 1 /\ ~steps[j].drops /\ g[steps[j].slot] # Nil
                         => DropBetween(steps, q + 1, j, steps[j].slot)
  BY DEF RoomFor
<1>2. steps[j].slot \in DOMAIN g
  BY DEF RoomFor
<1>3. ASSUME j >= q + 1, ~steps[j].drops, g[steps[j].slot] # Nil
      PROVE  DropBetween(steps, q + 1, j, steps[j].slot)
  <2>1. CASE steps[j].slot = steps[q].slot
    BY <1>1, <1>3, <2>1 DEF StepsOK, InTurn
  <2>2. CASE steps[j].slot # steps[q].slot
    <3>1. f[steps[j].slot] # Nil
      BY <1>2, <1>3, <2>2
    <3>2. CASE RoomFor(steps, q + 1, f)
      BY <1>3, <3>1, <3>2 DEF RoomFor
    <3>3. CASE RoomFor(steps, q, f)
      <4>1. DropBetween(steps, q, j, steps[j].slot)
        BY <1>1, <1>3, <3>1, <3>3 DEF RoomFor
      <4>2. PICK l \in q .. j - 1 : steps[l].drops /\ steps[l].slot = steps[j].slot
        BY <4>1 DEF DropBetween
      <4>3. l \in q + 1 .. j - 1
        BY <1>1, <2>2, <4>2
      <4> QED
        BY <4>2, <4>3 DEF DropBetween
    <3> QED
      BY <3>2, <3>3
  <2> QED
    BY <2>1, <2>2
<1> QED
  BY <1>2, <1>3

LEMMA RoomAfterDrop ==
  ASSUME NEW steps, StepsOK(steps), NEW q \in DOMAIN steps, steps[q].drops, NEW f, NEW g,
         DOMAIN g = DOMAIN f, \A s \in DOMAIN f : s # steps[q].slot => g[s] = f[s],
         g[steps[q].slot] = Nil, RoomFor(steps, q, f)
  PROVE  RoomFor(steps, q + 1, g)
<1>1. q \in Nat /\ DOMAIN steps = 1 .. Len(steps) /\ Len(steps) \in Nat
  BY LenProperties DEF StepsOK
<1> SUFFICES ASSUME NEW j \in DOMAIN steps
             PROVE  /\ steps[j].slot \in DOMAIN g
                    /\ j >= q + 1 /\ ~steps[j].drops /\ g[steps[j].slot] # Nil
                         => DropBetween(steps, q + 1, j, steps[j].slot)
  BY DEF RoomFor
<1>2. steps[j].slot \in DOMAIN g
  BY DEF RoomFor
<1>3. ASSUME j >= q + 1, ~steps[j].drops, g[steps[j].slot] # Nil
      PROVE  DropBetween(steps, q + 1, j, steps[j].slot)
  <2>1. steps[j].slot # steps[q].slot /\ f[steps[j].slot] # Nil
    BY <1>2, <1>3
  <2>2. DropBetween(steps, q, j, steps[j].slot)
    BY <1>1, <1>3, <2>1 DEF RoomFor
  <2>3. PICK l \in q .. j - 1 : steps[l].drops /\ steps[l].slot = steps[j].slot
    BY <2>2 DEF DropBetween
  <2>4. l \in q + 1 .. j - 1
    BY <1>1, <2>1, <2>3
  <2> QED
    BY <2>3, <2>4 DEF DropBetween
<1> QED
  BY <1>2, <1>3

\* The call that fills a collection goes on.
LEMMA FillerGoesOn ==
  ASSUME IInv, NEW t \in Thread, NEW p \in DOMAIN work[t], work[t][p].op = "fill",
         NEW e, e = work[t][p].ref, cells'[e].from = cells[e].from,
         work'[t][p].op = "fill", work'[t][p].ref = e,
         work'[t][p].into = work[t][p].into, work'[t][p].at \in 1 .. Len(work[t][p].into) + 1,
         RoomFor(work[t][p].into, work'[t][p].at, cells'[e].fields)
  PROVE  CallOK(t, p)'
<1>1. FillOK(t, p)
  BY DEF IInv, CallsOK, CallOK
<1>2. FillOK(t, p)'
  BY <1>1 DEF FillOK, Used
<1> QED
  BY <1>2 DEF CallOK

LEMMA DeliverToField ==
  ASSUME IInv, HoldersAlone, NEW t \in Thread, NEW n, n = Len(work[t]), work[t] # <<>>, NEW x, Delivered(t, n, x),
         Return(t), UNCHANGED <<forward, open, override>>, held' = held, Placed(t, n),
         Filled(work[t][n].into.cell, work[t][n].into.at, x)
  PROVE  IInv'
<1>0. TypeOK
  BY DEF IInv
<1>1. /\ n \in Nat \ {0} /\ n - 1 \in Nat /\ OnlyTop(t, n)
      /\ DOMAIN work[t] = 1 .. n /\ DOMAIN work'[t] = 1 .. n - 1
      /\ work' \in [Thread -> Seq(RuntimeCall)]
      /\ \A c : DisposesOf(c)' = DisposesOf(c)
      /\ \A c, j : Dropped(c, j)' <=> Dropped(c, j)
      /\ Alone("keep")' /\ Alone("dispose")'
      /\ \A c \in Cell :
           /\ IsFiniteSet(CallsOn(c)')
           /\ Cardinality(CallsOn(c)') = Cardinality(CallsOn(c)) - N(c = x)
      /\ \A u \in Thread : Asked(u)' = Asked(u)
      /\ forward' = forward /\ open' = open /\ override' = override
      /\ x \in Item
  BY DeliverPart
<1>a. PICK e : e = work[t][n].into.cell
  OBVIOUS
<1>b. PICK i : i = work[t][n].into.at
  OBVIOUS
<1>c. Filled(e, i, x)
  BY <1>a, <1>b
<1>2. PICK p \in DOMAIN work[t] : WaitsFor(t, n, p, e, i)
  <2>1. n \in DOMAIN work[t]
    BY <1>1
  <2> QED
    BY <1>a, <1>b, <2>1, MakerWaits
<1>3. /\ work[t][p].op \in {"keep", "fill"} /\ work[t][p].ref = e
      /\ i \in DOMAIN cells[e].fields /\ cells[e].fields[i] = Nil
      /\ p \in Nat /\ p > 0 /\ n = p + 1 /\ p = n - 1
  BY <1>2 DEF WaitsFor
<1>4. /\ cells' \in [Cell \cup Holder -> Content] /\ Put(e, i, x)
      /\ cells'[e].from = cells[e].from /\ cells'[e].by = cells[e].by
      /\ \A y \in Cell : cells'[y].from = cells[y].from /\ cells'[y].rc = cells[y].rc
  BY <1>c DEF Filled
<1>5. TypeOK'
  BY <1>0, <1>1, <1>4 DEF TypeOK
<1>6. /\ FieldsOK' /\ HoldersOK' /\ Spares(t, p)
      /\ \A d \in Cell :
           /\ IsFiniteSet(FieldsOn(d)')
           /\ Cardinality(FieldsOn(d)') = Cardinality(FieldsOn(d)) + N(d = x)
  BY <1>1, <1>2, <1>5, <1>c, FilledFields
<1>7. /\ OnlyTop(t, p) /\ 1 .. p - 1 \subseteq DOMAIN work[t]
      /\ \A k \in 1 .. p : work'[t][k] = work[t][k]
  BY <1>1, <1>3 DEF OnlyTop
<1>8. CallOK(t, p)'
  <2>1. \A k \in 1 .. p - 1 : work'[t][k] = work[t][k]
    BY <1>3, <1>7
  <2>2. work'[t][p] = work[t][p] /\ work[t][p].at \in Nat
    BY <1>0, <1>3, <1>7, StackTop DEF RuntimeCall
  <2>3. CASE work[t][p].op = "keep"
    <3>1. work[t][p].at = i + 1 /\ i \in Nat
      <4>1. KeepOK(t, p)
        BY <2>3 DEF IInv, CallsOK, CallOK
      <4>2. cells[e].fields \in Seq(Item)
        BY <1>0, <1>3, <4>1 DEF KeepOK, TypeOK, Content
      <4>3. i \in Nat
        BY <1>3, <4>2, LenProperties
      <4> QED
        BY <1>2, <2>3, <4>3 DEF WaitsFor
    <3>2. /\ work[t][p].at <= i + 1 /\ work'[t][p].op = "keep" /\ work'[t][p].ref = e
          /\ work'[t][p].at = i + 1 /\ work'[t][p].into = work[t][p].into
      BY <1>3, <2>2, <2>3, <3>1
    <3>3. i \in DOMAIN cells[e].fields /\ Put(e, i, x) /\ cells'[e].from = cells[e].from
          /\ Spares(t, p) /\ e = work[t][p].ref
      BY <1>3, <1>4, <1>6
    <3> QED
      BY ONLY IInv, t \in Thread, p \in DOMAIN work[t], <2>1, <2>3, <3>2, <3>3, MakerGoesOn
  <2>4. CASE work[t][p].op = "fill"
    <3>1. PICK steps : steps = work[t][p].into
      OBVIOUS
    <3>2. FillOK(t, p)
      BY <2>4 DEF IInv, CallsOK, CallOK
    <3>3. StepsOK(steps) /\ RoomFor(steps, work[t][p].at, cells[e].fields)
          /\ work[t][p].at \in 1 .. Len(steps) + 1
      BY <1>3, <3>1, <3>2 DEF FillOK
    <3>4. PICK q : q = work[t][p].at - 1
      OBVIOUS
    <3>5. q \in DOMAIN steps /\ ~steps[q].drops /\ steps[q].slot = i
      BY <1>2, <2>4, <3>1, <3>4 DEF WaitsFor
    <3>6. q + 1 = work[t][p].at
      BY <2>2, <3>4
    <3>7. RoomFor(steps, q + 1, cells'[e].fields)
      <4>1. DOMAIN cells'[e].fields = DOMAIN cells[e].fields
            /\ \A s \in DOMAIN cells[e].fields : s # steps[q].slot =>
                 cells'[e].fields[s] = cells[e].fields[s]
        BY <1>4, <3>5 DEF Put
      <4> QED
        BY <3>3, <3>5, <3>6, <4>1, RoomAfterPut
    <3> QED
      BY <1>3, <1>4, <2>2, <2>4, <3>1, <3>3, <3>6, <3>7, FillerGoesOn
  <2> QED
    BY <1>3, <2>3, <2>4
<1>9. /\ DOMAIN work'[t] = 1 .. p /\ \A k \in p .. p : k > 0 => CallOK(t, k)'
  BY <1>1, <1>3, <1>8
<1>10. CallsOK'
  BY <1>3, <1>6, <1>7, <1>9, CallsGoOn
<1>11. CopiesUseAllocator'
  <2>1. work[t][p].op = "keep" => cells[e].by = override[t]
    BY <1>3 DEF IInv, CopiesUseAllocator
  <2>2. \A k \in p .. p : k > 0 /\ work'[t][k].op = "keep" =>
          cells'[work'[t][k].ref].by = override[t]
    BY <1>3, <1>4, <1>7, <2>1
  <2> QED
    BY <1>1, <1>3, <1>6, <1>7, <1>9, <2>2, AllocatorsGoOn
<1>12. ForwardOK'
  <2>1. \A v \in Var : forward[v] # Nil => forward[v] \in Cell
    BY <1>0 DEF TypeOK
  <2> QED
    BY <1>1, <1>4, <2>1 DEF IInv, ForwardOK
<1>13. ASSUME NEW d \in Cell PROVE CellOK(d)'
  <2>1. PICK y \in 0 .. 1 : y = N(d = x)
    BY DEF N
  <2>2. VarsOn(d)' = VarsOn(d) /\ held'[d] = held[d]
    BY <1>1 DEF VarsOn
  <2>3. /\ IsFiniteSet(CallsOn(d)') /\ IsFiniteSet(FieldsOn(d)')
        /\ Cardinality(CallsOn(d)') = Cardinality(CallsOn(d)) + (0 - y)
        /\ Cardinality(FieldsOn(d)') = Cardinality(FieldsOn(d)) + y
    BY <1>1, <1>6, <2>1, Sums
  <2>4. References(d)' = References(d)
    BY SMTT(40), <2>2, <2>3, Sums DEF References
  <2> QED
    BY <1>1, <1>4, <2>3, <2>4, SameCount, ZerosKept DEF CellOK
<1> QED
  BY <1>1, <1>5, <1>6, <1>10, <1>11, <1>12, <1>13, Whole

\* The end of a copy
LEMMA DeliverStep ==
  ASSUME IInv, HoldersAlone, NEW t \in Thread, NEW n, n = Len(work[t]), work[t] # <<>>, NEW x, Delivered(t, n, x),
         Deliver(t, x, work[t][n].into, cells), forward' = forward, open' = open,
         override' = override
  PROVE  IInv'
<1>1. UNCHANGED <<forward, open, override>> /\ Return(t)
  BY DEF Deliver
<1>2. CallOK(t, n)
  BY StackTop DEF IInv, CallsOK
<1>3. work[t][n].into = Nil \/ Placed(t, n)
  BY <1>2 DEF Delivered, CallOK, CopyOK, KeepOK
<1>4. CASE work[t][n].into = Nil
  <2>1. /\ cells' = cells
        /\ held' = IF x \in Cell THEN [held EXCEPT ![x] = @ + 1] ELSE held
    BY <1>4 DEF Deliver
  <2> QED
    BY <1>1, <2>1, DeliverToProgram
<1>5. CASE work[t][n].into # Nil /\ Placed(t, n)
  <2>1. PICK e : e = work[t][n].into.cell
    OBVIOUS
  <2>2. PICK i : i = work[t][n].into.at
    OBVIOUS
  <2>3. cells' = [cells EXCEPT ![e].fields[i] = x] /\ held' = held
    BY <1>5, <2>1, <2>2 DEF Deliver
  <2>4. e \in Cell \cup Holder /\ i \in DOMAIN cells[e].fields
    BY <1>5, <2>1, <2>2 DEF Placed, Place
  <2>5. x \in Item
    BY <1>2 DEF Delivered, CallOK, KeepOK, Item
  <2>6. Filled(e, i, x)
    BY <2>3, <2>4, <2>5, FieldSet DEF IInv, Filled
  <2> QED
    BY <1>1, <1>5, <2>1, <2>2, <2>3, <2>6, DeliverToField
<1> QED
  BY <1>3, <1>4, <1>5
-----------------------------------------------------------------------------
(* New blocks and variables *)

\* Nothing refers to a free allocation.
LEMMA Free ==
  ASSUME IInv, NEW c \in Cell, ~Used(c)
  PROVE  /\ cells[c] = Unused /\ References(c) = 0 /\ held[c] = 0
         /\ VarsOn(c) = {} /\ CallsOn(c) = {} /\ FieldsOn(c) = {} /\ DisposesOf(c) = {}
         /\ \A i : ~Dropped(c, i)
<1>1. cells[c] = Unused
  BY DEF IInv, FieldsOK, ContentOK
<1>2. ASSUME NEW u \in Thread, NEW k \in DOMAIN work[u] PROVE ~Disposes(work[u][k], c)
  <2>1. CallOK(u, k)
    BY DEF IInv, CallsOK
  <2> QED
    BY <2>1 DEF CallOK, DisposeOK, Disposes
<1>3. DisposesOf(c) = {}
  BY <1>2, DisposesOfAre
<1>4. \A i : ~Dropped(c, i)
  BY <1>2, EmptiesHolder, DroppedIs DEF Drops, Disposes
<1> QED
  BY <1>1, <1>3, <1>4, Uncounted

LEMMA NewBlockTyped ==
  ASSUME IInv, NEW t \in Thread, NEW b \in Literal
  PROVE  /\ NewBlock(t, b) \in Content
         /\ NewBlock(t, b).from = b /\ NewBlock(t, b).rc = 1
         /\ NewBlock(t, b).by = override[t]
         /\ Len(NewBlock(t, b).fields) = Len(Captures[b])
         /\ Len(NewBlock(t, b).fields) \in Nat
         /\ DOMAIN NewBlock(t, b).fields = 1 .. Len(NewBlock(t, b).fields)
         /\ \A i \in DOMAIN NewBlock(t, b).fields : NewBlock(t, b).fields[i] = Nil
<1>1. Captures[b] \in Seq(Literal \cup Var)
  BY BlocksAssumption
<1>2. Len(Captures[b]) \in Nat /\ DOMAIN Captures[b] = 1 .. Len(Captures[b])
  BY <1>1, LenProperties
<1>3. PICK s : s = [i \in DOMAIN Captures[b] |-> Nil]
  OBVIOUS
<1>4. /\ s \in Seq(Item) /\ DOMAIN s = 1 .. Len(s)
      /\ Len(s) = Len(Captures[b]) /\ \A i \in DOMAIN s : s[i] = Nil
  <2>1. s \in [1 .. Len(Captures[b]) -> Item]
    BY <1>2, <1>3 DEF Item
  <2>2. s \in Seq(Item)
    BY <1>2, <2>1, SeqDef
  <2>3. DOMAIN s = 1 .. Len(Captures[b])
    BY <2>1
  <2> QED
    BY <1>2, <1>3, <2>2, <2>3, LenProperties
<1>5. override[t] \in Allocator \cup {Nil} /\ 1 \in 0 .. Latch
  BY Distinct DEF IInv, TypeOK
<1>6. NewBlock(t, b) = [from |-> b, rc |-> 1, fields |-> s, by |-> override[t]]
  BY <1>3 DEF NewBlock
<1>7. PICK new : new = [from |-> b, rc |-> 1, fields |-> s, by |-> override[t]]
  OBVIOUS
<1>8. new \in Content /\ new.from = b /\ new.rc = 1 /\ new.fields = s /\ new.by = override[t]
  BY <1>4, <1>5, <1>7 DEF Content
<1> QED
  BY <1>2, <1>4, <1>6, <1>7, <1>8

\* A block is made, and the copy helper begins.
LEMMA MakeBlockStep ==
  ASSUME IInv, NEW t \in Thread, Doing(t, "copy"), NEW n, n = Len(work[t]),
         NEW b \in Literal, work[t][n].ref = b, NEW c \in Cell, ~Used(c),
         cells' = [cells EXCEPT ![c] = NewBlock(t, b)],
         Become(t, Call("keep", c, 1, work[t][n].into)),
         UNCHANGED <<forward, open, held, override>>
  PROVE  IInv'
<1>0. TypeOK
  BY DEF IInv
<1>1. /\ work[t] # <<>> /\ n \in Nat \ {0} /\ DOMAIN work[t] = 1 .. n /\ n \in DOMAIN work[t]
      /\ work[t][n] \in RuntimeCall /\ work[t][n].op = "copy" /\ CallOK(t, n)
  BY DoingCall
<1>2. /\ cells[c] = Unused /\ References(c) = 0 /\ held[c] = 0
      /\ VarsOn(c) = {} /\ CallsOn(c) = {} /\ FieldsOn(c) = {} /\ DisposesOf(c) = {}
      /\ \A i : ~Dropped(c, i)
  BY Free
<1>3. PICK new : new = NewBlock(t, b)
  OBVIOUS
<1>4. /\ new \in Content /\ new.from = b /\ new.rc = 1 /\ new.by = override[t]
      /\ Len(new.fields) = Len(Captures[b]) /\ Len(new.fields) \in Nat
      /\ DOMAIN new.fields = 1 .. Len(new.fields)
      /\ \A i \in DOMAIN new.fields : new.fields[i] = Nil
  BY <1>3, NewBlockTyped
<1>5. /\ cells' \in [Cell \cup Holder -> Content] /\ cells'[c] = new
      /\ \A y \in Cell \cup Holder : y # c => cells'[y] = cells[y]
  BY <1>0, <1>3, <1>4 DEF TypeOK
<1>6. forward' = forward /\ open' = open /\ held' = held /\ override' = override
  OBVIOUS
<1>7. PICK call : call = Call("keep", c, 1, work[t][n].into)
  OBVIOUS
<1>8. /\ call \in RuntimeCall /\ call.op = "keep" /\ call.ref = c /\ call.at = 1
      /\ call.into = work[t][n].into
  BY <1>1, <1>7 DEF RuntimeCall, Call, Item
<1>9. /\ OnlyTop(t, n) /\ DOMAIN work'[t] = 1 .. n /\ work'[t][n] = call
      /\ work' \in [Thread -> Seq(RuntimeCall)]
  <2>1. Become(t, call)
    BY <1>7
  <2>2. OnlyTop(t, n) /\ DOMAIN work'[t] = 1 .. n /\ work'[t][n] = call
    BY <1>0, <1>1, <1>8, <2>1, Became
  <2> QED
    BY <1>1, <2>1, <2>2, WorkTyped DEF Become
<1>10. TypeOK'
  BY <1>0, <1>5, <1>6, <1>9 DEF TypeOK
<1>11. /\ \A d : DisposesOf(d)' = DisposesOf(d)
       /\ \A d, i : Dropped(d, i)' <=> Dropped(d, i)
  <2>1. \A k \in 1 .. n : k >= n => work'[t][k].op \notin {"dispose", "empty"}
    BY <1>1, <1>8, <1>9
  <2>2. n \in Nat /\ n >= n - 1 /\ (n > 0 => work[t][n].op \notin {"dispose", "empty"})
    BY <1>1
  <2> QED
    BY <1>0, <1>1, <1>9, <2>1, <2>2, NoDisposeChanges
<1>12. /\ FieldsOK' /\ HoldersOK' /\ \A d \in Cell : FieldsOn(d)' = FieldsOn(d)
  <2>1. \A i \in DOMAIN cells[c].fields : cells[c].fields[i] \in Cell => Dropped(c, i)
    BY <1>2 DEF Unused
  <2>2. \A i \in DOMAIN cells'[c].fields : cells'[c].fields[i] \notin Cell
    BY <1>4, <1>5, Distinct
  <2>3. /\ ~Used(c)' => cells'[c] = Unused
        /\ cells'[c].from \notin Kind
        /\ cells'[c].from \in Var => cells'[c].fields = <<>>
        /\ cells'[c].from \in Literal => Len(cells'[c].fields) = Len(Captures[cells'[c].from])
    BY <1>4, <1>5, Distinct DEF Used
  <2> QED
    BY <1>2, <1>5, <1>10, <1>11, <2>1, <2>2, <2>3, Refilled
<1>13. Spares(t, n)
  <2>1. \A d \in Cell \cup Holder : d # c => Keeps(d)
    BY <1>5 DEF Keeps
  <2> QED
    BY <1>1, <1>2, <2>1, SparesOthers
<1>14. ASSUME NEW u \in Thread, NEW k \in DOMAIN work[u], work[u][k].op = "keep"
       PROVE  work[u][k].ref # c
  <2>1. <<u, k>> \notin CallsOn(c)
    BY <1>2
  <2> QED
    BY <1>14, <2>1, CallsOnAre DEF Counts
<1>15. Alone("keep")'
  <2>1. n \in DOMAIN work'[t] /\ work'[t][n].ref = c /\ Alone("keep")
    BY <1>1, <1>8, <1>9 DEF IInv
  <2>2. ASSUME NEW u \in Thread, NEW k \in DOMAIN work'[u], u # t \/ k # n
        PROVE  k \in DOMAIN work[u] /\ work'[u][k] = work[u][k]
    <3>1. CASE u = t
      <4>1. k \in 1 .. n - 1
        BY <1>9, <2>2, <3>1
      <4> QED
        BY <1>1, <1>9, <3>1, <4>1 DEF OnlyTop
    <3>2. CASE u # t
      BY <1>9, <3>2 DEF OnlyTop
    <3> QED
      BY <3>1, <3>2
  <2>3. \A u \in Thread : \A k \in DOMAIN work'[u] : work'[u][k].op = "keep" /\ (u # t \/ k # n) =>
          k \in DOMAIN work[u] /\ work[u][k].op = "keep" /\ work[u][k].ref = work'[u][k].ref
    BY <2>2
  <2>4. \A u \in Thread : \A k \in DOMAIN work[u] :
          work[u][k].op = "keep" => work[u][k].ref # work'[t][n].ref
    BY <1>14, <2>1
  <2> QED
    BY <2>1, <2>3, <2>4, AloneBegun
<1>16. Alone("dispose")'
  <2>1. \A k \in n .. n : k > 0 /\ work'[t][k].op = "dispose" => k = n /\ GoesOn(t, n)
    BY <1>1, <1>8, <1>9
  <2> QED
    BY <1>1, <1>9, <2>1, AloneGoesOn
<1>17. CallOK(t, n)'
  <2>1. work[t][n].into = Nil \/ Placed(t, n)
    BY <1>1 DEF CallOK, CopyOK
  <2>2. Placed(t, n) => Placed(t, n)'
    <3> SUFFICES ASSUME Placed(t, n) PROVE Placed(t, n)'
      OBVIOUS
    <3>1. n > 1 /\ Relies(work[t][n - 1])
      BY ONLY Placed(t, n) DEF Placed, Place, Relies
    <3>2. n - 1 \in DOMAIN work[t] /\ n - 1 < n /\ work'[t][n - 1] = work[t][n - 1]
      <4>1. n \in Nat /\ n > 1
        BY <1>1, <3>1
      <4>2. n - 1 \in 1 .. n - 1 /\ n - 1 \in 1 .. n /\ n - 1 < n
        BY ONLY <4>1
      <4>3. \A k \in 1 .. n - 1 : work'[t][k] = work[t][k]
        BY <1>9 DEF OnlyTop
      <4> QED
        BY <1>1, <4>2, <4>3
    <3>3. Keeps(work[t][n - 1].ref)
      BY <1>13, <3>1, <3>2 DEF Spares
    <3>4. work'[t][n].into = work[t][n].into
      BY <1>8, <1>9
    <3> QED
      BY <1>1, <3>2, <3>3, <3>4, PlacedKept
  <2>3. /\ cells'[c].from \in Literal /\ 1 \in 1 .. Len(cells'[c].fields) + 1
        /\ \A j \in DOMAIN cells'[c].fields : cells'[c].fields[j] = Nil
    BY <1>4, <1>5
  <2>4. work'[t][n].into = Nil \/ Placed(t, n)'
    BY <1>8, <1>9, <2>1, <2>2
  <2>5. KeepOK(t, n)'
    BY <1>8, <1>9, <2>3, <2>4 DEF KeepOK
  <2> QED
    BY <1>8, <1>9, <2>5 DEF CallOK
<1>18. CallsOK'
  <2>1. \A k \in n .. n : k > 0 => CallOK(t, k)'
    BY <1>1, <1>17
  <2>2. 1 .. n - 1 \subseteq DOMAIN work[t] /\ n \in Nat
    BY <1>1
  <2> QED
    BY <1>9, <1>13, <2>1, <2>2, CallsGoOn
<1>19. CopiesUseAllocator'
  <2>1. \A k \in n .. n : k > 0 /\ work'[t][k].op = "keep" =>
          cells'[work'[t][k].ref].by = override[t]
    BY <1>1, <1>4, <1>5, <1>8, <1>9
  <2>2. ASSUME NEW u \in Thread PROVE Asked(u)' = Asked(u)
    <3>1. /\ n = 1 => work[t][n].op # "restore"
          /\ n <= 1 /\ n >= 1 => work'[t][1].op # "restore"
          /\ n \in Nat /\ n >= n - 1
      BY <1>1, <1>8, <1>9
    <3> QED
      BY <1>0, <1>1, <1>9, <3>1, AskedKept
  <2>3. 1 .. n - 1 \subseteq DOMAIN work[t] /\ n \in Nat
    BY <1>1
  <2> QED
    BY <1>6, <1>9, <1>13, <2>1, <2>2, <2>3, AllocatorsGoOn
<1>20. ForwardOK'
  <2>1. ASSUME NEW v \in Var, forward[v] # Nil PROVE cells'[forward[v]].from = v
    <3>1. forward[v] \in Cell /\ cells[forward[v]].from = v
      BY <1>0, <2>1 DEF TypeOK, IInv, ForwardOK
    <3>2. forward[v] # c
      BY <1>2 DEF VarsOn
    <3> QED
      BY <1>5, <3>1, <3>2
  <2> QED
    BY <1>6, <2>1 DEF ForwardOK
<1>21. ASSUME NEW d \in Cell PROVE CellOK(d)'
  <2>1. PICK y \in 0 .. 1 : y = N(d = c)
    BY DEF N
  <2>2. VarsOn(d)' = VarsOn(d) /\ held'[d] = held[d] /\ FieldsOn(d)' = FieldsOn(d)
    BY <1>6, <1>12 DEF VarsOn
  <2>3. /\ IsFiniteSet(CallsOn(d)')
        /\ Cardinality(CallsOn(d)') = Cardinality(CallsOn(d)) + y
    <3>1. IsFiniteSet(CallsOn(d))
      BY Sums
    <3>2. /\ IsFiniteSet(CallsOn(d)')
          /\ Cardinality(CallsOn(d)') = Cardinality(CallsOn(d))
                                        - N(Counts(work[t][n], d)) + N(Counts(work'[t][n], d))
      BY <1>0, <1>1, <1>9, <3>1, CountBecome
    <3>3. /\ N(Counts(work[t][n], d)) = 0 /\ N(Counts(work'[t][n], d)) = y
      BY <1>1, <1>8, <1>9, <2>1 DEF Counts, N
    <3> QED
      BY <3>2, <3>3, Sums
  <2>4. References(d)' = References(d) + y
    BY SMTT(40), <2>2, <2>3, Sums DEF References
  <2>5. IsFiniteSet(FieldsOn(d)')
    BY <2>2, Sums
  <2>6. CASE d = c
    <3>1. References(d)' = 1 /\ Used(d)' /\ cells'[d].rc = 1
      BY <1>2, <1>4, <1>5, <2>1, <2>4, <2>6, Distinct DEF N, Used
    <3> QED
      BY <2>3, <2>5, <3>1 DEF CellOK, Exact
  <2>7. CASE d # c
    <3>1. References(d)' = References(d) /\ cells'[d] = cells[d]
      BY <1>5, <2>1, <2>4, <2>7, Sums DEF N
    <3> QED
      BY <1>11, <2>3, <2>5, <3>1, SameCount, ZerosKept DEF CellOK
  <2> QED
    BY <2>6, <2>7
<1> QED
  BY <1>10, <1>12, <1>15, <1>16, <1>18, <1>19, <1>20, <1>21, Whole

LEMMA CopyLiteralStep ==
  ASSUME IInv, HoldersAlone, NEW t \in Thread, CopyLiteral(t)
  PROVE  IInv'
<1>1. PICK n : n = Len(work[t])
  OBVIOUS
<1>2. /\ work[t] # <<>> /\ work[t][n].op = "copy" /\ Innermost(t) = work[t][n]
      /\ CallOK(t, n) /\ Doing(t, "copy")
  BY <1>1, DoingCall DEF CopyLiteral
<1>3. PICK b : b = work[t][n].ref
  OBVIOUS
<1>4. b \in Literal
  BY <1>2, <1>3 DEF CallOK, CopyOK
<1>5. PICK into : into = work[t][n].into
  OBVIOUS
<1>6. forward' = forward /\ open' = open /\ override' = override
  BY DEF CopyLiteral
<1>7. \/ b \in Global /\ Deliver(t, b, into, cells)
      \/ /\ \E c \in FreeCells : /\ cells' = [cells EXCEPT ![c] = NewBlock(t, b)]
                                 /\ Become(t, Call("keep", c, 1, into))
         /\ held' = held
      \/ Deliver(t, Nil, into, cells)
  BY <1>2, <1>3, <1>5 DEF CopyLiteral
<1>8. CASE b \in Global /\ Deliver(t, b, into, cells)
  <2>1. Delivered(t, n, b)
    BY <1>2, <1>4, <1>8, Distinct DEF Delivered, Item
  <2> QED
    BY <1>1, <1>2, <1>5, <1>6, <1>8, <2>1, DeliverStep
<1>9. CASE Deliver(t, Nil, into, cells)
  <2>1. Delivered(t, n, Nil)
    BY <1>2, Distinct DEF Delivered, Item
  <2> QED
    BY <1>1, <1>2, <1>5, <1>6, <1>9, <2>1, DeliverStep
<1>10. CASE /\ \E c \in FreeCells : /\ cells' = [cells EXCEPT ![c] = NewBlock(t, b)]
                                    /\ Become(t, Call("keep", c, 1, into))
            /\ held' = held
  <2>1. PICK c \in FreeCells : /\ cells' = [cells EXCEPT ![c] = NewBlock(t, b)]
                               /\ Become(t, Call("keep", c, 1, into))
    BY <1>10
  <2>2. c \in Cell /\ ~Used(c)
    BY DEF FreeCells
  <2>3. UNCHANGED <<forward, open, held, override>>
    BY <1>6, <1>10
  <2> QED
    BY <1>1, <1>2, <1>3, <1>4, <1>5, <2>1, <2>2, <2>3, MakeBlockStep
<1> QED
  BY <1>7, <1>8, <1>9, <1>10

\* The field i of the block e, which is made, has the value x now; another
\* allocation may have been filled with a variable, or its count incremented.
Assigned(e, i, x) ==
  /\ cells' \in [Cell \cup Holder -> Content] /\ Put(e, i, x)
  /\ cells'[e].from = cells[e].from /\ cells'[e].by = cells[e].by
  /\ \A y \in Cell \cup Holder : y # e => cells'[y].fields = cells[y].fields
  /\ \A k \in Holder : k # e => cells'[k] = cells[k]
  /\ \A y \in Cell : y # e /\ Used(y) => Keeps(y)
  /\ \A y \in Cell : y # e /\ ~Used(y) => cells'[y] = cells[y] \/ cells'[y].from \in Var

LEMMA AssignedFields ==
  ASSUME IInv, TypeOK', NEW e \in Cell \cup Holder, NEW i \in DOMAIN cells[e].fields,
         NEW x \in Item,
         cells[e].fields[i] = Nil, Used(e), Assigned(e, i, x), \A j : ~Dropped(e, j),
         \A c, j : Dropped(c, j)' <=> Dropped(c, j),
         e \in Cell /\ x \in Cell /\ Captures[cells[e].from][i] \in Var => cells'[x].from \in Var
  PROVE  /\ FieldsOK' /\ HoldersOK'
         /\ \A d \in Cell :
              /\ IsFiniteSet(FieldsOn(d)')
              /\ Cardinality(FieldsOn(d)') = Cardinality(FieldsOn(d)) + N(d = x)
<1>1. /\ Put(e, i, x) /\ cells'[e].from = cells[e].from
      /\ \A y \in Cell \cup Holder : y # e => cells'[y].fields = cells[y].fields
      /\ \A k \in Holder : k # e => cells'[k] = cells[k]
  BY DEF Assigned
<1>2. ASSUME NEW y \in Cell, FieldsOn(y) # {} PROVE cells'[y].from = cells[y].from
  <2>1. Used(y)
    BY <1>2, Counted
  <2> QED
    BY <1>1, <2>1 DEF Assigned, Keeps
<1>3. ASSUME NEW y \in Cell, y # e, cells'[y].from # cells[y].from
      PROVE  cells'[y].from \in Var /\ cells[y].fields = <<>>
  <2>1. ~Used(y)
    BY <1>3 DEF Assigned, Keeps
  <2>2. cells[y] = Unused
    BY <2>1, Free
  <2> QED
    BY <1>3, <2>1, <2>2 DEF Assigned, Unused
<1>4. ASSUME NEW y \in Cell, y # e, ~Used(y)' PROVE cells'[y] = cells[y]
  <2>1. ~Used(y)
    BY <1>4 DEF Assigned, Keeps, Used
  <2> QED
    BY <1>4, <2>1, Distinct DEF Assigned, Used
<1> QED
  BY <1>1, <1>2, <1>3, <1>4, FieldPut

\* What is so when x has been put into a field of a block that is made, but for
\* the counts and what the variables are forwarded to
GoneOn(x) ==
  /\ TypeOK' /\ CallsOK' /\ Alone("keep")' /\ Alone("dispose")'
  /\ FieldsOK' /\ HoldersOK' /\ CopiesUseAllocator'
  /\ \A c : DisposesOf(c)' = DisposesOf(c)
  /\ \A d \in Cell : CallsOn(d)' = CallsOn(d)
  /\ \A d \in Cell :
       /\ IsFiniteSet(FieldsOn(d)')
       /\ Cardinality(FieldsOn(d)') = Cardinality(FieldsOn(d)) + N(d = x)

\* The copy helper puts x into the field i of e and goes on.
LEMMA FieldGoesOn ==
  ASSUME IInv, NEW t \in Thread, Doing(t, "keep"), NEW n, n = Len(work[t]),
         NEW e, e = work[t][n].ref, NEW i \in DOMAIN cells[e].fields, i = work[t][n].at,
         NEW x \in Item, Advance(t, <<>>), Assigned(e, i, x),
         forward' \in [Var -> Cell \cup {Nil}], open' = open, held' = held, override' = override,
         x \in Cell /\ Captures[cells[e].from][i] \in Var => cells'[x].from \in Var
  PROVE  GoneOn(x)
<1>0. TypeOK
  BY DEF IInv
<1>1. /\ work[t] # <<>> /\ n \in Nat \ {0} /\ DOMAIN work[t] = 1 .. n /\ n \in DOMAIN work[t]
      /\ work[t][n].op = "keep" /\ CallOK(t, n)
  BY DoingCall
<1>2. /\ OnlyTop(t, n) /\ GoesOn(t, n) /\ DOMAIN work'[t] = 1 .. n
      /\ work' \in [Thread -> Seq(RuntimeCall)]
      /\ \A c : DisposesOf(c)' = DisposesOf(c)
      /\ \A c, j : Dropped(c, j)' <=> Dropped(c, j)
      /\ Alone("keep")' /\ Alone("dispose")'
      /\ \A c \in Cell : CallsOn(c)' = CallsOn(c)
      /\ \A u \in Thread : Asked(u)' = Asked(u)
  BY <1>1, GoOnStep
<1>3. /\ cells' \in [Cell \cup Holder -> Content] /\ Put(e, i, x)
      /\ cells'[e].from = cells[e].from /\ cells'[e].by = cells[e].by
  BY DEF Assigned
<1>4. TypeOK'
  BY <1>0, <1>2, <1>3 DEF TypeOK
<1>5. /\ e \in Cell /\ cells[e].from \in Literal
      /\ DisposesOf(e) = {} /\ \A j : ~Dropped(e, j)
  <2>1. n \in DOMAIN work[t] /\ work[t][n].op = "keep" /\ e = work[t][n].ref
    BY <1>1
  <2> QED
    BY ONLY IInv, t \in Thread, <2>1, MakerAlone
<1>6. KeepOK(t, n)
  BY <1>1 DEF CallOK
<1>7. Used(e)
  BY <1>5, Distinct DEF Used
<1>8. work[t][n].at \in Nat /\ i \in Nat /\ work[t][n].at <= i + 1 /\ i >= i
  <2>1. work[t][n].at \in Nat
    BY <1>0, <1>1, StackTop DEF RuntimeCall
  <2>2. i \in Nat
    BY <2>1
  <2>3. i <= i + 1 /\ i >= i
    BY ONLY <2>2
  <2> QED
    BY <2>1, <2>2, <2>3
<1>9. cells[e].fields[i] = Nil
  BY <1>6, <1>8 DEF KeepOK
<1>10. /\ FieldsOK' /\ HoldersOK'
       /\ \A d \in Cell :
            /\ IsFiniteSet(FieldsOn(d)')
            /\ Cardinality(FieldsOn(d)') = Cardinality(FieldsOn(d)) + N(d = x)
  BY <1>2, <1>4, <1>5, <1>7, <1>9, AssignedFields
<1>11. Spares(t, n)
  <2>1. ASSUME NEW c \in Cell, c # e, CallsOn(c) # {} \/ DisposesOf(c) # {}
        PROVE  Keeps(c)
    <3>1. Used(c)
      BY <2>1, Free
    <3> QED
      BY <2>1, <3>1 DEF Assigned
  <2>2. \A k \in Holder : Keeps(k)
    BY <1>5, Distinct DEF Assigned, Keeps
  <2> QED
    BY <1>1, <2>1, <2>2, MakerSpares
<1>12. CallsOK'
  <2>1. /\ work'[t][n].op = "keep" /\ work'[t][n].ref = e /\ work'[t][n].at = i + 1
        /\ work'[t][n].into = work[t][n].into
    BY <1>1, <1>2 DEF GoesOn
  <2>2. \A k \in 1 .. n - 1 : work'[t][k] = work[t][k]
    BY <1>2 DEF OnlyTop
  <2>3. CallOK(t, n)'
    BY <1>1, <1>3, <1>8, <1>11, <2>1, <2>2, MakerGoesOn
  <2>4. \A k \in n .. n : k > 0 => CallOK(t, k)'
    BY <1>1, <2>3
  <2>5. 1 .. n - 1 \subseteq DOMAIN work[t] /\ n \in Nat
    BY <1>1
  <2> QED
    BY <1>2, <1>11, <2>4, <2>5, CallsGoOn
<1>13. CopiesUseAllocator'
  <2>1. cells[e].by = override[t]
    BY <1>1 DEF IInv, CopiesUseAllocator
  <2>2. \A k \in n .. n : k > 0 /\ work'[t][k].op = "keep" =>
          cells'[work'[t][k].ref].by = override[t]
    BY <1>1, <1>2, <1>3, <2>1 DEF GoesOn
  <2>3. 1 .. n - 1 \subseteq DOMAIN work[t] /\ n \in Nat
    BY <1>1
  <2> QED
    BY <1>2, <1>11, <2>2, <2>3, AllocatorsGoOn
<1> QED
  BY <1>2, <1>4, <1>10, <1>12, <1>13 DEF GoneOn

CountsInto(e, i, d) == cells' = [cells EXCEPT ![d].rc = Incr(@), ![e].fields[i] = d]
MovesInto(e, i, d, new) == cells' = [cells EXCEPT ![d] = new, ![e].fields[i] = d]

\* Another reference to d is put into a field.
LEMMA AssignCounted ==
  ASSUME IInv, NEW e \in Cell \cup Holder, NEW i \in DOMAIN cells[e].fields, NEW d \in Cell,
         Used(d), cells[d].rc > 0, CountsInto(e, i, d)
  PROVE  /\ Assigned(e, i, d) /\ \A y \in Cell \cup Holder : y # e => Keeps(y)
         /\ \A y \in Cell : cells'[y].from = cells[y].from
         /\ \A y \in Cell : y # d => cells'[y].rc = cells[y].rc
         /\ cells'[d].rc = Incr(cells[d].rc)
<1>1. cells \in [Cell \cup Holder -> Content] /\ d \in Item
  BY DEF IInv, TypeOK, Item
<1>2. PICK f : f = [cells EXCEPT ![d].rc = Incr(@)]
  OBVIOUS
<1>3. PICK r : r = Incr(cells[d].rc)
  OBVIOUS
<1>4. r \in 0 .. Latch
  BY <1>3, Sums, Bounds
<1>5. f = [cells EXCEPT ![d].rc = r]
  BY <1>2, <1>3
<1>6. /\ f \in [Cell \cup Holder -> Content]
      /\ f[d].from = cells[d].from /\ f[d].fields = cells[d].fields
      /\ f[d].by = cells[d].by /\ f[d].rc = r
      /\ \A y \in Cell \cup Holder : y # d => f[y] = cells[y]
  BY <1>1, <1>4, <1>5, CountUpdate
<1>7. WithField(f, cells', e, i, d)
  BY <1>2 DEF WithField, CountsInto
<1>8. /\ \A y \in Cell \cup Holder : /\ f[y].from = cells[y].from /\ f[y].fields = cells[y].fields
                                     /\ f[y].by = cells[y].by
      /\ i \in DOMAIN f[e].fields
  BY <1>6
<1>9. OnlyField(f, cells', e, i, d)
  BY <1>1, <1>6, <1>7, <1>8, FieldUpdate
<1>10. Put(e, i, d) /\ cells'[e].from = cells[e].from /\ cells'[e].by = cells[e].by
  BY <1>8, <1>9 DEF OnlyField, Put
<1>11. /\ cells' \in [Cell \cup Holder -> Content]
       /\ \A y \in Cell \cup Holder : y # e => cells'[y] = f[y]
       /\ \A y \in Cell \cup Holder : cells'[y].rc = f[y].rc /\ cells'[y].from = f[y].from
  BY <1>9 DEF OnlyField
<1>12. \A k \in Holder : k # e => cells'[k] = cells[k]
  BY <1>6, <1>11, Distinct
<1>13. \A y \in Cell \cup Holder : y # e => Keeps(y)
  BY <1>6, <1>8, <1>11 DEF Keeps
<1>14. \A y \in Cell : y # e /\ ~Used(y) => cells'[y] = cells[y]
  BY <1>6, <1>11
<1>15. \A y \in Cell \cup Holder : y # e => cells'[y].fields = cells[y].fields
  BY <1>8, <1>11
<1>16. Assigned(e, i, d)
  BY <1>10, <1>11, <1>12, <1>13, <1>14, <1>15 DEF Assigned
<1>17. /\ \A y \in Cell : cells'[y].from = cells[y].from
       /\ \A y \in Cell : y # d => cells'[y].rc = cells[y].rc
       /\ cells'[d].rc = Incr(cells[d].rc)
  BY <1>3, <1>6, <1>8, <1>11
<1> QED
  BY <1>13, <1>16, <1>17

\* A variable that is copied is put into a field.
LEMMA AssignNew ==
  ASSUME IInv, NEW e \in Cell, NEW i \in DOMAIN cells[e].fields, Used(e),
         NEW d \in Cell, ~Used(d), NEW new \in Content, new.from \in Var, new.fields = <<>>,
         MovesInto(e, i, d, new)
  PROVE  /\ Assigned(e, i, d) /\ cells'[d] = new
         /\ \A y \in Cell : y # d => cells'[y].from = cells[y].from /\ cells'[y].rc = cells[y].rc
<1>1. cells \in [Cell \cup Holder -> Content] /\ d \in Item /\ cells[d] = Unused /\ d # e
  BY Free DEF IInv, TypeOK, Item
<1>2. PICK f : f = [cells EXCEPT ![d] = new]
  OBVIOUS
<1>3. /\ f \in [Cell \cup Holder -> Content] /\ f[d] = new
      /\ \A y \in Cell \cup Holder : y # d => f[y] = cells[y]
  BY <1>1, <1>2
<1>4. WithField(f, cells', e, i, d)
  BY <1>2 DEF WithField, MovesInto
<1>5. f[e] = cells[e]
  BY <1>1, <1>3
<1>6. OnlyField(f, cells', e, i, d)
  BY <1>1, <1>3, <1>4, <1>5, FieldUpdate
<1>7. Put(e, i, d) /\ cells'[e].from = cells[e].from /\ cells'[e].by = cells[e].by
  BY <1>5, <1>6 DEF OnlyField, Put
<1>8. /\ cells' \in [Cell \cup Holder -> Content]
      /\ \A y \in Cell \cup Holder : y # e => cells'[y] = f[y]
      /\ \A y \in Cell \cup Holder : cells'[y].rc = f[y].rc /\ cells'[y].from = f[y].from
  BY <1>6 DEF OnlyField
<1>9. \A y \in Cell \cup Holder : y # e /\ y # d => cells'[y] = cells[y]
  BY <1>3, <1>8
<1>10. cells'[d] = new /\ new.fields = cells[d].fields
  BY <1>1, <1>3, <1>8 DEF Unused
<1>11. \A k \in Holder : cells'[k] = cells[k]
  BY <1>9, Distinct
<1>12. \A y \in Cell : y # e /\ Used(y) => Keeps(y)
  BY <1>9 DEF Keeps
<1>13. \A y \in Cell : y # e /\ ~Used(y) => cells'[y] = cells[y] \/ cells'[y].from \in Var
  BY <1>9, <1>10
<1>14. \A y \in Cell \cup Holder : y # e => cells'[y].fields = cells[y].fields
  BY <1>9, <1>10
<1>15. Assigned(e, i, d)
  BY <1>7, <1>8, <1>11, <1>12, <1>13, <1>14 DEF Assigned
<1>16. \A y \in Cell : y # d => cells'[y].from = cells[y].from /\ cells'[y].rc = cells[y].rc
  BY <1>3, <1>8
<1> QED
  BY <1>10, <1>15, <1>16

LEMMA KeepCountedStep ==
  ASSUME IInv, NEW t \in Thread, Doing(t, "keep"), NEW n, n = Len(work[t]),
         NEW e \in Cell, e = work[t][n].ref, NEW i \in DOMAIN cells[e].fields, i = work[t][n].at,
         NEW d \in Cell, held[d] > 0 \/ VarsOn(d) # {},
         Captures[cells[e].from][i] \in Var => cells[d].from \in Var,
         CountsInto(e, i, d),
         Advance(t, <<>>), forward' = forward, open' = open, held' = held, override' = override
  PROVE  IInv'
<1>1. /\ References(d) > 0 /\ Used(d) /\ cells[d].rc \in 1 .. Latch
  BY Counted
<1>2. cells[d].rc > 0
  BY <1>1, Distinct
<1>3. /\ Assigned(e, i, d)
      /\ \A y \in Cell : cells'[y].from = cells[y].from
      /\ \A y \in Cell : y # d => cells'[y].rc = cells[y].rc
      /\ cells'[d].rc = Incr(cells[d].rc)
  BY <1>1, <1>2, AssignCounted
<1>4. d \in Item /\ forward' \in [Var -> Cell \cup {Nil}]
  BY DEF Item, IInv, TypeOK
<1>5. d \in Cell /\ Captures[cells[e].from][i] \in Var => cells'[d].from \in Var
  BY <1>3
<1>6. /\ TypeOK' /\ CallsOK' /\ Alone("keep")' /\ Alone("dispose")'
      /\ FieldsOK' /\ HoldersOK' /\ CopiesUseAllocator'
      /\ \A c : DisposesOf(c)' = DisposesOf(c)
      /\ \A y \in Cell : CallsOn(y)' = CallsOn(y)
      /\ \A y \in Cell :
           /\ IsFiniteSet(FieldsOn(y)')
           /\ Cardinality(FieldsOn(y)') = Cardinality(FieldsOn(y)) + N(y = d)
  <2>1. GoneOn(d)
    BY <1>3, <1>4, <1>5, FieldGoesOn
  <2> QED
    BY <2>1 DEF GoneOn
<1>7. ForwardOK'
  <2>1. \A v \in Var : forward[v] # Nil => forward[v] \in Cell
    BY DEF IInv, TypeOK
  <2> QED
    BY <1>3, <2>1 DEF IInv, ForwardOK
<1>8. ASSUME NEW y \in Cell PROVE CellOK(y)'
  <2>1. PICK z \in 0 .. 1 : z = N(y = d)
    BY DEF N
  <2>2. VarsOn(y)' = VarsOn(y) /\ held'[y] = held[y] /\ CallsOn(y)' = CallsOn(y)
    BY <1>6 DEF VarsOn
  <2>3. IsFiniteSet(CallsOn(y)') /\ IsFiniteSet(FieldsOn(y)')
    BY <1>6, <2>2, Sums
  <2>4. References(y)' = References(y) + z
    BY SMTT(40), <1>6, <2>1, <2>2, Sums DEF References
  <2>5. CASE y = d
    <3>1. z = 1
      BY <2>1, <2>5 DEF N
    <3>2. References(y) > 0 /\ References(y)' = References(y) + 1
      BY <1>1, <2>4, <2>5, <3>1
    <3>3. Exact(y)' /\ cells'[y].rc > 0
      BY <1>3, <2>5, <3>2, OneMore
    <3> QED
      BY <2>3, <3>3 DEF CellOK
  <2>6. CASE y # d
    <3>1. z = 0
      BY <2>1, <2>6 DEF N
    <3>2. References(y)' = References(y)
      BY <2>4, <3>1, Sums
    <3> QED
      BY <1>3, <1>6, <2>3, <2>6, <3>2, SameCount, ZerosKept DEF CellOK
  <2> QED
    BY <2>5, <2>6
<1> QED
  BY <1>6, <1>7, <1>8, Whole

\* A variable gets another place to be forwarded to, and its block a reference.
LEMMA KeepNewStep ==
  ASSUME IInv, NEW t \in Thread, Doing(t, "keep"), NEW n, n = Len(work[t]),
         NEW e \in Cell, e = work[t][n].ref, NEW i \in DOMAIN cells[e].fields, i = work[t][n].at,
         NEW v \in Var, forward[v] = Nil, NEW d \in Cell, ~Used(d),
         MovesInto(e, i, d, NewVariable(t, v)),
         forward' = [forward EXCEPT ![v] = d],
         Advance(t, <<>>), open' = open, held' = held, override' = override
  PROVE  IInv'
<1>1. PICK new : new = NewVariable(t, v)
  OBVIOUS
<1>2. new \in Content /\ new.from = v /\ new.rc = 2 /\ new.fields = <<>>
  <2>1. override[t] \in Allocator \cup {Nil} /\ 2 \in 0 .. Latch /\ <<>> \in Seq(Item)
    BY Distinct, EmptySeq DEF IInv, TypeOK
  <2> QED
    BY <1>1, <2>1 DEF NewVariable, Content
<1>3. Used(e)
  <2>1. n \in DOMAIN work[t] /\ work[t][n].op = "keep"
    BY DoingCall
  <2>2. cells[e].from \in Literal
    BY <2>1, MakerAlone
  <2> QED
    BY <2>2, Distinct DEF Used
<1>4. /\ Assigned(e, i, d) /\ cells'[d] = new
      /\ \A y \in Cell : y # d => cells'[y].from = cells[y].from /\ cells'[y].rc = cells[y].rc
  <2>1. MovesInto(e, i, d, new)
    BY <1>1
  <2> QED
    BY <1>2, <1>3, <2>1, AssignNew
<1>5. /\ d \in Item /\ forward' \in [Var -> Cell \cup {Nil}] /\ forward'[v] = d
      /\ \A w \in Var : w # v => forward'[w] = forward[w]
  BY DEF Item, IInv, TypeOK
<1>6. d \in Cell /\ Captures[cells[e].from][i] \in Var => cells'[d].from \in Var
  BY <1>2, <1>4
<1>7. /\ TypeOK' /\ CallsOK' /\ Alone("keep")' /\ Alone("dispose")'
      /\ FieldsOK' /\ HoldersOK' /\ CopiesUseAllocator'
      /\ \A c : DisposesOf(c)' = DisposesOf(c)
      /\ \A y \in Cell : CallsOn(y)' = CallsOn(y)
      /\ \A y \in Cell :
           /\ IsFiniteSet(FieldsOn(y)')
           /\ Cardinality(FieldsOn(y)') = Cardinality(FieldsOn(y)) + N(y = d)
  <2>1. GoneOn(d)
    BY <1>4, <1>5, <1>6, FieldGoesOn
  <2> QED
    BY <2>1 DEF GoneOn
<1>8. /\ References(d) = 0 /\ held[d] = 0 /\ VarsOn(d) = {}
      /\ CallsOn(d) = {} /\ FieldsOn(d) = {}
  BY Free
<1>9. ForwardOK'
  <2>1. ASSUME NEW w \in Var, forward'[w] # Nil PROVE cells'[forward'[w]].from = w
    <3>1. CASE w = v
      BY <1>2, <1>4, <1>5, <3>1
    <3>2. CASE w # v
      <4>1. forward[w] # Nil /\ forward'[w] = forward[w]
        BY <1>5, <2>1, <3>2
      <4>2. forward[w] \in Cell /\ cells[forward[w]].from = w
        BY <4>1 DEF IInv, TypeOK, ForwardOK
      <4>3. forward[w] # d
        BY <1>8 DEF VarsOn
      <4> QED
        BY <1>4, <4>1, <4>2, <4>3
    <3> QED
      BY <3>1, <3>2
  <2> QED
    BY <2>1 DEF ForwardOK
<1>10. ASSUME NEW y \in Cell PROVE CellOK(y)'
  <2>1. held'[y] = held[y] /\ CallsOn(y)' = CallsOn(y)
    BY <1>7
  <2>2. IsFiniteSet(CallsOn(y)') /\ IsFiniteSet(FieldsOn(y)')
    BY <1>7, <2>1, Sums
  <2>3. CASE y = d
    <3>1. VarsOn(y)' = {v}
      <4>1. \A w : w \in VarsOn(y)' <=> w = v
        BY <1>5, <1>8, <2>3 DEF VarsOn
      <4> QED
        BY <4>1
    <3>2. Cardinality(VarsOn(y)') = 1 /\ Cardinality(FieldsOn(y)') = 1
      <4>1. Cardinality({v}) = 1 /\ Cardinality(FieldsOn(y)) = 0
        BY <1>8, <2>3, FS_Singleton, FS_EmptySet
      <4> QED
        BY <1>7, <2>3, <3>1, <4>1 DEF N
    <3>3. Cardinality(CallsOn(y)') = 0 /\ held'[y] = 0
      BY <1>8, <2>1, <2>3, FS_EmptySet
    <3>4. References(y)' = 2
      BY <3>2, <3>3 DEF References
    <3>5. Used(y)' /\ cells'[y].rc = 2
      BY <1>2, <1>4, <2>3, Distinct DEF Used
    <3> QED
      BY <2>2, <3>4, <3>5 DEF CellOK, Exact
  <2>4. CASE y # d
    <3>1. VarsOn(y)' = VarsOn(y)
      <4>1. \A w \in Var : forward'[w] = y <=> forward[w] = y
        BY <1>5, <2>4, Distinct
      <4> QED
        BY <4>1 DEF VarsOn
    <3>2. Cardinality(FieldsOn(y)') = Cardinality(FieldsOn(y))
      BY <1>7, <2>4, Sums DEF N
    <3>3. References(y)' = References(y)
      BY <2>1, <3>1, <3>2, Sums DEF References
    <3> QED
      BY <1>4, <1>7, <2>2, <2>4, <3>3, SameCount, ZerosKept DEF CellOK
  <2> QED
    BY <2>3, <2>4
<1> QED
  BY <1>7, <1>9, <1>10, Whole

\* The copy helper has a captured block copied.
GoesInto(t, call) == Advance(t, <<call>>)
CopiesInto(call, e, i) ==
  /\ call \in RuntimeCall /\ call.op = "copy" /\ call.ref \in Literal
  /\ call.into \in Place /\ call.into.cell = e /\ call.into.at = i

LEMMA KeepCopyStep ==
  ASSUME IInv, NEW t \in Thread, Doing(t, "keep"), NEW n, n = Len(work[t]),
         NEW e \in Cell, e = work[t][n].ref, NEW i \in DOMAIN cells[e].fields, i = work[t][n].at,
         Captures[cells[e].from][i] \in Literal,
         NEW call, CopiesInto(call, e, i), GoesInto(t, call), cells' = cells,
         forward' = forward, open' = open, held' = held, override' = override
  PROVE  IInv'
<1>0. TypeOK
  BY DEF IInv
<1>1. /\ work[t] # <<>> /\ n \in Nat \ {0} /\ DOMAIN work[t] = 1 .. n /\ n \in DOMAIN work[t]
      /\ work[t][n] \in RuntimeCall /\ work[t][n].op = "keep" /\ CallOK(t, n)
  BY DoingCall
<1>2. i \in Nat
  BY <1>1 DEF RuntimeCall
<1>5. /\ call \in RuntimeCall /\ call.op = "copy" /\ call.ref \in Literal
      /\ call.into \in Place /\ call.into.cell = e /\ call.into.at = i
  BY DEF CopiesInto
<1>6. PICK m \in Nat : m = n + 1
  BY <1>1
<1>7. /\ OnlyTop(t, n) /\ GoesOn(t, n) /\ DOMAIN work'[t] = 1 .. m /\ work'[t][m] = call
  BY <1>0, <1>1, <1>5, <1>6, AdvancedInto DEF GoesInto
<1>8. /\ work'[t][n].op = "keep" /\ work'[t][n].ref = e /\ work'[t][n].at = i + 1
      /\ work'[t][n].into = work[t][n].into
  BY <1>1, <1>7 DEF GoesOn
<1>9. work' \in [Thread -> Seq(RuntimeCall)]
  <2>1. n \in Nat
    BY <1>1
  <2>2. PICK s : s = Append(Outer(t), [Innermost(t) EXCEPT !.at = @ + 1]) \o <<call>>
    OBVIOUS
  <2>3. work' = [work EXCEPT ![t] = s]
    BY <2>2 DEF GoesInto, Advance
  <2> QED
    BY <1>7, <2>1, <2>3, WorkTyped
<1>10. TypeOK'
  BY <1>0, <1>9 DEF TypeOK
<1>11. \A k \in n .. m : k = n \/ k = m
  BY <1>1, <1>6
<1>12. /\ n \in Nat /\ m >= n - 1 /\ 1 .. n - 1 \subseteq DOMAIN work[t] /\ n > 0
  BY <1>1, <1>6
<1>13. /\ \A c : DisposesOf(c)' = DisposesOf(c)
       /\ \A c, j : Dropped(c, j)' <=> Dropped(c, j)
  <2>1. \A k \in 1 .. m : k >= n => work'[t][k].op \notin {"dispose", "empty"}
    <3>1. \A k \in 1 .. m : k >= n => k \in n .. m
      BY <1>12
    <3> QED
      BY <1>5, <1>7, <1>8, <1>11, <3>1
  <2>2. n > 0 => work[t][n].op \notin {"dispose", "empty"}
    BY <1>1
  <2> QED
    BY <1>0, <1>1, <1>7, <1>12, <2>1, <2>2, NoDisposeChanges
<1>14. /\ FieldsOK' /\ HoldersOK' /\ Spares(t, n)
       /\ \A c : FieldsOn(c)' = FieldsOn(c)
  BY <1>10, <1>12, <1>13, SameCells
<1>15. Alone("keep")' /\ Alone("dispose")'
  <2>1. \A op \in {"keep", "dispose"} :
          \A k \in n .. m : k > 0 /\ work'[t][k].op = op => k = n /\ GoesOn(t, n)
    BY <1>5, <1>7, <1>11
  <2> QED
    <3>1. /\ OnlyTop(t, n) /\ DOMAIN work[t] = 1 .. n /\ DOMAIN work'[t] = 1 .. m
          /\ n \in Nat
      BY ONLY <1>1, <1>7, <1>12
    <3>2. "keep" \in {"keep", "dispose"} /\ "dispose" \in {"keep", "dispose"}
      OBVIOUS
    <3>3. m \in Nat
      OBVIOUS
    <3>4. Alone("keep")'
      BY ONLY IInv, t \in Thread, <2>1, <3>1, <3>2, <3>3, AloneGoesOn
    <3>5. Alone("dispose")'
      BY ONLY IInv, t \in Thread, <2>1, <3>1, <3>2, <3>3, AloneGoesOn
    <3> QED
      BY ONLY <3>4, <3>5
<1>16. ASSUME NEW c \in Cell PROVE CallsOn(c)' = CallsOn(c) /\ IsFiniteSet(CallsOn(c)')
  <2>1. CallsOn(c)' = (CallsOn(c) \ {<<t, n>>})
                     \cup {<<t, k>> : k \in {j \in n .. m : j > 0 /\ Counts(work'[t][j], c)}}
    BY <1>0, <1>1, <1>7, <1>12, CallsOnAfter
  <2>2. <<t, n>> \in CallsOn(c) <=> Counts(work[t][n], c)
    BY <1>1, CallsOnAre
  <2>3. Counts(work'[t][n], c) <=> Counts(work[t][n], c)
    BY <1>7 DEF GoesOn, Counts
  <2>4. ~Counts(work'[t][m], c)
    BY <1>5, <1>7 DEF Counts
  <2>5. {j \in n .. m : j > 0 /\ Counts(work'[t][j], c)} =
          IF Counts(work[t][n], c) THEN {n} ELSE {}
    <3>1. n \in n .. m /\ n > 0
      BY <1>6, <1>12
    <3>2. \A j \in n .. m : j > 0 /\ Counts(work'[t][j], c) <=> j = n /\ Counts(work[t][n], c)
      BY <1>11, <2>3, <2>4, <3>1
    <3> QED
      BY <3>1, <3>2
  <2>6. CallsOn(c)' = CallsOn(c)
    BY <2>1, <2>2, <2>5
  <2> QED
    BY <2>6, Sums
<1>17. ASSUME NEW u \in Thread PROVE Asked(u)' = Asked(u)
  <2>1. /\ n = 1 => work[t][n].op # "restore"
        /\ n <= 1 /\ m >= 1 => work'[t][1].op # "restore"
    <3>1. n <= 1 => n = 1
      <4>1. n \in Nat /\ n > 0
        BY <1>12
      <4> QED
        BY ONLY <4>1
    <3> QED
      BY <1>1, <1>8, <3>1
  <2> QED
    BY <1>0, <1>1, <1>7, <1>12, <2>1, AskedKept
<1>18. KeepOK(t, n) /\ cells[e].fields[i] = Nil
  <2>1. KeepOK(t, n)
    BY <1>1 DEF CallOK
  <2>2. i >= i
    BY <1>2
  <2> QED
    BY <2>1, <2>2 DEF KeepOK
<1>19. CallOK(t, n)'
  <2>1. Put(e, i, Nil)
    BY <1>18 DEF Put
  <2>2. /\ work[t][n].at <= i + 1 /\ cells'[e].from = cells[e].from
        /\ \A k \in 1 .. n - 1 : work'[t][k] = work[t][k]
    BY <1>2, <1>7 DEF OnlyTop
  <2> QED
    BY <1>1, <1>8, <1>14, <2>1, <2>2, MakerGoesOn
<1>20. CallOK(t, m)'
  <2>1. m - 1 = n /\ m > 1
    BY <1>6, <1>12
  <2>2. Placed(t, m)'
    BY <1>5, <1>7, <1>8, <1>18, <2>1 DEF Placed
  <2> QED
    BY <1>5, <1>7, <2>2 DEF CallOK, CopyOK
<1>21. CallsOK'
  <2>1. \A k \in n .. m : k > 0 => CallOK(t, k)'
    BY <1>11, <1>19, <1>20
  <2> QED
    BY <1>7, <1>12, <1>14, <2>1, CallsGoOn
<1>22. CopiesUseAllocator'
  <2>1. cells[e].by = override[t]
    BY <1>1 DEF IInv, CopiesUseAllocator
  <2>2. \A k \in n .. m : k > 0 /\ work'[t][k].op = "keep" =>
          cells'[work'[t][k].ref].by = override[t]
    BY <1>5, <1>7, <1>8, <1>11, <2>1
  <2> QED
    BY <1>7, <1>12, <1>14, <1>17, <2>2, AllocatorsGoOn
<1>23. ForwardOK'
  BY DEF IInv, ForwardOK
<1>24. ASSUME NEW d \in Cell PROVE CellOK(d)'
  <2>1. VarsOn(d)' = VarsOn(d) /\ FieldsOn(d)' = FieldsOn(d)
    BY <1>14 DEF VarsOn
  <2>2. References(d)' = References(d)
    BY <1>16, <2>1 DEF References
  <2>3. IsFiniteSet(CallsOn(d)') /\ IsFiniteSet(FieldsOn(d)')
    BY <1>16, <2>1, Sums
  <2> QED
    BY <1>13, <2>2, <2>3, SameCount, ZerosKept DEF CellOK
<1> QED
  BY <1>10, <1>14, <1>15, <1>21, <1>22, <1>23, <1>24, Whole

LEMMA KeepStep ==
  ASSUME IInv, HoldersAlone, NEW t \in Thread, Keep(t)
  PROVE  IInv'
<1>1. PICK n : n = Len(work[t])
  OBVIOUS
<1>2. Doing(t, "keep")
  BY DEF Keep
<1>3. /\ work[t] # <<>> /\ work[t][n].op = "keep" /\ Innermost(t) = work[t][n]
      /\ CallOK(t, n) /\ work[t][n].at \in Nat
  BY <1>1, <1>2, DoingCall DEF RuntimeCall
<1>4. PICK e : e = work[t][n].ref
  OBVIOUS
<1>5. PICK i : i = work[t][n].at
  OBVIOUS
<1>6. /\ e \in Cell /\ cells[e].from \in Literal /\ i \in 1 .. Len(cells[e].fields) + 1
  BY <1>3, <1>4, <1>5 DEF CallOK, KeepOK
<1>7. /\ Len(cells[e].fields) \in Nat /\ DOMAIN cells[e].fields = 1 .. Len(cells[e].fields)
      /\ Len(cells[e].fields) = Len(Captures[cells[e].from])
  <2>1. cells[e].fields \in Seq(Item)
    BY <1>6, Sums DEF Content
  <2>2. ContentOK(e)
    BY <1>6 DEF IInv, FieldsOK
  <2> QED
    BY <1>6, <2>1, <2>2, LenProperties DEF ContentOK
<1>8. open' = open /\ override' = override
  BY DEF Keep
<1>9. CASE i > Len(cells[e].fields)
  <2>1. Deliver(t, e, work[t][n].into, cells) /\ forward' = forward
    BY <1>3, <1>4, <1>5, <1>9 DEF Keep
  <2>2. Delivered(t, n, e)
    BY <1>3, <1>4 DEF Delivered
  <2> QED
    BY <1>1, <1>3, <1>8, <2>1, <2>2, DeliverStep
<1>10. CASE ~(i > Len(cells[e].fields))
  <2>1. i \in DOMAIN cells[e].fields
    BY <1>6, <1>7, <1>10
  <2>2. PICK v : v = Captures[cells[e].from][i]
    OBVIOUS
  <2>3. /\ \/ v \in Var /\ AssignVariable(t, e, i, v)
           \/ v \in Literal /\ AssignBlock(t, e, i, v)
        /\ held' = held
    BY <1>3, <1>4, <1>5, <1>10, <2>2 DEF Keep
  <2>4. CASE v \in Var /\ AssignVariable(t, e, i, v)
    <3>1. CASE forward[v] = Nil
      <4>1. PICK d \in FreeCells : /\ cells' = [cells EXCEPT ![d] = NewVariable(t, v), ![e].fields[i] = d]
                                   /\ forward' = [forward EXCEPT ![v] = d]
        BY <2>4, <3>1 DEF AssignVariable
      <4>2. d \in Cell /\ ~Used(d) /\ Advance(t, <<>>)
        BY <2>4, <3>1 DEF FreeCells, AssignVariable
      <4>3. MovesInto(e, i, d, NewVariable(t, v)) /\ forward' = [forward EXCEPT ![v] = d]
        BY <4>1 DEF MovesInto
      <4> QED
        BY <1>1, <1>2, <1>4, <1>5, <1>6, <1>8, <2>1, <2>3, <2>4, <3>1, <4>2, <4>3, KeepNewStep
    <3>2. CASE forward[v] # Nil
      <4>1. PICK d : d = forward[v]
        OBVIOUS
      <4>2. /\ cells' = [cells EXCEPT ![d].rc = Incr(@), ![e].fields[i] = d]
            /\ Advance(t, <<>>) /\ forward' = forward
        BY <2>4, <3>2, <4>1 DEF AssignVariable
      <4>3. d \in Cell /\ cells[d].from = v /\ VarsOn(d) # {}
        BY <2>4, <3>2, <4>1 DEF IInv, TypeOK, ForwardOK, VarsOn
      <4>4. CountsInto(e, i, d)
        BY <4>2 DEF CountsInto
      <4>5. Captures[cells[e].from][i] \in Var => cells[d].from \in Var
        BY <2>4, <4>3
      <4> QED
        BY <1>1, <1>2, <1>4, <1>5, <1>6, <1>8, <2>1, <2>3, <4>2, <4>3, <4>4, <4>5, KeepCountedStep
    <3> QED
      BY <3>1, <3>2
  <2>5. CASE v \in Literal /\ AssignBlock(t, e, i, v)
    <3>1. forward' = forward
      BY <2>5 DEF AssignBlock
    <3>2. CASE Advance(t, <<Call("copy", v, 0, [cell |-> e, at |-> i])>>) /\ cells' = cells
      <4>1. PICK call : call = Call("copy", v, 0, [cell |-> e, at |-> i])
        OBVIOUS
      <4>2. GoesInto(t, call)
        BY <3>2, <4>1 DEF GoesInto
      <4>3. CopiesInto(call, e, i)
        <5>1. PICK into : into = [cell |-> e, at |-> i]
          OBVIOUS
        <5>2. into \in Place /\ into.cell = e /\ into.at = i
          BY <1>3, <1>5, <1>6, <5>1 DEF Place
        <5> QED
          BY <2>5, <4>1, <5>1, <5>2 DEF CopiesInto, Call, RuntimeCall
      <4>4. Captures[cells[e].from][i] \in Literal
        BY <2>2, <2>5
      <4> QED
        BY <1>1, <1>2, <1>4, <1>5, <1>6, <1>8, <2>1, <2>3, <3>1, <3>2, <4>2, <4>3, <4>4, KeepCopyStep
    <3>3. CASE \E d \in Cell : /\ held[d] > 0
                               /\ cells' = [cells EXCEPT ![d].rc = Incr(@), ![e].fields[i] = d]
                               /\ Advance(t, <<>>)
      <4>1. PICK d \in Cell : /\ held[d] > 0
                              /\ cells' = [cells EXCEPT ![d].rc = Incr(@), ![e].fields[i] = d]
                              /\ Advance(t, <<>>)
        BY <3>3
      <4>2. CountsInto(e, i, d) /\ Advance(t, <<>>) /\ held[d] > 0
        BY <4>1 DEF CountsInto
      <4>3. Captures[cells[e].from][i] \in Var => cells[d].from \in Var
        BY <2>2, <2>5, Distinct
      <4> QED
        BY <1>1, <1>2, <1>4, <1>5, <1>6, <1>8, <2>1, <2>3, <3>1, <4>2, <4>3, KeepCountedStep
    <3> QED
      BY <2>5, <3>2, <3>3 DEF AssignBlock
  <2> QED
    BY <2>3, <2>4, <2>5
<1> QED
  BY <1>9, <1>10
-----------------------------------------------------------------------------
(* The program: leaves a frame *)

LEMMA Ordered ==
  ASSUME NEW S, IsFiniteSet(S), NEW order \in [1 .. Cardinality(S) -> S],
         \A v \in S : \E i \in DOMAIN order : order[i] = v
  PROVE  /\ Cardinality(S) \in Nat
         /\ \A i, j \in 1 .. Cardinality(S) : order[i] = order[j] => i = j
<1>1. PICK K \in Nat : K = Cardinality(S)
  BY FS_CardinalityType
<1>2. order \in Surjection(1 .. K, S)
  BY <1>1, Fun_IsSurj
<1>3. IsFiniteSet(1 .. K) /\ Cardinality(1 .. K) = K
  BY <1>1, FS_Interval
<1>4. order \in Injection(1 .. K, S)
  BY <1>1, <1>2, <1>3, FS_SurjSameCardinalityImpliesInj
<1> QED
  BY <1>1, <1>4, Fun_InjectionProperties

\* A variable is forwarded to its own copy.
LEMMA OneVariable ==
  ASSUME IInv, NEW c \in Cell, NEW v \in VarsOn(c)
  PROVE  VarsOn(c) = {v} /\ v \in Var /\ forward[v] = c /\ forward[v] # Nil
<1>1. \A w \in VarsOn(c) : w \in Var /\ forward[w] = c /\ forward[w] # Nil /\ cells[c].from = w
  BY Distinct DEF VarsOn, IInv, ForwardOK
<1> QED
  BY <1>1

\* The calls that release the variables of a frame
Releases(moved, order, s) ==
  /\ order \in [1 .. Cardinality(moved) -> moved]
  /\ \A v \in moved : \E i \in DOMAIN order : order[i] = v
  /\ s = [i \in DOMAIN order |-> Call("byref", forward[order[i]], 0, Nil)]

\* They are one for each of the variables.
EachReleased(moved, order, s) ==
  /\ s \in Seq(RuntimeCall) /\ Len(s) \in Nat
  /\ DOMAIN s = 1 .. Len(s) /\ DOMAIN order = 1 .. Len(s)
  /\ \A i \in 1 .. Len(s) :
       s[i].op = "byref" /\ s[i].ref = forward[order[i]] /\ order[i] \in moved
  /\ \A i, j \in 1 .. Len(s) : order[i] = order[j] => i = j
  /\ \A v \in moved : \E i \in 1 .. Len(s) : order[i] = v

LEMMA ReleasesTyped ==
  ASSUME IInv, NEW moved \in SUBSET Var,
         \A v \in moved : forward[v] # Nil,
         NEW order, NEW s, Releases(moved, order, s)
  PROVE  EachReleased(moved, order, s)
<1>1. IsFiniteSet(moved)
  BY Distinct, FS_Subset
<1>2. /\ order \in [1 .. Cardinality(moved) -> moved]
      /\ \A v \in moved : \E i \in DOMAIN order : order[i] = v
      /\ s = [i \in DOMAIN order |-> Call("byref", forward[order[i]], 0, Nil)]
  BY DEF Releases
<1>3. /\ Cardinality(moved) \in Nat
      /\ \A i, j \in 1 .. Cardinality(moved) : order[i] = order[j] => i = j
  BY <1>1, <1>2, Ordered
<1>4. PICK K \in Nat : K = Cardinality(moved)
  BY <1>3
<1>5. DOMAIN order = 1 .. K /\ \A i \in 1 .. K : order[i] \in moved
  BY <1>2, <1>4
<1>6. ASSUME NEW i \in 1 .. K
      PROVE  s[i] \in RuntimeCall /\ s[i].op = "byref" /\ s[i].ref = forward[order[i]]
  <2>1. PICK c : c = forward[order[i]]
    OBVIOUS
  <2>2. c \in Cell
    <3>1. forward \in [Var -> Cell \cup {Nil}]
      BY DEF IInv, TypeOK
    <3> QED
      BY <1>5, <2>1, <3>1
  <2>3. s[i] = Call("byref", c, 0, Nil)
    BY <1>2, <1>5, <2>1
  <2> QED
    BY <2>1, <2>2, <2>3 DEF Call, RuntimeCall, Item
<1>7. DOMAIN s = 1 .. K
  BY <1>2, <1>5
<1>8. s \in [1 .. K -> RuntimeCall]
  <2>1. s = [i \in 1 .. K |-> s[i]]
    BY <1>2, <1>5
  <2> QED
    BY <1>6, <2>1
<1>9. s \in Seq(RuntimeCall)
  BY <1>8, SeqDef
<1>10. Len(s) = K
  BY <1>7, <1>9, LenProperties
<1> QED
  BY <1>2, <1>3, <1>4, <1>5, <1>6, <1>7, <1>9, <1>10 DEF EachReleased

LEMMA LeaveFrameStep ==
  ASSUME IInv, NEW t \in Thread, LeaveFrame(t)
  PROVE  IInv'
<1>0. TypeOK
  BY DEF IInv
<1>1. PICK moved : moved = {v \in Var : OwnerOf[v] = t /\ forward[v] # Nil}
  OBVIOUS
<1>2. /\ work[t] = <<>> /\ open' = [open EXCEPT ![t] = FALSE]
      /\ forward' = [v \in Var |-> IF OwnerOf[v] = t THEN Nil ELSE forward[v]]
      /\ cells' = cells /\ held' = held /\ override' = override
  BY DEF LeaveFrame
<1>3. PICK order \in [1 .. Cardinality(moved) -> moved] :
        /\ \A v \in moved : \E i \in DOMAIN order : order[i] = v
        /\ work' = [work EXCEPT ![t] =
                      [i \in DOMAIN order |-> Call("byref", forward[order[i]], 0, Nil)]]
  BY <1>1 DEF LeaveFrame
<1>4. PICK s : s = [i \in DOMAIN order |-> Call("byref", forward[order[i]], 0, Nil)]
  OBVIOUS
<1>5. Releases(moved, order, s) /\ work' = [work EXCEPT ![t] = s]
  BY <1>3, <1>4 DEF Releases
<1>6. moved \in SUBSET Var /\ \A v \in moved : forward[v] # Nil
  BY <1>1
<1>7. /\ s \in Seq(RuntimeCall) /\ Len(s) \in Nat
      /\ DOMAIN s = 1 .. Len(s)
      /\ \A i \in 1 .. Len(s) :
           s[i].op = "byref" /\ s[i].ref = forward[order[i]] /\ order[i] \in moved
      /\ \A i, j \in 1 .. Len(s) : order[i] = order[j] => i = j
      /\ \A v \in moved : \E i \in 1 .. Len(s) : order[i] = v
  <2>1. Releases(moved, order, s)
    BY <1>5
  <2>2. EachReleased(moved, order, s)
    BY <1>6, <2>1, ReleasesTyped
  <2> QED
    BY <2>2 DEF EachReleased
<1>8. PICK m \in Nat : m = Len(s)
  BY <1>7
<1>9. \A k \in DOMAIN s : s[k].op \notin {"keep", "dispose", "empty", "restore"}
  <2>1. \A k \in DOMAIN s : s[k].op = "byref"
    BY ONLY <1>7
  <2> QED
    BY ONLY <2>1
<1>10. /\ OnlyTop(t, 0) /\ work'[t] = s
       /\ DOMAIN work[t] = 1 .. 0 /\ DOMAIN work'[t] = 1 .. m
       /\ work' \in [Thread -> Seq(RuntimeCall)]
       /\ \A d : DisposesOf(d)' = DisposesOf(d)
       /\ \A d, i : Dropped(d, i)' <=> Dropped(d, i)
       /\ Alone("keep")' /\ Alone("dispose")'
       /\ \A u \in Thread : Asked(u)' = Asked(u)
  <2>1. \A k \in DOMAIN s : s[k].op \notin {"keep", "dispose", "empty"}
    BY <1>9
  <2>2. /\ OnlyTop(t, 0) /\ work'[t] = s
        /\ DOMAIN work[t] = 1 .. 0 /\ DOMAIN work'[t] = 1 .. Len(s)
        /\ work' \in [Thread -> Seq(RuntimeCall)]
        /\ \A d : DisposesOf(d)' = DisposesOf(d)
        /\ \A d, i : Dropped(d, i)' <=> Dropped(d, i)
        /\ Alone("keep")' /\ Alone("dispose")'
        /\ (s # <<>> => s[1].op # "restore") => \A u \in Thread : Asked(u)' = Asked(u)
    BY <1>2, <1>5, <1>7, <2>1, Begins
  <2>3. s # <<>> => s[1].op # "restore"
    <3> SUFFICES ASSUME s # <<>> PROVE 1 \in DOMAIN s
      BY <1>9
    <3>1. Len(s) # 0
      BY <1>7, EmptySeq
    <3> QED
      BY <1>7, <3>1
  <2> QED
    BY <1>8, <2>2, <2>3
<1>11. /\ open' \in [Thread -> BOOLEAN] /\ forward' \in [Var -> Cell \cup {Nil}]
       /\ \A v \in Var : forward'[v] = IF v \in moved THEN Nil ELSE forward[v]
  BY <1>0, <1>1, <1>2 DEF TypeOK
<1>12. TypeOK'
  BY <1>0, <1>2, <1>10, <1>11 DEF TypeOK
<1>13. /\ FieldsOK' /\ HoldersOK' /\ Spares(t, 0) /\ \A d : FieldsOn(d)' = FieldsOn(d)
  BY <1>2, <1>10, <1>12, SameCells
<1>14. \A v \in moved : /\ v \in Var /\ forward[v] \in Cell /\ v \in VarsOn(forward[v])
                        /\ cells[forward[v]].from = v
  BY <1>0, <1>6 DEF VarsOn, TypeOK, IInv, ForwardOK
<1>15. CallsOK'
  <2>1. ASSUME NEW k \in 0 .. m, k > 0 PROVE CallOK(t, k)'
    <3>1. k \in 1 .. Len(s)
      BY <1>8, <2>1
    <3>2. /\ work'[t][k].op = "byref" /\ work'[t][k].ref = forward[order[k]]
          /\ order[k] \in moved
      BY <1>7, <1>10, <3>1
    <3>3. cells'[work'[t][k].ref].from \in Var /\ work'[t][k].ref \in Item
      BY <1>2, <1>14, <3>2 DEF Item
    <3>4. ByrefOK(t, k)'
      BY ONLY <3>3 DEF ByrefOK
    <3> QED
      BY ONLY <3>2, <3>4 DEF CallOK
  <2>2. 1 .. 0 - 1 \subseteq DOMAIN work[t]
    OBVIOUS
  <2> QED
    BY <1>10, <1>13, <2>1, <2>2, CallsGoOn
<1>16. CopiesUseAllocator'
  <2>1. ASSUME NEW k \in 0 .. m, k > 0 PROVE work'[t][k].op # "keep"
    <3>1. k \in DOMAIN s
      BY <1>7, <1>8, <2>1
    <3> QED
      BY <1>9, <1>10, <3>1
  <2>2. \A k \in 0 .. m : k > 0 /\ work'[t][k].op = "keep" =>
          cells'[work'[t][k].ref].by = override[t]
    BY <2>1
  <2>3. 1 .. 0 - 1 \subseteq DOMAIN work[t]
    OBVIOUS
  <2> QED
    BY <1>2, <1>10, <1>13, <2>2, <2>3, AllocatorsGoOn
<1>17. ForwardOK'
  BY <1>2, <1>11 DEF IInv, ForwardOK
<1>18. ASSUME NEW d \in Cell PROVE CellOK(d)'
  <2>0. PICK z : z = 0
    OBVIOUS
  <2>1. FieldsOn(d)' = FieldsOn(d) /\ held'[d] = held[d] /\ IsFiniteSet(FieldsOn(d)')
    BY <1>2, <1>13, Sums
  <2>2. CallsOn(d)' = CallsOn(d)
                        \cup {<<t, k>> : k \in {j \in z .. m : j > 0 /\ Counts(work'[t][j], d)}}
    <3>1. CallsOn(d)' = (CallsOn(d) \ {<<t, z>>})
                         \cup {<<t, k>> : k \in {j \in z .. m : j > 0 /\ Counts(work'[t][j], d)}}
      <4>1. z \in Nat /\ m >= z - 1
        BY <1>8, <2>0
      <4>2. OnlyTop(t, z) /\ DOMAIN work[t] = 1 .. z /\ DOMAIN work'[t] = 1 .. m
        BY <1>10, <2>0
      <4> QED
        BY <1>0, <4>1, <4>2, CallsOnAfter
    <3>2. <<t, z>> \notin CallsOn(d)
      <4>1. z \notin DOMAIN work[t]
        BY <1>10, <2>0
      <4> QED
        BY <4>1, CallsOnAre
    <3> QED
      BY <3>1, <3>2
  <2>3. \A j \in z .. m : j > 0 =>
          (Counts(work'[t][j], d) <=> forward[order[j]] = d) /\ order[j] \in moved
    <3> SUFFICES ASSUME NEW j \in z .. m, j > 0
                 PROVE  (Counts(work'[t][j], d) <=> forward[order[j]] = d) /\ order[j] \in moved
      OBVIOUS
    <3>1. j \in 1 .. Len(s)
      BY <1>8, <2>0
    <3> QED
      BY <1>7, <1>10, <3>1 DEF Counts
  <2>4. CASE \E v \in moved : forward[v] = d
    <3>1. PICK v \in moved : forward[v] = d
      BY <2>4
    <3>2. VarsOn(d) = {v}
      BY <1>14, <3>1, OneVariable
    <3>3. PICK i \in 1 .. m : order[i] = v
      BY <1>7, <1>8
    <3>4. \A j \in z .. m : j > 0 /\ Counts(work'[t][j], d) <=> j = i
      <4>1. ASSUME NEW j \in z .. m, j > 0, Counts(work'[t][j], d) PROVE j = i
        <5>1. order[j] \in moved /\ forward[order[j]] = d
          BY <2>3, <4>1
        <5>2. order[j] \in VarsOn(d)
          BY <1>14, <5>1
        <5>3. order[j] = order[i]
          BY <3>2, <3>3, <5>2
        <5>4. j \in 1 .. m
          BY <2>0, <4>1
        <5> QED
          BY <1>7, <1>8, <5>3, <5>4
      <4>2. i \in z .. m /\ i > 0
        BY <2>0
      <4>3. Counts(work'[t][i], d)
        BY <2>3, <3>1, <3>3, <4>2
      <4> QED
        BY <4>1, <4>2, <4>3
    <3>5. {<<t, k>> : k \in {j \in z .. m : j > 0 /\ Counts(work'[t][j], d)}} = {<<t, i>>}
      <4>1. {j \in z .. m : j > 0 /\ Counts(work'[t][j], d)} = {i}
        <5>1. i \in z .. m
          BY <2>0
        <5> QED
          BY <3>4, <5>1
      <4> QED
        BY <4>1
    <3>6. <<t, i>> \notin CallsOn(d)
      <4>1. i \notin DOMAIN work[t]
        BY <1>10
      <4> QED
        BY <4>1, CallsOnAre
    <3>7. /\ IsFiniteSet(CallsOn(d)')
          /\ Cardinality(CallsOn(d)') = Cardinality(CallsOn(d)) + 1
      <4>1. CallsOn(d)' = CallsOn(d) \cup {<<t, i>>}
        BY <2>2, <3>5
      <4>2. IsFiniteSet(CallsOn(d))
        BY Sums
      <4> QED
        BY ZenonT(40), <3>6, <4>1, <4>2, FS_AddElement
    <3>8. VarsOn(d)' = {}
      <4>1. \A w \in Var : forward'[w] # d
        <5> SUFFICES ASSUME NEW w \in Var, forward'[w] = d PROVE FALSE
          OBVIOUS
        <5>1. w \notin moved /\ forward[w] = d
          BY <1>11, Distinct
        <5> QED
          BY <3>2, <5>1 DEF VarsOn
      <4> QED
        BY <4>1 DEF VarsOn
    <3>9. Cardinality(VarsOn(d)') = 0 /\ Cardinality(VarsOn(d)) = 1
      BY <3>2, <3>8, FS_EmptySet, FS_Singleton
    <3>10. References(d)' = References(d)
      BY <2>1, <3>7, <3>9, Sums DEF References
    <3> QED
      BY <1>2, <1>10, <2>1, <3>7, <3>10, SameCount, ZerosKept DEF CellOK
  <2>5. CASE ~\E v \in moved : forward[v] = d
    <3>1. VarsOn(d)' = VarsOn(d)
      <4>1. \A w \in Var : forward'[w] = d <=> forward[w] = d
        BY <1>11, <2>5, Distinct
      <4> QED
        BY <4>1 DEF VarsOn
    <3>2. CallsOn(d)' = CallsOn(d)
      <4>1. {j \in z .. m : j > 0 /\ Counts(work'[t][j], d)} = {}
        BY <2>3, <2>5
      <4> QED
        BY <2>2, <4>1
    <3>3. References(d)' = References(d) /\ IsFiniteSet(CallsOn(d)')
      BY <2>1, <3>1, <3>2, Sums DEF References
    <3> QED
      BY <1>2, <1>10, <2>1, <3>3, SameCount, ZerosKept DEF CellOK
  <2> QED
    BY <2>4, <2>5
<1> QED
  BY <1>10, <1>12, <1>13, <1>15, <1>16, <1>17, <1>18, Whole
-----------------------------------------------------------------------------
(* The invariant *)

LEMMA InitOK ==
  ASSUME BlockInit
  PROVE  IInv
<1>1. /\ cells = [c \in Cell \cup Holder |-> Unused] /\ forward = [v \in Var |-> Nil]
      /\ open = [t \in Thread |-> FALSE] /\ held = [c \in Cell |-> 0]
      /\ work = [t \in Thread |-> <<>>] /\ override = [t \in Thread |-> Nil]
  BY DEF BlockInit
<1>2. /\ \A t \in Thread : work[t] = <<>> /\ DOMAIN work[t] = {} /\ override[t] = Nil
      /\ \A c \in Cell \cup Holder : cells[c] = Unused
      /\ \A c \in Cell : held[c] = 0
      /\ \A v \in Var : forward[v] = Nil
  BY <1>1
<1>3. TypeOK
  <2>1. cells \in [Cell \cup Holder -> Content]
    BY <1>1, UnusedTyped
  <2>2. work \in [Thread -> Seq(RuntimeCall)]
    <3>1. <<>> \in Seq(RuntimeCall)
      BY EmptySeq
    <3> QED
      BY <1>1, <3>1
  <2> QED
    BY <1>1, <2>1, <2>2 DEF TypeOK
<1>4. CallsOK
  BY <1>2 DEF CallsOK
<1>5. Calls = {}
  BY <1>2, CallsAre
<1>6. Alone("keep") /\ Alone("dispose")
  BY <1>5 DEF Alone
<1>7. \A c \in Cell \cup Holder : /\ cells[c].from = Nil /\ cells[c].fields = <<>>
                                  /\ DOMAIN cells[c].fields = {}
  BY <1>2 DEF Unused
<1>8. FieldsOK
  BY <1>2, <1>7, Distinct DEF FieldsOK, ContentOK
<1>9. HoldersOK
  BY <1>2, <1>7 DEF HoldersOK
<1>10. ForwardOK
  BY <1>2 DEF ForwardOK
<1>11. ASSUME NEW c \in Cell
       PROVE  ~Used(c) /\ VarsOn(c) = {} /\ CallsOn(c) = {} /\ FieldsOn(c) = {}
  <2>1. Fields = {}
    BY <1>7 DEF Fields
  <2>2. FieldsOn(c) = {}
    BY <2>1 DEF FieldsOn
  <2>3. CallsOn(c) = {}
    BY <1>5 DEF CallsOn
  <2>4. VarsOn(c) = {}
    BY <1>2, Distinct DEF VarsOn
  <2> QED
    BY <1>7, <2>2, <2>3, <2>4 DEF Used
<1>12. Finite
  BY <1>11, FS_EmptySet DEF Finite
<1>13. HeapCountsExact
  <2>1. ASSUME NEW c \in Cell PROVE References(c) = 0
    <3>1. PICK z : z = 0
      OBVIOUS
    <3>2. Cardinality({}) = z
      BY <3>1, FS_EmptySet
    <3>3. Cardinality(VarsOn(c)) = z /\ Cardinality(CallsOn(c)) = z /\ Cardinality(FieldsOn(c)) = z
      BY <1>11, <3>2, Zenon
    <3>4. held[c] = z
      BY <1>2, <3>1
    <3> QED
      BY <3>1, <3>3, <3>4 DEF References
  <2> QED
    BY <1>11, <2>1 DEF HeapCountsExact
<1>14. ZeroDisposed
  BY <1>11 DEF ZeroDisposed
<1>15. CopiesUseAllocator
  BY <1>2 DEF CopiesUseAllocator
<1> QED
  BY <1>3, <1>4, <1>6, <1>8, <1>9, <1>10, <1>12, <1>13, <1>14, <1>15 DEF IInv

LEMMA Stutter ==
  ASSUME IInv, UNCHANGED blockVars
  PROVE  IInv'
<1>1. /\ cells' = cells /\ forward' = forward /\ open' = open /\ held' = held
      /\ work' = work /\ override' = override
  BY DEF blockVars
<1>2. Calls' = Calls /\ \A x : CallAt(x)' = CallAt(x)
  BY <1>1 DEF Calls, CallAt
<1>3. \A d, i : Dropped(d, i)' <=> Dropped(d, i)
  BY <1>2 DEF Dropped
<1>4. Fields' = Fields
  BY <1>1 DEF Fields
<1>5. /\ \A c : VarsOn(c)' = VarsOn(c) /\ CallsOn(c)' = CallsOn(c)
      /\ \A c : DisposesOf(c)' = DisposesOf(c)
  BY <1>1, <1>2 DEF VarsOn, CallsOn, DisposesOf
<1>6. \A c : FieldsOn(c)' = FieldsOn(c)
  BY <1>1, <1>3, <1>4 DEF FieldsOn
<1>7. TypeOK'
  BY <1>1 DEF IInv, TypeOK
<1>8. \A c : Keeps(c)
  BY <1>1 DEF Keeps
<1>9. CallsOK'
  <2> SUFFICES ASSUME NEW t \in Thread, NEW k \in DOMAIN work'[t] PROVE CallOK(t, k)'
    BY DEF CallsOK
  <2>1. k \in DOMAIN work[t] /\ CallOK(t, k)
    BY <1>1 DEF IInv, CallsOK
  <2> QED
    BY <1>1, <1>8, <2>1, CallKept
<1>10. Alone("keep")' /\ Alone("dispose")'
  BY <1>2 DEF IInv, Alone
<1>11. FieldsOK' /\ HoldersOK' /\ ForwardOK'
  BY <1>1, <1>3 DEF IInv, FieldsOK, ContentOK, HoldersOK, ForwardOK, Used
<1>12. \A c : References(c)' = References(c)
  BY <1>1, <1>5, <1>6 DEF References
<1>13. ASSUME NEW d \in Cell PROVE CellOK(d)'
  BY <1>1, <1>5, <1>6, <1>12, Sums
     DEF CellOK, Exact, IInv, HeapCountsExact, ZeroDisposed, Used
<1>14. CopiesUseAllocator'
  BY <1>1 DEF IInv, CopiesUseAllocator
<1> QED
  BY <1>7, <1>9, <1>10, <1>11, <1>13, <1>14, Whole

LEMMA Inductive ==
  ASSUME IInv, HoldersAlone, [BlockNext]_blockVars
  PROVE  IInv'
<1>1. ASSUME NEW t \in Thread, Running(t) PROVE IInv'
  <2>1. CASE Restore(t)
    BY <2>1, RestoreStep
  <2>2. CASE CopyLiteral(t)
    BY <2>2, CopyLiteralStep
  <2>3. CASE Keep(t)
    BY <2>3, KeepStep
  <2>4. CASE ReleaseBlock(t)
    BY <2>4, ReleaseBlockStep
  <2>5. CASE Dispose(t)
    BY <2>5, DisposeStep
  <2>6. CASE ReleaseVariable(t)
    BY <2>6, ReleaseVariableStep
  <2> QED
    BY <1>1, <2>1, <2>2, <2>3, <2>4, <2>5, <2>6 DEF Running
<1>2. ASSUME NEW t \in Thread, Program(t) PROVE IInv'
  <2>1. CASE \E b \in Literal, a \in Allocator \cup {Nil} : Copy(t, b, a)
    BY <2>1, CopyStep
  <2>2. CASE \E c \in Cell : Retain(t, c) \/ Release(t, c)
    BY <2>2, RetainStep, ReleaseStep
  <2>3. CASE LeaveFrame(t)
    BY <2>3, LeaveFrameStep
  <2>4. CASE EnterFrame(t)
    BY <2>4, EnterFrameStep
  <2> QED
    BY <1>2, <2>1, <2>2, <2>3, <2>4 DEF Program
<1>3. CASE UNCHANGED blockVars
  BY <1>3, Stutter
<1> QED
  BY <1>1, <1>2, <1>3 DEF BlockNext

\* The calls that work on a collection, or fill one, were there before.
HolderCallsKept ==
  \A u \in Thread : \A k \in DOMAIN work'[u] :
    work'[u][k].ref \in Holder \/ work'[u][k].op = "fill" =>
      /\ k \in DOMAIN work[u] /\ work'[u][k].op = work[u][k].op
      /\ work'[u][k].ref = work[u][k].ref /\ work'[u][k].into = work[u][k].into

\* Every call that has come or gone on after a step of t
LEMMA HolderCallsAfter ==
  ASSUME TypeOK, NEW t \in Thread, NEW n \in Nat, NEW m \in Int, OnlyTop(t, n),
         DOMAIN work[t] = 1 .. n, DOMAIN work'[t] = 1 .. m,
         \A k \in n .. m : k > 0 =>
           (k = n /\ GoesOn(t, n)) \/ (work'[t][k].ref \notin Holder /\ work'[t][k].op # "fill")
  PROVE  HolderCallsKept
<1> SUFFICES ASSUME NEW u \in Thread, NEW k \in DOMAIN work'[u],
                    work'[u][k].ref \in Holder \/ work'[u][k].op = "fill"
             PROVE  /\ k \in DOMAIN work[u] /\ work'[u][k].op = work[u][k].op
                    /\ work'[u][k].ref = work[u][k].ref /\ work'[u][k].into = work[u][k].into
  BY DEF HolderCallsKept
<1>1. CASE u # t
  BY <1>1 DEF OnlyTop
<1>2. CASE u = t /\ k < n
  <2>1. k \in 1 .. n - 1 /\ k \in 1 .. n
    BY <1>2
  <2>2. k \in DOMAIN work[t] /\ work'[t][k] = work[t][k]
    BY <2>1 DEF OnlyTop
  <2> QED
    BY <1>2, <2>2
<1>3. CASE u = t /\ k >= n
  <2>1. k \in n .. m /\ k > 0
    BY <1>3
  <2>2. k = n /\ GoesOn(t, n) /\ n \in DOMAIN work[t]
    BY <1>3, <2>1
  <2> QED
    BY <1>3, <2>2 DEF GoesOn
<1>4. k \in Int
  BY <1>2, <1>3, StackTop DEF OnlyTop
<1> QED
  BY <1>1, <1>2, <1>3, <1>4

\* A call that the runtime makes is not about a collection. One that makes a
\* block has the first reference to it.
Made(call) ==
  /\ call.ref \notin Holder /\ call.op # "fill"
  /\ call.op = "copy" => call.into = Nil \/ call.into.cell \in Cell
  /\ call.op = "keep" => call.ref \in Cell /\ cells'[call.ref].rc = 1

\* What a step of t leaves of its calls
GoneTo(t, n, m) ==
  /\ OnlyTop(t, n) /\ DOMAIN work[t] = 1 .. n /\ DOMAIN work'[t] = 1 .. m
  /\ \A k \in n .. m : k > 0 =>
       \/ k = n /\ GoesOn(t, n) /\ work[t][n].op \in {"keep", "dispose"}
       \/ Made(work'[t][k])
Steps(t) == UNCHANGED work \/ \E n, m \in Nat : GoneTo(t, n, m)

LEMMA StepsOf ==
  ASSUME IInv, NEW t \in Thread, Running(t) \/ Program(t)
  PROVE  Steps(t)
<1>0. TypeOK
  BY DEF IInv
<1>1. ASSUME Return(t), work[t] # <<>> PROVE Steps(t)
  <2>1. PICK n : n = Len(work[t])
    OBVIOUS
  <2>2. /\ OnlyTop(t, n) /\ n \in Nat \ {0} /\ DOMAIN work[t] = 1 .. n
        /\ DOMAIN work'[t] = 1 .. n - 1
    BY <1>0, <1>1, <2>1, Returned
  <2>3. n - 1 \in Nat /\ n .. n - 1 = {}
    BY <2>2
  <2>4. GoneTo(t, n, n - 1)
    BY <2>2, <2>3 DEF GoneTo
  <2> QED
    BY <2>2, <2>3, <2>4 DEF Steps
<1>2. ASSUME Advance(t, <<>>), work[t] # <<>>, work[t][Len(work[t])].op \in {"keep", "dispose"}
      PROVE  Steps(t)
  <2>1. PICK n : n = Len(work[t])
    OBVIOUS
  <2>2. /\ OnlyTop(t, n) /\ n \in Nat /\ DOMAIN work[t] = 1 .. n /\ DOMAIN work'[t] = 1 .. n
        /\ GoesOn(t, n) /\ \A k \in n .. n : k = n
    BY <1>0, <1>2, <2>1, AdvancedAlone
  <2>3. GoneTo(t, n, n)
    BY <1>2, <2>1, <2>2 DEF GoneTo
  <2> QED
    BY <2>2, <2>3 DEF Steps
<1>3. ASSUME NEW call \in RuntimeCall, Advance(t, <<call>>), work[t] # <<>>,
             work[t][Len(work[t])].op \in {"keep", "dispose"}, Made(call)
      PROVE  Steps(t)
  <2>1. PICK n : n = Len(work[t])
    OBVIOUS
  <2>2. PICK m : m = n + 1
    OBVIOUS
  <2>3. /\ OnlyTop(t, n) /\ n \in Nat /\ DOMAIN work[t] = 1 .. n /\ DOMAIN work'[t] = 1 .. m
        /\ GoesOn(t, n) /\ work'[t][m] = call
    BY <1>0, <1>3, <2>1, <2>2, AdvancedInto
  <2>4. m \in Nat /\ \A k \in n .. m : k = n \/ k = m
    BY <2>2, <2>3
  <2>5. GoneTo(t, n, m)
    BY <1>3, <2>1, <2>3, <2>4 DEF GoneTo
  <2> QED
    BY <2>3, <2>4, <2>5 DEF Steps
<1>4. ASSUME NEW call \in RuntimeCall, Become(t, call), work[t] # <<>>, Made(call)
      PROVE  Steps(t)
  <2>1. PICK n : n = Len(work[t])
    OBVIOUS
  <2>2. /\ OnlyTop(t, n) /\ n \in Nat /\ DOMAIN work[t] = 1 .. n /\ DOMAIN work'[t] = 1 .. n
        /\ work'[t][n] = call /\ \A k \in n .. n : k = n
    BY <1>0, <1>4, <2>1, Became
  <2>3. GoneTo(t, n, n)
    BY <1>4, <2>2 DEF GoneTo
  <2> QED
    BY <2>2, <2>3 DEF Steps
<1>5. ASSUME NEW s \in Seq(RuntimeCall), work[t] = <<>>,
             work' = [work EXCEPT ![t] = s], \A k \in DOMAIN s : Made(s[k])
      PROVE  Steps(t)
  <2>1. PICK m : m = Len(s)
    OBVIOUS
  <2>2. OnlyTop(t, 0) /\ work'[t] = s /\ DOMAIN work[t] = 1 .. 0 /\ DOMAIN work'[t] = 1 .. m
    BY <1>0, <1>5, <2>1, Begun
  <2>3. \A k \in 0 .. m : k > 0 => k \in DOMAIN s
    BY <2>1, LenProperties
  <2>4. \A k \in 0 .. m : k > 0 => Made(work'[t][k])
    BY <1>5, <2>2, <2>3
  <2>5. GoneTo(t, 0, m)
    BY <2>2, <2>4 DEF GoneTo
  <2>6. m \in Nat
    BY <2>1, LenProperties
  <2> QED
    BY <2>5, <2>6 DEF Steps
<1>6. ASSUME Running(t) PROVE Steps(t)
  <2>1. PICK n : n = Len(work[t])
    OBVIOUS
  <2>2. CASE Restore(t)
    BY <1>1, <2>2 DEF Restore, Doing
  <2>3. CASE CopyLiteral(t)
    <3>1. /\ work[t] # <<>> /\ Innermost(t) = work[t][n] /\ work[t][n] \in RuntimeCall
      BY <2>1, <2>3, DoingCall DEF CopyLiteral
    <3>2. CASE Return(t)
      BY <1>1, <3>1, <3>2
    <3>3. CASE \E c \in FreeCells : /\ cells' = [cells EXCEPT ![c] = NewBlock(t, Innermost(t).ref)]
                                    /\ Become(t, Call("keep", c, 1, Innermost(t).into))
      <4>1. PICK c \in Cell : /\ cells' = [cells EXCEPT ![c] = NewBlock(t, Innermost(t).ref)]
                              /\ Become(t, Call("keep", c, 1, work[t][n].into))
        BY <3>1, <3>3 DEF FreeCells
      <4>2. PICK call : call = Call("keep", c, 1, work[t][n].into)
        OBVIOUS
      <4>3. call \in RuntimeCall /\ call.op = "keep" /\ call.ref = c /\ call.ref \notin Holder
        BY <3>1, <4>2, Distinct DEF RuntimeCall, Call, Item
      <4>4. Become(t, call) /\ Made(call)
        <5>1. cells'[c].rc = 1
          BY <1>0, <4>1 DEF TypeOK, NewBlock
        <5> QED
          BY <4>1, <4>2, <4>3, <5>1 DEF Made
      <4> QED
        BY <1>4, <3>1, <4>3, <4>4
    <3>4. \/ Return(t)
          \/ \E c \in FreeCells : /\ cells' = [cells EXCEPT ![c] = NewBlock(t, Innermost(t).ref)]
                                 /\ Become(t, Call("keep", c, 1, Innermost(t).into))
      BY <2>3 DEF CopyLiteral, Deliver
    <3> QED
      BY <3>2, <3>3, <3>4
  <2>4. CASE Keep(t)
    <3>1. /\ work[t] # <<>> /\ Innermost(t) = work[t][n] /\ work[t][n] \in RuntimeCall
          /\ work[t][n].op = "keep" /\ CallOK(t, n)
      BY <2>1, <2>4, DoingCall DEF Keep
    <3>2. PICK e : e = work[t][n].ref
      OBVIOUS
    <3>3. PICK i : i = work[t][n].at
      OBVIOUS
    <3>4. e \in Cell /\ i \in Nat
      BY <3>1, <3>2, <3>3 DEF CallOK, KeepOK, RuntimeCall
    <3>5. CASE Return(t)
      BY <1>1, <3>1, <3>5
    <3>6. CASE Advance(t, <<>>)
      BY <1>2, <2>1, <3>1, <3>6
    <3>7. CASE \E b \in Literal : Advance(t, <<Call("copy", b, 0, [cell |-> e, at |-> i])>>)
      <4>1. PICK b \in Literal : Advance(t, <<Call("copy", b, 0, [cell |-> e, at |-> i])>>)
        BY <3>7
      <4>2. PICK into : into = [cell |-> e, at |-> i]
        OBVIOUS
      <4>3. PICK call : call = Call("copy", b, 0, into)
        OBVIOUS
      <4>4. into \in Place
        BY <3>4, <4>2 DEF Place
      <4>5. call \in RuntimeCall /\ call.op = "copy" /\ call.ref = b /\ call.into = into
        BY <4>3, <4>4 DEF RuntimeCall, Call
      <4>6. Advance(t, <<call>>) /\ Made(call)
        BY <3>4, <4>1, <4>2, <4>3, <4>5, Distinct DEF Made
      <4> QED
        BY <1>3, <2>1, <3>1, <4>5, <4>6
    <3>8. PICK captured : captured = Captures[cells[e].from][i]
      OBVIOUS
    <3>9. \/ Return(t)
          \/ AssignVariable(t, e, i, captured)
          \/ captured \in Literal /\ AssignBlock(t, e, i, captured)
      <4>1. CASE i > Len(cells[e].fields)
        BY <2>4, <3>1, <3>2, <3>3, <4>1 DEF Keep, Deliver
      <4>2. CASE ~(i > Len(cells[e].fields))
        BY <2>4, <3>1, <3>2, <3>3, <3>8, <4>2 DEF Keep
      <4> QED
        BY <4>1, <4>2
    <3>10. CASE AssignVariable(t, e, i, captured)
      BY <3>6, <3>10 DEF AssignVariable
    <3>11. CASE captured \in Literal /\ AssignBlock(t, e, i, captured)
      <4>1. \/ Advance(t, <<Call("copy", captured, 0, [cell |-> e, at |-> i])>>)
            \/ Advance(t, <<>>)
        BY <3>11 DEF AssignBlock
      <4> QED
        BY <3>6, <3>7, <3>11, <4>1
    <3> QED
      BY <3>5, <3>9, <3>10, <3>11
  <2>5. CASE ReleaseBlock(t)
    <3>1. work[t] # <<>> /\ Innermost(t) = work[t][n]
      BY <2>1, <2>5, DoingCall DEF ReleaseBlock
    <3>2. CASE Return(t)
      BY <1>1, <3>1, <3>2
    <3>3. CASE work[t][n].ref \in Cell /\ Become(t, Call("dispose", work[t][n].ref, 1, Nil))
      <4>1. PICK call : call = Call("dispose", work[t][n].ref, 1, Nil)
        OBVIOUS
      <4>2. call \in RuntimeCall /\ call.op = "dispose" /\ call.ref \notin Holder
        BY <3>3, <4>1, Distinct DEF RuntimeCall, Call, Item
      <4>3. Become(t, call) /\ Made(call)
        BY <3>3, <4>1, <4>2 DEF Made
      <4> QED
        BY <1>4, <3>1, <4>2, <4>3
    <3> QED
      BY <2>5, <3>1, <3>2, <3>3 DEF ReleaseBlock
  <2>6. CASE Dispose(t)
    <3>1. work[t] # <<>> /\ Innermost(t) = work[t][n] /\ Doing(t, "dispose") /\ work[t][n].op = "dispose"
      BY <2>1, <2>6, DoingCall DEF Dispose
    <3>2. PICK c : c = work[t][n].ref
      OBVIOUS
    <3>3. PICK i : i = work[t][n].at
      OBVIOUS
    <3>4. CASE Return(t)
      BY <1>1, <3>1, <3>4
    <3>5. CASE ~(i > Len(cells[c].fields))
      <4>1. PICK call : call = Call(IF Captures[cells[c].from][i] \in Var THEN "byref"
                                    ELSE "release", cells[c].fields[i], 0, Nil)
        OBVIOUS
      <4>2. Dispose(t) /\ Innermost(t) = work[t][n]
        BY <2>6, <3>1
      <4>3. Advance(t, <<call>>)
        BY ONLY <3>2, <3>3, <3>5, <4>1, <4>2 DEF Dispose
      <4>4. cells[c].fields[i] \in Item
        <5>1. /\ Len(cells[c].fields) \in Nat /\ DOMAIN cells[c].fields = 1 .. Len(cells[c].fields)
              /\ cells[c].fields \in Seq(Item)
              /\ i \in 1 .. Len(cells[c].fields) + 1
          BY <2>1, <3>1, <3>2, <3>3, Disposing
        <5>2. i \in DOMAIN cells[c].fields
          BY <3>5, <5>1
        <5> QED
          BY <5>1, <5>2, ElementOfSeq
      <4>5. call \in RuntimeCall /\ call.op \in {"byref", "release"} /\ call.ref \in Item
        BY <4>1, <4>4 DEF RuntimeCall, Call
      <4>6. Made(call)
        BY <4>5, Distinct DEF Item, Made
      <4> QED
        BY <1>3, <2>1, <3>1, <4>3, <4>5, <4>6
    <3> QED
      BY <2>6, <3>1, <3>2, <3>3, <3>4, <3>5 DEF Dispose
  <2>7. CASE ReleaseVariable(t)
    BY <1>1, <2>7 DEF ReleaseVariable, Doing
  <2> QED
    BY <1>6, <2>2, <2>3, <2>4, <2>5, <2>6, <2>7 DEF Running
<1>7. ASSUME UNCHANGED work PROVE Steps(t)
  BY <1>7 DEF Steps
<1>8. ASSUME Program(t) PROVE Steps(t)
  <2>1. CASE \E b \in Literal, a \in Allocator \cup {Nil} : Copy(t, b, a)
    <3>1. PICK b \in Literal, a \in Allocator \cup {Nil} : Copy(t, b, a)
      BY <2>1
    <3>2. PICK copy : copy = Call("copy", b, 0, Nil)
      OBVIOUS
    <3>3. PICK restore : restore = Call("restore", override[t], 0, a)
      OBVIOUS
    <3>4. work[t] = <<>> /\ override[t] = Nil
      BY <3>1 DEF Copy, IInv, CopiesUseAllocator
    <3>5. /\ copy \in RuntimeCall /\ Made(copy)
          /\ a # Nil => restore \in RuntimeCall /\ Made(restore)
      BY <3>2, <3>3, <3>4, Distinct DEF RuntimeCall, Call, Item, Made
    <3>6. CASE a = Nil
      <4>1. PICK s : s = <<copy>>
        OBVIOUS
      <4>2. s \in Seq(RuntimeCall) /\ \A k \in DOMAIN s : Made(s[k])
        BY <3>5, <4>1
      <4>3. work' = [work EXCEPT ![t] = s]
        BY <3>1, <3>2, <3>6, <4>1 DEF Copy
      <4> QED
        BY <1>5, <3>4, <4>2, <4>3
    <3>7. CASE a # Nil
      <4>1. PICK s : s = <<restore, copy>>
        OBVIOUS
      <4>2. s \in Seq(RuntimeCall) /\ \A k \in DOMAIN s : Made(s[k])
        BY <3>5, <3>7, <4>1
      <4>3. work' = [work EXCEPT ![t] = s]
        BY <3>1, <3>2, <3>3, <3>7, <4>1 DEF Copy
      <4> QED
        BY <1>5, <3>4, <4>2, <4>3
    <3> QED
      BY <3>6, <3>7
  <2>2. CASE \E c \in Cell : Retain(t, c)
    BY <1>7, <2>2 DEF Retain
  <2>3. CASE \E c \in Cell : Release(t, c)
    <3>1. PICK c \in Cell : Release(t, c)
      BY <2>3
    <3>2. PICK call : call = Call("release", c, 0, Nil)
      OBVIOUS
    <3>3. PICK s : s = <<call>>
      OBVIOUS
    <3>4. call \in RuntimeCall /\ Made(call)
      BY <3>2, Distinct DEF RuntimeCall, Call, Item, Made
    <3>5. s \in Seq(RuntimeCall) /\ \A k \in DOMAIN s : Made(s[k])
      BY <3>3, <3>4
    <3>6. work[t] = <<>> /\ work' = [work EXCEPT ![t] = s]
      BY <3>1, <3>2, <3>3 DEF Release
    <3> QED
      BY <1>5, <3>5, <3>6
  <2>4. CASE LeaveFrame(t)
    <3>1. PICK moved : moved = {v \in Var : OwnerOf[v] = t /\ forward[v] # Nil}
      OBVIOUS
    <3>2. PICK order \in [1 .. Cardinality(moved) -> moved] :
            /\ \A v \in moved : \E i \in DOMAIN order : order[i] = v
            /\ work' = [work EXCEPT ![t] =
                          [i \in DOMAIN order |-> Call("byref", forward[order[i]], 0, Nil)]]
      BY <2>4, <3>1 DEF LeaveFrame
    <3>3. PICK s : s = [i \in DOMAIN order |-> Call("byref", forward[order[i]], 0, Nil)]
      OBVIOUS
    <3>4. Releases(moved, order, s) /\ work' = [work EXCEPT ![t] = s] /\ work[t] = <<>>
      BY <2>4, <3>2, <3>3 DEF Releases, LeaveFrame
    <3>5. moved \in SUBSET Var /\ \A v \in moved : forward[v] # Nil
      BY <3>1
    <3>6. EachReleased(moved, order, s)
      BY <3>4, <3>5, ReleasesTyped
    <3>7. s \in Seq(RuntimeCall) /\ \A k \in DOMAIN s : s[k].op = "byref" /\ s[k].ref \in Cell
      <4>1. forward \in [Var -> Cell \cup {Nil}]
        BY <1>0 DEF TypeOK
      <4>2. ASSUME NEW k \in DOMAIN s PROVE s[k].op = "byref" /\ s[k].ref \in Cell
        <5>1. PICK v \in moved : s[k].op = "byref" /\ s[k].ref = forward[v]
          BY <3>6 DEF EachReleased
        <5> QED
          BY <3>5, <4>1, <5>1
      <4> QED
        BY <3>6, <4>2 DEF EachReleased
    <3>8. \A k \in DOMAIN s : Made(s[k])
      BY <3>7, Distinct DEF Made
    <3> QED
      BY <1>5, <3>4, <3>7, <3>8
  <2>5. CASE EnterFrame(t)
    BY <1>7, <2>5 DEF EnterFrame
  <2> QED
    BY <1>8, <2>1, <2>2, <2>3, <2>4, <2>5 DEF Program
<1> QED
  BY <1>6, <1>8

\* Nothing the blocks runtime does is about a collection.
LEMMA HolderCalls ==
  ASSUME IInv, [BlockNext]_blockVars
  PROVE  HolderCallsKept
<1>1. CASE UNCHANGED work
  BY <1>1 DEF HolderCallsKept
<1>2. ASSUME NEW t \in Thread, NEW n \in Nat, NEW m \in Nat, GoneTo(t, n, m)
      PROVE  HolderCallsKept
  BY <1>2, HolderCallsAfter DEF GoneTo, Made, IInv
<1>3. ASSUME NEW t \in Thread, Running(t) \/ Program(t) PROVE HolderCallsKept
  BY <1>1, <1>2, <1>3, StepsOf DEF Steps
<1>4. CASE UNCHANGED blockVars
  BY <1>1, <1>4 DEF blockVars
<1> QED
  BY <1>3, <1>4 DEF BlockNext

\* What the program has a reference to and has given to an initialiser, it keeps.
LEMMA HeldAfter ==
  ASSUME IInv, [BlockNext]_blockVars, NEW c \in Cell, Lent(c), held[c] > 0
  PROVE  held'[c] > 0
<1>0. held \in [Cell -> Nat]
  BY DEF IInv, TypeOK
<1>1. ASSUME \E x \in Cell : held' = [held EXCEPT ![x] = @ + 1]
      PROVE  held'[c] > 0
  BY <1>0, <1>1
<1>2. ASSUME NEW t \in Thread, Running(t) PROVE held'[c] > 0
  <2>1. \/ held' = held \/ \E x \in Cell : held' = [held EXCEPT ![x] = @ + 1]
    BY <1>2 DEF Running, Restore, CopyLiteral, Keep, ReleaseBlock, Dispose, ReleaseVariable, Deliver
  <2> QED
    BY <1>1, <2>1
<1>3. ASSUME NEW t \in Thread, Program(t) PROVE held'[c] > 0
  <2>1. CASE \E d \in Cell : Release(t, d)
    <3>1. PICK d \in Cell : Release(t, d)
      BY <2>1
    <3>2. held[d] > (IF Lent(d) THEN 1 ELSE 0) /\ held' = [held EXCEPT ![d] = @ - 1]
      BY <3>1 DEF Release
    <3>3. CASE d = c
      BY <1>0, <3>2, <3>3
    <3>4. CASE d # c
      BY <1>0, <3>2, <3>4
    <3> QED
      BY <3>3, <3>4
  <2>2. CASE ~\E d \in Cell : Release(t, d)
    <3>1. \/ held' = held \/ \E x \in Cell : held' = [held EXCEPT ![x] = @ + 1]
      BY <1>3, <2>2 DEF Program, Copy, Retain, LeaveFrame, EnterFrame
    <3> QED
      BY <1>1, <3>1
  <2> QED
    BY <2>1, <2>2
<1>4. CASE UNCHANGED blockVars
  BY <1>4 DEF blockVars
<1> QED
  BY <1>2, <1>3, <1>4 DEF BlockNext

LEMMA HoldersKept ==
  ASSUME HoldersAlone, HolderCallsKept
  PROVE  HoldersAlone' /\ \A c \in Cell : Lent(c)' => Lent(c)
<1>1. ASSUME NEW x \in Calls', CallAt(x)'.ref \in Holder \/ CallAt(x)'.op = "fill"
      PROVE  /\ x \in Calls /\ CallAt(x).ref = CallAt(x)'.ref /\ CallAt(x).op = CallAt(x)'.op
             /\ CallAt(x).into = CallAt(x)'.into
  BY <1>1 DEF HolderCallsKept, Calls, CallAt
<1>2. HoldersAlone'
  BY <1>1 DEF HoldersAlone
<1>3. ASSUME NEW c \in Cell, Lent(c)' PROVE Lent(c)
  <2>1. PICK x \in Calls' : /\ CallAt(x)'.op = "fill"
                            /\ \E i \in DOMAIN CallAt(x)'.into : CallAt(x)'.into[i].item = c
    BY <1>3 DEF Lent
  <2> QED
    BY <1>1, <2>1 DEF Lent
<1> QED
  BY <1>2, <1>3

BInv == IInv /\ HoldersAlone /\ LentHeld

LEMMA BlocksKeep ==
  ASSUME BInv, [BlockNext]_blockVars
  PROVE  BInv'
<1>1. IInv /\ HoldersAlone /\ LentHeld
  BY DEF BInv
<1>2. IInv'
  BY <1>1, Inductive
<1>3. HolderCallsKept
  BY <1>1, HolderCalls
<1>4. HoldersAlone' /\ \A c \in Cell : Lent(c)' => Lent(c)
  BY <1>1, <1>3, HoldersKept
<1>5. HoldersAlone'
  BY <1>4
<1>6. ASSUME NEW c \in Cell, Lent(c)' PROVE held'[c] > 0
  <2>1. Lent(c)
    BY <1>4, <1>6
  <2>2. held[c] > 0
    BY <1>1, <2>1 DEF LentHeld
  <2> QED
    BY <1>1, <2>1, <2>2, HeldAfter
<1>7. LentHeld'
  BY <1>6 DEF LentHeld
<1> QED
  BY <1>2, <1>5, <1>7 DEF BInv

LEMMA Invariance == BlockSpec => []BInv
<1>1. ASSUME BlockInit PROVE BInv
  <2>1. IInv
    BY <1>1, InitOK
  <2>2. Calls = {}
    BY <1>1 DEF BlockInit, Calls
  <2>3. HoldersAlone /\ LentHeld
    BY <2>2 DEF HoldersAlone, LentHeld, Lent
  <2> QED
    BY <2>1, <2>3 DEF BInv
<1>2. BInv /\ [BlockNext]_blockVars => BInv'
  BY BlocksKeep
<1> QED
  BY <1>1, <1>2, PTL DEF BlockSpec

\* However threads copy, retain and release blocks at the same time, and leave
\* the frames of captured variables, the count of each block and variable on the
\* heap is the number of references to it until it latches
\* (latching_incr_int, latching_decr_int), and what was freed has none.
THEOREM CountsExact == BlockSpec => []HeapCountsExact
<1>1. BInv => HeapCountsExact
  BY DEF BInv, IInv
<1> QED
  BY <1>1, Invariance, PTL

LEMMA DisposedByOne ==
  ASSUME IInv
  PROVE  DisposedOnce
<1> SUFFICES ASSUME NEW c \in Cell, Used(c)
             PROVE  Cardinality(DisposesOf(c)) = IF cells[c].rc = 0 THEN 1 ELSE 0
  BY DEF DisposedOnce
<1>1. CASE cells[c].rc = 0
  <2>1. PICK x : x \in DisposesOf(c)
    BY <1>1 DEF IInv, ZeroDisposed
  <2>2. \A y \in DisposesOf(c) : y = x
    BY <2>1 DEF IInv, Alone, DisposesOf
  <2>3. DisposesOf(c) = {x}
    BY <2>1, <2>2
  <2> QED
    BY <1>1, <2>3, FS_Singleton
<1>2. CASE cells[c].rc # 0
  <2>1. DisposesOf(c) = {}
    <3> SUFFICES ASSUME NEW x \in DisposesOf(c) PROVE FALSE
      OBVIOUS
    <3>1. PICK u \in Thread : \E k \in DOMAIN work[u] : Disposes(work[u][k], c)
      BY DisposesOfAre
    <3>2. PICK k \in DOMAIN work[u] : Disposes(work[u][k], c)
      BY <3>1
    <3>3. CallOK(u, k)
      BY DEF IInv, CallsOK
    <3> QED
      BY <1>2, <3>2, <3>3 DEF CallOK, Disposes, DisposeOK
  <2> QED
    BY <1>2, <2>1, FS_EmptySet
<1> QED
  BY <1>1, <1>2

\* One thread disposes of a block that has no references, and none of one that
\* has some or whose count has latched (_Block_release).
THEOREM OneDispose == BlockSpec => []DisposedOnce
<1>1. BInv => DisposedOnce
  BY DisposedByOne DEF BInv
<1> QED
  BY <1>1, Invariance, PTL

\* A copy takes its memory from the allocator that _Block_copy_with_allocator
\* was called with, and the thread forgets that one when the copy is done.
THEOREM CopiesAllocate == BlockSpec => []CopiesUseAllocator
<1>1. BInv => CopiesUseAllocator
  BY DEF BInv, IInv
<1> QED
  BY <1>1, Invariance, PTL
=============================================================================
