---------------------------- MODULE BlocksRuntime ----------------------------
(* Blocks (Runtime/src/Blocks/runtime.m), without garbage collection: their  *)
(* copies on the heap, the __block variables these share, and the counts of  *)
(* both, which threads change atomically. The copy and dispose helpers, made *)
(* by the compiler, call the runtime for one captured variable after the     *)
(* other. Captured objects are not counted here: the runtime installs no     *)
(* retain of objects.                                                        *)
EXTENDS Integers, Sequences, FiniteSets, FiniteSetsExt

CONSTANTS
  Thread,
  Literal,     \* blocks written in the program: on the stack of a thread ...
  Global,      \* ... or, those of this set, nowhere
  Var,         \* __block variables
  OwnerOf,     \* [Literal \cup Var -> Thread]: in whose frame it is
  Captures,    \* [Literal -> Seq(Literal \cup Var)]: captured blocks and variables
  Cell,        \* allocations
  Holder,      \* other memory that is assigned copies
  Allocator,   \* allocators other than malloc
  Nil,         \* no cell; malloc
  Latch,       \* BLOCK_REFCOUNT_MASK
  MaxHeld      \* bound on the references of the program to blocks, when it
               \* makes another one

ASSUME BlocksAssumption ==
  /\ IsFiniteSet(Thread) /\ IsFiniteSet(Var) /\ IsFiniteSet(Cell)
  /\ Global \subseteq Literal /\ Literal \cap Var = {} /\ Holder \cap (Literal \cup Var) = {}
  /\ Cell \cap (Holder \cup Literal \cup Var) = {}
  /\ OwnerOf \in [Literal \cup Var -> Thread]
  /\ Captures \in [Literal -> Seq(Literal \cup Var)]
  /\ Nil \notin Cell \cup Holder \cup Literal \cup Var \cup Allocator
  /\ Latch \in Nat /\ Latch > 2 /\ MaxHeld \in Nat

VARIABLES
  cells,       \* what is in an allocation or holder: Unused, or a block or variable with
               \* where it is copied from, its reference count (the low bits of
               \* flags), the captured values and its allocator
  forward,     \* forwarding of the variables on the stack; Nil is themselves
  open,        \* [Thread -> BOOLEAN]: whether the frame is there
  held,        \* references of the program to blocks on the heap
  work,        \* calls of the runtime a thread is in, the innermost one last
  override     \* g_block_allocator_override of each thread

blockVars == <<cells, forward, open, held, work, override>>

Unused == [from |-> Nil, rc |-> 0, fields |-> <<>>, by |-> Nil]
Used(c) == cells[c].from # Nil

Call(op, ref, at, into) == [op |-> op, ref |-> ref, at |-> at, into |-> into]
Calls == UNION {{t} \X DOMAIN work[t] : t \in Thread}
CallAt(x) == work[x[1]][x[2]]
Lent(c) == \E x \in Calls : /\ CallAt(x).op = "fill"
                           /\ \E i \in DOMAIN CallAt(x).into : CallAt(x).into[i].item = c
Doing(t, op) == work[t] # <<>> /\ work[t][Len(work[t])].op = op
Innermost(t) == work[t][Len(work[t])]
Outer(t) == SubSeq(work[t], 1, Len(work[t]) - 1)
Return(t) == work' = [work EXCEPT ![t] = Outer(t)]
\* The innermost call goes on with its next captured value, after the calls.
Advance(t, calls) ==
  work' = [work EXCEPT ![t] = Append(Outer(t), [Innermost(t) EXCEPT !.at = @ + 1]) \o calls]
Become(t, call) == work' = [work EXCEPT ![t] = Append(Outer(t), call)]

BlockInit ==
  /\ cells = [c \in Cell \cup Holder |-> Unused]
  /\ forward = [v \in Var |-> Nil]
  /\ open = [t \in Thread |-> FALSE]
  /\ held = [c \in Cell |-> 0]
  /\ work = [t \in Thread |-> <<>>]
  /\ override = [t \in Thread |-> Nil]
-----------------------------------------------------------------------------
IncrWrapping(n) == (n + 1) % (Latch + 1)
\* latching_incr_int, latching_decr_int: a count at its maximum stays there.
Incr(n) == IF n = Latch THEN n ELSE n + 1
Decr(n) == IF n \in {0, Latch} THEN n ELSE n - 1

\* The result of a copy goes to the program, or to where a helper assigns it.
Deliver(t, result, into, after) ==
  /\ cells' = IF into = Nil THEN after ELSE [after EXCEPT ![into.cell].fields[into.at] = result]
  /\ held' = IF into = Nil /\ result \in Cell THEN [held EXCEPT ![result] = @ + 1] ELSE held
  /\ Return(t)

MayHoldMore == MapThenSumSet(LAMBDA c : held[c], Cell) < MaxHeld
\* _Block_copy, _Block_copy_with_allocator of a block on the stack
Copy(t, b, a) ==
  /\ work[t] = <<>> /\ open[t] /\ OwnerOf[b] = t /\ MayHoldMore
  /\ LET copy == Call("copy", b, 0, Nil) IN
     work' = [work EXCEPT ![t] = IF a = Nil THEN <<copy>>
                                 ELSE <<Call("restore", override[t], 0, a), copy>>]
  /\ override' = IF a = Nil THEN override ELSE [override EXCEPT ![t] = a]
  /\ UNCHANGED <<cells, forward, open, held>>

RestoreNothing(t) ==
  /\ Doing(t, "restore") /\ Return(t)
  /\ UNCHANGED <<cells, forward, open, held, override>>
\* The end of _Block_copy_with_allocator
Restore(t) ==
  /\ Doing(t, "restore") /\ Return(t)
  /\ override' = [override EXCEPT ![t] = Innermost(t).ref]
  /\ UNCHANGED <<cells, forward, open, held>>

\* _Block_copy_internal of a block on the heap, to which the program has a
\* reference
Retain(t, c) ==
  /\ work[t] = <<>> /\ held[c] > 0 /\ MayHoldMore
  /\ cells' = [cells EXCEPT ![c].rc = Incr(@)]
  /\ held' = [held EXCEPT ![c] = @ + 1]
  /\ UNCHANGED <<forward, open, work, override>>

FreeCells == {c \in Cell : ~Used(c)}
\* The copy, with the captured values yet to be assigned.
NewBlock(t, b) ==
  [from |-> b, rc |-> 1, fields |-> [i \in DOMAIN Captures[b] |-> Nil], by |-> override[t]]

\* _Block_copy_internal of a block that is not on the heap
CopyLiteral(t) ==
  LET b == Innermost(t).ref
      into == Innermost(t).into IN
  /\ Doing(t, "copy")
  /\ \/ b \in Global /\ Deliver(t, b, into, cells)
     \/ /\ b \notin Global
        /\ \E c \in FreeCells :
           /\ cells' = [cells EXCEPT ![c] = NewBlock(t, b)]
           /\ Become(t, Call("keep", c, 1, into))
        /\ UNCHANGED held
     \/ b \notin Global /\ Deliver(t, Nil, into, cells)      \* no memory
  /\ UNCHANGED <<forward, open, override>>

VariableForOne(t, v) == [from |-> v, rc |-> 1, fields |-> <<>>, by |-> override[t]]
\* A variable copied to the heap has two references: of the block that is
\* copied and of the frame.
NewVariable(t, v) == [from |-> v, rc |-> 2, fields |-> <<>>, by |-> override[t]]

\* What the copy helper does with each captured value. _Block_object_assign,
\* _Block_byref_assign_copy: the first block that is copied takes the variable
\* with it; without memory for that the program crashes.
AssignVariable(t, c, i, v) ==
  \/ /\ forward[v] = Nil
     /\ \E d \in FreeCells :
        /\ cells' = [cells EXCEPT ![d] = NewVariable(t, v), ![c].fields[i] = d]
        /\ forward' = [forward EXCEPT ![v] = d]
     /\ Advance(t, <<>>)
  \/ /\ forward[v] # Nil
     /\ cells' = [cells EXCEPT ![forward[v]].rc = Incr(@), ![c].fields[i] = forward[v]]
     /\ Advance(t, <<>>)
     /\ UNCHANGED forward

\* The block that was captured is the literal, or one on the heap that the
\* program keeps.
AssignBlock(t, c, i, b) ==
  /\ \/ /\ Advance(t, <<Call("copy", b, 0, [cell |-> c, at |-> i])>>)
        /\ UNCHANGED cells
     \/ \E d \in Cell : /\ held[d] > 0
                        /\ cells' = [cells EXCEPT ![d].rc = Incr(@), ![c].fields[i] = d]
                        /\ Advance(t, <<>>)
  /\ UNCHANGED forward

Keep(t) ==
  LET c == Innermost(t).ref
      i == Innermost(t).at IN
  /\ Doing(t, "keep")
  /\ IF i > Len(cells[c].fields)
     THEN Deliver(t, c, Innermost(t).into, cells) /\ UNCHANGED forward
     ELSE /\ LET captured == Captures[cells[c].from][i] IN
             \/ captured \in Var /\ AssignVariable(t, c, i, captured)
             \/ captured \in Literal /\ AssignBlock(t, c, i, captured)
          /\ UNCHANGED held
  /\ UNCHANGED <<open, override>>
-----------------------------------------------------------------------------
\* The program gives up a reference, by _Block_release or objc_release, but
\* not the last one while the block is passed to a call that is not over.
Release(t, c) ==
  /\ work[t] = <<>> /\ held[c] > IF Lent(c) THEN 1 ELSE 0
  /\ held' = [held EXCEPT ![c] = @ - 1]
  /\ work' = [work EXCEPT ![t] = <<Call("release", c, 0, Nil)>>]
  /\ UNCHANGED <<cells, forward, open, override>>

\* _Block_release: of a block that is not on the heap it does nothing.
ReleaseBlock(t) ==
  LET c == Innermost(t).ref IN
  /\ Doing(t, "release")
  /\ IF c \notin Cell
     THEN Return(t) /\ UNCHANGED cells
     ELSE /\ cells' = [cells EXCEPT ![c].rc = Decr(@)]
          /\ IF Decr(cells[c].rc) > 0 THEN Return(t) ELSE Become(t, Call("dispose", c, 1, Nil))
  /\ UNCHANGED <<forward, open, held, override>>

\* The dispose helper calls _Block_object_dispose for each captured value. Then
\* the memory is freed.
Dispose(t) ==
  LET c == Innermost(t).ref
      i == Innermost(t).at IN
  /\ Doing(t, "dispose")
  /\ IF i > Len(cells[c].fields)
     THEN /\ cells' = [cells EXCEPT ![c] = Unused]
          /\ Return(t)
     ELSE /\ LET captured == Captures[cells[c].from][i] IN
             Advance(t, <<Call(IF captured \in Var THEN "byref" ELSE "release",
                               cells[c].fields[i], 0, Nil)>>)
          /\ UNCHANGED cells
  /\ UNCHANGED <<forward, open, held, override>>

\* _Block_byref_release of a variable on the heap
ReleaseVariable(t) ==
  LET d == Innermost(t).ref IN
  /\ Doing(t, "byref")
  /\ cells' = IF cells[d].rc # 0 /\ Decr(cells[d].rc) = 0 THEN [cells EXCEPT ![d] = Unused]
              ELSE [cells EXCEPT ![d].rc = Decr(@)]
  /\ Return(t)
  /\ UNCHANGED <<forward, open, held, override>>

\* The frame ends, and with it its reference to each variable on the heap. A
\* variable that is still on the stack is its own forwarding and has no count.
LeaveFrame(t) ==
  LET moved == {v \in Var : OwnerOf[v] = t /\ forward[v] # Nil} IN
  /\ work[t] = <<>> /\ open[t]
  /\ open' = [open EXCEPT ![t] = FALSE]
  /\ \E order \in [1 .. Cardinality(moved) -> moved] :
       /\ \A v \in moved : \E i \in DOMAIN order : order[i] = v
       /\ work' = [work EXCEPT ![t] =
                     [i \in DOMAIN order |-> Call("byref", forward[order[i]], 0, Nil)]]
  /\ forward' = [v \in Var |-> IF OwnerOf[v] = t THEN Nil ELSE forward[v]]
  /\ UNCHANGED <<cells, held, override>>

\* A frame in which there is something to copy
EnterFrame(t) ==
  /\ work[t] = <<>> /\ ~open[t] /\ \E x \in Literal \cup Var : OwnerOf[x] = t
  /\ open' = [open EXCEPT ![t] = TRUE]
  /\ UNCHANGED <<cells, forward, held, work, override>>
-----------------------------------------------------------------------------
Running(t) ==
  \/ Restore(t) \/ CopyLiteral(t) \/ Keep(t)
  \/ ReleaseBlock(t) \/ Dispose(t) \/ ReleaseVariable(t)

Program(t) ==
  \/ \E b \in Literal, a \in Allocator \cup {Nil} : Copy(t, b, a)
  \/ \E c \in Cell : Retain(t, c) \/ Release(t, c)
  \/ LeaveFrame(t) \/ EnterFrame(t)

BlockNext == \E t \in Thread : Running(t) \/ Program(t)

BlockSpec == BlockInit /\ [][BlockNext]_blockVars
-----------------------------------------------------------------------------
\* The references to an allocation: of the program, of the frames, of calls
\* that will release it or are making it, and of blocks on the heap, as far as
\* they have not been disposed of.
Dropped(d, i) == \E x \in Calls : CallAt(x).op \in {"dispose", "empty"} /\ CallAt(x).ref = d /\ i < CallAt(x).at
Fields == UNION {{d} \X DOMAIN cells[d].fields : d \in Cell \cup Holder}
VarsOn(c) == {v \in Var : forward[v] = c}
CallsOn(c) == {x \in Calls : CallAt(x).op \in {"keep", "release", "byref"} /\ CallAt(x).ref = c}
FieldsOn(c) == {f \in Fields : cells[f[1]].fields[f[2]] = c /\ ~Dropped(f[1], f[2])}
References(c) ==
  held[c] + Cardinality(VarsOn(c)) + Cardinality(CallsOn(c)) + Cardinality(FieldsOn(c))
DisposesOf(c) == {x \in Calls : CallAt(x).op = "dispose" /\ CallAt(x).ref = c}

\* However threads interleave, the count of a block or variable on the heap is
\* the number of references to it until it latches, and what was freed has none.
HeapCountsExact ==
  \A c \in Cell :
    IF Used(c) THEN cells[c].rc \in {References(c), Latch} ELSE References(c) = 0

\* A block without references is being disposed of, by one thread, and one with
\* references or a latched count is not.
DisposedOnce ==
  \A c \in Cell : Used(c) =>
    Cardinality(DisposesOf(c)) = IF cells[c].rc = 0 THEN 1 ELSE 0

\* A copy takes all its memory from the allocator it was asked to use, which is
\* forgotten when it is done.
CopiesUseAllocator ==
  \A t \in Thread :
    LET asked == IF work[t] # <<>> /\ work[t][1].op = "restore" THEN work[t][1].into ELSE Nil IN
    /\ override[t] = asked
    /\ \A i \in DOMAIN work[t] : work[t][i].op = "keep" => cells[work[t][i].ref].by = asked
=============================================================================
