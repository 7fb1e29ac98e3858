# SmallFW in TLA+

SmallFW is an Objective-C runtime written in C (`Runtime/src`) with a small
standard library (`StandardLibrary/src/SFStdLib`). This directory models the
parts of it whose correctness depends on long sequences of calls: the life of an
object and of the memory it lives in, autorelease pools, exceptions, the default
allocator, the loader and what it computes for every image, the lookup of
messages, blocks, and the collections. TLC checks the models on small instances;
TLAPS proves the main properties for instances of any size, except those of
layouts and of the metadata that is read off them. Paths below are relative to the repository.

The runtime is always built with `SF_RUNTIME_THREADSAFE=0` (`xmake/rules.lua`),
its mutexes are empty and its working state is `thread_local`. No two threads
interleave in it. What interleaves is *re-entrancy*: the release of a last
reference, the clearing of an ivar and the pop of a pool run the program's
`dealloc` methods, which call every operation of the runtime again while the
outer one is half done; and an exception leaves operations half done. The blocks
runtime is the exception: its counts are atomic in every build, and its model has
threads.

## 1. Inventory

| Component | Source | State | Operations |
|---|---|---|---|
| Object lifetime | `arc.c`, `SmallFW/Object.m` | reference count and state of each header, the strong ivars, the C stack of deallocs, the cached header (`g_last_header_obj`) | `objc_retain`, `objc_release`, `objc_storeStrong`, `clear_object_ivars`, `sf_object_dispose` |
| Headers and groups | `object-header.c` | parent, group root, member list, live count, dead flag; in the header, in a sidecar or in an `SFGroupState` | accessors, `sf_header_init_group_root`, `sf_header_destroy_sidecar` |
| Allocation | `loader.c`, `Object.m` | memory of each object: its own, of its group, or a slot inside its owner | `sf_alloc_object`, `sf_alloc_object_with_parent`, `sf_alloc_embedded_value_object`, `allocInPlace` |
| Autorelease pools | `arc.c` | array of pending objects, array of markers, tokens, the fallback token | `objc_autoreleasePoolPush`, `…Pop`, `sf_autorelease` |
| Exceptions | `exceptions/exceptions.c` | active list, catch stack, current exception, catch depth, backtraces by object | `objc_exception_throw`, `objc_begin_catch`, `objc_end_catch`, `objc_exception_rethrow`, `sf_exception_cleanup` |
| Landing pads | `exceptions/exceptions.c` | none | `parse_lsda_for_ip_raw`, LEB128 readers, personality |
| Default allocator | `allocator.c` | free list per size class | `default_alloc`, `default_free`, `refill_fast_bin` |
| Blocks | `Blocks/runtime.m`, `data.m` | flags and latching count per block and `__block` variable | `_Block_copy`, `_Block_release`, `_Block_object_assign`, `…dispose` |
| Loader | `loader.c` | class map, aliases, selector regions, selector table and frozen selectors, ivar offsets and value slots, dispatch tables, class metadata, classes of tagged pointers | `__objc_load`, `sf_finalize_registered_classes`, `class_registerAlias_np`, `sf_intern_selector`, lookups |
| Dispatch | `dispatch/*.c`, asm | cache of argument signatures (C backend) | `sf_lookup_imp_in_class`, `sf_resolve_message_dispatch`, `objc_msg_lookup_super`, the call |
| Tagged pointers | `loader.c`, `Number.m` | none | encode, decode, class of a tagged pointer |
| Type encodings | `encoding.m` | none | parser |
| Collections | `Collections/{List,Array,Map}.m` | element arrays, counts, capacities | initialisation, `addObject:`, dealloc |
| Strings, numbers, reflection | `String.m`, `Number.m`, `Reflection.m` | immutable values; views on loader tables | |
| Generics plugin, build, benchmarks, tests | `tools/`, `xmake*`, `benchmarking/` | none at run time | |

How they meet: `objc_release` calls a program's `dealloc` through the loader's
cached method, clears the ivars whose offsets the loader computed, and gives the
memory to the allocator of the header, or leaves it to the group. A pool's pop
calls `release_object_now` for each pending object. An exception retains the
object it carries with `objc_retain` and releases it when it is freed;
`sf_object_dispose` drops the backtrace filed under the object's address. The
collections own their elements through `objc_retain` and `objc_release`, which
hand blocks to the blocks runtime: what they store is the copy it returns. The
loader computes layouts, tables and metadata under the names and selectors it
has; a message finds its method in these tables, or by walking the lists they
were made from.

What is hard in each, and what makes it correct:

* **Lifetime.** A count is taken and given back in different places, under a
  rule (`embedded_owner_slot_contains_object`) whose answer changes when a slot
  is written. Correct: the count is the number of references at every moment,
  inside any nesting of deallocs; an object is disposed exactly when the last is
  gone; dealloc runs once; nothing the runtime still follows is freed.
* **Groups.** Objects allocated with a parent keep each other's memory.
  Correct: the memory of a group is there exactly as long as a member lives; the
  counter that decides it is the number of living members; a disposed member is
  never revived.
* **Embedded values.** Their memory is their owner's, they are not counted while
  their slot holds them, and the clearing of an ivar destroys them. Correct: only
  the slot and the owner end their life.
* **Pools.** Three allocations can fail, deallocs use pools inside a pop, and
  exceptions skip pops. Correct: a pop releases what belongs to its pool, all of
  it, and nothing of the pools outside.
* **Exceptions.** Handlers nest, exceptions are caught again inside their own
  handler, and cleanups throw and catch others in between. Correct: an exception
  and its object are there until the last handler that needs them is done, and
  not longer; the runtime always knows the innermost handler's exception.
* **Allocator.** Blocks come from three sources and go back to one list.
  Correct: a free block is cleared, large enough for its list, and in no use.
* **Loader.** Loading a second image repeats work done for the first, on the
  results of the first, in the order of a hash table, and any allocation in it
  may fail. Correct: after each load the names, selectors, offsets, tables and
  metadata are those the loaded classes call for, whatever came before; no method
  is left with a selector that was freed, and no region's selector with such a
  name, except where the new one of that name alone could not be allocated.
* **Dispatch.** There are three ways to a method: a table, a walk, and
  reflection. Correct: all find that of the nearest class; forwarding ends and
  reaches who responds.
* **Blocks.** Copies copy what they capture, a variable moves to the heap with
  the first block that needs it and is then shared with its frame, and counts
  latch. Correct: a count is the number of references, whatever threads do; the
  last reference, and nothing else, disposes of a block.
* **Collections.** What is stored is not always what was passed. Correct: no
  item lives shorter than the collection.

`PROJECT.json` lists under `hazards` each place where this can go wrong, with the
properties about it, or the reason why there is none yet.

## 2. The modules

| Module | What it is |
|---|---|
| `ObjectLifetime` | allocation, ARC, deallocs, groups, embedded values, disposal |
| `Ownership` | abstract: lives, references and regions of memory, no headers or stacks |
| `ObjectLifetimeRefinement` | the mapping of the first to the second |
| `OwnershipProofs` | proof that the first implements the second |
| `ObjectLifetimeProofs` | inductive invariant and theorems |
| `MCObjectLifetime` | instances for TLC |
| `AutoreleasePool` | push, pop, autorelease, two arrays, tokens, failures, unwinding |
| `PoolStack` | abstract: a stack of pools, each with its own objects |
| `AutoreleasePoolRefinement` | the mapping of the first to the second |
| `AutoreleasePoolProofs` | inductive invariant and theorems |
| `MCAutoreleasePool` | instances for TLC |
| `Exceptions` | throw, catch, rethrow, cleanups, backtraces |
| `ExceptionsProofs` | inductive invariant and theorems |
| `MCExceptions` | instances for TLC |
| `FastAllocator` | free lists, slabs, the C library's memory |
| `FastAllocatorProofs` | inductive invariant and theorems |
| `MCFastAllocator` | instances for TLC |
| `ClassMap` | the map from names to classes, filled by images and aliases |
| `SelectorTable` | composes `ClassMap` with the selectors of images, frozen anew by each load |
| `LoaderProofs` | inductive invariants and theorems of these two |
| `ClassLayout` | offsets of ivars and storage of embedded values, as operators |
| `Loader` | composes the three: loading of images with layout, dispatch tables, metadata, tagged pointers |
| `Dispatch` | lookup of methods, reflection and forwarding over the loader's tables; the properties of both |
| `MCDispatch` | instances of the loader and dispatch for TLC |
| `SignatureCache` | composes `Dispatch` with the C backend's cache of argument signatures |
| `MCSignatureCache` | instances for TLC |
| `BlocksRuntime` | copies of blocks, `__block` variables, counts, threads |
| `Collections` | composes `BlocksRuntime` with List, Array and Map as owners of blocks |
| `BlocksProofs` | inductive invariant and theorems of the blocks runtime |
| `CollectionsProofs` | the same invariant with collections, what they hold, and the keys of maps |
| `MCBlocks` | instances of the two for TLC |

### ObjectLifetime

One action per entry point: `AllocObject`, `AllocInPlace`, `AllocValue`,
`AllocChild` (and `AllocChildFails`, when the child's storage cannot be had after
its parent became a group root), `Retain`, `Release`, `StoreStrong`. A release
that reaches zero pushes a frame on `frames`, the C call stack of
`release_object_nontrivial`. The program's code may run at the top level and in
a frame whose phase is `dealloc`; then come `DeallocReturns`, one `ClearIvar` per
strong ivar (each may push a frame of its own) and `Dispose`, which is all of
`sf_object_dispose`. `ClearIvar` takes ivars in any order; the code takes
ascending offsets, which is one of them.

`state` is the header's state with `absent` and `freed` for memory that is not
there. `group` and `extRoot` stand for the three places a group is kept in: the
root's own header (`parent`/`reserved` reused) or an `SFGroupState`. The member
list is the set of objects with the same `group`. `held` is not in the code: it
counts the references the program's own variables own, and a well-behaved
program releases no more than these. Addresses of heap objects are not reused
(`NoResurrection` could not be stated otherwise); the storage of embedded values
is.

The runtime trusts the program in ways no check of it can enforce. The model
makes these the rules of the program; they are guards that call `Referenced`,
`CanUse`, `Pinned` and `MayDrop`:

1. an object whose dealloc runs is used by that dealloc only, and not retained or
   stored by it (there is no "deallocating" state in a header);
2. the owner of an embedded value is referenced while the value's dealloc runs;
3. embedded values are stored in their own slot only;
4. embedded values are not parents of heap objects.

Rules 3 and 4 are lifted by the constant `Uses`, for the runs that show what
happens then.

### AutoreleasePool

`objects` and `markers` are the two arrays up to their counts, with their
capacities. `stack` holds the pools the program has pushed (with the token each
was given), the pops in progress and the deallocs these have called; the
program runs unless the top is a pop. A pool either has a token of its own or
shares `g_pool_fallback_token`. `Pop` is the call up to its loop, `ReleaseNext` a
turn of the loop, `PopReturns` its end. `Unwind` is an exception that leaves an
`@autoreleasepool`: clang emits the pop on the normal path only. Objects are
just names here; what a release does to them is `ObjectLifetime`.

### Exceptions

`scopes` is what the program is dynamically inside of: `@try` blocks, `@catch`
bodies with the exception they handle, and cleanups that interrupt an unwinding.
`flight` is the exception under way. The unwinder's first phase is `Caught`: a
throw that nothing would catch aborts the program and is no step. `BeginCatch`
ends an unwinding at a `@try`, `UnwindTry` passes one whose class does not match,
`UnwindHandler` is the landing pad that calls `objc_end_catch` when an exception
leaves a handler. `object[e] = Nil` says that the block is free; blocks and
addresses of objects are used again. The reference counts are here only to say
who retains what. Two rules of the program are guards: it throws objects it
holds, and a cleanup does not throw the object of a rethrown exception that is
in flight at that moment (the runtime would take it for another rethrow).

### FastAllocator

`bins` and `word` are the free lists as they lie in memory: the heads, and the
links in the first word of each free block; `clean` says that the rest of a
block is zero. `AllocCached`, `AllocRefilled`, `AllocHeap` and `AllocAligned` are
the ways through `default_alloc` (one that returns NULL changes nothing and is no
step), `FreeToBin` and `FreeToLibrary` those through `default_free`, which is
called with the size and alignment of the request. The lists are `thread_local`
and calls of different threads share nothing, so a call is one step; a program
may still hand an object from one thread to another, which then frees it.
`source` and `room` are not in the code: they say where a block came from and how
long it really is. `status`, `size` and `align` are what the caller knows.

### ClassMap, SelectorTable, ClassLayout, Loader and Dispatch

`Load` is `__objc_load` with all of `sf_finalize_registered_classes`: it
registers the image's selectors, classes and aliases, rebuilds the selector table
and the frozen selectors, fixes layouts, gives methods their selectors, and
builds dispatch tables, metadata and the classes of tagged pointers, for all
classes in the order of the class map, which is a table with linear probing. The
order of images is free as far as superclasses come before subclasses.
The action is a conjunction: `LoadClasses` (`ClassMap`) registers classes and
aliases, `LoadSelectors` (`SelectorTable`) does what concerns selectors, `Finalize`
the rest. The first two neither read nor write what the others own, except that
the second goes through the map of the first. `registered` is not in the code: it is the last class the
program has registered under each name.
`RegisterAlias` and `Intern` change tables between loads. A load may have an
allocation fail: of a region, a selector entry, one frozen selector, their array,
the slots of a class's values or their merge with the superclass's, a dispatch
table, or the offsets of a class's object ivars.

Selectors are not addresses here: `selOf` and `nameOf` say from which generation
of frozen selectors a method's selector and a region's name come; those of
earlier generations are freed. `spelled` is the name that a region's selector was
last given, its own at first.

When one frozen selector cannot be allocated (`loader.c:508`), its entry is
skipped and the old table freed all the same. A method of that name keeps the old
selector until `sf_canonicalize_method_selectors` reads it, in memory that is
freed: the program crashes, or the method is left without a selector, which is
what `Canonical` has. A region's selector of that name keeps the old string. At
later loads that string is read again, and may have become the name of another
selector; `Readings` are all names that such selectors, the `Stranded` ones, may
be read to have. `lost` is not in the code: it holds the names this happened to.

`Intern` is `sf_intern_selector`, called by `arc.c` in two places with a static
selector each (`Static`), which keeps the answer for good. If the name is known,
it is answered the frozen selector of the moment, and the static's strings become
that one's; otherwise the static itself, and the name gets an entry if there is
memory. `handed` has the answer and, not in the code, the images loaded when it
was given. Since the next load frees what was handed out, `SelectorsLive` claims no
more than that an answer is good until then; `arc.c` passes an old one on to
`.cxx_destruct` methods as their `_cmd`, without reading it. The same holds of
`sel_registerName`, which looks a name up and changes nothing.
`sf_loader_intern_selector_name_types` has no caller and is not modelled.

A method is its place in the list of a class or
metaclass (`Table`), and stands for its `IMP`. `ClassLayout` works on the record
`layout`, whose `offset` the loader writes into the image and reads again at the
next load: the compiler's offset is used as long as it can still be seen,
which this build's `sf_loader_local_ivar_offset_unlocked` never does, so
`ShiftedOffset` adds to what the last load left, and `size` is negative until
the first.

The rules of the program: classes have different names, no alias has the name of
a class, no class is above itself, a class defines a method once, `Object` and
`ValueObject` are classes, and no class embeds a value of its own subclass.
`ClassMapAssumption`, `SelectorAssumption` and `LoaderAssumption` state all but
the last; an alias is to a class that is loaded, or comes with it.

What recurses in the code, over superclasses, over the places of the map, over
value classes and over the hops of a forwarded message, is a recursive function
here. The walks along superclasses are given as the sequence of what is on the
way (`Chain`, `TableChain`) and what is computed at each place of it.

`SignatureCache` adds the array `g_sig_cache` and the sending of a message
through it.

### BlocksRuntime and Collections

A thread runs the program or is in calls of the runtime, kept in `work`, the
innermost last; every atomic change of a count is a step of its own. `Copy` (with
or without an allocator) of a block in a frame calls `CopyLiteral`, then `Keep`
once per captured value, as the compiler's copy helper does: a variable is shared
or moved to the heap (`AssignVariable`), a block copied in turn. `ReleaseBlock`
and `Dispose` are `_Block_release` and the dispose helper, `ReleaseVariable` is
`_Block_byref_release`, and `LeaveFrame` releases the variables of the frame.
Captured objects are not counted: nothing installs a retain callout. `held`
counts what the program owns; it passes blocks it holds, or those of its own
frame, and keeps a block it lends to an initialiser until that returns.

In `Collections` an initialiser is a list of puts and drops (`ArraySteps`,
`MapSteps`), done by `Fill` one retain or release at a time; a stack block among
the items is copied by the runtime first. `AddObject` grows the list as
`growToFit:` does, `Empty` is `dealloc`. Where storage cannot be allocated,
`allocateMemoryWithSize:` throws and no collection comes to be, so that is no
step. Collections are used by one thread at a time.

## 3. Runs

| Run | Instance | What it shows |
|---|---|---|
| `embedded` | two objects with an ivar each, one also with an embedded value that has an ivar itself; two program references per object | exact counts, no dangling reference, parent, root or frame, no dealloc inside itself, fresh cache, embedded values ended only by slot or owner; a release that reaches zero ends in disposal; implements `Ownership` |
| `groups` | four objects allocated alone or as children of each other, one immortal, two with an ivar | group memory and live count, no revival, types; implements `Ownership` |
| `pool_unwind` | two objects, both arrays may fail to grow, unwinding | implements `PoolStack`; a pop releases all of its pool and nothing of an outer one; arrays in bounds |
| `exceptions` | two objects, three blocks, six scopes | exceptions and objects kept exactly as long as needed; catch stack and current exception follow the handlers; backtraces belong to living objects |
| `allocator` | two threads, five addresses, slabs of three that may fail, sizes 48, 512 and 600 | lists hold free blocks of their class, each once, and lose none; room enough; clear when handed out; slabs stay |
| `loader` | six classes in four images, two of them value classes that embed each other's values; a full class map with collisions and aliases; a static selector that is interned; one failing allocation; three claims on a slot of tagged pointers; receivers that forward in a chain and in a circle | names find their classes; methods have selectors that are not freed, regions their own names in memory that is there unless a new selector could not be made, what interning answers is good until the next load; messages, reflection and forwarding find the nearest method; nothing in an object overlaps and embedded values follow their ivars; metadata lists the object ivars; contested slots stay empty |
| `blocks` | two threads, three cells, counts that latch at 3, a block that captures a variable and a block that captures both it and a global one; or one thread and one collection of up to two items | counts are the references, across threads, failing copies and latching; each block is disposed of once; copies use the allocator asked for and forget it; collections hold no block of a frame; maps have no key twice |

Violations, each a disagreement between the code and something the repository
says (`findings` in `PROJECT.json`):

| Run | Disagreement |
|---|---|
| `parent_alive` | the README says that a referenced child keeps its parent alive; it keeps the parent's memory only |
| `child_of_embedded` | the heap child of an embedded value joins a group of its own, and the owner's memory, the value's header and the group's root in it, goes while the child lives |
| `shared_embedded` | the death of any holder of an embedded value destroys it, not only that of its owner |
| `pool_fallback` | two nested pools without tokens of their own share one marker; popping the outer one leaves its objects unreleased |
| `signature_cache` | a test expects the cached argument count of a selector to be its own; after the next load the slot, and the entry, are another selector's |

**Bounds.** `MaxHeld` bounds the references the program holds to one object: two
are enough for a retain that is not the first and a release that is not the last
during every phase of a dealloc. Two heap objects with ivars give cycles, self
references and nested deallocs; three give groups with a root, a middle and a
leaf dying in any order. Initial capacities of 1 instead of 64 and 8 make both
arrays grow (and fail to) within four elements. Five frames hold a pop, a dealloc
in it, a pool that dealloc pushed, and a pool outside. Six scopes hold an
exception caught twice inside its own handler with a cleanup in between that
throws and catches another; `NestingAssumption` says that `CatchLimit` is not
exceeded, since beyond it `ExceptionsKept` is false (see the hazard). Slabs of three blocks have a first, a middle and a last link (the code makes at
least 64 blocks); five addresses leave room for memory of the C library beside a
slab. Size 512 is the largest the lists serve. Sizes that are rounded up are left
out, since with them `RoomEnough` is false as soon as a slab cannot be mapped
(see the hazard); for slabs that can, the theorem `RoomForRequests` has them.
For the loader, the map of eight places is filled to the last one, selectors
share two buckets, a hash of metadata puts unrelated classes into one another's
way, and offsets come to four sizes of a word of two; two loads after the first
are enough for every class to be laid out again on its own result, and four
images give orders in which a class is found by another's layout before its own.
One failure per behaviour is enough to see a load that must repair what another
left; when it is that of one frozen selector, up to two more loads read what became
of the old one. Two references of the program to one block, or to two, with one of each
nested block and variable on the heap fill three cells; a fourth block of memory
is refused, which is the failure of the copy. The count latches at 3, the least
bound above the two references a variable is made with. To keep `blocks` small
the run has threads or collections, not both (`mode`). Runs that set `CHECK_DEADLOCK FALSE`
are those in which every object can be used up, or every bound reached.

**Symmetry** is used in `exceptions`, over the blocks, in `allocator`, over
addresses and threads, and in `blocks`, over cells; the properties are invariants
and one property of steps, and treat them alike.

**Fairness** (`FairSpec`, run `embedded` only): weak fairness of the runtime's own
steps, for between them no other code runs and the C code does not block; strong
fairness of the return of each dealloc method, which says that the program's
dealloc methods terminate. Strong, since a dealloc may set off others between
its own steps. Nothing is assumed about what the program calls.

## 4. Proofs

`ObjectLifetimeProofs` proves for any finite sets of heap objects, cells, slots
and group states, any layout of ivars and owner slots and any `MaxHeld`:

* `TypeCorrect`: the state has its type, whatever rule the program breaks;
* with `Uses = {}`: `RefcountCorrect`, `NothingForgotten`, `DeallocOnce`,
  `ReferencesValid`, `RuntimePointersValid`, `GroupMemoryCorrect`,
  `LiveCountCorrect`, `CacheCorrect`, and the action properties
  `NothingResurrected` and `EmbeddedOutlivesReleases`.

None of these invariants is inductive alone. `IInv` adds what relates them:

* `StackOK`: frames are of different objects. The object of a frame is live and
  not immortal; a heap object has count zero and an embedded one is no longer in
  its slot. The ivars left to clear are among the object's own, all of them while
  its `dealloc` runs, and those already cleared are empty.
* `CountsOK`: counts are exact; the program holds only live counted objects;
  slots refer to live objects and belong to live owners; embedded values are in no
  slot but their own; immortal objects are absent or live.
* `CellsOK`: embedded values are in no group; a live one has its home as parent,
  the home is live, and the count is one while the value is in its slot. While it
  is being deallocated its home is held, immortal, or itself being deallocated
  further out.
* `GroupsOK`: members are heap objects that have memory, the root is a member of
  its own group, some member is alive, a disposed heap object is in a group, a
  parent is in the same group as its child, and the live count is exact.
* `CacheOK`: the cached object is live.

There is one lemma per action and, below it, one step per conjunct the action disturbs.
The lemmas about counts rest on the cardinality of the set of slots that refer to
an object when one slot is written.

`AutoreleasePoolProofs` proves for all capacities, bounds, failures and
unwinding:

* `ArraysInBounds`: both arrays within their capacities;
* `OuterPoolsSafe`: no pop releases what a pool around it holds. The invariant
  adds that pools, pops and deallocs begin with at least as many pending objects
  as those around them, that the shared token is at or above the base of every
  pool that uses it, and that a pop stops at or above the base of its pool;
* `PoolsEmptied`, if tokens can be allocated: a pop returns with nothing of its
  pool pending. `OwnTokens` is the further invariant; `pool_fallback` shows that
  the assumption is needed;
* `PoolStackImplemented`, if tokens can be allocated: the shared arrays implement
  `PoolStack`. `PoolsIn` leaves the deallocs in progress out of the frames, and
  the lemmas say what one more frame adds (`PoolAdded`) and that the objects of
  the frames below the last are those pending when it began (`PoolsOfMore`). From
  these each action is a step on the innermost pool, or none: a dealloc's frame
  is none, and what an exception leaves behind joins the next pool by
  concatenation of adjacent parts of the array. Only the end of a pop needs the
  tokens.

`FastAllocatorProofs` proves for all threads, addresses, sizes, alignments and
blocks per slab:

* `FreeListsCorrect`: no two links lead to the same block, and each leads to a
  free block of the right class. This is inductive together with `FreeClear`
  (free blocks are clear and serve requests of the lists) and `SlabsServe` (parts
  of slabs do, also while in use), without any notion of what is reachable.
  `SlabLinks` is the lemma on the links of a new slab;
* `HandedOutZeroed` and `SlabsNeverFreed`, from the same invariant;
* `NoBlockLost`: every free block is found from the head of its list. The
  invariant (`OnLists`) says that a path of links through free blocks leads from
  the head to it; each action keeps, cuts or extends these paths. `FreeBlocksListed`
  follows links only as often as there are blocks, so it needs that a path meets
  no block twice (`PathsSimple`). Induction on the length of a path is by its
  least counterexample (`Least`, from the well-foundedness of `<`);
* `RoomForRequests`, under `ExactSizes`: slabs can be mapped, or the sizes asked
  for are those of classes.

`ExceptionsProofs` proves for any finite set of blocks, any objects and any
number of scopes whose handlers nest no deeper than the catch stack:

* `ExceptionsAreKept`: the blocks in use, those a throw looks up, and those on
  their way to a handler or in one are the same, and each is listed once;
* `CatchStackCorrect`, `ObjectsAreRetained`, `MetadataIsFresh` and `TypeCorrect`.

What makes these inductive: `catch_depth` counts the entries on the catch stack
(`DepthCounts`); an exception is unwound by at most one throw or cleanup at a
time, and the handlers it leaves lie below that cleanup (`OneWay`); and
`reserved` is set for exactly the exceptions that are both unwound and handled
(`LeavingOnTheWay`), so that `objc_end_catch` frees one precisely when nothing
carries it any more (`NeededStep`). `Matches` relates the catch stack to the
scopes by counting the handlers below each; its lemmas say what one scope more or
less does to it. For the metadata, every entry's object is flagged and every
flagged object is referred to (`FlagsKept`).

`OwnershipProofs` proves `OwnershipImplemented`: with `Uses = {}`, every step of
`ObjectLifetime` is a step of `Ownership` or leaves what it sees unchanged. There
is one lemma per action, and each cites what `IInv` says of the state before it:
that a region is freed with the last life in it comes from `GroupsOK`, that a
life ends without references from `CountsOK` and `StackOK`.

`BlocksProofs` proves for any number of threads, blocks, variables and cells, any
captures and any latch above two, of the blocks runtime:

* `CountsExact`, `OneDispose`, `CopiesAllocate`.

The references to a cell are four finite sets (the variables of frames, the
calls, the fields, and what the program holds), and every action is shown to add
or remove one element of them as it changes the count. The invariant `IInv` adds
that each call has what it will need (`CallsOK`): a copy or dispose helper works
on a block in use, at one of its captured values, and a nested copy will be
delivered to the empty field its caller is at (`Placed`). One call makes a block
and one disposes of it (`Alone`); a block has a field for each captured value,
with variables where variables were captured (`FieldsOK`); `forwarding` leads to
the copy of the same variable (`ForwardOK`); and a cell whose count is zero is
being disposed of (`ZeroDisposed`).

`IInv` speaks of calls of collections too (`HoldersOK`, and what an initialiser
may rely on, `FillOK`), so that the steps of the blocks runtime keep it while
collections have calls on the same stacks; for that it is joined by two facts
about them in `BInv`: a collection is in one call (`HoldersAlone`), and what an
initialiser was given the program still holds (`LentHeld`).

`CollectionsProofs` proves, for any number of collections and any items, with the
whole of the blocks runtime running beside them:

* `CollectionsCountExact`, `CollectionsDisposeOnce`, `CollectionsAllocate`: the
  three properties above. The slots of collections count as references, and
  `FillStep` and `EmptyStep` say which reference each step of an initialiser or a
  `-dealloc` moves: from the call that releases to the slot that is emptied, from
  what the program holds to the slot that is filled, from a copy to the slot it is
  delivered to. What makes this inductive is that a slot that is filled is
  empty: the steps of an initialiser put nothing where something is unless they
  drop it in between (`InTurn`, `RoomFor`). That `FlattenSeq` of `MapSteps`, in
  which an equal key takes the place of the first, is such a sequence
  (`Flattened`, `MapPrefix`, `SamePlace`) is shown by a least counterexample;
* `NothingOfFramesKept`, from the type invariant of the same: each call that is
  under way delivers a cell, a global block or nothing;
* `NoKeyTwice` (`KeysDistinct`), also for keys that are blocks of frames, which
  change when they are copied. `BInv` is joined by `KeysInv`. A block that is
  being made has one reference, that of the call that makes it (`Fresh`), so a copy
  that is delivered is in no slot yet (`KeptAlone`). A collection copies what its
  step puts (`Linked`). And for each map (`MapOK`): the keys in its slots are apart
  (`OddApart`), steps with equal keys put them into one slot (`KeysApart`, from
  `SamePlace`), and a key that is still to be put is in no other slot
  (`Unplaced`). The last is what a copy, a release or a new capture could break
  and, with the exact counts, does not.

`LoaderProofs` proves of `Spec` of the loader, for any images, classes, hash
functions, methods and receivers, any order of loads and aliases, and any
allocations that fail:

* `NamesFound` (`ClassesFound`). The invariant (`Ordered`) is
  that each entry of the map lies where a search for its name ends, so that an
  insertion finds either the name or the first free place of its probe, and moves
  no other search (`Inserted`). Lists of registrations are followed with
  `Holds`, and `LastOf` relates what the map holds to the last registration;
* `SelectorsStayLive` (`SelectorsLive`). The invariant adds that a name has one entry
  (`NamesOnce`); that the selector of a loaded class's method is of the present
  generation or none, and that of any other the image's own (`MethodsLive`); that
  a region's selector has its own name unless that is `lost`, and that a
  redirected one is of a listed region and has a slot, so that it is redirected
  again or its name becomes lost (`NamesLive`); that what interning answered was live
  while the images were loaded that were then (`HandedLive`); and, from `MapInv`, that the
  loaded classes are those in the map, through which the loader reaches methods.
  `FrozenAre` says which selectors a load makes when some cannot be allocated. The
  theorem promises nothing of a region's selector whose name is lost, and nothing of
  an interned selector after the next load: the code frees both.

* `NearestFound` (`MessagesFindNearest`), `ReflectionFinds` (`ReflectionAgrees`)
  and `ForwardingEnds` (`ForwardingReaches`). A loaded class comes with its
  superclasses (`Supered`). A method of a loaded class that has a selector has one
  that is in a slot (`Slotted`), every method has one unless some could not be made
  (`AllSelected`), and where one lost its own so have those it overrides
  (`LostAbove`), for they share the name. `RightTables` says that a dispatch table that is there holds in
  each slot the nearest method of that slot's name or, where a table above could
  not be allocated, nothing, and then the walk finds it. It holds of the tables a load
  starts with, which it empties, and building one more keeps it: along the chain
  from the top, each table is made from that above, which is right or missing
  (`TableRight`), in whichever order the map has the classes. What is looked up is
  then the same in a table and on the walk, since the first of a chain that has a
  method is what is inherited from the rest (`FirstFound`). Reflection compares
  slots, and slots are names. Forwarding is followed by induction on the hops
  left;
* `TagsExclusive` (`TaggedSlotsExclusive`). The classes of the slots are computed by
  a pass over the map: after each place of it a slot is of the only class that has
  claimed it so far, in conflict if two have, and free otherwise. A claim is made
  under a class's own name, which is in the map once.

All assume `NamesFit`, that there are not more names than places in the map,
since `class_map_insert_unlocked` drops what finds no place; they use it through
a pigeonhole argument (`RoomForAll`).

All rest on the constants' assumptions (`ConstantsAssumption`, `PoolAssumption`,
`AllocatorAssumption`, `ExceptionsAssumption`, `NestingAssumption`,
`BlocksAssumption`, `CollectionsAssumption`, `ClassMapAssumption`,
`SelectorAssumption`, `LayoutAssumption`, `LoaderAssumption`,
`DispatchAssumption`) and on the conditions named with the theorems. TLC
evaluates the assumptions in every run of these modules.

Model-checked, not proved:

* `LastReleaseDisposes`: liveness under fairness is out of the prover's reach;
* `LayoutSound`, and `StrongOffsetsRight`, which rests on it (object ivars are
  listed once because they lie apart): `FixLayout` goes through superclasses and
  through the value classes a class embeds, which may embed one another's values,
  on a layout that changes on the way. Its invariant would have to follow the
  record through two kinds of recursion at once, with the classes that are being
  laid out;
* the signature cache, whose module needs `Bitwise`.

## 5. Not modelled

`PROJECT.json` has a reason per component. Of the modelled ones: `.cxx_destruct`
and blocks as strong ivars; compact headers and inline value storage (build
options, off) and the sidecars of the first, which may fail to be allocated; what
a failed throw does (it aborts); exceptions of other languages and the Windows
unwinder; `@finally`, whose landing pads depend on what the compiler emits;
overflow of 32-bit counts; the Windows loader; messages
sent through a region's selector whose name was freed, and through a selector
handed out before the last load; garbage collection in the blocks runtime, and `__block` variables that
hold blocks; builds of the collections without exceptions, and the sizes they
give storage back with. Reading, comparing and hashing collections, strings,
numbers and reflection have no state that changes over several steps; tagged
pointers, type encodings, argument words and landing-pad tables are conversions
of data. The generics plugin, build files, benchmarks and examples are not part
of the running system.

## 6. Plan

What is left, in order of what it would add:

1. Compact headers: the actions of `ObjectLifetime` with sidecars that may fail.
2. The composition of the loader's metadata with `ObjectLifetime`: which
   `dealloc` a release runs for a class that inherits it, and what an object
   without an offset table leaks.
3. Collections in builds without exceptions, with initialisers that fail half
   way.
4. Operators for type encodings, LEB128 and landing-pad tables against reference
   definitions.
5. Proofs: `LayoutSound`.
