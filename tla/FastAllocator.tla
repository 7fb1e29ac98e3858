---------------------------- MODULE FastAllocator ----------------------------
(***************************************************************************)
(* The default allocator (allocator.c). Requests of up to 512 bytes at the *)
(* usual alignment come from a free list per size class and thread, linked *)
(* through the first word of its blocks; an empty list is refilled with a  *)
(* slab of fresh pages. If that fails, and for all other requests, memory  *)
(* comes from the C library. A free block is clear past its first word, so *)
(* that the runtime need not clear what it allocates for an object.        *)
(* The lists belong to threads: calls of different threads share nothing   *)
(* but the blocks, which may be freed by another thread than allocated.    *)
(***************************************************************************)
EXTENDS Naturals, FiniteSets

CONSTANTS
  Thread,
  Block,       \* addresses memory is found at
  Size, Align, \* the requests the program makes
  SlabBlocks,  \* blocks per slab; the code has at least 64
  Failures,    \* what can fail: "refill", that is mmap
  Nil,         \* the null pointer; the value of a clear word
  Data         \* any other value of a word

ASSUME AllocatorAssumption ==
  /\ IsFiniteSet(Block)
  /\ Size \subseteq Nat /\ Align \subseteq Nat
  /\ SlabBlocks \in Nat \ {0}
  /\ Failures \subseteq {"refill"}
  /\ Nil \notin Block /\ Data \notin Block /\ Nil # Data

VARIABLES
  bins,    \* g_fast_alloc_bins of each thread
  status,  \* "absent": not mapped; "fresh": handed out, not written yet
  source,  \* whether the block is part of a slab or from the C library
  room,    \* bytes the block really has
  size,    \* bytes last asked for; a block of a new slab: those of its class
  align,   \* alignment last asked for
  word,    \* the first word of the block
  clean    \* whether the bytes after it are zero

vars == <<bins, status, source, room, size, align, word, clean>>

Granule == 16
FastMax == 512
PointerSize == 8
Bin == 0 .. 31

BinSizeFloor(bin) == bin * Granule
BinSize(bin) == (bin + 1) * Granule
IsFast(s) == s > 0 /\ s <= FastMax
BinOf(s) == (s - 1) \div Granule

\* Requests the free lists serve, which sf_default_allocator_returns_zeroed
\* says are clear.
FromBins(s, a) == a <= PointerSize /\ IsFast(s)

\* Bound: powers of two below 2^30.
IsValidAlignment(a) ==
  a <= PointerSize \/ \E k \in 3 .. 30 : a = 2 ^ k

InUse(b) == status[b] \in {"fresh", "used"}
Absent == {b \in Block : status[b] = "absent"}

TypeOK ==
  /\ bins \in [Thread -> [Bin -> Block \cup {Nil}]]
  /\ status \in [Block -> {"absent", "free", "fresh", "used"}]
  /\ source \in [Block -> {"slab", "heap"}]
  /\ room \in [Block -> Nat] /\ size \in [Block -> Nat] /\ align \in [Block -> Nat]
  /\ word \in [Block -> Block \cup {Nil, Data}]
  /\ clean \in [Block -> BOOLEAN]

Init ==
  /\ bins = [t \in Thread |-> [bin \in Bin |-> Nil]]
  /\ status = [b \in Block |-> "absent"]
  /\ source = [b \in Block |-> "heap"]
  /\ room = [b \in Block |-> 0]
  /\ size = [b \in Block |-> 0]
  /\ align = [b \in Block |-> PointerSize]
  /\ word = [b \in Block |-> Nil]
  /\ clean = [b \in Block |-> TRUE]

-----------------------------------------------------------------------------
(* default_alloc *)

\* The list has a block: the first one is taken off and its link cleared.
AllocCached(t, s, a) ==
  LET bin == BinOf(s)
      b == bins[t][bin]
  IN /\ FromBins(s, a)
     /\ b # Nil
     /\ bins' = [bins EXCEPT ![t][bin] = word[b]]
     /\ word' = [word EXCEPT ![b] = Nil]
     /\ status' = [status EXCEPT ![b] = "fresh"]
     /\ size' = [size EXCEPT ![b] = s]
     /\ align' = [align EXCEPT ![b] = a]
     /\ UNCHANGED <<source, room, clean>>

\* The blocks of a slab at distinct free addresses, in their order.
Slabs ==
  {f \in [1 .. SlabBlocks -> Absent] :
     \A i, j \in 1 .. SlabBlocks : f[i] = f[j] => i = j}

\* The link of a block of the slab; the first block is handed out at once.
NextInSlab(slab, b) ==
  IF b \in {slab[1], slab[SlabBlocks]} THEN Nil
  ELSE slab[1 + CHOOSE i \in 2 .. SlabBlocks : slab[i] = b]

\* The list is empty: a slab of zero pages is cut into blocks, which are
\* linked in order of address, and the first is taken off.
AllocRefilled(t, s, a) ==
  LET bin == BinOf(s) IN
  /\ FromBins(s, a)
  /\ bins[t][bin] = Nil
  /\ \E slab \in Slabs :
       LET blocks == {slab[i] : i \in 1 .. SlabBlocks}
       IN /\ bins' = [bins EXCEPT ![t][bin] =
                        IF SlabBlocks = 1 THEN Nil ELSE slab[2]]
          /\ status' = [b \in Block |-> IF b = slab[1] THEN "fresh"
                                        ELSE IF b \in blocks THEN "free"
                                        ELSE status[b]]
          /\ size' = [b \in Block |-> IF b = slab[1] THEN s
                                      ELSE IF b \in blocks THEN BinSize(bin)
                                      ELSE size[b]]
          /\ align' = [b \in Block |-> IF b \in blocks THEN a ELSE align[b]]
          /\ source' = [b \in Block |-> IF b \in blocks THEN "slab" ELSE source[b]]
          /\ room' = [b \in Block |-> IF b \in blocks THEN BinSize(bin) ELSE room[b]]
          /\ word' = [b \in Block |-> IF b \in blocks THEN NextInSlab(slab, b)
                                      ELSE word[b]]
          /\ clean' = [b \in Block |-> IF b \in blocks THEN TRUE ELSE clean[b]]

\* Memory of just the size asked for, from the C library.
FromLibrary(b, s, a) ==
  /\ status' = [status EXCEPT ![b] = "fresh"]
  /\ source' = [source EXCEPT ![b] = "heap"]
  /\ room' = [room EXCEPT ![b] = s]
  /\ size' = [size EXCEPT ![b] = s]
  /\ align' = [align EXCEPT ![b] = a]

\* calloc: for large requests, and when the list cannot be refilled.
AllocHeap(t, s, a) ==
  /\ a <= PointerSize
  /\ IsFast(s) => bins[t][BinOf(s)] = Nil /\ "refill" \in Failures
  /\ \E b \in Absent :
       /\ FromLibrary(b, s, a)
       /\ word' = [word EXCEPT ![b] = Nil]
       /\ clean' = [clean EXCEPT ![b] = TRUE]
  /\ UNCHANGED bins

\* posix_memalign, whose memory is not initialized: clear or not.
AllocAligned(s, a) ==
  /\ a > PointerSize /\ IsValidAlignment(a)
  /\ \E b \in Absent, c \in BOOLEAN :
       /\ FromLibrary(b, s, a)
       /\ word' = [word EXCEPT ![b] = IF c THEN Nil ELSE Data]
       /\ clean' = [clean EXCEPT ![b] = c]
  /\ UNCHANGED bins

-----------------------------------------------------------------------------
(* default_free, with the size and alignment the block was allocated with *)

\* Whether the block goes to the C library rather than on a list.
ToLibraryAtMax(b) == ~(align[b] <= PointerSize /\ size[b] > 0 /\ size[b] < FastMax)
ToLibrary(b) == ~FromBins(size[b], align[b])

\* The link written in the first word of the block, and the bytes after it.
LinkLost(t, b) == Nil
LinkToItself(t, b) == b
Link(t, b) == bins[t][BinOf(size[b])]
NotCleared(b) == clean[b]
Cleared(b) == TRUE

\* The block is cleared past its first word, to the size of its class, and
\* linked in front of the list.
FreeToBin(t, b) ==
  /\ InUse(b) /\ ~ToLibrary(b)
  /\ clean' = [clean EXCEPT ![b] = Cleared(b)]
  /\ word' = [word EXCEPT ![b] = Link(t, b)]
  /\ bins' = [bins EXCEPT ![t][BinOf(size[b])] = b]
  /\ status' = [status EXCEPT ![b] = "free"]
  /\ UNCHANGED <<source, room, size, align>>

\* The block goes back to the C library. What the model says of an absent
\* block is without meaning, and set as it was at first.
FreeToLibrary(b) ==
  /\ InUse(b) /\ ToLibrary(b)
  /\ status' = [status EXCEPT ![b] = "absent"]
  /\ source' = [source EXCEPT ![b] = "heap"]
  /\ room' = [room EXCEPT ![b] = 0]
  /\ size' = [size EXCEPT ![b] = 0]
  /\ align' = [align EXCEPT ![b] = PointerSize]
  /\ word' = [word EXCEPT ![b] = Nil]
  /\ clean' = [clean EXCEPT ![b] = TRUE]
  /\ UNCHANGED bins

-----------------------------------------------------------------------------
\* The program writes to a block it was given.
Write(b) ==
  /\ status[b] = "fresh"
  /\ status' = [status EXCEPT ![b] = "used"]
  /\ word' = [word EXCEPT ![b] = Data]
  /\ clean' = [clean EXCEPT ![b] = FALSE]
  /\ UNCHANGED <<bins, source, room, size, align>>

Next ==
  \/ \E t \in Thread, s \in Size, a \in Align :
       AllocCached(t, s, a) \/ AllocRefilled(t, s, a) \/ AllocHeap(t, s, a)
  \/ \E s \in Size, a \in Align : AllocAligned(s, a)
  \/ \E t \in Thread, b \in Block : FreeToBin(t, b)
  \/ \E b \in Block : FreeToLibrary(b) \/ Write(b)

Spec == Init /\ [][Next]_vars

-----------------------------------------------------------------------------
(* Properties *)

\* The links of the free lists: the heads, and the first words of free blocks.
HeadsSound ==
  \A t \in Thread, bin \in Bin : bins[t][bin] # Nil =>
    /\ status[bins[t][bin]] = "free"
    /\ BinOf(size[bins[t][bin]]) = bin
LinksSound ==
  \A b \in Block : status[b] = "free" /\ word[b] # Nil =>
    /\ word[b] \in Block
    /\ status[word[b]] = "free"
    /\ BinOf(size[word[b]]) = BinOf(size[b])

\* No block is in two lists, or twice in one, whichever threads allocate and
\* free it: no two links lead to the same block.
LinkedOnce ==
  /\ \A t, u \in Thread, i, j \in Bin :
       bins[t][i] = bins[u][j] /\ bins[t][i] # Nil => t = u /\ i = j
  /\ \A b, c \in Block :
       status[b] = "free" /\ status[c] = "free" /\ word[b] = word[c]
         => b = c \/ word[b] = Nil
  /\ \A t \in Thread, i \in Bin, b \in Block :
       status[b] = "free" /\ word[b] = bins[t][i] => word[b] = Nil

\* The free lists of default_alloc and default_free hold free blocks of their
\* size class only, each of them once: no block is handed out while in use.
ListsSound == HeadsSound /\ LinksSound /\ LinkedOnce

\* The blocks found on a list within n links.
Listed(t, bin) ==
  LET follow[n \in Nat] ==
        IF n = 0 THEN {bins[t][bin]} \ {Nil}
        ELSE follow[n - 1] \cup ({word[b] : b \in follow[n - 1]} \ {Nil})
  IN follow[Cardinality(Block)]

\* Every free block is on some list: refilling, taking and freeing lose none.
FreeBlocksListed ==
  \A b \in Block : status[b] = "free" =>
    \E t \in Thread : b \in Listed(t, BinOf(size[b]))

\* A block has the room it was asked for, and one that default_free would put
\* on a list, or has put there, has the room of its class, all of which
\* default_free clears.
RoomEnough ==
  \A b \in Block : status[b] # "absent" =>
    /\ size[b] <= room[b]
    /\ FromBins(size[b], align[b]) => BinSize(BinOf(size[b])) <= room[b]

\* What sf_default_allocator_returns_zeroed promises, and what
\* sf_init_allocated_header relies on: such a block is clear when handed out.
ReturnsZeroed ==
  \A b \in Block : status[b] = "fresh" /\ FromBins(size[b], align[b]) =>
    word[b] = Nil /\ clean[b]

\* Part of a slab is never given to the C library's free.
SlabsKept ==
  [][\A b \in Block : status[b] # "absent" /\ source[b] = "slab"
                        => status'[b] # "absent"]_vars
=============================================================================
