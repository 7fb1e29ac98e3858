------------------------- MODULE FastAllocatorProofs -------------------------
(***************************************************************************)
(* The free lists, for every number of threads, addresses and blocks per   *)
(* slab and any sizes and alignments asked for: they hold free blocks of   *)
(* their class only, each once, and what they hand out is clear. That all  *)
(* blocks have room enough needs that refilling cannot fail, or that the   *)
(* sizes asked for are those of classes.                                   *)
(***************************************************************************)
EXTENDS FastAllocator, TLAPS, FiniteSetTheorems, WellFoundedInduction

\* A free block is one the lists serve, and clear past its link.
FreeClear ==
  \A b \in Block : status[b] = "free" =>
    /\ FromBins(size[b], align[b])
    /\ clean[b]
    /\ word[b] \in Block \cup {Nil}

\* Slabs are cut up for requests the lists serve, and stay with them.
SlabsServe ==
  \A b \in Block : status[b] # "absent" /\ source[b] = "slab" =>
    FromBins(size[b], align[b])

IInv == TypeOK /\ ListsSound /\ FreeClear /\ SlabsServe /\ ReturnsZeroed

\* A block of just the size asked for has the room of its class.
ExactSizes ==
  "refill" \in Failures => \A s \in Size : IsFast(s) => s % Granule = 0

-----------------------------------------------------------------------------
(* Size classes *)

\* A size the lists serve has a class, no smaller than the size, and the size
\* of that class is of the same class.
LEMMA ClassFits ==
  ASSUME NEW s \in Nat, IsFast(s)
  PROVE  /\ BinOf(s) \in Bin
         /\ BinSize(BinOf(s)) \in Nat
         /\ s <= BinSize(BinOf(s))
         /\ IsFast(BinSize(BinOf(s)))
         /\ BinOf(BinSize(BinOf(s))) = BinOf(s)
         /\ s % Granule = 0 => BinSize(BinOf(s)) = s
<1> DEFINE q == (s - 1) \div 16
<1>1. s \in 1 .. 512
  BY DEF IsFast, FastMax
<1>2. q \in 0 .. 31 /\ 16 * q <= s - 1 /\ s - 1 < 16 * q + 16
  BY <1>1
<1>3. ((q + 1) * 16 - 1) \div 16 = q
  BY <1>2
<1>4. s % 16 = 0 => (q + 1) * 16 = s
  BY <1>1, <1>2
<1> QED
  BY <1>1, <1>2, <1>3, <1>4 DEF BinOf, Granule, Bin, BinSize, IsFast, FastMax

-----------------------------------------------------------------------------
(* A new slab *)

\* The links of a slab lead to its blocks from the third on, one to each.
LEMMA SlabLinks ==
  ASSUME NEW slab \in Slabs
  PROVE  LET blocks == {slab[i] : i \in 1 .. SlabBlocks} IN
         /\ blocks \subseteq Absent /\ slab[1] \in blocks
         /\ SlabBlocks # 1 => slab[2] \in blocks /\ slab[2] # slab[1]
         /\ \A b \in blocks :
              LET n == NextInSlab(slab, b) IN
              /\ n # Nil => n \in blocks /\ n # slab[1] /\ n # slab[2]
              /\ \A c \in blocks : n = NextInSlab(slab, c) /\ n # Nil => b = c
<1> DEFINE blocks == {slab[i] : i \in 1 .. SlabBlocks}
           At(b) == CHOOSE i \in 2 .. SlabBlocks : slab[i] = b
<1>1. SlabBlocks \in Nat \ {0} /\ Nil \notin Block
  BY AllocatorAssumption
<1>2. /\ slab \in [1 .. SlabBlocks -> Absent]
      /\ \A i, j \in 1 .. SlabBlocks : slab[i] = slab[j] => i = j
  BY DEF Slabs
<1>3. blocks \subseteq Absent /\ Nil \notin blocks
  BY <1>1, <1>2 DEF Absent
<1>4. ASSUME NEW b \in blocks, NextInSlab(slab, b) # Nil
      PROVE  /\ At(b) \in 2 .. (SlabBlocks - 1) /\ slab[At(b)] = b
             /\ NextInSlab(slab, b) = slab[1 + At(b)]
  <2>1. b # slab[1] /\ b # slab[SlabBlocks] /\ NextInSlab(slab, b) = slab[1 + At(b)]
    BY <1>4 DEF NextInSlab
  <2>2. \E i \in 2 .. SlabBlocks : slab[i] = b
    BY <1>1, <2>1
  <2>3. At(b) \in 2 .. SlabBlocks /\ slab[At(b)] = b
    BY <2>2
  <2> QED
    BY <1>1, <2>1, <2>3
<1>5. ASSUME NEW b \in blocks, NextInSlab(slab, b) # Nil
      PROVE  LET n == NextInSlab(slab, b) IN
             n \in blocks /\ n # slab[1] /\ n # slab[2]
  <2> HIDE DEF At
  <2>1. 1 + At(b) \in 3 .. SlabBlocks
    BY <1>1, <1>4, <1>5
  <2> QED
    BY <1>1, <1>2, <1>4, <1>5, <2>1
<1>6. ASSUME NEW b \in blocks, NEW c \in blocks,
             NextInSlab(slab, b) = NextInSlab(slab, c), NextInSlab(slab, b) # Nil
      PROVE  b = c
  <2> HIDE DEF At
  <2>1. 1 + At(b) \in 1 .. SlabBlocks /\ 1 + At(c) \in 1 .. SlabBlocks
        /\ slab[1 + At(b)] = slab[1 + At(c)]
    BY <1>1, <1>4, <1>6
  <2>2. At(b) = At(c)
    BY <1>2, <1>4, <1>6, <2>1
  <2> QED
    BY <1>4, <1>6, <2>2
<1>7. slab[1] \in blocks /\ (SlabBlocks # 1 => slab[2] \in blocks /\ slab[2] # slab[1])
  BY <1>1, <1>2
<1> QED
  BY <1>3, <1>5, <1>6, <1>7

-----------------------------------------------------------------------------
(* Each action preserves the invariant *)

LEMMA InitInv == Init => IInv
<1> SUFFICES ASSUME Init PROVE IInv
  OBVIOUS
<1>1. TypeOK
  BY DEF Init, TypeOK, PointerSize
<1> QED
  BY <1>1 DEF Init, IInv, ListsSound, HeadsSound, LinksSound, LinkedOnce,
              FreeClear, SlabsServe, ReturnsZeroed

LEMMA AllocCachedInv ==
  ASSUME IInv, NEW t \in Thread, NEW s \in Size, NEW a \in Align,
         AllocCached(t, s, a)
  PROVE  IInv'
<1> DEFINE bin == BinOf(s)
<1>1. PICK b : b = bins[t][bin]
  OBVIOUS
<1>2. /\ FromBins(s, a) /\ b # Nil
      /\ bins' = [bins EXCEPT ![t][bin] = word[b]]
      /\ word' = [word EXCEPT ![b] = Nil]
      /\ status' = [status EXCEPT ![b] = "fresh"]
      /\ size' = [size EXCEPT ![b] = s]
      /\ align' = [align EXCEPT ![b] = a]
      /\ UNCHANGED <<source, room, clean>>
  BY <1>1 DEF AllocCached
<1>3. s \in Nat /\ a \in Nat /\ bin \in Bin
  BY <1>2, ClassFits, AllocatorAssumption DEF FromBins
<1> HIDE DEF bin
<1>4. b \in Block /\ status[b] = "free" /\ BinOf(size[b]) = bin
  BY <1>1, <1>2, <1>3 DEF IInv, TypeOK, ListsSound, HeadsSound
<1>5. clean[b] /\ word[b] \in Block \cup {Nil}
  BY <1>4 DEF IInv, FreeClear
<1>6. TypeOK'
  BY <1>2, <1>3, <1>4, <1>5 DEF IInv, TypeOK
<1>7. HeadsSound'
  <2> SUFFICES ASSUME NEW u \in Thread, NEW i \in Bin, bins'[u][i] # Nil
               PROVE  /\ status'[bins'[u][i]] = "free"
                      /\ BinOf(size'[bins'[u][i]]) = i
    BY DEF HeadsSound
  <2>1. CASE u = t /\ i = bin
    <3>1. bins'[u][i] = word[b]
      BY <2>1, <1>2, <1>3 DEF IInv, TypeOK
    <3>2. word[b] # b
      BY <1>1, <1>3, <1>4, <3>1 DEF IInv, ListsSound, LinkedOnce
    <3> QED
      BY <2>1, <3>1, <3>2, <1>2, <1>4, <1>5
         DEF IInv, TypeOK, ListsSound, LinksSound
  <2>2. CASE ~(u = t /\ i = bin)
    <3>1. bins'[u][i] = bins[u][i]
      BY <2>2, <1>2, <1>3 DEF IInv, TypeOK
    <3>2. bins[u][i] # b
      BY <2>2, <3>1, <1>1, <1>2, <1>3 DEF IInv, ListsSound, LinkedOnce
    <3> QED
      BY <3>1, <3>2, <1>2, <1>4 DEF IInv, TypeOK, ListsSound, HeadsSound
  <2> QED
    BY <2>1, <2>2
<1>8. LinksSound'
  <2> SUFFICES ASSUME NEW c \in Block, status'[c] = "free", word'[c] # Nil
               PROVE  /\ word'[c] \in Block
                      /\ status'[word'[c]] = "free"
                      /\ BinOf(size'[word'[c]]) = BinOf(size'[c])
    BY DEF LinksSound
  <2>1. c # b /\ status[c] = "free" /\ word'[c] = word[c] /\ size'[c] = size[c]
    BY <1>2, <1>4 DEF IInv, TypeOK
  <2>2. word[c] # b
    BY <2>1, <1>1, <1>2, <1>3 DEF IInv, ListsSound, LinkedOnce
  <2> QED
    BY <2>1, <2>2, <1>2, <1>4 DEF IInv, TypeOK, ListsSound, LinksSound
<1>9. LinkedOnce'
  <2>1. \A c \in Block : status'[c] = "free" =>
          c # b /\ status[c] = "free" /\ word'[c] = word[c]
    BY <1>2, <1>4 DEF IInv, TypeOK
  <2>2. \A u \in Thread, i \in Bin :
          bins'[u][i] = IF u = t /\ i = bin THEN word[b] ELSE bins[u][i]
    BY <1>2, <1>3 DEF IInv, TypeOK
  <2>3. \A u \in Thread, i \in Bin :
          word[b] = bins[u][i] => word[b] = Nil
    BY <1>4 DEF IInv, ListsSound, LinkedOnce
  <2>4. \A u, v \in Thread, i, j \in Bin :
          bins'[u][i] = bins'[v][j] /\ bins'[u][i] # Nil => u = v /\ i = j
    BY <2>2, <2>3 DEF IInv, ListsSound, LinkedOnce
  <2>5. \A c, d \in Block :
          status'[c] = "free" /\ status'[d] = "free" /\ word'[c] = word'[d]
            => c = d \/ word'[c] = Nil
    BY <2>1 DEF IInv, ListsSound, LinkedOnce
  <2>6. \A u \in Thread, i \in Bin, c \in Block :
          status'[c] = "free" /\ word'[c] = bins'[u][i] => word'[c] = Nil
    BY <2>1, <2>2, <1>4 DEF IInv, ListsSound, LinkedOnce
  <2> QED
    BY <2>4, <2>5, <2>6 DEF LinkedOnce
<1>10. FreeClear' /\ SlabsServe' /\ ReturnsZeroed'
  BY <1>2, <1>4, <1>5 DEF IInv, TypeOK, FreeClear, SlabsServe, ReturnsZeroed, FromBins
<1> QED
  BY <1>6, <1>7, <1>8, <1>9, <1>10 DEF IInv, ListsSound

LEMMA AllocRefilledInv ==
  ASSUME IInv, NEW t \in Thread, NEW s \in Size, NEW a \in Align,
         AllocRefilled(t, s, a)
  PROVE  IInv'
<1> DEFINE bin == BinOf(s)
<1>1. FromBins(s, a) /\ bins[t][bin] = Nil
  BY DEF AllocRefilled
<1>2. /\ s \in Nat /\ a \in Nat /\ bin \in Bin
      /\ BinSize(bin) \in Nat /\ IsFast(BinSize(bin)) /\ BinOf(BinSize(bin)) = bin
  BY <1>1, ClassFits, AllocatorAssumption DEF FromBins
<1>3. PICK slab \in Slabs :
        LET blocks == {slab[i] : i \in 1 .. SlabBlocks}
        IN /\ bins' = [bins EXCEPT ![t][bin] =
                         IF SlabBlocks = 1 THEN Nil ELSE slab[2]]
           /\ status' = [b \in Block |-> IF b = slab[1] THEN "fresh"
                                         ELSE IF b \in blocks THEN "free"
                                         ELSE status[b]]
           /\ size' = [b \in Block |-> IF b = slab[1] THEN s
                                       ELSE IF b \in blocks THEN BinSize(bin)
                                       ELSE size[b]]
           /\ align' = [b \in Block |-> IF b \in blocks THEN a ELSE align[b]]
           /\ source' = [b \in Block |-> IF b \in blocks THEN "slab" ELSE source[b]]
           /\ room' = [b \in Block |-> IF b \in blocks THEN BinSize(bin) ELSE room[b]]
           /\ word' = [b \in Block |-> IF b \in blocks THEN NextInSlab(slab, b)
                                       ELSE word[b]]
           /\ clean' = [b \in Block |-> IF b \in blocks THEN TRUE ELSE clean[b]]
  BY DEF AllocRefilled
<1> DEFINE blocks == {slab[i] : i \in 1 .. SlabBlocks}
           first == IF SlabBlocks = 1 THEN Nil ELSE slab[2]
<1>4. /\ blocks \subseteq Absent /\ slab[1] \in blocks
      /\ SlabBlocks # 1 => slab[2] \in blocks /\ slab[2] # slab[1]
      /\ \A b \in blocks :
           LET n == NextInSlab(slab, b) IN
           /\ n # Nil => n \in blocks /\ n # slab[1] /\ n # slab[2]
           /\ \A c \in blocks : n = NextInSlab(slab, c) /\ n # Nil => b = c
  BY SlabLinks
<1>5. /\ bins' = [bins EXCEPT ![t][bin] = first]
      /\ \A b \in Block \ blocks :
           /\ status'[b] = status[b] /\ size'[b] = size[b] /\ align'[b] = align[b]
           /\ source'[b] = source[b] /\ word'[b] = word[b] /\ clean'[b] = clean[b]
      /\ \A b \in blocks :
           /\ b \in Block /\ status[b] = "absent"
           /\ status'[b] = IF b = slab[1] THEN "fresh" ELSE "free"
           /\ size'[b] = IF b = slab[1] THEN s ELSE BinSize(bin)
           /\ align'[b] = a /\ word'[b] = NextInSlab(slab, b) /\ clean'[b] = TRUE
  BY <1>3, <1>4 DEF Absent
<1>6. TypeOK'
  <2>1. \A b \in blocks : NextInSlab(slab, b) \in Block \cup {Nil, Data}
    BY <1>4 DEF Absent
  <2>2. first \in Block \cup {Nil}
    BY <1>4 DEF Absent
  <2>3. bins' \in [Thread -> [Bin -> Block \cup {Nil}]]
    <3> HIDE DEF first, blocks, bin
    <3> QED
      BY <2>2, <1>5, <1>2 DEF IInv, TypeOK
  <2> QED
    BY <2>1, <2>3, <1>2, <1>3 DEF IInv, TypeOK
<1>7. NextInSlab(slab, slab[1]) = Nil
  BY DEF NextInSlab
<1> HIDE DEF blocks, bin
<1>8. /\ first # Nil => first \in blocks /\ first # slab[1]
      /\ \A b \in blocks : NextInSlab(slab, b) # first \/ first = Nil
  BY <1>4
<1> HIDE DEF first
<1>9. \A u \in Thread, i \in Bin :
        bins'[u][i] = IF u = t /\ i = bin THEN first ELSE bins[u][i]
  BY <1>2, <1>5 DEF IInv, TypeOK
\* Links that were there before lead to no block of the slab.
<1>10. /\ \A u \in Thread, i \in Bin : bins[u][i] \notin blocks
       /\ \A b \in Block : status[b] = "free" => word[b] \notin blocks
  <2>1. Nil \notin blocks
    BY <1>5, AllocatorAssumption
  <2> QED
    BY <2>1, <1>5 DEF IInv, ListsSound, HeadsSound, LinksSound
<1>11. \A b \in Block : status'[b] = "free" =>
         \/ b \in blocks /\ b # slab[1]
         \/ b \notin blocks /\ status[b] = "free" /\ word'[b] = word[b]
  BY <1>5
<1>12. HeadsSound'
  <2> SUFFICES ASSUME NEW u \in Thread, NEW i \in Bin, bins'[u][i] # Nil
               PROVE  /\ status'[bins'[u][i]] = "free"
                      /\ BinOf(size'[bins'[u][i]]) = i
    BY DEF HeadsSound
  <2>1. CASE u = t /\ i = bin
    BY <2>1, <1>2, <1>5, <1>8, <1>9
  <2>2. CASE ~(u = t /\ i = bin)
    <3>1. bins'[u][i] = bins[u][i] /\ bins[u][i] \in Block \ blocks
      BY <2>2, <1>9, <1>10 DEF IInv, TypeOK
    <3> QED
      BY <3>1, <1>5 DEF IInv, ListsSound, HeadsSound
  <2> QED
    BY <2>1, <2>2
<1>13. LinksSound'
  <2> SUFFICES ASSUME NEW b \in Block, status'[b] = "free", word'[b] # Nil
               PROVE  /\ word'[b] \in Block
                      /\ status'[word'[b]] = "free"
                      /\ BinOf(size'[word'[b]]) = BinOf(size'[b])
    BY DEF LinksSound
  <2>1. CASE b \in blocks /\ b # slab[1]
    <3>1. word'[b] \in blocks /\ word'[b] # slab[1]
      BY <2>1, <1>4, <1>5
    <3> QED
      BY <2>1, <3>1, <1>2, <1>5
  <2>2. CASE b \notin blocks /\ status[b] = "free" /\ word'[b] = word[b]
    <3>1. word[b] \in Block \ blocks /\ status[word[b]] = "free"
          /\ BinOf(size[word[b]]) = BinOf(size[b])
      BY <2>2, <1>10 DEF IInv, ListsSound, LinksSound
    <3> QED
      BY <2>2, <3>1, <1>5
  <2> QED
    BY <2>1, <2>2, <1>11
<1>14. LinkedOnce'
  <2>1. \A u, v \in Thread, i, j \in Bin :
          bins'[u][i] = bins'[v][j] /\ bins'[u][i] # Nil => u = v /\ i = j
    BY <1>8, <1>9, <1>10 DEF IInv, ListsSound, LinkedOnce
  <2>2. \A b \in Block : status'[b] = "free" /\ b \in blocks =>
          word'[b] = NextInSlab(slab, b) /\ (word'[b] = Nil \/ word'[b] \in blocks)
    BY <1>4, <1>5
  <2>3. \A b, c \in Block :
          status'[b] = "free" /\ status'[c] = "free" /\ word'[b] = word'[c]
            => b = c \/ word'[b] = Nil
    <3> SUFFICES ASSUME NEW b \in Block, NEW c \in Block, status'[b] = "free",
                        status'[c] = "free", word'[b] = word'[c], word'[b] # Nil
                 PROVE  b = c
      OBVIOUS
    <3>1. b \in blocks <=> c \in blocks
      BY <2>2, <1>10, <1>11
    <3>2. CASE b \in blocks
      BY <3>1, <3>2, <2>2, <1>4
    <3>3. CASE b \notin blocks
      BY <3>1, <3>3, <1>11 DEF IInv, ListsSound, LinkedOnce
    <3> QED
      BY <3>2, <3>3
  <2>4. \A u \in Thread, i \in Bin, b \in Block :
          status'[b] = "free" /\ word'[b] = bins'[u][i] => word'[b] = Nil
    <3> SUFFICES ASSUME NEW u \in Thread, NEW i \in Bin, NEW b \in Block,
                        status'[b] = "free", word'[b] = bins'[u][i], word'[b] # Nil
                 PROVE  FALSE
      OBVIOUS
    <3>1. CASE b \in blocks
      BY <3>1, <2>2, <1>8, <1>9, <1>10
    <3>2. CASE b \notin blocks
      BY <3>2, <1>8, <1>9, <1>10, <1>11 DEF IInv, ListsSound, LinkedOnce
    <3> QED
      BY <3>1, <3>2
  <2> QED
    BY <2>1, <2>3, <2>4 DEF LinkedOnce
<1>15. FreeClear'
  <2> SUFFICES ASSUME NEW b \in Block, status'[b] = "free"
               PROVE  FromBins(size'[b], align'[b]) /\ clean'[b]
                      /\ word'[b] \in Block \cup {Nil}
    BY DEF FreeClear
  <2>1. CASE b \in blocks /\ b # slab[1]
    BY <2>1, <1>1, <1>2, <1>4, <1>5 DEF FromBins
  <2>2. CASE b \notin blocks /\ status[b] = "free" /\ word'[b] = word[b]
    BY <2>2, <1>5 DEF IInv, FreeClear
  <2> QED
    BY <2>1, <2>2, <1>11
<1>16. SlabsServe'
  <2>1. \A b \in blocks : FromBins(size'[b], align'[b])
    BY <1>1, <1>2, <1>5 DEF FromBins
  <2> QED
    BY <2>1, <1>5 DEF IInv, SlabsServe
<1>17. ReturnsZeroed'
  BY <1>4, <1>5, <1>7 DEF IInv, ReturnsZeroed
<1> QED
  BY <1>6, <1>12, <1>13, <1>14, <1>15, <1>16, <1>17 DEF IInv, ListsSound

\* What happens to a block that is on no list leaves the lists as they are.
LEMMA ListsUntouched ==
  ASSUME IInv, NEW b \in Block, status[b] # "free", status'[b] # "free",
         UNCHANGED bins,
         \A c \in Block \ {b} :
           /\ status'[c] = status[c] /\ size'[c] = size[c] /\ align'[c] = align[c]
           /\ word'[c] = word[c] /\ clean'[c] = clean[c]
  PROVE  ListsSound' /\ FreeClear'
<1>1. /\ \A c \in Block : status'[c] = "free" <=> status[c] = "free"
      /\ \A c \in Block : status[c] = "free" =>
           /\ size'[c] = size[c] /\ align'[c] = align[c]
           /\ word'[c] = word[c] /\ clean'[c] = clean[c]
  OBVIOUS
<1>2. HeadsSound'
  <2>1. \A t \in Thread, bin \in Bin : bins[t][bin] # Nil => bins[t][bin] \in Block
    BY DEF IInv, TypeOK
  <2> QED
    BY <1>1, <2>1 DEF IInv, ListsSound, HeadsSound
<1>3. LinksSound'
  BY <1>1 DEF IInv, ListsSound, LinksSound
<1>4. LinkedOnce'
  BY <1>1 DEF IInv, ListsSound, LinkedOnce
<1>5. FreeClear'
  BY <1>1 DEF IInv, FreeClear
<1> QED
  BY <1>2, <1>3, <1>4, <1>5 DEF ListsSound

\* Memory from the C library, which is no block of the lists yet.
LEMMA FromLibraryInv ==
  ASSUME IInv, NEW s \in Size, NEW a \in Align, NEW b \in Absent,
         NEW w \in {Nil, Data}, NEW c \in BOOLEAN,
         FromLibrary(b, s, a), UNCHANGED bins,
         word' = [word EXCEPT ![b] = w], clean' = [clean EXCEPT ![b] = c],
         FromBins(s, a) => w = Nil /\ c
  PROVE  IInv'
<1>1. b \in Block /\ status[b] = "absent" /\ s \in Nat /\ a \in Nat
  BY AllocatorAssumption DEF Absent
<1>2. TypeOK'
  BY <1>1 DEF IInv, TypeOK, FromLibrary
<1>3. /\ status'[b] = "fresh" /\ source'[b] = "heap" /\ size'[b] = s /\ align'[b] = a
      /\ word'[b] = w /\ clean'[b] = c
      /\ \A d \in Block \ {b} :
           /\ status'[d] = status[d] /\ source'[d] = source[d] /\ size'[d] = size[d]
           /\ align'[d] = align[d] /\ word'[d] = word[d] /\ clean'[d] = clean[d]
  BY <1>1 DEF IInv, TypeOK, FromLibrary
<1>4. ListsSound' /\ FreeClear'
  BY <1>1, <1>3, ListsUntouched
<1>5. SlabsServe' /\ ReturnsZeroed'
  BY <1>3 DEF IInv, SlabsServe, ReturnsZeroed
<1> QED
  BY <1>2, <1>4, <1>5 DEF IInv

LEMMA AllocHeapInv ==
  ASSUME IInv, NEW t \in Thread, NEW s \in Size, NEW a \in Align,
         AllocHeap(t, s, a)
  PROVE  IInv'
<1>1. PICK b \in Absent :
        /\ FromLibrary(b, s, a)
        /\ word' = [word EXCEPT ![b] = Nil]
        /\ clean' = [clean EXCEPT ![b] = TRUE]
  BY DEF AllocHeap
<1> QED
  BY <1>1, FromLibraryInv DEF AllocHeap

LEMMA AllocAlignedInv ==
  ASSUME IInv, NEW s \in Size, NEW a \in Align, AllocAligned(s, a)
  PROVE  IInv'
<1>1. PICK b \in Absent, c \in BOOLEAN :
        /\ FromLibrary(b, s, a)
        /\ word' = [word EXCEPT ![b] = IF c THEN Nil ELSE Data]
        /\ clean' = [clean EXCEPT ![b] = c]
  BY DEF AllocAligned
<1>2. PICK w \in {Nil, Data} : w = IF c THEN Nil ELSE Data
  OBVIOUS
<1>3. ~FromBins(s, a)
  BY AllocatorAssumption DEF AllocAligned, FromBins, PointerSize
<1> QED
  BY <1>1, <1>2, <1>3, FromLibraryInv DEF AllocAligned

LEMMA FreeToLibraryInv ==
  ASSUME IInv, NEW b \in Block, FreeToLibrary(b)
  PROVE  IInv'
<1>1. TypeOK'
  BY DEF IInv, TypeOK, FreeToLibrary, PointerSize
<1>2. /\ status[b] # "free" /\ status'[b] = "absent"
      /\ \A c \in Block \ {b} :
           /\ status'[c] = status[c] /\ source'[c] = source[c] /\ size'[c] = size[c]
           /\ align'[c] = align[c] /\ word'[c] = word[c] /\ clean'[c] = clean[c]
  BY DEF IInv, TypeOK, FreeToLibrary, InUse
<1>3. ListsSound' /\ FreeClear'
  BY <1>2, ListsUntouched DEF FreeToLibrary
<1>4. SlabsServe' /\ ReturnsZeroed'
  BY <1>2 DEF IInv, SlabsServe, ReturnsZeroed
<1> QED
  BY <1>1, <1>3, <1>4 DEF IInv

LEMMA WriteInv ==
  ASSUME IInv, NEW b \in Block, Write(b)
  PROVE  IInv'
<1>1. TypeOK'
  BY DEF IInv, TypeOK, Write
<1>2. /\ status[b] = "fresh" /\ status'[b] = "used"
      /\ \A c \in Block \ {b} :
           status'[c] = status[c] /\ word'[c] = word[c] /\ clean'[c] = clean[c]
      /\ UNCHANGED <<size, align, source>>
  BY DEF IInv, TypeOK, Write
<1>3. ListsSound' /\ FreeClear'
  BY <1>2, ListsUntouched DEF Write
<1>4. SlabsServe' /\ ReturnsZeroed'
  BY <1>2 DEF IInv, SlabsServe, ReturnsZeroed
<1> QED
  BY <1>1, <1>3, <1>4 DEF IInv

LEMMA FreeToBinInv ==
  ASSUME IInv, NEW t \in Thread, NEW b \in Block, FreeToBin(t, b)
  PROVE  IInv'
<1> DEFINE bin == BinOf(size[b])
<1>1. FromBins(size[b], align[b]) /\ status[b] \in {"fresh", "used"}
  BY DEF FreeToBin, ToLibrary, InUse
<1>2. bin \in Bin
  BY <1>1, ClassFits DEF IInv, TypeOK, FromBins
<1>3. /\ bins' = [bins EXCEPT ![t][bin] = b]
      /\ status' = [status EXCEPT ![b] = "free"]
      /\ word' = [word EXCEPT ![b] = bins[t][bin]]
      /\ clean' = [clean EXCEPT ![b] = TRUE]
      /\ UNCHANGED <<source, room, size, align>>
  BY DEF FreeToBin, Link, Cleared
<1>4. TypeOK'
  <2> HIDE DEF bin
  <2> QED
    BY <1>2, <1>3 DEF IInv, TypeOK
<1>5. /\ status'[b] = "free" /\ word'[b] = bins[t][bin] /\ clean'[b] = TRUE
      /\ \A c \in Block \ {b} :
           status'[c] = status[c] /\ word'[c] = word[c] /\ clean'[c] = clean[c]
  BY <1>3 DEF IInv, TypeOK
<1>6. \A u \in Thread, i \in Bin :
        bins'[u][i] = IF u = t /\ i = bin THEN b ELSE bins[u][i]
  <2> HIDE DEF bin
  <2> QED
    BY <1>2, <1>3 DEF IInv, TypeOK
\* The block was on no list.
<1>7. /\ \A u \in Thread, i \in Bin : bins[u][i] # b
      /\ \A c \in Block : status[c] = "free" => word[c] # b
  BY <1>1, AllocatorAssumption DEF IInv, ListsSound, HeadsSound, LinksSound
<1>8. bins[t][bin] # Nil =>
        /\ bins[t][bin] \in Block /\ status[bins[t][bin]] = "free"
        /\ BinOf(size[bins[t][bin]]) = bin
  BY <1>2 DEF IInv, TypeOK, ListsSound, HeadsSound
<1>9. BinOf(size'[b]) = bin /\ UNCHANGED size
  BY <1>3
<1> HIDE DEF bin
<1>10. HeadsSound'
  <2> SUFFICES ASSUME NEW u \in Thread, NEW i \in Bin, bins'[u][i] # Nil
               PROVE  status'[bins'[u][i]] = "free" /\ BinOf(size'[bins'[u][i]]) = i
    BY DEF HeadsSound
  <2>1. CASE u = t /\ i = bin
    BY <2>1, <1>5, <1>6, <1>9
  <2>2. CASE ~(u = t /\ i = bin)
    <3>1. bins'[u][i] = bins[u][i] /\ bins[u][i] \in Block \ {b}
      BY <2>2, <1>6, <1>7 DEF IInv, TypeOK
    <3> QED
      BY <3>1, <1>5, <1>9 DEF IInv, ListsSound, HeadsSound
  <2> QED
    BY <2>1, <2>2
<1>11. LinksSound'
  <2> SUFFICES ASSUME NEW c \in Block, status'[c] = "free", word'[c] # Nil
               PROVE  /\ word'[c] \in Block
                      /\ status'[word'[c]] = "free"
                      /\ BinOf(size'[word'[c]]) = BinOf(size'[c])
    BY DEF LinksSound
  <2>1. CASE c = b
    BY <2>1, <1>5, <1>7, <1>8, <1>9, <1>2
  <2>2. CASE c # b
    <3>1. status[c] = "free" /\ word'[c] = word[c]
      BY <2>2, <1>5
    <3>2. word[c] \in Block \ {b} /\ status[word[c]] = "free"
          /\ BinOf(size[word[c]]) = BinOf(size[c])
      BY <3>1, <1>7 DEF IInv, ListsSound, LinksSound
    <3> QED
      BY <3>1, <3>2, <1>5, <1>9
  <2> QED
    BY <2>1, <2>2
<1>12. LinkedOnce'
  <2>1. \A u, v \in Thread, i, j \in Bin :
          bins'[u][i] = bins'[v][j] /\ bins'[u][i] # Nil => u = v /\ i = j
    BY <1>6, <1>7 DEF IInv, ListsSound, LinkedOnce
  <2>2. \A c, d \in Block :
          status'[c] = "free" /\ status'[d] = "free" /\ word'[c] = word'[d]
            => c = d \/ word'[c] = Nil
    BY <1>2, <1>5 DEF IInv, ListsSound, LinkedOnce
  <2>3. \A u \in Thread, i \in Bin, c \in Block :
          status'[c] = "free" /\ word'[c] = bins'[u][i] => word'[c] = Nil
    <3> SUFFICES ASSUME NEW u \in Thread, NEW i \in Bin, NEW c \in Block,
                        status'[c] = "free", word'[c] = bins'[u][i], word'[c] # Nil
                 PROVE  FALSE
      OBVIOUS
    <3>1. CASE c = b
      BY <3>1, <1>2, <1>5, <1>6, <1>7 DEF IInv, ListsSound, LinkedOnce
    <3>2. CASE c # b
      BY <3>2, <1>5, <1>6, <1>7 DEF IInv, ListsSound, LinkedOnce
    <3> QED
      BY <3>1, <3>2
  <2> QED
    BY <2>1, <2>2, <2>3 DEF LinkedOnce
<1>13. FreeClear'
  BY <1>1, <1>2, <1>3, <1>5 DEF IInv, TypeOK, FreeClear
<1>14. SlabsServe' /\ ReturnsZeroed'
  BY <1>1, <1>3, <1>5 DEF IInv, SlabsServe, ReturnsZeroed
<1> QED
  BY <1>4, <1>10, <1>11, <1>12, <1>13, <1>14 DEF IInv, ListsSound

LEMMA NextInv == IInv /\ [Next]_vars => IInv'
<1> SUFFICES ASSUME IInv, [Next]_vars PROVE IInv'
  OBVIOUS
<1>1. ASSUME NEW t \in Thread, NEW s \in Size, NEW a \in Align,
             AllocCached(t, s, a) \/ AllocRefilled(t, s, a) \/ AllocHeap(t, s, a)
      PROVE  IInv'
  BY <1>1, AllocCachedInv, AllocRefilledInv, AllocHeapInv
<1>2. ASSUME NEW s \in Size, NEW a \in Align, AllocAligned(s, a)
      PROVE  IInv'
  BY <1>2, AllocAlignedInv
<1>3. ASSUME NEW t \in Thread, NEW b \in Block, FreeToBin(t, b)
      PROVE  IInv'
  BY <1>3, FreeToBinInv
<1>4. ASSUME NEW b \in Block, FreeToLibrary(b) \/ Write(b)
      PROVE  IInv'
  BY <1>4, FreeToLibraryInv, WriteInv
<1>5. CASE UNCHANGED vars
  BY <1>5 DEF vars, IInv, TypeOK, ListsSound, HeadsSound, LinksSound, LinkedOnce,
              FreeClear, SlabsServe, ReturnsZeroed
<1> QED
  BY <1>1, <1>2, <1>3, <1>4, <1>5 DEF Next

LEMMA Inductive == Spec => []IInv
BY InitInv, NextInv, PTL DEF Spec

-----------------------------------------------------------------------------
(* The theorems *)

\* The lists and blocks of allocator.c have their types.
THEOREM TypeCorrect == Spec => []TypeOK
<1>1. IInv => TypeOK
  BY DEF IInv
<1> QED
  BY <1>1, Inductive, PTL

\* default_alloc and default_free keep each list to free blocks of its class,
\* and each block on at most one list, whichever threads use it.
THEOREM FreeListsCorrect == Spec => []ListsSound
<1>1. IInv => ListsSound
  BY DEF IInv
<1> QED
  BY <1>1, Inductive, PTL

\* sf_default_allocator_returns_zeroed is right: what sf_init_allocated_header
\* does not clear is clear.
THEOREM HandedOutZeroed == Spec => []ReturnsZeroed
<1>1. IInv => ReturnsZeroed
  BY DEF IInv
<1> QED
  BY <1>1, Inductive, PTL

\* default_free gives no part of a slab to the C library.
THEOREM SlabsNeverFreed == Spec => SlabsKept
<1>1. IInv /\ [Next]_vars =>
        [\A b \in Block : status[b] # "absent" /\ source[b] = "slab"
                            => status'[b] # "absent"]_vars
  <2> SUFFICES ASSUME IInv, Next, NEW b \in Block,
                      status[b] # "absent", source[b] = "slab"
               PROVE  status'[b] # "absent"
    OBVIOUS
  <2>1. FromBins(size[b], align[b])
    BY DEF IInv, SlabsServe
  <2>2. ASSUME NEW t \in Thread, NEW s \in Size, NEW a \in Align, AllocCached(t, s, a)
        PROVE  status'[b] # "absent"
    BY <2>2 DEF AllocCached, IInv, TypeOK
  <2>3. ASSUME NEW t \in Thread, NEW s \in Size, NEW a \in Align, AllocRefilled(t, s, a)
        PROVE  status'[b] # "absent"
    BY <2>3 DEF AllocRefilled
  <2>4. ASSUME NEW t \in Thread, NEW s \in Size, NEW a \in Align, AllocHeap(t, s, a)
        PROVE  status'[b] # "absent"
    BY <2>4 DEF AllocHeap, FromLibrary, IInv, TypeOK
  <2>5. ASSUME NEW s \in Size, NEW a \in Align, AllocAligned(s, a)
        PROVE  status'[b] # "absent"
    BY <2>5 DEF AllocAligned, FromLibrary, IInv, TypeOK
  <2>6. ASSUME NEW t \in Thread, NEW c \in Block, FreeToBin(t, c)
        PROVE  status'[b] # "absent"
    BY <2>6 DEF FreeToBin, IInv, TypeOK
  <2>7. ASSUME NEW c \in Block, FreeToLibrary(c)
        PROVE  status'[b] # "absent"
    BY <2>1, <2>7 DEF FreeToLibrary, ToLibrary, IInv, TypeOK
  <2>8. ASSUME NEW c \in Block, Write(c)
        PROVE  status'[b] # "absent"
    BY <2>8 DEF Write, IInv, TypeOK
  <2> QED
    BY <2>2, <2>3, <2>4, <2>5, <2>6, <2>7, <2>8 DEF Next
<1> QED
  BY <1>1, Inductive, PTL DEF Spec, SlabsKept

\* Whatever default_alloc hands out has the size asked for, and default_free
\* clears no more than the block has, if slabs can be mapped or all sizes are
\* those of classes.
THEOREM RoomForRequests == ExactSizes => (Spec => []RoomEnough)
<1> SUFFICES ASSUME ExactSizes PROVE Spec => []RoomEnough
  OBVIOUS
<1>1. Init => RoomEnough
  BY DEF Init, RoomEnough
<1>2. IInv /\ RoomEnough /\ [Next]_vars => RoomEnough'
  <2> SUFFICES ASSUME IInv, RoomEnough, [Next]_vars PROVE RoomEnough'
    OBVIOUS
  <2>1. ASSUME NEW t \in Thread, NEW s \in Size, NEW a \in Align, AllocCached(t, s, a)
        PROVE  RoomEnough'
    <3>1. PICK c : c = bins[t][BinOf(s)]
      OBVIOUS
    <3>2. s \in Nat /\ FromBins(s, a) /\ BinOf(s) \in Bin /\ c # Nil
          /\ s <= BinSize(BinOf(s)) /\ BinSize(BinOf(s)) \in Nat
      BY <2>1, <3>1, ClassFits, AllocatorAssumption DEF AllocCached, FromBins
    <3>3. /\ c \in Block /\ status[c] = "free" /\ BinOf(size[c]) = BinOf(s)
          /\ FromBins(size[c], align[c])
      BY <3>1, <3>2 DEF IInv, TypeOK, ListsSound, HeadsSound, FreeClear
    <3>4. BinSize(BinOf(s)) <= room[c] /\ room[c] \in Nat
      BY <3>3 DEF RoomEnough, IInv, TypeOK
    <3>5. /\ size'[c] = s /\ align'[c] = a /\ room' = room
          /\ \A b \in Block \ {c} : status'[b] = status[b] /\ size'[b] = size[b]
                                    /\ align'[b] = align[b]
      BY <2>1, <3>1, <3>3 DEF AllocCached, IInv, TypeOK
    <3>6. s <= room[c]
      BY <3>2, <3>4
    <3> QED
      BY <3>4, <3>5, <3>6 DEF RoomEnough
  <2>2. ASSUME NEW t \in Thread, NEW s \in Size, NEW a \in Align, AllocRefilled(t, s, a)
        PROVE  RoomEnough'
    <3> DEFINE bin == BinOf(s)
    <3>1. /\ s <= BinSize(bin) /\ BinSize(bin) \in Nat /\ BinOf(BinSize(bin)) = bin
      BY <2>2, ClassFits, AllocatorAssumption DEF AllocRefilled, FromBins
    <3>2. PICK slab \in Slabs, blocks \in SUBSET Block :
            /\ \A b \in blocks : room'[b] = BinSize(bin)
                                 /\ size'[b] \in {s, BinSize(bin)}
            /\ \A b \in Block \ blocks : /\ status'[b] = status[b] /\ size'[b] = size[b]
                                         /\ align'[b] = align[b] /\ room'[b] = room[b]
      <4>1. PICK slab \in Slabs :
              LET blocks == {slab[i] : i \in 1 .. SlabBlocks}
              IN /\ status' = [b \in Block |-> IF b = slab[1] THEN "fresh"
                                               ELSE IF b \in blocks THEN "free"
                                               ELSE status[b]]
                 /\ size' = [b \in Block |-> IF b = slab[1] THEN s
                                             ELSE IF b \in blocks THEN BinSize(bin)
                                             ELSE size[b]]
                 /\ align' = [b \in Block |-> IF b \in blocks THEN a ELSE align[b]]
                 /\ room' = [b \in Block |-> IF b \in blocks THEN BinSize(bin)
                                             ELSE room[b]]
        BY <2>2 DEF AllocRefilled
      <4>2. {slab[i] : i \in 1 .. SlabBlocks} \subseteq Block
            /\ slab[1] \in {slab[i] : i \in 1 .. SlabBlocks}
        BY SlabLinks DEF Absent
      <4> QED
        BY <4>1, <4>2
    <3> HIDE DEF bin
    <3>3. ASSUME NEW b \in blocks
          PROVE  size'[b] <= room'[b] /\ BinSize(BinOf(size'[b])) <= room'[b]
      BY <3>1, <3>2 DEF bin
    <3> QED
      BY <3>2, <3>3 DEF RoomEnough
  <2>3. ASSUME NEW s \in Size, NEW a \in Align, NEW b \in Absent, FromLibrary(b, s, a),
               FromBins(s, a) => s % Granule = 0
        PROVE  RoomEnough'
    <3>1. b \in Block /\ s \in Nat
      BY AllocatorAssumption DEF Absent
    <3>2. /\ size'[b] = s /\ room'[b] = s /\ align'[b] = a
          /\ \A c \in Block \ {b} : status'[c] = status[c] /\ size'[c] = size[c]
                                    /\ align'[c] = align[c] /\ room'[c] = room[c]
      BY <2>3, <3>1 DEF FromLibrary, IInv, TypeOK
    <3>3. FromBins(s, a) => BinSize(BinOf(s)) = s
      BY <2>3, <3>1, ClassFits DEF FromBins
    <3> QED
      BY <3>1, <3>2, <3>3 DEF RoomEnough
  <2>4. ASSUME NEW t \in Thread, NEW s \in Size, NEW a \in Align, AllocHeap(t, s, a)
        PROVE  RoomEnough'
    <3>1. IsFast(s) => s % Granule = 0
      BY <2>4 DEF AllocHeap, ExactSizes
    <3> QED
      BY <2>3, <2>4, <3>1 DEF AllocHeap, FromBins
  <2>5. ASSUME NEW s \in Size, NEW a \in Align, AllocAligned(s, a)
        PROVE  RoomEnough'
    <3>1. ~FromBins(s, a)
      BY <2>5, AllocatorAssumption DEF AllocAligned, FromBins, PointerSize
    <3> QED
      BY <2>3, <2>5, <3>1 DEF AllocAligned
  <2>6. ASSUME NEW t \in Thread, NEW b \in Block, FreeToBin(t, b)
        PROVE  RoomEnough'
    <3>1. status[b] # "absent" /\ UNCHANGED <<size, align, room>>
          /\ \A c \in Block \ {b} : status'[c] = status[c]
      BY <2>6 DEF FreeToBin, InUse, IInv, TypeOK
    <3> QED
      BY <3>1 DEF RoomEnough
  <2>7. ASSUME NEW b \in Block, FreeToLibrary(b)
        PROVE  RoomEnough'
    <3>1. /\ status'[b] = "absent"
          /\ \A c \in Block \ {b} : status'[c] = status[c] /\ size'[c] = size[c]
                                    /\ align'[c] = align[c] /\ room'[c] = room[c]
      BY <2>7 DEF FreeToLibrary, IInv, TypeOK
    <3> QED
      BY <3>1 DEF RoomEnough
  <2>8. ASSUME NEW b \in Block, Write(b)
        PROVE  RoomEnough'
    <3>1. status[b] # "absent" /\ UNCHANGED <<size, align, room>>
          /\ \A c \in Block \ {b} : status'[c] = status[c]
      BY <2>8 DEF Write, IInv, TypeOK
    <3> QED
      BY <3>1 DEF RoomEnough
  <2>9. CASE UNCHANGED vars
    BY <2>9 DEF vars, RoomEnough
  <2> QED
    BY <2>1, <2>2, <2>4, <2>5, <2>6, <2>7, <2>8, <2>9 DEF Next
<1> QED
  BY <1>1, <1>2, Inductive, PTL DEF Spec

-----------------------------------------------------------------------------
(* Free blocks are found along the links *)

\* p leads from the head of a list to b, along n links of free blocks.
Leads(p, n, t, bin, b) ==
  /\ p \in [0 .. n -> Block] /\ p[0] = bins[t][bin] /\ p[n] = b
  /\ \A i \in 0 .. n : status[p[i]] = "free"
  /\ \A i \in 1 .. n : p[i] = word[p[i - 1]]
OnList(b) ==
  \E t \in Thread, n \in Nat : \E p \in [0 .. n -> Block] : Leads(p, n, t, BinOf(size[b]), b)
OnLists == \A b \in Block : status[b] = "free" => OnList(b)

LEMMA Least ==
  ASSUME NEW T, T \subseteq Nat, T # {}
  PROVE  \E x \in T : \A y \in T : x <= y
<1>1. PICK x \in T : \A y \in T : ~(<<y, x>> \in OpToRel(<, Nat))
  BY NatLessThanWellFounded, WFMin
<1>2. \A y \in T : ~(y < x)
  BY <1>1 DEF OpToRel
<1> QED
  BY <1>2

\* No link leads to the head of a list, so that a path that does not begin at
\* the head does not meet it.
LEMMA HeadOnlyFirst ==
  ASSUME IInv, NEW t \in Thread, NEW bin \in Bin, NEW n \in Nat, NEW b,
         NEW p \in [0 .. n -> Block], Leads(p, n, t, bin, b),
         NEW u \in Thread, NEW i \in Bin, NEW j \in 0 .. n, p[j] = bins[u][i]
  PROVE  j = 0 /\ t = u /\ bin = i
<1>1. p[j] \in Block /\ p[j] # Nil
  BY AllocatorAssumption
<1>2. j = 0
  <2> SUFFICES ASSUME j # 0 PROVE FALSE
    OBVIOUS
  <2>1. j - 1 \in 0 .. n /\ p[j] = word[p[j - 1]] /\ status[p[j - 1]] = "free"
        /\ p[j - 1] \in Block
    BY DEF Leads
  <2>2. PICK d \in Block : d = p[j - 1]
    BY <2>1
  <2>3. status[d] = "free" /\ word[d] = bins[u][i] /\ word[d] # Nil
    BY <1>1, <2>1, <2>2
  <2> QED
    BY <2>3 DEF IInv, ListsSound, LinkedOnce
<1>3. bins[t][bin] = bins[u][i]
  BY <1>2 DEF Leads
<1> QED
  BY <1>1, <1>2, <1>3 DEF IInv, ListsSound, LinkedOnce

\* A path whose list and blocks are left alone is still one.
LEMMA PathKept ==
  ASSUME NEW t \in Thread, NEW bin \in Bin, NEW n \in Nat, NEW b \in Block,
         NEW p \in [0 .. n -> Block], Leads(p, n, t, bin, b),
         bins'[t][bin] = bins[t][bin], size'[b] = size[b], BinOf(size[b]) = bin,
         \A i \in 0 .. n : status'[p[i]] = "free" /\ word'[p[i]] = word[p[i]]
  PROVE  OnList(b)'
<1>1. \A i \in 1 .. n : i - 1 \in 0 .. n
  OBVIOUS
<1>2. Leads(p, n, t, bin, b)'
  BY <1>1 DEF Leads
<1> QED
  BY <1>2 DEF OnList

LEMMA FreeInBin ==
  ASSUME IInv, NEW b \in Block, status[b] = "free"
  PROVE  BinOf(size[b]) \in Bin
BY ClassFits DEF IInv, TypeOK, FreeClear, FromBins

LEMMA AllocCachedOnLists ==
  ASSUME IInv, OnLists, NEW t \in Thread, NEW s \in Size, NEW a \in Align,
         AllocCached(t, s, a)
  PROVE  OnLists'
<1> DEFINE bin == BinOf(s)
<1>1. PICK c : c = bins[t][bin]
  OBVIOUS
<1>2. /\ FromBins(s, a) /\ c # Nil
      /\ bins' = [bins EXCEPT ![t][bin] = word[c]]
      /\ word' = [word EXCEPT ![c] = Nil]
      /\ status' = [status EXCEPT ![c] = "fresh"]
      /\ size' = [size EXCEPT ![c] = s]
  BY <1>1 DEF AllocCached
<1>3. bin \in Bin
  BY <1>2, ClassFits, AllocatorAssumption DEF FromBins
<1> HIDE DEF bin
<1>4. c \in Block /\ status[c] = "free"
  BY <1>1, <1>2, <1>3 DEF IInv, TypeOK, ListsSound, HeadsSound
<1>5. /\ \A u \in Thread, i \in Bin :
           bins'[u][i] = IF u = t /\ i = bin THEN word[c] ELSE bins[u][i]
      /\ \A d \in Block : d # c =>
           word'[d] = word[d] /\ status'[d] = status[d] /\ size'[d] = size[d]
      /\ status'[c] = "fresh"
  BY <1>2, <1>3, <1>4 DEF IInv, TypeOK
<1> SUFFICES ASSUME NEW b \in Block, status'[b] = "free" PROVE OnList(b)'
  BY DEF OnLists
<1>6. b # c /\ status[b] = "free" /\ size'[b] = size[b]
  BY <1>5
<1>7. PICK in \in Bin : in = BinOf(size[b])
  BY <1>6, FreeInBin
<1>8. PICK u \in Thread, n \in Nat : \E p \in [0 .. n -> Block] : Leads(p, n, u, in, b)
  BY <1>6, <1>7 DEF OnLists, OnList
<1>9. PICK p \in [0 .. n -> Block] : Leads(p, n, u, in, b)
  BY <1>8
<1>10. \A j \in 0 .. n : p[j] = c => j = 0 /\ u = t /\ in = bin
  BY <1>1, <1>3, <1>9, HeadOnlyFirst
<1>11. CASE u = t /\ in = bin
  <2>1. p[0] = c /\ p[n] = b
    BY <1>1, <1>9, <1>11 DEF Leads
  <2>2. PICK m \in Nat : n = m + 1
    <3>1. n # 0
      BY <1>6, <2>1
    <3> QED
      BY <3>1
  <2>3. PICK q : q = [i \in 0 .. m |-> p[i + 1]]
    OBVIOUS
  <2>4. \A i \in 0 .. m : i + 1 \in 1 .. n /\ q[i] = p[i + 1] /\ p[i + 1] # c
                          /\ p[i + 1] \in Block
    BY <1>10, <2>2, <2>3
  <2>5. q \in [0 .. m -> Block]
    BY <2>3, <2>4
  <2>6. \A i \in 0 .. m : status'[q[i]] = "free"
    BY <1>5, <1>9, <2>2, <2>4 DEF Leads
  <2>7. q[0] = word[c] /\ q[m] = b
    <3>1. p[1] = word[p[0]]
      BY <1>9, <2>2 DEF Leads
    <3> QED
      BY <2>1, <2>2, <2>4, <3>1
  <2>8. ASSUME NEW i \in 1 .. m PROVE q[i] = word'[q[i - 1]]
    <3>1. i - 1 \in 0 .. m /\ i \in 0 .. m /\ i + 1 \in 1 .. n
      BY <2>2
    <3>2. q[i] = p[i + 1] /\ q[i - 1] = p[i] /\ p[i] # c /\ p[i] \in Block
      BY <2>4, <3>1
    <3>3. p[i + 1] = word[p[i]]
      BY <1>9, <3>1 DEF Leads
    <3> QED
      BY <1>5, <3>2, <3>3
  <2>9. Leads(q, m, t, in, b)'
    BY <1>3, <1>5, <1>11, <2>5, <2>6, <2>7, <2>8 DEF Leads
  <2> QED
    BY <1>6, <1>7, <2>5, <2>9 DEF OnList
<1>12. CASE ~(u = t /\ in = bin)
  <2>1. \A j \in 0 .. n : p[j] # c /\ p[j] \in Block /\ status[p[j]] = "free"
    BY <1>9, <1>10, <1>12 DEF Leads
  <2> QED
    BY <1>5, <1>6, <1>7, <1>9, <1>12, <2>1, PathKept
<1> QED
  BY <1>11, <1>12

\* The blocks of a new slab from the second on follow one another.
LEMMA SlabOrder ==
  ASSUME NEW slab \in Slabs, NEW i \in 2 .. SlabBlocks, i # SlabBlocks
  PROVE  NextInSlab(slab, slab[i]) = slab[i + 1]
<1> DEFINE at == CHOOSE j \in 2 .. SlabBlocks : slab[j] = slab[i]
<1>1. SlabBlocks \in Nat \ {0}
  BY AllocatorAssumption
<1>2. \A j, k \in 1 .. SlabBlocks : slab[j] = slab[k] => j = k
  BY DEF Slabs
<1>3. at \in 2 .. SlabBlocks /\ slab[at] = slab[i]
  OBVIOUS
<1>4. at = i
  <2> HIDE DEF at
  <2> QED
    BY <1>1, <1>2, <1>3
<1>5. slab[i] # slab[1] /\ slab[i] # slab[SlabBlocks]
  BY <1>1, <1>2
<1>6. NextInSlab(slab, slab[i]) = slab[1 + at]
  BY <1>5 DEF NextInSlab
<1> HIDE DEF at
<1>7. 1 + at = i + 1
  BY <1>1, <1>4
<1> QED
  BY <1>6, <1>7

LEMMA AllocRefilledOnLists ==
  ASSUME IInv, OnLists, NEW t \in Thread, NEW s \in Size, NEW a \in Align,
         AllocRefilled(t, s, a)
  PROVE  OnLists'
<1> DEFINE bin == BinOf(s)
<1>1. FromBins(s, a) /\ bins[t][bin] = Nil
  BY DEF AllocRefilled
<1>2. /\ bin \in Bin /\ BinOf(BinSize(bin)) = bin
      /\ SlabBlocks \in Nat \ {0}
  BY <1>1, ClassFits, AllocatorAssumption DEF FromBins
<1>3. PICK slab \in Slabs :
        LET blocks == {slab[i] : i \in 1 .. SlabBlocks}
        IN /\ bins' = [bins EXCEPT ![t][bin] =
                         IF SlabBlocks = 1 THEN Nil ELSE slab[2]]
           /\ status' = [b \in Block |-> IF b = slab[1] THEN "fresh"
                                         ELSE IF b \in blocks THEN "free"
                                         ELSE status[b]]
           /\ size' = [b \in Block |-> IF b = slab[1] THEN s
                                       ELSE IF b \in blocks THEN BinSize(bin)
                                       ELSE size[b]]
           /\ word' = [b \in Block |-> IF b \in blocks THEN NextInSlab(slab, b)
                                       ELSE word[b]]
  BY DEF AllocRefilled
<1> DEFINE blocks == {slab[i] : i \in 1 .. SlabBlocks}
           first == IF SlabBlocks = 1 THEN Nil ELSE slab[2]
<1>4. blocks \subseteq Absent /\ slab[1] \in blocks
  BY SlabLinks
<1>5. /\ bins' = [bins EXCEPT ![t][bin] = first]
      /\ \A b \in Block \ blocks :
           status'[b] = status[b] /\ size'[b] = size[b] /\ word'[b] = word[b]
      /\ \A b \in blocks :
           /\ b \in Block /\ status[b] = "absent"
           /\ status'[b] = IF b = slab[1] THEN "fresh" ELSE "free"
           /\ b # slab[1] => size'[b] = BinSize(bin)
           /\ word'[b] = NextInSlab(slab, b)
  BY <1>3, <1>4 DEF Absent
<1>6. \A i \in 1 .. SlabBlocks : slab[i] \in blocks
  OBVIOUS
<1>7. \A i \in 2 .. SlabBlocks : slab[i] # slab[1]
  BY <1>2 DEF Slabs
<1>8. \A b \in blocks : \E i \in 1 .. SlabBlocks : slab[i] = b
  OBVIOUS
<1>9. SlabBlocks # 1 => first = slab[2]
  OBVIOUS
<1> HIDE DEF blocks, bin, first
<1>10. \A u \in Thread, i \in Bin :
         bins'[u][i] = IF u = t /\ i = bin THEN first ELSE bins[u][i]
  BY <1>2, <1>5 DEF IInv, TypeOK
<1> SUFFICES ASSUME NEW b \in Block, status'[b] = "free" PROVE OnList(b)'
  BY DEF OnLists
<1>11. CASE b \in blocks
  <2>1. PICK k \in 1 .. SlabBlocks : slab[k] = b
    BY <1>8, <1>11
  <2>2. b # slab[1] /\ k # 1 /\ SlabBlocks # 1
    BY <1>2, <1>5, <1>11, <2>1
  <2>3. PICK n \in Nat : k = n + 2
    <3>1. k - 2 \in Nat /\ k = (k - 2) + 2
      BY <1>2, <2>2
    <3> QED
      BY <3>1
  <2>4. PICK q : q = [i \in 0 .. n |-> slab[i + 2]]
    OBVIOUS
  <2>5. \A i \in 0 .. n : /\ i + 2 \in 2 .. SlabBlocks /\ i + 2 \in 1 .. SlabBlocks
                          /\ q[i] = slab[i + 2]
    BY <1>2, <2>3, <2>4
  <2>6. \A i \in 0 .. n : q[i] \in blocks /\ q[i] # slab[1] /\ q[i] \in Block
    BY <1>5, <1>6, <1>7, <2>5
  <2>7. q \in [0 .. n -> Block]
    BY <2>4, <2>5, <2>6
  <2>8. \A i \in 0 .. n : status'[q[i]] = "free"
    BY <1>5, <2>6
  <2>9. q[0] = slab[2] /\ q[n] = b
    BY <2>1, <2>3, <2>5
  <2>10. ASSUME NEW i \in 1 .. n PROVE q[i] = word'[q[i - 1]]
    <3>1. i - 1 \in 0 .. n /\ i \in 0 .. n /\ (i - 1) + 2 = i + 1 /\ i + 1 \in 2 .. SlabBlocks
          /\ i + 1 # SlabBlocks /\ (i + 1) + 1 = i + 2
      BY <1>2, <2>3
    <3>2. q[i] = slab[i + 2] /\ q[i - 1] = slab[i + 1] /\ q[i - 1] \in blocks
      BY <2>5, <2>6, <3>1
    <3>3. NextInSlab(slab, slab[i + 1]) = slab[i + 2]
      BY <3>1, SlabOrder
    <3> QED
      BY <1>5, <3>2, <3>3
  <2>11. Leads(q, n, t, bin, b)'
    BY <1>2, <1>9, <1>10, <2>2, <2>7, <2>8, <2>9, <2>10 DEF Leads
  <2>12. BinOf(size'[b]) = bin
    BY <1>2, <1>5, <1>11, <2>2
  <2> QED
    BY <2>7, <2>11, <2>12 DEF OnList
<1>12. CASE b \notin blocks
  <2>1. status[b] = "free" /\ size'[b] = size[b]
    BY <1>5, <1>12
  <2>2. PICK in \in Bin : in = BinOf(size[b])
    BY <2>1, FreeInBin
  <2>3. PICK u \in Thread, n \in Nat : \E p \in [0 .. n -> Block] : Leads(p, n, u, in, b)
    BY <2>1, <2>2 DEF OnLists, OnList
  <2>4. PICK p \in [0 .. n -> Block] : Leads(p, n, u, in, b)
    BY <2>3
  <2>5. \A j \in 0 .. n : p[j] \in Block /\ status[p[j]] = "free" /\ p[j] \notin blocks
    BY <1>5, <2>4 DEF Leads
  <2>6. bins[u][in] \in Block
    BY <2>4 DEF Leads
  <2>7. bins'[u][in] = bins[u][in]
    BY <1>1, <1>10, <2>6, AllocatorAssumption DEF bin
  <2> QED
    BY <1>5, <2>1, <2>2, <2>4, <2>5, <2>7, PathKept
<1> QED
  BY <1>11, <1>12

LEMMA UntouchedOnLists ==
  ASSUME IInv, OnLists, NEW b \in Block, status[b] # "free", status'[b] # "free",
         UNCHANGED bins,
         \A c \in Block \ {b} :
           status'[c] = status[c] /\ size'[c] = size[c] /\ word'[c] = word[c]
  PROVE  OnLists'
<1> SUFFICES ASSUME NEW c \in Block, status'[c] = "free" PROVE OnList(c)'
  BY DEF OnLists
<1>1. status[c] = "free" /\ size'[c] = size[c]
  OBVIOUS
<1>2. PICK in \in Bin : in = BinOf(size[c])
  BY <1>1, FreeInBin
<1>3. PICK u \in Thread, n \in Nat : \E p \in [0 .. n -> Block] : Leads(p, n, u, in, c)
  BY <1>1, <1>2 DEF OnLists, OnList
<1>4. PICK p \in [0 .. n -> Block] : Leads(p, n, u, in, c)
  BY <1>3
<1>5. \A j \in 0 .. n : p[j] \in Block /\ status[p[j]] = "free" /\ p[j] # b
  BY <1>4 DEF Leads
<1> QED
  BY <1>1, <1>2, <1>4, <1>5, PathKept

LEMMA FromLibraryOnLists ==
  ASSUME IInv, OnLists, NEW s \in Size, NEW a \in Align, NEW b \in Absent, NEW w,
         FromLibrary(b, s, a), UNCHANGED bins, word' = [word EXCEPT ![b] = w]
  PROVE  OnLists'
<1>1. b \in Block /\ status[b] = "absent"
  BY DEF Absent
<1>2. /\ status'[b] = "fresh"
      /\ \A c \in Block \ {b} :
           status'[c] = status[c] /\ size'[c] = size[c] /\ word'[c] = word[c]
  BY <1>1 DEF FromLibrary, IInv, TypeOK
<1> QED
  BY <1>1, <1>2, UntouchedOnLists

LEMMA FreeToBinOnLists ==
  ASSUME IInv, OnLists, NEW t \in Thread, NEW c \in Block, FreeToBin(t, c)
  PROVE  OnLists'
<1> DEFINE bin == BinOf(size[c])
<1>1. FromBins(size[c], align[c]) /\ status[c] \in {"fresh", "used"}
  BY DEF FreeToBin, ToLibrary, InUse
<1>2. bin \in Bin
  BY <1>1, ClassFits DEF IInv, TypeOK, FromBins
<1>3. /\ bins' = [bins EXCEPT ![t][bin] = c]
      /\ status' = [status EXCEPT ![c] = "free"]
      /\ word' = [word EXCEPT ![c] = bins[t][bin]]
      /\ UNCHANGED size
  BY DEF FreeToBin, Link
<1>4. PICK in \in Bin : in = bin
  BY <1>2
<1> HIDE DEF bin
<1>5. /\ status'[c] = "free" /\ word'[c] = bins[t][in]
      /\ \A d \in Block : d # c => status'[d] = status[d] /\ word'[d] = word[d]
      /\ \A u \in Thread, i \in Bin :
           bins'[u][i] = IF u = t /\ i = in THEN c ELSE bins[u][i]
      /\ \A d \in Block : size'[d] = size[d]
  BY <1>2, <1>3, <1>4 DEF IInv, TypeOK
<1>6. BinOf(size[c]) = in
  BY <1>4 DEF bin
<1> SUFFICES ASSUME NEW b \in Block, status'[b] = "free" PROVE OnList(b)'
  BY DEF OnLists
<1>7. CASE b = c
  <2>1. PICK z : z = 0
    OBVIOUS
  <2>2. PICK q : q = [i \in 0 .. z |-> c]
    OBVIOUS
  <2>3. q \in [0 .. z -> Block] /\ q[z] = c /\ \A i \in 0 .. z : q[i] = c
    BY <2>1, <2>2
  <2>4. Leads(q, z, t, in, c)'
    BY <1>5, <2>1, <2>3 DEF Leads
  <2>5. z \in Nat /\ BinOf(size'[c]) = in
    BY <1>5, <1>6, <2>1
  <2> QED
    BY <1>7, <2>3, <2>4, <2>5 DEF OnList
<1>8. CASE b # c
  <2>1. status[b] = "free" /\ size'[b] = size[b]
    BY <1>5, <1>8
  <2>2. PICK on \in Bin : on = BinOf(size[b])
    BY <2>1, FreeInBin
  <2>3. PICK u \in Thread, n \in Nat : \E p \in [0 .. n -> Block] : Leads(p, n, u, on, b)
    BY <2>1, <2>2 DEF OnLists, OnList
  <2>4. PICK p \in [0 .. n -> Block] : Leads(p, n, u, on, b)
    BY <2>3
  <2>5. \A j \in 0 .. n : p[j] \in Block /\ status[p[j]] = "free" /\ p[j] # c
    BY <1>1, <2>4 DEF Leads
  <2>6. CASE ~(u = t /\ on = in)
    BY <1>5, <2>1, <2>2, <2>4, <2>5, <2>6, PathKept
  <2>7. CASE u = t /\ on = in
    <3>1. PICK m \in Nat : m = n + 1
      OBVIOUS
    <3>2. PICK q : q = [i \in 0 .. m |-> IF i = 0 THEN c ELSE p[i - 1]]
      OBVIOUS
    <3>3. q[0] = c /\ \A i \in 1 .. m : i - 1 \in 0 .. n /\ q[i] = p[i - 1]
      BY <3>1, <3>2
    <3>4. \A i \in 0 .. m : i = 0 \/ i \in 1 .. m
      BY <3>1
    <3>5. \A i \in 0 .. m : q[i] \in Block /\ status'[q[i]] = "free"
      BY <1>5, <2>5, <3>3, <3>4
    <3>6. q \in [0 .. m -> Block]
      BY <3>2, <3>5
    <3>7. q[m] = b
      <4>1. m \in 1 .. m /\ m - 1 = n
        BY <3>1
      <4> QED
        BY <2>4, <3>3, <4>1 DEF Leads
    <3>8. ASSUME NEW i \in 1 .. m PROVE q[i] = word'[q[i - 1]]
      <4>1. CASE i = 1
        <5>1. q[1] = p[0] /\ q[0] = c
          BY <3>3, <4>1
        <5> QED
          BY <1>5, <2>4, <2>7, <4>1, <5>1 DEF Leads
      <4>2. CASE i # 1
        <5>1. i - 1 \in 1 .. m /\ i - 1 \in 1 .. n /\ i - 1 \in 0 .. n /\ (i - 1) - 1 \in 0 .. n
          BY <3>1, <4>2
        <5>2. q[i] = p[i - 1] /\ q[i - 1] = p[(i - 1) - 1]
          BY <3>3, <5>1
        <5>3. p[i - 1] = word[p[(i - 1) - 1]]
          BY <2>4, <5>1 DEF Leads
        <5>4. word'[p[(i - 1) - 1]] = word[p[(i - 1) - 1]]
          BY <1>5, <2>5, <5>1
        <5> QED
          BY <5>2, <5>3, <5>4
      <4> QED
        BY <4>1, <4>2
    <3>9. Leads(q, m, t, in, b)'
      BY <1>5, <3>3, <3>5, <3>6, <3>7, <3>8 DEF Leads
    <3> QED
      BY <2>1, <2>2, <2>7, <3>6, <3>9 DEF OnList
  <2> QED
    BY <2>6, <2>7
<1> QED
  BY <1>7, <1>8

LEMMA NextOnLists ==
  ASSUME IInv, OnLists, [Next]_vars
  PROVE  OnLists'
<1>1. ASSUME NEW t \in Thread, NEW s \in Size, NEW a \in Align, AllocHeap(t, s, a)
      PROVE  OnLists'
  BY <1>1, FromLibraryOnLists DEF AllocHeap
<1>2. ASSUME NEW s \in Size, NEW a \in Align, AllocAligned(s, a)
      PROVE  OnLists'
  BY <1>2, FromLibraryOnLists DEF AllocAligned
<1>3. ASSUME NEW b \in Block, FreeToLibrary(b) \/ Write(b)
      PROVE  OnLists'
  <2>1. /\ status[b] # "free" /\ status'[b] # "free" /\ UNCHANGED bins
        /\ \A c \in Block \ {b} :
             status'[c] = status[c] /\ size'[c] = size[c] /\ word'[c] = word[c]
    BY <1>3 DEF FreeToLibrary, Write, InUse, IInv, TypeOK
  <2> QED
    BY <2>1, UntouchedOnLists
<1>4. CASE UNCHANGED vars
  BY <1>4 DEF vars, OnLists, OnList, Leads
<1> QED
  BY <1>1, <1>2, <1>3, <1>4, AllocCachedOnLists, AllocRefilledOnLists, FreeToBinOnLists
     DEF Next

\* What one more link leads to.
Followed(S) == S \cup ({word[b] : b \in S} \ {Nil})
\* The blocks found within up to n links, as a function of the number of links.
Follows(f, A, n) ==
  f = [k \in 0 .. n |-> IF k = 0 THEN A ELSE Followed(f[k - 1])]

LEMMA FollowsExists ==
  ASSUME NEW A, NEW n \in Nat
  PROVE  \E f : Follows(f, A, n)
<1> DEFINE T == {m \in Nat : ~\E f : Follows(f, A, m)}
<1> SUFFICES ASSUME T # {} PROVE FALSE
  OBVIOUS
<1>1. PICK m \in T : \A y \in T : m <= y
  BY Least
<1>2. m \in Nat /\ ~\E f : Follows(f, A, m)
  BY <1>1
<1>3. CASE m = 0
  <2>1. PICK f : f = [k \in 0 .. m |-> A]
    OBVIOUS
  <2>2. f = [k \in 0 .. m |-> IF k = 0 THEN A ELSE Followed(f[k - 1])]
    BY <1>3, <2>1
  <2> QED
    BY <1>2, <2>2 DEF Follows
<1>4. CASE m # 0
  <2>1. m - 1 \in Nat /\ m - 1 \notin T
    BY <1>1, <1>2, <1>4
  <2>2. PICK f : Follows(f, A, m - 1)
    BY <2>1
  <2>3. \A k \in 0 .. m - 1 : f[k] = IF k = 0 THEN A ELSE Followed(f[k - 1])
    BY <2>2 DEF Follows
  <2>4. PICK g : g = [k \in 0 .. m |-> IF k = m THEN Followed(f[m - 1]) ELSE f[k]]
    OBVIOUS
  <2>5. \A k \in 0 .. m - 1 : g[k] = f[k]
    BY <1>2, <2>4
  <2>6. ASSUME NEW k \in 0 .. m
        PROVE  g[k] = IF k = 0 THEN A ELSE Followed(g[k - 1])
    <3>1. CASE k = m
      <4>1. k # 0 /\ m - 1 \in 0 .. m - 1 /\ g[k] = Followed(f[m - 1])
        BY <1>2, <1>4, <2>4, <3>1
      <4> QED
        BY <2>5, <3>1, <4>1
    <3>2. CASE k # m
      <4>1. k \in 0 .. m - 1 /\ (k # 0 => k - 1 \in 0 .. m - 1)
        BY <1>2, <3>2
      <4> QED
        BY <2>3, <2>5, <4>1
    <3> QED
      BY <3>1, <3>2
  <2>7. g = [k \in 0 .. m |-> IF k = 0 THEN A ELSE Followed(g[k - 1])]
    BY <2>4, <2>6
  <2> QED
    BY <1>2, <2>7 DEF Follows
<1> QED
  BY <1>3, <1>4

LEMMA FollowsUnique ==
  ASSUME NEW A, NEW n \in Nat, NEW m \in Nat, NEW f, NEW g, Follows(f, A, n), Follows(g, A, m),
         NEW k \in Nat, k <= n, k <= m
  PROVE  f[k] = g[k]
<1> DEFINE T == {i \in Nat : i <= n /\ i <= m /\ f[i] # g[i]}
<1> SUFFICES ASSUME T # {} PROVE FALSE
  OBVIOUS
<1>1. PICK i \in T : \A y \in T : i <= y
  BY Least
<1>2. i \in 0 .. n /\ i \in 0 .. m /\ f[i] # g[i]
  BY <1>1
<1>3. /\ f[i] = IF i = 0 THEN A ELSE Followed(f[i - 1])
      /\ g[i] = IF i = 0 THEN A ELSE Followed(g[i - 1])
  BY <1>2 DEF Follows
<1>4. i # 0
  BY <1>2, <1>3
<1>5. i - 1 \in Nat /\ i - 1 <= n /\ i - 1 <= m /\ i - 1 \notin T
  BY <1>1, <1>2, <1>4
<1> QED
  BY <1>2, <1>3, <1>4, <1>5

\* Listed, as the equations it is defined by.
LEMMA ListedIs ==
  ASSUME NEW t, NEW bin
  PROVE  \E f : /\ f[0] = {bins[t][bin]} \ {Nil}
                /\ \A n \in Nat : f[n + 1] = Followed(f[n])
                /\ Listed(t, bin) = f[Cardinality(Block)]
<1> DEFINE A == {bins[t][bin]} \ {Nil}
           Def(f) == f = [n \in Nat |-> IF n = 0 THEN A
                                        ELSE f[n - 1] \cup ({word[b] : b \in f[n - 1]} \ {Nil})]
           h == [n \in Nat |-> (CHOOSE f : Follows(f, A, n))[n]]
           follow == CHOOSE f : Def(f)
<1> HIDE DEF A
<1>1. \A n \in Nat : Follows(CHOOSE f : Follows(f, A, n), A, n)
  BY FollowsExists
<1>2. ASSUME NEW n \in Nat
      PROVE  h[n] = IF n = 0 THEN A ELSE Followed(h[n - 1])
  <2>1. PICK f : f = (CHOOSE g : Follows(g, A, n)) /\ Follows(f, A, n)
    BY <1>1
  <2>2. h[n] = f[n]
    BY <2>1
  <2>3. f[n] = IF n = 0 THEN A ELSE Followed(f[n - 1])
    <3>1. Follows(f, A, n) /\ n \in 0 .. n
      BY <2>1
    <3> QED
      BY ONLY <3>1 DEF Follows
  <2>4. CASE n # 0
    <3>1. n - 1 \in Nat /\ n - 1 <= n
      BY <2>4
    <3>2. PICK g : g = (CHOOSE e : Follows(e, A, n - 1)) /\ Follows(g, A, n - 1)
      BY <1>1, <3>1
    <3>3. h[n - 1] = g[n - 1]
      BY <3>1, <3>2
    <3>4. f[n - 1] = g[n - 1]
      BY <2>1, <3>1, <3>2, FollowsUnique
    <3> QED
      BY <2>2, <2>3, <3>3, <3>4
  <2> QED
    BY <2>2, <2>3, <2>4
<1>3. Def(h)
  BY <1>2 DEF Followed
<1>4. Def(follow)
  BY <1>3
<1>5. Listed(t, bin) = follow[Cardinality(Block)]
  BY DEF Listed, A
<1>6. follow[0] = A
  BY <1>4
<1>7. ASSUME NEW n \in Nat PROVE follow[n + 1] = Followed(follow[n])
  <2>1. n + 1 \in Nat /\ n + 1 # 0 /\ (n + 1) - 1 = n
    OBVIOUS
  <2> HIDE DEF follow
  <2> QED
    BY <1>4, <2>1 DEF Followed
<1> QED
  BY <1>5, <1>6, <1>7 DEF A

\* A path of free blocks meets no block twice.
LEMMA PathsSimple ==
  ASSUME IInv, NEW t \in Thread, NEW bin \in Bin, NEW n \in Nat, NEW b,
         NEW p \in [0 .. n -> Block], Leads(p, n, t, bin, b),
         NEW i \in 0 .. n, NEW j \in 0 .. n, p[i] = p[j], i < j
  PROVE  FALSE
<1> DEFINE T == {k \in Nat : k <= n /\ \E l \in 0 .. n : k < l /\ p[k] = p[l]}
<1>1. i \in T
  OBVIOUS
<1>2. PICK k \in T : \A y \in T : k <= y
  BY <1>1, Least
<1>3. PICK l \in 0 .. n : k < l /\ p[k] = p[l]
  BY <1>2
<1>4. k \in 0 .. n
  BY <1>2
<1>5. CASE k = 0
  <2>1. p[l] = bins[t][bin] /\ l # 0
    BY <1>3, <1>5 DEF Leads
  <2>2. l = 0
    BY <2>1, HeadOnlyFirst
  <2> QED
    BY <2>1, <2>2
<1>6. CASE k # 0
  <2>1. /\ k - 1 \in 0 .. n /\ l - 1 \in 0 .. n /\ k - 1 < l - 1
        /\ k \in 1 .. n /\ l \in 1 .. n
    BY <1>3, <1>4, <1>6
  <2>2. PICK c \in Block, d \in Block : c = p[k - 1] /\ d = p[l - 1]
    BY <2>1
  <2>3. status[c] = "free" /\ status[d] = "free" /\ word[c] = p[k] /\ word[d] = p[l]
    BY <2>1, <2>2 DEF Leads
  <2>4. word[c] = word[d] /\ word[c] # Nil
    BY <1>3, <1>4, <2>3, AllocatorAssumption
  <2>5. c = d
    BY <2>3, <2>4 DEF IInv, ListsSound, LinkedOnce
  <2>6. k - 1 \in T
    <3>1. p[k - 1] = p[l - 1] /\ k - 1 \in Nat /\ k - 1 <= n
      BY <2>1, <2>2, <2>5
    <3> QED
      BY <2>1, <3>1
  <2>7. ~(k <= k - 1)
    BY <1>4
  <2> QED
    BY <1>2, <2>6, <2>7
<1> QED
  BY <1>5, <1>6

\* So there are as many links as blocks at most.
LEMMA PathsShort ==
  ASSUME IInv, NEW t \in Thread, NEW bin \in Bin, NEW n \in Nat, NEW b,
         NEW p \in [0 .. n -> Block], Leads(p, n, t, bin, b)
  PROVE  Cardinality(Block) \in Nat /\ n <= Cardinality(Block)
<1>1. \A i, j \in 0 .. n : p[i] = p[j] => i = j
  <2> SUFFICES ASSUME NEW i \in 0 .. n, NEW j \in 0 .. n, p[i] = p[j], i # j PROVE FALSE
    OBVIOUS
  <2>1. i < j \/ j < i
    OBVIOUS
  <2> QED
    BY <2>1, PathsSimple
<1>2. p \in Injection(0 .. n, Block)
  BY <1>1 DEF Injection, IsInjective
<1>3. IsFiniteSet(Block)
  BY AllocatorAssumption
<1>4. Cardinality(0 .. n) <= Cardinality(Block)
  BY <1>2, <1>3, FS_Injection
<1>5. Cardinality(0 .. n) = n + 1
  BY FS_Interval
<1> QED
  BY <1>3, <1>4, <1>5, FS_CardinalityType

\* What a path leads to is found.
LEMMA PathsListed ==
  ASSUME IInv, NEW t \in Thread, NEW bin \in Bin, NEW n \in Nat, NEW b,
         NEW p \in [0 .. n -> Block], Leads(p, n, t, bin, b)
  PROVE  b \in Listed(t, bin)
<1>1. PICK f : /\ f[0] = {bins[t][bin]} \ {Nil}
               /\ \A k \in Nat : f[k + 1] = Followed(f[k])
               /\ Listed(t, bin) = f[Cardinality(Block)]
  BY ListedIs
<1>2. \A k \in 0 .. n : p[k] \in Block /\ p[k] # Nil
  BY AllocatorAssumption
<1>3. p[n] \in f[n]
  <2> DEFINE T == {k \in Nat : k <= n /\ p[k] \notin f[k]}
  <2> SUFFICES ASSUME T # {} PROVE FALSE
    OBVIOUS
  <2>1. PICK k \in T : \A y \in T : k <= y
    BY Least
  <2>2. k \in 0 .. n /\ p[k] \notin f[k]
    BY <2>1
  <2>3. k # 0
    BY <1>1, <1>2, <2>2 DEF Leads
  <2>4. PICK j \in Nat : k = j + 1
    <3>1. k - 1 \in Nat /\ k = (k - 1) + 1
      BY <2>2, <2>3
    <3> QED
      BY <3>1
  <2>5. j \in 0 .. n /\ k \in 1 .. n /\ k - 1 = j /\ ~(k <= j)
    BY <2>2, <2>4
  <2>6. p[j] \in f[j]
    BY <2>1, <2>5
  <2>7. p[k] = word[p[j]]
    BY <2>5 DEF Leads
  <2>8. f[k] = Followed(f[j])
    BY <1>1, <2>4
  <2> QED
    BY <1>2, <2>2, <2>6, <2>7, <2>8 DEF Followed
<1>4. Cardinality(Block) \in Nat /\ n <= Cardinality(Block)
  BY PathsShort
<1>5. PICK m \in Nat : m = Cardinality(Block) /\ n <= m
  BY <1>4
<1>6. p[n] \in f[m]
  <2> DEFINE T == {k \in Nat : n <= k /\ p[n] \notin f[k]}
  <2> SUFFICES ASSUME T # {} PROVE FALSE
    BY <1>5
  <2>1. PICK k \in T : \A y \in T : k <= y
    BY Least
  <2>2. k \in Nat /\ n <= k /\ p[n] \notin f[k]
    BY <2>1
  <2>3. k # n
    BY <1>3, <2>2
  <2>4. PICK j \in Nat : k = j + 1
    <3>1. k - 1 \in Nat /\ k = (k - 1) + 1
      BY <2>2, <2>3
    <3> QED
      BY <3>1
  <2>5. n <= j /\ ~(k <= j)
    BY <2>2, <2>3, <2>4
  <2>6. p[n] \in f[j]
    BY <2>1, <2>5
  <2>7. f[k] = Followed(f[j])
    BY <1>1, <2>4
  <2> QED
    BY <2>2, <2>6, <2>7 DEF Followed
<1> QED
  BY <1>1, <1>5, <1>6 DEF Leads

\* default_alloc and default_free lose no block: each that is free is found on
\* the list of its class of some thread, by following links from the head.
THEOREM NoBlockLost == Spec => []FreeBlocksListed
<1>1. Init => OnLists
  BY DEF Init, OnLists
<1>2. IInv /\ OnLists /\ [Next]_vars => OnLists'
  BY NextOnLists
<1>3. IInv /\ OnLists => FreeBlocksListed
  <2> SUFFICES ASSUME IInv, OnLists, NEW b \in Block, status[b] = "free"
               PROVE  \E t \in Thread : b \in Listed(t, BinOf(size[b]))
    BY DEF FreeBlocksListed
  <2>1. PICK bin \in Bin : bin = BinOf(size[b])
    BY FreeInBin
  <2>2. PICK t \in Thread, n \in Nat : \E p \in [0 .. n -> Block] : Leads(p, n, t, bin, b)
    BY <2>1 DEF OnLists, OnList
  <2>3. PICK p \in [0 .. n -> Block] : Leads(p, n, t, bin, b)
    BY <2>2
  <2>4. b \in Listed(t, bin)
    BY <2>3, PathsListed
  <2> QED
    BY <2>1, <2>4
<1> QED
  BY <1>1, <1>2, <1>3, Inductive, PTL DEF Spec
=============================================================================
