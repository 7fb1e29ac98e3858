-------------------------- MODULE CollectionsProofs --------------------------
(***************************************************************************)
(* Proofs about Collections, for any number of collections, items and      *)
(* threads and any captured variables: the counts of what is on the heap   *)
(* while collections retain and release it, and what a collection holds.   *)
(***************************************************************************)
EXTENDS BlocksProofs, WellFoundedInduction

-----------------------------------------------------------------------------
(* What initialisers do: concatenations of sequences of steps. Induction is  *)
(* on the least length for which it would fail.                              *)

LEMMA Least ==
  ASSUME NEW T, T \subseteq Nat, T # {}
  PROVE  \E x \in T : \A y \in T : x <= y
<1>1. PICK x \in T : \A y \in T : ~(<<y, x>> \in OpToRel(<, Nat))
  BY NatLessThanWellFounded, WFMin
<1>2. \A y \in T : ~(y < x)
  BY <1>1 DEF OpToRel
<1> QED
  BY <1>2

Joins(f, seqs, n) == f = [i \in 1 .. n |-> IF i = 1 THEN seqs[i] ELSE f[i - 1] \o seqs[i]]

LEMMA JoinsExists ==
  ASSUME NEW seqs, NEW n \in Nat
  PROVE  \E f : Joins(f, seqs, n)
<1> DEFINE T == {i \in Nat : ~\E f : Joins(f, seqs, i)}
<1> SUFFICES ASSUME T # {} PROVE FALSE
  OBVIOUS
<1>1. PICK m \in T : \A y \in T : m <= y
  BY Least
<1>2. m \in Nat /\ ~\E f : Joins(f, seqs, m)
  BY <1>1
<1>3. CASE m = 0
  <2>1. \A f : (f = [i \in 1 .. 0 |-> i]) => Joins(f, seqs, 0)
    BY DEF Joins
  <2> QED
    BY <1>2, <1>3, <2>1
<1>4. CASE m # 0
  <2>1. m - 1 \in Nat /\ m - 1 < m
    BY <1>2, <1>4
  <2>2. PICK f : Joins(f, seqs, m - 1)
    BY <1>1, <2>1
  <2>3. \A i \in 1 .. m - 1 : f[i] = IF i = 1 THEN seqs[i] ELSE f[i - 1] \o seqs[i]
    BY <2>2 DEF Joins
  <2>4. PICK last : last = IF m = 1 THEN seqs[m] ELSE f[m - 1] \o seqs[m]
    OBVIOUS
  <2>5. PICK g : g = [i \in 1 .. m |-> IF i = m THEN last ELSE f[i]]
    OBVIOUS
  <2>6. \A i \in 1 .. m - 1 : g[i] = f[i]
    BY <1>2, <2>5
  <2>7. ASSUME NEW i \in 1 .. m
        PROVE  g[i] = IF i = 1 THEN seqs[i] ELSE g[i - 1] \o seqs[i]
    <3>1. CASE i = m
      <4>1. g[i] = last /\ (i # 1 => m - 1 \in 1 .. m - 1)
        BY <1>2, <1>4, <2>5, <3>1
      <4>2. i # 1 => g[i - 1] = f[m - 1]
        BY <2>6, <3>1, <4>1
      <4> QED
        BY <2>4, <3>1, <4>1, <4>2
    <3>2. CASE i # m
      <4>1. i \in 1 .. m - 1 /\ (i # 1 => i - 1 \in 1 .. m - 1)
        BY <1>2, <3>2
      <4> QED
        BY <2>3, <2>6, <4>1
    <3> QED
      BY <3>1, <3>2
  <2>8. g = [i \in 1 .. m |-> IF i = 1 THEN seqs[i] ELSE g[i - 1] \o seqs[i]]
    BY <2>5, <2>7
  <2> QED
    BY <1>2, <2>8 DEF Joins
<1> QED
  BY <1>3, <1>4

Slots(steps) == {steps[j].slot : j \in DOMAIN steps}

LEMMA Puts ==
  ASSUME NEW slot \in Nat, NEW x \in Cell \cup Literal
  PROVE  /\ PutIn(slot, x) \in Step /\ ~PutIn(slot, x).drops
         /\ PutIn(slot, x).slot = slot /\ PutIn(slot, x).item = x /\ x # Nil
BY Distinct DEF PutIn, Step

LEMMA DropsFrom ==
  ASSUME NEW slot \in Nat
  PROVE  /\ DropFrom(slot) \in Step /\ DropFrom(slot).drops
         /\ DropFrom(slot).slot = slot /\ DropFrom(slot).item = Nil
BY DEF DropFrom, Step

LEMMA Pair ==
  ASSUME NEW S, NEW a \in S, NEW b \in S, NEW d, d = <<a, b>>
  PROVE  d \in Seq(S) /\ Len(d) = 2 /\ d[1] = a /\ d[2] = b
OBVIOUS

LEMMA Concatenated ==
  ASSUME NEW S, NEW s \in Seq(S), NEW d \in Seq(S), NEW r, r = s \o d
  PROVE  /\ r \in Seq(S) /\ Len(s) \in Nat /\ Len(d) \in Nat /\ Len(r) = Len(s) + Len(d)
         /\ DOMAIN r = 1 .. Len(s) + Len(d) /\ DOMAIN s = 1 .. Len(s) /\ DOMAIN d = 1 .. Len(d)
         /\ \A j \in 1 .. Len(s) : r[j] = s[j]
         /\ \A j \in 1 .. Len(d) : r[Len(s) + j] = d[j]
<1>1. Len(s) \in Nat /\ Len(d) \in Nat /\ DOMAIN s = 1 .. Len(s) /\ DOMAIN d = 1 .. Len(d)
  BY LenProperties
<1>2. /\ s \o d \in Seq(S) /\ Len(s \o d) = Len(s) + Len(d)
      /\ \A k \in 1 .. Len(s) + Len(d) :
           (s \o d)[k] = IF k <= Len(s) THEN s[k] ELSE d[k - Len(s)]
  BY ConcatProperties
<1>3. r \in Seq(S) /\ Len(r) = Len(s) + Len(d) /\ DOMAIN r = 1 .. Len(s) + Len(d)
  BY <1>2, LenProperties
<1>4. \A k \in 1 .. Len(s) + Len(d) : r[k] = IF k <= Len(s) THEN s[k] ELSE d[k - Len(s)]
  BY <1>2
<1>5. \A j \in 1 .. Len(s) : r[j] = s[j]
  BY <1>1, <1>4
<1>6. ASSUME NEW j \in 1 .. Len(d) PROVE r[Len(s) + j] = d[j]
  <2>1. /\ Len(s) + j \in 1 .. Len(s) + Len(d) /\ ~(Len(s) + j <= Len(s))
        /\ Len(s) + j - Len(s) = j
    BY <1>1
  <2> QED
    BY <1>4, <2>1
<1> QED
  BY <1>1, <1>3, <1>5, <1>6

PutsBehind(s, c, x, y, r) == r = s \o <<PutIn(2 * c + 1, x), PutIn(2 * c + 2, y)>>
PutsAgain(s, p, x, y, r) ==
  r = s \o (<<DropFrom(2 * p - 1), DropFrom(2 * p)>> \o <<PutIn(2 * p - 1, x), PutIn(2 * p, y)>>)

\* A pair of values for slots that nothing has been put into yet.
LEMMA PutBehind ==
  ASSUME NEW s, StepsOK(s), NEW c \in Nat, Slots(s) = 1 .. 2 * c,
         NEW x \in Cell \cup Literal, NEW y \in Cell \cup Literal, NEW r,
         PutsBehind(s, c, x, y, r)
  PROVE  StepsOK(r) /\ Slots(r) = 1 .. 2 * c + 2
<1>1. PICK a \in Nat, b \in Nat : a = 2 * c + 1 /\ b = 2 * c + 2
  OBVIOUS
<1>2. PICK k \in Step, v \in Step : k = PutIn(a, x) /\ v = PutIn(b, y)
  BY Puts
<1>3. /\ ~k.drops /\ k.slot = a /\ k.item # Nil /\ ~v.drops /\ v.slot = b /\ v.item # Nil
      /\ a # b
  BY <1>1, <1>2, Puts
<1> PICK d : d = <<k, v>>
  OBVIOUS
<1>4. d \in Seq(Step) /\ Len(d) = 2 /\ d[1] = k /\ d[2] = v
  BY <1>2, Pair
<1>5. s \in Seq(Step) /\ r = s \o d
  BY <1>1, <1>2, <1>4 DEF StepsOK, PutsBehind
<1>6. PICK n \in Nat, n1 \in Nat, n2 \in Nat : n = Len(s) /\ n1 = n + 1 /\ n2 = n + 2
  BY <1>5, LenProperties
<1>7. /\ r \in Seq(Step) /\ DOMAIN r = 1 .. n2 /\ DOMAIN s = 1 .. n
      /\ \A j \in 1 .. n : r[j] = s[j]
      /\ r[n1] = k /\ r[n2] = v
  BY <1>4, <1>5, <1>6, Concatenated
<1>8. /\ \A j \in 1 .. n2 : j \in 1 .. n \/ j = n1 \/ j = n2
      /\ n1 \in 1 .. n2 /\ n2 \in 1 .. n2 /\ \A j \in 1 .. n : j \in 1 .. n2
      /\ n1 \notin 1 .. n /\ n2 \notin 1 .. n /\ n1 < n2
  BY <1>6
<1>9. \A j \in 1 .. n : s[j].slot \in 1 .. 2 * c
  BY <1>7 DEF Slots
<1>10. Slots(r) = 1 .. 2 * c + 2
  <2>1. ASSUME NEW z \in Slots(r) PROVE z \in 1 .. 2 * c + 2
    <3>1. PICK j \in 1 .. n2 : z = r[j].slot
      BY <1>7 DEF Slots
    <3>2. CASE j \in 1 .. n
      <4>1. z \in 1 .. 2 * c
        BY <1>7, <1>9, <3>1, <3>2
      <4> QED
        BY <4>1
    <3>3. CASE j \notin 1 .. n
      <4>1. z = a \/ z = b
        BY <1>3, <1>7, <1>8, <3>1, <3>3
      <4> QED
        BY <1>1, <4>1
    <3> QED
      BY <3>2, <3>3
  <2>2. ASSUME NEW z \in 1 .. 2 * c + 2 PROVE z \in Slots(r)
    <3>1. CASE z \in 1 .. 2 * c
      <4>1. PICK j \in 1 .. n : z = s[j].slot
        BY <1>7, <3>1 DEF Slots
      <4>2. j \in DOMAIN r /\ r[j].slot = z
        BY <1>7, <1>8, <4>1
      <4> QED
        BY <4>2 DEF Slots
    <3>2. CASE z = a
      <4>1. n1 \in DOMAIN r /\ r[n1].slot = z
        BY <1>3, <1>7, <1>8, <3>2
      <4> QED
        BY <4>1 DEF Slots
    <3>3. CASE z = b
      <4>1. n2 \in DOMAIN r /\ r[n2].slot = z
        BY <1>3, <1>7, <1>8, <3>3
      <4> QED
        BY <4>1 DEF Slots
    <3> QED
      BY <1>1, <3>1, <3>2, <3>3
  <2> QED
    BY <2>1, <2>2
<1>11. ASSUME NEW i \in DOMAIN r, NEW j \in DOMAIN r, i < j, ~r[i].drops, ~r[j].drops,
              r[i].slot = r[j].slot
       PROVE  DropBetween(r, i + 1, j, r[j].slot)
  <2>1. j \in 1 .. n
    <3> SUFFICES ASSUME j \notin 1 .. n PROVE FALSE
      OBVIOUS
    <3>1. j = n1 \/ j = n2
      BY <1>7, <1>8
    <3>2. CASE i \in 1 .. n
      <4>1. r[i].slot \in 1 .. 2 * c
        BY <1>7, <1>9, <3>2
      <4>2. r[j].slot = a \/ r[j].slot = b
        BY <1>3, <1>7, <3>1
      <4>3. a \notin 1 .. 2 * c /\ b \notin 1 .. 2 * c
        BY <1>1
      <4> QED
        BY <1>11, <4>1, <4>2, <4>3
    <3>3. CASE i \notin 1 .. n
      <4>1. i = n1 /\ j = n2
        <5>1. i = n1 \/ i = n2
          BY <1>7, <1>8, <3>3
        <5> QED
          BY <1>8, <1>11, <3>1, <5>1
      <4> QED
        BY <1>3, <1>7, <1>11, <4>1
    <3> QED
      BY <3>2, <3>3
  <2>2. i \in 1 .. n
    BY <1>7, <1>11, <2>1
  <2>3. PICK l \in i + 1 .. j - 1 : s[l].drops /\ s[l].slot = s[j].slot
    BY <1>7, <1>11, <2>1, <2>2 DEF StepsOK, InTurn, DropBetween
  <2>4. l \in 1 .. n
    BY <2>1, <2>2
  <2>5. r[l].drops /\ r[l].slot = r[j].slot
    BY <1>7, <2>1, <2>3, <2>4
  <2> QED
    BY <2>5 DEF DropBetween
<1>12. ASSUME NEW j \in DOMAIN r, ~r[j].drops PROVE r[j].item # Nil
  <2>1. CASE j \in 1 .. n
    BY <1>7, <1>12, <2>1 DEF StepsOK
  <2> QED
    BY <1>3, <1>7, <1>8, <2>1
<1> QED
  BY <1>7, <1>10, <1>11, <1>12 DEF StepsOK, InTurn

\* A pair of values for slots whose values are dropped before.
LEMMA PutAgain ==
  ASSUME NEW s, StepsOK(s), NEW c \in Nat, Slots(s) = 1 .. 2 * c, NEW p \in 1 .. c,
         NEW x \in Cell \cup Literal, NEW y \in Cell \cup Literal, NEW r,
         PutsAgain(s, p, x, y, r)
  PROVE  StepsOK(r) /\ Slots(r) = 1 .. 2 * c
<1>1. PICK a \in Nat, b \in Nat : a = 2 * p - 1 /\ b = 2 * p
  OBVIOUS
<1>2. PICK k \in Step, v \in Step : k = PutIn(a, x) /\ v = PutIn(b, y)
  BY Puts
<1>3. PICK dk \in Step, dv \in Step : dk = DropFrom(a) /\ dv = DropFrom(b)
  BY DropsFrom
<1>4. /\ ~k.drops /\ k.slot = a /\ k.item # Nil /\ ~v.drops /\ v.slot = b /\ v.item # Nil
      /\ a # b /\ a \in 1 .. 2 * c /\ b \in 1 .. 2 * c
      /\ dk.drops /\ dk.slot = a /\ dv.drops /\ dv.slot = b
  BY <1>1, <1>2, <1>3, Puts, DropsFrom
<1> PICK put : put = <<k, v>>
  OBVIOUS
<1>5. put \in Seq(Step) /\ Len(put) = 2 /\ put[1] = k /\ put[2] = v
  BY <1>2, Pair
<1> PICK gone : gone = <<dk, dv>>
  OBVIOUS
<1>6. gone \in Seq(Step) /\ Len(gone) = 2 /\ gone[1] = dk /\ gone[2] = dv
  BY <1>3, Pair
<1>7. PICK d : d = gone \o put
  OBVIOUS
<1>8. d \in Seq(Step) /\ Len(d) = 4 /\ d[1] = dk /\ d[2] = dv /\ d[3] = k /\ d[4] = v
  <2>1. /\ d \in Seq(Step) /\ Len(d) = 2 + 2
        /\ \A j \in 1 .. 2 : d[j] = gone[j]
        /\ \A j \in 1 .. 2 : d[2 + j] = put[j]
    BY <1>5, <1>6, <1>7, Concatenated
  <2>2. 1 \in 1 .. 2 /\ 2 \in 1 .. 2 /\ 2 + 1 = 3 /\ 2 + 2 = 4
    OBVIOUS
  <2>3. d[1] = gone[1] /\ d[2] = gone[2] /\ d[2 + 1] = put[1] /\ d[2 + 2] = put[2]
    BY <2>1, <2>2
  <2> QED
    BY <1>5, <1>6, <2>1, <2>2, <2>3
<1>9. s \in Seq(Step) /\ r = s \o d
  BY <1>1, <1>2, <1>3, <1>5, <1>6, <1>7 DEF StepsOK, PutsAgain
<1>10. PICK n \in Nat, n1 \in Nat, n2 \in Nat, n3 \in Nat, n4 \in Nat :
         n = Len(s) /\ n1 = n + 1 /\ n2 = n + 2 /\ n3 = n + 3 /\ n4 = n + 4
  BY <1>9, LenProperties
<1>11. /\ r \in Seq(Step) /\ DOMAIN r = 1 .. n4 /\ DOMAIN s = 1 .. n
       /\ \A j \in 1 .. n : r[j] = s[j]
       /\ r[n1] = dk /\ r[n2] = dv /\ r[n3] = k /\ r[n4] = v
  <2>1. /\ r \in Seq(Step) /\ DOMAIN r = 1 .. n + 4 /\ DOMAIN s = 1 .. n
        /\ \A j \in 1 .. n : r[j] = s[j]
        /\ \A j \in 1 .. 4 : r[n + j] = d[j]
    <3>1. d \in Seq(Step) /\ s \in Seq(Step) /\ r = s \o d
      BY <1>8, <1>9
    <3>2. /\ r \in Seq(Step) /\ DOMAIN r = 1 .. Len(s) + Len(d) /\ DOMAIN s = 1 .. Len(s)
          /\ \A j \in 1 .. Len(s) : r[j] = s[j]
          /\ \A j \in 1 .. Len(d) : r[Len(s) + j] = d[j]
      BY ONLY <3>1, Concatenated
    <3>3. Len(d) = 4 /\ Len(s) = n
      BY <1>8, <1>10
    <3> QED
      BY ONLY <3>2, <3>3
  <2>2. 1 \in 1 .. 4 /\ 2 \in 1 .. 4 /\ 3 \in 1 .. 4 /\ 4 \in 1 .. 4
    OBVIOUS
  <2> QED
    BY <1>8, <1>10, <2>1, <2>2
<1>12. /\ \A j \in 1 .. n4 : j \in 1 .. n \/ j = n1 \/ j = n2 \/ j = n3 \/ j = n4
       /\ \A j \in 1 .. n : j \in 1 .. n4 /\ j < n1
       /\ n3 \notin 1 .. n /\ n4 \notin 1 .. n
       /\ n1 < n2 /\ n2 < n3 /\ n3 < n4
  <2>1. ASSUME NEW j \in 1 .. n4 PROVE j \in 1 .. n \/ j = n1 \/ j = n2 \/ j = n3 \/ j = n4
    BY ONLY <1>10, n \in Nat, j \in 1 .. n4
  <2>2. \A j \in 1 .. n : j \in 1 .. n4 /\ j < n1
    BY ONLY <1>10, n \in Nat
  <2>3. /\ n3 \notin 1 .. n /\ n4 \notin 1 .. n
        /\ n1 < n2 /\ n2 < n3 /\ n3 < n4
    BY ONLY <1>10, n \in Nat
  <2> QED
    BY <2>1, <2>2, <2>3
<1>13. \A j \in 1 .. n : s[j].slot \in 1 .. 2 * c
  BY <1>11 DEF Slots
<1>14. Slots(r) = 1 .. 2 * c
  <2>1. ASSUME NEW z \in Slots(r) PROVE z \in 1 .. 2 * c
    <3>1. PICK j \in 1 .. n4 : z = r[j].slot
      BY <1>11 DEF Slots
    <3>2. CASE j \in 1 .. n
      BY <1>11, <1>13, <3>1, <3>2
    <3>3. CASE j \notin 1 .. n
      <4>1. z = a \/ z = b
        BY <1>4, <1>11, <1>12, <3>1, <3>3
      <4> QED
        BY <1>4, <4>1
    <3> QED
      BY <3>2, <3>3
  <2>2. ASSUME NEW z \in 1 .. 2 * c PROVE z \in Slots(r)
    <3>1. PICK j \in 1 .. n : z = s[j].slot
      BY <1>11 DEF Slots
    <3>2. j \in DOMAIN r /\ r[j].slot = z
      BY <1>11, <1>12, <3>1
    <3> QED
      BY <3>2 DEF Slots
  <2> QED
    BY <2>1, <2>2
<1>15. ASSUME NEW i \in DOMAIN r, NEW j \in DOMAIN r, i < j, ~r[i].drops, ~r[j].drops,
              r[i].slot = r[j].slot
       PROVE  DropBetween(r, i + 1, j, r[j].slot)
  <2>1. CASE j \in 1 .. n
    <3>1. i \in 1 .. n
      BY <1>11, <1>15, <2>1
    <3>2. PICK l \in i + 1 .. j - 1 : s[l].drops /\ s[l].slot = s[j].slot
      BY <1>11, <1>15, <2>1, <3>1 DEF StepsOK, InTurn, DropBetween
    <3>3. l \in 1 .. n
      BY ONLY <2>1, <3>1, n \in Nat, l \in i + 1 .. j - 1
    <3>4. r[l].drops /\ r[l].slot = r[j].slot
      BY <1>11, <2>1, <3>2, <3>3
    <3> QED
      BY <3>4 DEF DropBetween
  <2>2. CASE j \notin 1 .. n
    <3>1. j = n3 \/ j = n4
      BY <1>4, <1>11, <1>12, <1>15, <2>2
    <3>2. i \in 1 .. n
      <4> SUFFICES ASSUME i \notin 1 .. n PROVE FALSE
        OBVIOUS
      <4>1. i = n3 \/ i = n4
        BY <1>4, <1>11, <1>12, <1>15
      <4>2. i = n3 /\ j = n4
        BY <1>12, <1>15, <3>1, <4>1
      <4> QED
        BY <1>4, <1>11, <1>15, <4>2
    <3>3. i < n1 /\ i \in Nat
      BY ONLY <1>12, <3>2, n \in Nat
    <3>4. n1 \in i + 1 .. j - 1 /\ n2 \in i + 1 .. j - 1
      BY ONLY <1>10, <3>1, <3>3, n \in Nat
    <3>5. r[n1].drops /\ r[n2].drops /\ (r[n1].slot = r[j].slot \/ r[n2].slot = r[j].slot)
      BY <1>4, <1>11, <3>1
    <3> QED
      BY <3>4, <3>5 DEF DropBetween
  <2> QED
    BY <2>1, <2>2
<1>16. ASSUME NEW j \in DOMAIN r, ~r[j].drops PROVE r[j].item # Nil
  <2>1. CASE j \in 1 .. n
    BY <1>11, <1>16, <2>1 DEF StepsOK
  <2> QED
    BY <1>4, <1>11, <1>12, <1>16, <2>1
<1> QED
  BY <1>11, <1>14, <1>15, <1>16 DEF StepsOK, InTurn

\* The keys of the first n that are not equal to one before
Firsts(keys, n) == {l \in 1 .. n : FirstEqual(keys, l) = l}

LEMMA FirstIs ==
  ASSUME NEW keys, NEW i \in Nat \ {0}, NEW first, first = FirstEqual(keys, i)
  PROVE  /\ first \in 1 .. i /\ (first = i \/ EqualKeys(keys, i, first))
         /\ \A l \in 1 .. first - 1 : ~EqualKeys(keys, i, l)
<1> DEFINE T == {j \in Nat : j \in 1 .. i /\ (j = i \/ EqualKeys(keys, i, j))}
<1>1. i \in T
  OBVIOUS
<1>2. PICK j \in T : \A y \in T : j <= y
  BY <1>1, Least
<1>3. j \in 1 .. i /\ (j = i \/ EqualKeys(keys, i, j))
  BY <1>2
<1>4. ASSUME NEW l \in 1 .. j - 1 PROVE ~EqualKeys(keys, i, l)
  <2>1. l \in Nat /\ l \in 1 .. i /\ l < j
    BY <1>3
  <2>2. l \notin T
    BY <1>2, <2>1
  <2> QED
    BY <2>1, <2>2
<1> QED
  BY <1>3, <1>4 DEF FirstEqual

LEMMA FirstIsFirst ==
  ASSUME NEW keys, NEW i \in Nat \ {0}, NEW first, first = FirstEqual(keys, i)
  PROVE  FirstEqual(keys, first) = first
<1>1. /\ first \in 1 .. i /\ (first = i \/ EqualKeys(keys, i, first))
      /\ \A l \in 1 .. first - 1 : ~EqualKeys(keys, i, l)
  BY FirstIs
<1>2. first \in Nat \ {0}
  BY <1>1
<1>3. PICK g : g = FirstEqual(keys, first)
  OBVIOUS
<1>4. g \in 1 .. first /\ (g = first \/ EqualKeys(keys, first, g))
  BY <1>2, <1>3, FirstIs
<1>5. g # first => g \in 1 .. first - 1 /\ EqualKeys(keys, i, g)
  <2>1. g # first => g \in 1 .. first - 1
    BY <1>2, <1>4
  <2> QED
    BY <1>1, <1>4, <2>1 DEF EqualKeys
<1> QED
  BY <1>1, <1>3, <1>5

LEMMA SamePlace ==
  ASSUME NEW m \in Nat, NEW keys, DOMAIN keys = 1 .. m, NEW i \in 1 .. m, NEW j \in 1 .. m,
         keys[i] = keys[j], keys[i] \notin Literal \ Global
  PROVE  Places(keys)[i] = Places(keys)[j]
<1>1. ASSUME NEW a \in 1 .. m, NEW b \in 1 .. m, keys[a] = keys[b], a <= b,
             keys[a] \notin Literal \ Global
      PROVE  FirstEqual(keys, a) = FirstEqual(keys, b)
  <2>1. a \in Nat \ {0} /\ b \in Nat \ {0}
    OBVIOUS
  <2>2. PICK f : f = FirstEqual(keys, a)
    OBVIOUS
  <2>3. PICK g : g = FirstEqual(keys, b)
    OBVIOUS
  <2>4. /\ f \in 1 .. a /\ (f = a \/ EqualKeys(keys, a, f))
        /\ \A l \in 1 .. f - 1 : ~EqualKeys(keys, a, l)
    BY <2>1, <2>2, FirstIs
  <2>5. /\ g \in 1 .. b /\ (g = b \/ EqualKeys(keys, b, g))
        /\ \A l \in 1 .. g - 1 : ~EqualKeys(keys, b, l)
    BY <2>1, <2>3, FirstIs
  <2>6. \A l : EqualKeys(keys, a, l) <=> EqualKeys(keys, b, l)
    BY <1>1 DEF EqualKeys
  <2>7. EqualKeys(keys, b, f) /\ EqualKeys(keys, a, g)
    BY <1>1, <2>4, <2>5, <2>6 DEF EqualKeys
  <2>8. ~(f < g) /\ ~(g < f)
    <3>1. f < g => f \in 1 .. g - 1
      BY <2>4, <2>5
    <3>2. g < f => g \in 1 .. f - 1
      BY <2>4, <2>5
    <3> QED
      BY <2>4, <2>5, <2>7, <3>1, <3>2
  <2> QED
    BY <2>2, <2>3, <2>4, <2>5, <2>8
<1>2. FirstEqual(keys, i) = FirstEqual(keys, j)
  BY <1>1
<1> QED
  BY <1>2 DEF Places

LEMMA FirstsFinite ==
  ASSUME NEW keys, NEW n \in Nat
  PROVE  IsFiniteSet(Firsts(keys, n)) /\ Cardinality(Firsts(keys, n)) \in Nat
<1>1. IsFiniteSet(1 .. n) /\ Firsts(keys, n) \subseteq 1 .. n
  BY FS_Interval DEF Firsts
<1> QED
  BY <1>1, FS_Subset, FS_CardinalityType

\* A key that is not equal to one before has the next place, and another that
\* of one before.
LEMMA PlaceIs ==
  ASSUME NEW m \in Nat, NEW keys, DOMAIN keys = 1 .. m, NEW i \in 1 .. m,
         NEW c, c = Cardinality(Firsts(keys, i - 1))
  PROVE  /\ c \in Nat
         /\ FirstEqual(keys, i) = i =>
              Places(keys)[i] = c + 1 /\ Cardinality(Firsts(keys, i)) = c + 1
         /\ FirstEqual(keys, i) # i =>
              Places(keys)[i] \in 1 .. c /\ Cardinality(Firsts(keys, i)) = c
<1>1. i \in Nat \ {0} /\ i - 1 \in Nat /\ 1 .. i = 1 .. i - 1 \cup {i} /\ i \notin 1 .. i - 1
  OBVIOUS
<1>2. IsFiniteSet(Firsts(keys, i - 1)) /\ c \in Nat
  BY <1>1, FirstsFinite
<1>3. PICK first : first = FirstEqual(keys, i)
  OBVIOUS
<1>4. first \in 1 .. i /\ FirstEqual(keys, first) = first
  BY <1>1, <1>3, FirstIs, FirstIsFirst
<1>5. Places(keys)[i] = Cardinality(Firsts(keys, first))
  BY <1>3 DEF Places, Firsts
<1>6. CASE first = i
  <2>1. Firsts(keys, i) = Firsts(keys, i - 1) \cup {i} /\ i \notin Firsts(keys, i - 1)
    BY <1>1, <1>3, <1>6 DEF Firsts
  <2>2. Cardinality(Firsts(keys, i)) = c + 1
    BY <1>2, <2>1, FS_AddElement
  <2> QED
    BY <1>2, <1>3, <1>5, <1>6, <2>2
<1>7. CASE first # i
  <2>1. Firsts(keys, i) = Firsts(keys, i - 1)
    BY <1>1, <1>3, <1>7 DEF Firsts
  <2>2. first \in Nat /\ first \in 1 .. i - 1 /\ 1 .. first \subseteq 1 .. i - 1
    BY <1>1, <1>4, <1>7
  <2>3. Firsts(keys, first) \subseteq Firsts(keys, i - 1) /\ first \in Firsts(keys, first)
    BY <1>4, <2>2 DEF Firsts
  <2>4. Cardinality(Firsts(keys, first)) <= c
    BY <1>2, <2>3, FS_Subset
  <2>5. Cardinality(Firsts(keys, first)) \in Nat /\ Cardinality(Firsts(keys, first)) # 0
    BY <2>2, <2>3, FirstsFinite, FS_EmptySet
  <2> QED
    BY <1>2, <1>3, <1>5, <1>7, <2>1, <2>4, <2>5
<1> QED
  BY <1>2, <1>6, <1>7

\* What MapSteps does with the i-th key and value
Chunk(keys, values, i) ==
  LET p == Places(keys)[i]
      put == <<PutIn(2 * p - 1, keys[i]), PutIn(2 * p, values[i])>> IN
  IF FirstEqual(keys, i) = i THEN put ELSE <<DropFrom(2 * p - 1), DropFrom(2 * p)>> \o put
\* A step that puts the i-th key or value into its place
Given(keys, values, i, step) ==
  \/ step.slot = 2 * Places(keys)[i] - 1 /\ step.item = keys[i]
  \/ step.slot = 2 * Places(keys)[i] /\ step.item = values[i]
Clears(step) == step.drops /\ step.item = Nil
Came(keys, values, n, s) ==
  \A j \in DOMAIN s : Clears(s[j]) \/ \E i \in 1 .. n : Given(keys, values, i, s[j])
\* What is known of the steps for the first n keys and values
MapPrefix(keys, values, n, s) ==
  /\ StepsOK(s) /\ Slots(s) = 1 .. 2 * Cardinality(Firsts(keys, n))
  /\ Came(keys, values, n, s)

LEMMA CameAfter ==
  ASSUME NEW keys, NEW values, NEW n \in Nat \ {0}, NEW s \in Seq(Step), NEW d \in Seq(Step),
         Came(keys, values, n - 1, s),
         \A j \in DOMAIN d : Clears(d[j]) \/ Given(keys, values, n, d[j]),
         NEW r, r = s \o d
  PROVE  Came(keys, values, n, r)
<1>1. PICK a \in Nat, b \in Nat : a = Len(s) /\ b = Len(d)
  BY LenProperties
<1>2. /\ DOMAIN r = 1 .. a + b /\ DOMAIN s = 1 .. a /\ DOMAIN d = 1 .. b
      /\ \A j \in 1 .. a : r[j] = s[j]
      /\ \A j \in 1 .. b : r[a + j] = d[j]
  BY <1>1, Concatenated
<1>3. n \in 1 .. n /\ \A i \in 1 .. n - 1 : i \in 1 .. n
  OBVIOUS
<1>4. ASSUME NEW j \in 1 .. a + b
      PROVE  Clears(r[j]) \/ \E i \in 1 .. n : Given(keys, values, i, r[j])
  <2>1. CASE j \in 1 .. a
    <3>1. Clears(s[j]) \/ \E i \in 1 .. n - 1 : Given(keys, values, i, s[j])
      BY <1>2, <2>1 DEF Came
    <3> QED
      BY <1>2, <1>3, <2>1, <3>1
  <2>2. CASE j \notin 1 .. a
    <3>1. PICK l \in 1 .. b : j = a + l
      <4>1. j - a \in 1 .. b /\ j = a + (j - a)
        BY ONLY <1>1, <2>2, a \in Nat, b \in Nat, j \in 1 .. a + b
      <4> QED
        BY <4>1
    <3>2. r[j] = d[l]
      BY <1>2, <3>1
    <3> QED
      BY <1>2, <1>3, <3>1, <3>2
  <2> QED
    BY <2>1, <2>2
<1> QED
  BY <1>2, <1>4 DEF Came

LEMMA Chunked ==
  ASSUME NEW m \in Nat, NEW keys \in [1 .. m -> Cell \cup Literal],
         NEW values \in [1 .. m -> Cell \cup Literal], NEW n \in 1 .. m,
         NEW s, MapPrefix(keys, values, n - 1, s), NEW r, r = s \o Chunk(keys, values, n)
  PROVE  MapPrefix(keys, values, n, r)
<1>1. PICK c : c = Cardinality(Firsts(keys, n - 1))
  OBVIOUS
<1>2. PICK p : p = Places(keys)[n]
  OBVIOUS
<1>3. /\ c \in Nat
      /\ FirstEqual(keys, n) = n => p = c + 1 /\ Cardinality(Firsts(keys, n)) = c + 1
      /\ FirstEqual(keys, n) # n => p \in 1 .. c /\ Cardinality(Firsts(keys, n)) = c
  BY <1>1, <1>2, PlaceIs
<1>4. PICK x \in Cell \cup Literal, y \in Cell \cup Literal : x = keys[n] /\ y = values[n]
  OBVIOUS
<1>5. p \in Nat \ {0} /\ n \in Nat \ {0}
  BY <1>3
<1>6. PICK a \in Nat, b \in Nat : a = 2 * p - 1 /\ b = 2 * p
  BY <1>5
<1>7. PICK k \in Step, v \in Step : k = PutIn(a, x) /\ v = PutIn(b, y)
  BY Puts
<1> PICK put : put = <<k, v>>
  OBVIOUS
<1>8. put \in Seq(Step) /\ Len(put) = 2 /\ put[1] = k /\ put[2] = v
  BY <1>7, Pair
<1>9. k.slot = a /\ k.item = x /\ v.slot = b /\ v.item = y
  BY <1>7, Puts
<1>10. Given(keys, values, n, k) /\ Given(keys, values, n, v)
  BY <1>2, <1>4, <1>6, <1>9 DEF Given
<1>11. StepsOK(s) /\ Slots(s) = 1 .. 2 * c /\ Came(keys, values, n - 1, s) /\ s \in Seq(Step)
  BY <1>1 DEF MapPrefix, StepsOK
<1>12. CASE FirstEqual(keys, n) = n
  <2>1. a = 2 * c + 1 /\ b = 2 * c + 2
    BY <1>3, <1>6, <1>12
  <2>2. r = s \o put
    BY <1>2, <1>4, <1>6, <1>7, <1>12 DEF Chunk
  <2>3. PutsBehind(s, c, x, y, r)
    BY <1>7, <2>1, <2>2 DEF PutsBehind
  <2>4. StepsOK(r) /\ Slots(r) = 1 .. 2 * c + 2
    BY <1>3, <1>11, <2>3, PutBehind
  <2>5. \A j \in DOMAIN put : put[j] = k \/ put[j] = v
    BY <1>8
  <2>6. Came(keys, values, n, r)
    BY <1>5, <1>8, <1>10, <1>11, <2>2, <2>5, CameAfter
  <2>7. 2 * c + 2 = 2 * (c + 1)
    BY <1>3
  <2> QED
    BY <1>3, <1>12, <2>4, <2>6, <2>7 DEF MapPrefix
<1>13. CASE FirstEqual(keys, n) # n
  <2>1. p \in 1 .. c
    BY <1>3, <1>13
  <2>2. PICK dk \in Step, dv \in Step : dk = DropFrom(a) /\ dv = DropFrom(b)
    BY DropsFrom
  <2>3. Clears(dk) /\ Clears(dv)
    BY <2>2, DropsFrom DEF Clears
  <2> PICK gone : gone = <<dk, dv>>
    OBVIOUS
  <2>4. gone \in Seq(Step) /\ Len(gone) = 2 /\ gone[1] = dk /\ gone[2] = dv
    BY <2>2, Pair
  <2>5. PICK d : d = gone \o put
    OBVIOUS
  <2>6. r = s \o d
    BY <1>2, <1>4, <1>6, <1>7, <1>13, <2>2, <2>5 DEF Chunk
  <2>7. PutsAgain(s, p, x, y, r)
    BY <1>6, <1>7, <2>2, <2>5, <2>6 DEF PutsAgain
  <2>8. StepsOK(r) /\ Slots(r) = 1 .. 2 * c
    BY <1>3, <1>11, <2>1, <2>7, PutAgain
  <2>9. /\ d \in Seq(Step) /\ DOMAIN d = 1 .. 2 + 2
        /\ \A j \in 1 .. 2 : d[j] = gone[j]
        /\ \A j \in 1 .. 2 : d[2 + j] = put[j]
    BY <1>8, <2>4, <2>5, Concatenated
  <2>10. ASSUME NEW j \in DOMAIN d PROVE d[j] = dk \/ d[j] = dv \/ d[j] = k \/ d[j] = v
    <3>1. j = 1 \/ j = 2 \/ j = 2 + 1 \/ j = 2 + 2
      BY <2>9
    <3>2. 1 \in 1 .. 2 /\ 2 \in 1 .. 2
      OBVIOUS
    <3>3. d[1] = gone[1] /\ d[2] = gone[2] /\ d[2 + 1] = put[1] /\ d[2 + 2] = put[2]
      BY <2>9, <3>2
    <3> QED
      BY <1>8, <2>4, <3>1, <3>3
  <2>11. Came(keys, values, n, r)
    BY <1>5, <1>10, <1>11, <2>3, <2>6, <2>9, <2>10, CameAfter
  <2> QED
    BY <1>3, <1>13, <2>8, <2>11 DEF MapPrefix
<1> QED
  BY <1>12, <1>13

LEMMA ChunkTyped ==
  ASSUME NEW m \in Nat, NEW keys \in [1 .. m -> Cell \cup Literal],
         NEW values \in [1 .. m -> Cell \cup Literal], NEW n \in 1 .. m
  PROVE  Chunk(keys, values, n) \in Seq(Step)
<1>1. PICK p : p = Places(keys)[n]
  OBVIOUS
<1>2. p \in Nat \ {0}
  <2>1. PICK c : c = Cardinality(Firsts(keys, n - 1))
    OBVIOUS
  <2>2. c \in Nat /\ (p = c + 1 \/ p \in 1 .. c)
    BY <1>1, <2>1, PlaceIs
  <2> QED
    BY <2>2
<1>3. PICK a \in Nat, b \in Nat : a = 2 * p - 1 /\ b = 2 * p
  BY <1>2
<1>4. PICK put : put = <<PutIn(a, keys[n]), PutIn(b, values[n])>>
  OBVIOUS
<1>5. PICK gone : gone = <<DropFrom(a), DropFrom(b)>>
  OBVIOUS
<1>6. put \in Seq(Step) /\ gone \in Seq(Step)
  BY <1>4, <1>5, Puts, DropsFrom, Pair
<1>7. gone \o put \in Seq(Step)
  BY <1>6, ConcatProperties
<1>8. Chunk(keys, values, n) = IF FirstEqual(keys, n) = n THEN put ELSE gone \o put
  BY <1>1, <1>3, <1>4, <1>5 DEF Chunk
<1> QED
  BY <1>6, <1>7, <1>8

LEMMA MapPrefixes ==
  ASSUME NEW m \in Nat, NEW keys \in [1 .. m -> Cell \cup Literal],
         NEW values \in [1 .. m -> Cell \cup Literal], NEW seqs,
         seqs = [i \in 1 .. m |-> Chunk(keys, values, i)], NEW f, Joins(f, seqs, m), NEW n \in 1 .. m
  PROVE  MapPrefix(keys, values, n, f[n])
<1> DEFINE T == {i \in Nat : i \in 1 .. m /\ ~MapPrefix(keys, values, i, f[i])}
<1> SUFFICES ASSUME T # {} PROVE FALSE
  BY DEF MapPrefix
<1>1. PICK k \in T : \A y \in T : k <= y
  BY Least
<1>2. k \in 1 .. m /\ ~MapPrefix(keys, values, k, f[k])
  BY <1>1
<1>3. f[k] = IF k = 1 THEN seqs[k] ELSE f[k - 1] \o seqs[k]
  BY <1>2 DEF Joins
<1>4. PICK d : d = Chunk(keys, values, k)
  OBVIOUS
<1>5. seqs[k] = d
  BY <1>2, <1>4
<1>6. CASE k = 1
  <2>1. MapPrefix(keys, values, 0, <<>>)
    <3>1. Firsts(keys, 0) = {} /\ Slots(<<>>) = {}
      BY DEF Firsts, Slots
    <3>2. Cardinality(Firsts(keys, 0)) = 0
      BY <3>1, FS_EmptySet
    <3>3. Slots(<<>>) = 1 .. 2 * 0
      BY <3>1
    <3>4. StepsOK(<<>>) /\ Came(keys, values, 0, <<>>)
      BY DEF StepsOK, InTurn, Came
    <3> QED
      BY <3>2, <3>3, <3>4 DEF MapPrefix
  <2>2. PICK r : r = <<>> \o d
    OBVIOUS
  <2>3. MapPrefix(keys, values, 1, r)
    <3>1. 1 - 1 = 0 /\ 1 \in 1 .. m
      BY <1>2, <1>6
    <3>2. MapPrefix(keys, values, 1 - 1, <<>>) /\ r = <<>> \o Chunk(keys, values, 1)
      BY <1>4, <1>6, <2>1, <2>2, <3>1
    <3> QED
      BY <3>1, <3>2, Chunked
  <2>4. d = r
    <3>1. d \in Seq(Step)
      BY <1>2, <1>4, ChunkTyped
    <3> QED
      BY <2>2, <3>1, ConcatEmptySeq
  <2> QED
    BY <1>2, <1>3, <1>5, <1>6, <2>3, <2>4
<1>7. CASE k # 1
  <2>1. k - 1 \in 1 .. m /\ ~(k <= k - 1) /\ k - 1 \in Nat
    BY <1>2, <1>7
  <2>2. MapPrefix(keys, values, k - 1, f[k - 1])
    BY <1>1, <2>1
  <2>3. f[k] = f[k - 1] \o Chunk(keys, values, k)
    BY <1>3, <1>4, <1>5, <1>7
  <2>4. MapPrefix(keys, values, k, f[k])
    BY <1>2, <2>2, <2>3, Chunked
  <2> QED
    BY <1>2, <2>4
<1> QED
  BY <1>6, <1>7

LEMMA MapStepsAre ==
  ASSUME NEW m \in Nat, NEW keys \in [1 .. m -> Cell \cup Literal],
         NEW values \in [1 .. m -> Cell \cup Literal]
  PROVE  MapPrefix(keys, values, m, MapSteps(keys, values))
<1>1. PICK seqs : seqs = [i \in 1 .. m |-> Chunk(keys, values, i)]
  OBVIOUS
<1>2. DOMAIN keys = 1 .. m
  OBVIOUS
<1>3. MapSteps(keys, values) = FlattenSeq(seqs)
  BY <1>1, <1>2 DEF MapSteps, Chunk
<1>4. Len(seqs) = m
  BY <1>1
<1>5. CASE m = 0
  <2>1. FlattenSeq(seqs) = seqs
    BY <1>4, <1>5 DEF FlattenSeq
  <2>2. seqs = <<>>
    BY <1>1, <1>5
  <2>3. Firsts(keys, 0) = {} /\ Slots(<<>>) = {}
    BY DEF Firsts, Slots
  <2>4. Cardinality(Firsts(keys, 0)) = 0
    BY <2>3, FS_EmptySet
  <2>5. Slots(<<>>) = 1 .. 2 * 0
    BY <2>3
  <2>6. StepsOK(<<>>) /\ Came(keys, values, 0, <<>>)
    BY DEF StepsOK, InTurn, Came
  <2> QED
    BY <1>3, <1>5, <2>1, <2>2, <2>4, <2>5, <2>6 DEF MapPrefix
<1>6. CASE m # 0
  <2> DEFINE flatten == CHOOSE f : Joins(f, seqs, m)
  <2>1. FlattenSeq(seqs) = flatten[m]
    BY <1>4, <1>6 DEF FlattenSeq, Joins
  <2>2. Joins(flatten, seqs, m)
    BY JoinsExists
  <2>3. m \in 1 .. m
    BY <1>6
  <2> HIDE DEF flatten
  <2> QED
    BY <1>1, <1>3, <2>1, <2>2, <2>3, MapPrefixes
<1> QED
  BY <1>5, <1>6

LEMMA NoSteps ==
  ASSUME NEW s, s = <<>>
  PROVE  StepsOK(s) /\ Slots(s) = {} /\ DOMAIN s = {}
BY DEF StepsOK, InTurn, Slots

LEMMA ArrayStepsAre ==
  ASSUME NEW m \in Nat, NEW xs \in [1 .. m -> Cell \cup Literal], NEW s, s = ArraySteps(xs)
  PROVE  /\ StepsOK(s) /\ Slots(s) = 1 .. m /\ DOMAIN s = 1 .. m
         /\ \A j \in 1 .. m : s[j].item = xs[j]
<1>1. s = [i \in 1 .. m |-> PutIn(i, xs[i])]
  BY DEF ArraySteps
<1>2. ASSUME NEW i \in 1 .. m
      PROVE  /\ s[i] \in Step /\ ~s[i].drops /\ s[i].slot = i /\ s[i].item = xs[i]
             /\ s[i].item # Nil
  <2>1. PICK x \in Cell \cup Literal : x = xs[i]
    OBVIOUS
  <2>2. s[i] = PutIn(i, x) /\ i \in Nat
    BY <1>1, <2>1
  <2> QED
    BY <2>1, <2>2, Puts
<1>3. DOMAIN s = 1 .. m /\ s \in Seq(Step)
  <2>1. s \in [1 .. m -> Step]
    BY <1>1, <1>2
  <2> QED
    BY <2>1, SeqDef
<1>4. Slots(s) = 1 .. m
  BY <1>2, <1>3 DEF Slots
<1>5. InTurn(s)
  BY <1>2, <1>3 DEF InTurn
<1> QED
  BY <1>2, <1>3, <1>4, <1>5 DEF StepsOK

LEMMA OneStep ==
  ASSUME NEW slot \in Nat, NEW x \in Cell \cup Literal, NEW s, s = <<PutIn(slot, x)>>
  PROVE  /\ StepsOK(s) /\ Slots(s) = {slot} /\ DOMAIN s = 1 .. 1
         /\ s[1].item = x
<1>1. PICK put \in Step : put = PutIn(slot, x) /\ ~put.drops /\ put.slot = slot /\ put.item = x
  BY Puts
<1>2. s = <<put>> /\ s \in Seq(Step) /\ DOMAIN s = 1 .. 1 /\ s[1] = put
  BY <1>1
<1>3. x # Nil
  BY Puts
<1>4. \A j \in DOMAIN s : j = 1
  BY <1>2
<1>5. InTurn(s)
  BY <1>4 DEF InTurn
<1>6. Slots(s) = {slot}
  BY <1>1, <1>2, <1>4 DEF Slots
<1> QED
  BY <1>1, <1>2, <1>3, <1>4, <1>5, <1>6 DEF StepsOK
-----------------------------------------------------------------------------
(* What is done to a collection starts. *)

\* The fields of a collection may be others, but none of them is on the heap
\* that was not.
Restocked(k) ==
  /\ cells' \in [Cell \cup Holder -> Content]
  /\ \A y \in Cell \cup Holder : y # k => cells'[y] = cells[y]
  /\ cells'[k].from \in Kind
  /\ \A x \in Cell : \A i :
       (i \in DOMAIN cells'[k].fields /\ cells'[k].fields[i] = x)
         <=> (i \in DOMAIN cells[k].fields /\ cells[k].fields[i] = x)
\* The steps of an initialiser have the slots they put items into, and the
\* program keeps the items.
Fits(k, steps) ==
  /\ StepsOK(steps) /\ RoomFor(steps, 1, cells'[k].fields)
  /\ \A j \in DOMAIN steps : steps[j].item \in Cell => held[steps[j].item] > 0

\* The initialisers, addObject: and the last release begin.
LEMMA HolderBegins ==
  ASSUME BInv, NEW t \in Thread, NEW k \in Holder, work[t] = <<>>, NotInUse(k),
         NEW call \in RuntimeCall, call.op \in {"fill", "empty"}, call.ref = k, call.at = 1,
         work' = [work EXCEPT ![t] = <<call>>], UNCHANGED <<forward, open, held, override>>,
         Restocked(k), call.op = "fill" => Fits(k, call.into)
  PROVE  BInv'
<1>0. IInv /\ HoldersAlone /\ LentHeld /\ TypeOK
  BY DEF BInv, IInv
<1>1. PICK s : s = <<call>>
  OBVIOUS
<1>2. s \in Seq(RuntimeCall) /\ Len(s) = 1 /\ s[1] = call
  BY <1>1
<1>26. PICK n \in Nat, m \in Nat : n = 0 /\ m = 1
  OBVIOUS
<1>3. /\ OnlyTop(t, n) /\ DOMAIN work[t] = 1 .. n /\ DOMAIN work'[t] = 1 .. m
      /\ work'[t][1] = call /\ work'[t][m] = call /\ work' \in [Thread -> Seq(RuntimeCall)]
      /\ m >= n - 1 /\ ~(n > 0) /\ 1 .. n - 1 \subseteq DOMAIN work[t] /\ 1 \in DOMAIN work'[t]
  <2>1. work' = [work EXCEPT ![t] = s]
    BY <1>1
  <2>2. OnlyTop(t, 0) /\ work'[t] = s /\ DOMAIN work[t] = 1 .. 0 /\ DOMAIN work'[t] = 1 .. Len(s)
    BY <1>0, <1>2, <2>1, Begun
  <2>3. work' \in [Thread -> Seq(RuntimeCall)]
    BY <1>0, <1>26, <2>1, <2>2, WorkTyped
  <2> QED
    BY <1>2, <1>26, <2>2, <2>3
<1>4. call.op \in {"fill", "empty"} /\ call.ref = k /\ call.at = 1 /\ k \notin Cell
  BY Distinct
<1>5. /\ forward' = forward /\ open' = open /\ held' = held /\ override' = override
      /\ \A c \in Cell : cells'[c] = cells[c]
      /\ \A h \in Holder : h # k => cells'[h] = cells[h]
  BY <1>4 DEF Restocked
<1>6. TypeOK'
  BY <1>0, <1>3, <1>5 DEF TypeOK, Restocked
<1>7. /\ \A j \in n .. m : j > 0 => j = m
      /\ \A j \in 1 .. m : j = m
  BY <1>26
<1>8. /\ \A d : d # k => DisposesOf(d)' = DisposesOf(d)
      /\ \A d, i : d # k => (Dropped(d, i)' <=> Dropped(d, i))
  <2>1. EndsOnly(t, n, m, k)
    BY <1>3, <1>4, <1>7 DEF EndsOnly
  <2> QED
    BY ONLY <1>0, <1>3, <2>1, t \in Thread, n \in Nat, m \in Nat, OtherDisposes
<1>9. \A i : ~Dropped(k, i)
  BY DEF Dropped, NotInUse
<1>10. ASSUME NEW i \in DOMAIN cells'[k].fields PROVE ~Dropped(k, i)'
  <2>1. i \in Int /\ i >= 1
    <3>1. cells'[k].fields \in Seq(Item)
      BY <1>6 DEF TypeOK, Content
    <3> QED
      BY <3>1, LenProperties
  <2>2. ASSUME NEW u \in Thread, NEW j \in DOMAIN work'[u], Drops(work'[u][j], k, i)
        PROVE  FALSE
    <3>1. CASE u = t
      BY <1>3, <1>4, <2>1, <2>2, <3>1 DEF Drops
    <3>2. CASE u # t
      <4>1. work'[u] = work[u]
        BY <1>3, <3>2 DEF OnlyTop
      <4> QED
        BY <1>9, <2>2, <4>1, DroppedIs
    <3> QED
      BY <3>1, <3>2
  <2> QED
    BY <2>2, DroppedIsNext
<1>11. \A c \in Cell : CallsOn(c)' = CallsOn(c)
  <2>1. \A c \in Cell : ~Counts(call, c)
    BY <1>4 DEF Counts
  <2>2. ASSUME NEW c \in Cell PROVE CallsOn(c)' = CallsOn(c)
    <3>1. \A j \in 1 .. m : j >= n => ~Counts(work'[t][j], c)
      BY <1>3, <1>7, <2>1
    <3> QED
      BY <1>0, <1>3, <3>1, CountNone
  <2> QED
    BY <2>2
<1>12. \A c \in Cell : FieldsOn(c)' = FieldsOn(c)
  <2> SUFFICES ASSUME NEW c \in Cell, NEW d \in Cell \cup Holder, NEW i
               PROVE  FieldOn(d, i, c)' <=> FieldOn(d, i, c)
    BY FieldsSame
  <2>1. CASE d # k
    <3>1. cells'[d] = cells[d]
      BY <2>1 DEF Restocked
    <3> QED
      BY <1>8, <2>1, <3>1 DEF FieldOn
  <2>2. CASE d = k
    BY <1>9, <1>10, <2>2 DEF FieldOn, Restocked
  <2> QED
    BY <2>1, <2>2
<1>13. \A c \in Cell : Keeps(c)
  BY <1>5 DEF Keeps
<1>14. FieldsOK' /\ HoldersOK'
  <2>1. FieldsOK'
    BY <1>0, <1>4, <1>6, <1>8, <1>13, FieldsOKKept
  <2>2. HoldersOK'
    BY <1>0, <1>5, CollectionsAssumption DEF IInv, HoldersOK, Restocked
  <2> QED
    BY <2>1, <2>2
<1>15. Spares(t, n)
  <2> SUFFICES ASSUME NEW u \in Thread, NEW j \in DOMAIN work[u], Relies(work[u][j])
               PROVE  Keeps(work[u][j].ref)
    BY DEF Spares
  <2>1. work[u][j].ref # k
    <3>1. <<u, j>> \in Calls /\ CallAt(<<u, j>>) = work[u][j]
      BY CallsAre DEF CallAt
    <3> QED
      BY <3>1 DEF NotInUse
  <2> QED
    BY <1>5, <2>1 DEF Relies, Keeps
<1>16. CallOK(t, 1)'
  <2>1. Used(k)'
    BY CollectionsAssumption DEF Used, Restocked
  <2>2. CASE call.op = "fill"
    <3>1. StepsOK(call.into) /\ RoomFor(call.into, 1, cells'[k].fields)
      BY <2>2 DEF Fits
    <3>2. 1 \in 1 .. Len(call.into) + 1
      BY <3>1, LenProperties DEF StepsOK
    <3>3. FillOK(t, 1)'
      BY <1>3, <1>4, <2>1, <3>1, <3>2 DEF FillOK
    <3> QED
      BY <1>3, <2>2, <3>3 DEF CallOK
  <2>3. CASE call.op = "empty"
    <3>1. 1 \in 1 .. Len(cells'[k].fields) + 1
      BY <1>6, LenProperties DEF TypeOK, Content
    <3>2. EmptyOK(t, 1)'
      BY <1>3, <1>4, <2>1, <3>1 DEF EmptyOK
    <3> QED
      BY <1>3, <2>3, <3>2 DEF CallOK
  <2> QED
    BY <1>4, <2>2, <2>3
<1>17. CallsOK'
  <2>1. \A j \in n .. m : j > 0 => CallOK(t, j)'
    BY <1>7, <1>16
  <2> QED
    BY <1>0, <1>3, <1>15, <2>1, CallsGoOn
<1>18. Alone("keep")' /\ Alone("dispose")'
  <2>1. ASSUME NEW op \in {"keep", "dispose"} PROVE Alone(op)'
    <3>1. \A j \in n .. m : j > 0 /\ work'[t][j].op = op => j = n /\ GoesOn(t, n)
      BY <1>3, <1>4, <1>7
    <3> QED
      BY ONLY <1>0, <1>3, <3>1, t \in Thread, n \in Nat, m \in Nat, op \in {"keep", "dispose"},
              AloneGoesOn
  <2> QED
    BY <2>1
<1>19. CopiesUseAllocator'
  <2>1. \A u \in Thread : Asked(u)' = Asked(u)
    <3>1. (n = 1 => work[t][n].op # "restore") /\ work'[t][1].op # "restore"
      BY <1>3, <1>4
    <3> QED
      BY <1>0, <1>3, <3>1, AskedKept
  <2>2. \A j \in n .. m : j > 0 /\ work'[t][j].op = "keep" =>
          cells'[work'[t][j].ref].by = override[t]
    BY <1>3, <1>4, <1>7
  <2> QED
    BY <1>0, <1>3, <1>5, <1>15, <2>1, <2>2, AllocatorsGoOn
<1>20. ForwardOK'
  BY <1>0, <1>5, <1>13, ForwardKept
<1>21. ASSUME NEW d \in Cell PROVE CellOK(d)'
  <2>1. VarsOn(d)' = VarsOn(d)
    BY <1>5 DEF VarsOn
  <2>2. References(d)' = References(d)
    BY <1>5, <1>11, <1>12, <2>1 DEF References
  <2>3. DisposesOf(d)' = DisposesOf(d) /\ cells'[d] = cells[d]
    BY <1>4, <1>5, <1>8
  <2> QED
    BY <1>0, <1>11, <1>12, <2>2, <2>3, Sums, SameCount DEF CellOK, Used, IInv, ZeroDisposed
<1>22. IInv'
  BY <1>6, <1>14, <1>17, <1>18, <1>19, <1>20, <1>21, Whole
<1>23. ASSUME NEW x \in Calls'
       PROVE  \/ x = <<t, 1>> /\ CallAt(x)' = call
              \/ x \in Calls /\ CallAt(x)' = CallAt(x)
  <2>1. PICK u \in Thread : \E j \in DOMAIN work'[u] : x = <<u, j>>
    BY DEF Calls
  <2>2. CASE u = t
    BY <1>3, <1>7, <1>26, <2>1, <2>2 DEF CallAt
  <2>3. CASE u # t
    <3>1. work'[u] = work[u]
      BY <1>3, <2>3 DEF OnlyTop
    <3> QED
      BY <2>1, <3>1 DEF Calls, CallAt
  <2> QED
    BY <2>2, <2>3
<1>24. HoldersAlone'
  <2> SUFFICES ASSUME NEW x \in Calls', NEW y \in Calls',
                      CallAt(x)'.ref \in Holder, CallAt(x)'.ref = CallAt(y)'.ref
               PROVE  x = y
    BY DEF HoldersAlone
  <2>1. \A z \in Calls : CallAt(z).ref # k
    BY DEF NotInUse
  <2> QED
    BY <1>0, <1>4, <1>23, <2>1 DEF HoldersAlone
<1>25. LentHeld'
  <2> SUFFICES ASSUME NEW c \in Cell, Lent(c)' PROVE held[c] > 0
    BY <1>5 DEF LentHeld
  <2>1. PICK x \in Calls' : /\ CallAt(x)'.op = "fill"
                            /\ \E i \in DOMAIN CallAt(x)'.into : CallAt(x)'.into[i].item = c
    BY DEF Lent
  <2>2. CASE x \in Calls /\ CallAt(x)' = CallAt(x)
    <3>1. Lent(c)
      BY <2>1, <2>2 DEF Lent
    <3> QED
      BY <1>0, <3>1 DEF LentHeld
  <2>3. CASE CallAt(x)' = call
    BY <2>1, <2>3 DEF Fits
  <2> QED
    BY <1>23, <2>2, <2>3
<1> QED
  BY <1>22, <1>24, <1>25 DEF BInv

LEMMA PassedAre ==
  ASSUME NEW t, NEW x \in Passed(t)
  PROVE  x \in Cell \cup Literal /\ (x \in Cell => held[x] > 0)
BY Distinct DEF Passed

\* A collection is made, and is to be filled.
LEMMA NewStep ==
  ASSUME BInv, NEW t \in Thread, NEW k \in Holder, NotInUse(k), NEW kind \in Kind, NEW steps,
         NEW c \in Nat, StepsOK(steps), Slots(steps) = 1 .. c,
         \A j \in DOMAIN steps : steps[j].item \in Cell => held[steps[j].item] > 0,
         New(t, k, kind, steps)
  PROVE  BInv'
<1>1. PICK call : call = Call("fill", k, 1, steps)
  OBVIOUS
<1>2. call \in RuntimeCall /\ call.op = "fill" /\ call.ref = k /\ call.at = 1 /\ call.into = steps
  BY <1>1 DEF RuntimeCall, Call, StepsOK
<1>3. /\ work[t] = <<>> /\ ~Used(k) /\ work' = [work EXCEPT ![t] = <<call>>]
      /\ UNCHANGED <<forward, open, held, override>>
  BY <1>1 DEF New
<1>4. PICK content : content = [from |-> kind, rc |-> 1, fields |-> [i \in 1 .. c |-> Nil], by |-> Nil]
  OBVIOUS
<1>5. cells' = [cells EXCEPT ![k] = content]
  BY <1>4 DEF New, Slots
<1>6. /\ content \in Content /\ content.from = kind /\ DOMAIN content.fields = 1 .. c
      /\ \A i \in 1 .. c : content.fields[i] = Nil
  <2>1. [i \in 1 .. c |-> Nil] \in [1 .. c -> Item]
    BY DEF Item
  <2>2. [i \in 1 .. c |-> Nil] \in Seq(Item)
    BY <2>1, SeqDef
  <2> QED
    BY <1>4, <2>2, Distinct DEF Content
<1>7. TypeOK /\ HoldersOK /\ cells \in [Cell \cup Holder -> Content]
  BY DEF BInv, IInv, TypeOK
<1>8. cells[k].fields = <<>>
  BY <1>3, <1>7 DEF HoldersOK, Used, Unused
<1>9. cells'[k] = content /\ \A y \in Cell \cup Holder : y # k => cells'[y] = cells[y]
  BY <1>5, <1>7
<1>10. Restocked(k)
  <2>1. cells' \in [Cell \cup Holder -> Content]
    BY <1>5, <1>6, <1>7
  <2> QED
    BY <1>6, <1>8, <1>9, <2>1, Distinct DEF Restocked
<1>11. Fits(k, steps)
  <2>1. \A j \in DOMAIN steps : steps[j].slot \in 1 .. c
    BY DEF Slots
  <2> QED
    BY <1>6, <1>9, <2>1 DEF Fits, RoomFor
<1> QED
  BY <1>2, <1>3, <1>10, <1>11, HolderBegins

LEMMA NewCollectionStep ==
  ASSUME BInv, NEW t \in Thread, NEW k \in Holder, NotInUse(k),
         NewList(t, k) \/ NewArray(t, k) \/ NewMap(t, k)
  PROVE  BInv'
<1>1. CASE NewList(t, k)
  <2>1. PICK s : s = <<>>
    OBVIOUS
  <2>2. New(t, k, "list", s) /\ StepsOK(s) /\ Slots(s) = 1 .. 0 /\ DOMAIN s = {}
    BY <1>1, <2>1, NoSteps DEF NewList
  <2> QED
    BY <2>2, NewStep DEF Kind
<1>2. ASSUME NEW xs \in BoundedSeq(Passed(t), MaxItems), New(t, k, "array", ArraySteps(xs))
      PROVE  BInv'
  <2>1. PICK m \in Nat : xs \in [1 .. m -> Passed(t)]
    BY CollectionsAssumption DEF BoundedSeq, SeqOf
  <2>2. xs \in [1 .. m -> Cell \cup Literal] /\ \A i \in 1 .. m : xs[i] \in Cell => held[xs[i]] > 0
    BY <2>1, PassedAre
  <2>3. PICK s : s = ArraySteps(xs)
    OBVIOUS
  <2>4. /\ StepsOK(s) /\ Slots(s) = 1 .. m /\ DOMAIN s = 1 .. m
        /\ \A j \in 1 .. m : s[j].item = xs[j]
    BY <2>2, <2>3, ArrayStepsAre
  <2>5. \A j \in DOMAIN s : s[j].item \in Cell => held[s[j].item] > 0
    BY <2>2, <2>4
  <2> QED
    BY <1>2, <2>3, <2>4, <2>5, NewStep DEF Kind
<1>3. ASSUME NEW keys \in BoundedSeq(Passed(t), MaxItems),
             NEW values \in BoundedSeq(Passed(t), MaxItems), Len(keys) = Len(values),
             New(t, k, "map", MapSteps(keys, values))
      PROVE  BInv'
  <2>1. PICK m \in Nat : keys \in [1 .. m -> Passed(t)]
    BY CollectionsAssumption DEF BoundedSeq, SeqOf
  <2>2. PICK n \in Nat : values \in [1 .. n -> Passed(t)]
    BY CollectionsAssumption DEF BoundedSeq, SeqOf
  <2>3. Len(keys) = m /\ Len(values) = n
    BY <2>1, <2>2
  <2>4. values \in [1 .. m -> Passed(t)]
    BY <1>3, <2>2, <2>3
  <2>5. /\ keys \in [1 .. m -> Cell \cup Literal] /\ values \in [1 .. m -> Cell \cup Literal]
        /\ \A i \in 1 .. m : keys[i] \in Cell => held[keys[i]] > 0
        /\ \A i \in 1 .. m : values[i] \in Cell => held[values[i]] > 0
    BY <2>1, <2>4, PassedAre
  <2>6. PICK s : s = MapSteps(keys, values)
    OBVIOUS
  <2>7. MapPrefix(keys, values, m, s)
    BY <2>5, <2>6, MapStepsAre
  <2>8. PICK c \in Nat : c = 2 * Cardinality(Firsts(keys, m))
    BY FirstsFinite
  <2>9. StepsOK(s) /\ Slots(s) = 1 .. c /\ Came(keys, values, m, s)
    BY <2>7, <2>8 DEF MapPrefix
  <2>10. ASSUME NEW j \in DOMAIN s, s[j].item \in Cell PROVE held[s[j].item] > 0
    <3>1. ~Clears(s[j])
      BY <2>10, Distinct DEF Clears
    <3>2. PICK i \in 1 .. m : Given(keys, values, i, s[j])
      BY <2>9, <3>1 DEF Came
    <3> QED
      BY <2>5, <2>10, <3>2 DEF Given
  <2> QED
    BY <1>3, <2>6, <2>8, <2>9, <2>10, NewStep DEF Kind
<1> QED
  BY <1>1, <1>2, <1>3 DEF NewArray, NewMap

LEMMA DropStep ==
  ASSUME BInv, NEW t \in Thread, NEW k \in Holder, NotInUse(k), Drop(t, k)
  PROVE  BInv'
<1>1. PICK call : call = Call("empty", k, 1, Nil)
  OBVIOUS
<1>2. call \in RuntimeCall /\ call.op = "empty" /\ call.ref = k /\ call.at = 1
  BY <1>1 DEF RuntimeCall, Call
<1>3. /\ work[t] = <<>> /\ Used(k) /\ work' = [work EXCEPT ![t] = <<call>>]
      /\ UNCHANGED <<forward, open, held, override>> /\ cells' = cells
  BY <1>1 DEF Drop
<1>4. Restocked(k)
  BY <1>3 DEF Restocked, BInv, IInv, TypeOK, HoldersOK, Used
<1> QED
  BY <1>2, <1>3, <1>4, HolderBegins

LEMMA AddObjectStep ==
  ASSUME BInv, NEW t \in Thread, NEW k \in Holder, NotInUse(k), NEW x \in Passed(t),
         AddObject(t, k, x)
  PROVE  BInv'
<1>1. TypeOK /\ cells \in [Cell \cup Holder -> Content] /\ cells[k] \in Content
  BY DEF BInv, IInv, TypeOK
<1>2. cells[k].fields \in Seq(Item) /\ cells[k].from = "list"
  BY <1>1 DEF Content, AddObject, Is
<1>3. PICK n \in Nat : n = Len(cells[k].fields)
  BY <1>2, LenProperties
<1>4. PICK slot \in Nat : slot = n + 1
  OBVIOUS
<1>5. PICK steps : steps = <<PutIn(slot, x)>>
  OBVIOUS
<1>6. x \in Cell \cup Literal /\ (x \in Cell => held[x] > 0)
  BY PassedAre
<1>7. StepsOK(steps) /\ Slots(steps) = {slot} /\ DOMAIN steps = 1 .. 1 /\ steps[1].item = x
  BY <1>5, <1>6, OneStep
<1>8. PICK call : call = Call("fill", k, 1, steps)
  OBVIOUS
<1>9. call \in RuntimeCall /\ call.op = "fill" /\ call.ref = k /\ call.at = 1 /\ call.into = steps
  BY <1>7, <1>8 DEF RuntimeCall, Call, StepsOK
<1>10. /\ work[t] = <<>> /\ work' = [work EXCEPT ![t] = <<call>>]
       /\ UNCHANGED <<forward, open, held, override>>
       /\ cells' = [cells EXCEPT ![k].fields = Append(@, Nil)]
  BY <1>3, <1>4, <1>5, <1>8 DEF AddObject, Items
<1>11. PICK f : f = Append(cells[k].fields, Nil)
  OBVIOUS
<1>12. /\ f \in Seq(Item) /\ DOMAIN f = 1 .. slot /\ f[slot] = Nil
       /\ DOMAIN cells[k].fields = 1 .. n
       /\ \A i \in 1 .. n : f[i] = cells[k].fields[i]
  <2>1. Nil \in Item
    BY DEF Item
  <2>2. /\ f \in Seq(Item) /\ Len(f) = n + 1
        /\ \A i \in 1 .. n : f[i] = cells[k].fields[i]
        /\ f[n + 1] = Nil
    BY <1>2, <1>3, <1>11, <2>1, AppendProperties
  <2> QED
    BY <1>2, <1>3, <1>4, <2>2, LenProperties
<1>13. PICK content : content = [cells[k] EXCEPT !.fields = f]
  OBVIOUS
<1>14. content \in Content /\ content.from = "list" /\ content.fields = f
  BY <1>1, <1>2, <1>12, <1>13 DEF Content
<1>15. cells' = [cells EXCEPT ![k] = content]
  BY <1>10, <1>11, <1>13
<1>16. /\ cells' \in [Cell \cup Holder -> Content] /\ cells'[k] = content
       /\ \A y \in Cell \cup Holder : y # k => cells'[y] = cells[y]
  BY <1>1, <1>14, <1>15
<1>17. Restocked(k)
  <2>1. ASSUME NEW y \in Cell, NEW i
        PROVE  (i \in 1 .. slot /\ f[i] = y) <=> (i \in 1 .. n /\ cells[k].fields[i] = y)
    <3>1. i \in 1 .. slot <=> i \in 1 .. n \/ i = slot
      BY <1>4
    <3>2. Nil # y
      BY Distinct
    <3> QED
      BY <1>4, <1>12, <3>1, <3>2
  <2> QED
    BY <1>12, <1>14, <1>16, <2>1 DEF Restocked, Kind
<1>18. Fits(k, steps)
  <2>1. \A j \in DOMAIN steps : j = 1 /\ steps[j].slot = slot
    BY <1>7 DEF Slots
  <2>2. slot \in 1 .. slot
    BY <1>4
  <2>3. RoomFor(steps, 1, f)
    BY <1>12, <2>1, <2>2 DEF RoomFor
  <2> QED
    BY <1>6, <1>7, <1>14, <1>16, <2>1, <2>3 DEF Fits
<1> QED
  BY <1>9, <1>10, <1>17, <1>18, HolderBegins

(* The steps of a collection that is filled or emptied *)

\* A step that begins no call about a collection, after which the program has
\* the references it had.
LEMMA HolderStays ==
  ASSUME BInv, NEW t \in Thread, NEW n \in Nat, NEW m \in Int, OnlyTop(t, n),
         DOMAIN work[t] = 1 .. n, DOMAIN work'[t] = 1 .. m, held' = held, IInv',
         \A k \in n .. m : k > 0 =>
           (k = n /\ GoesOn(t, n)) \/ (work'[t][k].ref \notin Holder /\ work'[t][k].op # "fill")
  PROVE  BInv'
<1>1. TypeOK /\ HoldersAlone /\ LentHeld
  BY DEF BInv, IInv
<1>2. HolderCallsKept
  BY <1>1, HolderCallsAfter
<1>3. HoldersAlone' /\ \A c \in Cell : Lent(c)' => Lent(c)
  BY <1>1, <1>2, HoldersKept
<1>4. LentHeld'
  BY <1>1, <1>3 DEF LentHeld
<1> QED
  BY <1>3, <1>4 DEF BInv

\* The initialisers and addObject: return.
LEMMA FillReturnStep ==
  ASSUME BInv, NEW t \in Thread, Doing(t, "fill"), Return(t),
         UNCHANGED <<cells, forward, open, held, override>>
  PROVE  BInv'
<1>0. IInv /\ TypeOK
  BY DEF BInv, IInv
<1>1. PICK n : n = Len(work[t])
  OBVIOUS
<1>2. /\ work[t] # <<>> /\ n \in Nat \ {0} /\ DOMAIN work[t] = 1 .. n
      /\ work[t][n].op = "fill"
  BY <1>0, <1>1, DoingCall
<1>3. /\ n - 1 \in Nat /\ OnlyTop(t, n) /\ DOMAIN work'[t] = 1 .. n - 1
      /\ work' \in [Thread -> Seq(RuntimeCall)]
      /\ \A c : DisposesOf(c)' = DisposesOf(c)
      /\ \A c, i : Dropped(c, i)' <=> Dropped(c, i)
      /\ Alone("keep")' /\ Alone("dispose")'
      /\ \A c \in Cell :
           /\ IsFiniteSet(CallsOn(c)')
           /\ Cardinality(CallsOn(c)') = Cardinality(CallsOn(c)) - N(Counts(work[t][n], c))
      /\ \A u \in Thread : Asked(u)' = Asked(u)
  BY <1>0, <1>1, <1>2, ReturnStep
<1>4. cells' = cells /\ forward' = forward /\ open' = open /\ held' = held /\ override' = override
  OBVIOUS
<1>5. TypeOK'
  BY <1>0, <1>3, <1>4 DEF TypeOK
<1>6. /\ FieldsOK' /\ HoldersOK' /\ Spares(t, n) /\ \A d : FieldsOn(d)' = FieldsOn(d)
  BY <1>0, <1>2, <1>3, <1>4, <1>5, SameCells
<1>7. CallsOK' /\ CopiesUseAllocator'
  <2>1. /\ n \in Nat /\ \A k \in n .. n - 1 : k > 0 => CallOK(t, k)'
        /\ 1 .. n - 1 \subseteq DOMAIN work[t]
    BY <1>2
  <2>2. \A k \in n .. n - 1 : k > 0 /\ work'[t][k].op = "keep" =>
          cells'[work'[t][k].ref].by = override[t]
    BY <1>2
  <2>3. CallsOK'
    BY <1>0, <1>3, <1>6, <2>1, CallsGoOn
  <2> QED
    BY <1>0, <1>3, <1>4, <1>6, <2>1, <2>2, <2>3, AllocatorsGoOn
<1>8. ForwardOK'
  BY <1>0, <1>4 DEF IInv, ForwardOK
<1>9. ASSUME NEW d \in Cell PROVE CellOK(d)'
  <2>1. VarsOn(d)' = VarsOn(d) /\ FieldsOn(d)' = FieldsOn(d)
    BY <1>4, <1>6 DEF VarsOn
  <2>2. N(Counts(work[t][n], d)) = 0
    BY <1>2 DEF N, Counts
  <2>3. /\ IsFiniteSet(CallsOn(d)') /\ IsFiniteSet(FieldsOn(d)')
        /\ Cardinality(CallsOn(d)') = Cardinality(CallsOn(d))
    BY <1>0, <1>3, <2>1, <2>2, Sums
  <2>4. References(d)' = References(d)
    BY <1>4, <2>1, <2>3 DEF References
  <2> QED
    BY <1>0, <1>3, <1>4, <2>3, <2>4, SameCount, ZerosKept DEF CellOK
<1>10. IInv'
  BY <1>3, <1>5, <1>6, <1>7, <1>8, <1>9, Whole
<1>11. /\ n \in Nat /\ n - 1 \in Int
       /\ \A k \in n .. n - 1 : k > 0 =>
            (k = n /\ GoesOn(t, n)) \/ (work'[t][k].ref \notin Holder /\ work'[t][k].op # "fill")
  BY <1>2
<1> QED
  BY <1>2, <1>3, <1>4, <1>10, <1>11, HolderStays

\* What is known of the step q that is taken for the collection k.
Filling(t, n, k, steps, q) ==
  /\ n = Len(work[t]) /\ k = work[t][n].ref /\ steps = work[t][n].into /\ q = work[t][n].at
  /\ work[t] # <<>> /\ n \in Nat \ {0} /\ DOMAIN work[t] = 1 .. n /\ n \in DOMAIN work[t]
  /\ work[t][n] \in RuntimeCall /\ work[t][n].op = "fill"
  /\ k \in Holder /\ Used(k) /\ StepsOK(steps) /\ q \in DOMAIN steps /\ q \in Nat
  /\ q + 1 \in 1 .. Len(steps) + 1 /\ steps[q] \in Step
  /\ steps[q].slot \in DOMAIN cells[k].fields /\ RoomFor(steps, q, cells[k].fields)
  /\ \A i : ~Dropped(k, i)
  /\ \A u \in Thread : \A j \in DOMAIN work[u] : work[u][j].ref = k => u = t /\ j = n

LEMMA FillingIs ==
  ASSUME BInv, NEW t \in Thread, Doing(t, "fill"), ~(Innermost(t).at > Len(Innermost(t).into)),
         NEW n, n = Len(work[t]), NEW k, k = work[t][n].ref,
         NEW steps, steps = work[t][n].into, NEW q, q = work[t][n].at
  PROVE  Filling(t, n, k, steps, q)
<1>0. IInv /\ TypeOK /\ HoldersAlone
  BY DEF BInv, IInv
<1>1. /\ work[t] # <<>> /\ n \in Nat \ {0} /\ DOMAIN work[t] = 1 .. n /\ n \in DOMAIN work[t]
      /\ work[t][n] \in RuntimeCall /\ work[t][n].op = "fill" /\ CallOK(t, n)
      /\ Innermost(t) = work[t][n]
  BY <1>0, DoingCall
<1>2. FillOK(t, n)
  BY <1>1 DEF CallOK
<1>3. /\ k \in Holder /\ StepsOK(steps) /\ q \in 1 .. Len(steps) + 1
      /\ RoomFor(steps, q, cells[k].fields)
  BY <1>2 DEF FillOK
<1>4. steps \in Seq(Step) /\ Len(steps) \in Nat /\ DOMAIN steps = 1 .. Len(steps)
  BY <1>3, LenProperties DEF StepsOK
<1>5. ~(q > Len(steps))
  BY <1>1
<1>6. q \in DOMAIN steps /\ q \in Nat /\ q + 1 \in 1 .. Len(steps) + 1
  BY ONLY <1>3, <1>4, <1>5
<1>7. steps[q] \in Step
  BY <1>4, <1>6, ElementOfSeq
<1>8. steps[q].slot \in DOMAIN cells[k].fields
  BY <1>3, <1>6 DEF RoomFor
<1>9. /\ Used(k) /\ \A i : ~Dropped(k, i)
      /\ \A u \in Thread : \A j \in DOMAIN work[u] : work[u][j].ref = k => u = t /\ j = n
  <2>1. n \in DOMAIN work[t] /\ work[t][n].op = "fill" /\ k = work[t][n].ref
    BY <1>1
  <2> QED
    BY ONLY <1>0, <2>1, t \in Thread, FillerAlone
<1> QED
  BY <1>1, <1>3, <1>6, <1>7, <1>8, <1>9 DEF Filling

\* A slot that is to be filled holds nothing.
LEMMA SlotFree ==
  ASSUME NEW t, NEW n, NEW k, NEW steps, NEW q, Filling(t, n, k, steps, q), ~steps[q].drops
  PROVE  cells[k].fields[steps[q].slot] = Nil /\ steps[q].item \in Cell \cup Literal
<1>1. /\ q \in DOMAIN steps /\ q \in Nat /\ StepsOK(steps) /\ steps[q] \in Step
      /\ RoomFor(steps, q, cells[k].fields)
  BY DEF Filling
<1>2. ~DropBetween(steps, q, q, steps[q].slot)
  BY <1>1 DEF DropBetween
<1>3. q >= q
  BY <1>1
<1>4. cells[k].fields[steps[q].slot] = Nil
  BY <1>1, <1>2, <1>3 DEF RoomFor
<1>5. steps[q].item \in Cell \cup Literal
  BY <1>1 DEF StepsOK, Step
<1> QED
  BY <1>4, <1>5

\* The call that fills k waits for nothing else, and nothing else is about k.
LEMMA FillerSpares ==
  ASSUME NEW t, NEW n, NEW k, NEW steps, NEW q, Filling(t, n, k, steps, q), IInv,
         \A y \in Cell \cup Holder : y # k => Keeps(y)
  PROVE  Spares(t, n)
<1> SUFFICES ASSUME NEW u \in Thread, NEW j \in DOMAIN work[u], u = t => j < n, Relies(work[u][j])
             PROVE  Keeps(work[u][j].ref)
  BY DEF Spares
<1>1. work[u][j].ref # k
  BY DEF Filling
<1> QED
  BY <1>1 DEF Relies

\* An item is retained and put into its slot.
LEMMA FillPutStep ==
  ASSUME BInv, NEW t \in Thread, NEW n, NEW k, NEW steps, NEW q, Filling(t, n, k, steps, q),
         ~steps[q].drops, NEW slot, slot = steps[q].slot, NEW x \in Cell, x = steps[q].item,
         CountsInto(k, slot, x), Advance(t, <<>>),
         forward' = forward, open' = open, held' = held, override' = override
  PROVE  BInv'
<1>0. IInv /\ TypeOK
  BY DEF BInv, IInv
<1>1. /\ n = Len(work[t]) /\ k = work[t][n].ref /\ steps = work[t][n].into /\ q = work[t][n].at
      /\ work[t] # <<>> /\ n \in Nat \ {0} /\ DOMAIN work[t] = 1 .. n /\ n \in DOMAIN work[t]
      /\ work[t][n].op = "fill" /\ k \in Holder /\ Used(k) /\ StepsOK(steps) /\ q \in DOMAIN steps
      /\ q + 1 \in 1 .. Len(steps) + 1 /\ slot \in DOMAIN cells[k].fields
      /\ RoomFor(steps, q, cells[k].fields) /\ \A i : ~Dropped(k, i)
  BY DEF Filling
<1>18. /\ n \in Nat /\ n \in Int /\ 1 .. n - 1 \subseteq DOMAIN work[t]
       /\ \A j \in n .. n : j = n
  <2>1. n \in Nat /\ DOMAIN work[t] = 1 .. n
    BY <1>1
  <2> QED
    BY ONLY <2>1
<1>2. cells[k].fields[slot] = Nil
  BY SlotFree
<1>3. held[x] > 0
  <2>1. <<t, n>> \in Calls /\ CallAt(<<t, n>>) = work[t][n]
    BY <1>1, CallsAre DEF CallAt
  <2>2. Lent(x)
    BY <1>1, <2>1 DEF Lent
  <2> QED
    BY <2>2 DEF BInv, LentHeld
<1>4. References(x) > 0 /\ Used(x) /\ cells[x].rc \in 1 .. Latch /\ cells[x].rc > 0
  <2>1. References(x) > 0 /\ Used(x) /\ cells[x].rc \in 1 .. Latch
    BY <1>0, <1>3, Counted
  <2> QED
    BY <2>1, Distinct
<1>5. /\ Assigned(k, slot, x) /\ \A y \in Cell \cup Holder : y # k => Keeps(y)
      /\ \A y \in Cell : cells'[y].from = cells[y].from
      /\ \A y \in Cell : y # x => cells'[y].rc = cells[y].rc
      /\ cells'[x].rc = Incr(cells[x].rc)
  <2>1. k \in Cell \cup Holder /\ slot \in DOMAIN cells[k].fields
    BY <1>1
  <2> QED
    BY ONLY <1>0, <1>4, <2>1, x \in Cell, CountsInto(k, slot, x), AssignCounted
<1>6. /\ OnlyTop(t, n) /\ GoesOn(t, n) /\ DOMAIN work'[t] = 1 .. n
      /\ work' \in [Thread -> Seq(RuntimeCall)]
      /\ \A c : DisposesOf(c)' = DisposesOf(c)
      /\ \A c, j : Dropped(c, j)' <=> Dropped(c, j)
      /\ Alone("keep")' /\ Alone("dispose")'
      /\ \A c \in Cell : CallsOn(c)' = CallsOn(c)
      /\ \A u \in Thread : Asked(u)' = Asked(u)
  BY <1>0, <1>1, GoOnStep
<1>7. /\ cells' \in [Cell \cup Holder -> Content] /\ Put(k, slot, x)
      /\ cells'[k].from = cells[k].from
  BY <1>5 DEF Assigned
<1>8. TypeOK'
  BY <1>0, <1>6, <1>7 DEF TypeOK
<1>9. x \in Item /\ k \notin Cell
  BY <1>1, Distinct DEF Item
<1>10. /\ FieldsOK' /\ HoldersOK'
       /\ \A d \in Cell :
            /\ IsFiniteSet(FieldsOn(d)')
            /\ Cardinality(FieldsOn(d)') = Cardinality(FieldsOn(d)) + N(d = x)
  <2>1. /\ k \in Cell \cup Holder /\ slot \in DOMAIN cells[k].fields /\ Used(k)
        /\ \A j : ~Dropped(k, j)
    BY <1>1
  <2>2. k \in Cell /\ x \in Cell /\ Captures[cells[k].from][slot] \in Var => cells'[x].from \in Var
    BY <1>9
  <2> QED
    BY ONLY <1>0, <1>2, <1>5, <1>6, <1>8, <1>9, <2>1, <2>2, AssignedFields
<1>11. Spares(t, n)
  BY <1>0, <1>5, FillerSpares
<1>12. CallsOK'
  <2>1. /\ work'[t][n].op = "fill" /\ work'[t][n].ref = k /\ work'[t][n].at = q + 1
        /\ work'[t][n].into = work[t][n].into
    BY <1>1, <1>6 DEF GoesOn
  <2>2. RoomFor(steps, q + 1, cells'[k].fields)
    <3>1. PICK f : f = cells[k].fields
      OBVIOUS
    <3>2. PICK g : g = cells'[k].fields
      OBVIOUS
    <3>3. /\ DOMAIN g = DOMAIN f /\ \A y \in DOMAIN f : y # steps[q].slot => g[y] = f[y]
          /\ RoomFor(steps, q, f) /\ f[steps[q].slot] = Nil
      BY <1>1, <1>2, <1>7, <3>1, <3>2 DEF Put
    <3>4. StepsOK(steps) /\ q \in DOMAIN steps /\ ~steps[q].drops
      BY <1>1
    <3>5. RoomFor(steps, q + 1, g)
      BY ONLY <3>3, <3>4, RoomAfterPut
    <3> QED
      BY <3>2, <3>5
  <2>3. CallOK(t, n)'
    <3>1. /\ n \in DOMAIN work[t] /\ work[t][n].op = "fill" /\ k = work[t][n].ref
          /\ work'[t][n].at \in 1 .. Len(work[t][n].into) + 1
          /\ RoomFor(work[t][n].into, work'[t][n].at, cells'[k].fields)
      BY <1>1, <2>1, <2>2
    <3> QED
      BY ONLY <1>0, <1>7, <2>1, <3>1, t \in Thread, FillerGoesOn
  <2>4. \A j \in n .. n : j > 0 => CallOK(t, j)'
    BY <1>18, <2>3
  <2> QED
    BY ONLY <1>0, <1>6, <1>11, <1>18, <2>4, t \in Thread, CallsGoOn
<1>13. CopiesUseAllocator'
  <2>1. \A j \in n .. n : j > 0 /\ work'[t][j].op = "keep" =>
          cells'[work'[t][j].ref].by = override[t]
    <3>1. work'[t][n].op = "fill"
      BY <1>1, <1>6 DEF GoesOn
    <3> QED
      BY ONLY <1>18, <3>1
  <2>2. override' = override
    OBVIOUS
  <2> QED
    BY ONLY <1>0, <1>6, <1>11, <1>18, <2>1, <2>2, t \in Thread, AllocatorsGoOn
<1>14. ForwardOK'
  <2>1. \A v \in Var : forward[v] # Nil => forward[v] \in Cell
    BY <1>0 DEF TypeOK
  <2> QED
    BY <1>0, <1>5, <2>1 DEF IInv, ForwardOK
<1>15. ASSUME NEW y \in Cell PROVE CellOK(y)'
  <2>1. PICK z \in 0 .. 1 : z = N(y = x)
    BY DEF N
  <2>2. VarsOn(y)' = VarsOn(y) /\ held'[y] = held[y] /\ CallsOn(y)' = CallsOn(y)
    BY <1>6 DEF VarsOn
  <2>3. IsFiniteSet(CallsOn(y)') /\ IsFiniteSet(FieldsOn(y)')
    BY <1>0, <1>10, <2>2, Sums
  <2>4. References(y)' = References(y) + z
    BY SMTT(40), <1>0, <1>10, <2>1, <2>2, Sums DEF References
  <2>5. CASE y = x
    <3>1. z = 1
      BY <2>1, <2>5 DEF N
    <3>2. References(y) > 0 /\ References(y)' = References(y) + 1
      BY <1>4, <2>4, <2>5, <3>1
    <3>3. Exact(y)' /\ cells'[y].rc > 0
      BY <1>0, <1>5, <2>5, <3>2, OneMore
    <3> QED
      BY <2>3, <3>3 DEF CellOK
  <2>6. CASE y # x
    <3>1. z = 0
      BY <2>1, <2>6 DEF N
    <3>2. References(y)' = References(y)
      BY <1>0, <2>4, <3>1, Sums
    <3> QED
      BY <1>0, <1>5, <1>6, <2>3, <2>6, <3>2, SameCount, ZerosKept DEF CellOK
  <2> QED
    BY <2>5, <2>6
<1>16. IInv'
  BY <1>6, <1>8, <1>10, <1>12, <1>13, <1>14, <1>15, Whole
<1>17. \A j \in n .. n : j > 0 =>
         (j = n /\ GoesOn(t, n)) \/ (work'[t][j].ref \notin Holder /\ work'[t][j].op # "fill")
  BY ONLY <1>6, <1>18
<1> QED
  <2>1. DOMAIN work[t] = 1 .. n /\ OnlyTop(t, n) /\ DOMAIN work'[t] = 1 .. n /\ held' = held
    BY <1>1, <1>6
  <2> QED
    BY ONLY BInv, <1>16, <1>17, <1>18, <2>1, t \in Thread, HolderStays

\* What a slot holds is dropped: the call that releases it has the reference
\* that the slot had.
LEMMA FillDropStep ==
  ASSUME BInv, NEW t \in Thread, NEW n, NEW k, NEW steps, NEW q, Filling(t, n, k, steps, q),
         steps[q].drops, NEW slot, slot = steps[q].slot,
         NEW call \in RuntimeCall, call.op = "release", call.ref = cells[k].fields[slot],
         Advance(t, <<call>>), cells' = [cells EXCEPT ![k].fields[slot] = Nil],
         forward' = forward, open' = open, held' = held, override' = override
  PROVE  BInv'
<1>0. IInv /\ TypeOK
  BY DEF BInv, IInv
<1>1. /\ n = Len(work[t]) /\ k = work[t][n].ref /\ steps = work[t][n].into /\ q = work[t][n].at
      /\ work[t] # <<>> /\ n \in Nat \ {0} /\ DOMAIN work[t] = 1 .. n /\ n \in DOMAIN work[t]
      /\ work[t][n].op = "fill" /\ k \in Holder /\ Used(k) /\ StepsOK(steps) /\ q \in DOMAIN steps
      /\ q + 1 \in 1 .. Len(steps) + 1 /\ slot \in DOMAIN cells[k].fields
      /\ RoomFor(steps, q, cells[k].fields) /\ \A i : ~Dropped(k, i)
  BY DEF Filling
<1>2. PICK m \in Nat : m = n + 1
  <2>1. n \in Nat
    BY <1>1
  <2> QED
    BY ONLY <2>1
<1>3. /\ n \in Nat /\ n \in Int /\ n > 0 /\ m \in Int /\ m >= n - 1 /\ n # m /\ m > 1
      /\ 1 .. n - 1 \subseteq DOMAIN work[t]
      /\ \A j \in n .. m : j = n \/ j = m
      /\ \A j \in 1 .. m : j >= n => j = n \/ j = m
  <2>1. n \in Nat \ {0} /\ DOMAIN work[t] = 1 .. n
    BY <1>1
  <2> QED
    BY ONLY <1>2, <2>1, m \in Nat
<1>4. call \in RuntimeCall /\ call.op = "release" /\ call.ref = cells[k].fields[slot]
  OBVIOUS
<1>21. call.ref \in Item
  <2>1. cells[k].fields \in Seq(Item) /\ slot \in DOMAIN cells[k].fields
    BY <1>0, <1>1 DEF TypeOK, Content
  <2>2. DOMAIN cells[k].fields = 1 .. Len(cells[k].fields)
    BY ONLY <2>1, LenProperties
  <2> QED
    BY ONLY <1>4, <2>1, <2>2, ElementOfSeq
<1>5. /\ OnlyTop(t, n) /\ DOMAIN work'[t] = 1 .. m /\ GoesOn(t, n) /\ work'[t][m] = call
      /\ work' \in [Thread -> Seq(RuntimeCall)]
  <2>1. /\ OnlyTop(t, n) /\ DOMAIN work'[t] = 1 .. n + 1
        /\ GoesOn(t, n) /\ work'[t][n + 1] = call
    BY <1>0, <1>1, <1>4, AdvancedInto
  <2>2. PICK s : s = Append(Outer(t), [Innermost(t) EXCEPT !.at = @ + 1]) \o <<call>>
    OBVIOUS
  <2>3. work' = [work EXCEPT ![t] = s]
    BY <2>2 DEF Advance
  <2>4. work' \in [Thread -> Seq(RuntimeCall)]
    BY ONLY <1>0, <1>3, <2>1, <2>3, t \in Thread, WorkTyped
  <2> QED
    BY ONLY <1>2, <2>1, <2>4
<1>6. /\ work'[t][n].op = "fill" /\ work'[t][n].ref = k /\ work'[t][n].at = q + 1
      /\ work'[t][n].into = work[t][n].into
  BY <1>1, <1>5 DEF GoesOn
<1>7. /\ cells' \in [Cell \cup Holder -> Content] /\ Put(k, slot, Nil)
      /\ cells'[k].from = cells[k].from
      /\ \A y \in Cell \cup Holder : y # k => cells'[y] = cells[y]
  <2>1. k \in Cell \cup Holder /\ slot \in DOMAIN cells[k].fields /\ Nil \in Item
    BY <1>1 DEF Item
  <2>2. cells' = [cells EXCEPT ![k].fields[slot] = Nil]
    OBVIOUS
  <2> QED
    BY ONLY <1>0, <2>1, <2>2, FieldSet
<1>8. TypeOK'
  BY <1>0, <1>5, <1>7 DEF TypeOK
<1>9. k \in Holder /\ k \notin Cell /\ Nil \notin Cell
  BY <1>1, Distinct
<1>10. /\ \A c : DisposesOf(c)' = DisposesOf(c)
       /\ \A c, j : Dropped(c, j)' <=> Dropped(c, j)
  <2>1. \A j \in 1 .. m : j >= n => work'[t][j].op \notin {"dispose", "empty"}
    BY ONLY <1>3, <1>4, <1>5, <1>6
  <2>2. work[t][n].op \notin {"dispose", "empty"} /\ DOMAIN work[t] = 1 .. n
    BY <1>1
  <2> QED
    BY ONLY <1>0, <1>3, <1>5, <2>1, <2>2, t \in Thread, m \in Nat, NoDisposeChanges
<1>11. /\ \A c \in Cell : Keeps(c) /\ cells'[c] = cells[c]
       /\ \A y \in Cell \cup Holder : y # k => Keeps(y)
  BY <1>7, <1>9 DEF Keeps
<1>12. FieldsOK' /\ HoldersOK' /\ Spares(t, n)
  <2>1. FieldsOK'
    BY ONLY <1>0, <1>8, <1>10, <1>11, FieldsOKKept
  <2>2. HoldersOK'
    BY ONLY <1>0, <1>1, <1>7 DEF IInv, HoldersOK, Used
  <2>3. Spares(t, n)
    BY ONLY <1>0, <1>11, Filling(t, n, k, steps, q), FillerSpares
  <2> QED
    BY <2>1, <2>2, <2>3
\* The only field that changes is the one whose value the call has.
<1>13. ASSUME NEW x \in Cell
       PROVE  /\ FieldOn(k, slot, x) <=> x = call.ref
              /\ ~FieldOn(k, slot, x)'
              /\ \A e \in Cell \cup Holder : \A j :
                   e # k \/ j # slot => (FieldOn(e, j, x)' <=> FieldOn(e, j, x))
  <2>1. FieldOn(k, slot, x) <=> x = call.ref
    BY <1>1, <1>4 DEF FieldOn
  <2>2. ~FieldOn(k, slot, x)'
    BY <1>7, <1>9 DEF FieldOn, Put
  <2>3. ASSUME NEW e \in Cell \cup Holder, NEW j, e # k \/ j # slot
        PROVE  FieldOn(e, j, x)' <=> FieldOn(e, j, x)
    <3>1. CASE e # k
      BY <1>7, <1>10, <3>1 DEF FieldOn
    <3>2. CASE e = k
      BY <1>7, <1>10, <2>3, <3>2 DEF FieldOn, Put
    <3> QED
      BY <3>1, <3>2
  <2> QED
    BY <2>1, <2>2, <2>3
<1>14. CallsOK'
  <2>1. RoomFor(steps, q + 1, cells'[k].fields)
    <3>1. PICK f : f = cells[k].fields
      OBVIOUS
    <3>2. PICK g : g = cells'[k].fields
      OBVIOUS
    <3>3. /\ DOMAIN g = DOMAIN f /\ \A y \in DOMAIN f : y # steps[q].slot => g[y] = f[y]
          /\ RoomFor(steps, q, f) /\ g[steps[q].slot] = Nil
      <4>1. RoomFor(steps, q, f) /\ steps[q].slot = slot
        BY <1>1, <3>1
      <4> QED
        BY ONLY <1>7, <3>1, <3>2, <4>1 DEF Put
    <3>4. StepsOK(steps) /\ q \in DOMAIN steps /\ steps[q].drops
      BY <1>1
    <3>5. RoomFor(steps, q + 1, g)
      BY ONLY <3>3, <3>4, RoomAfterDrop
    <3> QED
      BY <3>2, <3>5
  <2>2. CallOK(t, n)'
    <3>1. /\ n \in DOMAIN work[t] /\ work[t][n].op = "fill" /\ k = work[t][n].ref
          /\ work'[t][n].at \in 1 .. Len(work[t][n].into) + 1
          /\ RoomFor(work[t][n].into, work'[t][n].at, cells'[k].fields)
      BY <1>1, <1>6, <2>1
    <3> QED
      BY ONLY <1>0, <1>6, <1>7, <3>1, t \in Thread, FillerGoesOn
  <2>3. CallOK(t, m)'
    BY ONLY <1>4, <1>5, <1>21 DEF CallOK
  <2>4. \A j \in n .. m : j > 0 => CallOK(t, j)'
    BY ONLY <1>3, <2>2, <2>3
  <2> QED
    BY ONLY <1>0, <1>3, <1>5, <1>12, <2>4, t \in Thread, m \in Nat, CallsGoOn
<1>15. Alone("keep")' /\ Alone("dispose")'
  <2>1. ASSUME NEW op \in {"keep", "dispose"} PROVE Alone(op)'
    <3>1. \A j \in n .. m : j > 0 /\ work'[t][j].op = op => j = n /\ GoesOn(t, n)
      BY ONLY <1>3, <1>4, <1>5, <1>6, op \in {"keep", "dispose"}
    <3>2. DOMAIN work[t] = 1 .. n
      BY <1>1
    <3> QED
      BY ONLY <1>0, <1>3, <1>5, <3>1, <3>2, t \in Thread, m \in Nat, op \in {"keep", "dispose"},
              AloneGoesOn
  <2> QED
    BY <2>1
<1>16. CopiesUseAllocator'
  <2>1. \A j \in n .. m : j > 0 /\ work'[t][j].op = "keep" =>
          cells'[work'[t][j].ref].by = override[t]
    BY ONLY <1>3, <1>4, <1>5, <1>6
  <2>2. ASSUME NEW u \in Thread PROVE Asked(u)' = Asked(u)
    <3>1. n <= 1 => n = 1
      BY ONLY <1>3
    <3>2. /\ n = 1 => work[t][n].op # "restore"
          /\ n <= 1 /\ m >= 1 => work'[t][1].op # "restore"
          /\ DOMAIN work[t] = 1 .. n
      BY <1>1, <1>6, <3>1
    <3> QED
      BY ONLY <1>0, <1>3, <1>5, <3>2, t \in Thread, u \in Thread, m \in Nat, AskedKept
  <2>3. override' = override
    OBVIOUS
  <2> QED
    BY ONLY <1>0, <1>3, <1>5, <1>12, <2>1, <2>2, <2>3, t \in Thread, m \in Nat, AllocatorsGoOn
<1>17. ForwardOK'
  <2>1. forward' = forward
    OBVIOUS
  <2> QED
    BY ONLY <1>0, <1>11, <2>1, ForwardKept
<1>18. ASSUME NEW d \in Cell PROVE CellOK(d)'
  <2>1. PICK x \in 0 .. 1 : x = N(d = call.ref)
    BY DEF N
  <2>2. IsFiniteSet(CallsOn(d)') /\ Cardinality(CallsOn(d)') = Cardinality(CallsOn(d)) + x
    <3>1. /\ IsFiniteSet(CallsOn(d)')
          /\ Cardinality(CallsOn(d)') = Cardinality(CallsOn(d)) + N(Counts(work'[t][m], d))
      <4>1. IsFiniteSet(CallsOn(d)) /\ DOMAIN work[t] = 1 .. n
        BY <1>0, <1>1, Sums
      <4> QED
        BY ONLY <1>0, <1>2, <1>3, <1>5, <4>1, t \in Thread, m \in Nat, CountInto
    <3>2. N(Counts(work'[t][m], d)) = x
      BY <1>4, <1>5, <2>1 DEF Counts, N
    <3> QED
      BY <3>1, <3>2
  <2>3. IsFiniteSet(FieldsOn(d)') /\ Cardinality(FieldsOn(d)') = Cardinality(FieldsOn(d)) + (0 - x)
    <3>1. /\ IsFiniteSet(FieldsOn(d)')
          /\ Cardinality(FieldsOn(d)') = Cardinality(FieldsOn(d)) - N(FieldOn(k, slot, d))
      <4>1. IsFiniteSet(FieldsOn(d)) /\ k \in Cell \cup Holder
        BY <1>0, <1>1, Sums
      <4>2. /\ ~FieldOn(k, slot, d)'
            /\ \A e \in Cell \cup Holder : \A j :
                 e # k \/ j # slot => (FieldOn(e, j, d)' <=> FieldOn(e, j, d))
        BY <1>13
      <4> QED
        BY ONLY <4>1, <4>2, FieldLost
    <3>2. N(FieldOn(k, slot, d)) = x
      BY <1>13, <2>1 DEF N
    <3> QED
      BY <1>0, <3>1, <3>2, Sums
  <2>4. VarsOn(d)' = VarsOn(d) /\ held'[d] = held[d]
    BY DEF VarsOn
  <2>5. References(d)' = References(d)
    BY ONLY <1>0, <2>2, <2>3, <2>4, x \in 0 .. 1, d \in Cell, Sums DEF References
  <2> QED
    BY ONLY <1>0, <1>10, <1>11, <2>2, <2>3, <2>5, d \in Cell, SameCount, ZerosKept DEF CellOK
<1>19. IInv'
  BY ONLY <1>8, <1>12, <1>14, <1>15, <1>16, <1>17, <1>18, Whole
<1>20. \A j \in n .. m : j > 0 =>
         (j = n /\ GoesOn(t, n)) \/ (work'[t][j].ref \notin Holder /\ work'[t][j].op # "fill")
  <2>1. call.ref \notin Holder
    BY ONLY <1>21, Distinct DEF Item
  <2> QED
    BY ONLY <1>3, <1>4, <1>5, <2>1
<1> QED
  <2>1. DOMAIN work[t] = 1 .. n /\ held' = held
    BY <1>1
  <2> QED
    BY ONLY BInv, <1>3, <1>5, <1>19, <1>20, <2>1, t \in Thread, HolderStays

\* An item that is not on the heap is copied into its slot.
LEMMA FillCopyStep ==
  ASSUME BInv, NEW t \in Thread, NEW n, NEW k, NEW steps, NEW q, Filling(t, n, k, steps, q),
         ~steps[q].drops, NEW slot, slot = steps[q].slot,
         NEW call, CopiesInto(call, k, slot), GoesInto(t, call), cells' = cells,
         forward' = forward, open' = open, held' = held, override' = override
  PROVE  BInv'
<1>0. IInv /\ TypeOK
  BY DEF BInv, IInv
<1>1. /\ n = Len(work[t]) /\ k = work[t][n].ref /\ steps = work[t][n].into /\ q = work[t][n].at
      /\ work[t] # <<>> /\ n \in Nat \ {0} /\ DOMAIN work[t] = 1 .. n /\ n \in DOMAIN work[t]
      /\ work[t][n].op = "fill" /\ k \in Holder /\ Used(k) /\ StepsOK(steps) /\ q \in DOMAIN steps
      /\ q + 1 \in 1 .. Len(steps) + 1 /\ slot \in DOMAIN cells[k].fields /\ q \in Nat
      /\ RoomFor(steps, q, cells[k].fields)
  BY DEF Filling
<1>2. PICK m \in Nat : m = n + 1
  <2>1. n \in Nat
    BY <1>1
  <2> QED
    BY ONLY <2>1
<1>3. /\ n \in Nat /\ n \in Int /\ n > 0 /\ m \in Int /\ m >= n - 1 /\ n # m /\ m > 1
      /\ m - 1 = n /\ 1 .. n - 1 \subseteq DOMAIN work[t]
      /\ \A j \in n .. m : j = n \/ j = m
      /\ \A j \in 1 .. m : j >= n => j = n \/ j = m
  <2>1. n \in Nat \ {0} /\ DOMAIN work[t] = 1 .. n
    BY <1>1
  <2> QED
    BY ONLY <1>2, <2>1, m \in Nat
<1>4. /\ call \in RuntimeCall /\ call.op = "copy" /\ call.ref \in Literal
      /\ call.into \in Place /\ call.into.cell = k /\ call.into.at = slot
  BY DEF CopiesInto
<1>5. /\ OnlyTop(t, n) /\ DOMAIN work'[t] = 1 .. m /\ GoesOn(t, n) /\ work'[t][m] = call
      /\ work' \in [Thread -> Seq(RuntimeCall)]
  <2>1. /\ OnlyTop(t, n) /\ DOMAIN work'[t] = 1 .. n + 1
        /\ GoesOn(t, n) /\ work'[t][n + 1] = call
    BY <1>0, <1>1, <1>4, AdvancedInto DEF GoesInto
  <2>2. PICK s : s = Append(Outer(t), [Innermost(t) EXCEPT !.at = @ + 1]) \o <<call>>
    OBVIOUS
  <2>3. work' = [work EXCEPT ![t] = s]
    BY <2>2 DEF GoesInto, Advance
  <2>4. work' \in [Thread -> Seq(RuntimeCall)]
    BY ONLY <1>0, <1>3, <2>1, <2>3, t \in Thread, WorkTyped
  <2> QED
    BY ONLY <1>2, <2>1, <2>4
<1>6. /\ work'[t][n].op = "fill" /\ work'[t][n].ref = k /\ work'[t][n].at = q + 1
      /\ work'[t][n].into = steps
  BY <1>1, <1>5 DEF GoesOn
<1>7. cells' = cells /\ forward' = forward /\ held' = held /\ override' = override
  OBVIOUS
<1>8. TypeOK'
  BY <1>0, <1>5, <1>7 DEF TypeOK
<1>10. /\ \A c : DisposesOf(c)' = DisposesOf(c)
       /\ \A c, j : Dropped(c, j)' <=> Dropped(c, j)
  <2>1. \A j \in 1 .. m : j >= n => work'[t][j].op \notin {"dispose", "empty"}
    BY ONLY <1>3, <1>4, <1>5, <1>6
  <2>2. work[t][n].op \notin {"dispose", "empty"} /\ DOMAIN work[t] = 1 .. n
    BY <1>1
  <2> QED
    BY ONLY <1>0, <1>3, <1>5, <2>1, <2>2, t \in Thread, m \in Nat, NoDisposeChanges
<1>11. /\ FieldsOK' /\ HoldersOK' /\ Spares(t, n)
       /\ \A c : FieldsOn(c)' = FieldsOn(c)
  BY ONLY <1>0, <1>3, <1>7, <1>8, <1>10, t \in Thread, SameCells
<1>12. cells[k].fields[slot] = Nil
  BY SlotFree
<1>13. CallOK(t, n)'
  <2>1. RoomFor(steps, q + 1, cells'[k].fields)
    <3>1. PICK f : f = cells[k].fields
      OBVIOUS
    <3>2. /\ RoomFor(steps, q, f) /\ f[steps[q].slot] = Nil
          /\ StepsOK(steps) /\ q \in DOMAIN steps /\ ~steps[q].drops
      BY <1>1, <1>12, <3>1
    <3>3. RoomFor(steps, q + 1, f)
      BY ONLY <3>2, RoomAfterPut
    <3> QED
      BY ONLY <1>7, <3>1, <3>3
  <2>2. /\ n \in DOMAIN work[t] /\ work[t][n].op = "fill" /\ k = work[t][n].ref
        /\ work'[t][n].at \in 1 .. Len(work[t][n].into) + 1
        /\ RoomFor(work[t][n].into, work'[t][n].at, cells'[k].fields)
        /\ work'[t][n].into = work[t][n].into
    BY <1>1, <1>6, <2>1
  <2>3. cells'[k].from = cells[k].from
    BY ONLY <1>7
  <2> QED
    BY ONLY <1>0, <1>6, <2>2, <2>3, t \in Thread, FillerGoesOn
<1>14. CallOK(t, m)'
  <2>1. /\ work'[t][n].at - 1 = q /\ q \in DOMAIN steps /\ ~steps[q].drops
        /\ steps[q].slot = slot /\ k \in Holder /\ slot \in DOMAIN cells[k].fields
    <3>1. q \in Nat
      BY <1>1
    <3>2. work'[t][n].at - 1 = q
      BY ONLY <1>6, <3>1
    <3> QED
      BY <1>1, <3>2
  <2>2. Placed(t, m)'
    BY ONLY <1>3, <1>4, <1>5, <1>6, <1>7, <1>12, <2>1 DEF Placed
  <2> QED
    BY ONLY <1>4, <1>5, <2>2 DEF CallOK, CopyOK
<1>15. CallsOK'
  <2>1. \A j \in n .. m : j > 0 => CallOK(t, j)'
    BY ONLY <1>3, <1>13, <1>14
  <2> QED
    BY ONLY <1>0, <1>3, <1>5, <1>11, <2>1, t \in Thread, m \in Nat, CallsGoOn
<1>16. Alone("keep")' /\ Alone("dispose")'
  <2>1. ASSUME NEW op \in {"keep", "dispose"} PROVE Alone(op)'
    <3>1. \A j \in n .. m : j > 0 /\ work'[t][j].op = op => j = n /\ GoesOn(t, n)
      BY ONLY <1>3, <1>4, <1>5, <1>6, op \in {"keep", "dispose"}
    <3>2. DOMAIN work[t] = 1 .. n
      BY <1>1
    <3> QED
      BY ONLY <1>0, <1>3, <1>5, <3>1, <3>2, t \in Thread, m \in Nat, op \in {"keep", "dispose"},
              AloneGoesOn
  <2> QED
    BY <2>1
<1>17. CopiesUseAllocator'
  <2>1. \A j \in n .. m : j > 0 /\ work'[t][j].op = "keep" =>
          cells'[work'[t][j].ref].by = override[t]
    BY ONLY <1>3, <1>4, <1>5, <1>6
  <2>2. ASSUME NEW u \in Thread PROVE Asked(u)' = Asked(u)
    <3>1. n <= 1 => n = 1
      BY ONLY <1>3
    <3>2. /\ n = 1 => work[t][n].op # "restore"
          /\ n <= 1 /\ m >= 1 => work'[t][1].op # "restore"
          /\ DOMAIN work[t] = 1 .. n
      BY <1>1, <1>6, <3>1
    <3> QED
      BY ONLY <1>0, <1>3, <1>5, <3>2, t \in Thread, u \in Thread, m \in Nat, AskedKept
  <2> QED
    BY ONLY <1>0, <1>3, <1>5, <1>7, <1>11, <2>1, <2>2, t \in Thread, m \in Nat, AllocatorsGoOn
<1>18. ForwardOK'
  BY ONLY <1>0, <1>7 DEF IInv, ForwardOK
<1>19. ASSUME NEW d \in Cell PROVE CellOK(d)'
  <2>1. IsFiniteSet(CallsOn(d)') /\ Cardinality(CallsOn(d)') = Cardinality(CallsOn(d))
    <3>1. /\ IsFiniteSet(CallsOn(d)')
          /\ Cardinality(CallsOn(d)') = Cardinality(CallsOn(d)) + N(Counts(work'[t][m], d))
      <4>1. IsFiniteSet(CallsOn(d)) /\ DOMAIN work[t] = 1 .. n
        BY <1>0, <1>1, Sums
      <4> QED
        BY ONLY <1>0, <1>2, <1>3, <1>5, <4>1, t \in Thread, m \in Nat, CountInto
    <3>2. N(Counts(work'[t][m], d)) = 0
      BY ONLY <1>4, <1>5 DEF Counts, N
    <3> QED
      BY ONLY <1>0, d \in Cell, <3>1, <3>2, Sums
  <2>2. VarsOn(d)' = VarsOn(d) /\ FieldsOn(d)' = FieldsOn(d) /\ held'[d] = held[d]
    BY ONLY <1>7, <1>11 DEF VarsOn
  <2>3. References(d)' = References(d) /\ IsFiniteSet(FieldsOn(d)')
    BY ONLY <1>0, <2>1, <2>2, d \in Cell, Sums DEF References
  <2> QED
    BY ONLY <1>0, <1>7, <1>10, <2>1, <2>3, d \in Cell, SameCount, ZerosKept DEF CellOK
<1>20. IInv'
  BY ONLY <1>8, <1>11, <1>15, <1>16, <1>17, <1>18, <1>19, Whole
<1>21. \A j \in n .. m : j > 0 =>
         (j = n /\ GoesOn(t, n)) \/ (work'[t][j].ref \notin Holder /\ work'[t][j].op # "fill")
  BY ONLY <1>3, <1>4, <1>5, Distinct
<1> QED
  <2>1. DOMAIN work[t] = 1 .. n
    BY <1>1
  <2> QED
    BY ONLY BInv, <1>3, <1>5, <1>7, <1>20, <1>21, <2>1, t \in Thread, HolderStays

LEMMA OtherOrder ==
  ASSUME NEW S, NEW T, NEW f \in [S -> T], NEW k \in S, NEW x \in S, k # x, NEW a, NEW b
  PROVE  [f EXCEPT ![x] = b, ![k] = a] = [f EXCEPT ![k] = a, ![x] = b]
<1>1. PICK g : g = [f EXCEPT ![x] = b, ![k] = a]
  OBVIOUS
<1>2. PICK h : h = [f EXCEPT ![k] = a, ![x] = b]
  OBVIOUS
<1>3. g = [y \in S |-> IF y = k THEN a ELSE IF y = x THEN b ELSE f[y]]
  BY <1>1
<1>4. h = [y \in S |-> IF y = x THEN b ELSE IF y = k THEN a ELSE f[y]]
  BY <1>2
<1>5. \A y \in S : g[y] = h[y]
  BY <1>3, <1>4
<1>6. g = h
  BY <1>3, <1>4
<1> QED
  BY <1>1, <1>2, <1>6

\* A step of the initialisers or addObject:
LEMMA PutCounts ==
  ASSUME cells \in [Cell \cup Holder -> Content], NEW k \in Holder, NEW x \in Cell, NEW slot,
         cells' = [cells EXCEPT ![k].fields[slot] = x, ![x].rc = Incr(@)]
  PROVE  CountsInto(k, slot, x)
<1>1. k # x
  BY Distinct
<1>2. PICK a : a = [cells[k] EXCEPT !.fields[slot] = x]
  OBVIOUS
<1>3. PICK b : b = [cells[x] EXCEPT !.rc = Incr(@)]
  OBVIOUS
<1>4. [cells EXCEPT ![k].fields[slot] = x, ![x].rc = Incr(@)] = [cells EXCEPT ![k] = a, ![x] = b]
  BY ONLY <1>1, <1>2, <1>3, cells \in [Cell \cup Holder -> Content], k \in Holder, x \in Cell
<1>5. [cells EXCEPT ![x].rc = Incr(@), ![k].fields[slot] = x] = [cells EXCEPT ![x] = b, ![k] = a]
  BY ONLY <1>1, <1>2, <1>3, cells \in [Cell \cup Holder -> Content], k \in Holder, x \in Cell
<1>6. k \in Cell \cup Holder /\ x \in Cell \cup Holder
  OBVIOUS
<1>7. [cells EXCEPT ![x] = b, ![k] = a] = [cells EXCEPT ![k] = a, ![x] = b]
  BY ONLY <1>1, <1>6, cells \in [Cell \cup Holder -> Content], OtherOrder
<1> QED
  BY <1>4, <1>5, <1>7 DEF CountsInto

LEMMA FillStep ==
  ASSUME BInv, NEW t \in Thread, Fill(t)
  PROVE  BInv'
<1>0. TypeOK /\ cells \in [Cell \cup Holder -> Content]
  BY DEF BInv, IInv, TypeOK
<1>1. PICK n : n = Len(work[t])
  OBVIOUS
<1>2. PICK k : k = work[t][n].ref
  OBVIOUS
<1>3. PICK steps : steps = work[t][n].into
  OBVIOUS
<1>4. PICK q : q = work[t][n].at
  OBVIOUS
<1>5. Innermost(t).ref = k /\ Innermost(t).into = steps /\ Innermost(t).at = q
  BY <1>1, <1>2, <1>3, <1>4 DEF Innermost
<1>6. /\ Doing(t, "fill")
      /\ forward' = forward /\ open' = open /\ held' = held /\ override' = override
      /\ IF q > Len(steps) THEN Return(t) /\ UNCHANGED cells
         ELSE \/ /\ steps[q].drops
                 /\ Advance(t, <<Call("release", Items(k)[steps[q].slot], 0, Nil)>>)
                 /\ cells' = [cells EXCEPT ![k].fields[steps[q].slot] = Nil]
              \/ ~steps[q].drops /\ StoreRetained(t, k, steps[q].slot, steps[q].item)
  BY <1>5 DEF Fill
<1>7. CASE q > Len(steps)
  BY <1>6, <1>7, FillReturnStep
<1>8. CASE ~(q > Len(steps))
  <2>1. Filling(t, n, k, steps, q)
    BY <1>1, <1>2, <1>3, <1>4, <1>5, <1>6, <1>8, FillingIs
  <2>2. PICK slot : slot = steps[q].slot
    OBVIOUS
  <2>3. slot \in DOMAIN cells[k].fields /\ slot \in Nat /\ k \in Holder
    BY <2>1, <2>2 DEF Filling, Step
  <2>4. CASE steps[q].drops
    <3>1. PICK call : call = Call("release", Items(k)[slot], 0, Nil)
      OBVIOUS
    <3>2. /\ Advance(t, <<call>>) /\ cells' = [cells EXCEPT ![k].fields[slot] = Nil]
      BY <1>6, <1>8, <2>2, <2>4, <3>1
    <3>3. cells[k].fields[slot] \in Item
      <4>1. cells[k].fields \in Seq(Item)
        BY <1>0, <2>3 DEF Content
      <4>2. DOMAIN cells[k].fields = 1 .. Len(cells[k].fields)
        BY ONLY <4>1, LenProperties
      <4> QED
        BY ONLY <2>3, <4>1, <4>2, ElementOfSeq
    <3>4. call \in RuntimeCall /\ call.op = "release" /\ call.ref = cells[k].fields[slot]
      BY <3>1, <3>3 DEF RuntimeCall, Call, Items
    <3> QED
      BY ONLY BInv, <1>6, <2>1, <2>2, <2>4, <3>2, <3>4, t \in Thread, FillDropStep
  <2>5. CASE ~steps[q].drops
    <3>1. PICK x : x = steps[q].item
      OBVIOUS
    <3>2. StoreRetained(t, k, slot, x)
      BY <1>6, <1>8, <2>2, <2>5, <3>1
    <3>3. CASE /\ x \in Cell /\ Advance(t, <<>>)
               /\ cells' = [cells EXCEPT ![k].fields[slot] = x, ![x].rc = Incr(@)]
      <4>1. CountsInto(k, slot, x)
        BY ONLY <1>0, <2>3, <3>3, PutCounts
      <4> QED
        BY ONLY BInv, <1>6, <2>1, <2>2, <2>5, <3>1, <3>3, <4>1, t \in Thread, FillPutStep
    <3>4. CASE /\ x \in Literal
               /\ Advance(t, <<Call("copy", x, 0, [cell |-> k, at |-> slot])>>)
               /\ UNCHANGED cells
      <4>1. PICK place : place = [cell |-> k, at |-> slot]
        OBVIOUS
      <4>2. place \in Place /\ place.cell = k /\ place.at = slot
        BY <2>3, <4>1 DEF Place
      <4>3. PICK call : call = Call("copy", x, 0, place)
        OBVIOUS
      <4>4. CopiesInto(call, k, slot)
        BY <3>4, <4>2, <4>3 DEF CopiesInto, Call, RuntimeCall
      <4>5. GoesInto(t, call) /\ cells' = cells
        BY <3>4, <4>1, <4>3 DEF GoesInto
      <4> QED
        BY ONLY BInv, <1>6, <2>1, <2>2, <2>5, <4>4, <4>5, t \in Thread, FillCopyStep
    <3> QED
      BY <3>2, <3>3, <3>4 DEF StoreRetained
  <2> QED
    BY <2>4, <2>5
<1> QED
  BY <1>7, <1>8

\* What is known of the item i that is given up by the collection k.
Emptying(t, n, k, i) ==
  /\ n = Len(work[t]) /\ k = work[t][n].ref /\ i = work[t][n].at
  /\ work[t] # <<>> /\ n \in Nat \ {0} /\ DOMAIN work[t] = 1 .. n /\ n \in DOMAIN work[t]
  /\ work[t][n].op = "empty" /\ k \in Holder /\ k \notin Cell /\ Used(k)
  /\ cells[k].fields \in Seq(Item) /\ Len(cells[k].fields) \in Nat
  /\ DOMAIN cells[k].fields = 1 .. Len(cells[k].fields)
  /\ i \in 1 .. Len(cells[k].fields) + 1
  /\ \A j : Dropped(k, j) <=> j < i
  /\ \A u \in Thread : \A j \in DOMAIN work[u] : work[u][j].ref = k => u = t /\ j = n

LEMMA EmptyingIs ==
  ASSUME BInv, NEW t \in Thread, Doing(t, "empty"),
         NEW n, n = Len(work[t]), NEW k, k = work[t][n].ref, NEW i, i = work[t][n].at
  PROVE  Emptying(t, n, k, i)
<1>0. IInv /\ TypeOK /\ HoldersAlone
  BY DEF BInv, IInv
<1>1. /\ work[t] # <<>> /\ n \in Nat \ {0} /\ DOMAIN work[t] = 1 .. n /\ n \in DOMAIN work[t]
      /\ work[t][n].op = "empty" /\ CallOK(t, n)
  BY <1>0, DoingCall
<1>2. k \in Holder /\ Used(k) /\ i \in 1 .. Len(cells[k].fields) + 1
  BY <1>1 DEF CallOK, EmptyOK
<1>3. /\ k \notin Cell /\ cells[k].fields \in Seq(Item) /\ Len(cells[k].fields) \in Nat
      /\ DOMAIN cells[k].fields = 1 .. Len(cells[k].fields)
  <2>1. cells[k].fields \in Seq(Item)
    BY <1>0, <1>2 DEF TypeOK, Content
  <2> QED
    BY ONLY <1>2, <2>1, LenProperties, Distinct
<1>4. ASSUME NEW u \in Thread, NEW j \in DOMAIN work[u], work[u][j].ref = k PROVE u = t /\ j = n
  <2>1. <<u, j>> \in Calls /\ <<t, n>> \in Calls
    BY <1>1, CallsAre
  <2>2. CallAt(<<u, j>>) = work[u][j] /\ CallAt(<<t, n>>) = work[t][n]
    BY DEF CallAt
  <2>3. <<u, j>> = <<t, n>>
    BY <1>0, <1>2, <1>4, <2>1, <2>2 DEF HoldersAlone
  <2> QED
    BY <2>3
<1>5. ASSUME NEW j PROVE Dropped(k, j) <=> j < i
  <2>1. ASSUME NEW u \in Thread, NEW l \in DOMAIN work[u], Drops(work[u][l], k, j)
        PROVE  j < i
    <3>1. u = t /\ l = n
      BY <1>4, <2>1 DEF Drops
    <3> QED
      BY <2>1, <3>1 DEF Drops
  <2>2. j < i => Drops(work[t][n], k, j)
    BY <1>1 DEF Drops
  <2> QED
    BY <1>1, <2>1, <2>2, DroppedIs
<1> QED
  BY <1>1, <1>2, <1>3, <1>4, <1>5 DEF Emptying

\* Of the others nothing is disposed of or dropped when a collection is emptied.
LEMMA EmptierSpares ==
  ASSUME NEW t, NEW n, NEW k, NEW i, Emptying(t, n, k, i),
         \A y \in Cell \cup Holder : y # k => Keeps(y)
  PROVE  Spares(t, n)
<1> SUFFICES ASSUME NEW u \in Thread, NEW j \in DOMAIN work[u], u = t => j < n, Relies(work[u][j])
             PROVE  Keeps(work[u][j].ref)
  BY DEF Spares
<1>1. n \in Nat
  BY DEF Emptying
<1>2. ~(u = t /\ j = n)
  BY ONLY <1>1, u = t => j < n
<1>3. work[u][j].ref # k
  BY <1>2 DEF Emptying
<1> QED
  BY <1>3 DEF Relies

\* A collection gives up all its items, and its memory is freed.
LEMMA EmptyEndStep ==
  ASSUME BInv, NEW t \in Thread, NEW n, NEW k, NEW i, Emptying(t, n, k, i),
         i > Len(cells[k].fields), Return(t), cells' = [cells EXCEPT ![k] = Unused],
         forward' = forward, open' = open, held' = held, override' = override
  PROVE  BInv'
<1>0. IInv /\ TypeOK /\ cells \in [Cell \cup Holder -> Content]
  BY DEF BInv, IInv, TypeOK
<1>1. /\ n = Len(work[t]) /\ k = work[t][n].ref /\ i = work[t][n].at
      /\ work[t] # <<>> /\ n \in Nat \ {0} /\ DOMAIN work[t] = 1 .. n /\ n \in DOMAIN work[t]
      /\ work[t][n].op = "empty" /\ k \in Holder /\ k \notin Cell
      /\ DOMAIN cells[k].fields = 1 .. Len(cells[k].fields) /\ Len(cells[k].fields) \in Nat
      /\ i \in 1 .. Len(cells[k].fields) + 1 /\ \A j : Dropped(k, j) <=> j < i
  BY DEF Emptying
<1>2. PICK m \in Nat : m = n - 1
  <2>1. n \in Nat \ {0}
    BY <1>1
  <2> QED
    BY ONLY <2>1
<1>3. /\ n \in Nat /\ n > 0 /\ m \in Int /\ m >= n - 1 /\ 1 .. n - 1 \subseteq DOMAIN work[t]
      /\ \A j \in n .. m : FALSE
      /\ \A j \in 1 .. m : ~(j >= n)
      /\ ~(n <= 1 /\ m >= 1)
  <2>1. n \in Nat \ {0} /\ DOMAIN work[t] = 1 .. n
    BY <1>1
  <2> QED
    BY ONLY <1>2, <2>1, m \in Nat
<1>4. OnlyTop(t, n) /\ DOMAIN work'[t] = 1 .. m /\ work' \in [Thread -> Seq(RuntimeCall)]
  <2>1. OnlyTop(t, n) /\ DOMAIN work'[t] = 1 .. n - 1
    BY <1>0, <1>1, Returned
  <2>2. PICK s : s = Outer(t)
    OBVIOUS
  <2>3. work' = [work EXCEPT ![t] = s]
    BY <2>2 DEF Return
  <2>4. work' \in [Thread -> Seq(RuntimeCall)]
    BY ONLY <1>0, <1>3, <2>1, <2>3, t \in Thread, WorkTyped
  <2> QED
    BY ONLY <1>2, <2>1, <2>4
<1>5. /\ cells' \in [Cell \cup Holder -> Content] /\ cells'[k] = Unused
      /\ \A y \in Cell \cup Holder : y # k => cells'[y] = cells[y]
  <2>1. cells' = [cells EXCEPT ![k] = Unused] /\ k \in Holder
    BY <1>1
  <2> QED
    BY ONLY <1>0, <2>1, UnusedTyped
<1>6. TypeOK'
  BY <1>0, <1>4, <1>5 DEF TypeOK
<1>7. /\ \A c \in Cell : Keeps(c) /\ cells'[c] = cells[c]
      /\ \A y \in Cell \cup Holder : y # k => Keeps(y)
  BY <1>1, <1>5 DEF Keeps
<1>8. /\ \A d : d # k => DisposesOf(d)' = DisposesOf(d)
      /\ \A d, j : d # k => (Dropped(d, j)' <=> Dropped(d, j))
  <2>1. EndsOnly(t, n, m, k) /\ DOMAIN work[t] = 1 .. n
    BY <1>1, <1>3 DEF EndsOnly
  <2> QED
    BY ONLY <1>0, <1>3, <1>4, <2>1, t \in Thread, m \in Nat, OtherDisposes
<1>9. FieldsOK' /\ HoldersOK' /\ Spares(t, n)
  <2>1. FieldsOK'
    <3>1. \A c \in Cell : c # k
      BY <1>1
    <3> QED
      BY ONLY <1>0, <1>6, <1>7, <1>8, <3>1, FieldsOKKept
  <2>2. HoldersOK'
    BY <1>0, <1>5 DEF IInv, HoldersOK, Unused
  <2>3. Spares(t, n)
    BY ONLY <1>7, Emptying(t, n, k, i), EmptierSpares
  <2> QED
    BY <2>1, <2>2, <2>3
<1>10. \A c \in Cell : FieldsOn(c)' = FieldsOn(c)
  <2> SUFFICES ASSUME NEW c \in Cell, NEW d \in Cell \cup Holder, NEW j
               PROVE  FieldOn(d, j, c)' <=> FieldOn(d, j, c)
    BY FieldsSame
  <2>1. CASE d # k
    BY <1>5, <1>8, <2>1 DEF FieldOn
  <2>2. CASE d = k
    <3>1. ~FieldOn(k, j, c)
      <4>1. i > Len(cells[k].fields)
        OBVIOUS
      <4>2. j \in DOMAIN cells[k].fields => j < i
        BY ONLY <1>1, <4>1
      <4> QED
        BY <1>1, <4>2 DEF FieldOn
    <3>2. ~FieldOn(k, j, c)'
      BY <1>5 DEF FieldOn, Unused
    <3> QED
      BY ONLY <2>2, <3>1, <3>2
  <2> QED
    BY <2>1, <2>2
<1>11. CallsOK'
  BY ONLY <1>0, <1>3, <1>4, <1>9, t \in Thread, m \in Nat, CallsGoOn
<1>12. Alone("keep")' /\ Alone("dispose")'
  <2>1. ASSUME NEW op \in {"keep", "dispose"} PROVE Alone(op)'
    <3>1. DOMAIN work[t] = 1 .. n
      BY <1>1
    <3> QED
      BY ONLY <1>0, <1>3, <1>4, <3>1, t \in Thread, m \in Nat, op \in {"keep", "dispose"}, AloneGoesOn
  <2> QED
    BY <2>1
<1>13. CopiesUseAllocator'
  <2>1. ASSUME NEW u \in Thread PROVE Asked(u)' = Asked(u)
    <3>1. DOMAIN work[t] = 1 .. n /\ (n = 1 => work[t][n].op # "restore")
      BY <1>1
    <3> QED
      BY ONLY <1>0, <1>3, <1>4, <3>1, t \in Thread, u \in Thread, m \in Nat, AskedKept
  <2>2. override' = override
    OBVIOUS
  <2> QED
    BY ONLY <1>0, <1>3, <1>4, <1>9, <2>1, <2>2, t \in Thread, m \in Nat, AllocatorsGoOn
<1>14. ForwardOK'
  <2>1. forward' = forward
    OBVIOUS
  <2> QED
    BY ONLY <1>0, <1>7, <2>1, ForwardKept
<1>15. ASSUME NEW d \in Cell PROVE CellOK(d)'
  <2>1. CallsOn(d)' = CallsOn(d)
    <3>1. ~Counts(work[t][n], d) /\ DOMAIN work[t] = 1 .. n
      BY <1>1 DEF Counts
    <3> QED
      BY ONLY <1>0, <1>3, <1>4, <3>1, t \in Thread, m \in Nat, CountNone
  <2>2. VarsOn(d)' = VarsOn(d) /\ FieldsOn(d)' = FieldsOn(d) /\ held'[d] = held[d]
    BY <1>10 DEF VarsOn
  <2>3. /\ References(d)' = References(d)
        /\ IsFiniteSet(CallsOn(d)') /\ IsFiniteSet(FieldsOn(d)')
    BY ONLY <1>0, <2>1, <2>2, d \in Cell, Sums DEF References
  <2>4. d # k
    BY <1>1
  <2> QED
    BY ONLY <1>0, <1>7, <1>8, <2>3, <2>4, d \in Cell, SameCount, ZerosKept DEF CellOK
<1>16. IInv'
  BY ONLY <1>6, <1>9, <1>11, <1>12, <1>13, <1>14, <1>15, Whole
<1> QED
  <2>1. DOMAIN work[t] = 1 .. n /\ held' = held
    BY <1>1
  <2> QED
    BY ONLY BInv, <1>3, <1>4, <1>16, <2>1, t \in Thread, HolderStays

\* A collection gives up an item: the call that releases it has the reference
\* that the collection had.
LEMMA EmptyValueStep ==
  ASSUME BInv, NEW t \in Thread, NEW n, NEW k, NEW i, Emptying(t, n, k, i),
         ~(i > Len(cells[k].fields)),
         NEW call, call.op = "release", call.ref = cells[k].fields[i], call = Call("release", cells[k].fields[i], 0, Nil),
         Advance(t, <<call>>), cells' = cells,
         forward' = forward, open' = open, held' = held, override' = override
  PROVE  BInv'
<1>0. IInv /\ TypeOK
  BY DEF BInv, IInv
<1>1. /\ n = Len(work[t]) /\ k = work[t][n].ref /\ i = work[t][n].at
      /\ work[t] # <<>> /\ n \in Nat \ {0} /\ DOMAIN work[t] = 1 .. n /\ n \in DOMAIN work[t]
      /\ work[t][n].op = "empty" /\ k \in Holder /\ k \notin Cell /\ Used(k)
      /\ cells[k].fields \in Seq(Item) /\ Len(cells[k].fields) \in Nat
      /\ DOMAIN cells[k].fields = 1 .. Len(cells[k].fields)
      /\ i \in 1 .. Len(cells[k].fields) + 1 /\ \A j : Dropped(k, j) <=> j < i
  BY DEF Emptying
<1>2. PICK m \in Nat : m = n + 1
  <2>1. n \in Nat
    BY <1>1
  <2> QED
    BY ONLY <2>1
<1>3. /\ n \in Nat /\ n \in Int /\ n > 0 /\ m \in Int /\ m >= n - 1 /\ n # m /\ m > 1
      /\ n \in 1 .. m /\ 1 .. n - 1 \subseteq DOMAIN work[t]
      /\ \A j \in n .. m : j = n \/ j = m
      /\ \A j \in 1 .. m : j >= n => j = n \/ j = m
  <2>1. n \in Nat \ {0} /\ DOMAIN work[t] = 1 .. n
    BY <1>1
  <2> QED
    BY ONLY <1>2, <2>1, m \in Nat
<1>4. /\ i \in Nat /\ i \in DOMAIN cells[k].fields /\ i + 1 \in 1 .. Len(cells[k].fields) + 1
      /\ i < i + 1 /\ \A j \in DOMAIN cells[k].fields : j # i => (j < i + 1 <=> j < i)
  <2>1. ~(i > Len(cells[k].fields))
    OBVIOUS
  <2>2. PICK l \in Nat : l = Len(cells[k].fields)
    BY <1>1
  <2>3. ~(i > l) /\ i \in 1 .. l + 1 /\ DOMAIN cells[k].fields = 1 .. l
    BY ONLY <1>1, <2>1, <2>2
  <2>4. /\ i \in Nat /\ i \in 1 .. l /\ i + 1 \in 1 .. l + 1 /\ i < i + 1
        /\ \A j \in 1 .. l : j # i => (j < i + 1 <=> j < i)
    BY ONLY <2>3, l \in Nat
  <2> QED
    BY ONLY <2>2, <2>3, <2>4
<1>5. call.op = "release" /\ call.ref = cells[k].fields[i] /\ call.ref \in Item /\ call \in RuntimeCall
  <2>1. call.ref \in Item
    BY ONLY <1>1, <1>4, call.ref = cells[k].fields[i], ElementOfSeq
  <2> QED
    BY <2>1 DEF Call, RuntimeCall
<1>6. /\ OnlyTop(t, n) /\ DOMAIN work'[t] = 1 .. m /\ GoesOn(t, n) /\ work'[t][m] = call
      /\ work' \in [Thread -> Seq(RuntimeCall)]
  <2>1. /\ OnlyTop(t, n) /\ DOMAIN work'[t] = 1 .. n + 1
        /\ GoesOn(t, n) /\ work'[t][n + 1] = call
    BY <1>0, <1>1, <1>5, AdvancedInto
  <2>2. PICK s : s = Append(Outer(t), [Innermost(t) EXCEPT !.at = @ + 1]) \o <<call>>
    OBVIOUS
  <2>3. work' = [work EXCEPT ![t] = s]
    BY <2>2 DEF Advance
  <2>4. work' \in [Thread -> Seq(RuntimeCall)]
    BY ONLY <1>0, <1>3, <2>1, <2>3, t \in Thread, WorkTyped
  <2> QED
    BY ONLY <1>2, <2>1, <2>4
<1>7. work'[t][n].op = "empty" /\ work'[t][n].ref = k /\ work'[t][n].at = i + 1
  BY <1>1, <1>6 DEF GoesOn
<1>8. cells' = cells /\ forward' = forward /\ held' = held /\ override' = override
  OBVIOUS
<1>9. TypeOK'
  BY <1>0, <1>6, <1>8 DEF TypeOK
<1>10. /\ \A d : d # k => DisposesOf(d)' = DisposesOf(d)
       /\ \A d, j : d # k => (Dropped(d, j)' <=> Dropped(d, j))
  <2>1. EndsOnly(t, n, m, k) /\ DOMAIN work[t] = 1 .. n
    <3>1. work[t][n].ref = k /\ DOMAIN work[t] = 1 .. n
      BY <1>1
    <3>2. \A j \in 1 .. m : j >= n /\ work'[t][j].op \in {"dispose", "empty"} => work'[t][j].ref = k
      BY ONLY <1>3, <1>5, <1>6, <1>7
    <3> QED
      BY ONLY <3>1, <3>2 DEF EndsOnly
  <2> QED
    BY ONLY <1>0, <1>3, <1>6, <2>1, t \in Thread, m \in Nat, OtherDisposes
<1>11. ASSUME NEW j \in Int PROVE Dropped(k, j)' <=> j < i + 1
  <2>1. ASSUME NEW u \in Thread, NEW l \in DOMAIN work'[u], Drops(work'[u][l], k, j)
        PROVE  j < i + 1 \/ j < i
    <3>1. CASE u = t /\ l >= n
      <4>1. l = n
        BY <1>3, <1>5, <1>6, <2>1, <3>1 DEF Drops
      <4> QED
        BY <1>7, <2>1, <3>1, <4>1 DEF Drops
    <3>2. CASE u = t => l < n
      <4>1. l \in DOMAIN work[u] /\ work'[u][l] = work[u][l]
        <5>1. CASE u = t
          <6>1. l \in 1 .. n - 1
            BY <1>3, <1>6, <2>1, <3>2, <5>1
          <6> QED
            BY <1>3, <1>6, <5>1, <6>1 DEF OnlyTop
        <5>2. CASE u # t
          BY <1>6, <2>1, <5>2 DEF OnlyTop
        <5> QED
          BY <5>1, <5>2
      <4>2. Dropped(k, j)
        BY <2>1, <4>1, DroppedIs
      <4> QED
        BY <1>1, <4>2
    <3>3. u = t => l \in 1 .. m
      BY <1>6, <2>1
    <3> QED
      BY <1>3, <3>1, <3>2, <3>3
  <2>2. j < i => j < i + 1
    BY ONLY <1>4, j \in Int
  <2>3. ASSUME j < i + 1 PROVE Dropped(k, j)'
    <3>1. n \in DOMAIN work'[t] /\ Drops(work'[t][n], k, j)
      BY <1>3, <1>6, <1>7, <2>3 DEF Drops
    <3> QED
      BY <3>1, DroppedIsNext
  <2> QED
    BY <2>1, <2>2, <2>3, DroppedIsNext
<1>12. \A y \in Cell \cup Holder : Keeps(y)
  BY <1>8 DEF Keeps
<1>13. FieldsOK' /\ HoldersOK' /\ Spares(t, n)
  <2>1. FieldsOK'
    <3>1. \A c \in Cell : c # k
      BY <1>1
    <3> QED
      BY ONLY <1>0, <1>9, <1>10, <1>12, <3>1, FieldsOKKept
  <2>2. HoldersOK'
    BY ONLY <1>0, <1>8 DEF IInv, HoldersOK
  <2>3. Spares(t, n)
    BY ONLY <1>12, Emptying(t, n, k, i), EmptierSpares
  <2> QED
    BY <2>1, <2>2, <2>3
\* The only field that changes is the one that the call has.
<1>14. ASSUME NEW x
       PROVE  /\ FieldOn(k, i, x) <=> x = call.ref
              /\ ~FieldOn(k, i, x)'
              /\ \A e \in Cell \cup Holder : \A j :
                   e # k \/ j # i => (FieldOn(e, j, x)' <=> FieldOn(e, j, x))
  <2>1. FieldOn(k, i, x) <=> x = call.ref
    <3>1. ~(i < i)
      BY ONLY <1>4
    <3> QED
      BY ONLY <1>1, <1>4, <1>5, <3>1 DEF FieldOn
  <2>2. ~FieldOn(k, i, x)'
    BY ONLY <1>4, <1>11 DEF FieldOn
  <2>3. ASSUME NEW e \in Cell \cup Holder, NEW j, e # k \/ j # i
        PROVE  FieldOn(e, j, x)' <=> FieldOn(e, j, x)
    <3>1. CASE e # k
      BY ONLY <1>8, <1>10, <3>1 DEF FieldOn
    <3>2. CASE e = k
      <4>1. j \in DOMAIN cells[k].fields => (Dropped(k, j)' <=> Dropped(k, j))
        <5>1. j \in DOMAIN cells[k].fields => j \in Int
          BY ONLY <1>1
        <5> QED
          BY ONLY <1>1, <1>4, <1>11, <2>3, <3>2, <5>1
      <4> QED
        BY ONLY <1>8, <3>2, <4>1 DEF FieldOn
    <3> QED
      BY <3>1, <3>2
  <2> QED
    BY <2>1, <2>2, <2>3
<1>15. CallsOK'
  <2>1. CallOK(t, n)'
    BY ONLY <1>1, <1>4, <1>7, <1>8 DEF CallOK, EmptyOK, Used
  <2>2. CallOK(t, m)'
    BY ONLY <1>5, <1>6 DEF CallOK
  <2>3. \A j \in n .. m : j > 0 => CallOK(t, j)'
    BY ONLY <1>3, <2>1, <2>2
  <2> QED
    BY ONLY <1>0, <1>3, <1>6, <1>13, <2>3, t \in Thread, m \in Nat, CallsGoOn
<1>16. Alone("keep")' /\ Alone("dispose")'
  <2>1. ASSUME NEW op \in {"keep", "dispose"} PROVE Alone(op)'
    <3>1. \A j \in n .. m : j > 0 /\ work'[t][j].op = op => j = n /\ GoesOn(t, n)
      BY ONLY <1>3, <1>5, <1>6, <1>7, op \in {"keep", "dispose"}
    <3>2. DOMAIN work[t] = 1 .. n
      BY <1>1
    <3> QED
      BY ONLY <1>0, <1>3, <1>6, <3>1, <3>2, t \in Thread, m \in Nat, op \in {"keep", "dispose"},
              AloneGoesOn
  <2> QED
    BY <2>1
<1>17. CopiesUseAllocator'
  <2>1. \A j \in n .. m : j > 0 /\ work'[t][j].op = "keep" =>
          cells'[work'[t][j].ref].by = override[t]
    BY ONLY <1>3, <1>5, <1>6, <1>7
  <2>2. ASSUME NEW u \in Thread PROVE Asked(u)' = Asked(u)
    <3>1. n <= 1 => n = 1
      BY ONLY <1>3
    <3>2. /\ n = 1 => work[t][n].op # "restore"
          /\ n <= 1 /\ m >= 1 => work'[t][1].op # "restore"
          /\ DOMAIN work[t] = 1 .. n
      BY <1>1, <1>7, <3>1
    <3> QED
      BY ONLY <1>0, <1>3, <1>6, <3>2, t \in Thread, u \in Thread, m \in Nat, AskedKept
  <2> QED
    BY ONLY <1>0, <1>3, <1>6, <1>8, <1>13, <2>1, <2>2, t \in Thread, m \in Nat, AllocatorsGoOn
<1>18. ForwardOK'
  BY ONLY <1>0, <1>8 DEF IInv, ForwardOK
<1>19. ASSUME NEW d \in Cell PROVE CellOK(d)'
  <2>1. PICK x \in 0 .. 1 : x = N(d = call.ref)
    BY DEF N
  <2>2. IsFiniteSet(CallsOn(d)') /\ Cardinality(CallsOn(d)') = Cardinality(CallsOn(d)) + x
    <3>1. /\ IsFiniteSet(CallsOn(d)')
          /\ Cardinality(CallsOn(d)') = Cardinality(CallsOn(d)) + N(Counts(work'[t][m], d))
      <4>1. IsFiniteSet(CallsOn(d)) /\ DOMAIN work[t] = 1 .. n
        BY <1>0, <1>1, Sums
      <4> QED
        BY ONLY <1>0, <1>2, <1>3, <1>6, <4>1, t \in Thread, m \in Nat, CountInto
    <3>2. N(Counts(work'[t][m], d)) = x
      BY <1>5, <1>6, <2>1 DEF Counts, N
    <3> QED
      BY <3>1, <3>2
  <2>3. IsFiniteSet(FieldsOn(d)') /\ Cardinality(FieldsOn(d)') = Cardinality(FieldsOn(d)) + (0 - x)
    <3>1. /\ IsFiniteSet(FieldsOn(d)')
          /\ Cardinality(FieldsOn(d)') = Cardinality(FieldsOn(d)) - N(FieldOn(k, i, d))
      <4>1. IsFiniteSet(FieldsOn(d)) /\ k \in Cell \cup Holder
        BY <1>0, <1>1, Sums
      <4>2. /\ ~FieldOn(k, i, d)'
            /\ \A e \in Cell \cup Holder : \A j :
                 e # k \/ j # i => (FieldOn(e, j, d)' <=> FieldOn(e, j, d))
        BY <1>14
      <4> QED
        BY ONLY <4>1, <4>2, FieldLost
    <3>2. N(FieldOn(k, i, d)) = x
      BY <1>14, <2>1 DEF N
    <3> QED
      BY <1>0, <3>1, <3>2, Sums
  <2>4. VarsOn(d)' = VarsOn(d) /\ held'[d] = held[d]
    BY <1>8 DEF VarsOn
  <2>5. References(d)' = References(d)
    BY ONLY <1>0, <2>2, <2>3, <2>4, x \in 0 .. 1, d \in Cell, Sums DEF References
  <2>6. d # k
    BY <1>1
  <2> QED
    BY ONLY <1>0, <1>8, <1>10, <2>2, <2>3, <2>5, <2>6, d \in Cell, SameCount, ZerosKept DEF CellOK
<1>20. IInv'
  BY ONLY <1>9, <1>13, <1>15, <1>16, <1>17, <1>18, <1>19, Whole
<1>21. \A j \in n .. m : j > 0 =>
         (j = n /\ GoesOn(t, n)) \/ (work'[t][j].ref \notin Holder /\ work'[t][j].op # "fill")
  <2>1. call.ref \notin Holder
    BY ONLY <1>5, Distinct DEF Item
  <2> QED
    BY ONLY <1>3, <1>5, <1>6, <2>1
<1> QED
  <2>1. DOMAIN work[t] = 1 .. n
    BY <1>1
  <2> QED
    BY ONLY BInv, <1>3, <1>6, <1>8, <1>20, <1>21, <2>1, t \in Thread, HolderStays

\* A step of -dealloc
LEMMA EmptyStep ==
  ASSUME BInv, NEW t \in Thread, Empty(t)
  PROVE  BInv'
<1>1. PICK n : n = Len(work[t])
  OBVIOUS
<1>2. PICK k : k = work[t][n].ref
  OBVIOUS
<1>3. PICK i : i = work[t][n].at
  OBVIOUS
<1>4. Innermost(t).ref = k /\ Innermost(t).at = i
  BY <1>1, <1>2, <1>3 DEF Innermost
<1>5. /\ Doing(t, "empty")
      /\ forward' = forward /\ open' = open /\ held' = held /\ override' = override
      /\ IF i > Len(cells[k].fields)
         THEN Return(t) /\ cells' = [cells EXCEPT ![k] = Unused]
         ELSE /\ Advance(t, <<Call("release", cells[k].fields[i], 0, Nil)>>)
              /\ cells' = cells
  BY <1>4 DEF Empty, Items
<1>6. Emptying(t, n, k, i)
  BY <1>1, <1>2, <1>3, <1>5, EmptyingIs
<1>7. CASE i > Len(cells[k].fields)
  BY ONLY BInv, <1>5, <1>6, <1>7, t \in Thread, EmptyEndStep
<1>8. CASE ~(i > Len(cells[k].fields))
  <2>1. PICK call : call = Call("release", cells[k].fields[i], 0, Nil)
    OBVIOUS
  <2>2. call.op = "release" /\ call.ref = cells[k].fields[i]
    BY <2>1 DEF Call
  <2>3. Advance(t, <<call>>) /\ cells' = cells
    BY <1>5, <1>8, <2>1
  <2> QED
    BY ONLY BInv, <1>5, <1>6, <1>8, <2>1, <2>2, <2>3, t \in Thread, EmptyValueStep
<1> QED
  BY <1>7, <1>8
-----------------------------------------------------------------------------
(* The keys of maps *)

\* Keys are in the odd slots. Two that are equal for a map are one block or
\* global, which is not copied.
Odd(slot) == slot % 2 = 1
Shared == Cell \cup Global
KeyPut(steps, i) == ~steps[i].drops /\ Odd(steps[i].slot) /\ steps[i].item \in Shared

KeysApart(steps) ==
  \A i, j \in DOMAIN steps :
    KeyPut(steps, i) /\ KeyPut(steps, j) /\ steps[i].item = steps[j].item
      => steps[i].slot = steps[j].slot
OddApart(fields) ==
  \A i, j \in DOMAIN fields : Odd(i) /\ Odd(j) /\ fields[i] = fields[j] => i = j \/ fields[i] = Nil
\* A key that is to be put into a slot is in no other one.
Unplaced(steps, fields) ==
  \A j \in DOMAIN steps : KeyPut(steps, j) =>
    \A s \in DOMAIN fields : Odd(s) /\ fields[s] = steps[j].item => s = steps[j].slot

MapOK(k) ==
  cells[k].from = "map" =>
    /\ OddApart(cells[k].fields)
    /\ \A u \in Thread : \A n \in DOMAIN work[u] :
         work[u][n].op = "fill" /\ work[u][n].ref = k =>
           KeysApart(work[u][n].into) /\ Unplaced(work[u][n].into, cells[k].fields)
MapsOK == \A k \in Holder : MapOK(k)

\* A block that is being made has one reference, that of the call that makes it.
Fresh ==
  \A u \in Thread : \A n \in DOMAIN work[u] :
    work[u][n].op = "keep" => cells[work[u][n].ref].rc = 1

\* What a collection copies is what its step puts.
CopiesFor(call, outer) ==
  call.op = "copy" /\ call.into # Nil /\ call.into.cell \in Holder =>
    outer.into[outer.at - 1].item = call.ref
Linked ==
  \A u \in Thread : \A n \in DOMAIN work[u] : CopiesFor(work[u][n], work[u][n - 1])

KeysInv == Fresh /\ Linked /\ MapsOK

LEMMA KeptAlone ==
  ASSUME BInv, Fresh, NEW t \in Thread, NEW n \in DOMAIN work[t], work[t][n].op = "keep",
         NEW c, c = work[t][n].ref
  PROVE  /\ c \in Cell /\ Used(c) /\ cells[c].rc = 1
         /\ held[c] = 0 /\ VarsOn(c) = {} /\ FieldsOn(c) = {} /\ CallsOn(c) = {<<t, n>>}
<1>0. IInv
  BY DEF BInv
<1>1. c \in Cell /\ cells[c].from \in Literal
  BY <1>0 DEF IInv, CallsOK, CallOK, KeepOK
<1>2. Used(c) /\ cells[c].rc = 1
  BY <1>1, Distinct DEF Used, Fresh
<1>3. References(c) = 1
  BY <1>0, <1>1, <1>2, Distinct DEF IInv, HeapCountsExact
<1>4. /\ held[c] \in Nat /\ IsFiniteSet(VarsOn(c)) /\ IsFiniteSet(CallsOn(c))
      /\ IsFiniteSet(FieldsOn(c)) /\ Cardinality(VarsOn(c)) \in Nat
      /\ Cardinality(CallsOn(c)) \in Nat /\ Cardinality(FieldsOn(c)) \in Nat
  BY <1>0, <1>1, Sums
<1>5. <<t, n>> \in CallsOn(c)
  BY CallsOnAre DEF Counts
<1>6. Cardinality(CallsOn(c)) # 0
  BY <1>4, <1>5, FS_EmptySet
<1>7. held[c] = 0 /\ Cardinality(VarsOn(c)) = 0 /\ Cardinality(CallsOn(c)) = 1 /\ Cardinality(FieldsOn(c)) = 0
  BY <1>3, <1>4, <1>6 DEF References
<1>8. VarsOn(c) = {} /\ FieldsOn(c) = {}
  BY <1>4, <1>7, FS_EmptySet
<1>9. CallsOn(c) = {<<t, n>>}
  BY <1>4, <1>5, <1>7, FS_Singleton
<1> QED
  BY <1>1, <1>2, <1>7, <1>8, <1>9

\* The count of a block changes only if something refers to it that is not its
\* making.
CountsMove ==
  \A c \in Cell :
    \/ cells'[c].rc = cells[c].rc \/ cells[c].rc # 1 \/ held[c] > 0 \/ VarsOn(c) # {}
    \/ \E u \in Thread : \E n \in DOMAIN work[u] :
         work[u][n].op \in {"release", "byref"} /\ work[u][n].ref = c
KeepsCome ==
  \A u \in Thread : \A n \in DOMAIN work'[u] :
    work'[u][n].op = "keep" =>
      \/ n \in DOMAIN work[u] /\ work[u][n].op = "keep" /\ work[u][n].ref = work'[u][n].ref
      \/ cells'[work'[u][n].ref].rc = 1

LEMMA FreshKept ==
  ASSUME BInv, Fresh, CountsMove, KeepsCome
  PROVE  Fresh'
<1> SUFFICES ASSUME NEW u \in Thread, NEW n \in DOMAIN work'[u], work'[u][n].op = "keep"
             PROVE  cells'[work'[u][n].ref].rc = 1
  BY DEF Fresh
<1>1. CASE cells'[work'[u][n].ref].rc = 1
  BY <1>1
<1>2. CASE n \in DOMAIN work[u] /\ work[u][n].op = "keep" /\ work[u][n].ref = work'[u][n].ref
  <2>1. PICK c : c = work[u][n].ref
    OBVIOUS
  <2>2. /\ c \in Cell /\ cells[c].rc = 1 /\ held[c] = 0 /\ VarsOn(c) = {}
        /\ CallsOn(c) = {<<u, n>>}
    BY <1>2, <2>1, KeptAlone
  <2>3. ASSUME NEW w \in Thread, NEW m \in DOMAIN work[w],
               work[w][m].op \in {"release", "byref"}, work[w][m].ref = c
        PROVE  FALSE
    <3>1. <<w, m>> \in CallsOn(c)
      BY <2>3, CallsOnAre DEF Counts
    <3>2. w = u /\ m = n
      BY <2>2, <3>1
    <3> QED
      BY <1>2, <2>3, <3>2
  <2>4. cells'[c].rc = cells[c].rc
    BY <2>2, <2>3 DEF CountsMove
  <2> QED
    BY <1>2, <2>1, <2>2, <2>4
<1> QED
  BY <1>1, <1>2 DEF KeepsCome

LEMMA LinkedKept ==
  ASSUME BInv, Linked, NEW t \in Thread, NEW n \in Nat, NEW m \in Int, OnlyTop(t, n),
         DOMAIN work[t] = 1 .. n, DOMAIN work'[t] = 1 .. m,
         \A k \in n .. m : k > 0 => CopiesFor(work'[t][k], work'[t][k - 1])
  PROVE  Linked'
<1> SUFFICES ASSUME NEW u \in Thread, NEW k \in DOMAIN work'[u]
             PROVE  CopiesFor(work'[u][k], work'[u][k - 1])
  BY DEF Linked, CopiesFor
<1>0. TypeOK /\ CallsOK
  BY DEF BInv, IInv
<1>1. CASE u # t
  <2>1. work'[u] = work[u]
    BY <1>1 DEF OnlyTop
  <2> QED
    BY <2>1 DEF Linked
<1>2. CASE u = t /\ k < n
  <2>1. k \in 1 .. n - 1 /\ k \in 1 .. n
    BY <1>2
  <2>2. work'[t][k] = work[t][k] /\ k \in DOMAIN work[t]
    BY <2>1 DEF OnlyTop
  <2>3. CopiesFor(work[t][k], work[t][k - 1])
    BY <2>2 DEF Linked
  <2>4. CASE k > 1
    <3>1. k - 1 \in 1 .. n - 1
      BY <2>1, <2>4
    <3>2. work'[t][k - 1] = work[t][k - 1]
      BY <3>1 DEF OnlyTop
    <3> QED
      BY <1>2, <2>2, <2>3, <3>2
  <2>5. CASE ~(k > 1)
    <3>1. work[t][k].op = "copy" => work[t][k].into = Nil
      BY <1>0, <2>2, <2>5 DEF CallsOK, CallOK, CopyOK, Placed
    <3> QED
      BY <1>2, <2>2, <3>1 DEF CopiesFor
  <2> QED
    BY <2>4, <2>5
<1>3. CASE u = t /\ k >= n
  <2>1. k \in n .. m /\ k > 0
    BY <1>3
  <2> QED
    BY <1>3, <2>1
<1>4. k \in Int
  BY <1>0, StackTop DEF OnlyTop
<1> QED
  BY <1>1, <1>2, <1>3, <1>4

LEMMA KeepsComeAfter ==
  ASSUME NEW t \in Thread, NEW n \in Nat, NEW m \in Int, OnlyTop(t, n),
         \A u \in Thread : work[u] \in Seq(RuntimeCall),
         DOMAIN work[t] = 1 .. n, DOMAIN work'[t] = 1 .. m,
         \A k \in n .. m : k > 0 =>
           \/ k = n /\ GoesOn(t, n)
           \/ work'[t][k].op # "keep" \/ cells'[work'[t][k].ref].rc = 1
  PROVE  KeepsCome
<1> SUFFICES ASSUME NEW u \in Thread, NEW k \in DOMAIN work'[u], work'[u][k].op = "keep"
             PROVE  \/ k \in DOMAIN work[u] /\ work[u][k].op = "keep" /\ work[u][k].ref = work'[u][k].ref
                    \/ cells'[work'[u][k].ref].rc = 1
  BY DEF KeepsCome
<1>1. CASE u # t
  BY <1>1 DEF OnlyTop
<1>2. CASE u = t /\ k < n
  <2>1. k \in 1 .. n - 1 /\ k \in 1 .. n
    BY <1>2
  <2> QED
    BY <1>2, <2>1 DEF OnlyTop
<1>3. CASE u = t /\ k >= n
  <2>1. k \in n .. m /\ k > 0
    BY <1>3
  <2>2. (k = n /\ GoesOn(t, n)) \/ cells'[work'[t][k].ref].rc = 1
    BY <1>3, <2>1
  <2>3. k = n => n \in DOMAIN work[t]
    BY <2>1
  <2> QED
    BY <1>3, <2>2, <2>3 DEF GoesOn
<1>4. CASE u = t
  <2>1. k \in Int
    BY <1>4
  <2> QED
    BY <1>2, <1>3, <1>4, <2>1
<1> QED
  BY <1>1, <1>4

\* The calls of the blocks runtime
LEMMA BlockCallsKept ==
  ASSUME BInv, Linked, NEW t \in Thread, Running(t) \/ Program(t)
  PROVE  KeepsCome /\ Linked'
<1>0. IInv /\ TypeOK
  BY DEF BInv, IInv
<1>1. CASE UNCHANGED work
  BY <1>1 DEF KeepsCome, Linked, CopiesFor
<1>2. ASSUME NEW n \in Nat, NEW m \in Nat, GoneTo(t, n, m)
      PROVE  KeepsCome /\ Linked'
  <2>1. /\ OnlyTop(t, n) /\ DOMAIN work[t] = 1 .. n /\ DOMAIN work'[t] = 1 .. m
        /\ \A k \in n .. m : k > 0 =>
             \/ k = n /\ GoesOn(t, n) /\ work[t][n].op \in {"keep", "dispose"}
             \/ Made(work'[t][k])
    BY <1>2 DEF GoneTo
  <2>2. \A u \in Thread : work[u] \in Seq(RuntimeCall)
    BY <1>0 DEF TypeOK
  <2>3. \A k \in n .. m : k > 0 =>
           \/ k = n /\ GoesOn(t, n)
           \/ work'[t][k].op # "keep" \/ cells'[work'[t][k].ref].rc = 1
    BY <2>1 DEF Made
  <2>4. KeepsCome
    BY ONLY <2>1, <2>2, <2>3, t \in Thread, n \in Nat, m \in Nat, KeepsComeAfter
  <2>5. \A k \in n .. m : k > 0 => CopiesFor(work'[t][k], work'[t][k - 1])
    BY <2>1, Distinct DEF Made, GoesOn, CopiesFor
  <2>6. Linked'
    BY ONLY BInv, Linked, <2>1, <2>5, t \in Thread, n \in Nat, m \in Nat, LinkedKept
  <2> QED
    BY <2>4, <2>6
<1>3. Steps(t)
  BY <1>0, StepsOf
<1> QED
  BY <1>1, <1>2, <1>3 DEF Steps

\* The slot of a collection may take x: it is in no other place for a key, and
\* no step is to put it into another one.
FreeFor(k, slot, x) ==
  /\ x \in Item
  /\ Odd(slot) /\ x # Nil =>
       /\ \A s \in DOMAIN cells[k].fields : Odd(s) /\ cells[k].fields[s] = x => s = slot
       /\ \A u \in Thread : \A n \in DOMAIN work[u] :
            work[u][n].op = "fill" /\ work[u][n].ref = k =>
              \A j \in DOMAIN work[u][n].into :
                KeyPut(work[u][n].into, j) /\ work[u][n].into[j].item = x
                  => work[u][n].into[j].slot = slot
PutsInto(k, slot, x) ==
  /\ DOMAIN cells'[k].fields = DOMAIN cells[k].fields
  /\ cells'[k].fields[slot] = x
  /\ \A s \in DOMAIN cells[k].fields : s # slot => cells'[k].fields[s] = cells[k].fields[s]
\* What a step does to a collection
HolderMoves(k) ==
  /\ cells'[k].from = cells[k].from
  /\ \/ cells'[k].fields = cells[k].fields \/ cells[k].from # "map"
     \/ \E slot, x : FreeFor(k, slot, x) /\ PutsInto(k, slot, x)
FillsKept(k) ==
  \A u \in Thread : \A n \in DOMAIN work'[u] :
    work'[u][n].op = "fill" /\ work'[u][n].ref = k =>
      /\ n \in DOMAIN work[u] /\ work[u][n].op = "fill" /\ work[u][n].ref = k
      /\ work'[u][n].into = work[u][n].into

LEMMA MapKept ==
  ASSUME NEW k \in Holder, MapOK(k), FillsKept(k), HolderMoves(k)
  PROVE  MapOK(k)'
<1> SUFFICES ASSUME cells'[k].from = "map"
             PROVE  /\ OddApart(cells'[k].fields)
                    /\ \A u \in Thread : \A n \in DOMAIN work'[u] :
                         work'[u][n].op = "fill" /\ work'[u][n].ref = k =>
                           /\ KeysApart(work'[u][n].into)
                           /\ Unplaced(work'[u][n].into, cells'[k].fields)
  BY DEF MapOK, KeysApart, OddApart, Unplaced, KeyPut
<1>1. /\ OddApart(cells[k].fields)
      /\ \A u \in Thread : \A n \in DOMAIN work[u] :
           work[u][n].op = "fill" /\ work[u][n].ref = k =>
             KeysApart(work[u][n].into) /\ Unplaced(work[u][n].into, cells[k].fields)
  BY DEF HolderMoves, MapOK
<1>2. CASE cells'[k].fields = cells[k].fields
  BY <1>1, <1>2 DEF FillsKept
<1>3. ASSUME NEW slot, NEW x, FreeFor(k, slot, x), PutsInto(k, slot, x)
      PROVE  /\ OddApart(cells'[k].fields)
             /\ \A u \in Thread : \A n \in DOMAIN work'[u] :
                  work'[u][n].op = "fill" /\ work'[u][n].ref = k =>
                    /\ KeysApart(work'[u][n].into)
                    /\ Unplaced(work'[u][n].into, cells'[k].fields)
  <2>1. PICK f : f = cells[k].fields
    OBVIOUS
  <2>2. PICK g : g = cells'[k].fields
    OBVIOUS
  <2>3. DOMAIN g = DOMAIN f /\ g[slot] = x /\ \A s \in DOMAIN f : s # slot => g[s] = f[s]
    BY <1>3, <2>1, <2>2 DEF PutsInto
  <2>4. Odd(slot) /\ x # Nil => \A s \in DOMAIN f : Odd(s) /\ f[s] = x => s = slot
    BY <1>3, <2>1 DEF FreeFor
  <2>5. OddApart(g)
    <3> SUFFICES ASSUME NEW i \in DOMAIN g, NEW j \in DOMAIN g, Odd(i), Odd(j), g[i] = g[j]
                 PROVE  i = j \/ g[i] = Nil
      BY DEF OddApart
    <3>1. CASE i # slot /\ j # slot
      BY <1>1, <2>1, <2>3, <3>1 DEF OddApart
    <3>2. CASE i = slot \/ j = slot
      BY <2>3, <2>4, <3>2
    <3> QED
      BY <3>1, <3>2
  <2>6. ASSUME NEW u \in Thread, NEW n \in DOMAIN work'[u],
               work'[u][n].op = "fill", work'[u][n].ref = k
        PROVE  KeysApart(work'[u][n].into) /\ Unplaced(work'[u][n].into, g)
    <3>1. PICK steps : steps = work[u][n].into
      OBVIOUS
    <3>2. /\ n \in DOMAIN work[u] /\ work[u][n].op = "fill" /\ work[u][n].ref = k
          /\ work'[u][n].into = steps
      BY <2>6, <3>1 DEF FillsKept
    <3>3. KeysApart(steps) /\ Unplaced(steps, f)
      BY <1>1, <2>1, <3>1, <3>2
    <3>4. Odd(slot) /\ x # Nil =>
            \A j \in DOMAIN steps : KeyPut(steps, j) /\ steps[j].item = x => steps[j].slot = slot
      BY <1>3, <3>1, <3>2 DEF FreeFor
    <3>5. Unplaced(steps, g)
      <4> SUFFICES ASSUME NEW j \in DOMAIN steps, KeyPut(steps, j), NEW s \in DOMAIN g,
                          Odd(s), g[s] = steps[j].item
                   PROVE  s = steps[j].slot
        BY DEF Unplaced
      <4>1. steps[j].item # Nil
        BY Distinct DEF KeyPut, Shared
      <4>2. CASE s = slot
        BY <2>3, <3>4, <4>1, <4>2
      <4>3. CASE s # slot
        BY <2>3, <3>3, <4>3 DEF Unplaced
      <4> QED
        BY <4>2, <4>3
    <3> QED
      BY <3>2, <3>3, <3>5
  <2> QED
    BY <2>2, <2>5, <2>6
<1> QED
  BY <1>2, <1>3 DEF HolderMoves

LEMMA FillsAreKept ==
  ASSUME HolderCallsKept, NEW k \in Holder
  PROVE  FillsKept(k)
BY DEF HolderCallsKept, FillsKept

LEMMA MapsKept ==
  ASSUME MapsOK, HolderCallsKept, \A k \in Holder : HolderMoves(k)
  PROVE  MapsOK'
<1> SUFFICES ASSUME NEW k \in Holder PROVE MapOK(k)'
  BY DEF MapsOK
<1> QED
  BY FillsAreKept, MapKept DEF MapsOK

LEMMA NothingFree ==
  ASSUME NEW k, NEW slot
  PROVE  FreeFor(k, slot, Nil)
BY DEF FreeFor, Item

LEMMA KeptFree ==
  ASSUME BInv, Fresh, NEW t \in Thread, NEW n \in DOMAIN work[t], work[t][n].op = "keep",
         Placed(t, n), NEW k \in Holder, k = work[t][n].into.cell, NEW c, c = work[t][n].ref, NEW slot
  PROVE  FreeFor(k, slot, c)
<1>1. c \in Cell /\ held[c] = 0 /\ FieldsOn(c) = {}
  BY KeptAlone
<1>2. PICK i : i = work[t][n].into.at
  OBVIOUS
<1>3. PICK p \in DOMAIN work[t] : WaitsFor(t, n, p, k, i)
  BY <1>2, MakerWaits DEF BInv
<1>4. \A j : ~Dropped(k, j)
  BY <1>3, WaiterAlone DEF BInv
<1>5. ASSUME NEW s \in DOMAIN cells[k].fields, cells[k].fields[s] = c PROVE FALSE
  <2>1. FieldOn(k, s, c)
    BY <1>4, <1>5 DEF FieldOn
  <2>2. <<k, s>> \in FieldsOn(c)
    BY <2>1, FieldsOnAre
  <2> QED
    BY <1>1, <2>2
<1>6. ASSUME NEW u \in Thread, NEW m \in DOMAIN work[u], work[u][m].op = "fill",
             NEW j \in DOMAIN work[u][m].into, work[u][m].into[j].item = c
      PROVE  FALSE
  <2>1. <<u, m>> \in Calls /\ CallAt(<<u, m>>) = work[u][m]
    BY CallsAre DEF CallAt
  <2>2. Lent(c)
    BY <1>6, <2>1 DEF Lent
  <2>3. held[c] > 0
    BY <1>1, <2>2 DEF BInv, LentHeld
  <2> QED
    BY <1>1, <2>3
<1> QED
  BY <1>1, <1>5, <1>6 DEF FreeFor, Item

LEMMA GlobalFree ==
  ASSUME BInv, Linked, MapsOK, NEW t \in Thread, NEW n \in DOMAIN work[t], work[t][n].op = "copy",
         Placed(t, n), work[t][n].into # Nil, NEW k \in Holder, k = work[t][n].into.cell,
         cells[k].from = "map",
         NEW b \in Global, b = work[t][n].ref, NEW slot, slot = work[t][n].into.at
  PROVE  FreeFor(k, slot, b)
<1>1. PICK p \in DOMAIN work[t] : WaitsFor(t, n, p, k, slot)
  BY MakerWaits DEF BInv
<1>2. k \notin Cell
  BY Distinct
<1>3. PICK steps : steps = work[t][p].into
  OBVIOUS
<1>4. PICK q : q = work[t][p].at - 1
  OBVIOUS
<1>5. /\ p = n - 1 /\ work[t][p].ref = k /\ work[t][p].op = "fill"
      /\ q \in DOMAIN steps /\ ~steps[q].drops /\ steps[q].slot = slot
  BY <1>1, <1>2, <1>3, <1>4 DEF WaitsFor
<1>6. CopiesFor(work[t][n], work[t][p])
  BY <1>5 DEF Linked
<1>8. steps[q].item = b
  BY <1>3, <1>4, <1>6 DEF CopiesFor
<1>9. Odd(slot) => KeyPut(steps, q)
  BY <1>5, <1>8 DEF KeyPut, Shared
<1>10. KeysApart(steps) /\ Unplaced(steps, cells[k].fields)
  BY <1>3, <1>5 DEF MapsOK, MapOK
<1>11. Odd(slot) => \A s \in DOMAIN cells[k].fields : Odd(s) /\ cells[k].fields[s] = b => s = slot
  BY <1>5, <1>8, <1>9, <1>10 DEF Unplaced
<1>12. ASSUME NEW u \in Thread, NEW m \in DOMAIN work[u], work[u][m].op = "fill", work[u][m].ref = k
       PROVE  work[u][m].into = steps
  <2>1. u = t /\ m = p
    BY <1>1, <1>12, WaiterAlone DEF BInv, Relies
  <2> QED
    BY <1>3, <2>1
<1>13. Odd(slot) => \A j \in DOMAIN steps : KeyPut(steps, j) /\ steps[j].item = b => steps[j].slot = slot
  BY <1>5, <1>8, <1>9, <1>10 DEF KeysApart
<1>14. b \in Item
  BY DEF Item
<1> QED
  BY <1>11, <1>12, <1>13, <1>14 DEF FreeFor

\* What is delivered into a collection finds its slot free.
LEMMA DeliveryMoves ==
  ASSUME BInv, KeysInv, NEW t \in Thread, NEW n, n = Len(work[t]), work[t] # <<>>, NEW x,
         Delivered(t, n, x), work[t][n].op = "copy" => x \in {work[t][n].ref, Nil},
         Deliver(t, x, work[t][n].into, cells)
  PROVE  CountsMove /\ \A k \in Holder : HolderMoves(k)
<1>0. IInv /\ Fresh /\ Linked /\ MapsOK
  BY DEF BInv, KeysInv
<1>1. n \in DOMAIN work[t] /\ CallOK(t, n)
  BY <1>0, StackTop DEF IInv, CallsOK
<1>2. work[t][n].into = Nil \/ Placed(t, n)
  BY <1>1 DEF Delivered, CallOK, CopyOK, KeepOK
<1>3. CASE work[t][n].into = Nil
  BY <1>3 DEF Deliver, CountsMove, HolderMoves
<1>4. CASE work[t][n].into # Nil /\ Placed(t, n)
  <2>1. PICK e : e = work[t][n].into.cell
    OBVIOUS
  <2>2. PICK i : i = work[t][n].into.at
    OBVIOUS
  <2>3. cells' = [cells EXCEPT ![e].fields[i] = x]
    BY <1>4, <2>1, <2>2 DEF Deliver
  <2>4. e \in Cell \cup Holder /\ i \in DOMAIN cells[e].fields
    BY <1>4, <2>1, <2>2 DEF Placed, Place
  <2>5. x \in Item
    BY <1>1 DEF Delivered, CallOK, KeepOK, Item
  <2>6. Filled(e, i, x)
    BY <1>0, <2>3, <2>4, <2>5, FieldSet DEF IInv, Filled
  <2>7. CountsMove
    BY <2>4, <2>6 DEF Filled, CountsMove
  <2>8. ASSUME NEW k \in Holder PROVE HolderMoves(k)
    <3>1. CASE k # e
      BY <2>6, <3>1 DEF Filled, HolderMoves
    <3>2. CASE k = e /\ cells[k].from # "map"
      BY <2>6, <3>2 DEF Filled, HolderMoves
    <3>3. CASE k = e /\ cells[k].from = "map"
      <4>1. ASSUME work[t][n].op = "keep" PROVE FreeFor(k, i, x)
        <5>1. x = work[t][n].ref
          BY <4>1, <1>1 DEF Delivered
        <5> QED
          BY <1>0, <1>1, <1>4, <2>1, <3>3, <4>1, <5>1, KeptFree
      <4>2. ASSUME work[t][n].op = "copy", x # Nil PROVE FreeFor(k, i, x)
        <5>1. x = work[t][n].ref /\ x \in Global
          BY <2>5, <4>2 DEF Delivered, Item
        <5> QED
          BY <1>0, <1>1, <1>4, <2>1, <2>2, <3>3, <4>2, <5>1, GlobalFree
      <4>3. FreeFor(k, i, x)
        BY <4>1, <4>2, NothingFree DEF Delivered
      <4>4. PutsInto(k, i, x) /\ cells'[k].from = cells[k].from
        BY <2>6, <3>3 DEF Filled, Put, PutsInto
      <4> QED
        BY <4>3, <4>4 DEF HolderMoves
    <3> QED
      BY <3>1, <3>2, <3>3
  <2> QED
    BY <2>7, <2>8
<1> QED
  BY <1>2, <1>3, <1>4

LEMMA NothingMoves ==
  ASSUME cells' = cells
  PROVE  CountsMove /\ \A k \in Holder : HolderMoves(k)
BY DEF CountsMove, HolderMoves

\* Only d changes, which is no collection, and something refers to it.
LEMMA OneMoves ==
  ASSUME TypeOK, NEW d, d \notin Holder, NEW new, cells' = [cells EXCEPT ![d] = new],
         d \in Cell =>
           \/ cells[d].rc # 1 \/ held[d] > 0
           \/ \E u \in Thread : \E n \in DOMAIN work[u] :
                work[u][n].op \in {"release", "byref"} /\ work[u][n].ref = d
  PROVE  CountsMove /\ \A k \in Holder : HolderMoves(k)
<1>1. \A y \in Cell \cup Holder : y # d => cells'[y] = cells[y]
  BY DEF TypeOK
<1>2. CountsMove
  <2> SUFFICES ASSUME NEW c \in Cell
               PROVE  \/ cells'[c].rc = cells[c].rc \/ cells[c].rc # 1 \/ held[c] > 0 \/ VarsOn(c) # {}
                      \/ \E u \in Thread : \E n \in DOMAIN work[u] :
                           work[u][n].op \in {"release", "byref"} /\ work[u][n].ref = c
    BY DEF CountsMove
  <2>1. CASE c = d
    BY <2>1
  <2>2. CASE c # d
    BY <1>1, <2>2
  <2> QED
    BY <2>1, <2>2
<1>3. \A k \in Holder : HolderMoves(k)
  BY <1>1 DEF HolderMoves
<1> QED
  BY <1>2, <1>3

LEMMA KeepMoves ==
  ASSUME BInv, KeysInv, NEW t \in Thread, Keep(t)
  PROVE  CountsMove /\ \A k \in Holder : HolderMoves(k)
<1>0. IInv /\ TypeOK
  BY DEF BInv, IInv
<1>1. PICK n : n = Len(work[t])
  OBVIOUS
<1>2. Doing(t, "keep")
  BY DEF Keep
<1>3. /\ work[t] # <<>> /\ work[t][n].op = "keep" /\ Innermost(t) = work[t][n]
      /\ CallOK(t, n) /\ work[t][n].at \in Nat
  BY <1>0, <1>1, <1>2, DoingCall DEF RuntimeCall
<1>4. PICK e : e = work[t][n].ref
  OBVIOUS
<1>5. PICK i : i = work[t][n].at
  OBVIOUS
<1>6. /\ e \in Cell /\ cells[e].from \in Literal /\ i \in 1 .. Len(cells[e].fields) + 1
  BY <1>3, <1>4, <1>5 DEF CallOK, KeepOK
<1>7. Len(cells[e].fields) \in Nat /\ DOMAIN cells[e].fields = 1 .. Len(cells[e].fields) /\ Used(e)
  <2>1. cells[e].fields \in Seq(Item)
    BY <1>0, <1>6, Sums DEF Content
  <2> QED
    BY <1>6, <2>1, LenProperties, Distinct DEF Used
<1>8. CASE i > Len(cells[e].fields)
  <2>1. Deliver(t, e, work[t][n].into, cells)
    BY <1>3, <1>4, <1>5, <1>8 DEF Keep
  <2>2. Delivered(t, n, e)
    BY <1>3, <1>4 DEF Delivered
  <2>3. ~(work[t][n].op = "copy")
    BY <1>3
  <2> QED
    BY <1>1, <1>3, <2>1, <2>2, <2>3, DeliveryMoves
<1>9. CASE ~(i > Len(cells[e].fields))
  <2>1. i \in DOMAIN cells[e].fields
    BY <1>6, <1>7, <1>9
  <2>2. PICK v : v = Captures[cells[e].from][i]
    OBVIOUS
  <2>3. \/ v \in Var /\ AssignVariable(t, e, i, v)
        \/ v \in Literal /\ AssignBlock(t, e, i, v)
    BY <1>3, <1>4, <1>5, <1>9, <2>2 DEF Keep
  <2>4. ASSUME NEW d \in Cell, NEW new, new \in Content, new.from \in Var, new.fields = <<>>,
               ~Used(d), MovesInto(e, i, d, new)
        PROVE  CountsMove /\ \A k \in Holder : HolderMoves(k)
    <3>1. /\ Assigned(e, i, d)
          /\ \A y \in Cell : y # d => cells'[y].rc = cells[y].rc
      BY <1>0, <1>6, <1>7, <2>1, <2>4, AssignNew
    <3>2. cells[d].rc # 1
      BY <1>0, <2>4, Free DEF Unused
    <3>3. \A k \in Holder : cells'[k] = cells[k]
      BY <1>6, <3>1, Distinct DEF Assigned
    <3> QED
      BY <3>1, <3>2, <3>3 DEF CountsMove, HolderMoves
  <2>5. ASSUME NEW d \in Cell, held[d] > 0 \/ VarsOn(d) # {}, CountsInto(e, i, d)
        PROVE  CountsMove /\ \A k \in Holder : HolderMoves(k)
    <3>1. Used(d) /\ cells[d].rc > 0
      BY <1>0, <2>5, Counted
    <3>2. /\ Assigned(e, i, d)
          /\ \A y \in Cell : y # d => cells'[y].rc = cells[y].rc
      BY <1>0, <1>6, <2>1, <2>5, <3>1, AssignCounted
    <3>3. \A k \in Holder : cells'[k] = cells[k]
      BY <1>6, <3>2, Distinct DEF Assigned
    <3> QED
      BY <2>5, <3>2, <3>3 DEF CountsMove, HolderMoves
  <2>6. CASE v \in Var /\ AssignVariable(t, e, i, v)
    <3>1. CASE forward[v] = Nil
      <4>1. PICK d \in FreeCells : cells' = [cells EXCEPT ![d] = NewVariable(t, v), ![e].fields[i] = d]
        BY <2>6, <3>1 DEF AssignVariable
      <4>2. d \in Cell /\ ~Used(d)
        BY DEF FreeCells
      <4>3. NewVariable(t, v) \in Content /\ NewVariable(t, v).from \in Var /\ NewVariable(t, v).fields = <<>>
        <5>1. override[t] \in Allocator \cup {Nil} /\ <<>> \in Seq(Item) /\ 2 \in 0 .. Latch
          BY <1>0, EmptySeq, Distinct DEF TypeOK
        <5> QED
          BY <2>6, <5>1 DEF NewVariable, Content
      <4> QED
        BY <2>4, <4>1, <4>2, <4>3 DEF MovesInto
    <3>2. CASE forward[v] # Nil
      <4>1. PICK d : d = forward[v]
        OBVIOUS
      <4>2. cells' = [cells EXCEPT ![d].rc = Incr(@), ![e].fields[i] = d]
        BY <2>6, <3>2, <4>1 DEF AssignVariable
      <4>3. d \in Cell /\ VarsOn(d) # {}
        BY <1>0, <2>6, <3>2, <4>1 DEF TypeOK, VarsOn
      <4> QED
        BY <2>5, <4>2, <4>3 DEF CountsInto
    <3> QED
      BY <3>1, <3>2
  <2>7. CASE v \in Literal /\ AssignBlock(t, e, i, v)
    <3>1. CASE cells' = cells
      BY <3>1, NothingMoves
    <3>2. ASSUME NEW d \in Cell, held[d] > 0,
                 cells' = [cells EXCEPT ![d].rc = Incr(@), ![e].fields[i] = d]
          PROVE  CountsMove /\ \A k \in Holder : HolderMoves(k)
      BY <2>5, <3>2 DEF CountsInto
    <3> QED
      BY <2>7, <3>1, <3>2 DEF AssignBlock
  <2> QED
    BY <2>3, <2>6, <2>7
<1> QED
  BY <1>8, <1>9

LEMMA CopyLiteralMoves ==
  ASSUME BInv, KeysInv, NEW t \in Thread, CopyLiteral(t)
  PROVE  CountsMove /\ \A k \in Holder : HolderMoves(k)
<1>0. IInv /\ TypeOK
  BY DEF BInv, IInv
<1>1. PICK n : n = Len(work[t])
  OBVIOUS
<1>2. /\ work[t] # <<>> /\ work[t][n].op = "copy" /\ Innermost(t) = work[t][n]
      /\ CallOK(t, n)
  BY <1>0, <1>1, DoingCall DEF CopyLiteral
<1>3. PICK b : b = work[t][n].ref
  OBVIOUS
<1>4. b \in Literal
  BY <1>2, <1>3 DEF CallOK, CopyOK
<1>5. \/ b \in Global /\ Deliver(t, b, work[t][n].into, cells)
      \/ \E c \in FreeCells : cells' = [cells EXCEPT ![c] = NewBlock(t, b)]
      \/ Deliver(t, Nil, work[t][n].into, cells)
  BY <1>2, <1>3 DEF CopyLiteral
<1>6. CASE b \in Global /\ Deliver(t, b, work[t][n].into, cells)
  <2>1. Delivered(t, n, b) /\ b \in {work[t][n].ref, Nil}
    BY <1>2, <1>3, <1>4, <1>6, Distinct DEF Delivered, Item
  <2> QED
    BY <1>1, <1>2, <1>6, <2>1, DeliveryMoves
<1>7. CASE Deliver(t, Nil, work[t][n].into, cells)
  <2>1. Delivered(t, n, Nil)
    BY <1>2, Distinct DEF Delivered, Item
  <2>2. Nil \in {work[t][n].ref, Nil}
    OBVIOUS
  <2> QED
    BY <1>1, <1>2, <1>7, <2>1, <2>2, DeliveryMoves
<1>8. ASSUME NEW c \in FreeCells, cells' = [cells EXCEPT ![c] = NewBlock(t, b)]
      PROVE  CountsMove /\ \A k \in Holder : HolderMoves(k)
  <2>1. c \in Cell /\ cells[c].rc # 1
    BY <1>0, Free DEF FreeCells, Unused
  <2> QED
    BY <1>0, <1>8, <2>1, OneMoves, Distinct
<1> QED
  BY <1>5, <1>6, <1>7, <1>8

LEMMA RunningMoves ==
  ASSUME BInv, KeysInv, NEW t \in Thread, Running(t)
  PROVE  CountsMove /\ \A k \in Holder : HolderMoves(k)
<1>0. IInv /\ TypeOK
  BY DEF BInv, IInv
<1>1. PICK n : n = Len(work[t])
  OBVIOUS
<1>2. CASE Restore(t)
  BY <1>2, NothingMoves DEF Restore
<1>3. CASE ReleaseBlock(t)
  <2>1. PICK c : c = work[t][n].ref
    OBVIOUS
  <2>2. n \in DOMAIN work[t] /\ work[t][n].op = "release" /\ Innermost(t) = work[t][n]
    BY <1>0, <1>1, <1>3, DoingCall DEF ReleaseBlock
  <2>3. \/ cells' = cells
        \/ c \in Cell /\ cells' = [cells EXCEPT ![c].rc = Decr(@)]
    BY <1>3, <2>1, <2>2 DEF ReleaseBlock
  <2>4. CASE c \in Cell /\ cells' = [cells EXCEPT ![c].rc = Decr(@)]
    <3>1. PICK new : new = [cells[c] EXCEPT !.rc = Decr(@)]
      OBVIOUS
    <3>2. cells' = [cells EXCEPT ![c] = new]
      BY <2>4, <3>1
    <3> QED
      BY <1>0, <2>1, <2>2, <2>4, <3>2, OneMoves, Distinct
  <2> QED
    BY <2>3, <2>4, NothingMoves
<1>4. CASE Dispose(t)
  <2>1. PICK c : c = work[t][n].ref
    OBVIOUS
  <2>2. /\ n \in DOMAIN work[t] /\ work[t][n].op = "dispose" /\ Innermost(t) = work[t][n]
        /\ CallOK(t, n)
    BY <1>0, <1>1, <1>4, DoingCall DEF Dispose
  <2>3. c \in Cell /\ cells[c].rc # 1
    BY <2>1, <2>2 DEF CallOK, DisposeOK
  <2>4. cells' = cells \/ cells' = [cells EXCEPT ![c] = Unused]
    BY <1>4, <2>1, <2>2 DEF Dispose
  <2> QED
    BY <1>0, <2>3, <2>4, NothingMoves, OneMoves, Distinct
<1>5. CASE ReleaseVariable(t)
  <2>1. PICK d : d = work[t][n].ref
    OBVIOUS
  <2>2. /\ n \in DOMAIN work[t] /\ work[t][n].op = "byref" /\ Innermost(t) = work[t][n]
        /\ CallOK(t, n)
    BY <1>0, <1>1, <1>5, DoingCall DEF ReleaseVariable
  <2>3. d \notin Holder
    BY <2>1, <2>2, Distinct DEF CallOK, ByrefOK, Item
  <2>4. PICK new : new = IF cells[d].rc # 0 /\ Decr(cells[d].rc) = 0 THEN Unused
                         ELSE [cells[d] EXCEPT !.rc = Decr(@)]
    OBVIOUS
  <2>5. cells' = [cells EXCEPT ![d] = new]
    BY <1>5, <2>1, <2>2, <2>4 DEF ReleaseVariable
  <2> QED
    BY <1>0, <2>1, <2>2, <2>3, <2>5, OneMoves
<1> QED
  BY <1>2, <1>3, <1>4, <1>5, KeepMoves, CopyLiteralMoves DEF Running

LEMMA ProgramMoves ==
  ASSUME BInv, KeysInv, NEW t \in Thread, Program(t)
  PROVE  CountsMove /\ \A k \in Holder : HolderMoves(k)
<1>1. ASSUME NEW c \in Cell, Retain(t, c)
      PROVE  CountsMove /\ \A k \in Holder : HolderMoves(k)
  <2>1. PICK new : new = [cells[c] EXCEPT !.rc = Incr(@)]
    OBVIOUS
  <2>2. held[c] > 0 /\ cells' = [cells EXCEPT ![c] = new]
    BY <1>1, <2>1 DEF Retain
  <2>3. TypeOK /\ c \notin Holder
    BY Distinct DEF BInv, IInv
  <2> QED
    BY <2>2, <2>3, OneMoves
<1>2. CASE ~\E c \in Cell : Retain(t, c)
  <2>1. cells' = cells
    BY <1>2 DEF Program, Copy, Release, LeaveFrame, EnterFrame
  <2> QED
    BY <2>1, NothingMoves
<1> QED
  BY <1>1, <1>2

\* The blocks runtime knows nothing of keys, and keeps them distinct.
LEMMA BlocksKeepKeys ==
  ASSUME BInv, KeysInv, [BlockNext]_blockVars
  PROVE  KeysInv'
<1>1. Fresh /\ Linked /\ MapsOK /\ IInv
  BY DEF KeysInv, BInv
<1>2. HolderCallsKept
  BY <1>1, HolderCalls
<1>3. ASSUME NEW t \in Thread, Running(t) \/ Program(t) PROVE KeysInv'
  <2>1. CountsMove /\ \A k \in Holder : HolderMoves(k)
    BY <1>3, RunningMoves, ProgramMoves
  <2>2. KeepsCome /\ Linked'
    BY <1>1, <1>3, BlockCallsKept
  <2>3. Fresh'
    BY <1>1, <2>1, <2>2, FreshKept
  <2>4. MapsOK'
    BY <1>1, <1>2, <2>1, MapsKept
  <2> QED
    BY <2>2, <2>3, <2>4 DEF KeysInv
<1>4. CASE UNCHANGED blockVars
  <2>1. cells' = cells /\ work' = work
    BY <1>4 DEF blockVars
  <2>2. Fresh' /\ Linked'
    BY <1>1, <2>1 DEF Fresh, Linked, CopiesFor
  <2>3. MapsOK'
    BY <1>1, <1>2, <2>1, NothingMoves, MapsKept
  <2> QED
    BY <2>2, <2>3 DEF KeysInv
<1> QED
  BY <1>3, <1>4 DEF BlockNext

LEMMA PlaceTyped ==
  ASSUME NEW m \in Nat, NEW keys, DOMAIN keys = 1 .. m, NEW i \in 1 .. m
  PROVE  Places(keys)[i] \in Nat
<1>1. i - 1 \in Nat
  OBVIOUS
<1>2. PICK c : c = Cardinality(Firsts(keys, i - 1))
  OBVIOUS
<1>3. /\ c \in Nat
      /\ FirstEqual(keys, i) = i => Places(keys)[i] = c + 1
      /\ FirstEqual(keys, i) # i => Places(keys)[i] \in 1 .. c
  BY <1>2, PlaceIs
<1> QED
  BY <1>3

\* Equal keys that a map is made with are put into one place.
LEMMA MapKeysApart ==
  ASSUME NEW m \in Nat, NEW keys \in [1 .. m -> Cell \cup Literal],
         NEW values, NEW s, Came(keys, values, m, s)
  PROVE  KeysApart(s)
<1>1. ASSUME NEW j \in DOMAIN s, KeyPut(s, j)
      PROVE  \E l \in 1 .. m : s[j].item = keys[l] /\ s[j].slot = 2 * Places(keys)[l] - 1
  <2>1. ~Clears(s[j]) /\ Odd(s[j].slot)
    BY <1>1 DEF KeyPut, Clears
  <2>2. PICK l \in 1 .. m : Given(keys, values, l, s[j])
    BY <2>1 DEF Came
  <2>3. PICK p \in Nat : p = Places(keys)[l]
    BY PlaceTyped
  <2>4. ~Odd(2 * p)
    BY DEF Odd
  <2> QED
    BY <2>1, <2>2, <2>3, <2>4 DEF Given
<1> SUFFICES ASSUME NEW i \in DOMAIN s, NEW j \in DOMAIN s, KeyPut(s, i), KeyPut(s, j),
                    s[i].item = s[j].item
             PROVE  s[i].slot = s[j].slot
  BY DEF KeysApart
<1>2. PICK a \in 1 .. m : s[i].item = keys[a] /\ s[i].slot = 2 * Places(keys)[a] - 1
  BY <1>1
<1>3. PICK b \in 1 .. m : s[j].item = keys[b] /\ s[j].slot = 2 * Places(keys)[b] - 1
  BY <1>1
<1>4. keys[a] = keys[b] /\ keys[a] \notin Literal \ Global
  BY <1>2, <1>3, Distinct DEF KeyPut, Shared
<1>5. Places(keys)[a] = Places(keys)[b]
  BY <1>4, SamePlace
<1> QED
  BY <1>2, <1>3, <1>5

\* A step of a thread in a call about a collection
LEMMA CallsKeepKeys ==
  ASSUME BInv, KeysInv, NEW t \in Thread, NEW n \in Nat, NEW m \in Int, OnlyTop(t, n),
         DOMAIN work[t] = 1 .. n, DOMAIN work'[t] = 1 .. m,
         \A k \in n .. m : k > 0 =>
           /\ \/ k = n /\ GoesOn(t, n)
              \/ work'[t][k].ref \notin Holder /\ work'[t][k].op \notin {"fill", "keep"}
           /\ CopiesFor(work'[t][k], work'[t][k - 1]),
         CountsMove, \A k \in Holder : cells'[k].from = "map" => HolderMoves(k)
  PROVE  KeysInv'
<1>1. TypeOK /\ Fresh /\ Linked /\ MapsOK
  BY DEF BInv, IInv, KeysInv
<1>2. \A k \in n .. m : k > 0 =>
        (k = n /\ GoesOn(t, n)) \/ (work'[t][k].ref \notin Holder /\ work'[t][k].op # "fill")
  OBVIOUS
<1>3. HolderCallsKept
  BY ONLY <1>1, <1>2, t \in Thread, n \in Nat, m \in Int, OnlyTop(t, n),
          DOMAIN work[t] = 1 .. n, DOMAIN work'[t] = 1 .. m, HolderCallsAfter
<1>4. \A k \in n .. m : k > 0 =>
        \/ k = n /\ GoesOn(t, n)
        \/ work'[t][k].op # "keep" \/ cells'[work'[t][k].ref].rc = 1
  OBVIOUS
<1>5. \A u \in Thread : work[u] \in Seq(RuntimeCall)
  BY <1>1 DEF TypeOK
<1>6. KeepsCome
  BY ONLY <1>4, <1>5, t \in Thread, n \in Nat, m \in Int, OnlyTop(t, n),
          DOMAIN work[t] = 1 .. n, DOMAIN work'[t] = 1 .. m, KeepsComeAfter
<1>7. Linked'
  <2>1. \A k \in n .. m : k > 0 => CopiesFor(work'[t][k], work'[t][k - 1])
    OBVIOUS
  <2> QED
    BY ONLY BInv, <1>1, <2>1, t \in Thread, n \in Nat, m \in Int, OnlyTop(t, n),
            DOMAIN work[t] = 1 .. n, DOMAIN work'[t] = 1 .. m, LinkedKept
<1>8. Fresh'
  BY <1>1, <1>6, FreshKept
<1>9. ASSUME NEW k \in Holder PROVE MapOK(k)'
  <2>1. CASE cells'[k].from = "map"
    BY <1>1, <1>3, <2>1, FillsAreKept, MapKept DEF MapsOK
  <2>2. CASE cells'[k].from # "map"
    BY <2>2 DEF MapOK
  <2> QED
    BY <2>1, <2>2
<1> QED
  BY <1>7, <1>8, <1>9 DEF KeysInv, MapsOK

LEMMA FillReturnKeys ==
  ASSUME BInv, KeysInv, NEW t \in Thread, Doing(t, "fill"), Return(t), cells' = cells
  PROVE  KeysInv'
<1>0. TypeOK /\ work[t] # <<>>
  BY DEF BInv, IInv, Doing
<1>1. PICK n : n = Len(work[t])
  OBVIOUS
<1>2. /\ OnlyTop(t, n) /\ n \in Nat /\ DOMAIN work[t] = 1 .. n /\ DOMAIN work'[t] = 1 .. n - 1
      /\ n - 1 \in Int /\ n .. n - 1 = {}
  BY <1>0, <1>1, Returned
<1>3. CountsMove /\ \A k \in Holder : HolderMoves(k)
  BY NothingMoves
<1> QED
  BY <1>2, <1>3, CallsKeepKeys

\* The key that a step puts is in no other place.
LEMMA StepFree ==
  ASSUME NEW t \in Thread, NEW n, NEW k, NEW steps, NEW q, Filling(t, n, k, steps, q),
         MapsOK, cells[k].from = "map", ~steps[q].drops, NEW x \in Cell, x = steps[q].item
  PROVE  FreeFor(k, steps[q].slot, x)
<1>1. PICK slot : slot = steps[q].slot
  OBVIOUS
<1>2. /\ k \in Holder /\ n \in DOMAIN work[t] /\ work[t][n].op = "fill" /\ work[t][n].ref = k
      /\ work[t][n].into = steps /\ q \in DOMAIN steps
      /\ \A u \in Thread : \A j \in DOMAIN work[u] : work[u][j].ref = k => u = t /\ j = n
  BY DEF Filling
<1>3. KeysApart(steps) /\ Unplaced(steps, cells[k].fields)
  BY <1>2 DEF MapsOK, MapOK
<1>4. Odd(slot) => KeyPut(steps, q)
  BY <1>1 DEF KeyPut, Shared
<1>5. Odd(slot) => \A s \in DOMAIN cells[k].fields : Odd(s) /\ cells[k].fields[s] = x => s = slot
  BY <1>1, <1>2, <1>3, <1>4 DEF Unplaced
<1>6. Odd(slot) => \A j \in DOMAIN steps : KeyPut(steps, j) /\ steps[j].item = x => steps[j].slot = slot
  BY <1>1, <1>2, <1>3, <1>4 DEF KeysApart
<1>7. x \in Item
  BY DEF Item
<1>8. ASSUME NEW u \in Thread, NEW j \in DOMAIN work[u], work[u][j].ref = k
      PROVE  work[u][j].into = steps
  BY <1>2, <1>8
<1> QED
  BY <1>1, <1>5, <1>6, <1>7, <1>8 DEF FreeFor

LEMMA FillPutKeys ==
  ASSUME BInv, KeysInv, NEW t \in Thread, NEW n, NEW k, NEW steps, NEW q, Filling(t, n, k, steps, q),
         ~steps[q].drops, NEW slot, slot = steps[q].slot, NEW x \in Cell, x = steps[q].item,
         CountsInto(k, slot, x), Advance(t, <<>>)
  PROVE  KeysInv'
<1>0. IInv /\ TypeOK /\ MapsOK
  BY DEF BInv, IInv, KeysInv
<1>1. /\ work[t] # <<>> /\ n = Len(work[t]) /\ k \in Holder /\ n \in DOMAIN work[t]
      /\ work[t][n].op = "fill" /\ work[t][n].into = steps /\ q \in DOMAIN steps
      /\ slot \in DOMAIN cells[k].fields
  BY DEF Filling
<1>2. /\ OnlyTop(t, n) /\ n \in Nat /\ DOMAIN work[t] = 1 .. n /\ DOMAIN work'[t] = 1 .. n
      /\ GoesOn(t, n)
  BY <1>0, <1>1, AdvancedAlone
<1>3. held[x] > 0
  <2>1. <<t, n>> \in Calls /\ CallAt(<<t, n>>) = work[t][n]
    BY <1>1, CallsAre DEF CallAt
  <2>2. Lent(x)
    BY <1>1, <2>1 DEF Lent
  <2> QED
    BY <2>2 DEF BInv, LentHeld
<1>4. Used(x) /\ cells[x].rc > 0
  BY <1>0, <1>3, Counted
<1>5. /\ Assigned(k, slot, x)
      /\ \A y \in Cell : y # x => cells'[y].rc = cells[y].rc
  BY <1>0, <1>1, <1>4, AssignCounted
<1>6. CountsMove
  BY <1>3, <1>5 DEF CountsMove
<1>7. ASSUME NEW h \in Holder, cells'[h].from = "map" PROVE HolderMoves(h)
  <2>1. CASE h # k
    BY <1>5, <2>1 DEF Assigned, HolderMoves
  <2>2. CASE h = k
    <3>1. cells'[k].from = cells[k].from /\ PutsInto(k, slot, x)
      BY <1>5 DEF Assigned, Put, PutsInto
    <3>2. FreeFor(k, slot, x)
      BY <1>0, <1>7, <2>2, <3>1, StepFree
    <3> QED
      BY <2>2, <3>1, <3>2 DEF HolderMoves
  <2> QED
    BY <2>1, <2>2
<1>8. \A j \in n .. n : j > 0 =>
        /\ \/ j = n /\ GoesOn(t, n)
           \/ work'[t][j].ref \notin Holder /\ work'[t][j].op \notin {"fill", "keep"}
        /\ CopiesFor(work'[t][j], work'[t][j - 1])
  BY <1>1, <1>2 DEF GoesOn, CopiesFor
<1>9. n \in Int
  BY <1>2
<1> QED
  BY ONLY BInv, KeysInv, t \in Thread, <1>2, <1>6, <1>7, <1>8, <1>9, CallsKeepKeys

\* A call that a collection makes, once its step is done
LEMMA CallKeepsKeys ==
  ASSUME BInv, KeysInv, NEW t \in Thread, work[t] # <<>>, NEW n, n = Len(work[t]),
         work[t][n].op \in {"fill", "empty"},
         NEW call \in RuntimeCall, call.op \in {"release", "copy"}, call.ref \notin Holder,
         \A outer : outer.into = work[t][n].into /\ outer.at = work[t][n].at + 1
                      => CopiesFor(call, outer),
         Advance(t, <<call>>),
         CountsMove, \A k \in Holder : HolderMoves(k)
  PROVE  KeysInv'
<1>0. TypeOK
  BY DEF BInv, IInv
<1>1. PICK m : m = n + 1
  OBVIOUS
<1>2. /\ OnlyTop(t, n) /\ n \in Nat /\ DOMAIN work[t] = 1 .. n /\ DOMAIN work'[t] = 1 .. m
      /\ GoesOn(t, n) /\ work'[t][m] = call
  BY <1>0, <1>1, AdvancedInto
<1>3. m \in Int /\ m - 1 = n /\ \A j \in n .. m : j = n \/ j = m
  BY <1>1, <1>2
<1>4. CopiesFor(work'[t][m], work'[t][m - 1])
  BY <1>2, <1>3 DEF GoesOn
<1>5. CopiesFor(work'[t][n], work'[t][n - 1])
  BY <1>2 DEF GoesOn, CopiesFor
<1>6. \A j \in n .. m : j > 0 =>
        /\ \/ j = n /\ GoesOn(t, n)
           \/ work'[t][j].ref \notin Holder /\ work'[t][j].op \notin {"fill", "keep"}
        /\ CopiesFor(work'[t][j], work'[t][j - 1])
  BY <1>2, <1>3, <1>4, <1>5
<1>7. \A k \in Holder : cells'[k].from = "map" => HolderMoves(k)
  OBVIOUS
<1> QED
  BY ONLY BInv, KeysInv, t \in Thread, CountsMove, <1>2, <1>3, <1>6, <1>7, CallsKeepKeys

LEMMA FillKeys ==
  ASSUME BInv, KeysInv, NEW t \in Thread, Fill(t)
  PROVE  KeysInv'
<1>0. TypeOK /\ cells \in [Cell \cup Holder -> Content]
  BY DEF BInv, IInv, TypeOK
<1>1. PICK n : n = Len(work[t])
  OBVIOUS
<1>2. PICK k : k = work[t][n].ref
  OBVIOUS
<1>3. PICK steps : steps = work[t][n].into
  OBVIOUS
<1>4. PICK q : q = work[t][n].at
  OBVIOUS
<1>5. Innermost(t).ref = k /\ Innermost(t).into = steps /\ Innermost(t).at = q
  BY <1>1, <1>2, <1>3, <1>4 DEF Innermost
<1>6. /\ Doing(t, "fill")
      /\ IF q > Len(steps) THEN Return(t) /\ UNCHANGED cells
         ELSE \/ /\ steps[q].drops
                 /\ Advance(t, <<Call("release", Items(k)[steps[q].slot], 0, Nil)>>)
                 /\ cells' = [cells EXCEPT ![k].fields[steps[q].slot] = Nil]
              \/ ~steps[q].drops /\ StoreRetained(t, k, steps[q].slot, steps[q].item)
  BY <1>5 DEF Fill
<1>7. CASE q > Len(steps)
  BY <1>6, <1>7, FillReturnKeys
<1>8. CASE ~(q > Len(steps))
  <2>1. Filling(t, n, k, steps, q)
    BY <1>1, <1>2, <1>3, <1>4, <1>5, <1>6, <1>8, FillingIs
  <2>2. PICK slot : slot = steps[q].slot
    OBVIOUS
  <2>3. /\ slot \in DOMAIN cells[k].fields /\ slot \in Nat /\ k \in Holder
        /\ work[t] # <<>> /\ work[t][n].op = "fill" /\ q \in Nat
    BY <2>1, <2>2 DEF Filling, Step
  <2>4. CASE steps[q].drops
    <3>1. PICK call : call = Call("release", Items(k)[slot], 0, Nil)
      OBVIOUS
    <3>2. /\ Advance(t, <<call>>) /\ cells' = [cells EXCEPT ![k].fields[slot] = Nil]
      BY <1>6, <1>8, <2>2, <2>4, <3>1
    <3>3. cells[k].fields[slot] \in Item
      <4>1. cells[k].fields \in Seq(Item)
        BY <1>0, <2>3 DEF Content
      <4>2. DOMAIN cells[k].fields = 1 .. Len(cells[k].fields)
        BY ONLY <4>1, LenProperties
      <4> QED
        BY ONLY <2>3, <4>1, <4>2, ElementOfSeq
    <3>4. /\ call \in RuntimeCall /\ call.op = "release" /\ call.ref \notin Holder
      BY <3>1, <3>3, Distinct DEF RuntimeCall, Call, Items, Item
    <3>5. Filled(k, slot, Nil)
      BY <1>0, <2>3, <3>2, FieldSet DEF Filled, Item
    <3>6. CountsMove /\ \A h \in Holder : HolderMoves(h)
      <4>1. CountsMove
        BY <2>3, <3>5 DEF Filled, CountsMove
      <4>2. HolderMoves(k)
        BY <3>5, NothingFree DEF Filled, Put, PutsInto, HolderMoves
      <4>3. \A h \in Holder : h # k => HolderMoves(h)
        BY <3>5 DEF Filled, HolderMoves
      <4> QED
        BY <4>1, <4>2, <4>3
    <3>7. \A outer : CopiesFor(call, outer)
      BY <3>4 DEF CopiesFor
    <3> QED
      BY <1>1, <2>3, <3>2, <3>4, <3>6, <3>7, CallKeepsKeys
  <2>5. CASE ~steps[q].drops
    <3>1. PICK x : x = steps[q].item
      OBVIOUS
    <3>2. StoreRetained(t, k, slot, x)
      BY <1>6, <1>8, <2>2, <2>5, <3>1
    <3>3. CASE /\ x \in Cell /\ Advance(t, <<>>)
               /\ cells' = [cells EXCEPT ![k].fields[slot] = x, ![x].rc = Incr(@)]
      <4>1. CountsInto(k, slot, x)
        BY ONLY <1>0, <2>3, <3>3, PutCounts
      <4> QED
        BY ONLY BInv, KeysInv, <2>1, <2>2, <2>5, <3>1, <3>3, <4>1, t \in Thread, FillPutKeys
    <3>4. CASE /\ x \in Literal
               /\ Advance(t, <<Call("copy", x, 0, [cell |-> k, at |-> slot])>>)
               /\ UNCHANGED cells
      <4>1. PICK place : place = [cell |-> k, at |-> slot]
        OBVIOUS
      <4>2. place \in Place
        BY <2>3, <4>1 DEF Place
      <4>3. PICK call : call = Call("copy", x, 0, place)
        OBVIOUS
      <4>4. call \in RuntimeCall /\ call.op = "copy" /\ call.ref = x /\ x \notin Holder
        BY <3>4, <4>2, <4>3, Distinct DEF Call, RuntimeCall
      <4>5. Advance(t, <<call>>)
        BY <3>4, <4>1, <4>3
      <4>6. ASSUME NEW outer, outer.into = work[t][n].into, outer.at = work[t][n].at + 1
            PROVE  CopiesFor(call, outer)
        <5>1. outer.into = steps /\ outer.at - 1 = q
          BY <1>3, <1>4, <2>3, <4>6
        <5> QED
          BY <3>1, <4>4, <5>1 DEF CopiesFor
      <4>7. CountsMove /\ \A h \in Holder : HolderMoves(h)
        BY <3>4, NothingMoves
      <4> QED
        BY <1>1, <2>3, <4>4, <4>5, <4>6, <4>7, CallKeepsKeys
    <3> QED
      BY <3>2, <3>3, <3>4 DEF StoreRetained
  <2> QED
    BY <2>4, <2>5
<1> QED
  BY <1>7, <1>8

LEMMA EmptyKeys ==
  ASSUME BInv, KeysInv, NEW t \in Thread, Empty(t)
  PROVE  KeysInv'
<1>0. TypeOK /\ cells \in [Cell \cup Holder -> Content]
  BY DEF BInv, IInv, TypeOK
<1>1. PICK n : n = Len(work[t])
  OBVIOUS
<1>2. PICK k : k = work[t][n].ref
  OBVIOUS
<1>3. PICK i : i = work[t][n].at
  OBVIOUS
<1>4. Innermost(t).ref = k /\ Innermost(t).at = i
  BY <1>1, <1>2, <1>3 DEF Innermost
<1>5. /\ Doing(t, "empty")
      /\ IF i > Len(cells[k].fields)
         THEN Return(t) /\ cells' = [cells EXCEPT ![k] = Unused]
         ELSE Advance(t, <<Call("release", cells[k].fields[i], 0, Nil)>>) /\ cells' = cells
  BY <1>4 DEF Empty, Items
<1>6. Emptying(t, n, k, i)
  BY <1>1, <1>2, <1>3, <1>5, EmptyingIs
<1>7. work[t] # <<>> /\ n = Len(work[t]) /\ work[t][n].op = "empty" /\ k \in Holder
  BY <1>6 DEF Emptying
<1>8. CASE i > Len(cells[k].fields)
  <2>1. Return(t) /\ cells' = [cells EXCEPT ![k] = Unused]
    BY <1>5, <1>8
  <2>2. /\ OnlyTop(t, n) /\ n \in Nat /\ DOMAIN work[t] = 1 .. n /\ DOMAIN work'[t] = 1 .. n - 1
        /\ n - 1 \in Int /\ n .. n - 1 = {}
    BY <1>0, <1>7, <2>1, Returned
  <2>3. /\ cells'[k] = Unused
        /\ \A y \in Cell \cup Holder : y # k => cells'[y] = cells[y]
    BY <1>0, <1>7, <2>1
  <2>4. CountsMove
    BY <1>7, <2>3, Distinct DEF CountsMove
  <2>5. ASSUME NEW h \in Holder, cells'[h].from = "map" PROVE HolderMoves(h)
    <3>1. Unused.from # "map"
      BY Distinct DEF Unused, Kind
    <3> QED
      BY <2>3, <2>5, <3>1 DEF HolderMoves
  <2> QED
    BY <2>2, <2>4, <2>5, CallsKeepKeys
<1>9. CASE ~(i > Len(cells[k].fields))
  <2>1. PICK call : call = Call("release", cells[k].fields[i], 0, Nil)
    OBVIOUS
  <2>2. Advance(t, <<call>>) /\ cells' = cells
    BY <1>5, <1>9, <2>1
  <2>3. cells[k].fields[i] \in Item
    <3>1. /\ i \in 1 .. Len(cells[k].fields) + 1 /\ Len(cells[k].fields) \in Nat
          /\ cells[k].fields \in Seq(Item)
      BY <1>6 DEF Emptying
    <3>2. i \in 1 .. Len(cells[k].fields)
      BY <1>9, <3>1
    <3> QED
      BY ONLY <3>1, <3>2, ElementOfSeq
  <2>4. call \in RuntimeCall /\ call.op = "release" /\ call.ref \notin Holder
    BY <2>1, <2>3, Distinct DEF RuntimeCall, Call, Item
  <2>5. \A outer : CopiesFor(call, outer)
    BY <2>4 DEF CopiesFor
  <2>6. CountsMove /\ \A h \in Holder : HolderMoves(h)
    BY <2>2, NothingMoves
  <2> QED
    BY <1>7, <2>2, <2>4, <2>5, <2>6, CallKeepsKeys
<1> QED
  BY <1>8, <1>9

\* A call about a collection that no call was about
LEMMA BeginningKeepsKeys ==
  ASSUME BInv, KeysInv, NEW t \in Thread, NEW k \in Holder, work[t] = <<>>,
         NEW call \in RuntimeCall, call.op \in {"fill", "empty"}, call.ref = k,
         work' = [work EXCEPT ![t] = <<call>>],
         \A y \in Cell \cup Holder : y # k => cells'[y] = cells[y],
         MapOK(k)'
  PROVE  KeysInv'
<1>0. TypeOK /\ Fresh /\ Linked /\ MapsOK
  BY DEF BInv, IInv, KeysInv
<1>1. PICK s : s = <<call>>
  OBVIOUS
<1>2. s \in Seq(RuntimeCall) /\ Len(s) = 1 /\ s[1] = call
  BY <1>1
<1>3. /\ OnlyTop(t, 0) /\ work'[t] = s /\ DOMAIN work[t] = 1 .. 0 /\ DOMAIN work'[t] = 1 .. 1
  BY <1>0, <1>1, <1>2, Begun
<1>4. PICK z : z = 0
  OBVIOUS
<1>5. PICK m : m = 1
  OBVIOUS
<1>6. /\ OnlyTop(t, z) /\ DOMAIN work[t] = 1 .. z /\ DOMAIN work'[t] = 1 .. m
      /\ z \in Nat /\ m \in Int /\ work'[t][m] = call
      /\ \A j \in z .. m : j > 0 => j = m
  BY <1>2, <1>3, <1>4, <1>5
<1>7. CountsMove
  BY Distinct DEF CountsMove
<1>8. \A u \in Thread : work[u] \in Seq(RuntimeCall)
  BY <1>0 DEF TypeOK
<1>9. KeepsCome
  <2>1. \A j \in z .. m : j > 0 =>
           \/ j = z /\ GoesOn(t, z)
           \/ work'[t][j].op # "keep" \/ cells'[work'[t][j].ref].rc = 1
    BY <1>6
  <2> QED
    BY ONLY <1>6, <1>8, <2>1, t \in Thread, KeepsComeAfter
<1>10. Linked'
  <2>1. \A j \in z .. m : j > 0 => CopiesFor(work'[t][j], work'[t][j - 1])
    BY <1>6 DEF CopiesFor
  <2> QED
    BY ONLY BInv, <1>0, <1>6, <2>1, t \in Thread, LinkedKept
<1>11. Fresh'
  BY <1>0, <1>7, <1>9, FreshKept
<1>12. ASSUME NEW h \in Holder, h # k PROVE MapOK(h)'
  <2>1. FillsKept(h)
    <3> SUFFICES ASSUME NEW u \in Thread, NEW n \in DOMAIN work'[u], work'[u][n].ref = h
                 PROVE  work'[u] = work[u]
      BY DEF FillsKept
    <3>1. CASE u = t
      BY <1>2, <1>3, <1>12, <3>1
    <3>2. CASE u # t
      BY <1>3, <3>2 DEF OnlyTop
    <3> QED
      BY <3>1, <3>2
  <2>2. HolderMoves(h)
    BY <1>12 DEF HolderMoves
  <2> QED
    BY <1>0, <2>1, <2>2, MapKept DEF MapsOK
<1> QED
  BY <1>10, <1>11, <1>12 DEF KeysInv, MapsOK

LEMMA NewKeys ==
  ASSUME BInv, KeysInv, NEW t \in Thread, NEW k \in Holder, NotInUse(k), NEW kind \in Kind,
         NEW steps, StepsOK(steps), kind = "map" => KeysApart(steps), New(t, k, kind, steps)
  PROVE  KeysInv'
<1>0. TypeOK
  BY DEF BInv, IInv
<1>1. PICK call : call = Call("fill", k, 1, steps)
  OBVIOUS
<1>2. call \in RuntimeCall /\ call.op = "fill" /\ call.ref = k /\ call.into = steps
  BY <1>1 DEF RuntimeCall, Call, StepsOK
<1>3. work[t] = <<>> /\ work' = [work EXCEPT ![t] = <<call>>]
  BY <1>1 DEF New
<1>4. PICK slots : slots = {steps[i].slot : i \in DOMAIN steps}
  OBVIOUS
<1>5. PICK content : content = [from |-> kind, rc |-> 1, fields |-> [i \in slots |-> Nil], by |-> Nil]
  OBVIOUS
<1>6. cells' = [cells EXCEPT ![k] = content]
  BY <1>4, <1>5 DEF New
<1>7. cells'[k] = content /\ \A y \in Cell \cup Holder : y # k => cells'[y] = cells[y]
  BY <1>0, <1>6 DEF TypeOK
<1>8. content.from = kind /\ \A i \in DOMAIN content.fields : content.fields[i] = Nil
  BY <1>5
<1>9. ASSUME cells'[k].from = "map" PROVE MapOK(k)'
  <2>1. PICK f : f = cells'[k].fields
    OBVIOUS
  <2>2. \A i \in DOMAIN f : f[i] = Nil
    BY <1>7, <1>8, <2>1
  <2>3. OddApart(f) /\ KeysApart(steps)
    BY <1>7, <1>8, <1>9, <2>2 DEF OddApart
  <2>4. Unplaced(steps, f)
    BY <2>2, Distinct DEF Unplaced, KeyPut, Shared
  <2>5. ASSUME NEW u \in Thread, NEW n \in DOMAIN work'[u],
               work'[u][n].op = "fill", work'[u][n].ref = k
        PROVE  work'[u][n].into = steps
    <3>1. CASE u = t
      <4>1. work'[t] = <<call>>
        BY <1>0, <1>3 DEF TypeOK
      <4> QED
        BY <1>2, <2>5, <3>1, <4>1
    <3>2. CASE u # t
      <4>1. work'[u] = work[u]
        BY <1>0, <1>3, <3>2 DEF TypeOK
      <4>2. <<u, n>> \in Calls /\ CallAt(<<u, n>>) = work[u][n]
        BY <2>5, <4>1, CallsAre DEF CallAt
      <4> QED
        BY <2>5, <4>1, <4>2 DEF NotInUse
    <3> QED
      BY <3>1, <3>2
  <2>6. OddApart(cells'[k].fields)
    BY <2>1, <2>3
  <2>7. \A u \in Thread : \A n \in DOMAIN work'[u] :
          work'[u][n].op = "fill" /\ work'[u][n].ref = k =>
            KeysApart(work'[u][n].into) /\ Unplaced(work'[u][n].into, cells'[k].fields)
    BY <2>1, <2>3, <2>4, <2>5
  <2> QED
    BY <2>6, <2>7 DEF MapOK, OddApart, KeysApart, Unplaced, KeyPut
<1>10. MapOK(k)'
  BY <1>9 DEF MapOK
<1> QED
  BY <1>2, <1>3, <1>7, <1>10, BeginningKeepsKeys

LEMMA NewCollectionKeys ==
  ASSUME BInv, KeysInv, NEW t \in Thread, NEW k \in Holder, NotInUse(k),
         NewList(t, k) \/ NewArray(t, k) \/ NewMap(t, k)
  PROVE  KeysInv'
<1>1. CASE NewList(t, k)
  <2>1. PICK s : s = <<>>
    OBVIOUS
  <2>2. New(t, k, "list", s) /\ StepsOK(s)
    BY <1>1, <2>1, NoSteps DEF NewList
  <2> QED
    BY <2>2, NewKeys DEF Kind
<1>2. ASSUME NEW xs \in BoundedSeq(Passed(t), MaxItems), New(t, k, "array", ArraySteps(xs))
      PROVE  KeysInv'
  <2>1. PICK m \in Nat : xs \in [1 .. m -> Passed(t)]
    BY CollectionsAssumption DEF BoundedSeq, SeqOf
  <2>2. xs \in [1 .. m -> Cell \cup Literal]
    BY <2>1, PassedAre
  <2>3. PICK s : s = ArraySteps(xs)
    OBVIOUS
  <2>4. StepsOK(s)
    BY <2>2, <2>3, ArrayStepsAre
  <2> QED
    BY <1>2, <2>3, <2>4, NewKeys DEF Kind
<1>3. ASSUME NEW keys \in BoundedSeq(Passed(t), MaxItems),
             NEW values \in BoundedSeq(Passed(t), MaxItems), Len(keys) = Len(values),
             New(t, k, "map", MapSteps(keys, values))
      PROVE  KeysInv'
  <2>1. PICK m \in Nat : keys \in [1 .. m -> Passed(t)]
    BY CollectionsAssumption DEF BoundedSeq, SeqOf
  <2>2. PICK n \in Nat : values \in [1 .. n -> Passed(t)]
    BY CollectionsAssumption DEF BoundedSeq, SeqOf
  <2>3. Len(keys) = m /\ Len(values) = n
    BY <2>1, <2>2
  <2>4. values \in [1 .. m -> Passed(t)]
    BY <1>3, <2>2, <2>3
  <2>5. keys \in [1 .. m -> Cell \cup Literal] /\ values \in [1 .. m -> Cell \cup Literal]
    BY <2>1, <2>4, PassedAre
  <2>6. PICK s : s = MapSteps(keys, values)
    OBVIOUS
  <2>7. MapPrefix(keys, values, m, s)
    BY <2>5, <2>6, MapStepsAre
  <2>8. StepsOK(s) /\ Came(keys, values, m, s)
    BY <2>7 DEF MapPrefix
  <2>9. KeysApart(s)
    BY <2>5, <2>8, MapKeysApart
  <2> QED
    BY <1>3, <2>6, <2>8, <2>9, NewKeys DEF Kind
<1> QED
  BY <1>1, <1>2, <1>3 DEF NewArray, NewMap

LEMMA DropKeys ==
  ASSUME BInv, KeysInv, NEW t \in Thread, NEW k \in Holder, Drop(t, k)
  PROVE  KeysInv'
<1>0. TypeOK /\ MapsOK
  BY DEF BInv, IInv, KeysInv
<1>1. PICK call : call = Call("empty", k, 1, Nil)
  OBVIOUS
<1>2. call \in RuntimeCall /\ call.op = "empty" /\ call.ref = k
  BY <1>1 DEF RuntimeCall, Call
<1>3. work[t] = <<>> /\ work' = [work EXCEPT ![t] = <<call>>] /\ cells' = cells
  BY <1>1 DEF Drop
<1>4. FillsKept(k)
  <2> SUFFICES ASSUME NEW u \in Thread, NEW n \in DOMAIN work'[u], work'[u][n].op = "fill"
               PROVE  work'[u] = work[u]
    BY DEF FillsKept
  <2>1. CASE u = t
    <3>1. work'[t] = <<call>>
      BY <1>0, <1>3 DEF TypeOK
    <3> QED
      BY <1>2, <2>1, <3>1
  <2>2. CASE u # t
    BY <1>0, <1>3, <2>2 DEF TypeOK
  <2> QED
    BY <2>1, <2>2
<1>5. MapOK(k)'
  BY <1>0, <1>3, <1>4, NothingMoves, MapKept DEF MapsOK
<1> QED
  BY <1>2, <1>3, <1>5, BeginningKeepsKeys

LEMMA AddObjectKeys ==
  ASSUME BInv, KeysInv, NEW t \in Thread, NEW k \in Holder, NEW x \in Passed(t), AddObject(t, k, x)
  PROVE  KeysInv'
<1>0. TypeOK /\ cells[k] \in Content /\ cells[k].from = "list"
  BY DEF BInv, IInv, TypeOK, AddObject, Is
<1>1. PICK slot \in Nat : slot = Len(cells[k].fields) + 1
  <2>1. cells[k].fields \in Seq(Item)
    BY <1>0 DEF Content
  <2> QED
    BY <2>1, LenProperties
<1>2. PICK steps : steps = <<PutIn(slot, x)>>
  OBVIOUS
<1>3. StepsOK(steps)
  BY <1>2, PassedAre, OneStep
<1>4. PICK call : call = Call("fill", k, 1, steps)
  OBVIOUS
<1>5. call \in RuntimeCall /\ call.op = "fill" /\ call.ref = k
  BY <1>3, <1>4 DEF RuntimeCall, Call, StepsOK
<1>6. /\ work[t] = <<>> /\ work' = [work EXCEPT ![t] = <<call>>]
      /\ cells' = [cells EXCEPT ![k].fields = Append(@, Nil)]
  BY <1>1, <1>2, <1>4 DEF AddObject, Items
<1>7. /\ \A y \in Cell \cup Holder : y # k => cells'[y] = cells[y]
      /\ cells'[k].from = "list"
  <2>1. PICK content : content = [cells[k] EXCEPT !.fields = Append(@, Nil)]
    OBVIOUS
  <2>2. cells' = [cells EXCEPT ![k] = content]
    BY <1>6, <2>1
  <2>3. content.from = "list"
    BY <1>0, <2>1 DEF Content
  <2> QED
    BY <1>0, <2>2, <2>3 DEF TypeOK
<1>8. MapOK(k)'
  BY <1>7 DEF MapOK
<1> QED
  BY <1>5, <1>6, <1>7, <1>8, BeginningKeepsKeys
-----------------------------------------------------------------------------
(* The theorems *)

LEMMA CollectionsStart ==
  ASSUME CollectionInit
  PROVE  BInv
<1>1. BlockInit
  BY DEF CollectionInit
<1>2. IInv
  BY <1>1, InitOK
<1>3. Calls = {}
  BY <1>1 DEF BlockInit, Calls
<1>4. HoldersAlone /\ LentHeld
  BY <1>3 DEF HoldersAlone, LentHeld, Lent
<1> QED
  BY <1>2, <1>4 DEF BInv

LEMMA CollectionsKeep ==
  ASSUME BInv, [CollectionNext]_collectionVars
  PROVE  BInv'
<1>1. CASE BlockNext
  BY <1>1, BlocksKeep
<1>2. ASSUME NEW t \in Thread, Fill(t) \/ Empty(t)
      PROVE  BInv'
  BY <1>2, FillStep, EmptyStep
<1>3. ASSUME NEW t \in Thread, NEW k \in Holder, NotInUse(k),
             \/ NewList(t, k) \/ NewArray(t, k) \/ NewMap(t, k) \/ Drop(t, k)
             \/ \E x \in Passed(t) : AddObject(t, k, x)
      PROVE  BInv'
  <2>1. CASE NewList(t, k) \/ NewArray(t, k) \/ NewMap(t, k)
    BY ONLY BInv, t \in Thread, k \in Holder, NotInUse(k), <2>1, NewCollectionStep
  <2>2. CASE Drop(t, k)
    BY ONLY BInv, t \in Thread, k \in Holder, NotInUse(k), <2>2, DropStep
  <2>3. ASSUME NEW x \in Passed(t), AddObject(t, k, x)
        PROVE  BInv'
    BY ONLY BInv, t \in Thread, k \in Holder, NotInUse(k), x \in Passed(t), <2>3, AddObjectStep
  <2> QED
    BY <1>3, <2>1, <2>2, <2>3
<1>4. CASE UNCHANGED collectionVars
  BY <1>4, BlocksKeep DEF collectionVars
<1> QED
  BY <1>1, <1>2, <1>3, <1>4 DEF CollectionNext

LEMMA CollectionInvariance == CollectionSpec => []BInv
<1>1. CollectionInit => BInv
  BY CollectionsStart
<1>2. BInv /\ [CollectionNext]_collectionVars => BInv'
  BY CollectionsKeep
<1> QED
  BY <1>1, <1>2, PTL DEF CollectionSpec

\* Lists, arrays and maps keep their items alive by one reference each, from
\* the retain that stored the item, or copied it, to the release that drops it:
\* while threads fill, grow and empty collections of the same blocks, the count
\* of each block and variable on the heap stays the number of references to it.
THEOREM CollectionsCountExact == CollectionSpec => []HeapCountsExact
<1>1. BInv => HeapCountsExact
  BY DEF BInv, IInv
<1> QED
  BY <1>1, CollectionInvariance, PTL

\* A block whose last reference was in a collection is disposed of by one
\* thread, and a block that is still in a collection by none: -dealloc of the
\* collections releases each item once.
THEOREM CollectionsDisposeOnce == CollectionSpec => []DisposedOnce
<1>1. BInv => DisposedOnce
  BY DisposedByOne DEF BInv
<1> QED
  BY <1>1, CollectionInvariance, PTL

\* A block that a collection copies to keep it (objc_retain of a block of a
\* frame) takes its memory from the allocator of that copy, like any other.
THEOREM CollectionsAllocate == CollectionSpec => []CopiesUseAllocator
<1>1. BInv => CopiesUseAllocator
  BY DEF BInv, IInv
<1> QED
  BY <1>1, CollectionInvariance, PTL

LEMMA ItemsAreKept ==
  ASSUME TypeOK
  PROVE  ItemsOutliveFrames
<1> SUFFICES ASSUME NEW k \in Holder, NEW x \in Range(Items(k))
             PROVE  x \in Item
  BY DEF ItemsOutliveFrames, Item
<1>1. Items(k) \in Seq(Item)
  BY DEF TypeOK, Content, Items
<1>2. PICK i \in DOMAIN Items(k) : x = Items(k)[i]
  BY DEF Range
<1> QED
  BY <1>1, <1>2, ElementOfSeq, LenProperties

\* Whatever is given to a collection, even a block of a frame whose copy fails,
\* it holds nothing that is gone with a frame: -retain of its items copies them.
THEOREM NothingOfFramesKept == CollectionSpec => []ItemsOutliveFrames
<1>1. BInv => ItemsOutliveFrames
  BY ItemsAreKept DEF BInv, IInv
<1> QED
  BY <1>1, CollectionInvariance, PTL

LEMMA KeysStart ==
  ASSUME CollectionInit
  PROVE  KeysInv
<1>1. BlockInit
  BY DEF CollectionInit
<1>2. \A u \in Thread : work[u] = <<>>
  BY <1>1 DEF BlockInit
<1>3. Fresh /\ Linked
  BY <1>2 DEF Fresh, Linked
<1>4. Unused.from # "map"
  BY Distinct DEF Unused, Kind
<1>5. MapsOK
  BY <1>1, <1>4 DEF BlockInit, MapsOK, MapOK
<1> QED
  BY <1>3, <1>5 DEF KeysInv

LEMMA KeysKept ==
  ASSUME BInv, KeysInv, [CollectionNext]_collectionVars
  PROVE  KeysInv'
<1>1. CASE BlockNext
  BY <1>1, BlocksKeepKeys
<1>2. ASSUME NEW t \in Thread, Fill(t) \/ Empty(t)
      PROVE  KeysInv'
  BY <1>2, FillKeys, EmptyKeys
<1>3. ASSUME NEW t \in Thread, NEW k \in Holder, NotInUse(k),
             \/ NewList(t, k) \/ NewArray(t, k) \/ NewMap(t, k) \/ Drop(t, k)
             \/ \E x \in Passed(t) : AddObject(t, k, x)
      PROVE  KeysInv'
  <2>1. CASE NewList(t, k) \/ NewArray(t, k) \/ NewMap(t, k)
    BY ONLY BInv, KeysInv, t \in Thread, k \in Holder, <1>3, <2>1, NewCollectionKeys
  <2>2. CASE Drop(t, k)
    BY ONLY BInv, KeysInv, t \in Thread, k \in Holder, <2>2, DropKeys
  <2>3. ASSUME NEW x \in Passed(t), AddObject(t, k, x)
        PROVE  KeysInv'
    BY ONLY BInv, KeysInv, t \in Thread, k \in Holder, x \in Passed(t), <2>3, AddObjectKeys
  <2> QED
    BY <1>3, <2>1, <2>2, <2>3
<1>4. CASE UNCHANGED collectionVars
  BY <1>4, BlocksKeepKeys DEF collectionVars
<1> QED
  BY <1>1, <1>2, <1>3, <1>4 DEF CollectionNext

\* A map has no key twice, whatever it is made with, not even if a key is a
\* block of a frame that is given to it twice: -initWithObjects:forKeys:count:
\* puts equal keys into one place, and two copies are two blocks, since nothing
\* else refers to a block that is being made.
THEOREM NoKeyTwice == CollectionSpec => []KeysDistinct
<1>1. CollectionInit => BInv /\ KeysInv
  BY CollectionsStart, KeysStart
<1>2. BInv /\ KeysInv /\ [CollectionNext]_collectionVars => (BInv /\ KeysInv)'
  BY CollectionsKeep, KeysKept
<1>3. KeysInv => KeysDistinct
  BY DEF KeysInv, MapsOK, MapOK, OddApart, Odd, KeysDistinct, Is, Items
<1> QED
  BY <1>1, <1>2, <1>3, PTL DEF CollectionSpec
=============================================================================
