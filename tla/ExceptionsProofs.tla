-------------------------- MODULE ExceptionsProofs --------------------------
(***************************************************************************)
(* For every number of exceptions, objects and scopes whose handlers nest  *)
(* no deeper than g_catch_stack: the exceptions that exist are the ones on *)
(* their way to a handler or in one, each keeps its object, and the catch  *)
(* stack lists those of the handlers in order.                             *)
(***************************************************************************)
EXTENDS Exceptions, FiniteSetTheorems, SequenceTheorems, TLAPS

\* t is s with x after it.
Pushed(s, x, t) ==
  /\ Len(s) \in Nat /\ Len(t) = Len(s) + 1
  /\ DOMAIN s = 1 .. Len(s) /\ DOMAIN t = 1 .. Len(t)
  /\ \A i \in 1 .. Len(s) : t[i] = s[i]
  /\ t[Len(t)] = x

\* t is s, of length n, without its element i.
Dropped(s, n, i, t) ==
  /\ Len(t) = n - 1 /\ DOMAIN t = 1 .. n - 1
  /\ \A j \in 1 .. n - 1 : t[j] = IF j < i THEN s[j] ELSE s[j + 1]

\* How often e is on the catch stack c
Entries(c, e) == Cardinality({k \in 1 .. Len(c) : c[k] = e})

\* A @try has no exception, the other scopes have one.
ScopesOK ==
  /\ Len(scopes) <= MaxScopes
  /\ \A i \in DOMAIN scopes : scopes[i].exc = Nil <=> scopes[i].kind = "try"

\* catch_depth counts the handlers of an exception.
DepthCounts == \A e \in Exc : depth[e] = Entries(catchStack, e)

OnTheWay(e) ==
  \/ flight = e
  \/ \E i \in DOMAIN scopes : scopes[i].kind = "cleanup" /\ scopes[i].exc = e

\* An exception is unwound once at a time, and out of its handlers: those that
\* are left run the cleanup that interrupts it.
OneWay ==
  \A i \in DOMAIN scopes :
    scopes[i].kind = "cleanup" =>
      /\ scopes[i].exc # flight
      /\ \A j \in DOMAIN scopes :
           scopes[j].exc = scopes[i].exc /\ j # i => scopes[j].kind = "handler" /\ j < i

\* reserved tells the exceptions that are unwound and handled.
LeavingOnTheWay ==
  \A e \in Exc : leaving[e] <=> OnTheWay(e) /\ depth[e] > 0

\* The flag is set as long as there is metadata, and cleared with the object.
FlagsKept == metadata \subseteq flagged /\ \A o \in flagged : refs[o] > 0

Handling == TypeOK /\ ScopesOK /\ CatchStackMatches /\ DepthCounts
Unwinding == OneWay /\ LeavingOnTheWay /\ ExceptionsKept
IInv == Handling /\ Unwinding /\ ObjectsRetained /\ FlagsKept
-----------------------------------------------------------------------------
LEMMA PushedByAppend ==
  ASSUME NEW S, NEW s \in Seq(S), NEW x \in S
  PROVE  Append(s, x) \in Seq(S) /\ Pushed(s, x, Append(s, x))
<1>1. /\ Append(s, x) \in Seq(S) /\ Len(Append(s, x)) = Len(s) + 1
      /\ \A i \in 1 .. Len(s) : Append(s, x)[i] = s[i]
      /\ Append(s, x)[Len(s) + 1] = x
  BY AppendProperties
<1>2. Len(s) \in Nat /\ DOMAIN s = 1 .. Len(s)
  BY LenProperties
<1>3. DOMAIN Append(s, x) = 1 .. Len(Append(s, x))
  BY <1>1, LenProperties
<1> QED
  BY <1>1, <1>2, <1>3 DEF Pushed

LEMMA PushedByPop ==
  ASSUME NEW S, NEW s \in Seq(S), s # <<>>
  PROVE  /\ Pop(s) \in Seq(S) /\ Top(s) \in S
         /\ Pushed(Pop(s), Top(s), s)
<1>1. Len(s) \in Nat \ {0} /\ DOMAIN s = 1 .. Len(s)
  BY EmptySeq, LenProperties
<1> DEFINE n == Len(s) - 1
<1>2. n \in Nat
  BY <1>1
<1>3. (\A i \in 1 .. n : s[i] \in S) /\ s[Len(s)] \in S
  BY <1>1, ElementOfSeq
<1> HIDE DEF n
<1>4. /\ SubSeq(s, 1, n) \in Seq(S)
      /\ Len(SubSeq(s, 1, n)) = IF 1 <= n THEN n - 1 + 1 ELSE 0
      /\ \A i \in 1 .. n - 1 + 1 : SubSeq(s, 1, n)[i] = s[1 + i - 1]
  BY <1>2, <1>3, SubSeqProperties
<1>5. Len(SubSeq(s, 1, n)) = n /\ \A i \in 1 .. n : SubSeq(s, 1, n)[i] = s[i]
  BY <1>2, <1>4
<1>6. DOMAIN SubSeq(s, 1, n) = 1 .. Len(SubSeq(s, 1, n))
  BY <1>4, LenProperties
<1>7. Pop(s) = SubSeq(s, 1, n) /\ Len(s) = n + 1
  BY <1>1 DEF Pop, n
<1> QED
  BY <1>1, <1>2, <1>3, <1>4, <1>5, <1>6, <1>7 DEF Pushed, Top

LEMMA PushedByReplace ==
  ASSUME NEW S, NEW s \in Seq(S), s # <<>>, NEW x \in S
  PROVE  /\ [s EXCEPT ![Len(s)] = x] \in Seq(S)
         /\ Pushed(Pop(s), x, [s EXCEPT ![Len(s)] = x])
<1> DEFINE t == [s EXCEPT ![Len(s)] = x]
<1>1. Len(s) \in Nat \ {0} /\ DOMAIN s = 1 .. Len(s)
  BY EmptySeq, LenProperties
<1>2. /\ t \in Seq(S) /\ Len(t) = Len(s)
      /\ \A j \in 1 .. Len(s) : t[j] = IF j = Len(s) THEN x ELSE s[j]
  BY <1>1, ExceptSeq
<1>3. DOMAIN t = 1 .. Len(t)
  BY <1>2, LenProperties
<1>4. Pushed(Pop(s), Top(s), s)
  BY PushedByPop
<1> HIDE DEF t
<1>5. Pushed(Pop(s), x, t)
  BY <1>1, <1>2, <1>3, <1>4 DEF Pushed
<1> QED
  BY <1>2, <1>5 DEF t

LEMMA NestingType ==
  ASSUME NEW s, NEW n \in Nat
  PROVE  /\ Nesting(s, n) \in Nat /\ Nesting(s, n) <= n
         /\ \A m \in 0 .. n : Nesting(s, m) <= Nesting(s, n)
<1> DEFINE H(m) == {i \in 1 .. m : s[i].kind = "handler"}
<1>1. IsFiniteSet(1 .. n) /\ Cardinality(1 .. n) = IF 1 > n THEN 0 ELSE n - 1 + 1
  BY FS_Interval
<1>2. IsFiniteSet(H(n)) /\ Cardinality(H(n)) <= Cardinality(1 .. n)
  BY <1>1, FS_Subset
<1>3. Cardinality(H(n)) \in Nat
  BY <1>2, FS_CardinalityType
<1>4. ASSUME NEW m \in 0 .. n
      PROVE  Cardinality(H(m)) <= Cardinality(H(n))
  <2>1. H(m) \in SUBSET H(n)
    OBVIOUS
  <2> QED
    BY <2>1, <1>2, FS_Subset
<1> QED
  BY <1>1, <1>2, <1>3, <1>4 DEF Nesting

LEMMA NestingPrefix ==
  ASSUME NEW s, NEW x, NEW t, Pushed(s, x, t)
  PROVE  \A m \in 0 .. Len(s) : Nesting(t, m) = Nesting(s, m)
<1> TAKE m \in 0 .. Len(s)
<1>1. {i \in 1 .. m : t[i].kind = "handler"} = {i \in 1 .. m : s[i].kind = "handler"}
  BY DEF Pushed
<1> QED
  BY <1>1 DEF Nesting

\* The last scope counts when it is a handler.
LEMMA NestingPushed ==
  ASSUME NEW s, NEW x, NEW t, Pushed(s, x, t)
  PROVE  Nesting(t, Len(t)) =
           IF x.kind = "handler" THEN Nesting(s, Len(s)) + 1 ELSE Nesting(s, Len(s))
<1> DEFINE H == {i \in 1 .. Len(s) : s[i].kind = "handler"}
           G == {i \in 1 .. Len(t) : t[i].kind = "handler"}
<1>1. IsFiniteSet(H)
  <2>1. IsFiniteSet(1 .. Len(s))
    BY FS_Interval DEF Pushed
  <2> QED
    BY <2>1, FS_Subset
<1>2. G = IF x.kind = "handler" THEN H \cup {Len(t)} ELSE H
  BY DEF Pushed
<1>3. Len(t) \notin H
  BY DEF Pushed
<1> HIDE DEF H, G
<1>4. Cardinality(H \cup {Len(t)}) = Cardinality(H) + 1
  BY <1>1, <1>3, FS_AddElement
<1>5. Cardinality(G) = IF x.kind = "handler" THEN Cardinality(H) + 1 ELSE Cardinality(H)
  BY <1>2, <1>4
<1> QED
  BY <1>5 DEF Nesting, H, G

LEMMA EntriesPushed ==
  ASSUME NEW c, NEW x, NEW t, Pushed(c, x, t), NEW e
  PROVE  /\ Entries(c, e) \in Nat
         /\ Entries(t, e) = IF x = e THEN Entries(c, e) + 1 ELSE Entries(c, e)
<1> DEFINE H == {i \in 1 .. Len(c) : c[i] = e}
           G == {i \in 1 .. Len(t) : t[i] = e}
<1>1. IsFiniteSet(H)
  <2>1. IsFiniteSet(1 .. Len(c))
    BY FS_Interval DEF Pushed
  <2> QED
    BY <2>1, FS_Subset
<1>2. G = IF x = e THEN H \cup {Len(t)} ELSE H
  BY DEF Pushed
<1>3. Len(t) \notin H
  BY DEF Pushed
<1> HIDE DEF H, G
<1>4. Cardinality(H \cup {Len(t)}) = Cardinality(H) + 1 /\ Cardinality(H) \in Nat
  BY <1>1, <1>3, FS_AddElement, FS_CardinalityType
<1>5. Cardinality(G) = IF x = e THEN Cardinality(H) + 1 ELSE Cardinality(H)
  BY <1>2, <1>4
<1> QED
  BY <1>4, <1>5 DEF Entries, H, G

LEMMA EntriesNone ==
  ASSUME NEW S, NEW c \in Seq(S), NEW e
  PROVE  /\ Entries(c, e) \in Nat
         /\ Entries(c, e) = 0 <=> \A k \in DOMAIN c : c[k] # e
<1> DEFINE H == {i \in 1 .. Len(c) : c[i] = e}
<1>1. Len(c) \in Nat /\ DOMAIN c = 1 .. Len(c)
  BY LenProperties
<1>2. IsFiniteSet(H)
  <2>1. IsFiniteSet(1 .. Len(c))
    BY <1>1, FS_Interval
  <2> QED
    BY <2>1, FS_Subset
<1>3. Cardinality(H) \in Nat /\ (Cardinality(H) = 0 <=> H = {})
  BY <1>2, FS_CardinalityType, FS_EmptySet
<1> QED
  BY <1>1, <1>3 DEF Entries

\* A scope that is not a handler does not change what the catch stack lists.
LEMMA MatchesOther ==
  ASSUME NEW s, NEW x, NEW t, Pushed(s, x, t), x.kind # "handler",
         NEW c \in Seq(Exc)
  PROVE  Matches(s, c) <=> Matches(t, c)
<1>1. /\ Len(s) \in Nat /\ Len(t) = Len(s) + 1
      /\ DOMAIN s = 1 .. Len(s) /\ DOMAIN t = 1 .. Len(t)
      /\ \A i \in 1 .. Len(s) : t[i] = s[i]
      /\ t[Len(t)] = x
  BY DEF Pushed
<1>2. Nesting(t, Len(t)) = Nesting(s, Len(s))
  BY NestingPushed
<1>3. \A m \in 0 .. Len(s) : Nesting(t, m) = Nesting(s, m)
  BY NestingPrefix
<1>4. \A i \in DOMAIN t : t[i].kind = "handler" => i \in DOMAIN s
  BY <1>1
<1>5. \A i \in DOMAIN s : i \in DOMAIN t /\ t[i] = s[i] /\ Nesting(t, i) = Nesting(s, i)
  BY <1>1, <1>3
<1>6. ASSUME Matches(s, c) PROVE Matches(t, c)
  BY <1>2, <1>4, <1>5, <1>6 DEF Matches
<1>7. ASSUME Matches(t, c) PROVE Matches(s, c)
  BY <1>2, <1>4, <1>5, <1>7 DEF Matches
<1> QED
  BY <1>6, <1>7

LEMMA MatchesEnter ==
  ASSUME NEW s, NEW x, NEW t, Pushed(s, x, t), x.kind = "handler",
         NEW c, NEW d, Pushed(c, x.exc, d), Matches(s, c)
  PROVE  Matches(t, d)
<1>1. /\ Len(s) \in Nat /\ Len(t) = Len(s) + 1
      /\ DOMAIN s = 1 .. Len(s) /\ DOMAIN t = 1 .. Len(t)
      /\ \A i \in 1 .. Len(s) : t[i] = s[i]
      /\ t[Len(t)] = x
  BY DEF Pushed
<1>2. /\ Len(c) \in Nat /\ Len(d) = Len(c) + 1
      /\ DOMAIN c = 1 .. Len(c) /\ DOMAIN d = 1 .. Len(d)
      /\ \A k \in 1 .. Len(c) : d[k] = c[k]
      /\ d[Len(d)] = x.exc
  BY DEF Pushed
<1>3. Nesting(t, Len(t)) = Nesting(s, Len(s)) + 1 /\ Len(c) = Nesting(s, Len(s))
  BY NestingPushed DEF Matches
<1>4. \A i \in DOMAIN s : i \in DOMAIN t /\ t[i] = s[i] /\ Nesting(t, i) = Nesting(s, i)
  BY <1>1, NestingPrefix
<1>5. Len(d) = Nesting(t, Len(t))
  BY <1>2, <1>3
<1>6. ASSUME NEW i \in DOMAIN t, t[i].kind = "handler"
      PROVE  Nesting(t, i) \in DOMAIN d /\ d[Nesting(t, i)] = t[i].exc
  <2>1. CASE i \in DOMAIN s
    <3>1. Nesting(s, i) \in DOMAIN c /\ c[Nesting(s, i)] = s[i].exc
      BY <1>4, <1>6, <2>1 DEF Matches
    <3> QED
      BY <1>2, <1>4, <2>1, <3>1
  <2>2. CASE i \notin DOMAIN s
    <3>1. i = Len(t)
      BY <1>1, <2>2
    <3> QED
      BY <1>1, <1>2, <1>5, <3>1
  <2> QED
    BY <2>1, <2>2
<1>7. ASSUME NEW k \in DOMAIN d
      PROVE  \E i \in DOMAIN t : t[i].kind = "handler" /\ Nesting(t, i) = k
  <2>1. CASE k \in DOMAIN c
    <3>1. PICK i \in DOMAIN s : s[i].kind = "handler" /\ Nesting(s, i) = k
      BY <2>1 DEF Matches
    <3> QED
      BY <1>4, <3>1
  <2>2. CASE k \notin DOMAIN c
    <3>1. k = Len(d) /\ Len(t) \in DOMAIN t
      BY <1>1, <1>2, <2>2
    <3> QED
      BY <1>1, <1>5, <3>1
  <2> QED
    BY <2>1, <2>2
<1> QED
  BY <1>5, <1>6, <1>7 DEF Matches

LEMMA MatchesLeave ==
  ASSUME NEW s, NEW x, NEW t, Pushed(s, x, t), x.kind = "handler",
         NEW d \in Seq(Exc), Matches(t, d)
  PROVE  /\ d # <<>> /\ Top(d) = x.exc
         /\ Matches(s, Pop(d))
<1>1. /\ Len(s) \in Nat /\ Len(t) = Len(s) + 1
      /\ DOMAIN s = 1 .. Len(s) /\ DOMAIN t = 1 .. Len(t)
      /\ \A i \in 1 .. Len(s) : t[i] = s[i]
      /\ t[Len(t)] = x
  BY DEF Pushed
<1>2. /\ Nesting(t, Len(t)) = Nesting(s, Len(s)) + 1 /\ Len(d) = Nesting(t, Len(t))
      /\ Nesting(s, Len(s)) \in Nat
  BY <1>1, NestingPushed, NestingType DEF Matches
<1>3. d # <<>>
  BY <1>2, EmptySeq
<1>4. Top(d) = x.exc
  BY <1>1, <1>2 DEF Matches, Top
<1>5. Pushed(Pop(d), Top(d), d) /\ Pop(d) \in Seq(Exc)
  BY <1>3, PushedByPop
<1> DEFINE c == Pop(d)
<1> HIDE DEF c
<1>6. /\ Len(c) \in Nat /\ Len(d) = Len(c) + 1
      /\ DOMAIN c = 1 .. Len(c) /\ DOMAIN d = 1 .. Len(d)
      /\ \A k \in 1 .. Len(c) : d[k] = c[k]
  BY <1>5 DEF Pushed, c
<1>7. \A i \in DOMAIN s : /\ i \in DOMAIN t /\ t[i] = s[i]
                          /\ Nesting(t, i) = Nesting(s, i)
                          /\ Nesting(s, i) <= Nesting(s, Len(s))
  BY <1>1, NestingPrefix, NestingType
<1>8. Len(c) = Nesting(s, Len(s))
  BY <1>2, <1>6
<1>9. ASSUME NEW i \in DOMAIN s, s[i].kind = "handler"
      PROVE  Nesting(s, i) \in DOMAIN c /\ c[Nesting(s, i)] = s[i].exc
  <2>1. Nesting(s, i) \in DOMAIN d /\ d[Nesting(s, i)] = s[i].exc
    BY <1>7, <1>9 DEF Matches
  <2>2. Nesting(s, i) \in DOMAIN c
    BY <1>6, <1>7, <1>8, <2>1
  <2> QED
    BY <1>6, <2>1, <2>2
<1>10. ASSUME NEW k \in DOMAIN c
       PROVE  \E i \in DOMAIN s : s[i].kind = "handler" /\ Nesting(s, i) = k
  <2>1. k \in DOMAIN d /\ k # Len(d)
    BY <1>6
  <2>2. PICK i \in DOMAIN t : t[i].kind = "handler" /\ Nesting(t, i) = k
    BY <2>1 DEF Matches
  <2>3. i # Len(t)
    BY <1>2, <2>1, <2>2
  <2>4. i \in DOMAIN s
    BY <1>1, <2>3
  <2> QED
    BY <1>7, <2>2, <2>4
<1>11. Matches(s, c)
  BY <1>8, <1>9, <1>10 DEF Matches
<1> QED
  BY <1>3, <1>4, <1>11 DEF c

\* What unlinking an element does to a sequence.
LEMMA Joined ==
  ASSUME NEW S, NEW s, NEW n \in Nat, NEW i \in 1 .. n,
         NEW p \in Seq(S), NEW q \in Seq(S), Len(p) = i - 1, Len(q) = n - i,
         \A j \in 1 .. i - 1 : p[j] = s[j],
         \A j \in 1 .. n - i : q[j] = s[i + j]
  PROVE  p \o q \in Seq(S) /\ Dropped(s, n, i, p \o q)
<1> DEFINE t == p \o q
<1>1. /\ t \in Seq(S) /\ Len(t) = Len(p) + Len(q)
      /\ \A j \in 1 .. Len(p) + Len(q) :
           t[j] = IF j <= Len(p) THEN p[j] ELSE q[j - Len(p)]
  BY ConcatProperties
<1> HIDE DEF t
<1>2. Len(p) + Len(q) = n - 1
  OBVIOUS
<1>3. DOMAIN t = 1 .. n - 1
  BY <1>1, <1>2, LenProperties
<1>4. ASSUME NEW j \in 1 .. n - 1
      PROVE  t[j] = IF j < i THEN s[j] ELSE s[j + 1]
  <2>1. t[j] = IF j <= i - 1 THEN p[j] ELSE q[j - (i - 1)]
    BY <1>1, <1>2
  <2>2. CASE j <= i - 1
    BY <2>1, <2>2
  <2>3. CASE ~(j <= i - 1)
    <3>1. j - (i - 1) \in 1 .. n - i
      BY <2>3
    <3>2. i + (j - (i - 1)) = j + 1
      OBVIOUS
    <3>3. q[j - (i - 1)] = s[i + (j - (i - 1))]
      BY <3>1
    <3> QED
      BY <2>1, <2>3, <3>2, <3>3
  <2> QED
    BY <2>2, <2>3
<1> QED
  BY <1>1, <1>2, <1>3, <1>4 DEF t, Dropped

LEMMA Unlinked ==
  ASSUME NEW S, NEW s \in Seq(S), NEW n \in Nat, n = Len(s), NEW i \in 1 .. n
  PROVE  LET t == SubSeq(s, 1, i - 1) \o SubSeq(s, i + 1, Len(s)) IN
         t \in Seq(S) /\ Dropped(s, n, i, t)
<1>1. \A j \in 1 .. n : s[j] \in S
  BY ElementOfSeq
<1> DEFINE p == SubSeq(s, 1, i - 1)
           q == SubSeq(s, i + 1, n)
<1>2. /\ p \in Seq(S) /\ Len(p) = i - 1
      /\ \A j \in 1 .. i - 1 : p[j] = s[j]
  <2>1. \A j \in 1 .. i - 1 : s[j] \in S
    BY <1>1
  <2>2. /\ p \in Seq(S) /\ Len(p) = IF 1 <= i - 1 THEN i - 1 - 1 + 1 ELSE 0
        /\ \A j \in 1 .. i - 1 - 1 + 1 : p[j] = s[1 + j - 1]
    BY <2>1, SubSeqProperties
  <2> HIDE DEF p
  <2> QED
    BY <2>2
<1>3. /\ q \in Seq(S) /\ Len(q) = n - i
      /\ \A j \in 1 .. n - i : q[j] = s[i + j]
  <2>1. \A j \in i + 1 .. n : s[j] \in S
    BY <1>1
  <2>2. /\ q \in Seq(S) /\ Len(q) = IF i + 1 <= n THEN n - (i + 1) + 1 ELSE 0
        /\ \A j \in 1 .. n - (i + 1) + 1 : q[j] = s[i + 1 + j - 1]
    BY <2>1, SubSeqProperties
  <2> HIDE DEF q
  <2>3. Len(q) = n - i
    BY <2>2
  <2>4. ASSUME NEW j \in 1 .. n - i PROVE q[j] = s[i + j]
    <3>1. i + 1 + j - 1 = i + j /\ j \in 1 .. n - (i + 1) + 1
      OBVIOUS
    <3>2. q[j] = s[i + 1 + j - 1]
      BY <2>2, <3>1
    <3> QED
      BY <3>1, <3>2
  <2> QED
    BY <2>2, <2>3, <2>4
<1> HIDE DEF p, q
<1>4. p \o q \in Seq(S) /\ Dropped(s, n, i, p \o q)
  BY <1>2, <1>3, Joined
<1> QED
  BY <1>4 DEF p, q
-----------------------------------------------------------------------------
(* Types *)

ObjectsOK ==
  /\ refs \in [Obj -> Nat] /\ held \in [Obj -> Nat]
  /\ metadata \subseteq Obj /\ flagged \subseteq Obj

BlocksOK ==
  /\ object \in [Exc -> Obj \cup {Nil}]
  /\ depth \in [Exc -> Nat] /\ leaving \in [Exc -> BOOLEAN]
  /\ active \in Seq(Exc) /\ catchStack \in Seq(Exc) /\ Len(catchStack) <= CatchLimit
  /\ current \in Exc \cup {Nil}

ScopesType == scopes \in Seq(Scope) /\ flight \in Exc \cup {Nil}

LEMMA TypeParts == TypeOK <=> ObjectsOK /\ BlocksOK /\ ScopesType
BY DEF TypeOK, ObjectsOK, BlocksOK, ScopesType

LEMMA ScopesEnds ==
  ASSUME ScopesType, scopes # <<>>
  PROVE  /\ Pop(scopes) \in Seq(Scope) /\ Top(scopes) \in Scope
         /\ Pushed(Pop(scopes), Top(scopes), scopes)
         /\ Len(scopes) \in Nat \ {0} /\ Top(scopes) = scopes[Len(scopes)]
         /\ Len(scopes) \in DOMAIN scopes
<1>1. /\ Pop(scopes) \in Seq(Scope) /\ Top(scopes) \in Scope
      /\ Pushed(Pop(scopes), Top(scopes), scopes)
  BY PushedByPop DEF ScopesType
<1>2. Len(scopes) \in Nat \ {0} /\ DOMAIN scopes = 1 .. Len(scopes)
  BY EmptySeq, LenProperties DEF ScopesType
<1> QED
  BY <1>1, <1>2 DEF Top

LEMMA CatchEnds ==
  ASSUME BlocksOK, catchStack # <<>>
  PROVE  /\ Pop(catchStack) \in Seq(Exc) /\ Top(catchStack) \in Exc
         /\ Pushed(Pop(catchStack), Top(catchStack), catchStack)
         /\ Len(Pop(catchStack)) \in Nat /\ Len(Pop(catchStack)) <= CatchLimit
<1>1. /\ Pop(catchStack) \in Seq(Exc) /\ Top(catchStack) \in Exc
      /\ Pushed(Pop(catchStack), Top(catchStack), catchStack)
  BY PushedByPop DEF BlocksOK
<1> QED
  BY <1>1, ExceptionsAssumption DEF Pushed, BlocksOK

LEMMA ReleasingType ==
  ASSUME ObjectsOK, NEW o, Releasing(o)
  PROVE  /\ refs' \in [Obj -> Nat] /\ metadata' \subseteq Obj /\ flagged' \subseteq Obj
<1>1. refs' = [refs EXCEPT ![o] = IF refs[o] > 0 THEN refs[o] - 1 ELSE 0]
  BY DEF Releasing
<1>2. \A x \in Obj : (IF x = o THEN IF refs[o] > 0 THEN refs[o] - 1 ELSE 0 ELSE refs[x]) \in Nat
  BY DEF ObjectsOK
<1>3. refs' \in [Obj -> Nat]
  BY <1>1, <1>2, Zenon DEF ObjectsOK
<1> QED
  BY <1>3 DEF ObjectsOK, Releasing

LEMMA UnregisterType ==
  ASSUME BlocksOK, NEW e \in Exc, Unregister(e)
  PROVE  active' \in Seq(Exc)
<1>1. CASE UNCHANGED active
  BY <1>1 DEF BlocksOK
<1>2. CASE \E i \in DOMAIN active :
             active' = SubSeq(active, 1, i - 1) \o SubSeq(active, i + 1, Len(active))
  <2>1. PICK i \in DOMAIN active :
          active' = SubSeq(active, 1, i - 1) \o SubSeq(active, i + 1, Len(active))
    BY <1>2
  <2>2. Len(active) \in Nat /\ i \in 1 .. Len(active)
    BY LenProperties DEF BlocksOK
  <2> QED
    BY <2>1, <2>2, Unlinked DEF BlocksOK
<1> QED
  BY <1>1, <1>2 DEF Unregister

LEMMA EndCatchType ==
  ASSUME BlocksOK, ObjectsOK, EndCatch
  PROVE  BlocksOK' /\ ObjectsOK'
<1> DEFINE e == Top(catchStack)
           rest == Pop(catchStack)
           now == CurrentAfter(e, rest)
<1>1. CASE catchStack = <<>>
  BY <1>1 DEF EndCatch, blocks, objects, BlocksOK, ObjectsOK
<1>2. CASE catchStack # <<>>
  <2>1. /\ rest \in Seq(Exc) /\ e \in Exc /\ Len(rest) <= CatchLimit
    BY <1>2, CatchEnds
  <2>2. now \in Exc \cup {Nil}
    <3>1. rest # <<>> => Top(rest) \in Exc
      BY <2>1, PushedByPop
    <3> QED
      BY <3>1 DEF CurrentAfter, BlocksOK
  <2>3. /\ catchStack' = rest
        /\ depth' = [depth EXCEPT ![e] = IF depth[e] > 0 THEN depth[e] - 1 ELSE 0]
        /\ leaving' = [leaving EXCEPT ![e] = leaving[e] /\ depth[e] > 1]
        /\ \/ Delete(e) /\ current' \in {now, Nil}
           \/ UNCHANGED <<object, active, objects>> /\ current' = now
    BY <1>2 DEF EndCatch
  <2> HIDE DEF e, rest, now
  <2>4. depth' \in [Exc -> Nat]
    BY <2>1, <2>3 DEF BlocksOK
  <2>5. leaving' \in [Exc -> BOOLEAN]
    BY <2>1, <2>3, Zenon DEF BlocksOK
  <2>6. catchStack' \in Seq(Exc) /\ Len(catchStack') <= CatchLimit
    BY <2>1, <2>3
  <2>7. current' \in Exc \cup {Nil}
    BY <2>2, <2>3
  <2>8. /\ object' \in [Exc -> Obj \cup {Nil}] /\ active' \in Seq(Exc)
        /\ ObjectsOK'
    <3>1. CASE Delete(e)
      <4>1. object' \in [Exc -> Obj \cup {Nil}]
        BY <3>1 DEF Delete, BlocksOK
      <4>2. active' \in Seq(Exc)
        BY <2>1, <3>1, UnregisterType DEF Delete
      <4>3. ObjectsOK'
        BY <3>1, ReleasingType DEF Delete, ObjectsOK
      <4> QED
        BY <4>1, <4>2, <4>3
    <3>2. CASE UNCHANGED <<object, active, objects>>
      BY <3>2 DEF objects, BlocksOK, ObjectsOK
    <3> QED
      BY <2>3, <3>1, <3>2
  <2> QED
    BY <2>4, <2>5, <2>6, <2>7, <2>8 DEF BlocksOK
<1> QED
  BY <1>1, <1>2

\* A handler ends, and its scope with it.
EndHandler ==
  /\ Inside("handler")
  /\ EndCatch
  /\ scopes' = Pop(scopes) /\ UNCHANGED flight

\* A @try that catches nothing ends.
EndTry ==
  /\ Inside("try")
  /\ scopes' = Pop(scopes) /\ UNCHANGED <<flight, blocks, objects>>

\* The steps that leave the stack and the exceptions alone
RefsOnly == \E o \in Obj : Create(o) \/ Retain(o) \/ Release(o)

LEMMA Steps ==
  ASSUME Next
  PROVE  \/ RefsOnly
         \/ \E o \in Obj : Throw(o)
         \/ \E e \in Exc \cup {Nil} : Rethrow(e)
         \/ EnterTry \/ EndTry \/ BeginCatch \/ EndHandler
         \/ EnterCleanup \/ LeaveCleanup
BY DEF Next, RefsOnly, LeaveTry, UnwindTry, EndTry, HandlerReturns, UnwindHandler, EndHandler

LEMMA TypeStep ==
  ASSUME TypeOK, Next
  PROVE  TypeOK'
<1>1. ObjectsOK /\ BlocksOK /\ ScopesType
  BY TypeParts
<1> SUFFICES ObjectsOK' /\ BlocksOK' /\ ScopesType'
  BY TypeParts DEF TypeOK, ObjectsOK, BlocksOK, ScopesType
<1>2. CASE RefsOnly
  <2>1. PICK o \in Obj : Create(o) \/ Retain(o) \/ Release(o)
    BY <1>2 DEF RefsOnly
  <2>2. BlocksOK' /\ ScopesType'
    BY <1>1, <2>1 DEF Create, Retain, Release, blocks, BlocksOK, ScopesType
  <2>3. ASSUME Create(o) PROVE ObjectsOK'
    BY <1>1, <2>3 DEF Create, ObjectsOK
  <2>4. ASSUME Retain(o) PROVE ObjectsOK'
    BY <1>1, <2>4 DEF Retain, ObjectsOK
  <2>5. ASSUME Release(o) PROVE ObjectsOK'
    <3>1. held' \in [Obj -> Nat]
      BY <1>1, <2>5 DEF Release, ObjectsOK
    <3> QED
      BY <1>1, <2>5, <3>1, ReleasingType DEF Release, ObjectsOK
  <2> QED
    BY <2>1, <2>2, <2>3, <2>4, <2>5
<1>3. ASSUME NEW o \in Obj, Throw(o)
      PROVE  ObjectsOK' /\ BlocksOK' /\ ScopesType'
  <2>1. CASE IsRethrow(o)
    <3>1. /\ leaving' = [leaving EXCEPT ![current] = TRUE] /\ flight' = current
          /\ UNCHANGED <<object, depth, active, objects, scopes, catchStack, current>>
          /\ current \in Exc
      BY <1>1, <1>3, <2>1 DEF Throw, IsRethrow, BlocksOK
    <3> QED
      BY <1>1, <3>1 DEF objects, ObjectsOK, BlocksOK, ScopesType
  <2>2. CASE ~IsRethrow(o)
    <3>1. PICK e \in Exc \ Allocated :
            /\ object' = [object EXCEPT ![e] = o]
            /\ depth' = [depth EXCEPT ![e] = 0]
            /\ leaving' = [leaving EXCEPT ![e] = FALSE]
            /\ active' = <<e>> \o active
            /\ flight' = e
            /\ refs' = [refs EXCEPT ![o] = refs[o] + 1]
            /\ CaptureMetadata(o)
            /\ UNCHANGED held
      BY <1>3, <2>2 DEF Throw
    <3>2. UNCHANGED <<scopes, catchStack, current>>
      BY <1>3 DEF Throw
    <3>3. ObjectsOK'
      BY <1>1, <3>1 DEF ObjectsOK, CaptureMetadata
    <3>4. active' \in Seq(Exc)
      BY <1>1, <3>1, ConcatProperties DEF BlocksOK
    <3>5. /\ object' \in [Exc -> Obj \cup {Nil}]
          /\ depth' \in [Exc -> Nat] /\ leaving' \in [Exc -> BOOLEAN]
      BY <1>1, <3>1 DEF BlocksOK
    <3> QED
      BY <1>1, <3>1, <3>2, <3>3, <3>4, <3>5 DEF BlocksOK, ScopesType
  <2> QED
    BY <2>1, <2>2
<1>4. ASSUME NEW given \in Exc \cup {Nil}, Rethrow(given)
      PROVE  ObjectsOK' /\ BlocksOK' /\ ScopesType'
  <2>1. PICK e \in Exc :
          /\ leaving' = [leaving EXCEPT ![e] = TRUE]
          /\ flight' = e
          /\ UNCHANGED <<scopes, object, depth, active, catchStack, current, objects>>
    <3>1. catchStack # <<>> => Top(catchStack) \in Exc
      BY <1>1, CatchEnds
    <3> QED
      BY <1>1, <1>4, <3>1 DEF Rethrow, BlocksOK
  <2> QED
    BY <1>1, <2>1 DEF objects, ObjectsOK, BlocksOK, ScopesType
<1>5. CASE EnterTry
  <2>1. [kind |-> "try", exc |-> Nil] \in Scope
    BY DEF Scope
  <2>2. scopes' \in Seq(Scope)
    BY <1>1, <1>5, <2>1, PushedByAppend DEF EnterTry, ScopesType
  <2> QED
    BY <1>1, <1>5, <2>2 DEF EnterTry, blocks, objects, ObjectsOK, BlocksOK, ScopesType
<1>6. CASE EndTry
  BY <1>1, <1>6, ScopesEnds DEF EndTry, Inside, blocks, objects, ObjectsOK, BlocksOK, ScopesType
<1>7. CASE BeginCatch
  <2>1. flight \in Exc
    BY <1>1, <1>7 DEF BeginCatch, ScopesType
  <2>2. scopes' \in Seq(Scope)
    <3>1. [kind |-> "handler", exc |-> flight] \in Scope
      BY <2>1 DEF Scope
    <3> QED
      BY <1>1, <1>7, <3>1, PushedByReplace DEF BeginCatch, Inside, ScopesType
  <2>3. catchStack' \in Seq(Exc) /\ Len(catchStack') <= CatchLimit
    <3>1. /\ Append(catchStack, flight) \in Seq(Exc)
          /\ Len(Append(catchStack, flight)) = Len(catchStack) + 1
          /\ Len(catchStack) \in Nat
      BY <1>1, <2>1, AppendProperties, LenProperties DEF BlocksOK
    <3> QED
      BY <1>1, <1>7, <3>1, ExceptionsAssumption DEF BeginCatch, BlocksOK
  <2>4. depth' \in [Exc -> Nat]
    BY <1>1, <1>7, <2>1 DEF BeginCatch, BlocksOK
  <2>5. leaving' \in [Exc -> BOOLEAN]
    BY <1>1, <1>7, <2>1 DEF BeginCatch, BlocksOK
  <2> QED
    BY <1>1, <1>7, <2>1, <2>2, <2>3, <2>4, <2>5
    DEF BeginCatch, objects, ObjectsOK, BlocksOK, ScopesType
<1>8. CASE EndHandler
  BY <1>1, <1>8, EndCatchType, ScopesEnds DEF EndHandler, Inside, ScopesType
<1>9. CASE EnterCleanup
  <2>1. [kind |-> "cleanup", exc |-> flight] \in Scope
    BY <1>1 DEF ScopesType, Scope
  <2>2. scopes' \in Seq(Scope)
    BY <1>1, <1>9, <2>1, PushedByAppend DEF EnterCleanup, ScopesType
  <2> QED
    BY <1>1, <1>9, <2>2 DEF EnterCleanup, blocks, objects, ObjectsOK, BlocksOK, ScopesType
<1>10. CASE LeaveCleanup
  <2>1. Top(scopes).exc \in Exc \cup {Nil} /\ Pop(scopes) \in Seq(Scope)
    BY <1>1, <1>10, ScopesEnds DEF LeaveCleanup, Inside, Scope
  <2> QED
    BY <1>1, <1>10, <2>1 DEF LeaveCleanup, blocks, objects, ObjectsOK, BlocksOK, ScopesType
<1> QED
  BY <1>2, <1>3, <1>4, <1>5, <1>6, <1>7, <1>8, <1>9, <1>10, Steps
-----------------------------------------------------------------------------
(* The end of a handler *)

LEMMA IInvParts ==
  IInv <=> /\ ObjectsOK /\ BlocksOK /\ ScopesType
           /\ ScopesOK /\ CatchStackMatches /\ DepthCounts
           /\ OneWay /\ LeavingOnTheWay /\ ExceptionsKept
           /\ ObjectsRetained /\ FlagsKept
BY TypeParts DEF IInv, Handling, Unwinding

LEMMA EndHandlerEffect ==
  ASSUME IInv, EndHandler, NEW e, e = Top(scopes).exc
  PROVE  /\ e \in Exc /\ catchStack # <<>> /\ e = Top(catchStack)
         /\ Matches(Pop(scopes), Pop(catchStack))
         /\ depth[e] \in Nat \ {0}
         /\ depth' = [depth EXCEPT ![e] = depth[e] - 1]
         /\ leaving' = [leaving EXCEPT ![e] = leaving[e] /\ depth[e] > 1]
         /\ catchStack' = Pop(catchStack)
         /\ current' = IF catchStack' = <<>> THEN Nil ELSE Top(catchStack')
         /\ \/ depth[e] = 1 /\ ~leaving[e] /\ Delete(e)
            \/ (depth[e] > 1 \/ leaving[e]) /\ UNCHANGED <<object, active, objects>>
<1>1. /\ ObjectsOK /\ BlocksOK /\ ScopesType /\ ScopesOK
      /\ CatchStackMatches /\ DepthCounts
  BY IInvParts
<1>2. scopes # <<>> /\ Top(scopes).kind = "handler" /\ EndCatch
  BY DEF EndHandler, Inside
<1>3. /\ Pushed(Pop(scopes), Top(scopes), scopes) /\ Top(scopes) \in Scope
      /\ Top(scopes) = scopes[Len(scopes)] /\ Len(scopes) \in DOMAIN scopes
  BY <1>1, <1>2, ScopesEnds
<1>4. e \in Exc
  BY <1>1, <1>2, <1>3 DEF ScopesOK, Scope
<1>5. /\ catchStack # <<>> /\ Top(catchStack) = e
      /\ Matches(Pop(scopes), Pop(catchStack))
  BY <1>1, <1>2, <1>3, MatchesLeave DEF CatchStackMatches, BlocksOK
<1> DEFINE rest == Pop(catchStack)
           now == CurrentAfter(e, rest)
<1>6. rest \in Seq(Exc) /\ Pushed(rest, e, catchStack)
  BY <1>1, <1>5, CatchEnds
<1>7. Entries(rest, e) \in Nat /\ depth[e] = Entries(rest, e) + 1
  BY <1>1, <1>4, <1>6, EntriesPushed DEF DepthCounts
<1>8. /\ catchStack' = rest
      /\ depth' = [depth EXCEPT ![e] = IF depth[e] > 0 THEN depth[e] - 1 ELSE 0]
      /\ leaving' = [leaving EXCEPT ![e] = leaving[e] /\ depth[e] > 1]
      /\ IF IsLast(e) THEN Delete(e) /\ current' = IF now = e THEN Nil ELSE now
         ELSE UNCHANGED <<object, active, objects>> /\ current' = now
  BY <1>2, <1>5 DEF EndCatch
<1>9. current = e
  BY <1>1, <1>5 DEF CatchStackMatches
<1> HIDE DEF rest, now
<1>10. now = IF rest = <<>> THEN Nil ELSE Top(rest)
  BY <1>9 DEF CurrentAfter, now
<1>11. rest # <<>> => \E k \in DOMAIN rest : rest[k] = Top(rest)
  <2>1. rest # <<>> => Len(rest) \in DOMAIN rest
    BY <1>6, EmptySeq, LenProperties
  <2> QED
    BY <2>1 DEF Top
<1>12. depth[e] = 1 => now # e
  <2>1. ASSUME depth[e] = 1 PROVE \A k \in DOMAIN rest : rest[k] # e
    BY <1>6, <1>7, <2>1, EntriesNone
  <2> QED
    BY <1>4, <1>10, <1>11, <2>1, ExceptionsAssumption
<1>13. current' = IF rest = <<>> THEN Nil ELSE Top(rest)
  BY <1>7, <1>8, <1>10, <1>12 DEF IsLast
<1>14. depth[e] \in Nat \ {0} /\ depth' = [depth EXCEPT ![e] = depth[e] - 1]
  <2>1. depth[e] > 0 /\ depth[e] \in Nat
    BY <1>7
  <2>2. (IF depth[e] > 0 THEN depth[e] - 1 ELSE 0) = depth[e] - 1
    BY <2>1
  <2>3. depth[e] \in Nat \ {0}
    BY <2>1
  <2>4. depth' = [depth EXCEPT ![e] = IF depth[e] > 0 THEN depth[e] - 1 ELSE 0]
    BY <1>8
  <2>5. depth' = [depth EXCEPT ![e] = depth[e] - 1]
    BY <2>2, <2>4, Zenon
  <2> QED
    BY <2>3, <2>5
<1>15. \/ depth[e] = 1 /\ ~leaving[e] /\ Delete(e)
       \/ (depth[e] > 1 \/ leaving[e]) /\ UNCHANGED <<object, active, objects>>
  BY <1>7, <1>8 DEF IsLast
<1>16. rest = Pop(catchStack)
  BY DEF rest
<1> QED
  BY <1>4, <1>5, <1>8, <1>13, <1>14, <1>15, <1>16
-----------------------------------------------------------------------------
(* What the other steps do *)

LEMMA HandledDepth ==
  ASSUME IInv, NEW e \in Exc
  PROVE  /\ depth[e] \in Nat
         /\ depth[e] > 0 <=> \E i \in DOMAIN scopes :
                               scopes[i].kind = "handler" /\ scopes[i].exc = e
<1>1. BlocksOK /\ Matches(scopes, catchStack) /\ depth[e] = Entries(catchStack, e)
  BY IInvParts DEF CatchStackMatches, DepthCounts
<1>2. /\ depth[e] \in Nat
      /\ depth[e] = 0 <=> \A k \in DOMAIN catchStack : catchStack[k] # e
  BY <1>1, EntriesNone DEF BlocksOK
<1>3. ASSUME NEW k \in DOMAIN catchStack
      PROVE  \E i \in DOMAIN scopes :
               scopes[i].kind = "handler" /\ scopes[i].exc = catchStack[k]
  BY <1>1, <1>3 DEF Matches
<1>4. ASSUME NEW i \in DOMAIN scopes, scopes[i].kind = "handler"
      PROVE  \E k \in DOMAIN catchStack : catchStack[k] = scopes[i].exc
  BY <1>1, <1>4 DEF Matches
<1> QED
  BY <1>2, <1>3, <1>4

Rethrowing(e) ==
  /\ flight = Nil /\ flight' = e /\ depth[e] > 0
  /\ \A i \in DOMAIN scopes : scopes[i].kind = "cleanup" => scopes[i].exc # e
  /\ leaving' = [leaving EXCEPT ![e] = TRUE]
  /\ UNCHANGED <<scopes, object, depth, active, catchStack, current, objects>>

Throwing(e, o) ==
  /\ flight = Nil /\ flight' = e /\ object[e] = Nil
  /\ object' = [object EXCEPT ![e] = o]
  /\ depth' = [depth EXCEPT ![e] = 0]
  /\ leaving' = [leaving EXCEPT ![e] = FALSE]
  /\ active' = <<e>> \o active
  /\ refs' = [refs EXCEPT ![o] = refs[o] + 1]
  /\ CaptureMetadata(o)
  /\ UNCHANGED <<held, scopes, catchStack, current>>

LEMMA ThrowEffect ==
  ASSUME IInv, NEW o \in Obj, Throw(o)
  PROVE  (\E e \in Exc : Rethrowing(e)) \/ (\E e \in Exc : Throwing(e, o))
<1>1. BlocksOK /\ LeavingOnTheWay
  BY IInvParts
<1>2. CASE IsRethrow(o)
  <2>1. /\ current \in Exc /\ object[current] = o /\ depth[current] > 0
        /\ leaving' = [leaving EXCEPT ![current] = TRUE]
        /\ flight' = current /\ flight = Nil
        /\ UNCHANGED <<object, depth, active, objects, scopes, catchStack, current>>
    BY <1>1, <1>2 DEF Throw, IsRethrow, Running, BlocksOK
  <2>2. ASSUME NEW i \in DOMAIN scopes, scopes[i].kind = "cleanup",
               scopes[i].exc = current
        PROVE  FALSE
    <3>1. leaving[current]
      BY <1>1, <2>1, <2>2 DEF LeavingOnTheWay, OnTheWay
    <3>2. ~(object[scopes[i].exc] = o /\ leaving[scopes[i].exc])
      BY <2>2 DEF Throw
    <3> QED
      BY <2>1, <2>2, <3>1, <3>2
  <2>3. Rethrowing(current)
    BY <2>1, <2>2 DEF Rethrowing
  <2> QED
    BY <2>1, <2>3
<1>3. CASE ~IsRethrow(o)
  BY <1>1, <1>3 DEF Throw, Throwing, Running, Allocated
<1> QED
  BY <1>2, <1>3

LEMMA RethrowEffect ==
  ASSUME IInv, NEW given \in Exc \cup {Nil}, Rethrow(given)
  PROVE  \E e \in Exc : Rethrowing(e)
<1>1. BlocksOK /\ ScopesType /\ ScopesOK /\ OneWay /\ Matches(scopes, catchStack)
  BY IInvParts DEF CatchStackMatches
<1> DEFINE e == Top(scopes).exc
<1>2. scopes # <<>> /\ Top(scopes).kind = "handler" /\ flight = Nil /\ given \in {Nil, e}
  BY DEF Rethrow, Running, Inside
<1>3. /\ Pushed(Pop(scopes), Top(scopes), scopes) /\ Top(scopes) \in Scope
      /\ Top(scopes) = scopes[Len(scopes)] /\ Len(scopes) \in DOMAIN scopes
      /\ Len(scopes) \in Nat
  BY <1>1, <1>2, ScopesEnds
<1>4. e \in Exc
  BY <1>1, <1>2, <1>3 DEF ScopesOK, Scope
<1>5. catchStack # <<>> /\ Top(catchStack) = e
  BY <1>1, <1>2, <1>3, MatchesLeave DEF BlocksOK
<1>6. depth[e] > 0
  BY <1>2, <1>3, <1>4, HandledDepth
<1>7. ASSUME NEW i \in DOMAIN scopes, scopes[i].kind = "cleanup", scopes[i].exc = e
      PROVE  FALSE
  <2>1. i # Len(scopes)
    BY <1>2, <1>3, <1>7
  <2>2. Len(scopes) < i
    BY <1>1, <1>3, <1>7, <2>1 DEF OneWay
  <2>3. i \in 1 .. Len(scopes)
    BY <1>1, LenProperties DEF ScopesType
  <2> QED
    BY <1>3, <2>2, <2>3
<1> HIDE DEF e
<1>8. /\ leaving' = [leaving EXCEPT ![e] = TRUE] /\ flight' = e
      /\ UNCHANGED <<scopes, object, depth, active, catchStack, current, objects>>
  BY <1>2, <1>5 DEF Rethrow
<1>9. Rethrowing(e)
  BY <1>2, <1>6, <1>7, <1>8 DEF Rethrowing, e
<1> QED
  BY <1>4, <1>9

LEMMA BeginCatchEffect ==
  ASSUME IInv, BeginCatch
  PROVE  /\ flight \in Exc /\ flight' = Nil /\ scopes # <<>> /\ Top(scopes).kind = "try"
         /\ Pushed(Pop(scopes), [kind |-> "handler", exc |-> flight], scopes')
         /\ Pushed(catchStack, flight, catchStack') /\ current' = flight
         /\ catchStack' # <<>> /\ Top(catchStack') = flight
         /\ depth' = [depth EXCEPT ![flight] = depth[flight] + 1]
         /\ leaving' = [leaving EXCEPT ![flight] = FALSE]
         /\ UNCHANGED <<object, active, objects>>
<1>1. BlocksOK /\ ScopesType /\ ScopesOK /\ Matches(scopes, catchStack)
  BY IInvParts DEF CatchStackMatches
<1>2. scopes # <<>> /\ Top(scopes).kind = "try" /\ flight \in Exc
  BY <1>1 DEF BeginCatch, Inside, ScopesType
<1>3. Pushed(Pop(scopes), [kind |-> "handler", exc |-> flight], scopes')
  <2>1. [kind |-> "handler", exc |-> flight] \in Scope
    BY <1>2 DEF Scope
  <2> QED
    BY <1>1, <1>2, <2>1, PushedByReplace DEF BeginCatch, ScopesType
<1>4. Len(catchStack) < CatchLimit
  <2>1. /\ Pushed(Pop(scopes), Top(scopes), scopes) /\ Top(scopes) \in Scope
        /\ Len(scopes) \in Nat
    BY <1>1, <1>2, ScopesEnds
  <2>2. Len(catchStack) = Nesting(Pop(scopes), Len(Pop(scopes)))
    BY <1>1, <1>2, <2>1, NestingPushed DEF Matches
  <2>3. Len(Pop(scopes)) \in Nat /\ Len(Pop(scopes)) < Len(scopes)
    BY <2>1 DEF Pushed
  <2>4. /\ Nesting(Pop(scopes), Len(Pop(scopes))) \in Nat
        /\ Nesting(Pop(scopes), Len(Pop(scopes))) <= Len(Pop(scopes))
    BY <2>3, NestingType
  <2>5. Len(scopes) <= MaxScopes
    BY <1>1 DEF ScopesOK
  <2> QED
    BY <2>1, <2>2, <2>3, <2>4, <2>5, ExceptionsAssumption, NestingAssumption
<1>5. catchStack' = Append(catchStack, flight)
  BY <1>4 DEF BeginCatch
<1>6. Pushed(catchStack, flight, catchStack') /\ catchStack' \in Seq(Exc)
  BY <1>1, <1>2, <1>5, PushedByAppend DEF BlocksOK
<1>7. catchStack' # <<>> /\ Top(catchStack') = flight
  BY <1>6, EmptySeq DEF Pushed, Top
<1> QED
  BY <1>2, <1>3, <1>6, <1>7 DEF BeginCatch

\* EnterTry and EnterCleanup
LEMMA EnterEffect ==
  ASSUME IInv, EnterTry \/ EnterCleanup
  PROVE  /\ UNCHANGED <<blocks, objects>> /\ Len(scopes) < MaxScopes
         /\ \/ /\ Pushed(scopes, [kind |-> "try", exc |-> Nil], scopes')
               /\ UNCHANGED flight
            \/ /\ Pushed(scopes, [kind |-> "cleanup", exc |-> flight], scopes')
               /\ flight \in Exc /\ flight' = Nil
<1>1. ScopesType
  BY IInvParts
<1>2. CASE EnterTry
  <2>1. [kind |-> "try", exc |-> Nil] \in Scope
    BY DEF Scope
  <2> QED
    BY <1>1, <1>2, <2>1, PushedByAppend DEF EnterTry, ScopesType
<1>3. CASE EnterCleanup
  <2>1. [kind |-> "cleanup", exc |-> flight] \in Scope /\ flight \in Exc
    BY <1>1, <1>3 DEF EnterCleanup, ScopesType, Scope
  <2> QED
    BY <1>1, <1>3, <2>1, PushedByAppend DEF EnterCleanup, ScopesType
<1> QED
  BY <1>2, <1>3

\* EndTry and LeaveCleanup
LEMMA LeaveEffect ==
  ASSUME IInv, EndTry \/ LeaveCleanup
  PROVE  /\ UNCHANGED <<blocks, objects>> /\ scopes # <<>> /\ scopes' = Pop(scopes)
         /\ \/ Top(scopes).kind = "try" /\ UNCHANGED flight
            \/ /\ Top(scopes).kind = "cleanup" /\ flight = Nil
               /\ flight' = Top(scopes).exc
BY DEF EndTry, LeaveCleanup, Inside, Running

LEMMA RefsOnlyEffect ==
  ASSUME RefsOnly
  PROVE  UNCHANGED <<scopes, flight, object, depth, leaving, active, catchStack, current>>
BY DEF RefsOnly, Create, Retain, Release, blocks

LEMMA Effects ==
  ASSUME IInv, Next
  PROVE  \/ RefsOnly
         \/ \E e \in Exc, o \in Obj : Throwing(e, o)
         \/ \E e \in Exc : Rethrowing(e)
         \/ EnterTry \/ EnterCleanup \/ EndTry \/ LeaveCleanup
         \/ BeginCatch \/ EndHandler
BY Steps, ThrowEffect, RethrowEffect

LEMMA ScopesStep ==
  ASSUME IInv, Next
  PROVE  ScopesOK'
<1>1. ScopesType /\ ScopesOK /\ Len(scopes) \in Nat /\ DOMAIN scopes = 1 .. Len(scopes)
  BY IInvParts, LenProperties DEF ScopesType
<1>2. CASE UNCHANGED scopes
  BY <1>1, <1>2 DEF ScopesOK
<1>3. CASE EnterTry \/ EnterCleanup
  <2>1. PICK x : /\ Pushed(scopes, x, scopes') /\ Len(scopes) < MaxScopes
                 /\ x.exc = Nil <=> x.kind = "try"
    BY <1>3, EnterEffect, ExceptionsAssumption
  <2>2. Len(scopes') <= MaxScopes
    BY <1>1, <2>1, ExceptionsAssumption DEF Pushed
  <2>3. ASSUME NEW i \in DOMAIN scopes'
        PROVE  scopes'[i].exc = Nil <=> scopes'[i].kind = "try"
    <3>1. CASE i \in DOMAIN scopes
      BY <1>1, <2>1, <3>1 DEF Pushed, ScopesOK
    <3>2. CASE i \notin DOMAIN scopes
      <4>1. i = Len(scopes')
        BY <2>1, <3>2 DEF Pushed
      <4> QED
        BY <2>1, <4>1 DEF Pushed
    <3> QED
      BY <3>1, <3>2
  <2> QED
    BY <2>2, <2>3 DEF ScopesOK
<1>4. CASE EndTry \/ LeaveCleanup \/ EndHandler
  <2>1. scopes # <<>> /\ scopes' = Pop(scopes)
    BY <1>4, LeaveEffect DEF EndHandler, Inside
  <2>2. Pushed(scopes', Top(scopes), scopes)
    BY <1>1, <2>1, ScopesEnds
  <2>3. /\ Len(scopes') \in Nat /\ Len(scopes) = Len(scopes') + 1
        /\ \A i \in DOMAIN scopes' : i \in DOMAIN scopes /\ scopes'[i] = scopes[i]
    BY <2>2 DEF Pushed
  <2> QED
    BY <1>1, <2>3, ExceptionsAssumption DEF ScopesOK
<1>5. CASE BeginCatch
  <2>1. /\ flight \in Exc /\ scopes # <<>>
        /\ Pushed(Pop(scopes), [kind |-> "handler", exc |-> flight], scopes')
    BY <1>5, BeginCatchEffect
  <2>2. Pushed(Pop(scopes), Top(scopes), scopes)
    BY <1>1, <2>1, ScopesEnds
  <2>3. Len(scopes') = Len(scopes)
    BY <2>1, <2>2 DEF Pushed
  <2>4. ASSUME NEW i \in DOMAIN scopes'
        PROVE  scopes'[i].exc = Nil <=> scopes'[i].kind = "try"
    <3>1. CASE i \in DOMAIN Pop(scopes)
      BY <1>1, <2>1, <2>2, <3>1 DEF Pushed, ScopesOK
    <3>2. CASE i \notin DOMAIN Pop(scopes)
      <4>1. i = Len(scopes')
        BY <2>1, <3>2 DEF Pushed
      <4>2. scopes'[i] = [kind |-> "handler", exc |-> flight]
        BY <2>1, <4>1 DEF Pushed
      <4> QED
        BY <2>1, <4>2, ExceptionsAssumption
    <3> QED
      BY <3>1, <3>2
  <2> QED
    BY <1>1, <2>3, <2>4 DEF ScopesOK
<1> QED
  BY <1>2, <1>3, <1>4, <1>5, Effects, RefsOnlyEffect DEF Throwing, Rethrowing

LEMMA CatchStackStep ==
  ASSUME IInv, Next
  PROVE  CatchStackMatches'
<1>1. /\ ScopesType /\ catchStack \in Seq(Exc)
      /\ Matches(scopes, catchStack) /\ CatchStackMatches
  BY IInvParts DEF CatchStackMatches, BlocksOK
<1> SUFFICES /\ Matches(scopes', catchStack')
             /\ current' = IF catchStack' = <<>> THEN Nil ELSE Top(catchStack')
  BY DEF CatchStackMatches, Matches, Nesting, Top
<1>2. CASE UNCHANGED <<scopes, catchStack, current>>
  BY <1>1, <1>2 DEF CatchStackMatches
<1>3. CASE EnterTry \/ EnterCleanup
  <2>1. PICK x : Pushed(scopes, x, scopes') /\ x.kind # "handler" /\ UNCHANGED blocks
    BY <1>3, EnterEffect
  <2>2. Matches(scopes', catchStack)
    BY <1>1, <2>1, MatchesOther
  <2> QED
    BY <1>1, <2>1, <2>2 DEF blocks, CatchStackMatches
<1>4. CASE EndTry \/ LeaveCleanup
  <2>1. /\ scopes # <<>> /\ scopes' = Pop(scopes) /\ Top(scopes).kind # "handler"
        /\ UNCHANGED blocks
    BY <1>4, LeaveEffect
  <2>2. Pushed(Pop(scopes), Top(scopes), scopes)
    BY <1>1, <2>1, ScopesEnds
  <2>3. Matches(Pop(scopes), catchStack)
    BY <1>1, <2>1, <2>2, MatchesOther
  <2> QED
    BY <1>1, <2>1, <2>3 DEF blocks, CatchStackMatches
<1>5. CASE BeginCatch
  <2>1. /\ scopes # <<>> /\ Top(scopes).kind = "try"
        /\ Pushed(Pop(scopes), [kind |-> "handler", exc |-> flight], scopes')
        /\ Pushed(catchStack, flight, catchStack') /\ current' = flight
        /\ catchStack' # <<>> /\ Top(catchStack') = flight
    BY <1>5, BeginCatchEffect
  <2>2. Pushed(Pop(scopes), Top(scopes), scopes)
    BY <1>1, <2>1, ScopesEnds
  <2>3. Matches(Pop(scopes), catchStack)
    BY <1>1, <2>1, <2>2, MatchesOther
  <2>4. Matches(scopes', catchStack')
    <3> DEFINE h == [kind |-> "handler", exc |-> flight]
    <3>1. h.kind = "handler" /\ h.exc = flight /\ Pushed(Pop(scopes), h, scopes')
      BY <2>1
    <3> HIDE DEF h
    <3> QED
      BY <2>1, <2>3, <3>1, MatchesEnter
  <2> QED
    BY <2>1, <2>4
<1>6. CASE EndHandler
  <2>1. /\ Matches(Pop(scopes), Pop(catchStack)) /\ catchStack' = Pop(catchStack)
        /\ current' = IF catchStack' = <<>> THEN Nil ELSE Top(catchStack')
    BY <1>6, EndHandlerEffect
  <2> QED
    BY <1>6, <2>1 DEF EndHandler
<1> QED
  BY <1>2, <1>3, <1>4, <1>5, <1>6, Effects, RefsOnlyEffect DEF Throwing, Rethrowing

LEMMA DepthStep ==
  ASSUME IInv, Next
  PROVE  DepthCounts'
<1>1. BlocksOK /\ ScopesType /\ DepthCounts /\ ExceptionsKept
  BY IInvParts
<1> SUFFICES ASSUME NEW x \in Exc
             PROVE  depth'[x] = Entries(catchStack', x)
  BY DEF DepthCounts, Entries
<1>2. depth[x] = Entries(catchStack, x) /\ depth[x] \in Nat
  BY <1>1 DEF DepthCounts, BlocksOK
<1>3. CASE UNCHANGED <<depth, catchStack>>
  BY <1>2, <1>3
<1>4. ASSUME NEW e \in Exc, NEW o \in Obj, Throwing(e, o)
      PROVE  depth'[x] = Entries(catchStack', x)
  <2>1. depth[e] = 0
    <3>1. e \notin Carried
      BY <1>1, <1>4 DEF Throwing, ExceptionsKept, Allocated
    <3>2. ~ \E i \in DOMAIN scopes : scopes[i].kind = "handler" /\ scopes[i].exc = e
      BY <3>1, ExceptionsAssumption DEF Carried
    <3> QED
      BY <3>2, HandledDepth
  <2> QED
    BY <1>1, <1>2, <1>4, <2>1 DEF Throwing, BlocksOK
<1>5. CASE BeginCatch
  <2>1. /\ Pushed(catchStack, flight, catchStack')
        /\ depth' = [depth EXCEPT ![flight] = depth[flight] + 1]
    BY <1>5, BeginCatchEffect
  <2>2. Entries(catchStack', x) = IF flight = x THEN Entries(catchStack, x) + 1
                                 ELSE Entries(catchStack, x)
    BY <2>1, EntriesPushed
  <2> QED
    BY <1>1, <1>2, <2>1, <2>2 DEF BlocksOK
<1>6. CASE EndHandler
  <2> DEFINE e == Top(scopes).exc
  <2>1. /\ e \in Exc /\ catchStack # <<>> /\ e = Top(catchStack)
        /\ depth' = [depth EXCEPT ![e] = depth[e] - 1]
        /\ catchStack' = Pop(catchStack)
    BY <1>6, EndHandlerEffect
  <2> HIDE DEF e
  <2>2. Pushed(catchStack', e, catchStack)
    BY <1>1, <2>1, CatchEnds
  <2>3. /\ Entries(catchStack', x) \in Nat
        /\ Entries(catchStack, x) = IF e = x THEN Entries(catchStack', x) + 1
                                    ELSE Entries(catchStack', x)
    BY <2>2, EntriesPushed
  <2> QED
    BY <1>1, <1>2, <2>1, <2>3 DEF BlocksOK
<1> QED
  BY <1>3, <1>4, <1>5, <1>6, Effects, RefsOnlyEffect, EnterEffect, LeaveEffect
  DEF Rethrowing, blocks
-----------------------------------------------------------------------------
(* Unwinding *)

\* A scope that begins, or ends when t is taken for the scopes before, adds to
\* what is on its way only when it is a cleanup.
LEMMA CleanupPushed ==
  ASSUME NEW s, NEW x, NEW t, Pushed(s, x, t), NEW e
  PROVE  (\E i \in DOMAIN t : t[i].kind = "cleanup" /\ t[i].exc = e) <=>
           \/ \E i \in DOMAIN s : s[i].kind = "cleanup" /\ s[i].exc = e
           \/ x.kind = "cleanup" /\ x.exc = e
<1>1. /\ Len(s) \in Nat /\ Len(t) = Len(s) + 1
      /\ DOMAIN s = 1 .. Len(s) /\ DOMAIN t = 1 .. Len(t)
      /\ \A i \in 1 .. Len(s) : t[i] = s[i]
      /\ t[Len(t)] = x
  BY DEF Pushed
<1>2. /\ \A i \in DOMAIN t : i \in DOMAIN s \/ i = Len(t)
      /\ Len(t) \in DOMAIN t /\ \A i \in DOMAIN s : i \in DOMAIN t
  BY <1>1
<1> QED
  BY <1>1, <1>2

\* What is on its way: a throw adds to it, and a handler takes from it.
LEMMA WayStep ==
  ASSUME IInv, Next, NEW x \in Exc
  PROVE  /\ \A e \in Exc : Rethrowing(e) \/ (\E o \in Obj : Throwing(e, o)) =>
                           (OnTheWay(x)' <=> OnTheWay(x) \/ x = e)
         /\ BeginCatch => (OnTheWay(x)' <=> OnTheWay(x) /\ x # flight)
         /\ RefsOnly \/ EndHandler \/ EnterTry \/ EnterCleanup \/ EndTry \/ LeaveCleanup
              => (OnTheWay(x)' <=> OnTheWay(x))
<1>1. ScopesType /\ ScopesOK /\ OneWay
  BY IInvParts
<1>2. x # Nil
  BY ExceptionsAssumption
<1> DEFINE W == \E i \in DOMAIN scopes : scopes[i].kind = "cleanup" /\ scopes[i].exc = x
           V == \E i \in DOMAIN scopes' : scopes'[i].kind = "cleanup" /\ scopes'[i].exc = x
           P == \E i \in DOMAIN Pop(scopes) :
                  Pop(scopes)[i].kind = "cleanup" /\ Pop(scopes)[i].exc = x
<1>3. (OnTheWay(x) <=> flight = x \/ W) /\ (OnTheWay(x)' <=> flight' = x \/ V)
  BY DEF OnTheWay
<1>4. scopes' = scopes => (V <=> W)
  OBVIOUS
<1>5. ASSUME scopes # <<>>
      PROVE  W <=> P \/ (Top(scopes).kind = "cleanup" /\ Top(scopes).exc = x)
  <2>1. Pushed(Pop(scopes), Top(scopes), scopes)
    BY <1>1, <1>5, ScopesEnds
  <2> QED
    BY <2>1, CleanupPushed
<1>6. scopes' = Pop(scopes) => (V <=> P)
  OBVIOUS
<1>7. ASSUME NEW y, Pushed(scopes, y, scopes')
      PROVE  V <=> W \/ (y.kind = "cleanup" /\ y.exc = x)
  BY <1>7, CleanupPushed
<1>8. ASSUME NEW y, Pushed(Pop(scopes), y, scopes'), y.kind # "cleanup"
      PROVE  V <=> P
  BY <1>8, CleanupPushed
<1>9. W => x # flight
  BY <1>1 DEF OneWay
<1> HIDE DEF W, V, P
<1>10. ASSUME NEW e \in Exc, Rethrowing(e) \/ \E o \in Obj : Throwing(e, o)
       PROVE  OnTheWay(x)' <=> OnTheWay(x) \/ x = e
  <2>1. flight = Nil /\ flight' = e /\ scopes' = scopes
    BY <1>10 DEF Rethrowing, Throwing
  <2> QED
    BY <1>2, <1>3, <1>4, <2>1
<1>11. ASSUME BeginCatch
       PROVE  OnTheWay(x)' <=> OnTheWay(x) /\ x # flight
  <2>1. /\ scopes # <<>> /\ Top(scopes).kind = "try" /\ flight' = Nil
        /\ Pushed(Pop(scopes), [kind |-> "handler", exc |-> flight], scopes')
    BY <1>11, BeginCatchEffect
  <2>2. V <=> P
    <3> DEFINE h == [kind |-> "handler", exc |-> flight]
    <3>1. h.kind # "cleanup" /\ Pushed(Pop(scopes), h, scopes')
      BY <2>1
    <3> HIDE DEF h
    <3> QED
      BY <1>8, <3>1
  <2>3. W <=> P
    BY <1>5, <2>1
  <2> QED
    BY <1>2, <1>3, <1>9, <2>1, <2>2, <2>3
<1>12. ASSUME RefsOnly
       PROVE  OnTheWay(x)' <=> OnTheWay(x)
  BY <1>3, <1>4, <1>12, RefsOnlyEffect
<1>13. ASSUME EndHandler
       PROVE  OnTheWay(x)' <=> OnTheWay(x)
  <2>1. /\ scopes # <<>> /\ scopes' = Pop(scopes) /\ Top(scopes).kind # "cleanup"
        /\ UNCHANGED flight
    BY <1>13 DEF EndHandler, Inside
  <2> QED
    BY <1>3, <1>5, <1>6, <2>1
<1>14. ASSUME EnterTry \/ EnterCleanup
       PROVE  OnTheWay(x)' <=> OnTheWay(x)
  <2>1. CASE /\ Pushed(scopes, [kind |-> "try", exc |-> Nil], scopes')
             /\ UNCHANGED flight
    <3> DEFINE y == [kind |-> "try", exc |-> Nil]
    <3>1. y.kind # "cleanup" /\ Pushed(scopes, y, scopes')
      BY <2>1
    <3> HIDE DEF y
    <3> QED
      BY <1>3, <1>7, <2>1, <3>1
  <2>2. CASE /\ Pushed(scopes, [kind |-> "cleanup", exc |-> flight], scopes')
             /\ flight' = Nil
    <3> DEFINE y == [kind |-> "cleanup", exc |-> flight]
    <3>1. y.kind = "cleanup" /\ y.exc = flight /\ Pushed(scopes, y, scopes')
      BY <2>2
    <3> HIDE DEF y
    <3> QED
      BY <1>2, <1>3, <1>7, <2>2, <3>1
  <2> QED
    BY <1>14, <2>1, <2>2, EnterEffect
<1>15. ASSUME EndTry \/ LeaveCleanup
       PROVE  OnTheWay(x)' <=> OnTheWay(x)
  <2>1. /\ scopes # <<>> /\ scopes' = Pop(scopes)
        /\ \/ Top(scopes).kind = "try" /\ UNCHANGED flight
           \/ /\ Top(scopes).kind = "cleanup" /\ flight = Nil
              /\ flight' = Top(scopes).exc
    BY <1>15, LeaveEffect
  <2> QED
    BY <1>2, <1>3, <1>5, <1>6, <2>1
<1> QED
  BY <1>10, <1>11, <1>12, <1>13, <1>14, <1>15

LEMMA LeavingStep ==
  ASSUME IInv, Next
  PROVE  LeavingOnTheWay'
<1>1. BlocksOK /\ LeavingOnTheWay
  BY IInvParts
<1> SUFFICES ASSUME NEW x \in Exc
             PROVE  leaving'[x] <=> OnTheWay(x)' /\ depth'[x] > 0
  BY DEF LeavingOnTheWay
<1>2. /\ leaving[x] <=> OnTheWay(x) /\ depth[x] > 0
      /\ depth[x] \in Nat /\ leaving[x] \in BOOLEAN
  BY <1>1 DEF LeavingOnTheWay, BlocksOK
<1>3. CASE RefsOnly \/ EnterTry \/ EnterCleanup \/ EndTry \/ LeaveCleanup
  <2>1. OnTheWay(x)' <=> OnTheWay(x)
    BY <1>3, WayStep
  <2>2. leaving' = leaving /\ depth' = depth
    BY <1>3, RefsOnlyEffect, EnterEffect, LeaveEffect DEF blocks
  <2> QED
    BY <1>2, <2>1, <2>2
<1>4. ASSUME NEW e \in Exc, Rethrowing(e)
      PROVE  leaving'[x] <=> OnTheWay(x)' /\ depth'[x] > 0
  <2>1. OnTheWay(x)' <=> OnTheWay(x) \/ x = e
    BY <1>4, WayStep
  <2>2. /\ leaving'[x] = IF x = e THEN TRUE ELSE leaving[x]
        /\ depth' = depth /\ depth[e] > 0
    BY <1>1, <1>4 DEF Rethrowing, BlocksOK
  <2> QED
    BY <1>2, <2>1, <2>2
<1>5. ASSUME NEW e \in Exc, NEW o \in Obj, Throwing(e, o)
      PROVE  leaving'[x] <=> OnTheWay(x)' /\ depth'[x] > 0
  <2>1. OnTheWay(x)' <=> OnTheWay(x) \/ x = e
    BY <1>5, WayStep
  <2>2. /\ leaving'[x] = IF x = e THEN FALSE ELSE leaving[x]
        /\ depth'[x] = IF x = e THEN 0 ELSE depth[x]
    BY <1>1, <1>5 DEF Throwing, BlocksOK
  <2> QED
    BY <1>2, <2>1, <2>2
<1>6. CASE BeginCatch
  <2>1. OnTheWay(x)' <=> OnTheWay(x) /\ x # flight
    BY <1>6, WayStep
  <2>2. /\ leaving'[x] = IF x = flight THEN FALSE ELSE leaving[x]
        /\ depth'[x] = IF x = flight THEN depth[x] + 1 ELSE depth[x]
    BY <1>1, <1>6, BeginCatchEffect DEF BlocksOK
  <2> QED
    BY <1>2, <2>1, <2>2
<1>7. CASE EndHandler
  <2> DEFINE e == Top(scopes).exc
  <2>1. OnTheWay(x)' <=> OnTheWay(x)
    BY <1>7, WayStep
  <2>2. /\ depth[e] \in Nat \ {0}
        /\ depth' = [depth EXCEPT ![e] = depth[e] - 1]
        /\ leaving' = [leaving EXCEPT ![e] = leaving[e] /\ depth[e] > 1]
    BY <1>7, EndHandlerEffect
  <2> HIDE DEF e
  <2>3. depth'[x] = IF x = e THEN depth[x] - 1 ELSE depth[x]
    BY <1>1, <2>2 DEF BlocksOK
  <2>4. leaving'[x] <=> IF x = e THEN leaving[x] /\ depth[x] > 1 ELSE leaving[x]
    BY <1>1, <2>2 DEF BlocksOK
  <2> QED
    BY <1>2, <2>1, <2>2, <2>3, <2>4
<1> QED
  BY <1>3, <1>4, <1>5, <1>6, <1>7, Effects

\* Fewer scopes, and no more in flight than one whose cleanup ended, keep OneWay.
LEMMA OneWayPopped ==
  ASSUME IInv, scopes # <<>>, scopes' = Pop(scopes),
         flight' = flight \/ (Top(scopes).kind = "cleanup" /\ flight' = Top(scopes).exc)
  PROVE  OneWay'
<1>1. ScopesType /\ OneWay
  BY IInvParts
<1>2. /\ Pushed(scopes', Top(scopes), scopes) /\ Top(scopes) = scopes[Len(scopes)]
      /\ Len(scopes) \in DOMAIN scopes
  BY <1>1, ScopesEnds
<1>3. \A i \in DOMAIN scopes' :
        i \in DOMAIN scopes /\ scopes'[i] = scopes[i] /\ i # Len(scopes)
  BY <1>2 DEF Pushed
<1> SUFFICES ASSUME NEW i \in DOMAIN scopes', scopes'[i].kind = "cleanup"
             PROVE  /\ scopes'[i].exc # flight'
                    /\ \A j \in DOMAIN scopes' :
                         scopes'[j].exc = scopes'[i].exc /\ j # i
                           => scopes'[j].kind = "handler" /\ j < i
  BY DEF OneWay
<1>4. /\ scopes[i].exc # flight
      /\ \A j \in DOMAIN scopes :
           scopes[j].exc = scopes[i].exc /\ j # i => scopes[j].kind = "handler" /\ j < i
  BY <1>1, <1>3 DEF OneWay
<1>5. Top(scopes).kind = "cleanup" => scopes[i].exc # Top(scopes).exc
  BY <1>2, <1>3, <1>4
<1> QED
  BY <1>3, <1>4, <1>5

\* One more scope, which is no cleanup and not of an exception with a cleanup.
LEMMA OneWayPushed ==
  ASSUME IInv, NEW s, s = scopes \/ (scopes # <<>> /\ s = Pop(scopes)),
         NEW x, Pushed(s, x, scopes'), x.kind # "cleanup", x.exc \in {flight, Nil},
         flight' \in {flight, Nil}
  PROVE  OneWay'
<1>1. ScopesType /\ ScopesOK /\ OneWay
  BY IInvParts
<1>2. \A i \in DOMAIN s : i \in DOMAIN scopes /\ s[i] = scopes[i]
  BY <1>1, ScopesEnds DEF Pushed
<1>3. \A i \in DOMAIN scopes' : \/ i \in DOMAIN s /\ scopes'[i] = scopes[i]
                               \/ scopes'[i] = x
  BY <1>2 DEF Pushed
<1> SUFFICES ASSUME NEW i \in DOMAIN scopes', scopes'[i].kind = "cleanup"
             PROVE  /\ scopes'[i].exc # flight'
                    /\ \A j \in DOMAIN scopes' :
                         scopes'[j].exc = scopes'[i].exc /\ j # i
                           => scopes'[j].kind = "handler" /\ j < i
  BY DEF OneWay
<1>4. i \in DOMAIN scopes /\ scopes'[i] = scopes[i] /\ scopes[i].kind = "cleanup"
  BY <1>2, <1>3
<1>5. scopes[i].exc # Nil
  BY <1>1, <1>4 DEF ScopesOK
<1>6. /\ scopes[i].exc # flight
      /\ \A j \in DOMAIN scopes :
           scopes[j].exc = scopes[i].exc /\ j # i => scopes[j].kind = "handler" /\ j < i
  BY <1>1, <1>4 DEF OneWay
<1>7. ASSUME NEW j \in DOMAIN scopes', scopes'[j].exc = scopes'[i].exc, j # i
      PROVE  scopes'[j].kind = "handler" /\ j < i
  <2>1. scopes'[j] # x
    BY <1>4, <1>5, <1>6, <1>7
  <2>2. j \in DOMAIN scopes /\ scopes'[j] = scopes[j]
    BY <1>2, <1>3, <2>1
  <2> QED
    BY <1>4, <1>6, <1>7, <2>2
<1> QED
  BY <1>4, <1>5, <1>6, <1>7

\* A cleanup begins: the scopes of its exception are handlers below.
LEMMA OneWayInterrupted ==
  ASSUME IInv, flight \in Exc, flight' = Nil,
         NEW x, Pushed(scopes, x, scopes'), x.exc = flight
  PROVE  OneWay'
<1>1. ScopesType /\ ScopesOK /\ OneWay /\ flight # Nil
  BY IInvParts, ExceptionsAssumption
<1>2. /\ Len(scopes) \in Nat /\ Len(scopes') = Len(scopes) + 1
      /\ \A i \in DOMAIN scopes' :
           \/ i \in DOMAIN scopes /\ scopes'[i] = scopes[i] /\ i < Len(scopes')
           \/ i = Len(scopes') /\ scopes'[i] = x
  BY DEF Pushed
<1> SUFFICES ASSUME NEW i \in DOMAIN scopes', scopes'[i].kind = "cleanup"
             PROVE  /\ scopes'[i].exc # Nil
                    /\ \A j \in DOMAIN scopes' :
                         scopes'[j].exc = scopes'[i].exc /\ j # i
                           => scopes'[j].kind = "handler" /\ j < i
  BY DEF OneWay
<1>3. CASE i \in DOMAIN scopes /\ scopes'[i] = scopes[i]
  <2>1. /\ scopes[i].exc # Nil /\ scopes[i].exc # flight
        /\ \A j \in DOMAIN scopes :
             scopes[j].exc = scopes[i].exc /\ j # i => scopes[j].kind = "handler" /\ j < i
    BY <1>1, <1>3 DEF OneWay, ScopesOK
  <2>2. ASSUME NEW j \in DOMAIN scopes', scopes'[j].exc = scopes'[i].exc, j # i
        PROVE  scopes'[j].kind = "handler" /\ j < i
    <3>1. scopes'[j] # x
      BY <1>3, <2>1, <2>2
    <3>2. j \in DOMAIN scopes /\ scopes'[j] = scopes[j]
      BY <1>2, <3>1
    <3> QED
      BY <1>3, <2>1, <2>2, <3>2
  <2> QED
    BY <1>3, <2>1, <2>2
<1>4. CASE i = Len(scopes') /\ scopes'[i] = x
  <2>1. ASSUME NEW j \in DOMAIN scopes', scopes'[j].exc = scopes'[i].exc, j # i
        PROVE  scopes'[j].kind = "handler" /\ j < i
    <3>1. j \in DOMAIN scopes /\ scopes'[j] = scopes[j] /\ j < i
      BY <1>2, <1>4, <2>1
    <3>2. scopes[j].exc = flight
      BY <1>4, <2>1, <3>1
    <3>3. scopes[j].kind # "try"
      BY <1>1, <3>1, <3>2 DEF ScopesOK
    <3>4. scopes[j].kind # "cleanup"
      BY <1>1, <3>1, <3>2 DEF OneWay
    <3>5. scopes[j].kind \in {"try", "handler", "cleanup"}
      <4>1. scopes[j] \in Scope
        BY <1>1, <3>1, LenProperties, ElementOfSeq DEF ScopesType
      <4> QED
        BY <4>1 DEF Scope
    <3> QED
      BY <3>1, <3>3, <3>4, <3>5
  <2> QED
    BY <1>1, <1>4, <2>1
<1> QED
  BY <1>2, <1>3, <1>4

LEMMA OneWayStep ==
  ASSUME IInv, Next
  PROVE  OneWay'
<1>1. OneWay /\ ScopesOK /\ ExceptionsKept
  BY IInvParts
<1>2. CASE RefsOnly
  BY <1>1, <1>2, RefsOnlyEffect DEF OneWay
<1>3. ASSUME NEW e \in Exc, Rethrowing(e)
      PROVE  OneWay'
  BY <1>1, <1>3 DEF Rethrowing, OneWay
<1>4. ASSUME NEW e \in Exc, NEW o \in Obj, Throwing(e, o)
      PROVE  OneWay'
  <2>1. e \notin Carried
    BY <1>1, <1>4 DEF Throwing, ExceptionsKept, Allocated
  <2>2. \A i \in DOMAIN scopes : scopes[i].exc # e
    BY <2>1, ExceptionsAssumption DEF Carried
  <2> QED
    BY <1>1, <1>4, <2>2 DEF Throwing, OneWay
<1>5. CASE EnterTry \/ EnterCleanup
  <2>1. CASE /\ Pushed(scopes, [kind |-> "try", exc |-> Nil], scopes')
             /\ UNCHANGED flight
    <3> DEFINE y == [kind |-> "try", exc |-> Nil]
    <3>1. y.kind # "cleanup" /\ y.exc = Nil /\ Pushed(scopes, y, scopes')
      BY <2>1
    <3> HIDE DEF y
    <3> QED
      BY <2>1, <3>1, OneWayPushed
  <2>2. CASE /\ Pushed(scopes, [kind |-> "cleanup", exc |-> flight], scopes')
             /\ flight \in Exc /\ flight' = Nil
    <3> DEFINE y == [kind |-> "cleanup", exc |-> flight]
    <3>1. y.exc = flight /\ Pushed(scopes, y, scopes')
      BY <2>2
    <3> HIDE DEF y
    <3> QED
      BY <2>2, <3>1, OneWayInterrupted
  <2> QED
    BY <1>5, <2>1, <2>2, EnterEffect
<1>6. CASE EndTry \/ LeaveCleanup \/ EndHandler
  <2>1. /\ scopes # <<>> /\ scopes' = Pop(scopes)
        /\ flight' = flight \/ (Top(scopes).kind = "cleanup" /\ flight' = Top(scopes).exc)
    BY <1>6, LeaveEffect DEF EndHandler, Inside
  <2> QED
    BY <2>1, OneWayPopped
<1>7. CASE BeginCatch
  <2> DEFINE h == [kind |-> "handler", exc |-> flight]
  <2>1. /\ h.kind # "cleanup" /\ h.exc = flight /\ flight' = Nil /\ scopes # <<>>
        /\ Pushed(Pop(scopes), h, scopes')
    BY <1>7, BeginCatchEffect
  <2> HIDE DEF h
  <2> QED
    BY <2>1, OneWayPushed
<1> QED
  BY <1>2, <1>3, <1>4, <1>5, <1>6, <1>7, Effects
-----------------------------------------------------------------------------
(* The exceptions that exist *)

\* The exceptions carried are those on their way and those with a handler.
CarriedAreNeeded ==
  Carried = {e \in Exc : OnTheWay(e) \/ depth[e] > 0}

LEMMA CarriedNeeded == Handling => CarriedAreNeeded
<1> SUFFICES ASSUME Handling
             PROVE  CarriedAreNeeded
  OBVIOUS
<1>1. BlocksOK /\ ScopesType /\ ScopesOK /\ Matches(scopes, catchStack) /\ DepthCounts
  BY TypeParts DEF Handling, CatchStackMatches
<1>2. \A i \in DOMAIN scopes : scopes[i] \in Scope
  BY <1>1, LenProperties, ElementOfSeq DEF ScopesType
<1>3. ASSUME NEW e \in Exc
      PROVE  depth[e] > 0 <=> \E i \in DOMAIN scopes :
                               scopes[i].kind = "handler" /\ scopes[i].exc = e
  <2>1. /\ depth[e] \in Nat /\ depth[e] = Entries(catchStack, e)
        /\ depth[e] = 0 <=> \A k \in DOMAIN catchStack : catchStack[k] # e
    BY <1>1, EntriesNone DEF BlocksOK, DepthCounts
  <2>2. ASSUME NEW k \in DOMAIN catchStack
        PROVE  \E i \in DOMAIN scopes :
                 scopes[i].kind = "handler" /\ scopes[i].exc = catchStack[k]
    BY <1>1, <2>2 DEF Matches
  <2>3. ASSUME NEW i \in DOMAIN scopes, scopes[i].kind = "handler"
        PROVE  \E k \in DOMAIN catchStack : catchStack[k] = scopes[i].exc
    BY <1>1, <2>3 DEF Matches
  <2> QED
    BY <2>1, <2>2, <2>3
<1>4. ASSUME NEW e \in Exc
      PROVE  e \in Carried <=> OnTheWay(e) \/ depth[e] > 0
  <2>1. e # Nil
    BY ExceptionsAssumption
  <2>2. e \in Carried <=> flight = e \/ \E i \in DOMAIN scopes : scopes[i].exc = e
    BY <2>1 DEF Carried
  <2>3. ASSUME NEW i \in DOMAIN scopes, scopes[i].exc = e
        PROVE  scopes[i].kind = "handler" \/ scopes[i].kind = "cleanup"
    BY <1>1, <1>2, <2>1, <2>3 DEF ScopesOK, Scope
  <2> QED
    BY <1>3, <2>2, <2>3 DEF OnTheWay
<1>5. Carried \subseteq Exc
  BY <1>1, <1>2 DEF Carried, ScopesType, Scope
<1> QED
  BY <1>4, <1>5 DEF CarriedAreNeeded

LEMMA CarriedNeededNext == Handling' => CarriedAreNeeded'
BY CarriedNeeded, PTL

\* An exception ends to exist with its last handler, which it does not leave.
LEMMA NeededStep ==
  ASSUME IInv, Next, NEW x \in Exc
  PROVE  object'[x] # Nil <=> OnTheWay(x)' \/ depth'[x] > 0
<1>1. BlocksOK /\ LeavingOnTheWay
  BY IInvParts
<1>2. object[x] # Nil <=> OnTheWay(x) \/ depth[x] > 0
  <2>1. Allocated = {e \in Exc : OnTheWay(e) \/ depth[e] > 0}
    BY CarriedNeeded DEF IInv, Unwinding, ExceptionsKept, CarriedAreNeeded
  <2> QED
    BY <2>1 DEF Allocated
<1>3. /\ leaving[x] <=> OnTheWay(x) /\ depth[x] > 0
      /\ depth[x] \in Nat
  BY <1>1 DEF LeavingOnTheWay, BlocksOK
<1>4. CASE RefsOnly \/ EnterTry \/ EnterCleanup \/ EndTry \/ LeaveCleanup
  <2>1. OnTheWay(x)' <=> OnTheWay(x)
    BY <1>4, WayStep
  <2>2. object' = object /\ depth' = depth
    BY <1>4, RefsOnlyEffect, EnterEffect, LeaveEffect DEF blocks
  <2> QED
    BY <1>2, <2>1, <2>2
<1>5. ASSUME NEW e \in Exc, Rethrowing(e)
      PROVE  object'[x] # Nil <=> OnTheWay(x)' \/ depth'[x] > 0
  <2>1. OnTheWay(x)' <=> OnTheWay(x) \/ x = e
    BY <1>5, WayStep
  <2>2. object' = object /\ depth' = depth /\ depth[e] > 0
    BY <1>5 DEF Rethrowing
  <2> QED
    BY <1>2, <2>1, <2>2
<1>6. ASSUME NEW e \in Exc, NEW o \in Obj, Throwing(e, o)
      PROVE  object'[x] # Nil <=> OnTheWay(x)' \/ depth'[x] > 0
  <2>1. OnTheWay(x)' <=> OnTheWay(x) \/ x = e
    BY <1>6, WayStep
  <2>2. /\ object'[x] = IF x = e THEN o ELSE object[x]
        /\ depth'[x] = IF x = e THEN 0 ELSE depth[x]
    BY <1>1, <1>6 DEF Throwing, BlocksOK
  <2>3. o # Nil
    BY ExceptionsAssumption
  <2> QED
    BY <1>2, <2>1, <2>2, <2>3
<1>7. CASE BeginCatch
  <2>1. OnTheWay(x)' <=> OnTheWay(x) /\ x # flight
    BY <1>7, WayStep
  <2>2. /\ depth'[x] = IF x = flight THEN depth[x] + 1 ELSE depth[x]
        /\ object' = object
    BY <1>1, <1>7, BeginCatchEffect DEF BlocksOK
  <2>3. x = flight => OnTheWay(x)
    BY DEF OnTheWay
  <2> QED
    BY <1>2, <1>3, <2>1, <2>2, <2>3
<1>8. CASE EndHandler
  <2> DEFINE e == Top(scopes).exc
  <2>1. OnTheWay(x)' <=> OnTheWay(x)
    BY <1>8, WayStep
  <2>2. /\ e \in Exc /\ depth[e] \in Nat \ {0}
        /\ depth' = [depth EXCEPT ![e] = depth[e] - 1]
        /\ \/ depth[e] = 1 /\ ~leaving[e] /\ Delete(e)
           \/ (depth[e] > 1 \/ leaving[e]) /\ UNCHANGED <<object, active, objects>>
    BY <1>8, EndHandlerEffect
  <2> HIDE DEF e
  <2>3. depth'[x] = IF x = e THEN depth[x] - 1 ELSE depth[x]
    BY <1>1, <2>2 DEF BlocksOK
  <2>4. CASE depth[e] = 1 /\ ~leaving[e] /\ Delete(e)
    <3>1. object'[x] = IF x = e THEN Nil ELSE object[x]
      BY <1>1, <2>2, <2>4 DEF Delete, BlocksOK
    <3> QED
      BY <1>2, <1>3, <2>1, <2>3, <2>4, <3>1
  <2>5. CASE (depth[e] > 1 \/ leaving[e]) /\ UNCHANGED <<object, active, objects>>
    BY <1>2, <1>3, <2>1, <2>2, <2>3, <2>5
  <2> QED
    BY <2>2, <2>4, <2>5
<1> QED
  BY <1>4, <1>5, <1>6, <1>7, <1>8, Effects

\* The list of the exceptions, each of them once
Listed ==
  /\ {active[i] : i \in DOMAIN active} = Allocated
  /\ \A i, j \in DOMAIN active : active[i] = active[j] => i = j

LEMMA ListedThrown ==
  ASSUME BlocksOK, Listed, NEW e \in Exc, NEW o \in Obj, Throwing(e, o)
  PROVE  Listed'
<1> DEFINE n == Len(active)
<1>1. n \in Nat /\ DOMAIN active = 1 .. n
  BY LenProperties DEF BlocksOK
<1>2. /\ <<e>> \in Seq(Exc) /\ Len(<<e>>) = 1 /\ <<e>>[1] = e
  OBVIOUS
<1>3. /\ active' \in Seq(Exc) /\ Len(active') = 1 + n
      /\ \A i \in 1 .. 1 + n : active'[i] = IF i <= 1 THEN <<e>>[i] ELSE active[i - 1]
  BY <1>2, ConcatProperties DEF Throwing, BlocksOK
<1> HIDE DEF n
<1>4. DOMAIN active' = 1 .. n + 1 /\ active'[1] = e
  BY <1>1, <1>2, <1>3, LenProperties
<1>5. ASSUME NEW i \in DOMAIN active', i # 1
      PROVE  i - 1 \in DOMAIN active /\ active'[i] = active[i - 1]
  BY <1>1, <1>3, <1>4, <1>5
<1>6. ASSUME NEW i \in DOMAIN active
      PROVE  i + 1 \in DOMAIN active' /\ active'[i + 1] = active[i]
  <2>1. /\ i + 1 \in 1 .. 1 + n /\ i + 1 \in 1 .. n + 1
        /\ ~(i + 1 <= 1) /\ i + 1 - 1 = i
    BY <1>1, <1>6
  <2>2. PICK j \in 1 .. 1 + n : j = i + 1
    BY <2>1
  <2>3. ~(j <= 1) /\ j - 1 = i
    BY <1>1, <1>6, <2>2
  <2>4. active'[j] = IF j <= 1 THEN <<e>>[j] ELSE active[j - 1]
    BY <1>3, Zenon
  <2>5. active'[j] = active[i]
    BY <2>3, <2>4, Zenon
  <2> QED
    BY <1>4, <2>1, <2>2, <2>5, Zenon
<1>7. Allocated' = Allocated \cup {e} /\ e \notin Allocated
  <2>1. o # Nil
    BY ExceptionsAssumption
  <2>2. \A x \in Exc : object'[x] = IF x = e THEN o ELSE object[x]
    BY DEF Throwing, BlocksOK
  <2> QED
    BY <2>1, <2>2 DEF Allocated, Throwing
<1>8. \A x \in Allocated : \E i \in DOMAIN active : active[i] = x
  BY DEF Listed
<1>9. \A i \in DOMAIN active : active[i] \in Allocated
  BY DEF Listed
<1>10. 1 \in DOMAIN active'
  BY <1>1, <1>4
<1>11. {active'[i] : i \in DOMAIN active'} = Allocated'
  <2>1. ASSUME NEW i \in DOMAIN active' PROVE active'[i] \in Allocated'
    BY <1>4, <1>5, <1>7, <1>9
  <2>2. ASSUME NEW x \in Allocated' PROVE \E i \in DOMAIN active' : active'[i] = x
    BY <1>4, <1>6, <1>7, <1>8, <1>10
  <2> QED
    BY <2>1, <2>2
<1>12. ASSUME NEW i \in DOMAIN active', NEW j \in DOMAIN active', active'[i] = active'[j]
       PROVE  i = j
  <2>1. CASE i = 1 \/ j = 1
    BY <1>4, <1>5, <1>7, <1>9, <1>12, <2>1
  <2>2. CASE i # 1 /\ j # 1
    <3>1. i - 1 = j - 1
      BY <1>5, <1>12, <2>2 DEF Listed
    <3> QED
      BY <1>1, <1>4, <3>1
  <2> QED
    BY <2>1, <2>2
<1> QED
  BY <1>11, <1>12 DEF Listed

LEMMA ListedDeleted ==
  ASSUME BlocksOK, Listed, NEW e \in Exc, object[e] # Nil, Delete(e)
  PROVE  Listed'
<1> DEFINE n == Len(active)
<1>1. n \in Nat /\ DOMAIN active = 1 .. n
  BY LenProperties DEF BlocksOK
<1>2. \E i \in DOMAIN active : active[i] = e
  BY DEF Listed, Allocated
<1>3. PICK k \in DOMAIN active :
        /\ active[k] = e
        /\ active' = SubSeq(active, 1, k - 1) \o SubSeq(active, k + 1, Len(active))
  BY <1>2 DEF Delete, Unregister
<1>4. Dropped(active, n, k, active')
  BY <1>1, <1>3, Unlinked DEF BlocksOK
<1> HIDE DEF n
<1>5. /\ DOMAIN active' = 1 .. n - 1
      /\ \A j \in 1 .. n - 1 : active'[j] = IF j < k THEN active[j] ELSE active[j + 1]
  BY <1>4 DEF Dropped
<1> DEFINE from(i) == IF i < k THEN i ELSE i + 1
<1>6. ASSUME NEW i \in DOMAIN active'
      PROVE  from(i) \in DOMAIN active /\ from(i) # k /\ active'[i] = active[from(i)]
  <2>1. i \in 1 .. n - 1 /\ active'[i] = IF i < k THEN active[i] ELSE active[i + 1]
    BY <1>5
  <2>2. k \in 1 .. n
    BY <1>1, <1>3
  <2>3. CASE i < k
    BY <1>1, <2>1, <2>2, <2>3
  <2>4. CASE ~(i < k)
    <3>1. i + 1 \in 1 .. n /\ i + 1 # k
      BY <1>1, <2>1, <2>2, <2>4
    <3> QED
      BY <1>1, <2>1, <2>4, <3>1
  <2> QED
    BY <2>3, <2>4
<1>7. ASSUME NEW i \in DOMAIN active, i # k
      PROVE  \E j \in DOMAIN active' : from(j) = i
  <2>1. CASE i < k
    BY <1>1, <1>3, <1>5, <2>1
  <2>2. CASE i > k
    <3>1. i - 1 \in 1 .. n - 1 /\ from(i - 1) = i
      BY <1>1, <1>3, <2>2
    <3> QED
      BY <1>5, <3>1
  <2> QED
    BY <1>1, <1>3, <1>7, <2>1, <2>2
<1>8. ASSUME NEW i \in DOMAIN active', NEW j \in DOMAIN active', from(i) = from(j)
      PROVE  i = j
  BY <1>1, <1>3, <1>5, <1>8
<1> HIDE DEF from
<1>9. Allocated' = Allocated \ {e}
  <2>1. \A x \in Exc : object'[x] = IF x = e THEN Nil ELSE object[x]
    BY DEF Delete, BlocksOK
  <2> QED
    BY <2>1 DEF Allocated
<1>10. \A i \in DOMAIN active : active[i] = e => i = k
  BY <1>3 DEF Listed
<1>11. {active'[i] : i \in DOMAIN active'} = Allocated'
  <2>1. ASSUME NEW i \in DOMAIN active' PROVE active'[i] \in Allocated'
    BY <1>6, <1>9, <1>10 DEF Listed
  <2>2. ASSUME NEW x \in Allocated' PROVE \E i \in DOMAIN active' : active'[i] = x
    <3>1. PICK i \in DOMAIN active : active[i] = x
      BY <1>9 DEF Listed
    <3>2. i # k
      BY <1>3, <1>9, <3>1
    <3> QED
      BY <1>6, <1>7, <3>1, <3>2
  <2> QED
    BY <2>1, <2>2
<1>12. ASSUME NEW i \in DOMAIN active', NEW j \in DOMAIN active', active'[i] = active'[j]
       PROVE  i = j
  <2>1. from(i) = from(j)
    BY <1>6, <1>12 DEF Listed
  <2> QED
    BY <1>8, <2>1
<1> QED
  BY <1>11, <1>12 DEF Listed

LEMMA KeptStep ==
  ASSUME IInv, Next, Handling'
  PROVE  ExceptionsKept'
<1>1. BlocksOK /\ Listed
  BY IInvParts DEF ExceptionsKept, Listed
<1>2. Allocated' = Carried'
  <2>1. Carried' = {e \in Exc : OnTheWay(e)' \/ depth'[e] > 0}
    BY CarriedNeededNext DEF CarriedAreNeeded
  <2> QED
    BY <2>1, NeededStep DEF Allocated
<1>3. Listed'
  <2>1. CASE UNCHANGED <<object, active>>
    BY <1>1, <2>1 DEF Listed, Allocated
  <2>2. ASSUME NEW e \in Exc, NEW o \in Obj, Throwing(e, o)
        PROVE  Listed'
    BY <1>1, <2>2, ListedThrown
  <2>3. CASE EndHandler
    <3> DEFINE e == Top(scopes).exc
    <3>1. /\ e \in Exc /\ depth[e] \in Nat \ {0}
          /\ Delete(e) \/ UNCHANGED <<object, active>>
      BY <2>3, EndHandlerEffect
    <3> HIDE DEF e
    <3>2. object[e] # Nil
      <4>1. e \in Allocated
        BY <3>1, CarriedNeeded DEF IInv, Unwinding, ExceptionsKept, CarriedAreNeeded
      <4> QED
        BY <4>1 DEF Allocated
    <3> QED
      BY <1>1, <2>1, <3>1, <3>2, ListedDeleted
  <2> QED
    BY <2>1, <2>2, <2>3, Effects, RefsOnlyEffect, EnterEffect, LeaveEffect, BeginCatchEffect
    DEF Rethrowing, blocks
<1> QED
  BY <1>2, <1>3 DEF ExceptionsKept, Listed
-----------------------------------------------------------------------------
(* The objects *)

Carriers(o) == {e \in Exc : object[e] = o}

LEMMA CarriersFinite == \A o : IsFiniteSet(Carriers(o)) /\ Cardinality(Carriers(o)) \in Nat
<1> TAKE o
<1>1. IsFiniteSet(Carriers(o))
  BY FS_Subset, ExceptionsAssumption DEF Carriers
<1> QED
  BY <1>1, FS_CardinalityType

LEMMA CarriersThrown ==
  ASSUME BlocksOK, NEW e \in Exc, NEW o \in Obj, Throwing(e, o), NEW p \in Obj
  PROVE  Cardinality(Carriers(p)') = Cardinality(Carriers(p)) + (IF p = o THEN 1 ELSE 0)
<1>1. \A x \in Exc : object'[x] = IF x = e THEN o ELSE object[x]
  BY DEF Throwing, BlocksOK
<1>2. object[e] # p
  BY ExceptionsAssumption DEF Throwing
<1>3. Carriers(p)' = IF p = o THEN Carriers(p) \cup {e} ELSE Carriers(p)
  BY <1>1, <1>2 DEF Carriers
<1>4. e \notin Carriers(p)
  BY <1>2 DEF Carriers
<1>5. Cardinality(Carriers(p) \cup {e}) = Cardinality(Carriers(p)) + 1
  BY <1>4, CarriersFinite, FS_AddElement
<1>6. Cardinality(Carriers(p)) \in Nat
  BY CarriersFinite
<1>7. CASE p = o
  BY <1>3, <1>5, <1>7
<1>8. CASE p # o
  BY <1>3, <1>6, <1>8
<1> QED
  BY <1>7, <1>8

LEMMA CarriersDeleted ==
  ASSUME BlocksOK, NEW e \in Exc, object[e] # Nil, Delete(e), NEW p \in Obj
  PROVE  /\ Cardinality(Carriers(p)') =
              Cardinality(Carriers(p)) - (IF p = object[e] THEN 1 ELSE 0)
         /\ p = object[e] => Cardinality(Carriers(p)) > 0
<1>1. \A x \in Exc : object'[x] = IF x = e THEN Nil ELSE object[x]
  BY DEF Delete, BlocksOK
<1>2. p # Nil
  BY ExceptionsAssumption
<1>3. Carriers(p)' = Carriers(p) \ {e}
  BY <1>1, <1>2 DEF Carriers
<1>4. e \in Carriers(p) <=> p = object[e]
  BY DEF Carriers
<1>5. Cardinality(Carriers(p) \ {e}) =
        IF e \in Carriers(p) THEN Cardinality(Carriers(p)) - 1 ELSE Cardinality(Carriers(p))
  BY CarriersFinite, FS_RemoveElement
<1>6. /\ Cardinality(Carriers(p)) \in Nat
      /\ Cardinality(Carriers(p)) = 0 <=> Carriers(p) = {}
  BY CarriersFinite, FS_EmptySet
<1>7. CASE p = object[e]
  BY <1>3, <1>4, <1>5, <1>6, <1>7
<1>8. CASE p # object[e]
  BY <1>3, <1>4, <1>5, <1>6, <1>8
<1> QED
  BY <1>7, <1>8

\* The object of an exception that is deleted was allocated, and retained.
LEMMA Deleted ==
  ASSUME IInv, EndHandler
  PROVE  \/ UNCHANGED <<object, objects>>
         \/ \E e \in Exc : object[e] \in Obj /\ Delete(e)
<1> DEFINE e == Top(scopes).exc
<1>1. /\ e \in Exc /\ depth[e] \in Nat \ {0}
      /\ Delete(e) \/ UNCHANGED <<object, objects>>
  BY EndHandlerEffect
<1> HIDE DEF e
<1>2. e \in Allocated
  BY <1>1, CarriedNeeded DEF IInv, Unwinding, ExceptionsKept, CarriedAreNeeded
<1>3. object[e] \in Obj
  BY <1>1, <1>2, IInvParts DEF Allocated, BlocksOK
<1> QED
  BY <1>1, <1>3

LEMMA RetainedStep ==
  ASSUME IInv, Next
  PROVE  ObjectsRetained'
<1>1. ObjectsOK /\ BlocksOK /\ ObjectsRetained
  BY IInvParts
<1> SUFFICES ASSUME NEW p \in Obj
             PROVE  refs'[p] = held'[p] + Cardinality(Carriers(p)')
  BY DEF ObjectsRetained, Carriers
<1>2. /\ refs[p] = held[p] + Cardinality(Carriers(p))
      /\ refs[p] \in Nat /\ held[p] \in Nat /\ Cardinality(Carriers(p)) \in Nat
  BY <1>1, CarriersFinite DEF ObjectsRetained, ObjectsOK, Carriers
<1>3. object' = object => Carriers(p)' = Carriers(p)
  BY DEF Carriers
<1>4. CASE UNCHANGED <<object, objects>>
  BY <1>2, <1>3, <1>4 DEF objects
<1>5. CASE RefsOnly
  <2>1. PICK o \in Obj : Create(o) \/ Retain(o) \/ Release(o)
    BY <1>5 DEF RefsOnly
  <2>2. object' = object
    BY <1>5, RefsOnlyEffect
  <2>3. CASE Create(o)
    <3>1. /\ refs'[p] = IF p = o THEN 1 ELSE refs[p]
          /\ held'[p] = IF p = o THEN 1 ELSE held[p]
          /\ p = o => refs[p] = 0
      BY <1>1, <2>3 DEF Create, ObjectsOK
    <3> QED
      BY <1>2, <1>3, <2>2, <3>1
  <2>4. CASE Retain(o)
    <3>1. /\ refs'[p] = IF p = o THEN refs[p] + 1 ELSE refs[p]
          /\ held'[p] = IF p = o THEN held[p] + 1 ELSE held[p]
      BY <1>1, <2>4 DEF Retain, ObjectsOK
    <3> QED
      BY <1>2, <1>3, <2>2, <3>1
  <2>5. CASE Release(o)
    <3>1. /\ refs'[p] = IF p = o THEN (IF refs[p] > 0 THEN refs[p] - 1 ELSE 0) ELSE refs[p]
          /\ held'[p] = IF p = o THEN held[p] - 1 ELSE held[p]
          /\ p = o => held[p] > 0
      BY <1>1, <2>5 DEF Release, Releasing, ObjectsOK
    <3> QED
      BY <1>2, <1>3, <2>2, <3>1
  <2> QED
    BY <2>1, <2>3, <2>4, <2>5
<1>6. ASSUME NEW e \in Exc, NEW o \in Obj, Throwing(e, o)
      PROVE  refs'[p] = held'[p] + Cardinality(Carriers(p)')
  <2>1. Cardinality(Carriers(p)') = Cardinality(Carriers(p)) + (IF p = o THEN 1 ELSE 0)
    BY <1>1, <1>6, CarriersThrown
  <2>2. refs'[p] = (IF p = o THEN refs[p] + 1 ELSE refs[p]) /\ held' = held
    BY <1>1, <1>6 DEF Throwing, ObjectsOK
  <2> QED
    BY <1>2, <2>1, <2>2
<1>7. CASE EndHandler
  <2>1. ASSUME NEW e \in Exc, object[e] \in Obj, Delete(e)
        PROVE  refs'[p] = held'[p] + Cardinality(Carriers(p)')
    <3>1. object[e] # Nil
      BY <2>1, ExceptionsAssumption
    <3>2. /\ Cardinality(Carriers(p)') =
               Cardinality(Carriers(p)) - (IF p = object[e] THEN 1 ELSE 0)
          /\ p = object[e] => Cardinality(Carriers(p)) > 0
      BY <1>1, <2>1, <3>1, CarriersDeleted
    <3>3. /\ refs'[p] = IF p = object[e] THEN (IF refs[p] > 0 THEN refs[p] - 1 ELSE 0)
                       ELSE refs[p]
          /\ held' = held
      BY <1>1, <2>1 DEF Delete, Releasing, ObjectsOK
    <3> QED
      BY <1>2, <3>2, <3>3
  <2> QED
    BY <1>4, <1>7, <2>1, Deleted
<1> QED
  BY <1>4, <1>5, <1>6, <1>7, Effects, EnterEffect, LeaveEffect, BeginCatchEffect
  DEF Rethrowing, blocks

LEMMA FlagsReleased ==
  ASSUME ObjectsOK, FlagsKept, NEW o \in Obj, Releasing(o)
  PROVE  FlagsKept'
<1>1. \A p \in Obj : refs'[p] = IF p = o THEN (IF refs[o] > 0 THEN refs[o] - 1 ELSE 0)
                              ELSE refs[p]
  BY DEF Releasing, ObjectsOK
<1>2. refs[o] \in Nat
  BY DEF ObjectsOK
<1>3. CASE refs[o] = 1 /\ o \in flagged
  BY <1>1, <1>3 DEF FlagsKept, Releasing, ObjectsOK
<1>4. CASE ~(refs[o] = 1 /\ o \in flagged)
  <2>1. metadata' = metadata /\ flagged' = flagged
    BY <1>4 DEF Releasing
  <2>2. ASSUME NEW p \in flagged PROVE refs'[p] > 0
    <3>1. p \in Obj /\ refs[p] > 0 /\ refs[p] \in Nat
      BY DEF FlagsKept, ObjectsOK
    <3> QED
      BY <1>1, <1>4, <3>1
  <2> QED
    BY <2>1, <2>2 DEF FlagsKept
<1> QED
  BY <1>3, <1>4

LEMMA FlagsStep ==
  ASSUME IInv, Next
  PROVE  FlagsKept'
<1>1. ObjectsOK /\ FlagsKept
  BY IInvParts
<1>2. CASE UNCHANGED objects
  BY <1>1, <1>2 DEF objects, FlagsKept
<1>3. CASE RefsOnly
  <2>1. PICK o \in Obj : Create(o) \/ Retain(o) \/ Release(o)
    BY <1>3 DEF RefsOnly
  <2>2. CASE Create(o) \/ Retain(o)
    <3>1. \A p \in Obj : refs[p] > 0 => refs'[p] > 0
      BY <1>1, <2>2 DEF Create, Retain, ObjectsOK
    <3>2. metadata' = metadata /\ flagged' = flagged
      BY <2>2 DEF Create, Retain
    <3> QED
      BY <1>1, <3>1, <3>2 DEF FlagsKept, ObjectsOK
  <2>3. CASE Release(o)
    BY <1>1, <2>3, FlagsReleased DEF Release
  <2> QED
    BY <2>1, <2>2, <2>3
<1>4. ASSUME NEW e \in Exc, NEW o \in Obj, Throwing(e, o)
      PROVE  FlagsKept'
  <2>1. \A p \in Obj : refs'[p] = IF p = o THEN refs[p] + 1 ELSE refs[p]
    BY <1>1, <1>4 DEF Throwing, ObjectsOK
  <2>2. /\ metadata' \in {metadata, metadata \cup {o}}
        /\ flagged' = flagged \cup {o}
    BY <1>4 DEF Throwing, CaptureMetadata
  <2>3. ASSUME NEW p \in flagged' PROVE refs'[p] > 0
    <3>1. p \in Obj /\ refs[p] \in Nat /\ (p = o \/ refs[p] > 0)
      BY <1>1, <2>2 DEF FlagsKept, ObjectsOK
    <3> QED
      BY <2>1, <3>1
  <2> QED
    BY <1>1, <2>2, <2>3 DEF FlagsKept
<1>5. CASE EndHandler
  <2>1. ASSUME NEW e \in Exc, object[e] \in Obj, Delete(e)
        PROVE  FlagsKept'
    BY <1>1, <2>1, FlagsReleased DEF Delete
  <2> QED
    BY <1>2, <1>5, <2>1, Deleted
<1> QED
  BY <1>2, <1>3, <1>4, <1>5, Effects, EnterEffect, LeaveEffect, BeginCatchEffect
  DEF Rethrowing
-----------------------------------------------------------------------------
(* The theorems *)

LEMMA InitIInv == Init => IInv
<1> SUFFICES ASSUME Init PROVE IInv
  OBVIOUS
<1>1. ObjectsOK /\ BlocksOK /\ ScopesType
  BY ExceptionsAssumption DEF Init, ObjectsOK, BlocksOK, ScopesType
<1>2. ScopesOK /\ OneWay
  BY ExceptionsAssumption DEF Init, ScopesOK, OneWay
<1>3. CatchStackMatches
  <2>1. Nesting(<<>>, 0) = 0
    <3>1. {i \in 1 .. 0 : <<>>[i].kind = "handler"} = {}
      OBVIOUS
    <3> QED
      BY <3>1, FS_EmptySet DEF Nesting
  <2>2. Matches(<<>>, <<>>)
    BY <2>1 DEF Matches
  <2> QED
    BY <2>2 DEF Init, CatchStackMatches
<1>4. DepthCounts
  <2>1. \A e \in Exc : Entries(<<>>, e) = 0
    <3> TAKE e \in Exc
    <3>1. {k \in 1 .. Len(<<>>) : <<>>[k] = e} = {}
      OBVIOUS
    <3> QED
      BY <3>1, FS_EmptySet DEF Entries
  <2> QED
    BY <2>1 DEF Init, DepthCounts
<1>5. LeavingOnTheWay
  BY DEF Init, LeavingOnTheWay
<1>6. ExceptionsKept
  BY DEF Init, ExceptionsKept, Allocated, Carried
<1>7. ObjectsRetained /\ FlagsKept
  <2>1. \A o \in Obj : {e \in Exc : object[e] = o} = {}
    BY ExceptionsAssumption DEF Init
  <2> QED
    BY <2>1, FS_EmptySet DEF Init, ObjectsRetained, FlagsKept
<1> QED
  BY <1>1, <1>2, <1>3, <1>4, <1>5, <1>6, <1>7, IInvParts

LEMMA NextIInv == IInv /\ [Next]_vars => IInv'
<1> SUFFICES ASSUME IInv, [Next]_vars PROVE IInv'
  OBVIOUS
<1>1. CASE Next
  <2>1. Handling'
    BY <1>1, TypeStep, ScopesStep, CatchStackStep, DepthStep DEF IInv, Handling
  <2>2. Unwinding'
    BY <1>1, <2>1, OneWayStep, LeavingStep, KeptStep DEF Unwinding
  <2>3. ObjectsRetained' /\ FlagsKept'
    BY <1>1, RetainedStep, FlagsStep
  <2> QED
    BY <2>1, <2>2, <2>3 DEF IInv
<1>2. CASE UNCHANGED vars
  <2>1. UNCHANGED <<scopes, flight, object, depth, leaving, active, catchStack, current,
                    refs, held, metadata, flagged>>
    BY <1>2 DEF vars, blocks, objects
  <2>2. Handling'
    BY <2>1 DEF IInv, Handling, TypeOK, ScopesOK, CatchStackMatches, DepthCounts
  <2>3. Unwinding'
    BY <2>1 DEF IInv, Unwinding, OneWay, LeavingOnTheWay, OnTheWay, ExceptionsKept,
                Allocated, Carried
  <2>4. ObjectsRetained' /\ FlagsKept'
    BY <2>1 DEF IInv, ObjectsRetained, FlagsKept
  <2> QED
    BY <2>2, <2>3, <2>4 DEF IInv
<1> QED
  BY <1>1, <1>2

THEOREM Invariance == Spec => []IInv
BY InitIInv, NextIInv, PTL DEF Spec

\* The state keeps its types: a block on the catch stack is one calloc returned.
THEOREM TypeCorrect == Spec => []TypeOK
<1>1. IInv => TypeOK
  BY DEF IInv, Handling
<1> QED
  BY <1>1, Invariance, PTL

\* objc_end_catch frees an exception with its last handler unless it leaves it,
\* so none is lost, and none is used after it was freed.
THEOREM ExceptionsAreKept == Spec => []ExceptionsKept
<1>1. IInv => ExceptionsKept
  BY DEF IInv, Unwinding
<1> QED
  BY <1>1, Invariance, PTL

\* g_catch_stack lists the exceptions of the handlers the program is inside of,
\* and g_gnu_current_exception is that of the innermost.
THEOREM CatchStackCorrect == Spec => []CatchStackMatches
<1>1. IInv => CatchStackMatches
  BY DEF IInv, Handling
<1> QED
  BY <1>1, Invariance, PTL

\* An exception holds its object from the throw until it is freed.
THEOREM ObjectsAreRetained == Spec => []ObjectsRetained
<1>1. IInv => ObjectsRetained
  BY DEF IInv
<1> QED
  BY <1>1, Invariance, PTL

\* sf_object_dispose clears the metadata of the object, whether or not its entry
\* could be allocated, so a new object at the address has none.
THEOREM MetadataIsFresh == Spec => []MetadataFresh
<1>1. IInv => MetadataFresh
  BY DEF IInv, FlagsKept, MetadataFresh
<1> QED
  BY <1>1, Invariance, PTL
=============================================================================
