------------------------- MODULE TokenLayoutProofs -------------------------
(***************************************************************************)
(* The walk over a token account's extensions finds a transfer hook        *)
(* wherever it stands, for any number of extensions of any lengths.        *)
(***************************************************************************)
EXTENDS TokenLayout, SequenceTheorems, WellFoundedInduction, TLAPS

(***************************************************************************)
(* Induction, stated of a set so that the provers can use it.              *)
(***************************************************************************)

LEMMA LeastNumber ==
  ASSUME NEW T, T \subseteq Nat, T # {}
  PROVE  \E x \in T : \A y \in T : x <= y
<1> DEFINE R == OpToRel(<, Nat)
<1>1. PICK x \in T : \A y \in T : ~ (<<y, x>> \in R)
  <2>1. IsWellFoundedOn(R, Nat)
    BY NatLessThanWellFounded
  <2> HIDE DEF R
  <2> QED
    BY <2>1, WFMin, Zenon
<1>2. ASSUME NEW y \in T PROVE x <= y
  <2>1. x \in Nat /\ y \in Nat
    OBVIOUS
  <2>2. y < x => <<y, x>> \in R
    BY <2>1 DEF OpToRel
  <2> HIDE DEF R
  <2>3. ~(y < x)
    BY <1>1, <2>2, Zenon
  <2> QED
    BY <2>1, <2>3
<1> QED
  BY <1>2

LEMMA Induction ==
  ASSUME NEW S, 0 \in S, \A n \in Nat : n \in S => n + 1 \in S
  PROVE  Nat \subseteq S
<1> SUFFICES ASSUME Nat \ S # {} PROVE FALSE
  OBVIOUS
<1>1. PICK x \in Nat \ S : \A y \in Nat \ S : x <= y
  BY LeastNumber
<1>2. x # 0 /\ x - 1 \in Nat /\ ~(x <= x - 1)
  BY <1>1
<1>3. x - 1 \in S
  BY <1>1, <1>2
<1> QED
  BY <1>1, <1>2, <1>3
-----------------------------------------------------------------------------
(* The walk, over any data.                                                *)

\* What the walk says at offset i, if it says walk[j] at the later offsets j.
At(data, walk, i) ==
  IF i + 4 > Len(data) THEN TRUE
  ELSE LET type == U16At(data, i)
           length == U16At(data, i + 2)
       IN  IF i + 4 + length > Len(data) \/ type \in HookTypes THEN FALSE
           ELSE IF type = 0 /\ length = 0 THEN TRUE
           ELSE walk[NextEntry(i, length)]

\* The walk only looks further on.
LEMMA WalkGoesForward ==
  ASSUME NEW data \in Seq(Nat), NEW i \in 0..Len(data), NEW f, NEW g,
         \A j \in (i + 1)..Len(data) : f[j] = g[j]
  PROVE  At(data, f, i) = At(data, g, i)
<1>1. Len(data) \in Nat
  BY LenProperties
<1>2. CASE i + 4 > Len(data)
  BY <1>2 DEF At
<1>3. CASE ~(i + 4 > Len(data))
  <2> DEFINE type == U16At(data, i)
             length == U16At(data, i + 2)
  <2>1. \A j \in 1..4 : i + j \in 1..Len(data)
    BY <1>1, <1>3
  <2>2. \A j \in 1..4 : data[i + j] \in Nat
    BY <2>1, ElementOfSeq
  <2>3. length \in Nat
    <3>1. (i + 2) + 1 = i + 3 /\ (i + 2) + 2 = i + 4
      BY <1>1
    <3>2. length = data[i + 3] + 256 * data[i + 4]
      BY <3>1 DEF U16At
    <3>3. data[i + 3] \in Nat /\ data[i + 4] \in Nat
      BY <2>2
    <3> QED
      <4>1. PICK x, y \in Nat : x = data[i + 3] /\ y = data[i + 4]
        BY <3>3
      <4>2. x + 256 * y \in Nat
        OBVIOUS
      <4>3. length = x + 256 * y
        BY <3>2, <4>1, Zenon
      <4> QED
        BY <4>2, <4>3, Zenon
  <2>4. /\ At(data, f, i) = IF i + 4 + length > Len(data) \/ type \in HookTypes THEN FALSE
                            ELSE IF type = 0 /\ length = 0 THEN TRUE
                            ELSE f[NextEntry(i, length)]
        /\ At(data, g, i) = IF i + 4 + length > Len(data) \/ type \in HookTypes THEN FALSE
                            ELSE IF type = 0 /\ length = 0 THEN TRUE
                            ELSE g[NextEntry(i, length)]
    BY <1>3 DEF At
  <2> HIDE DEF type, length
  <2>5. CASE i + 4 + length > Len(data)
    BY <2>4, <2>5
  <2>6. CASE ~(i + 4 + length > Len(data))
    <3>1. NextEntry(i, length) \in (i + 1)..Len(data)
      BY <1>1, <2>3, <2>6 DEF NextEntry
    <3>2. f[NextEntry(i, length)] = g[NextEntry(i, length)]
      BY <3>1
    <3> QED
      BY <2>4, <3>2
  <2> QED
    BY <2>5, <2>6
<1> QED
  BY <1>2, <1>3

\* So it is the same whatever was found before, and there is one: by induction
\* on how far from the end it starts.
LEMMA WalkExists ==
  ASSUME NEW data \in Seq(Nat)
  PROVE  \E walk : walk = [i \in 0..Len(data) |-> At(data, walk, i)]
<1> DEFINE n == Len(data)
           S == {k \in Nat : k <= n =>
                   \E g : \A i \in (n - k)..n : g[i] = At(data, g, i)}
<1>0. n \in Nat
  BY LenProperties
<1>1. 0 \in S
  <2> DEFINE g == [i \in {n} |-> At(data, <<>>, n)]
  <2>1. At(data, g, n) = At(data, <<>>, n)
    BY <1>0, WalkGoesForward
  <2>2. \A i \in (n - 0)..n : i = n
    BY <1>0
  <2>3. g[n] = At(data, <<>>, n)
    OBVIOUS
  <2> HIDE DEF g
  <2>4. \A i \in (n - 0)..n : g[i] = At(data, g, i)
    BY <2>1, <2>2, <2>3
  <2> QED
    BY <2>4
<1>2. ASSUME NEW k \in Nat, k \in S PROVE k + 1 \in S
  <2> SUFFICES ASSUME k + 1 <= n
               PROVE  \E g : \A i \in (n - (k + 1))..n : g[i] = At(data, g, i)
    OBVIOUS
  <2>1. PICK g : \A i \in (n - k)..n : g[i] = At(data, g, i)
    BY <1>0, <1>2
  <2> DEFINE m == n - (k + 1)
  <2>2. m \in 0..n /\ n - k = m + 1
    BY <1>0
  <2> HIDE DEF m
  <2> DEFINE h == [i \in m..n |-> IF i = m THEN At(data, g, m) ELSE g[i]]
  <2>6. m \in m..n /\ \A i \in (m + 1)..n : i \in m..n /\ i # m
    BY <1>0, <2>2
  <2>3. h[m] = At(data, g, m) /\ \A i \in (m + 1)..n : h[i] = g[i]
    BY <2>6
  <2> HIDE DEF h
  <2>4. ASSUME NEW i \in m..n PROVE At(data, h, i) = At(data, g, i)
    <3>1. i \in 0..Len(data) /\ \A j \in (i + 1)..Len(data) : h[j] = g[j]
      BY <1>0, <2>2, <2>3
    <3> QED
      BY <3>1, WalkGoesForward
  <2>5. ASSUME NEW i \in m..n PROVE h[i] = At(data, h, i)
    <3>1. CASE i = m
      BY <2>3, <2>4, <3>1
    <3>2. CASE i # m
      <4>1. i \in (m + 1)..n
        BY <1>0, <2>2, <3>2
      <4> QED
        BY <2>1, <2>2, <2>3, <2>4, <4>1
    <3> QED
      BY <3>1, <3>2
  <2> QED
    BY <2>5 DEF m
<1>3. n \in S
  <2> HIDE DEF S
  <2> QED
    BY <1>0, <1>1, <1>2, Induction
<1>4. PICK g : \A i \in (n - n)..n : g[i] = At(data, g, i)
  BY <1>0, <1>3
<1>5. \A i \in 0..n : g[i] = At(data, g, i)
  BY <1>0, <1>4
<1> DEFINE walk == [i \in 0..n |-> g[i]]
<1>6. ASSUME NEW i \in 0..n PROVE At(data, walk, i) = At(data, g, i)
  BY <1>0, WalkGoesForward, i \in 0..Len(data), \A j \in (i + 1)..Len(data) : walk[j] = g[j]
<1>7. walk = [i \in 0..n |-> At(data, walk, i)]
  BY <1>5, <1>6
<1> QED
  BY <1>7

LEMMA WalkIsAtEveryOffset ==
  ASSUME NEW data \in Seq(Nat)
  PROVE  \E walk : /\ \A i \in 0..Len(data) : walk[i] = At(data, walk, i)
                   /\ \A start : AcceptsEntries(data, start) = walk[start]
<1> DEFINE walk == CHOOSE f : f = [i \in 0..Len(data) |-> At(data, f, i)]
<1>1. walk = [i \in 0..Len(data) |-> At(data, walk, i)]
  BY WalkExists, Zenon
<1>2. \A start : AcceptsEntries(data, start) = walk[start]
  BY Zenon DEF AcceptsEntries, At
<1> HIDE DEF walk
<1>3. \A i \in 0..Len(data) : walk[i] = At(data, walk, i)
  BY <1>1
<1> QED
  BY <1>2, <1>3

\* Entries of these types and lengths follow each other to the end of the data.
Entries(data, n, type, length, offset) ==
  /\ offset \in [0..n -> 0..Len(data)] /\ offset[n] = Len(data)
  /\ \A k \in 1..n : /\ type[k] \in Nat \ {0} /\ length[k] \in Nat
                     /\ offset[k] = offset[k - 1] + 4 + length[k]
                     /\ U16At(data, offset[k - 1]) = type[k]
                     /\ U16At(data, offset[k - 1] + 2) = length[k]

\* The walk takes every one in turn: it finds a hook if there is one.
LEMMA WalkOverEntries ==
  ASSUME NEW data \in Seq(Nat), NEW n \in Nat, NEW type, NEW length, NEW offset,
         Entries(data, n, type, length, offset)
  PROVE  /\ AcceptsEntries(data, offset[0]) \in BOOLEAN
         /\ AcceptsEntries(data, offset[0]) <=> \A k \in 1..n : type[k] \notin HookTypes
<1>0. Len(data) \in Nat
  BY LenProperties
<1> USE DEF Entries
<1>1. PICK walk : /\ \A i \in 0..Len(data) : walk[i] = At(data, walk, i)
                  /\ \A start : AcceptsEntries(data, start) = walk[start]
  BY WalkIsAtEveryOffset
<1> DEFINE NoHookIn(m) == \A k \in m..n : type[k] \notin HookTypes
           S == {m \in Nat : m <= n =>
                   walk[offset[n - m]] = IF NoHookIn(n - m + 1) THEN TRUE ELSE FALSE}
<1> HIDE DEF NoHookIn
<1>2. 0 \in S
  <2>1. offset[n - 0] = Len(data) /\ NoHookIn(n - 0 + 1)
    BY DEF NoHookIn
  <2>2. At(data, walk, Len(data)) = TRUE
    BY <1>0 DEF At
  <2>3. walk[Len(data)] = TRUE
    BY <1>0, <1>1, <2>2
  <2> QED
    BY <2>1, <2>3
<1>3. ASSUME NEW m \in Nat, m \in S PROVE m + 1 \in S
  <2>0. m + 1 \in Nat
    OBVIOUS
  <2> SUFFICES ASSUME m + 1 <= n
               PROVE  walk[offset[n - (m + 1)]] =
                        IF NoHookIn(n - (m + 1) + 1) THEN TRUE ELSE FALSE
    BY <2>0
  <2>1. PICK k \in 1..n : k = n - m
    BY n - m \in 1..n
  <2>2. PICK i \in 0..Len(data) : i = offset[k - 1]
    BY <2>1
  <2>3. /\ offset[k] = i + 4 + length[k] /\ offset[k] \in 0..Len(data)
        /\ U16At(data, i) = type[k] /\ U16At(data, i + 2) = length[k]
        /\ type[k] # 0 /\ length[k] \in Nat
    BY <2>1, <2>2
  <2>4. ~(i + 4 > Len(data)) /\ ~(i + 4 + length[k] > Len(data))
    <3>1. i \in Nat /\ length[k] \in Nat /\ i + 4 + length[k] \in 0..Len(data)
      BY <1>0, <2>2, <2>3
    <3>2. \A a, b, c \in Nat : a + 4 + b \in 0..c => ~(a + 4 > c) /\ ~(a + 4 + b > c)
      OBVIOUS
    <3> QED
      BY <1>0, <3>1, <3>2, Zenon
  <2>5. At(data, walk, i) = IF type[k] \in HookTypes THEN FALSE ELSE walk[offset[k]]
    BY <2>3, <2>4 DEF At, NextEntry
  <2>6. walk[i] = IF type[k] \in HookTypes THEN FALSE ELSE walk[offset[k]]
    BY <1>1, <2>2, <2>5
  <2>7. walk[offset[k]] = IF NoHookIn(k + 1) THEN TRUE ELSE FALSE
    <3>1. m <= n /\ n - m = k /\ n - m + 1 = k + 1
      BY <2>1
    <3> QED
      BY <1>3, <3>1
  <2>8. NoHookIn(k) <=> type[k] \notin HookTypes /\ NoHookIn(k + 1)
    <3>1. \A j \in k..n : j = k \/ j \in (k + 1)..n
      BY <2>1
    <3>2. k \in k..n /\ \A j \in (k + 1)..n : j \in k..n
      BY <2>1
    <3> QED
      BY <3>1, <3>2 DEF NoHookIn
  <2>9. offset[n - (m + 1)] = i /\ n - (m + 1) + 1 = k
    BY <2>1, <2>2
  <2> QED
    BY <2>6, <2>7, <2>8, <2>9
<1>4. n \in S
  <2> HIDE DEF S
  <2> QED
    BY <1>2, <1>3, Induction
<1>5. walk[offset[0]] = IF NoHookIn(1) THEN TRUE ELSE FALSE
  <2>1. n - n = 0 /\ n - n + 1 = 1 /\ n <= n
    OBVIOUS
  <2> QED
    BY <1>4, <2>1
<1> QED
  BY <1>1, <1>5 DEF NoHookIn
-----------------------------------------------------------------------------
(* The extensions, one after the other.                                    *)

\* What FlattenSeq puts together from the first i sequences.
UpTo(seqs, flat, i) == IF i = 1 THEN seqs[i] ELSE flat[i - 1] \o seqs[i]

LEMMA FlatExists ==
  ASSUME NEW seqs, NEW n \in Nat
  PROVE  \E flat : flat = [i \in 1..n |-> UpTo(seqs, flat, i)]
<1> DEFINE S == {k \in Nat : \E f : \A i \in 1..k : f[i] = UpTo(seqs, f, i)}
<1>1. 0 \in S
  OBVIOUS
<1>2. ASSUME NEW k \in Nat, k \in S PROVE k + 1 \in S
  <2>1. PICK f : \A i \in 1..k : f[i] = UpTo(seqs, f, i)
    BY <1>2
  <2> DEFINE g == [i \in 1..(k + 1) |-> IF i = k + 1 THEN UpTo(seqs, f, i) ELSE f[i]]
  <2>2. g[k + 1] = UpTo(seqs, f, k + 1) /\ \A i \in 1..k : g[i] = f[i]
    <3>1. k + 1 \in 1..(k + 1) /\ \A i \in 1..k : i \in 1..(k + 1) /\ i # k + 1
      OBVIOUS
    <3> QED
      BY <3>1
  <2> HIDE DEF g
  <2>3. ASSUME NEW i \in 1..(k + 1) PROVE UpTo(seqs, g, i) = UpTo(seqs, f, i)
    <3>1. CASE i = 1
      BY <3>1 DEF UpTo
    <3>2. CASE i # 1
      <4>1. g[i - 1] = f[i - 1]
        BY <2>2, <3>2, i - 1 \in 1..k
      <4> QED
        BY <3>2, <4>1 DEF UpTo
    <3> QED
      BY <3>1, <3>2
  <2>4. ASSUME NEW i \in 1..(k + 1) PROVE g[i] = UpTo(seqs, g, i)
    <3>1. CASE i = k + 1
      BY <2>2, <2>3, <3>1
    <3>2. CASE i # k + 1
      <4>1. i \in 1..k
        BY <3>2
      <4> QED
        BY <2>1, <2>2, <2>3, <4>1
    <3> QED
      BY <3>1, <3>2
  <2>5. k + 1 \in Nat /\ \A i \in 1..(k + 1) : g[i] = UpTo(seqs, g, i)
    BY <2>4
  <2> QED
    BY <2>5
<1>3. n \in S
  <2> HIDE DEF S
  <2> QED
    BY <1>1, <1>2, Induction
<1>4. PICK f : \A i \in 1..n : f[i] = UpTo(seqs, f, i)
  BY <1>3
<1> DEFINE flat == [i \in 1..n |-> f[i]]
<1>5. ASSUME NEW i \in 1..n PROVE UpTo(seqs, flat, i) = UpTo(seqs, f, i)
  <2>1. CASE i = 1
    BY <2>1 DEF UpTo
  <2>2. CASE i # 1
    <3>1. flat[i - 1] = f[i - 1]
      BY <2>2, i - 1 \in 1..n
    <3> HIDE DEF flat
    <3> QED
      BY <2>2, <3>1 DEF UpTo
  <2> QED
    BY <2>1, <2>2
<1>6. flat = [i \in 1..n |-> UpTo(seqs, flat, i)]
  BY <1>4, <1>5
<1> QED
  BY <1>6

LEMMA FlattenIsFlat ==
  ASSUME NEW seqs, Len(seqs) \in Nat \ {0}
  PROVE  \E flat : /\ \A i \in 1..Len(seqs) : flat[i] = UpTo(seqs, flat, i)
                   /\ FlattenSeq(seqs) = flat[Len(seqs)]
<1> DEFINE flat == CHOOSE f : f = [i \in 1..Len(seqs) |-> UpTo(seqs, f, i)]
<1>1. flat = [i \in 1..Len(seqs) |-> UpTo(seqs, flat, i)]
  BY FlatExists, Zenon
<1>2. FlattenSeq(seqs) = flat[Len(seqs)]
  BY Zenon DEF FlattenSeq, UpTo
<1> HIDE DEF flat
<1>3. \A i \in 1..Len(seqs) : flat[i] = UpTo(seqs, flat, i)
  BY <1>1
<1> QED
  BY <1>2, <1>3

LEMMA JoinedBlocks ==
  ASSUME NEW s \in Seq(Nat), NEW t \in Seq(Nat)
  PROVE  /\ s \o t \in Seq(Nat)
         /\ Len(s) \in Nat /\ Len(t) \in Nat /\ Len(s \o t) = Len(s) + Len(t)
         /\ \A i \in 1..Len(s) : (s \o t)[i] = s[i]
         /\ \A i \in 1..Len(t) : (s \o t)[Len(s) + i] = t[i]
<1>1. Len(s) \in Nat /\ Len(t) \in Nat
  BY LenProperties
<1>2. /\ s \o t \in Seq(Nat) /\ Len(s \o t) = Len(s) + Len(t)
      /\ \A i \in 1..Len(s) + Len(t) :
           (s \o t)[i] = IF i <= Len(s) THEN s[i] ELSE t[i - Len(s)]
  BY ConcatProperties
<1>3. ASSUME NEW i \in 1..Len(s) PROVE (s \o t)[i] = s[i]
  BY <1>1, <1>2, i \in 1..Len(s) + Len(t), i <= Len(s)
<1>4. ASSUME NEW i \in 1..Len(t) PROVE (s \o t)[Len(s) + i] = t[i]
  BY <1>1, <1>2, Len(s) + i \in 1..Len(s) + Len(t), ~(Len(s) + i <= Len(s)),
     (Len(s) + i) - Len(s) = i
<1> QED
  BY <1>1, <1>2, <1>3, <1>4

\* Of three offsets in a row.
LEMMA Within ==
  ASSUME NEW a \in Nat, NEW b \in Nat
  PROVE  /\ a \in 0..(a + b) /\ a + b \in 0..(a + b)
         /\ \A c \in 0..a : c \in 0..(a + b)
         /\ \A c \in 0..a, l \in Nat : c + l \in 0..a => \A j \in 1..l : c + j \in 1..a
OBVIOUS

\* Each sequence stands in what FlattenSeq makes where the ones before it end.
LEMMA FlattenedBlocks ==
  ASSUME NEW seqs, NEW n \in Nat \ {0}, Len(seqs) = n, \A i \in 1..n : seqs[i] \in Seq(Nat)
  PROVE  /\ FlattenSeq(seqs) \in Seq(Nat)
         /\ \E offset \in [0..n -> 0..Len(FlattenSeq(seqs))] :
              /\ offset[0] = 0 /\ offset[n] = Len(FlattenSeq(seqs))
              /\ \A i \in 1..n :
                   /\ offset[i] = offset[i - 1] + Len(seqs[i])
                   /\ \A j \in 1..Len(seqs[i]) :
                        FlattenSeq(seqs)[offset[i - 1] + j] = seqs[i][j]
<1>1. PICK flat : /\ \A i \in 1..n : flat[i] = UpTo(seqs, flat, i)
                  /\ FlattenSeq(seqs) = flat[n]
  BY FlattenIsFlat
<1> DEFINE first == [k \in 0..n |-> IF k = 0 THEN <<>> ELSE flat[k]]
<1>2. /\ first[0] = <<>> /\ first[n] = FlattenSeq(seqs)
      /\ \A k \in 0..n : first[k] \in Seq(Nat) /\ k < n => first[k + 1] = first[k] \o seqs[k + 1]
  <2>1. first[0] = <<>> /\ \A k \in 1..n : first[k] = flat[k]
    OBVIOUS
  <2> HIDE DEF first
  <2>2. ASSUME NEW k \in 0..n, first[k] \in Seq(Nat), k < n
        PROVE  first[k + 1] = first[k] \o seqs[k + 1]
    <3>1. k + 1 \in 1..n
      BY <2>2
    <3>2. first[k + 1] = UpTo(seqs, flat, k + 1)
      BY <1>1, <2>1, <3>1
    <3>3. CASE k = 0
      <4>1. seqs[1] \in Seq(Nat)
        BY <3>1, <3>3
      <4>2. <<>> \o seqs[1] = seqs[1]
        BY <4>1, ConcatEmptySeq
      <4> QED
        BY <2>1, <3>2, <3>3, <4>2, 0 + 1 = 1 DEF UpTo
    <3>4. CASE k # 0
      <4>1. k \in 1..n /\ k + 1 # 1 /\ (k + 1) - 1 = k
        BY <2>2, <3>4
      <4>2. first[k] = flat[k]
        BY <2>1, <4>1
      <4> QED
        BY <3>2, <4>1, <4>2 DEF UpTo
    <3> QED
      BY <3>3, <3>4
  <2>3. first[n] = flat[n]
    BY <2>1, n \in 1..n
  <2>4. \A k \in 0..n :
          first[k] \in Seq(Nat) /\ k < n => first[k + 1] = first[k] \o seqs[k + 1]
    BY <2>2
  <2> QED
    BY <1>1, <2>1, <2>3, <2>4, Zenon
<1> HIDE DEF first
<1> DEFINE offset == [k \in 0..n |-> Len(first[k])]
           Holds(k) ==
             /\ first[k] \in Seq(Nat)
             /\ \A i \in 1..k :
                  /\ offset[i] = offset[i - 1] + Len(seqs[i])
                  /\ offset[i - 1] \in 0..offset[k] /\ offset[i] \in 0..offset[k]
                  /\ \A j \in 1..Len(seqs[i]) : first[k][offset[i - 1] + j] = seqs[i][j]
           S == {k \in Nat : k <= n => Holds(k)}
<1>3. \A k \in 0..n : offset[k] = Len(first[k])
  OBVIOUS
<1>4. 0 \in S
  <2>1. first[0] \in Seq(Nat)
    BY <1>2
  <2> QED
    BY <2>1
<1>5. ASSUME NEW k \in Nat, k \in S PROVE k + 1 \in S
  <2> SUFFICES ASSUME k + 1 <= n PROVE Holds(k + 1)
    BY k + 1 \in Nat
  <2>1. k \in 0..n /\ k + 1 \in 1..n /\ k < n /\ k <= n /\ (k + 1) - 1 = k
    OBVIOUS
  <2>2. Holds(k)
    BY <1>5, <2>1
  <2> HIDE DEF offset
  <2>3. PICK block \in Seq(Nat) : block = seqs[k + 1] /\ first[k + 1] = first[k] \o block
    BY <1>2, <2>1, <2>2, seqs[k + 1] \in Seq(Nat)
  <2>4. /\ first[k + 1] \in Seq(Nat)
        /\ Len(first[k]) \in Nat /\ Len(block) \in Nat
        /\ Len(first[k + 1]) = Len(first[k]) + Len(block)
        /\ \A i \in 1..Len(first[k]) : first[k + 1][i] = first[k][i]
        /\ \A i \in 1..Len(block) : first[k + 1][Len(first[k]) + i] = block[i]
    <3>1. first[k] \in Seq(Nat)
      BY <2>2
    <3> HIDE DEF Holds
    <3>2. PICK s \in Seq(Nat) : s = first[k]
      BY <3>1
    <3>3. first[k + 1] = s \o block
      BY <2>3, <3>2
    <3>4. PICK joined : joined = s \o block
      OBVIOUS
    <3>5. /\ joined \in Seq(Nat)
          /\ Len(s) \in Nat /\ Len(block) \in Nat
          /\ Len(joined) = Len(s) + Len(block)
          /\ \A i \in 1..Len(s) : joined[i] = s[i]
          /\ \A i \in 1..Len(block) : joined[Len(s) + i] = block[i]
      BY <3>4, JoinedBlocks, Zenon
    <3> QED
      BY <3>2, <3>3, <3>4, <3>5, Zenon
  <2>6. offset[k] = Len(first[k]) /\ offset[k + 1] = offset[k] + Len(block)
    <3>1. k \in 0..n /\ k + 1 \in 0..n
      BY <2>1
    <3> HIDE DEF Holds
    <3> QED
      BY <1>3, <2>4, <3>1, Zenon
  <2>5. offset[k] \in Nat
    BY <2>4, <2>6
  <2>7. ASSUME NEW i \in 1..(k + 1)
        PROVE  /\ offset[i] = offset[i - 1] + Len(seqs[i])
               /\ offset[i - 1] \in 0..offset[k + 1] /\ offset[i] \in 0..offset[k + 1]
               /\ \A j \in 1..Len(seqs[i]) : first[k + 1][offset[i - 1] + j] = seqs[i][j]
    <3>1. CASE i = k + 1
      <4>1. i - 1 = k /\ seqs[i] = block
        BY <2>1, <2>3, <3>1
      <4>2. \A j \in 1..Len(block) : first[k + 1][offset[k] + j] = block[j]
        BY <2>4, <2>6
      <4>3. offset[k] \in 0..offset[k + 1] /\ offset[k + 1] \in 0..offset[k + 1]
        BY <2>4, <2>5, <2>6, Within
      <4> QED
        BY <2>6, <3>1, <4>1, <4>2, <4>3, Zenon
    <3>2. CASE i # k + 1
      <4>1. i \in 1..k
        BY <2>1, <3>2
      <4>2. /\ offset[i] = offset[i - 1] + Len(seqs[i])
            /\ offset[i - 1] \in 0..offset[k] /\ offset[i] \in 0..offset[k]
            /\ \A j \in 1..Len(seqs[i]) : first[k][offset[i - 1] + j] = seqs[i][j]
        BY <2>2, <4>1
      <4>3. offset[i - 1] \in 0..offset[k + 1] /\ offset[i] \in 0..offset[k + 1]
        BY <2>4, <2>5, <2>6, <4>2, Within
      <4>4. Len(seqs[i]) \in Nat
        BY <2>1, <4>1, i \in 1..n, LenProperties
      <4>5. \A j \in 1..Len(seqs[i]) : offset[i - 1] + j \in 1..Len(first[k])
        BY <2>4, <2>5, <2>6, <4>2, <4>4, Within
      <4>6. \A j \in 1..Len(seqs[i]) : first[k + 1][offset[i - 1] + j] = seqs[i][j]
        BY <2>4, <4>2, <4>5, Zenon
      <4> QED
        BY <4>2, <4>3, <4>6, Zenon
    <3> QED
      BY <3>1, <3>2, Zenon
  <2> QED
    BY <2>4, <2>7, Zenon
<1>6. Holds(n)
  <2>1. n \in S
    <3> HIDE DEF S
    <3> QED
      BY <1>4, <1>5, Induction
  <2>2. n \in Nat /\ n <= n
    OBVIOUS
  <2> HIDE DEF Holds
  <2> QED
    BY <2>1, <2>2
<1>7. FlattenSeq(seqs) \in Seq(Nat)
  BY <1>2, <1>6
<1>8. offset[0] = 0 /\ offset[n] = Len(FlattenSeq(seqs))
  BY <1>2, <1>3
<1>9. offset \in [0..n -> 0..Len(FlattenSeq(seqs))]
  <2>1. DOMAIN offset = 0..n /\ offset = [k \in 0..n |-> offset[k]]
    OBVIOUS
  <2> HIDE DEF offset
  <2>2. Len(FlattenSeq(seqs)) \in Nat
    BY <1>7, LenProperties
  <2>3. ASSUME NEW k \in 0..n PROVE offset[k] \in 0..Len(FlattenSeq(seqs))
    <3>1. CASE k = 0
      BY <1>8, <2>2, <3>1
    <3>2. CASE k # 0
      BY <1>6, <1>8, <3>2, k \in 1..n
    <3> QED
      BY <3>1, <3>2
  <2> QED
    BY <2>1, <2>3
<1> HIDE DEF offset
<1>10. \A i \in 1..n :
         /\ offset[i] = offset[i - 1] + Len(seqs[i])
         /\ \A j \in 1..Len(seqs[i]) : FlattenSeq(seqs)[offset[i - 1] + j] = seqs[i][j]
  BY <1>2, <1>6
<1> QED
  BY <1>7, <1>8, <1>9, <1>10
-----------------------------------------------------------------------------
(* An account, walked over.                                                *)

LEMMA EntryBytes ==
  ASSUME NEW ext \in Extensions
  PROVE  /\ Entry(ext) \in Seq(Nat) /\ Len(Entry(ext)) = 4 + ext.length
         /\ ext.type \in Nat \ {0} /\ ext.length \in Nat
         /\ Entry(ext)[1] \in Nat /\ Entry(ext)[2] \in Nat
         /\ Entry(ext)[3] \in Nat /\ Entry(ext)[4] \in Nat
         /\ Entry(ext)[1] + 256 * Entry(ext)[2] = ext.type
         /\ Entry(ext)[3] + 256 * Entry(ext)[4] = ext.length
<1> DEFINE header == <<ext.type % 256, ext.type \div 256,
                       ext.length % 256, ext.length \div 256>>
           value == Bytes(ext.length, 170)
<1>1. ext.type \in Nat \ {0} /\ ext.length \in Nat
  <2>1. ext.type \in 1..MaxU16 /\ ext.length \in 0..MaxU16
    BY LayoutAssumption DEF Extensions
  <2> QED
    BY <2>1
<1>2. /\ header \in Seq(Nat) /\ Len(header) = 4
      /\ header[1] \in Nat /\ header[2] \in Nat /\ header[3] \in Nat /\ header[4] \in Nat
      /\ header[1] + 256 * header[2] = ext.type
      /\ header[3] + 256 * header[4] = ext.length
  <2>1. \A n \in Nat : /\ n % 256 \in Nat /\ n \div 256 \in Nat
                       /\ (n % 256) + 256 * (n \div 256) = n
    OBVIOUS
  <2> QED
    BY <1>1, <2>1
<1>3. value \in Seq(Nat) /\ Len(value) = ext.length
  BY <1>1 DEF Bytes
<1>4. Entry(ext) = header \o value
  BY DEF Entry
<1> HIDE DEF header, value
<1>5. PICK joined : joined = header \o value
  OBVIOUS
<1>6. /\ joined \in Seq(Nat) /\ Len(joined) = Len(header) + Len(value)
      /\ \A i \in 1..Len(header) : joined[i] = header[i]
  <2>1. header \in Seq(Nat) /\ value \in Seq(Nat)
    BY <1>2, <1>3
  <2> QED
    BY <1>5, <2>1, JoinedBlocks, Zenon
<1>7. /\ joined[1] = header[1] /\ joined[2] = header[2]
      /\ joined[3] = header[3] /\ joined[4] = header[4]
  BY <1>2, <1>6
<1> QED
  BY <1>1, <1>2, <1>3, <1>4, <1>5, <1>6, <1>7

HeaderAt(data, a, ext) == \A j \in 1..4 : data[a + j] = Entry(ext)[j]

LEMMA U16IsRead ==
  ASSUME NEW data, NEW a \in Nat, NEW ext \in Extensions, HeaderAt(data, a, ext)
  PROVE  U16At(data, a) = ext.type /\ U16At(data, a + 2) = ext.length
<1>1. /\ data[a + 1] + 256 * data[a + 2] = ext.type
      /\ data[a + 3] + 256 * data[a + 4] = ext.length
  <2>1. /\ Entry(ext)[1] + 256 * Entry(ext)[2] = ext.type
        /\ Entry(ext)[3] + 256 * Entry(ext)[4] = ext.length
    BY EntryBytes
  <2>2. /\ data[a + 1] = Entry(ext)[1] /\ data[a + 2] = Entry(ext)[2]
        /\ data[a + 3] = Entry(ext)[3] /\ data[a + 4] = Entry(ext)[4]
    BY DEF HeaderAt
  <2> QED
    BY <2>1, <2>2, Zenon
<1>2. (a + 2) + 1 = a + 3 /\ (a + 2) + 2 = a + 4
  OBVIOUS
<1> QED
  BY <1>1, <1>2 DEF U16At

\* Each extension starts where the one before it ends.
LEMMA TlvPlaces ==
  ASSUME NEW m \in Nat \ {0}, NEW list \in [1..m -> Extensions]
  PROVE  /\ Tlv(list) \in Seq(Nat)
         /\ \E place \in [0..m -> 0..Len(Tlv(list))] :
              /\ place[0] = 0 /\ place[m] = Len(Tlv(list))
              /\ \A i \in 1..m :
                   /\ place[i] = place[i - 1] + 4 + list[i].length
                   /\ \A j \in 1..4 : Tlv(list)[place[i - 1] + j] = Entry(list[i])[j]
<1> DEFINE seqs == [i \in 1..m |-> Entry(list[i])]
<1>1. Tlv(list) = FlattenSeq(seqs) /\ Len(seqs) = m
  BY DEF Tlv
<1>2. \A i \in 1..m : seqs[i] = Entry(list[i]) /\ seqs[i] \in Seq(Nat)
  BY EntryBytes
<1> HIDE DEF seqs
<1>3. FlattenSeq(seqs) \in Seq(Nat)
  BY <1>1, <1>2, FlattenedBlocks
<1>4. PICK place \in [0..m -> 0..Len(FlattenSeq(seqs))] :
        /\ place[0] = 0 /\ place[m] = Len(FlattenSeq(seqs))
        /\ \A i \in 1..m :
             /\ place[i] = place[i - 1] + Len(seqs[i])
             /\ \A j \in 1..Len(seqs[i]) : FlattenSeq(seqs)[place[i - 1] + j] = seqs[i][j]
  BY <1>1, <1>2, FlattenedBlocks, Zenon
<1>5. ASSUME NEW i \in 1..m
      PROVE  /\ place[i] = place[i - 1] + 4 + list[i].length
             /\ \A j \in 1..4 : FlattenSeq(seqs)[place[i - 1] + j] = Entry(list[i])[j]
  <2>0. PICK ext \in Extensions : ext = list[i]
    OBVIOUS
  <2>1. PICK l \in Nat : l = list[i].length /\ Len(seqs[i]) = 4 + l
    <3>1. ext.length \in Nat /\ Len(Entry(ext)) = 4 + ext.length
      BY EntryBytes
    <3> QED
      BY <1>2, <2>0, <3>1
  <2>2. PICK p \in Nat : p = place[i - 1]
    <3>1. Len(FlattenSeq(seqs)) \in Nat /\ i - 1 \in 0..m
      BY <1>3, LenProperties
    <3> QED
      BY <3>1
  <2>3. place[i] = p + Len(seqs[i])
    BY <1>4, <2>2
  <2>4. \A j \in 1..4 : j \in 1..Len(seqs[i])
    <3>1. \A j \in 1..4 : j \in 1..(4 + l)
      OBVIOUS
    <3> QED
      BY <2>1, <3>1, Zenon
  <2>5. p + (4 + l) = p + 4 + l
    OBVIOUS
  <2>6. place[i] = place[i - 1] + 4 + list[i].length
    BY <2>1, <2>2, <2>3, <2>5, Zenon
  <2>7. \A j \in 1..4 : FlattenSeq(seqs)[place[i - 1] + j] = Entry(list[i])[j]
    BY <1>2, <1>4, <2>4, Zenon
  <2> QED
    BY <2>6, <2>7
<1>6. \A i \in 1..m :
        /\ place[i] = place[i - 1] + 4 + list[i].length
        /\ \A j \in 1..4 : FlattenSeq(seqs)[place[i - 1] + j] = Entry(list[i])[j]
  BY <1>5
<1>7. Tlv(list) \in Seq(Nat) /\ Len(Tlv(list)) = Len(FlattenSeq(seqs))
  BY <1>1, <1>3, Zenon
<1>8. \A i \in 1..m : \A j \in 1..4 : Tlv(list)[place[i - 1] + j] = Entry(list[i])[j]
  <2> TAKE i \in 1..m, j \in 1..4
  <2>1. FlattenSeq(seqs)[place[i - 1] + j] = Entry(list[i])[j]
    BY <1>6
  <2> QED
    BY <1>1, <2>1
<1>9. place \in [0..m -> 0..Len(Tlv(list))] /\ place[m] = Len(Tlv(list))
  BY <1>4, <1>7, Zenon
<1> QED
  BY <1>4, <1>6, <1>7, <1>8, <1>9, Zenon

LEMMA HeadBytes ==
  ASSUME NEW n \in Nat, NEW type \in Nat
  PROVE  /\ Bytes(n, 0) \o <<type>> \in Seq(Nat)
         /\ Len(Bytes(n, 0) \o <<type>>) = n + 1
         /\ (Bytes(n, 0) \o <<type>>)[n + 1] = type
         /\ \A i \in 1..n : (Bytes(n, 0) \o <<type>>)[i] = 0
<1>1. PICK zeroes \in Seq(Nat) :
        zeroes = Bytes(n, 0) /\ Len(zeroes) = n /\ \A i \in 1..n : zeroes[i] = 0
  <2>1. /\ Bytes(n, 0) \in Seq(Nat) /\ Len(Bytes(n, 0)) = n
        /\ \A i \in 1..n : Bytes(n, 0)[i] = 0
    BY DEF Bytes
  <2> QED
    BY <2>1
<1>2. PICK one \in Seq(Nat) : one = <<type>> /\ Len(one) = 1 /\ one[1] = type
  <2>1. <<type>> \in Seq(Nat) /\ Len(<<type>>) = 1 /\ <<type>>[1] = type
    OBVIOUS
  <2> QED
    BY <2>1
<1>3. PICK joined : joined = zeroes \o one
  OBVIOUS
<1>4. /\ joined \in Seq(Nat) /\ Len(joined) = Len(zeroes) + Len(one)
      /\ \A i \in 1..Len(zeroes) : joined[i] = zeroes[i]
      /\ \A i \in 1..Len(one) : joined[Len(zeroes) + i] = one[i]
  BY <1>3, JoinedBlocks, Zenon
<1>5. 1 \in 1..Len(one)
  BY <1>2
<1> QED
  BY <1>1, <1>2, <1>3, <1>4, <1>5

\* A base of n zeroes, the account's type, and the extensions.
Laid(n, type, tlv) == Bytes(n, 0) \o <<type>> \o tlv

HasParts(data, n, type, tlv) ==
  /\ data \in Seq(Nat)
  /\ Len(tlv) \in Nat /\ Len(data) = (n + 1) + Len(tlv)
  /\ data[n + 1] = type /\ \A i \in 1..n : data[i] = 0
  /\ \A i \in 1..Len(tlv) : data[(n + 1) + i] = tlv[i]

LEMMA LaidBytes ==
  ASSUME NEW n \in Nat, NEW type \in Nat, NEW tlv \in Seq(Nat)
  PROVE  HasParts(Laid(n, type, tlv), n, type, tlv)
<1>1. PICK head \in Seq(Nat) :
        /\ head = Bytes(n, 0) \o <<type>> /\ Len(head) = n + 1
        /\ head[n + 1] = type /\ \A i \in 1..n : head[i] = 0
  BY HeadBytes
<1>2. PICK data : data = head \o tlv
  OBVIOUS
<1>3. /\ data \in Seq(Nat)
      /\ Len(tlv) \in Nat /\ Len(data) = Len(head) + Len(tlv)
      /\ \A i \in 1..Len(head) : data[i] = head[i]
      /\ \A i \in 1..Len(tlv) : data[Len(head) + i] = tlv[i]
  BY <1>2, JoinedBlocks, Zenon
<1>4. data = Laid(n, type, tlv)
  BY <1>1, <1>2 DEF Laid
<1>5. n + 1 \in 1..Len(head) /\ \A i \in 1..n : i \in 1..Len(head)
  BY <1>1
<1>6. data[n + 1] = type /\ \A i \in 1..n : data[i] = 0
  BY <1>1, <1>3, <1>5
<1>7. HasParts(data, n, type, tlv)
  BY <1>1, <1>3, <1>6 DEF HasParts
<1> QED
  BY <1>4, <1>7

\* Behind n + 1 bytes, an entry at p of l bytes stands n + 1 further on.
ShiftedBy(n, l, p, e) ==
  /\ ((n + 1) + p) + 4 + e = (n + 1) + (p + 4 + e)
  /\ \A j \in 1..4 : p + j \in 1..l /\ ((n + 1) + p) + j = (n + 1) + (p + j)

LEMMA Shifted ==
  ASSUME NEW n \in Nat, NEW l \in Nat, NEW p \in 0..l, NEW e \in Nat, p + 4 + e \in 0..l
  PROVE  ShiftedBy(n, l, p, e)
BY DEF ShiftedBy

\* The walk over an account from the byte after its type finds its hooks.
LEMMA LaidOut ==
  ASSUME NEW n \in Nat, NEW type \in Nat, NEW m \in Nat \ {0},
         NEW list \in [1..m -> Extensions]
  PROVE  /\ AcceptsEntries(Laid(n, type, Tlv(list)), n + 1) \in BOOLEAN
         /\ AcceptsEntries(Laid(n, type, Tlv(list)), n + 1) <=>
              \A k \in 1..m : list[k].type \notin HookTypes
<1>1. Tlv(list) \in Seq(Nat)
  BY TlvPlaces
<1>2. PICK place \in [0..m -> 0..Len(Tlv(list))] :
        /\ place[0] = 0 /\ place[m] = Len(Tlv(list))
        /\ \A i \in 1..m :
             /\ place[i] = place[i - 1] + 4 + list[i].length
             /\ \A j \in 1..4 : Tlv(list)[place[i - 1] + j] = Entry(list[i])[j]
  BY TlvPlaces, Zenon
<1>3. PICK data \in Seq(Nat) :
        /\ data = Laid(n, type, Tlv(list))
        /\ Len(Tlv(list)) \in Nat /\ Len(data) = (n + 1) + Len(Tlv(list))
        /\ \A i \in 1..Len(Tlv(list)) : data[(n + 1) + i] = Tlv(list)[i]
  <2>1. PICK tlv \in Seq(Nat) : tlv = Tlv(list)
    BY <1>1
  <2>2. HasParts(Laid(n, type, tlv), n, type, tlv)
    BY LaidBytes, Zenon
  <2>3. /\ Laid(n, type, tlv) \in Seq(Nat)
        /\ Len(tlv) \in Nat /\ Len(Laid(n, type, tlv)) = (n + 1) + Len(tlv)
        /\ \A i \in 1..Len(tlv) : Laid(n, type, tlv)[(n + 1) + i] = tlv[i]
    BY <2>2 DEF HasParts
  <2> QED
    BY <2>1, <2>3, Zenon
<1> DEFINE offset == [k \in 0..m |-> (n + 1) + place[k]]
           types == [k \in 1..m |-> list[k].type]
           lengths == [k \in 1..m |-> list[k].length]
<1>4. \A k \in 0..m : place[k] \in 0..Len(Tlv(list)) /\ offset[k] = (n + 1) + place[k]
  OBVIOUS
<1>5. \A k \in 1..m : types[k] = list[k].type /\ lengths[k] = list[k].length
  OBVIOUS
<1>6. offset = [k \in 0..m |-> offset[k]]
  OBVIOUS
<1> HIDE DEF types, lengths, offset
<1>7. \A l, p \in Nat : p \in 0..l => (n + 1) + p \in 0..((n + 1) + l)
  OBVIOUS
<1>8. /\ offset \in [0..m -> 0..Len(data)]
      /\ offset[0] = n + 1 /\ offset[m] = Len(data)
  <2>1. ASSUME NEW k \in 0..m PROVE offset[k] \in 0..Len(data)
    <3>1. place[k] \in Nat
      BY <1>3, <1>4
    <3>2. Len(Tlv(list)) \in Nat /\ place[k] \in 0..Len(Tlv(list))
      BY <1>3, <1>4, Zenon
    <3>3. (n + 1) + place[k] \in 0..((n + 1) + Len(Tlv(list)))
      BY <1>7, <3>1, <3>2, Zenon
    <3> QED
      BY <1>3, <1>4, <3>3, Zenon
  <2>2. offset[0] = n + 1 /\ offset[m] = Len(data)
    <3>1. 0 \in 0..m /\ m \in 0..m /\ (n + 1) + 0 = n + 1
      OBVIOUS
    <3> QED
      BY <1>2, <1>3, <1>4, <3>1, Zenon
  <2> QED
    BY <1>6, <2>1, <2>2
<1>9. ASSUME NEW k \in 1..m
      PROVE  /\ types[k] \in Nat \ {0} /\ lengths[k] \in Nat
             /\ offset[k] = offset[k - 1] + 4 + lengths[k]
             /\ U16At(data, offset[k - 1]) = types[k]
             /\ U16At(data, offset[k - 1] + 2) = lengths[k]
  <2>1. PICK ext \in Extensions : ext = list[k] /\ types[k] = ext.type /\ lengths[k] = ext.length
    BY <1>5
  <2>2. ext.type \in Nat \ {0} /\ ext.length \in Nat
    BY EntryBytes
  <2>3. k - 1 \in 0..m /\ k \in 0..m
    OBVIOUS
  <2>4. PICK p \in 0..Len(Tlv(list)) : p = place[k - 1]
    BY <1>4, <2>3
  <2>5. offset[k - 1] = (n + 1) + p /\ offset[k] = (n + 1) + place[k]
    BY <1>4, <2>3, <2>4
  <2>6. /\ place[k] = p + 4 + ext.length /\ place[k] \in 0..Len(Tlv(list))
        /\ \A j \in 1..4 : Tlv(list)[p + j] = Entry(ext)[j]
    BY <1>2, <1>4, <2>1, <2>3, <2>4, Zenon
  <2>7. p + 4 + ext.length \in 0..Len(Tlv(list)) /\ ext.length \in Nat
    BY <2>2, <2>6
  <2>8. /\ ((n + 1) + p) + 4 + ext.length = (n + 1) + (p + 4 + ext.length)
        /\ \A j \in 1..4 : p + j \in 1..Len(Tlv(list)) /\ ((n + 1) + p) + j = (n + 1) + (p + j)
    <3>1. PICK l \in Nat : l = Len(Tlv(list))
      BY <1>3, Zenon
    <3>2. p \in 0..l /\ p + 4 + ext.length \in 0..l
      BY <2>7, <3>1, Zenon
    <3>3. /\ ((n + 1) + p) + 4 + ext.length = (n + 1) + (p + 4 + ext.length)
          /\ \A j \in 1..4 : p + j \in 1..l /\ ((n + 1) + p) + j = (n + 1) + (p + j)
      <4>1. ShiftedBy(n, l, p, ext.length)
        BY <2>7, <3>2, Shifted, Zenon
      <4> QED
        BY <4>1 DEF ShiftedBy
    <3> QED
      BY <3>1, <3>3, Zenon
  <2>9. \A j \in 1..4 : data[((n + 1) + p) + j] = Entry(ext)[j]
    BY <1>3, <2>6, <2>8, Zenon
  <2>10. (n + 1) + p \in Nat
    BY <1>3, <2>4
  <2>11. U16At(data, (n + 1) + p) = ext.type /\ U16At(data, (n + 1) + p + 2) = ext.length
    <3>1. PICK a \in Nat : a = (n + 1) + p
      BY <2>10, Zenon
    <3>2. HeaderAt(data, a, ext)
      BY <2>9, <3>1, Zenon DEF HeaderAt
    <3>3. U16At(data, a) = ext.type /\ U16At(data, a + 2) = ext.length
      BY <3>2, U16IsRead, Zenon
    <3> QED
      BY <3>1, <3>3, Zenon
  <2> QED
    BY <2>1, <2>2, <2>5, <2>6, <2>8, <2>11, Zenon
<1>10. /\ AcceptsEntries(data, offset[0]) \in BOOLEAN
       /\ AcceptsEntries(data, offset[0]) <=> \A k \in 1..m : types[k] \notin HookTypes
  <2>1. m \in Nat
    OBVIOUS
  <2>2. \A k \in 1..m : /\ types[k] \in Nat \ {0} /\ lengths[k] \in Nat
                         /\ offset[k] = offset[k - 1] + 4 + lengths[k]
                         /\ U16At(data, offset[k - 1]) = types[k]
                         /\ U16At(data, offset[k - 1] + 2) = lengths[k]
    BY <1>9
  <2>3. Entries(data, m, types, lengths, offset)
    BY <1>8, <2>2, Zenon DEF Entries
  <2> QED
    BY <2>1, <2>3, WalkOverEntries, Zenon
<1> QED
  BY <1>3, <1>5, <1>8, <1>10, Zenon

\* The walk starts right after the account's type, whether the account is
\* padded to the length of a multisig or not at all.
LEMMA StartIsAfterType ==
  ASSUME NEW k \in Kinds, NEW n \in {BaseLen(k), MultisigLen}, NEW tlv \in Seq(Nat)
  PROVE  LET data == Laid(n, AccountType(k), tlv)
         IN  ~(Len(data) <= BaseLen(k)) /\ TlvStart(data, BaseLen(k)) = n + 1
<1>1. PICK base \in {82, 165} : base = BaseLen(k)
  BY DEF Kinds, BaseLen, MintLen, TokenAccountLen
<1>2. PICK type \in {1, 2} : type = AccountType(k)
  BY DEF AccountType
<1>3. n \in Nat /\ n \in {base, 355}
  BY <1>1 DEF MultisigLen
<1>4. PICK data : data = Laid(n, type, tlv)
  OBVIOUS
<1>5. /\ Len(tlv) \in Nat /\ Len(data) = (n + 1) + Len(tlv)
      /\ data[n + 1] = type /\ \A i \in 1..n : data[i] = 0
  <2>1. type \in Nat
    OBVIOUS
  <2>2. HasParts(data, n, type, tlv)
    BY <1>3, <1>4, <2>1, LaidBytes
  <2> QED
    BY <2>2 DEF HasParts
<1>6. ~(Len(data) <= base)
  BY <1>3, <1>5
<1>7. TlvStart(data, base) = n + 1
  <2>1. CASE n = base
    <3>1. base \in base..(MultisigLen - 1) /\ data[base + 1] # 0
      BY <1>5, <2>1 DEF MultisigLen
    <3>2. ~Padded(data, base)
      BY <3>1 DEF Padded
    <3> QED
      BY <2>1, <3>2 DEF TlvStart
  <2>2. CASE n = 355
    <3>1. Len(data) > MultisigLen /\ base < MultisigLen
      <4>1. \A l \in Nat : (355 + 1) + l > 355
        OBVIOUS
      <4>2. Len(data) = (355 + 1) + Len(tlv) /\ Len(tlv) \in Nat
        BY <1>5, <2>2
      <4>3. base < 355
        OBVIOUS
      <4> QED
        BY <4>1, <4>2, <4>3 DEF MultisigLen
    <3>2. \A i \in base..(MultisigLen - 1) : i + 1 \in 1..n
      BY <2>2 DEF MultisigLen
    <3>3. Padded(data, base)
      BY <1>5, <3>1, <3>2 DEF Padded
    <3> QED
      BY <2>2, <3>3 DEF TlvStart, MultisigLen
  <2> QED
    BY <1>3, <2>1, <2>2
<1> QED
  BY <1>1, <1>2, <1>4, <1>6, <1>7

\* What reject_if_transfer_hook() answers, in the layouts of its comment.
Commented == layout # "token-2022" \/ kind = "account"
Answer == RejectIfTransferHook(Account(layout, kind, exts), BaseLen(kind))

LEMMA AnswerIsRight ==
  ASSUME layout \in Layouts, kind \in Kinds, exts \in ExtensionLists, Commented
  PROVE  Answer <=> ~HasHook
<1>1. CASE exts = <<>>
  <2>1. BaseLen(kind) \in Nat
    BY DEF BaseLen, MintLen, TokenAccountLen
  <2>2. Len(Bytes(BaseLen(kind), 0)) = BaseLen(kind)
    BY <2>1 DEF Bytes
  <2>3. Account(layout, kind, exts) = Bytes(BaseLen(kind), 0)
    BY <1>1 DEF Account
  <2>4. Answer
    BY <2>1, <2>2, <2>3 DEF Answer, RejectIfTransferHook
  <2>5. ~HasHook
    BY <1>1 DEF HasHook
  <2> QED
    BY <2>4, <2>5
<1>2. CASE exts # <<>>
  <2>1. PICK m \in Nat \ {0} : exts \in [1..m -> Extensions]
    <3>1. PICK m \in 0..MaxExtensions : exts \in [1..m -> Extensions]
      BY DEF ExtensionLists
    <3>2. m # 0
      BY <1>2, <3>1
    <3>3. m \in Nat
      BY LayoutAssumption
    <3> QED
      BY <3>1, <3>2, <3>3
  <2>2. PICK n \in {BaseLen(kind), MultisigLen} : n = PaddedTo(layout, kind)
    BY DEF Layouts, Kinds, PaddedTo, BaseLen, Commented
  <2>3. n \in Nat /\ AccountType(kind) \in Nat
    BY DEF BaseLen, MintLen, TokenAccountLen, MultisigLen, AccountType
  <2>4. PICK tlv \in Seq(Nat) : tlv = Tlv(exts)
    BY <2>1, TlvPlaces
  <2>5. PICK data : data = Laid(n, AccountType(kind), tlv)
    OBVIOUS
  <2>6. Account(layout, kind, exts) = data
    BY <1>2, <2>2, <2>4, <2>5 DEF Account, Laid
  <2>7. ~(Len(data) <= BaseLen(kind)) /\ TlvStart(data, BaseLen(kind)) = n + 1
    BY <2>5, StartIsAfterType
  <2>8. Answer = AcceptsEntries(data, n + 1)
    BY <2>6, <2>7 DEF Answer, RejectIfTransferHook
  <2>9. AcceptsEntries(data, n + 1) <=> \A k \in 1..m : exts[k].type \notin HookTypes
    BY <2>1, <2>3, <2>4, <2>5, LaidOut
  <2>10. DOMAIN exts = 1..m
    BY <2>1
  <2> QED
    BY <2>8, <2>9, <2>10 DEF HasHook
<1> QED
  BY <1>1, <1>2

\* The verdict is the function's answer.
VerdictInv ==
  /\ layout \in Layouts /\ kind \in Kinds /\ exts \in ExtensionLists
  /\ verdict = "accepted" => Answer
  /\ verdict = "refused" => ~Answer

LEMMA VerdictInvStep == VerdictInv /\ [Next]_vars => VerdictInv'
<1> SUFFICES ASSUME VerdictInv, [Next]_vars PROVE VerdictInv'
  OBVIOUS
<1>1. UNCHANGED <<layout, kind, exts>>
  BY DEF Next, Inspect, vars
<1>2. Answer' = Answer
  BY <1>1 DEF Answer, Account, PaddedTo
<1>3. (verdict' = "accepted" => Answer) /\ (verdict' = "refused" => ~Answer)
  BY DEF VerdictInv, Next, Inspect, vars, Answer
<1> QED
  BY <1>1, <1>2, <1>3 DEF VerdictInv

\* In the layouts that the comment of reject_if_transfer_hook() describes, the
\* walk refuses an account exactly if there is a transfer hook among its
\* extensions, however many they are and however long.
THEOREM HooksAreFound == Spec => []HooksAreRefused
<1>1. Init => VerdictInv
  BY DEF Init, VerdictInv
<1>2. VerdictInv => HooksAreRefused
  BY AnswerIsRight DEF VerdictInv, HooksAreRefused, Commented
<1> QED
  BY <1>1, <1>2, VerdictInvStep, PTL DEF Spec
-----------------------------------------------------------------------------
(* A mint the way Token-2022 lays it out, padded to 165 bytes.             *)

\* The walk starts in the padding, and takes four zeroes for the end.
LEMMA WalkStopsInPadding ==
  ASSUME NEW data \in Seq(Nat), Len(data) > TokenAccountLen,
         data[TokenAccountLen + 1] # 0, \A i \in 1..TokenAccountLen : data[i] = 0
  PROVE  AcceptsEntries(data, TlvStart(data, MintLen))
<1>1. Len(data) \in Nat /\ Len(data) > 165
  BY LenProperties DEF TokenAccountLen
<1>2. ~Padded(data, MintLen)
  <2>1. TokenAccountLen \in MintLen..(MultisigLen - 1)
    BY DEF TokenAccountLen, MintLen, MultisigLen
  <2> QED
    BY <2>1 DEF Padded
<1>3. TlvStart(data, MintLen) = 83
  BY <1>2 DEF TlvStart, MintLen
<1>4. PICK walk : /\ \A i \in 0..Len(data) : walk[i] = At(data, walk, i)
                  /\ \A start : AcceptsEntries(data, start) = walk[start]
  BY WalkIsAtEveryOffset
<1>5. 83 \in 0..Len(data) /\ ~(83 + 4 > Len(data)) /\ ~(83 + 4 + 0 > Len(data))
  BY <1>1
<1>6. U16At(data, 83) = 0 /\ U16At(data, 83 + 2) = 0
  <2>1. data[84] = 0 /\ data[85] = 0 /\ data[86] = 0 /\ data[87] = 0
    BY DEF TokenAccountLen
  <2> QED
    BY <2>1 DEF U16At
<1>7. At(data, walk, 83) = TRUE
  BY <1>5, <1>6 DEF At, HookTypes, TransferHook, TransferHookAccount
<1> QED
  BY <1>3, <1>4, <1>5, <1>7

LEMMA Token2022MintAnswer ==
  ASSUME layout = "token-2022", kind = "mint", exts \in ExtensionLists
  PROVE  Answer
<1>1. CASE exts = <<>>
  <2>1. BaseLen(kind) \in Nat
    BY DEF BaseLen, MintLen, TokenAccountLen
  <2>2. Len(Bytes(BaseLen(kind), 0)) = BaseLen(kind)
    BY <2>1 DEF Bytes
  <2>3. Account(layout, kind, exts) = Bytes(BaseLen(kind), 0)
    BY <1>1 DEF Account
  <2> QED
    BY <2>1, <2>2, <2>3 DEF Answer, RejectIfTransferHook
<1>2. CASE exts # <<>>
  <2>1. PICK m \in Nat \ {0} : exts \in [1..m -> Extensions]
    <3>1. PICK m \in 0..MaxExtensions : exts \in [1..m -> Extensions]
      BY DEF ExtensionLists
    <3>2. m # 0 /\ m \in Nat
      BY <1>2, <3>1, LayoutAssumption
    <3> QED
      BY <3>1, <3>2
  <2>2. PICK tlv \in Seq(Nat) : tlv = Tlv(exts)
    BY <2>1, TlvPlaces
  <2>3. PICK data : data = Laid(165, 1, tlv)
    OBVIOUS
  <2>4. Account(layout, kind, exts) = data
    BY <1>2, <2>2, <2>3 DEF Account, Laid, PaddedTo, TokenAccountLen, AccountType
  <2>5. HasParts(data, 165, 1, tlv)
    BY <2>2, <2>3, LaidBytes
  <2>6. /\ data \in Seq(Nat) /\ Len(data) > TokenAccountLen
        /\ data[TokenAccountLen + 1] # 0 /\ \A i \in 1..TokenAccountLen : data[i] = 0
    BY <2>5 DEF HasParts, TokenAccountLen
  <2>7. AcceptsEntries(data, TlvStart(data, MintLen))
    BY <2>6, WalkStopsInPadding
  <2>8. ~(Len(data) <= MintLen)
    BY <2>6, LenProperties DEF TokenAccountLen, MintLen
  <2> QED
    BY <2>4, <2>7, <2>8 DEF Answer, RejectIfTransferHook, BaseLen
<1> QED
  BY <1>1, <1>2

\* No mint that Token-2022 makes is refused, whatever its extensions and their
\* lengths: the transfer-hook check of spl_token.rs says nothing about mints.
THEOREM Token2022MintsAreNeverRefused ==
  Spec => [](layout = "token-2022" /\ kind = "mint" => verdict # "refused")
<1>1. Init => VerdictInv
  BY DEF Init, VerdictInv
<1>2. VerdictInv => (layout = "token-2022" /\ kind = "mint" => verdict # "refused")
  BY Token2022MintAnswer DEF VerdictInv
<1> QED
  BY <1>1, <1>2, VerdictInvStep, PTL DEF Spec
============================================================================
