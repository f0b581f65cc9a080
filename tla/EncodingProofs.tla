---------------------------- MODULE EncodingProofs ----------------------------
(***************************************************************************)
(* Theorems about the bytes that are signed, for words, keys and lengths   *)
(* of any size and any number of edits on the way.                         *)
(***************************************************************************)
EXTENDS SignedBundle, SequenceTheorems, TLAPS

\* Four words, and five.
Quads == {s \in Seq(Nat) : Len(s) = 4}
Bodies == {s \in Seq(Nat) : Len(s) = 5}

LEMMA WordFacts ==
  /\ Numbers \subseteq Nat /\ 0..(Byte - 1) \subseteq Nat
  /\ RecoveryOps \subseteq 0..(Byte - 1) /\ Byte \in Nat \ {0}
BY EncodingAssumption DEF Words, RecoveryOps

LEMMA KeysAreQuads == Keys \subseteq Quads /\ ZeroKey \in Quads
<1>1. Keys \subseteq Quads
  <2> SUFFICES ASSUME NEW k \in Keys PROVE k \in Quads
    OBVIOUS
  <2>1. k \in Seq(Words) /\ Len(k) = 4
    BY EncodingAssumption
  <2>2. Words \subseteq Nat
    BY DEF Words
  <2>3. \A i \in 1..4 : k[i] \in Words
    BY <2>1, ElementOfSeq
  <2>4. k = [i \in 1..4 |-> k[i]]
    BY <2>1, LenProperties
  <2>5. k \in Seq(Nat)
    BY <2>2, <2>3, <2>4, <2>1
  <2> QED
    BY <2>1, <2>5 DEF Quads
<1>2. ZeroKey \in Quads
  BY DEF ZeroKey, Quads
<1> QED
  BY <1>1, <1>2

\* A concatenation holds the words of the first part, then those of the second.
IsJoin(r, s, t) ==
  /\ Len(r) = Len(s) + Len(t)
  /\ \A k \in 1..Len(s) : r[k] = s[k]
  /\ \A k \in 1..Len(t) : r[Len(s) + k] = t[k]

LEMMA Concatenated ==
  ASSUME NEW S, NEW s \in Seq(S), NEW t \in Seq(S), NEW r, r = s \o t
  PROVE  r \in Seq(S) /\ IsJoin(r, s, t)
<1>1. Len(s) \in Nat /\ Len(t) \in Nat
  BY LenProperties
<1>2. /\ r \in Seq(S) /\ Len(r) = Len(s) + Len(t)
      /\ \A k \in 1..(Len(s) + Len(t)) :
           r[k] = IF k <= Len(s) THEN s[k] ELSE t[k - Len(s)]
  BY ConcatProperties, Zenon
<1>3. ASSUME NEW k \in 1..Len(s) PROVE r[k] = s[k]
  <2>1. k \in 1..(Len(s) + Len(t)) /\ k <= Len(s)
    BY <1>1
  <2> QED
    BY <1>2, <2>1, Zenon
<1>4. ASSUME NEW k \in 1..Len(t) PROVE r[Len(s) + k] = t[k]
  <2>1. /\ Len(s) + k \in 1..(Len(s) + Len(t)) /\ ~(Len(s) + k <= Len(s))
        /\ (Len(s) + k) - Len(s) = k
    BY <1>1
  <2> QED
    BY <1>2, <2>1, Zenon
<1> QED
  BY <1>2, <1>3, <1>4, Zenon DEF IsJoin

\* A key and a word, in either order, make a body that gives both back.
LEMMA Joined ==
  ASSUME NEW k \in Quads, NEW u \in Seq(Nat), Len(u) = 1
  PROVE  /\ k \o u \in Bodies /\ u \o k \in Bodies
         /\ \A i \in 1..4 : (k \o u)[i] = k[i] /\ (u \o k)[i + 1] = k[i]
         /\ (k \o u)[5] = u[1] /\ (u \o k)[1] = u[1]
<1>1. k \in Seq(Nat) /\ Len(k) = 4
  BY DEF Quads
<1>2. /\ k \o u \in Seq(Nat) /\ Len(k \o u) = Len(k) + Len(u)
      /\ \A i \in 1..(Len(k) + Len(u)) :
           (k \o u)[i] = IF i <= Len(k) THEN k[i] ELSE u[i - Len(k)]
  BY <1>1, ConcatProperties
<1>3. /\ u \o k \in Seq(Nat) /\ Len(u \o k) = Len(u) + Len(k)
      /\ \A i \in 1..(Len(u) + Len(k)) :
           (u \o k)[i] = IF i <= Len(u) THEN u[i] ELSE k[i - Len(u)]
  BY <1>1, ConcatProperties
<1>4. Len(k \o u) = 5 /\ Len(u \o k) = 5
  BY <1>1, <1>2, <1>3
<1>5. k \o u \in Bodies /\ u \o k \in Bodies
  BY <1>2, <1>3, <1>4 DEF Bodies
<1>6. \A i \in 1..4 : (k \o u)[i] = k[i]
  <2> TAKE i \in 1..4
  <2>1. i \in 1..(Len(k) + Len(u)) /\ i <= Len(k)
    BY <1>1
  <2> QED
    BY <1>2, <2>1
<1>7. \A i \in 1..4 : (u \o k)[i + 1] = k[i]
  <2> TAKE i \in 1..4
  <2>1. i + 1 \in 1..(Len(u) + Len(k)) /\ ~(i + 1 <= Len(u)) /\ i + 1 - Len(u) = i
    BY <1>1
  <2> QED
    BY <1>3, <2>1
<1>8. (k \o u)[5] = u[1]
  <2>1. 5 \in 1..(Len(k) + Len(u)) /\ ~(5 <= Len(k)) /\ 5 - Len(k) = 1
    BY <1>1
  <2> QED
    BY <1>2, <2>1
<1>9. (u \o k)[1] = u[1]
  BY <1>1, <1>3
<1> QED
  BY <1>5, <1>6, <1>7, <1>8, <1>9

LEMMA Halves ==
  ASSUME NEW k \in Quads, NEW w \in Nat
  PROVE  /\ k \o <<w>> \in Bodies /\ <<w>> \o k \in Bodies
         /\ \A i \in 1..4 : (k \o <<w>>)[i] = k[i] /\ (<<w>> \o k)[i + 1] = k[i]
         /\ (k \o <<w>>)[5] = w /\ (<<w>> \o k)[1] = w
<1>1. PICK u : u = <<w>>
  OBVIOUS
<1>2. u \in Seq(Nat) /\ Len(u) = 1 /\ u[1] = w
  BY <1>1
<1>3. /\ k \o u \in Bodies /\ u \o k \in Bodies
      /\ \A i \in 1..4 : (k \o u)[i] = k[i] /\ (u \o k)[i + 1] = k[i]
      /\ (k \o u)[5] = u[1] /\ (u \o k)[1] = u[1]
  BY <1>2, Joined
<1> QED
  BY <1>1, <1>2, <1>3, Zenon

LEMMA QuadEqual ==
  ASSUME NEW s \in Quads, NEW t \in Quads, \A i \in 1..4 : s[i] = t[i]
  PROVE  s = t
BY SeqEqual, Zenon DEF Quads

\* The two parts of a body.
LEMMA Parts ==
  ASSUME NEW b \in Bodies
  PROVE  /\ SubSeq(b, 1, 4) \in Quads /\ SubSeq(b, 2, 5) \in Quads
         /\ \A i \in 1..4 : SubSeq(b, 1, 4)[i] = b[i] /\ SubSeq(b, 2, 5)[i] = b[i + 1]
         /\ \A i \in 1..5 : b[i] \in Nat
<1>1. \A i \in 1..5 : b[i] \in Nat
  BY ElementOfSeq DEF Bodies
<1>2. /\ SubSeq(b, 1, 4) \in Seq(Nat) /\ Len(SubSeq(b, 1, 4)) = 4
      /\ \A i \in 1..4 : SubSeq(b, 1, 4)[i] = b[i]
  BY <1>1, SubSeqProperties
<1>3. /\ SubSeq(b, 2, 5) \in Seq(Nat) /\ Len(SubSeq(b, 2, 5)) = 4
      /\ \A i \in 1..4 : SubSeq(b, 2, 5)[i] = b[i + 1]
  BY <1>1, SubSeqProperties
<1> QED
  BY <1>1, <1>2, <1>3 DEF Quads

\* The words before a body, and the body, of a preimage and of a fragment.
LEMMA PreimageWords ==
  ASSUME NEW i, ActionBody(i.action) \in Bodies
  PROVE  /\ Preimage(i)[1] = i.vault /\ Preimage(i)[2] = i.nonce
         /\ Preimage(i)[3] = i.expiry /\ Preimage(i)[4] = i.action.tag
         /\ \A k \in 1..5 : Preimage(i)[4 + k] = ActionBody(i.action)[k]
<1>1. PICK b : b = ActionBody(i.action)
  OBVIOUS
<1>2. PICK S : S = Nat \cup {i.vault, i.nonce, i.expiry, i.action.tag}
  OBVIOUS
<1>3. PICK h : h = <<i.vault, i.nonce, i.expiry, i.action.tag>>
  OBVIOUS
<1>4. /\ h \in Seq(S) /\ Len(h) = 4
      /\ h[1] = i.vault /\ h[2] = i.nonce /\ h[3] = i.expiry /\ h[4] = i.action.tag
  BY <1>2, <1>3
<1>5. b \in Seq(S) /\ Len(b) = 5
  <2>1. Nat \subseteq S /\ b \in Seq(Nat) /\ Len(b) = 5
    BY <1>1, <1>2 DEF Bodies
  <2> QED
    BY <2>1, SeqMonotonic
<1>6. PICK s : s = h \o b
  OBVIOUS
<1>7. (\A k \in 1..4 : s[k] = h[k]) /\ (\A k \in 1..5 : s[4 + k] = b[k])
  <2>1. IsJoin(s, h, b)
    BY <1>4, <1>5, <1>6, Concatenated, Zenon
  <2> QED
    BY <1>4, <1>5, <2>1 DEF IsJoin
<1>9. Preimage(i) = s
  BY <1>1, <1>3, <1>6, Zenon DEF Preimage
<1>10. 1 \in 1..4 /\ 2 \in 1..4 /\ 3 \in 1..4 /\ 4 \in 1..4
  OBVIOUS
<1>11. /\ Preimage(i)[1] = i.vault /\ Preimage(i)[2] = i.nonce
       /\ Preimage(i)[3] = i.expiry /\ Preimage(i)[4] = i.action.tag
  BY <1>4, <1>7, <1>9, <1>10, Zenon
<1> QED
  BY <1>1, <1>7, <1>9, <1>11, Zenon

Fragments == {s \in Seq(Nat) : Len(s) = 7}

LEMMA FragmentWords ==
  ASSUME NEW i, i.expiry \in Nat, i.action.tag \in Nat, ActionBody(i.action) \in Bodies
  PROVE  /\ Encode(i) \in Fragments
         /\ Encode(i)[1] = i.expiry /\ Encode(i)[2] = i.action.tag
         /\ \A k \in 1..5 : Encode(i)[2 + k] = ActionBody(i.action)[k]
<1>1. PICK b : b = ActionBody(i.action)
  OBVIOUS
<1>2. PICK h : h = <<i.expiry, i.action.tag>>
  OBVIOUS
<1>3. h \in Seq(Nat) /\ Len(h) = 2 /\ h[1] = i.expiry /\ h[2] = i.action.tag
  BY <1>2
<1>4. b \in Seq(Nat) /\ Len(b) = 5
  BY <1>1 DEF Bodies
<1>5. PICK s : s = h \o b
  OBVIOUS
<1>6. /\ s \in Seq(Nat) /\ Len(s) = 2 + 5
      /\ (\A k \in 1..2 : s[k] = h[k]) /\ (\A k \in 1..5 : s[2 + k] = b[k])
  <2>1. s \in Seq(Nat) /\ IsJoin(s, h, b)
    BY <1>3, <1>4, <1>5, Concatenated, Zenon
  <2> QED
    BY <1>3, <1>4, <2>1 DEF IsJoin
<1>7. Encode(i) = s
  BY <1>1, <1>2, <1>5, Zenon DEF Encode
<1>8. s[1] = i.expiry /\ s[2] = i.action.tag
  <2>1. 1 \in 1..2 /\ 2 \in 1..2
    OBVIOUS
  <2> QED
    BY <1>3, <1>6, <2>1, Zenon
<1>9. s \in Fragments
  BY <1>6 DEF Fragments
<1> QED
  BY <1>1, <1>6, <1>7, <1>8, <1>9, Zenon

\* The body that a fragment carries.
LEMMA FragmentBody ==
  ASSUME NEW f \in Fragments
  PROVE  /\ SubSeq(f, 3, 7) \in Bodies
         /\ \A i \in 1..5 : SubSeq(f, 3, 7)[i] = f[2 + i]
         /\ f[1] \in Nat /\ f[2] \in Nat
<1>1. \A i \in 1..7 : f[i] \in Nat
  BY ElementOfSeq DEF Fragments
<1>2. /\ SubSeq(f, 3, 7) \in Seq(Nat) /\ Len(SubSeq(f, 3, 7)) = 5
      /\ \A i \in 1..5 : SubSeq(f, 3, 7)[i] = f[3 + i - 1]
  BY <1>1, SubSeqProperties
<1> QED
  BY <1>1, <1>2 DEF Bodies

LEMMA BodyEqual ==
  ASSUME NEW s \in Bodies, NEW t \in Bodies, \A i \in 1..5 : s[i] = t[i]
  PROVE  s = t
BY SeqEqual, Zenon DEF Bodies
-----------------------------------------------------------------------------
\* What the decoder may return, errors apart.
Decodable ==
  [tag: KeyNumberTags, key: Quads, number: Nat]
    \cup [tag: KeyTags, key: Quads]
    \cup [tag: {ChangePolicyTag}, byte: Nat, number: Nat]
    \cup [tag: {RecoverAccountTag}, byte: Nat, key: Quads]
    \cup [tag: {CancelTag}]

LEMMA ActionsAreDecodable == Actions \subseteq Decodable
<1>1. Keys \subseteq Quads /\ Numbers \subseteq Nat /\ 0..(Byte - 1) \subseteq Nat
      /\ RecoveryOps \subseteq Nat
  BY KeysAreQuads, WordFacts
<1> QED
  BY <1>1 DEF Actions, Decodable

LEMMA FromWireDecodes ==
  ASSUME NEW t \in Nat, NEW b \in Bodies
  PROVE  FromWire(t, b) \in Decodable \cup {Malformed}
<1>1. /\ SubSeq(b, 1, 4) \in Quads /\ SubSeq(b, 2, 5) \in Quads
      /\ b[1] \in Nat /\ b[2] \in Nat /\ b[5] \in Nat
  BY Parts
<1>2. b[1] % Byte \in Nat /\ b[NumberAt(t)] \in Nat
  BY <1>1, WordFacts DEF NumberAt
<1> QED
  BY <1>1, <1>2 DEF FromWire, Decodable, Malformed

LEMMA BodiesOfActions ==
  ASSUME NEW a \in Decodable
  PROVE  ActionBody(a) \in Bodies
<1> USE DEF KeyNumberTags, KeyTags, ChangePolicyTag, RecoverAccountTag, CancelTag
<1>1. CASE a \in [tag: KeyNumberTags, key: Quads, number: Nat]
  <2>1. a.key \o <<a.number>> \in Bodies
    BY <1>1, Halves
  <2> QED
    BY <1>1, <2>1 DEF ActionBody
<1>2. CASE a \in [tag: KeyTags, key: Quads]
  <2>1. a.key \o <<0>> \in Bodies
    BY <1>2, Halves
  <2> QED
    BY <1>2, <2>1 DEF ActionBody
<1>3. CASE a \in [tag: {ChangePolicyTag}, byte: Nat, number: Nat]
  <2>1. <<a.byte, a.number, 0, 0, 0>> \in Bodies
    BY <1>3 DEF Bodies
  <2> QED
    BY <1>3, <2>1 DEF ActionBody
<1>4. CASE a \in [tag: {RecoverAccountTag}, byte: Nat, key: Quads]
  <2>1. <<a.byte>> \o a.key \in Bodies
    BY <1>4, Halves
  <2> QED
    BY <1>4, <2>1 DEF ActionBody
<1>5. CASE a \in [tag: {CancelTag}]
  <2>1. ZeroKey \o <<0>> \in Bodies
    BY KeysAreQuads, Halves
  <2> QED
    BY <1>5, <2>1 DEF ActionBody
<1> QED
  BY <1>1, <1>2, <1>3, <1>4, <1>5 DEF Decodable

\* What an action has, and where its body has it, by its tag.
LEMMA Fields ==
  ASSUME NEW a \in Decodable
  PROVE  /\ a.tag \in KeyNumberTags =>
              /\ a \in [tag: KeyNumberTags, key: Quads, number: Nat]
              /\ a.key \in Quads /\ a.number \in Nat
         /\ a.tag \in KeyTags => a \in [tag: KeyTags, key: Quads] /\ a.key \in Quads
         /\ a.tag = ChangePolicyTag => a \in [tag: {ChangePolicyTag}, byte: Nat, number: Nat]
         /\ a.tag = RecoverAccountTag =>
              /\ a \in [tag: {RecoverAccountTag}, byte: Nat, key: Quads]
              /\ a.byte \in Nat /\ a.key \in Quads
         /\ a.tag = CancelTag => a \in [tag: {CancelTag}]
         /\ \/ a.tag \in KeyNumberTags
            \/ a.tag \in KeyTags
            \/ a.tag = ChangePolicyTag
            \/ a.tag = RecoverAccountTag
            \/ a.tag = CancelTag
<1> USE DEF KeyNumberTags, KeyTags, ChangePolicyTag, RecoverAccountTag, CancelTag
<1>1. CASE a \in [tag: KeyNumberTags, key: Quads, number: Nat]
  BY <1>1
<1>2. CASE a \in [tag: KeyTags, key: Quads]
  BY <1>2
<1>3. CASE a \in [tag: {ChangePolicyTag}, byte: Nat, number: Nat]
  BY <1>3
<1>4. CASE a \in [tag: {RecoverAccountTag}, byte: Nat, key: Quads]
  BY <1>4
<1>5. CASE a \in [tag: {CancelTag}]
  BY <1>5
<1> QED
  BY <1>1, <1>2, <1>3, <1>4, <1>5 DEF Decodable

LEMMA BodyWords ==
  ASSUME NEW a \in Decodable
  PROVE  /\ a.tag \in KeyNumberTags \cup KeyTags =>
              \A i \in 1..4 : ActionBody(a)[i] = a.key[i]
         /\ a.tag \in KeyNumberTags => ActionBody(a)[5] = a.number
         /\ a.tag = ChangePolicyTag =>
              ActionBody(a)[1] = a.byte /\ ActionBody(a)[2] = a.number
         /\ a.tag = RecoverAccountTag =>
              /\ ActionBody(a)[1] = a.byte
              /\ \A i \in 1..4 : ActionBody(a)[i + 1] = a.key[i]
         /\ a.tag = CancelTag => \A i \in 1..5 : ActionBody(a)[i] = 0
<1> USE DEF KeyNumberTags, KeyTags, ChangePolicyTag, RecoverAccountTag, CancelTag
<1>1. CASE a.tag \in KeyNumberTags
  <2>1. a.key \in Quads /\ a.number \in Nat
    BY <1>1, Fields
  <2>2. PICK b : b = a.key \o <<a.number>>
    OBVIOUS
  <2>3. (\A i \in 1..4 : b[i] = a.key[i]) /\ b[5] = a.number
    BY <2>1, <2>2, Halves, Zenon
  <2>4. ActionBody(a) = b
    BY <1>1, <2>2 DEF ActionBody
  <2> QED
    BY <1>1, <2>3, <2>4
<1>2. CASE a.tag \in KeyTags
  <2>1. a.key \in Quads /\ 0 \in Nat
    BY <1>2, Fields
  <2>2. PICK b : b = a.key \o <<0>>
    OBVIOUS
  <2>3. \A i \in 1..4 : b[i] = a.key[i]
    BY <2>1, <2>2, Halves, Zenon
  <2>4. ActionBody(a) = b
    BY <1>2, <2>2 DEF ActionBody
  <2> QED
    BY <1>2, <2>3, <2>4
<1>3. CASE a.tag = ChangePolicyTag
  <2>1. ActionBody(a) = <<a.byte, a.number, 0, 0, 0>>
    BY <1>3 DEF ActionBody
  <2> QED
    BY <1>3, <2>1
<1>4. CASE a.tag = RecoverAccountTag
  <2>1. a.byte \in Nat /\ a.key \in Quads
    BY <1>4, Fields
  <2>2. PICK b : b = <<a.byte>> \o a.key
    OBVIOUS
  <2>3. (\A i \in 1..4 : b[i + 1] = a.key[i]) /\ b[1] = a.byte
    BY <2>1, <2>2, Halves, Zenon
  <2>4. ActionBody(a) = b
    BY <1>4, <2>2 DEF ActionBody
  <2> QED
    BY <1>4, <2>3, <2>4
<1>5. CASE a.tag = CancelTag
  <2>1. ZeroKey \in Quads /\ 0 \in Nat
    BY KeysAreQuads
  <2>2. PICK b : b = ZeroKey \o <<0>>
    OBVIOUS
  <2>3. (\A i \in 1..4 : b[i] = ZeroKey[i]) /\ b[5] = 0
    BY <2>1, <2>2, Halves, Zenon
  <2>4. \A i \in 1..5 : b[i] = 0
    BY <2>3 DEF ZeroKey
  <2>5. ActionBody(a) = b
    BY <1>5, <2>2 DEF ActionBody
  <2> QED
    BY <1>5, <2>4, <2>5
<1> QED
  BY <1>1, <1>2, <1>3, <1>4, <1>5, Fields

\* An action is all that its tag and its body say.
LEMMA ActionEqual ==
  ASSUME NEW a \in Decodable, NEW c \in Decodable, a.tag = c.tag,
         \A i \in 1..5 : ActionBody(a)[i] = ActionBody(c)[i]
  PROVE  a = c
<1>1. CASE a.tag \in KeyNumberTags
  <2>1. a.number = c.number /\ \A i \in 1..4 : a.key[i] = c.key[i]
    BY <1>1, BodyWords
  <2>2. a.key \in Quads /\ c.key \in Quads
    BY <1>1, Fields
  <2>3. a.key = c.key
    BY <2>1, <2>2, QuadEqual
  <2> QED
    BY <1>1, <2>1, <2>3, Fields
<1>2. CASE a.tag \in KeyTags
  <2>1. \A i \in 1..4 : a.key[i] = c.key[i]
    BY <1>2, BodyWords
  <2>2. a.key \in Quads /\ c.key \in Quads
    BY <1>2, Fields
  <2>3. a.key = c.key
    BY <2>1, <2>2, QuadEqual
  <2> QED
    BY <1>2, <2>3, Fields
<1>3. CASE a.tag = ChangePolicyTag
  <2>1. c.tag = ChangePolicyTag
    BY <1>3
  <2>2. /\ a \in [tag: {ChangePolicyTag}, byte: Nat, number: Nat]
        /\ c \in [tag: {ChangePolicyTag}, byte: Nat, number: Nat]
    BY <1>3, <2>1, Fields, Zenon
  <2>3. /\ ActionBody(a)[1] = a.byte /\ ActionBody(a)[2] = a.number
        /\ ActionBody(c)[1] = c.byte /\ ActionBody(c)[2] = c.number
    BY <1>3, <2>1, BodyWords, Zenon
  <2> QED
    BY <2>2, <2>3
<1>4. CASE a.tag = RecoverAccountTag
  <2>0. /\ a \in [tag: {RecoverAccountTag}, byte: Nat, key: Quads]
        /\ c \in [tag: {RecoverAccountTag}, byte: Nat, key: Quads]
    <3>1. c.tag = RecoverAccountTag
      BY <1>4
    <3> QED
      BY <1>4, <3>1, Fields, Zenon
  <2>1. a.byte = c.byte
    <3>1. c.tag = RecoverAccountTag
      BY <1>4
    <3>2. ActionBody(a)[1] = a.byte /\ ActionBody(c)[1] = c.byte
      BY <1>4, <3>1, BodyWords, Zenon
    <3> QED
      BY <3>2
  <2>2. \A i \in 1..4 : a.key[i] = c.key[i]
    <3> TAKE i \in 1..4
    <3>1. i + 1 \in 1..5
      OBVIOUS
    <3> QED
      BY <1>4, <3>1, BodyWords
  <2>3. a.key \in Quads /\ c.key \in Quads
    BY <1>4, Fields
  <2>4. a.key = c.key
    BY <2>2, <2>3, QuadEqual
  <2> QED
    BY <2>0, <2>1, <2>4
<1>5. CASE a.tag = CancelTag
  <2>1. c.tag = CancelTag
    BY <1>5
  <2>2. a \in [tag: {CancelTag}] /\ c \in [tag: {CancelTag}]
    BY <1>5, <2>1, Fields, Zenon
  <2> QED
    BY <2>2
<1> QED
  BY <1>1, <1>2, <1>3, <1>4, <1>5, Fields

\* "no two distinct intents can produce the same preimage" (canonical.rs:61).
LEMMA PreimageInjective ==
  ASSUME NEW i, NEW j, i.action \in Decodable, j.action \in Decodable,
         Preimage(i) = Preimage(j)
  PROVE  /\ i.vault = j.vault /\ i.nonce = j.nonce /\ i.expiry = j.expiry
         /\ i.action = j.action
<1>1. ActionBody(i.action) \in Bodies /\ ActionBody(j.action) \in Bodies
  BY BodiesOfActions
<1>2. /\ Preimage(i)[1] = i.vault /\ Preimage(i)[2] = i.nonce
      /\ Preimage(i)[3] = i.expiry /\ Preimage(i)[4] = i.action.tag
      /\ \A k \in 1..5 : Preimage(i)[4 + k] = ActionBody(i.action)[k]
  BY <1>1, PreimageWords, Zenon
<1>3. /\ Preimage(j)[1] = j.vault /\ Preimage(j)[2] = j.nonce
      /\ Preimage(j)[3] = j.expiry /\ Preimage(j)[4] = j.action.tag
      /\ \A k \in 1..5 : Preimage(j)[4 + k] = ActionBody(j.action)[k]
  BY <1>1, PreimageWords, Zenon
<1>4. /\ i.action.tag = j.action.tag
      /\ \A k \in 1..5 : ActionBody(i.action)[k] = ActionBody(j.action)[k]
  BY <1>2, <1>3
<1>5. i.action = j.action
  BY <1>4, ActionEqual
<1> QED
  BY <1>2, <1>3, <1>5

\* The decoder undoes the encoder on every layout.
LEMMA DecoderInvertsEncoder ==
  ASSUME NEW a \in Actions
  PROVE  FromWire(a.tag, ActionBody(a)) = a
<1> USE DEF KeyNumberTags, KeyTags, ChangePolicyTag, RecoverAccountTag, CancelTag
<1>1. a \in Decodable /\ ActionBody(a) \in Bodies
  BY ActionsAreDecodable, BodiesOfActions
<1>2. /\ SubSeq(ActionBody(a), 1, 4) \in Quads /\ SubSeq(ActionBody(a), 2, 5) \in Quads
      /\ \A i \in 1..4 : /\ SubSeq(ActionBody(a), 1, 4)[i] = ActionBody(a)[i]
                         /\ SubSeq(ActionBody(a), 2, 5)[i] = ActionBody(a)[i + 1]
  BY <1>1, Parts
<1>3. \A x \in 0..(Byte - 1) : x % Byte = x
  BY WordFacts
<1>4. CASE a.tag \in KeyNumberTags
  <2>1. SubSeq(ActionBody(a), 1, 4) = a.key
    <3>1. a.key \in Quads /\ \A i \in 1..4 : ActionBody(a)[i] = a.key[i]
      BY <1>1, <1>4, Fields, BodyWords
    <3>2. \A i \in 1..4 : SubSeq(ActionBody(a), 1, 4)[i] = a.key[i]
      BY <1>2, <3>1
    <3> QED
      BY <1>2, <3>1, <3>2, QuadEqual, Zenon
  <2>2. ActionBody(a)[5] = a.number
    BY <1>1, <1>4, BodyWords
  <2>3. a \in [tag: KeyNumberTags, key: Quads, number: Nat]
    BY <1>1, <1>4, Fields
  <2>4. NumberAt(a.tag) = 5
    BY <1>4 DEF NumberAt
  <2>5. PICK b : b = ActionBody(a)
    OBVIOUS
  <2>6. FromWire(a.tag, b) =
          [tag |-> a.tag, key |-> SubSeq(b, 1, 4), number |-> b[NumberAt(a.tag)]]
    BY <1>4 DEF FromWire
  <2>7. a = [tag |-> a.tag, key |-> a.key, number |-> a.number]
    BY <2>3
  <2> QED
    BY <2>1, <2>2, <2>4, <2>5, <2>6, <2>7
<1>5. CASE a.tag \in KeyTags
  <2>1. SubSeq(ActionBody(a), 1, 4) = a.key
    <3>1. a.key \in Quads /\ \A i \in 1..4 : ActionBody(a)[i] = a.key[i]
      BY <1>1, <1>5, Fields, BodyWords
    <3>2. \A i \in 1..4 : SubSeq(ActionBody(a), 1, 4)[i] = a.key[i]
      BY <1>2, <3>1
    <3> QED
      BY <1>2, <3>1, <3>2, QuadEqual, Zenon
  <2>2. a \in [tag: KeyTags, key: Quads]
    BY <1>1, <1>5, Fields
  <2> QED
    BY <1>5, <2>1, <2>2 DEF FromWire
<1>6. CASE a.tag = ChangePolicyTag
  <2>1. a \in [tag: {ChangePolicyTag}, byte: 0..(Byte - 1), number: Numbers]
    BY <1>6 DEF Actions
  <2>2. ActionBody(a)[1] = a.byte /\ ActionBody(a)[2] = a.number
    BY <1>1, <1>6, BodyWords
  <2>3. ActionBody(a)[1] % Byte = a.byte
    BY <1>3, <2>1, <2>2
  <2> QED
    BY <1>6, <2>1, <2>2, <2>3 DEF FromWire, NumberAt
<1>7. CASE a.tag = RecoverAccountTag
  <2>1. a \in [tag: {RecoverAccountTag}, byte: RecoveryOps, key: Keys]
    BY <1>7 DEF Actions
  <2>2. a.byte \in 0..(Byte - 1) /\ a.key \in Quads
    BY <2>1, WordFacts, KeysAreQuads
  <2>3. /\ ActionBody(a)[1] = a.byte
        /\ \A i \in 1..4 : ActionBody(a)[i + 1] = a.key[i]
    BY <1>1, <1>7, BodyWords
  <2>4. SubSeq(ActionBody(a), 2, 5) = a.key
    <3>1. \A i \in 1..4 : SubSeq(ActionBody(a), 2, 5)[i] = a.key[i]
      BY <1>2, <2>3
    <3> QED
      BY <1>2, <2>2, <3>1, QuadEqual, Zenon
  <2>5. ActionBody(a)[1] % Byte = a.byte
    BY <1>3, <2>2, <2>3
  <2> QED
    <3>1. FromWire(a.tag, ActionBody(a)) = [tag |-> a.tag, byte |-> a.byte, key |-> a.key]
      <4>1. PICK b : b = ActionBody(a)
        OBVIOUS
      <4>2. a.byte \in RecoveryOps
        BY <2>1
      <4>3. FromWire(a.tag, b) =
              [tag |-> a.tag, byte |-> b[1] % Byte, key |-> SubSeq(b, 2, 5)]
        BY <1>7, <2>5, <4>1, <4>2
        DEF FromWire, KeyNumberTags, KeyTags, ChangePolicyTag, RecoverAccountTag
      <4> QED
        BY <2>4, <2>5, <4>1, <4>3, Zenon
    <3>2. a = [tag |-> a.tag, byte |-> a.byte, key |-> a.key]
      BY <2>1
    <3> QED
      BY <3>1, <3>2, Zenon
<1>8. CASE a.tag = CancelTag
  <2>1. a \in [tag: {CancelTag}] /\ \A i \in 1..5 : ActionBody(a)[i] = 0
    BY <1>1, <1>8, Fields, BodyWords
  <2> QED
    BY <1>8, <2>1 DEF FromWire
<1> QED
  BY <1>1, <1>4, <1>5, <1>6, <1>7, <1>8, Fields
-----------------------------------------------------------------------------
(* The fragment stays seven words however it is rewritten; as long as nobody *)
(* rewrites it, it is the signed one; and what was executed passed the        *)
(* comparison of preimages, with the values that are still there.            *)
FragmentInv ==
  /\ signed \in Intents /\ here \in [vault: Vaults, nonce: {0}]
  /\ fragment \in Fragments /\ edits \in Nat
  /\ edits = 0 => fragment = Encode(signed)
  /\ executed # Nothing =>
       executed \in Decodable /\ Preimage(Reconstructed(executed)) = Preimage(signed)

LEMMA SignedFields ==
  ASSUME NEW i \in Intents
  PROVE  i.action \in Actions /\ i.action \in Decodable /\ i.expiry \in Nat
         /\ ActionBody(i.action) \in Bodies /\ i.action.tag \in Nat
<1>1. i.action \in Actions /\ i.expiry \in Numbers
  BY DEF Intents
<1>2. i.action \in Decodable /\ i.expiry \in Nat
  BY <1>1, ActionsAreDecodable, WordFacts
<1>3. i.action.tag \in Nat
  BY <1>2 DEF Decodable, KeyNumberTags, KeyTags, ChangePolicyTag, RecoverAccountTag, CancelTag
<1> QED
  BY <1>1, <1>2, <1>3, BodiesOfActions

LEMMA EncodedFragment ==
  ASSUME NEW i \in Intents
  PROVE  /\ Encode(i) \in Fragments
         /\ Encode(i)[1] = i.expiry /\ Encode(i)[2] = i.action.tag
         /\ SubSeq(Encode(i), 3, 7) = ActionBody(i.action)
<1>1. /\ Encode(i) \in Fragments
      /\ Encode(i)[1] = i.expiry /\ Encode(i)[2] = i.action.tag
      /\ \A k \in 1..5 : Encode(i)[2 + k] = ActionBody(i.action)[k]
  BY SignedFields, FragmentWords, Zenon
<1>2. /\ SubSeq(Encode(i), 3, 7) \in Bodies
      /\ \A k \in 1..5 : SubSeq(Encode(i), 3, 7)[k] = Encode(i)[2 + k]
  BY <1>1, FragmentBody
<1>3. ActionBody(i.action) \in Bodies
  BY SignedFields
<1> QED
  BY <1>1, <1>2, <1>3, BodyEqual

LEMMA DecodedIsDecodable ==
  ASSUME fragment \in Fragments, Decoded # Malformed
  PROVE  Decoded \in Decodable
<1>1. SubSeq(fragment, 3, 7) \in Bodies /\ fragment[2] \in Nat
  BY FragmentBody
<1> QED
  BY <1>1, FromWireDecodes DEF Decoded

LEMMA FragmentInvInit == BundleInit => FragmentInv
<1> SUFFICES ASSUME BundleInit PROVE FragmentInv
  OBVIOUS
<1>1. signed \in Intents /\ fragment = Encode(signed)
  BY DEF BundleInit, Init
<1>2. fragment \in Fragments
  BY <1>1, EncodedFragment
<1> QED
  BY <1>1, <1>2 DEF BundleInit, Init, FragmentInv

LEMMA FragmentInvStep ==
  ASSUME FragmentInv, [BundleNext]_bvars
  PROVE  FragmentInv'
<1>1. CASE Rewrite
  <2>1. /\ fragment' \in Fragments
        /\ edits' \in Nat /\ edits' # 0
        /\ UNCHANGED <<signed, here, executed>> /\ executed = Nothing
    <3>1. PICK k \in DOMAIN fragment, w \in Words : fragment' = [fragment EXCEPT ![k] = w]
      BY <1>1 DEF Rewrite
    <3>2. fragment \in Seq(Nat) /\ Len(fragment) = 7 /\ DOMAIN fragment = 1..Len(fragment)
      BY LenProperties DEF FragmentInv, Fragments
    <3>3. w \in Nat
      BY DEF Words
    <3>4. fragment' \in Fragments
      BY <3>1, <3>2, <3>3, ExceptSeq DEF Fragments
    <3> QED
      BY <1>1, <3>4 DEF Rewrite, FragmentInv
  <2> QED
    BY <2>1 DEF FragmentInv
<1>2. CASE Execute
  <2>1. /\ executed' = Decoded /\ Decoded # Malformed
        /\ Preimage(Reconstructed(Decoded)) = Preimage(signed)
        /\ UNCHANGED <<signed, here, fragment, edits>>
    BY <1>2 DEF Execute
  <2>2. Decoded \in Decodable
    BY <2>1, DecodedIsDecodable DEF FragmentInv
  <2>3. Reconstructed(executed)' = Reconstructed(Decoded)
    BY <2>1 DEF Reconstructed
  <2>4. Preimage(Reconstructed(executed))' = Preimage(signed)
    BY <2>1, <2>3 DEF Preimage, ActionBody
  <2> QED
    BY <2>1, <2>2, <2>4 DEF FragmentInv
<1>3. CASE EditBundle
  <2>1. UNCHANGED <<signed, here, fragment, executed>> /\ edits' = edits + 1
    BY <1>3 DEF EditBundle
  <2> QED
    BY <2>1 DEF FragmentInv, Reconstructed, Preimage, Encode
<1>4. CASE UNCHANGED vars
  BY <1>4 DEF vars, FragmentInv, Reconstructed, Preimage, Encode
<1>5. \/ Rewrite
      \/ Execute
      \/ EditBundle
      \/ UNCHANGED vars
  BY DEF BundleNext, Next, SignFalcon, VerifyBundle, bvars
<1> QED
  BY <1>1, <1>2, <1>3, <1>4, <1>5

LEMMA FragmentInvHolds == BundleSpec => []FragmentInv
BY FragmentInvInit, FragmentInvStep, PTL DEF BundleSpec

\* What a vault executes, under which vault, nonce and expiry, is what was
\* signed, however the fragment was rewritten and wherever it was sent.
THEOREM ExecutesWhatIsSigned == BundleSpec => []ExecutedIsSigned
<1>1. FragmentInv => ExecutedIsSigned
  <2> SUFFICES ASSUME FragmentInv, executed # Nothing
               PROVE  /\ executed = signed.action
                      /\ fragment[1] = signed.expiry
                      /\ here = [vault |-> signed.vault, nonce |-> signed.nonce]
    BY DEF ExecutedIsSigned
  <2>1. PICK i : i = Reconstructed(executed)
    OBVIOUS
  <2>2. /\ i.vault = here.vault /\ i.nonce = here.nonce
        /\ i.expiry = fragment[1] /\ i.action = executed
    BY <2>1 DEF Reconstructed
  <2>3. i.action \in Decodable /\ signed.action \in Decodable
    BY <2>2, SignedFields DEF FragmentInv
  <2>4. Preimage(i) = Preimage(signed)
    BY <2>1 DEF FragmentInv
  <2>5. /\ i.vault = signed.vault /\ i.nonce = signed.nonce
        /\ i.expiry = signed.expiry /\ i.action = signed.action
    BY <2>3, <2>4, PreimageInjective
  <2>6. here = [vault |-> here.vault, nonce |-> here.nonce]
    BY DEF FragmentInv
  <2> QED
    BY <2>2, <2>5, <2>6
<1> QED
  BY <1>1, FragmentInvHolds, PTL

\* An honest fragment always decodes to the signed action and matches it.
THEOREM HonestIsAccepted == BundleSpec => []HonestIntentIsAccepted
<1>1. FragmentInv => HonestIntentIsAccepted
  <2> SUFFICES ASSUME FragmentInv, edits = 0,
                      here = [vault |-> signed.vault, nonce |-> signed.nonce]
               PROVE  /\ Decoded = signed.action
                      /\ Preimage(Reconstructed(Decoded)) = Preimage(signed)
    BY DEF HonestIntentIsAccepted
  <2>1. signed \in Intents /\ fragment = Encode(signed)
    BY DEF FragmentInv
  <2>2. Decoded = signed.action
    <3>1. Decoded = FromWire(signed.action.tag, ActionBody(signed.action))
      BY <2>1, EncodedFragment DEF Decoded
    <3> QED
      BY <2>1, <3>1, SignedFields, DecoderInvertsEncoder
  <2>3. fragment[1] = signed.expiry
    BY <2>1, EncodedFragment
  <2>4. Preimage(Reconstructed(Decoded)) = Preimage(signed)
    BY <2>2, <2>3 DEF Reconstructed, Preimage
  <2> QED
    BY <2>2, <2>4
<1> QED
  BY <1>1, FragmentInvHolds, PTL
-----------------------------------------------------------------------------
\* A report is about a bundle, and the bundle stays as it was reported on.
ReportInv == (report # "none" => bundle # NoBundle) /\ ValidMeansBothSigned

LEMMA ReportInvStep ==
  ASSUME ReportInv, [BundleNext]_bvars
  PROVE  ReportInv'
<1>1. ASSUME NEW encoded \in Encodings, SignFalcon(encoded) PROVE ReportInv'
  BY <1>1 DEF SignFalcon, ReportInv, ValidMeansBothSigned
<1>2. CASE EditBundle
  <2>1. report' = "none"
    BY <1>2 DEF EditBundle
  <2> QED
    BY <2>1 DEF ReportInv, ValidMeansBothSigned
<1>3. CASE VerifyBundle
  <2>1. bundle # NoBundle /\ UNCHANGED <<bundle, made>>
    BY <1>3 DEF VerifyBundle
  <2>2. ASSUME report' = "valid"
        PROVE  AllValid(Preimage(ToIntent(bundle.intent)))
    BY <1>3, <2>2 DEF VerifyBundle
  <2>3. ValidMeansBothSigned'
    <3> SUFFICES ASSUME report' = "valid" PROVE ValidMeansBothSigned'
      BY DEF ValidMeansBothSigned
    <3>1. PICK d : d = Preimage(ToIntent(bundle.intent))
      OBVIOUS
    <3>2. /\ ValidEd25519(bundle.ed25519Key, d, bundle.ed25519Signature)
          /\ ValidFalcon(bundle.falconKey, d, bundle.wire)
          /\ bundle.digest = d
      BY <2>2, <3>1 DEF AllValid
    <3>3. PICK m \in made : m.by = bundle.falconKey /\ m.over = d /\ Len(m.bytes) \in 1..WireLen
      BY <3>2 DEF ValidFalcon
    <3>4. m.bytes # <<>>
      BY <3>3
    <3>5. Ed25519Signature(bundle.ed25519Key, d) \in made
      BY <3>2 DEF ValidEd25519
    <3>6. Preimage(ToIntent(bundle.intent))' = d
      BY <2>1, <3>1
    <3> QED
      BY <2>1, <3>2, <3>3, <3>4, <3>5, <3>6 DEF ValidMeansBothSigned, Ed25519Signature
  <2> QED
    BY <2>1, <2>3 DEF ReportInv
<1>4. CASE UNCHANGED <<bundle, made, report>>
  <2>1. Preimage(ToIntent(bundle.intent))' = Preimage(ToIntent(bundle.intent))
    BY <1>4
  <2> QED
    BY <1>4, <2>1 DEF ReportInv, ValidMeansBothSigned, Ed25519Signature
<1> QED
  BY <1>1, <1>2, <1>3, <1>4 DEF BundleNext, bvars

\* A bundle is reported as valid only if both keys that it names signed the
\* intent that it shows, and only if it states that digest.
THEOREM ValidReportsAreTrue == BundleSpec => []ValidMeansBothSigned
<1>1. BundleInit => ReportInv
  BY DEF BundleInit, ReportInv, ValidMeansBothSigned
<1>2. ReportInv => ValidMeansBothSigned
  BY DEF ReportInv
<1> QED
  BY <1>1, <1>2, ReportInvStep, PTL DEF BundleSpec
-----------------------------------------------------------------------------
(* A bundle that nobody edited.                                            *)

\* A Falcon signature that fits is padded with zeros, and as its own last byte
\* is none, the padding tells its length.
LEMMA PaddingTellsLength ==
  ASSUME NEW encoded \in Encodings, Fits(encoded)
  PROVE  /\ Len(encoded) \in 1..WireLen
         /\ EncodedLen(Padded(encoded)) = Len(encoded)
<1> DEFINE wire == Padded(encoded)
           n == Len(encoded)
<1>1. encoded \in Seq({0, 1}) /\ n > 0 /\ encoded[n] # 0
  BY DEF Encodings, BoundedSeq, SeqOf
<1>2. n \in 1..WireLen
  BY <1>1, BundleAssumption DEF Fits
<1>3. wire[n] # 0 /\ \A j \in (n + 1)..WireLen : wire[j] = 0
  BY <1>1, <1>2, BundleAssumption DEF Padded
<1>4. ASSUME NEW i \in 1..WireLen, wire[i] # 0, \A j \in (i + 1)..WireLen : wire[j] = 0
      PROVE  i = n
  <2>1. CASE i < n
    BY <1>2, <1>3, <1>4, <2>1, n \in (i + 1)..WireLen
  <2>2. CASE i > n
    BY <1>2, <1>3, <1>4, <2>2, i \in (n + 1)..WireLen
  <2> QED
    BY <1>2, <2>1, <2>2
<1> HIDE DEF wire, n
<1>5. ~(\A i \in 1..WireLen : wire[i] = 0)
  BY <1>2, <1>3
<1>6. EncodedLen(wire) = CHOOSE i \in 1..WireLen : wire[i] # 0 /\ \A j \in (i + 1)..WireLen : wire[j] = 0
  BY <1>5 DEF EncodedLen
<1>7. EncodedLen(wire) = n
  BY <1>2, <1>3, <1>4, <1>6
<1> QED
  BY <1>2, <1>7 DEF wire, n


\* The names of the types tell the tags, and hex gives back the key.
LEMMA SpecGivesIntentBack ==
  ASSUME NEW i \in Intents
  PROVE  Readable(FromIntent(i)) /\ ToIntent(FromIntent(i)) = i
<1> DEFINE a == i.action
           spec == FromIntent(i)
           s == spec.action
<1>1. /\ i = [vault |-> i.vault, nonce |-> i.nonce, expiry |-> i.expiry, action |-> a]
      /\ a \in Actions
  BY DEF Intents
<1>2. /\ a = [f \in DOMAIN a |-> a[f]]
      /\ "tag" \in DOMAIN a /\ a["tag"] \in 1..8
      /\ a["tag"] = RecoverAccountTag <=> "byte" \in DOMAIN a /\ "key" \in DOMAIN a
      /\ a["tag"] = RecoverAccountTag => a["byte"] \in RecoveryOps
  BY <1>1
  DEF Actions, KeyNumberTags, KeyTags, ChangePolicyTag, RecoverAccountTag, CancelTag
<1>3. /\ spec = [vault |-> i.vault, nonce |-> i.nonce, expiry |-> i.expiry, action |-> s]
      /\ s = [f \in DOMAIN a |-> CASE f = "tag" -> TypeNames[a.tag]
                                   [] f = "key" -> Hex(a.key)
                                   [] OTHER -> a[f]]
  BY <1>1 DEF FromIntent
<1> HIDE DEF a, s, spec
<1>4. /\ DOMAIN s = DOMAIN a
      /\ s["tag"] = TypeNames[a["tag"]]
      /\ "key" \in DOMAIN a => s["key"] = Hex(a["key"])
      /\ \A f \in DOMAIN a \ {"tag", "key"} : s[f] = a[f]
  BY <1>2, <1>3
<1>5. \A t, u \in 1..8 : TypeNames[t] = TypeNames[u] => t = u
  BY DEF TypeNames
<1>6. DOMAIN TypeNames = 1..8
  BY DEF TypeNames
<1>7. (CHOOSE t \in DOMAIN TypeNames : TypeNames[t] = s["tag"]) = a["tag"]
  BY <1>2, <1>4, <1>5, <1>6
<1>8. Readable(spec)
  <2>1. "key" \in DOMAIN a => s["key"].digits = 64
    BY <1>4 DEF Hex
  <2>2. s["tag"] = "recover_account" => a["tag"] = RecoverAccountTag
    BY <1>2, <1>4 DEF TypeNames, RecoverAccountTag
  <2>3. s["tag"] = "recover_account" => s["byte"] \in RecoveryOps
    BY <1>2, <1>4, <2>2
  <2>4. spec.action = s
    BY <1>3
  <2> QED
    BY <1>4, <2>1, <2>3, <2>4 DEF Readable
<1>9. ToIntent(spec) = i
  <2> DEFINE back == [f \in DOMAIN spec.action |->
                        CASE f = "tag" -> CHOOSE t \in DOMAIN TypeNames :
                                            TypeNames[t] = spec.action.tag
                          [] f = "key" -> spec.action.key.key
                          [] OTHER -> spec.action[f]]
  <2>0. spec.action = s
    BY <1>3
  <2>1. ToIntent(spec) = [spec EXCEPT !.action = back]
    BY Zenon DEF ToIntent
  <2>2. ASSUME NEW f \in DOMAIN a PROVE back[f] = a[f]
    <3>1. CASE f = "tag"
      BY <1>4, <1>7, <2>0, <3>1
    <3>2. CASE f = "key"
      BY <1>4, <2>0, <2>2, <3>2 DEF Hex
    <3>3. CASE f \notin {"tag", "key"}
      BY <1>4, <2>0, <2>2, <3>3
    <3> QED
      BY <3>1, <3>2, <3>3
  <2>3. DOMAIN back = DOMAIN a /\ back = [f \in DOMAIN back |-> back[f]]
    BY <1>4, <2>0
  <2> HIDE DEF back
  <2>4. back = a
    BY <1>2, <2>2, <2>3
  <2>5. i = [vault |-> i.vault, nonce |-> i.nonce, expiry |-> i.expiry, action |-> a]
    BY <1>1 DEF a
  <2>6. [spec EXCEPT !.action = a] = i
    BY <1>3, <2>5
  <2> QED
    BY <2>1, <2>4, <2>6
<1> QED
  BY <1>8, <1>9 DEF spec

\* The file that sign_intent() writes for a Falcon signature.
OwnersFalcon(encoded) == [by |-> Owner, over |-> Preimage(signed), bytes |-> encoded]
SignedAs(encoded) ==
  [intent |-> FromIntent(signed), digest |-> Preimage(signed),
   ed25519Key |-> Owner,
   ed25519Signature |-> Ed25519Signature(Owner, Preimage(signed)),
   falconKey |-> Owner,
   wire |-> [OwnersFalcon(encoded) EXCEPT !.bytes = Padded(encoded)],
   encodedLen |-> Len(encoded)]

\* Until it is edited, the bundle is one that signing wrote, its two signatures
\* were made, and no report says anything but that.
HonestInv ==
  /\ report # "none" => bundle # NoBundle
  /\ bundle # NoBundle /\ edits = 0 =>
       /\ report \in {"none", "valid"}
       /\ \E encoded \in Encodings :
            /\ Fits(encoded) /\ bundle = SignedAs(encoded)
            /\ Ed25519Signature(Owner, Preimage(signed)) \in made
            /\ OwnersFalcon(encoded) \in made

\* Checking such a bundle finds both signatures valid over the digest of the
\* intent that the JSON form gives back (client/src/sign.rs verify_bundle).
LEMMA HonestIsReported ==
  ASSUME FragmentInv, HonestInv, edits = 0, VerifyBundle
  PROVE  report' = "valid"
<1>1. PICK encoded \in Encodings :
        /\ Fits(encoded) /\ bundle = SignedAs(encoded)
        /\ Ed25519Signature(Owner, Preimage(signed)) \in made
        /\ OwnersFalcon(encoded) \in made
  BY DEF HonestInv, VerifyBundle
<1> DEFINE digest == Preimage(signed)
<1>2. /\ bundle.intent = FromIntent(signed) /\ bundle.digest = digest
      /\ bundle.ed25519Key = Owner /\ bundle.falconKey = Owner
      /\ bundle.ed25519Signature = Ed25519Signature(Owner, digest)
      /\ bundle.wire = [OwnersFalcon(encoded) EXCEPT !.bytes = Padded(encoded)]
  BY <1>1 DEF SignedAs
<1>3. Readable(bundle.intent) /\ ToIntent(bundle.intent) = signed
  BY <1>2, SpecGivesIntentBack DEF FragmentInv
<1>4. ValidEd25519(bundle.ed25519Key, digest, bundle.ed25519Signature)
  BY <1>1, <1>2 DEF ValidEd25519
<1>5. ValidFalcon(bundle.falconKey, digest, bundle.wire)
  <2>1. /\ OwnersFalcon(encoded).by = Owner /\ OwnersFalcon(encoded).over = digest
        /\ OwnersFalcon(encoded).bytes = encoded
    BY DEF OwnersFalcon
  <2>2. Len(encoded) \in 1..WireLen
    BY <1>1, PaddingTellsLength
  <2> QED
    BY <1>1, <1>2, <2>1, <2>2 DEF ValidFalcon
<1>6. AllValid(Preimage(ToIntent(bundle.intent)))
  BY <1>2, <1>3, <1>4, <1>5, Zenon DEF AllValid
<1> QED
  BY <1>3, <1>6 DEF VerifyBundle

LEMMA HonestInvStep ==
  ASSUME FragmentInv, HonestInv, [BundleNext]_bvars
  PROVE  HonestInv'
<1>1. ASSUME NEW encoded \in Encodings, SignFalcon(encoded) PROVE HonestInv'
  <2>1. /\ bundle = NoBundle /\ report' = "none" /\ UNCHANGED signed
        /\ bundle' = IF ~Fits(encoded) THEN NoBundle ELSE SignedAs(encoded)
        /\ Ed25519Signature(Owner, Preimage(signed)) \in made'
        /\ OwnersFalcon(encoded) \in made'
    BY <1>1 DEF SignFalcon, HonestInv, SignedAs, OwnersFalcon, vars
  <2>2. Preimage(signed)' = Preimage(signed) /\ SignedAs(encoded)' = SignedAs(encoded)
        /\ OwnersFalcon(encoded)' = OwnersFalcon(encoded)
    BY <2>1 DEF Preimage, ActionBody, SignedAs, OwnersFalcon
  <2> QED
    BY <2>1, <2>2 DEF HonestInv, Ed25519Signature
<1>2. CASE EditBundle
  <2>1. report' = "none" /\ edits' # 0
    BY <1>2 DEF EditBundle, FragmentInv
  <2> QED
    BY <2>1 DEF HonestInv
<1>3. ASSUME UNCHANGED <<signed, edits, bundle, made>>,
             report' # "none" => bundle # NoBundle,
             bundle # NoBundle /\ edits = 0 => report' \in {"none", "valid"}
      PROVE  HonestInv'
  <2>1. \A encoded : /\ SignedAs(encoded)' = SignedAs(encoded)
                     /\ OwnersFalcon(encoded)' = OwnersFalcon(encoded)
    BY <1>3 DEF Preimage, ActionBody, SignedAs, OwnersFalcon
  <2> QED
    BY <1>3, <2>1 DEF HonestInv, Ed25519Signature
<1>4. CASE VerifyBundle
  <2>1. UNCHANGED <<signed, edits, bundle, made>> /\ bundle # NoBundle
    BY <1>4 DEF VerifyBundle, vars
  <2> QED
    BY <1>3, <1>4, <2>1, HonestIsReported
<1>5. CASE Next /\ UNCHANGED <<bundle, made, attempts, report>>
  <2>1. CASE Rewrite
    <3>1. edits' # 0
      BY <2>1 DEF Rewrite, FragmentInv
    <3> QED
      BY <1>5, <3>1 DEF HonestInv
  <2>2. CASE Execute
    <3>1. UNCHANGED <<signed, edits>>
      BY <2>2 DEF Execute
    <3> QED
      BY <1>3, <1>5, <3>1 DEF HonestInv
  <2> QED
    BY <1>5, <2>1, <2>2 DEF Next
<1>6. CASE UNCHANGED bvars
  BY <1>3, <1>6 DEF bvars, vars, HonestInv
<1> QED
  BY <1>1, <1>2, <1>4, <1>5, <1>6 DEF BundleNext

\* A bundle that nobody edited is reported as valid, however long its Falcon
\* signature came out and however often signing was retried.
THEOREM HonestBundlesPass == BundleSpec => []HonestBundleIsValid
<1>1. BundleInit => HonestInv
  BY DEF BundleInit, HonestInv
<1>2. FragmentInv /\ HonestInv => HonestBundleIsValid
  <2> SUFFICES ASSUME FragmentInv, HonestInv, bundle # NoBundle, edits = 0
               PROVE  /\ report \in {"none", "valid"}
                      /\ EncodedLen(bundle.wire.bytes) = bundle.encodedLen
                      /\ ToIntent(bundle.intent) = signed
    BY DEF HonestBundleIsValid
  <2>1. PICK encoded \in Encodings : Fits(encoded) /\ bundle = SignedAs(encoded)
    BY DEF HonestInv
  <2>2. /\ bundle.intent = FromIntent(signed) /\ bundle.encodedLen = Len(encoded)
        /\ bundle.wire.bytes = Padded(encoded)
    BY <2>1 DEF SignedAs, OwnersFalcon
  <2>3. ToIntent(bundle.intent) = signed
    BY <2>2, SpecGivesIntentBack DEF FragmentInv
  <2>4. EncodedLen(bundle.wire.bytes) = bundle.encodedLen
    BY <2>1, <2>2, PaddingTellsLength
  <2> QED
    BY <2>3, <2>4 DEF HonestInv
<1> QED
  BY <1>1, <1>2, FragmentInvHolds, HonestInvStep, PTL DEF BundleSpec
===============================================================================
