--------------------------- MODULE EncodingProofs ---------------------------
(***************************************************************************)
(* What is written as bytes is read back: the records of the state set     *)
(* under their keys, and the arguments of calls, for any sizes of integers *)
(* and addresses and any values.  Both rest on ReadsBack: a format's       *)
(* fields are read from the bytes it was serialized to, field by field     *)
(* along the concatenation of their byte strings.                          *)
(***************************************************************************)
EXTENDS CallArgs, StateSet, FoldTheorems, SequenceTheorems

LEMMA Places ==
  ASSUME NEW a \in Nat, NEW b \in Nat
  PROVE  /\ \A j \in 1..b : a + j \in 1..(a + b)
         /\ \A i \in 1..a : i \in 1..(a + b)
OBVIOUS

Bytes == Seq(Nat)

\* Two byte strings one after the other.
IsJoined(u, s, t) ==
  /\ u \in Bytes /\ Len(s) \in Nat /\ Len(t) \in Nat
  /\ Len(u) = Len(s) + Len(t)
  /\ \A i \in 1..Len(s) : u[i] = s[i]
  /\ \A j \in 1..Len(t) : u[Len(s) + j] = t[j]

LEMMA BytesJoined ==
  ASSUME NEW s \in Bytes, NEW t \in Bytes
  PROVE  s \o t \in Bytes /\ IsJoined(s \o t, s, t)
<1>1. /\ s \o t \in Bytes /\ Len(s \o t) = Len(s) + Len(t) /\ Len(s) \in Nat /\ Len(t) \in Nat
      /\ \A i \in 1..Len(s) + Len(t) :
           (s \o t)[i] = IF i <= Len(s) THEN s[i] ELSE t[i - Len(s)]
  BY ConcatProperties, LenProperties DEF Bytes
<1>2. \A i \in 1..Len(s) : i \in 1..Len(s) + Len(t) /\ i <= Len(s)
  BY <1>1
<1>3. \A j \in 1..Len(t) : /\ Len(s) + j \in 1..Len(s) + Len(t) /\ ~(Len(s) + j <= Len(s))
                           /\ Len(s) + j - Len(s) = j
  BY <1>1
<1> QED
  BY <1>1, <1>2, <1>3 DEF IsJoined

-----------------------------------------------------------------------------
(* Writing: byte strings one after the other, whole[k] the first k of them.*)

IsWriting(whole, parts, n) ==
  /\ whole \in [0..n -> Bytes]
  /\ whole[0] = <<>>
  /\ \A k \in 1..n : whole[k] = whole[k - 1] \o parts[k]

LEMMA WritingStep ==
  ASSUME NEW n \in Nat, NEW parts, \A k \in 1..n : parts[k] \in Bytes,
         NEW whole, IsWriting(whole, parts, n), NEW k \in 1..n
  PROVE  IsJoined(whole[k], whole[k - 1], parts[k])
<1> DEFINE s == whole[k - 1]
           t == parts[k]
<1>1. k - 1 \in 0..n /\ k \in 0..n
  OBVIOUS
<1>2. s \in Bytes /\ t \in Bytes /\ whole[k] = s \o t
  BY <1>1 DEF IsWriting
<1> HIDE DEF s, t
<1>3. IsJoined(whole[k], s, t)
  BY <1>2, BytesJoined
<1> QED
  BY <1>3 DEF s, t

\* What was written first stays where it is.
LEMMA WritingGrows ==
  ASSUME NEW n \in Nat, NEW parts, \A k \in 1..n : parts[k] \in Bytes,
         NEW whole, IsWriting(whole, parts, n), NEW k \in 0..n
  PROVE  /\ Len(whole[k]) \in Nat /\ Len(whole[n]) \in Nat
         /\ Len(whole[k]) <= Len(whole[n])
         /\ \A i \in 1..Len(whole[k]) : whole[n][i] = whole[k][i]
<1> DEFINE Kept(l) == /\ Len(whole[k]) <= Len(whole[l])
                      /\ \A i \in 1..Len(whole[k]) : whole[l][i] = whole[k][i]
           N == {d \in Nat : k + d <= n => Kept(k + d)}
<1>0. \A l \in 0..n : Len(whole[l]) \in Nat
  BY LenProperties DEF IsWriting, Bytes
<1>1. 0 \in N
  <2>1. k + 0 = k
    OBVIOUS
  <2> QED
    BY <1>0, <2>1
<1>2. ASSUME NEW d \in Nat, d \in N, k + (d + 1) <= n PROVE Kept(k + (d + 1))
  <2> DEFINE a == k + d
             b == k + (d + 1)
  <2>1. a \in 0..n /\ b \in 1..n /\ b - 1 = a /\ a <= n
    BY <1>2
  <2>2. Kept(a)
    BY <1>2, <2>1
  <2> HIDE DEF a, b
  <2>3. IsJoined(whole[b], whole[b - 1], parts[b])
    BY <2>1, WritingStep
  <2>4. /\ Len(parts[b]) \in Nat /\ Len(whole[b]) = Len(whole[a]) + Len(parts[b])
        /\ \A i \in 1..Len(whole[a]) : whole[b][i] = whole[a][i]
        /\ Len(whole[a]) \in Nat /\ Len(whole[k]) \in Nat
    BY <1>0, <2>1, <2>3 DEF IsJoined
  <2>5. Len(whole[k]) <= Len(whole[b]) /\ \A i \in 1..Len(whole[k]) : i \in 1..Len(whole[a])
    <3> DEFINE x == Len(whole[k])
               y == Len(whole[a])
               z == Len(whole[b])
    <3>1. x \in Nat /\ y \in Nat /\ x <= y /\ z = y + Len(parts[b]) /\ Len(parts[b]) \in Nat
      BY <2>2, <2>4
    <3> HIDE DEF x, y, z
    <3>2. x <= z /\ \A i \in 1..x : i \in 1..y
      BY <3>1
    <3> QED
      BY <3>2 DEF x, y, z
  <2>6. Kept(b)
    BY <2>2, <2>4, <2>5
  <2> QED
    BY <2>6 DEF b
<1>3. Nat \subseteq N
  <2>1. \A d \in Nat : d \in N => d + 1 \in N
    BY <1>2
  <2> HIDE DEF N
  <2> QED
    BY <1>1, <2>1, SetInduction
<1>4. n - k \in Nat /\ k + (n - k) = n /\ n \in 0..n
  OBVIOUS
<1>5. Kept(n)
  BY <1>3, <1>4
<1> QED
  BY <1>0, <1>4, <1>5

\* Each part is found at its place in the whole.
LEMMA PartPlaced ==
  ASSUME NEW n \in Nat, NEW parts, \A k \in 1..n : parts[k] \in Bytes,
         NEW whole, IsWriting(whole, parts, n), NEW k \in 1..n
  PROVE  /\ Len(whole[k]) <= Len(whole[n])
         /\ \A j \in 1..Len(parts[k]) : whole[n][Len(whole[k - 1]) + j] = parts[k][j]
<1>0. IsJoined(whole[k], whole[k - 1], parts[k])
  BY WritingStep
<1>1. /\ Len(whole[k - 1]) \in Nat /\ Len(parts[k]) \in Nat
      /\ Len(whole[k]) = Len(whole[k - 1]) + Len(parts[k])
      /\ \A j \in 1..Len(parts[k]) : whole[k][Len(whole[k - 1]) + j] = parts[k][j]
  BY <1>0 DEF IsJoined
<1>2. Len(whole[k]) <= Len(whole[n]) /\ \A i \in 1..Len(whole[k]) : whole[n][i] = whole[k][i]
  <2>1. k \in 0..n
    OBVIOUS
  <2> QED
    BY <2>1, WritingGrows
<1>3. \A j \in 1..Len(parts[k]) : Len(whole[k - 1]) + j \in 1..Len(whole[k])
  BY <1>1, Places
<1> QED
  BY <1>1, <1>2, <1>3

\* FlattenSeq writes its parts so.
IsFlat(g, seqs) ==
  g = [i \in 1..Len(seqs) |-> IF i = 1 THEN seqs[i] ELSE g[i - 1] \o seqs[i]]

LEMMA FlattenIs ==
  ASSUME NEW seqs
  PROVE  FlattenSeq(seqs) =
           IF Len(seqs) = 0 THEN seqs ELSE (CHOOSE g : IsFlat(g, seqs))[Len(seqs)]
BY DEF FlattenSeq, IsFlat

LEMMA WritingExists ==
  ASSUME NEW n \in Nat, NEW parts, \A k \in 1..n : parts[k] \in Bytes
  PROVE  \E whole : IsWriting(whole, parts, n)
<1> DEFINE step == [p \in (1..n) \X Bytes |-> p[2] \o parts[p[1]]]
<1>1. step \in Steps(n, Bytes)
  <2>1. \A k \in 1..n, x \in Bytes : x \o parts[k] \in Bytes
    BY BytesJoined
  <2> QED
    BY <2>1 DEF Steps
<1>2. \A k \in 1..n, x \in Bytes : step[<<k, x>>] = x \o parts[k]
  OBVIOUS
<1>3. <<>> \in Bytes
  BY DEF Bytes
<1> HIDE DEF step
<1>4. PICK w : IsChain(w, n, Bytes, <<>>, step)
  BY <1>1, <1>3, ChainExists
<1>5. /\ w \in [0..n -> Bytes] /\ w[0] = <<>>
      /\ \A k \in 1..n : w[k] = step[<<k, w[k - 1]>>]
  BY <1>4 DEF IsChain
<1>6. \A k \in 1..n : k - 1 \in 0..n
  OBVIOUS
<1>7. \A k \in 1..n : w[k] = w[k - 1] \o parts[k]
  BY <1>2, <1>5, <1>6
<1> QED
  BY <1>5, <1>7 DEF IsWriting

\* The same for sequences that begin at 1.
LEMMA SameFromOne ==
  ASSUME NEW n \in Nat, n # 0, NEW r, NEW q, r[1] = q[1],
         \A k \in 1..n : k # 1 => (r[k - 1] = q[k - 1] => r[k] = q[k])
  PROVE  r[n] = q[n]
<1> DEFINE a == [k \in 0..n |-> IF k = 0 THEN 0 ELSE r[k]]
           b == [k \in 0..n |-> IF k = 0 THEN 0 ELSE q[k]]
<1>1. a[0] = b[0] /\ a[n] = r[n] /\ b[n] = q[n] /\ n \in 0..n
  OBVIOUS
<1>2. ASSUME NEW k \in 1..n, a[k - 1] = b[k - 1] PROVE a[k] = b[k]
  <2>1. a[k] = r[k] /\ b[k] = q[k]
    OBVIOUS
  <2>2. CASE k = 1
    BY <2>1, <2>2
  <2>3. CASE k # 1
    <3>1. a[k - 1] = r[k - 1] /\ b[k - 1] = q[k - 1]
      BY <2>3
    <3> QED
      BY <1>2, <2>1, <2>3, <3>1
  <2> QED
    BY <2>2, <2>3
<1> HIDE DEF a, b
<1>3. \A k \in 1..n : a[k - 1] = b[k - 1] => a[k] = b[k]
  BY <1>2
<1>4. \A k \in 0..n : a[k] = b[k]
  BY <1>1, <1>3, SameChain
<1> QED
  BY <1>1, <1>4

LEMMA FlattenRun ==
  ASSUME NEW n \in Nat, NEW parts, DOMAIN parts = 1..n, Len(parts) = n,
         \A k \in 1..n : parts[k] \in Bytes, n = 0 => parts = <<>>
  PROVE  \E whole : IsWriting(whole, parts, n) /\ FlattenSeq(parts) = whole[n]
<1>1. PICK w : IsWriting(w, parts, n)
  BY WritingExists
<1>2. w[0] = <<>> /\ \A k \in 1..n : w[k] = w[k - 1] \o parts[k]
  BY <1>1 DEF IsWriting
<1>3. CASE n = 0
  BY <1>1, <1>2, <1>3, FlattenIs
<1>4. CASE n # 0
  <2> DEFINE g == [i \in 1..n |-> w[i]]
             h == CHOOSE f : IsFlat(f, parts)
  <2>0. ASSUME NEW k \in 1..n, k = 1 PROVE w[k] = parts[k]
    <3>1. k - 1 = 0
      BY <2>0
    <3>2. w[k] = <<>> \o parts[k] /\ parts[k] \in Bytes
      BY <1>2, <3>1
    <3> QED
      BY <3>2, ConcatEmptySeq DEF Bytes
  <2>1. IsFlat(g, parts)
    <3>1. ASSUME NEW i \in 1..n
          PROVE  g[i] = IF i = 1 THEN parts[i] ELSE g[i - 1] \o parts[i]
      <4>1. CASE i = 1
        BY <2>0, <4>1
      <4>2. CASE i # 1
        <5>1. i - 1 \in 1..n
          BY <4>2
        <5> QED
          BY <1>2, <4>2, <5>1
      <4> QED
        BY <4>1, <4>2
    <3>2. g = [i \in 1..n |-> IF i = 1 THEN parts[i] ELSE g[i - 1] \o parts[i]]
      BY <3>1
    <3> HIDE DEF g
    <3> QED
      BY <3>2 DEF IsFlat
  <2>2. IsFlat(h, parts)
    BY <2>1
  <2> HIDE DEF h, g
  <2>3. \A i \in 1..n : h[i] = IF i = 1 THEN parts[i] ELSE h[i - 1] \o parts[i]
    BY <2>2 DEF IsFlat
  <2>4. ASSUME NEW k \in 1..n, k # 1 PROVE h[k - 1] = w[k - 1] => h[k] = w[k]
    BY <1>2, <2>3, <2>4
  <2>5. h[1] = w[1]
    <3>1. 1 \in 1..n
      BY <1>4
    <3> QED
      BY <2>0, <2>3, <3>1
  <2>6. h[n] = w[n]
    BY <1>4, <2>4, <2>5, SameFromOne
  <2>8. FlattenSeq(parts) = h[n]
    BY <1>4, FlattenIs DEF h
  <2> QED
    BY <1>1, <2>6, <2>8
<1> QED
  BY <1>3, <1>4
-----------------------------------------------------------------------------
(* Reading one field.                                                      *)

IsField(field, names) == field.name \in names /\ field.kind \in Kinds
Maps(names) == UNION {[known -> Bytes] : known \in SUBSET names}
Reader(names) == [ok : BOOLEAN, args : Maps(names), rest : Bytes]

LEMMA Slice ==
  ASSUME NEW s \in Bytes, NEW a \in Nat, NEW b \in Nat, a + b <= Len(s)
  PROVE  /\ SubSeq(s, a + 1, a + b) \in Bytes /\ Len(SubSeq(s, a + 1, a + b)) = b
         /\ \A i \in 1..b : SubSeq(s, a + 1, a + b)[i] = s[a + i]
<1>1. /\ a + 1 \in Int /\ a + b \in Int /\ s \in Seq(Nat) /\ Len(s) \in Nat
      /\ \A i \in (a + 1)..(a + b) : i \in 1..Len(s)
  BY LenProperties DEF Bytes
<1>2. \A i \in (a + 1)..(a + b) : s[i] \in Nat
  BY <1>1
<1>3. /\ SubSeq(s, a + 1, a + b) \in Seq(Nat)
      /\ Len(SubSeq(s, a + 1, a + b)) = IF a + 1 <= a + b THEN (a + b) - (a + 1) + 1 ELSE 0
      /\ \A i \in 1..((a + b) - (a + 1) + 1) :
           SubSeq(s, a + 1, a + b)[i] = s[(a + 1) + i - 1]
  BY <1>1, <1>2, SubSeqProperties
<1>4. (a + b) - (a + 1) + 1 = b /\ \A i \in 1..b : (a + 1) + i - 1 = a + i
  OBVIOUS
<1> QED
  BY <1>3, <1>4 DEF Bytes

LEMMA FieldTyped ==
  ASSUME NEW field, field.kind \in Kinds
  PROVE  /\ HasWidth(field) => Width[field.kind] \in Nat
         /\ ~HasWidth(field) => field.kind \in {"string", "signature"}
<1>2. DOMAIN Width = {"uint32", "uint64", "bool", "account"}
  BY DEF Width
<1>3. \A kind \in DOMAIN Width : Width[kind] \in Nat
  BY SizeAssumption DEF Width
<1> QED
  BY <1>2, <1>3 DEF HasWidth, Kinds

LEMMA MapsExtended ==
  ASSUME NEW names, NEW map \in Maps(names), NEW name \in names, NEW value \in Bytes
  PROVE  With(map, name, value) \in Maps(names)
<1>1. PICK known \in SUBSET names : map \in [known -> Bytes]
  BY DEF Maps
<1> DEFINE more == known \cup {name}
<1>2. With(map, name, value) \in [more -> Bytes]
  BY <1>1 DEF With
<1>3. more \in SUBSET names
  OBVIOUS
<1> QED
  BY <1>2, <1>3 DEF Maps

\* What is left of a byte string after its first a.
From(s, a) == SubSeq(s, a + 1, Len(s))

LEMMA FromTyped ==
  ASSUME NEW s \in Bytes, NEW a \in Nat, a <= Len(s)
  PROVE  /\ From(s, a) \in Bytes /\ Len(From(s, a)) = Len(s) - a
         /\ \A i \in 1..(Len(s) - a) : From(s, a)[i] = s[a + i]
<1>1. Len(s) \in Nat
  BY LenProperties DEF Bytes
<1> DEFINE b == Len(s) - a
<1>2. b \in Nat /\ a + b = Len(s)
  BY <1>1
<1> HIDE DEF b
<1>3. /\ SubSeq(s, a + 1, a + b) \in Bytes /\ Len(SubSeq(s, a + 1, a + b)) = b
      /\ \A i \in 1..b : SubSeq(s, a + 1, a + b)[i] = s[a + i]
  <2>1. a + b <= Len(s)
    BY <1>1, <1>2
  <2> QED
    BY <1>2, <2>1, Slice
<1>4. /\ From(s, a) \in Bytes /\ Len(From(s, a)) = b
      /\ \A i \in 1..b : From(s, a)[i] = s[a + i]
  BY <1>2, <1>3 DEF From
<1> QED
  BY <1>4 DEF b

\* What is left after a and then b more.
LEMMA FromFrom ==
  ASSUME NEW s \in Bytes, NEW a \in Nat, NEW b \in Nat, a + b <= Len(s)
  PROVE  From(From(s, a), b) = From(s, a + b)
<1> DEFINE n == Len(s)
           t == From(s, a)
           x == From(t, b)
           y == From(s, a + b)
<1>0. n \in Nat
  BY LenProperties DEF Bytes
<1>1. a <= n /\ b <= n - a /\ a + b \in Nat /\ a + b <= n
  BY <1>0
<1>2. t \in Bytes /\ Len(t) = n - a /\ \A i \in 1..(n - a) : t[i] = s[a + i]
  BY <1>1, FromTyped
<1>3. y \in Bytes /\ Len(y) = n - (a + b) /\ \A i \in 1..(n - (a + b)) : y[i] = s[a + b + i]
  BY <1>1, FromTyped
<1> HIDE DEF n, t, y
<1>4. x \in Bytes /\ Len(x) = (n - a) - b /\ \A i \in 1..((n - a) - b) : x[i] = t[b + i]
  <2>1. b <= Len(t)
    BY <1>1, <1>2
  <2>2. x \in Bytes /\ Len(x) = Len(t) - b /\ \A i \in 1..(Len(t) - b) : x[i] = t[b + i]
    BY <1>2, <2>1, FromTyped
  <2> QED
    BY <1>2, <2>2
<1> HIDE DEF x
<1>5. \A i \in 1..((n - a) - b) : /\ b + i \in 1..(n - a) /\ i \in 1..(n - (a + b))
                                  /\ a + (b + i) = a + b + i
  BY <1>0, <1>1
<1>6. \A i \in 1..Len(x) : x[i] = y[i]
  BY <1>2, <1>3, <1>4, <1>5
<1>7. Len(x) = Len(y)
  BY <1>0, <1>3, <1>4
<1>8. x = y
  BY <1>3, <1>4, <1>6, <1>7, SeqEqual DEF Bytes
<1> QED
  BY <1>8 DEF x, y, t

\* How many bytes stand before a field's value, how many the value has.
Skip(field) == IF HasWidth(field) THEN 0 ELSE 1
Size(field, rest) ==
  IF HasWidth(field) THEN Width[field.kind] ELSE IF rest = <<>> THEN 0 ELSE Head(rest)

LEMMA ReadFieldIs ==
  ASSUME NEW state, NEW field
  PROVE  ReadField(state, field) =
           LET skip == Skip(field)
               size == Size(field, state.rest)
           IN  IF state.ok /\ Len(state.rest) >= skip + size
               THEN [ok   |-> TRUE,
                     args |-> With(state.args, field.name,
                                   SubSeq(state.rest, skip + 1, skip + size)),
                     rest |-> From(state.rest, skip + size)]
               ELSE [state EXCEPT !.ok = FALSE]
BY DEF ReadField, Skip, Size, From

LEMMA SizeTyped ==
  ASSUME NEW field, field.kind \in Kinds, NEW rest \in Bytes
  PROVE  Skip(field) \in Nat /\ Size(field, rest) \in Nat
<1>1. rest # <<>> => Head(rest) \in Nat
  BY HeadTailProperties DEF Bytes
<1> QED
  BY <1>1, FieldTyped DEF Skip, Size

LEMMA ReadFieldTyped ==
  ASSUME NEW names, NEW state \in Reader(names), NEW field, IsField(field, names)
  PROVE  ReadField(state, field) \in Reader(names)
<1>0. field.name \in names /\ field.kind \in Kinds
  BY DEF IsField
<1> DEFINE rest == state.rest
           skip == Skip(field)
           size == Size(field, rest)
           value == SubSeq(rest, skip + 1, skip + size)
           left == From(rest, skip + size)
           known == With(state.args, field.name, value)
           ok == state.ok /\ Len(rest) >= skip + size
<1>1. state.ok \in BOOLEAN /\ state.args \in Maps(names) /\ rest \in Bytes
  BY DEF Reader
<1>2. skip \in Nat /\ size \in Nat /\ Len(rest) \in Nat
  BY <1>0, <1>1, SizeTyped, LenProperties DEF Bytes
<1>3. ReadField(state, field) =
        IF ok THEN [ok |-> TRUE, args |-> known, rest |-> left]
              ELSE [state EXCEPT !.ok = FALSE]
  BY ReadFieldIs
<1> HIDE DEF rest, skip, size
<1>4. CASE ok
  <2>1. value \in Bytes /\ left \in Bytes
    <3>1. skip + size \in Nat /\ skip + size <= Len(rest)
      BY <1>2, <1>4
    <3> QED
      BY <1>1, <1>2, <3>1, Slice, FromTyped
  <2>2. known \in Maps(names)
    <3> HIDE DEF value
    <3> QED
      BY <1>0, <1>1, <2>1, MapsExtended
  <2> HIDE DEF known, left, ok
  <2>3. [ok |-> TRUE, args |-> known, rest |-> left] \in Reader(names)
    BY <2>1, <2>2 DEF Reader
  <2> QED
    BY <1>3, <1>4, <2>3
<1>5. CASE ~ok
  <2>1. [state EXCEPT !.ok = FALSE] \in Reader(names)
    BY DEF Reader
  <2> HIDE DEF ok
  <2> QED
    BY <1>3, <1>5, <2>1
<1> QED
  BY <1>4, <1>5

\* A field that stands whole at the front is read, one cut short is not.
LEMMA FieldRead ==
  ASSUME NEW names, NEW field, IsField(field, names), NEW value \in Values[field.kind],
         NEW state \in Reader(names), state.ok,
         \A j \in 1..Len(Written(field, value)) :
           j <= Len(state.rest) => state.rest[j] = Written(field, value)[j]
  PROVE  /\ Written(field, value) \in Bytes
         /\ IF Len(Written(field, value)) <= Len(state.rest)
            THEN ReadField(state, field) =
                   [ok |-> TRUE, args |-> With(state.args, field.name, value),
                    rest |-> From(state.rest, Len(Written(field, value)))]
            ELSE ~ ReadField(state, field).ok
<1> DEFINE rest == state.rest
           p == Written(field, value)
           skip == Skip(field)
           size == Size(field, rest)
           read == SubSeq(rest, skip + 1, skip + size)
           known == With(state.args, field.name, read)
           left == From(rest, skip + size)
<1>0. field.kind \in Kinds
  BY DEF IsField
<1>1. rest \in Bytes /\ Len(rest) \in Nat
  BY LenProperties DEF Reader, Bytes
<1>2. value \in Bytes /\ Len(value) \in Nat
  BY <1>0, ValuesAssumption, LenProperties DEF Bytes
<1>3. /\ p \in Bytes /\ Len(p) = skip + Len(value) /\ skip \in Nat
      /\ \A i \in 1..Len(value) : p[skip + i] = value[i]
  <2>1. CASE HasWidth(field)
    <3>1. p = value /\ skip = 0
      BY <2>1 DEF Written, Skip
    <3> QED
      BY <1>2, <3>1
  <2>2. CASE ~HasWidth(field)
    <3>1. p = <<Len(value)>> \o value /\ skip = 1
      BY <2>2 DEF Written, Skip
    <3>2. <<Len(value)>> \in Bytes /\ Len(<<Len(value)>>) = 1
      BY <1>2 DEF Bytes
    <3>3. p \in Bytes /\ IsJoined(p, <<Len(value)>>, value)
      BY <1>2, <3>1, <3>2, BytesJoined
    <3> HIDE DEF p
    <3> QED
      BY <1>2, <3>1, <3>2, <3>3 DEF IsJoined
  <2> QED
    BY <2>1, <2>2
<1>4. size \in Nat
  BY <1>0, <1>1, SizeTyped
<1>5. /\ Len(rest) >= skip + size <=> Len(p) <= Len(rest)
      /\ Len(p) <= Len(rest) => size = Len(value)
  <2>1. CASE HasWidth(field)
    <3>1. size = Width[field.kind] /\ Len(value) = Width[field.kind]
      BY <2>1, ValuesAssumption DEF Size, HasWidth
    <3> HIDE DEF p, rest, size, skip
    <3> QED
      BY <1>1, <1>3, <1>4, <3>1
  <2>2. CASE ~HasWidth(field)
    <3>1. skip = 1
      BY <2>2 DEF Skip
    <3>2. p[1] = Len(value)
      <4>1. p = <<Len(value)>> \o value /\ <<Len(value)>> \in Bytes
        BY <1>2, <2>2 DEF Written, Bytes
      <4>2. IsJoined(p, <<Len(value)>>, value)
        BY <1>2, <4>1, BytesJoined
      <4>3. Len(<<Len(value)>>) = 1 /\ <<Len(value)>>[1] = Len(value) /\ 1 \in 1..1
        OBVIOUS
      <4> HIDE DEF p
      <4> QED
        BY <4>2, <4>3 DEF IsJoined
    <3>3. CASE rest = <<>>
      <4>1. Len(rest) = 0
        BY <3>3
      <4> HIDE DEF p, rest, size, skip
      <4> QED
        BY <1>2, <1>3, <1>4, <3>1, <4>1
    <3>4. CASE rest # <<>>
      <4>1. size = rest[1] /\ Len(rest) >= 1
        BY <1>1, <2>2, <3>4 DEF Size, Bytes
      <4>2. rest[1] = p[1]
        <5>1. 1 \in 1..Len(p)
          <6> HIDE DEF p, skip
          <6> QED
            BY <1>2, <1>3, <3>1
        <5> QED
          BY <4>1, <5>1
      <4>3. size = Len(value)
        BY <3>2, <4>1, <4>2
      <4> HIDE DEF p, rest, size, skip
      <4> QED
        BY <1>1, <1>2, <1>3, <3>1, <4>3
    <3> QED
      BY <3>3, <3>4
  <2> QED
    BY <2>1, <2>2
<1>6. ReadField(state, field) =
        IF Len(rest) >= skip + size
        THEN [ok |-> TRUE, args |-> known, rest |-> left]
        ELSE [state EXCEPT !.ok = FALSE]
  BY ReadFieldIs
<1>7. CASE Len(p) <= Len(rest)
  <2>1. size = Len(value) /\ skip + size = Len(p)
    BY <1>3, <1>5, <1>7
  <2>2. read = value
    <3>1. /\ read \in Bytes /\ Len(read) = size
          /\ \A i \in 1..size : read[i] = rest[skip + i]
      <4>1. skip + size <= Len(rest)
        BY <1>7, <2>1
      <4> HIDE DEF rest, skip, size
      <4> QED
        BY <1>1, <1>3, <1>4, <4>1, Slice
    <3>2. \A i \in 1..size : skip + i \in 1..Len(p) /\ skip + i <= Len(rest)
      <4> HIDE DEF p, rest, skip, size
      <4> QED
        BY <1>1, <1>2, <1>3, <1>4, <1>7, <2>1
    <3>3. \A i \in 1..size : rest[skip + i] = p[skip + i]
      BY <3>2
    <3> HIDE DEF read, p, rest, skip, size
    <3>4. \A i \in 1..Len(read) : read[i] = value[i]
      BY <1>3, <2>1, <3>1, <3>3
    <3> QED
      BY <1>2, <2>1, <3>1, <3>4, SeqEqual DEF Bytes
  <2>3. ReadField(state, field) = [ok |-> TRUE, args |-> known, rest |-> left]
    BY <1>5, <1>6, <1>7
  <2>4. known = With(state.args, field.name, value) /\ left = From(rest, Len(p))
    BY <2>1, <2>2
  <2> HIDE DEF known, left
  <2> QED
    BY <1>3, <1>7, <2>3, <2>4
<1>8. CASE ~(Len(p) <= Len(rest))
  <2>1. ReadField(state, field) = [state EXCEPT !.ok = FALSE]
    BY <1>5, <1>6, <1>8
  <2>2. ~[state EXCEPT !.ok = FALSE].ok
    BY DEF Reader
  <2> QED
    BY <1>3, <1>8, <2>1, <2>2
<1> QED
  BY <1>7, <1>8
-----------------------------------------------------------------------------
(* Reading all fields of a format.                                         *)

IsFormat(format, n) ==
  n \in Nat /\ DOMAIN format = 1..n /\ \A k \in 1..n : format[k].kind \in Kinds
NamesOf(format) == {format[k].name : k \in DOMAIN format}

\* Every field has a value of its kind.
Fits(format, args) ==
  \A i \in DOMAIN format : args[format[i].name] \in Values[format[i].kind]

Parts(format, args) ==
  [i \in DOMAIN format |-> Written(format[i], args[format[i].name])]

LEMMA SerializeRun ==
  ASSUME NEW format, NEW n, IsFormat(format, n), NEW args, Fits(format, args)
  PROVE  /\ \A k \in 1..n : Parts(format, args)[k] \in Bytes
         /\ \E whole : /\ IsWriting(whole, Parts(format, args), n)
                       /\ Serialize(format, args) = whole[n]
<1> DEFINE parts == Parts(format, args)
<1>0. n \in Nat /\ DOMAIN format = 1..n
  BY DEF IsFormat
<1>1. \A k \in 1..n : parts[k] \in Bytes
  <2> SUFFICES ASSUME NEW k \in 1..n PROVE parts[k] \in Bytes
    OBVIOUS
  <2> DEFINE value == args[format[k].name]
  <2>1. format[k].kind \in Kinds /\ value \in Values[format[k].kind]
    BY DEF IsFormat, Fits
  <2>2. value \in Bytes /\ Len(value) \in Nat
    BY <2>1, ValuesAssumption, LenProperties DEF Bytes
  <2>3. parts[k] = Written(format[k], value)
    BY <1>0 DEF Parts
  <2> HIDE DEF value, parts
  <2>4. <<Len(value)>> \in Bytes
    BY <2>2 DEF Bytes
  <2>5. Written(format[k], value) \in Bytes
    BY <2>2, <2>4, BytesJoined DEF Written
  <2> QED
    BY <2>3, <2>5
<1>2. DOMAIN parts = 1..n /\ Len(parts) = n
  BY <1>0 DEF Parts
<1>3. n = 0 => parts = <<>>
  BY <1>0 DEF Parts
<1>4. Serialize(format, args) = FlattenSeq(parts)
  BY DEF Serialize, Parts
<1> HIDE DEF parts
<1>5. \E whole : IsWriting(whole, parts, n) /\ FlattenSeq(parts) = whole[n]
  BY <1>0, <1>1, <1>2, <1>3, FlattenRun
<1> QED
  BY <1>1, <1>4, <1>5 DEF parts

IsReadingOf(h, state, format) ==
  h = [t \in SUBSET (DOMAIN format) |->
         IF t = {} THEN state ELSE ReadField(h[t \ {Top(t)}], format[Top(t)])]

LEMMA ReadFieldsIs ==
  ASSUME NEW state, NEW format
  PROVE  FoldLeft(ReadField, state, format) =
           (CHOOSE h : IsReadingOf(h, state, format))[DOMAIN format]
BY DEF IsReadingOf, Top, FoldLeft, MapThenFoldSet, Max

\* The states the reader goes through, by the number of fields read.
IsRun(r, state, format, n) ==
  /\ r \in [0..n -> Reader(NamesOf(format))]
  /\ r[0] = state
  /\ \A k \in 1..n : r[k] = ReadField(r[k - 1], format[k])

LEMMA ReadRun ==
  ASSUME NEW format, NEW n, IsFormat(format, n), NEW state \in Reader(NamesOf(format))
  PROVE  \E r : IsRun(r, state, format, n) /\ FoldLeft(ReadField, state, format) = r[n]
<1> DEFINE Readers == Reader(NamesOf(format))
           step == [p \in (1..n) \X Readers |-> ReadField(p[2], format[p[1]])]
           h == CHOOSE g : IsReadingOf(g, state, format)
<1>0. n \in Nat /\ DOMAIN format = 1..n /\ \A k \in 1..n : IsField(format[k], NamesOf(format))
  BY DEF IsFormat, IsField, NamesOf
<1>1. step \in Steps(n, Readers)
  <2>1. \A k \in 1..n, x \in Readers : ReadField(x, format[k]) \in Readers
    BY <1>0, ReadFieldTyped
  <2> QED
    BY <2>1 DEF Steps
<1>2. \A k \in 1..n, x \in Readers : step[<<k, x>>] = ReadField(x, format[k])
  OBVIOUS
<1> HIDE DEF step
<1>3. \A t \in SUBSET (1..n) : t # {} => Top(t) \in 1..n
  BY <1>0, TopTaken
<1>4. IsReadingOf(h, state, format)
  <2>1. PICK g \in [SUBSET (1..n) -> Readers] : IsFold(g, n, state, step)
    BY <1>0, <1>1, FoldExists
  <2>2. \A t \in SUBSET (1..n) : t # {} =>
          step[<<Top(t), g[t \ {Top(t)}]>>] = ReadField(g[t \ {Top(t)}], format[Top(t)])
    BY <1>2, <1>3
  <2>3. g = [t \in SUBSET (1..n) |->
               IF t = {} THEN state ELSE ReadField(g[t \ {Top(t)}], format[Top(t)])]
    BY <2>1, <2>2 DEF IsFold
  <2>4. IsReadingOf(g, state, format)
    BY <1>0, <2>3 DEF IsReadingOf
  <2> QED
    BY <2>4
<1> HIDE DEF h
<1>5. Goes(h, n, Readers, state, step)
  BY <1>0, <1>2, <1>3, <1>4 DEF IsReadingOf, Goes
<1>6. IsChain(Along(h, n), n, Readers, state, step) /\ Along(h, n)[n] = h[1..n]
  BY <1>0, <1>1, <1>5, FoldAlong
<1> DEFINE r == Along(h, n)
<1>7. IsRun(r, state, format, n)
  <2>1. /\ r \in [0..n -> Readers] /\ r[0] = state
        /\ \A k \in 1..n : r[k] = step[<<k, r[k - 1]>>]
    BY <1>6 DEF IsChain
  <2> HIDE DEF r
  <2>2. \A k \in 1..n : r[k - 1] \in Readers
    BY <1>0, <2>1
  <2>3. \A k \in 1..n : r[k] = ReadField(r[k - 1], format[k])
    BY <1>2, <2>1, <2>2
  <2> QED
    BY <2>1, <2>3 DEF IsRun
<1>8. FoldLeft(ReadField, state, format) = r[n]
  BY <1>0, <1>6, ReadFieldsIs DEF h
<1> QED
  BY <1>7, <1>8

\* What is known when the first fields are read.
Known(format, args, k) == [name \in {format[i].name : i \in 1..k} |-> args[name]]

LEMMA KnownMore ==
  ASSUME NEW format, NEW args, NEW k \in Nat, k # 0
  PROVE  With(Known(format, args, k - 1), format[k].name, args[format[k].name])
           = Known(format, args, k)
<1> DEFINE before == {format[i].name : i \in 1..(k - 1)}
           name == format[k].name
           after == {format[i].name : i \in 1..k}
<1>1. after = before \cup {name}
  <2>1. \A i : i \in 1..k <=> i \in 1..(k - 1) \/ i = k
    OBVIOUS
  <2> QED
    BY <2>1
<1>2. Known(format, args, k - 1) = [x \in before |-> args[x]]
  BY DEF Known
<1>3. Known(format, args, k) = [x \in after |-> args[x]]
  BY DEF Known
<1> HIDE DEF before, after, name
<1>4. With([x \in before |-> args[x]], name, args[name])
        = [x \in before \cup {name} |-> args[x]]
  BY DEF With
<1> QED
  BY <1>1, <1>2, <1>3, <1>4 DEF name

\* The first n bytes of one string, as far as it goes, are those of the other.
Agree(bytes, message) ==
  \A i \in 1..Len(message) : i <= Len(bytes) => bytes[i] = message[i]

\* Having read k fields of the message out of the bytes.
HasRead(state, format, args, bytes, size, k) ==
  IF size <= Len(bytes)
  THEN state = [ok |-> TRUE, args |-> Known(format, args, k), rest |-> From(bytes, size)]
  ELSE ~ state.ok

LEMMA ReadStep ==
  ASSUME NEW format, NEW n, IsFormat(format, n), NEW args, Fits(format, args),
         NEW bytes \in Bytes, NEW whole, IsWriting(whole, Parts(format, args), n),
         \A k \in 1..n : Parts(format, args)[k] \in Bytes,
         Agree(bytes, whole[n]),
         NEW k \in 1..n, NEW state \in Reader(NamesOf(format)),
         HasRead(state, format, args, bytes, Len(whole[k - 1]), k - 1)
  PROVE  HasRead(ReadField(state, format[k]), format, args, bytes, Len(whole[k]), k)
<1> DEFINE parts == Parts(format, args)
           field == format[k]
           value == args[field.name]
           p == parts[k]
           a == Len(whole[k - 1])
           b == Len(whole[k])
           next == ReadField(state, field)
<1>1. /\ n \in Nat /\ IsField(field, NamesOf(format)) /\ value \in Values[field.kind]
      /\ p = Written(field, value) /\ k \in Nat /\ k # 0
  BY DEF IsFormat, IsField, NamesOf, Fits, Parts
<1>2. Len(bytes) \in Nat
  BY LenProperties DEF Bytes
<1>3. a \in Nat /\ Len(p) \in Nat /\ b = a + Len(p)
  <2>1. IsJoined(whole[k], whole[k - 1], p)
    BY <1>1, WritingStep
  <2> QED
    BY <2>1 DEF IsJoined
<1>4. b <= Len(whole[n]) /\ Len(whole[n]) \in Nat
      /\ \A j \in 1..Len(p) : whole[n][a + j] = p[j]
  <2> HIDE DEF parts
  <2>1. n \in 0..n
    BY <1>1
  <2>2. Len(whole[n]) \in Nat
    BY <1>1, <2>1, WritingGrows DEF parts
  <2>3. b <= Len(whole[n]) /\ \A j \in 1..Len(p) : whole[n][a + j] = p[j]
    BY <1>1, PartPlaced DEF parts
  <2> QED
    BY <2>2, <2>3
<1>5. \A i \in 1..Len(whole[n]) : i <= Len(bytes) => bytes[i] = whole[n][i]
  BY DEF Agree
<1>6. HasRead(state, format, args, bytes, a, k - 1)
  OBVIOUS
<1>7. With(Known(format, args, k - 1), field.name, value) = Known(format, args, k)
  BY <1>1, KnownMore
<1> HIDE DEF parts, p, field, value, a, b
<1>8. CASE a <= Len(bytes)
  <2> DEFINE rest == From(bytes, a)
  <2>1. state.ok /\ state.args = Known(format, args, k - 1) /\ state.rest = rest
    BY <1>6, <1>8 DEF HasRead
  <2>2. Len(rest) = Len(bytes) - a /\ \A i \in 1..(Len(bytes) - a) : rest[i] = bytes[a + i]
    BY <1>3, <1>8, FromTyped
  <2> HIDE DEF rest
  <2>3. ASSUME NEW j \in 1..Len(p), j <= Len(rest) PROVE rest[j] = p[j]
    <3>1. j \in 1..(Len(bytes) - a) /\ a + j \in 1..Len(whole[n]) /\ a + j <= Len(bytes)
      BY <1>2, <1>3, <1>4, <2>2, <2>3
    <3> QED
      BY <1>4, <1>5, <2>2, <3>1
  <2>4. IF Len(p) <= Len(rest)
        THEN next = [ok |-> TRUE, args |-> With(state.args, field.name, value),
                     rest |-> From(rest, Len(p))]
        ELSE ~ next.ok
    BY <1>1, <2>1, <2>3, FieldRead
  <2>5. Len(p) <= Len(rest) <=> b <= Len(bytes)
    BY <1>2, <1>3, <2>2
  <2>6. CASE b <= Len(bytes)
    <3>1. From(rest, Len(p)) = From(bytes, b)
      BY <1>3, <2>6, FromFrom DEF rest
    <3> QED
      BY <1>7, <2>1, <2>4, <2>5, <2>6, <3>1 DEF HasRead, b, field
  <2>7. CASE ~(b <= Len(bytes))
    BY <2>4, <2>5, <2>7 DEF HasRead, b, field
  <2> QED
    BY <2>6, <2>7
<1>9. CASE ~(a <= Len(bytes))
  <2>1. ~ state.ok
    BY <1>6, <1>9 DEF HasRead
  <2>2. next = [state EXCEPT !.ok = FALSE]
    BY <2>1, ReadFieldIs
  <2>3. ~ next.ok
    BY <2>2 DEF Reader
  <2>4. ~(b <= Len(bytes))
    BY <1>2, <1>3, <1>9
  <2> QED
    BY <2>3, <2>4 DEF HasRead, b, field
<1> QED
  BY <1>8, <1>9

\* A message is read back as it was written when all of it is there, and
\* refused when it is cut short.
LEMMA ReadsBack ==
  ASSUME NEW format, NEW n, IsFormat(format, n), NEW args, Fits(format, args),
         NEW bytes \in Bytes, Agree(bytes, Serialize(format, args))
  PROVE  /\ Serialize(format, args) \in Bytes
         /\ IF Len(Serialize(format, args)) <= Len(bytes)
            THEN Deserialize(format, bytes) = [ok |-> TRUE, args |-> Known(format, args, n)]
            ELSE ~ Deserialize(format, bytes).ok
<1> DEFINE start == [ok |-> TRUE, args |-> <<>>, rest |-> bytes]
           parts == Parts(format, args)
<1>0. n \in Nat
  BY DEF IsFormat
<1>1. PICK whole : IsWriting(whole, parts, n) /\ Serialize(format, args) = whole[n]
  BY SerializeRun
<1>2. \A k \in 1..n : parts[k] \in Bytes
  BY SerializeRun
<1>3. start \in Reader(NamesOf(format))
  <2>1. <<>> \in [{} -> Bytes] /\ {} \in SUBSET NamesOf(format)
    OBVIOUS
  <2>2. <<>> \in Maps(NamesOf(format))
    BY <2>1 DEF Maps
  <2> QED
    BY <2>2 DEF Reader
<1> HIDE DEF start
<1>4. PICK r : IsRun(r, start, format, n) /\ FoldLeft(ReadField, start, format) = r[n]
  BY <1>3, ReadRun
<1>5. /\ r \in [0..n -> Reader(NamesOf(format))] /\ r[0] = start
      /\ \A k \in 1..n : r[k] = ReadField(r[k - 1], format[k])
  BY <1>4 DEF IsRun
<1> DEFINE Read(k) == HasRead(r[k], format, args, bytes, Len(whole[k]), k)
           N == {k \in Nat : k <= n => Read(k)}
<1>6. 0 \in N
  <2>1. whole[0] = <<>> /\ Len(<<>>) = 0
    BY <1>1 DEF IsWriting
  <2>2. Len(bytes) \in Nat /\ From(bytes, 0) = bytes
    <3>1. bytes \in Seq(Nat) /\ 0 + 1 = 1
      BY DEF Bytes
    <3> QED
      BY <3>1, SubSeqFull, LenProperties DEF From
  <2>3. Known(format, args, 0) = <<>>
    <3>1. 1..0 = {}
      OBVIOUS
    <3> QED
      BY <3>1 DEF Known
  <2>4. r[0] = [ok |-> TRUE, args |-> Known(format, args, 0), rest |-> From(bytes, 0)]
    BY <1>5, <2>2, <2>3 DEF start
  <2>5. Len(whole[0]) = 0 /\ 0 <= Len(bytes)
    BY <2>1, <2>2
  <2>6. Read(0)
    BY <2>4, <2>5 DEF HasRead
  <2> QED
    BY <2>6
<1>7. ASSUME NEW k \in Nat, k \in N, k + 1 <= n PROVE Read(k + 1)
  <2> DEFINE m == k + 1
  <2>1. m \in 1..n /\ m - 1 = k /\ m - 1 \in 0..n /\ k <= n
    BY <1>0, <1>7
  <2>2. HasRead(r[m - 1], format, args, bytes, Len(whole[m - 1]), m - 1)
    BY <1>7, <2>1
  <2>3. r[m - 1] \in Reader(NamesOf(format)) /\ r[m] = ReadField(r[m - 1], format[m])
    BY <1>5, <2>1
  <2>4. Agree(bytes, whole[n])
    BY <1>1
  <2> HIDE DEF m
  <2>5. HasRead(r[m], format, args, bytes, Len(whole[m]), m)
    BY <1>1, <1>2, <2>1, <2>2, <2>3, <2>4, ReadStep
  <2> QED
    BY <2>5 DEF m
<1>8. Nat \subseteq N
  <2> HIDE DEF Read
  <2>1. \A k \in Nat : k \in N => k + 1 \in N
    BY <1>7
  <2> HIDE DEF N
  <2> QED
    BY <1>6, <2>1, SetInduction
<1>9. Read(n)
  BY <1>0, <1>8
<1>10. Deserialize(format, bytes) = [ok |-> r[n].ok, args |-> r[n].args]
  BY <1>4 DEF Deserialize, start
<1>11. whole[n] \in Bytes
  BY <1>0, <1>1 DEF IsWriting
<1> DEFINE message == Serialize(format, args)
<1>12. message = whole[n]
  BY <1>1
<1>13. CASE Len(message) <= Len(bytes)
  <2>1. r[n] = [ok |-> TRUE, args |-> Known(format, args, n), rest |-> From(bytes, Len(message))]
    BY <1>9, <1>12, <1>13 DEF HasRead
  <2> HIDE DEF message
  <2> QED
    BY <1>10, <1>11, <1>12, <1>13, <2>1 DEF message
<1>14. CASE ~(Len(message) <= Len(bytes))
  <2>1. ~ r[n].ok
    BY <1>9, <1>12, <1>14 DEF HasRead
  <2> HIDE DEF message
  <2> QED
    BY <1>10, <1>11, <1>12, <1>14, <2>1 DEF message
<1> QED
  BY <1>13, <1>14
-----------------------------------------------------------------------------
(* The keys of the state set: no two records share one.                    *)

Addresses == [1..AddressSize -> Nat]
PrefixOf ==
  [balance |-> KeyPrefixBalance, prepared |-> KeyPrefixPrepareWithdraw,
   round |-> KeyPrefixCurrentRound, profit |-> KeyPrefixSpProfit,
   withdrawn |-> KeyPrefixDWithdraw, relay |-> KeyPrefixRelay,
   cancelNumber |-> KeyPrefixDCancelOrder, order |-> KeyPrefixOrder]
Pairwise == {"balance", "prepared"}

\* What stands behind the prefix in a record's key.
Place(record) ==
  IF record.kind = "round" THEN <<>>
  ELSE IF record.kind \in Pairwise THEN record.of[1] \o record.of[2] ELSE record.of[1]

IsRecord(record) ==
  /\ record.kind \in DOMAIN PrefixOf
  /\ record = [kind |-> record.kind, of |-> record.of]
  /\ record.kind = "round" => record.of = <<>>
  /\ record.kind \in Pairwise =>
       \E user \in Users, token \in Tokens : record.of = <<user, token>>
  /\ record.kind = "profit" => \E token \in Tokens : record.of = <<token>>
  /\ record.kind \in {"relay", "cancelNumber"} => \E user \in Users : record.of = <<user>>
  /\ record.kind \in {"withdrawn", "order"} => \E hash \in Hashes : record.of = <<hash>>

LEMMA RecordCases ==
  ASSUME NEW record \in Records
  PROVE  IsRecord(record)
<1> USE DEF IsRecord, PrefixOf, Pairwise
<1>1. CASE record \in [kind : {"round"}, of : {<<>>}]
  BY <1>1
<1>2. CASE record \in [kind : {"balance", "prepared"}, of : Users \X Tokens]
  BY <1>2
<1>3. CASE record \in [kind : {"profit"}, of : {<<token>> : token \in Tokens}]
  BY <1>3
<1>4. CASE record \in [kind : {"relay", "cancelNumber"}, of : {<<user>> : user \in Users}]
  BY <1>4
<1>5. CASE record \in [kind : {"withdrawn", "order"}, of : {<<hash>> : hash \in Hashes}]
  BY <1>5
<1> HIDE DEF IsRecord
<1> QED
  BY <1>1, <1>2, <1>3, <1>4, <1>5 DEF Records

LEMMA AddressTyped ==
  ASSUME NEW a \in Addresses
  PROVE  a \in Bytes /\ Len(a) = AddressSize /\ AddressSize \in Nat
BY SizeAssumption DEF Addresses, Bytes

LEMMA PlaceTyped ==
  ASSUME NEW record, IsRecord(record)
  PROVE  Place(record) \in Bytes
<1> USE DEF IsRecord, Pairwise
<1>0. Users \subseteq Addresses /\ Tokens \subseteq Addresses /\ Hashes \subseteq Bytes
  BY AddressAssumption, HashAssumption DEF Addresses, Bytes
<1>1. CASE record.kind = "round"
  BY <1>1 DEF Place, Bytes
<1>2. CASE record.kind \in Pairwise
  <2>1. PICK user \in Users, token \in Tokens : record.of = <<user, token>>
    BY <1>2
  <2>2. user \in Bytes /\ token \in Bytes
    BY <1>0, AddressTyped
  <2>3. user \o token \in Bytes
    BY <2>2, BytesJoined
  <2> QED
    BY <1>2, <2>1, <2>3 DEF Place
<1>3. CASE record.kind \in {"relay", "cancelNumber"}
  <2>1. PICK user \in Users : record.of = <<user>>
    BY <1>3
  <2>2. user \in Bytes
    BY <1>0, AddressTyped
  <2> QED
    BY <1>3, <2>1, <2>2 DEF Place
<1>4. CASE record.kind = "profit"
  <2>1. PICK token \in Tokens : record.of = <<token>>
    BY <1>4
  <2>2. token \in Bytes
    BY <1>0, AddressTyped
  <2> QED
    BY <1>4, <2>1, <2>2 DEF Place
<1>5. CASE record.kind \in {"withdrawn", "order"}
  <2>1. PICK hash \in Hashes : record.of = <<hash>>
    BY <1>5
  <2> QED
    BY <1>0, <1>5, <2>1 DEF Place
<1> QED
  BY <1>1, <1>2, <1>3, <1>4, <1>5 DEF PrefixOf

LEMMA PrefixKeyTyped ==
  ASSUME NEW prefix \in Nat
  PROVE  /\ GetPrefixKey(prefix) \in Bytes
         /\ Len(GetPrefixKey(prefix)) = AddressSize + 1
         /\ GetPrefixKey(prefix)[AddressSize + 1] = prefix
<1>1. DexAddress \in Addresses
  BY AddressAssumption DEF Addresses
<1>2. DexAddress \in Seq(Nat) /\ Len(DexAddress) = AddressSize
  BY <1>1, AddressTyped DEF Bytes
<1> QED
  BY <1>2, AppendProperties DEF GetPrefixKey, Bytes

LEMMA KeyShape ==
  ASSUME NEW record, IsRecord(record)
  PROVE  /\ PrefixOf[record.kind] \in Nat
         /\ KeyOf(record) = GetPrefixKey(PrefixOf[record.kind]) \o Place(record)
         /\ KeyOf(record) \in Bytes
<1> DEFINE kind == record.kind
           key == GetPrefixKey(PrefixOf[kind])
<1>1. kind \in DOMAIN PrefixOf
  BY DEF IsRecord
<1>2. PrefixOf[kind] \in Nat
  BY <1>1 DEF PrefixOf, KeyPrefixBalance, KeyPrefixPrepareWithdraw, KeyPrefixCurrentRound,
              KeyPrefixSpProfit, KeyPrefixDWithdraw, KeyPrefixRelay, KeyPrefixDCancelOrder,
              KeyPrefixOrder
<1>3. key \in Bytes /\ Place(record) \in Bytes
  BY <1>2, PrefixKeyTyped, PlaceTyped
<1>4. key \o Place(record) \in Bytes
  BY <1>3, BytesJoined
<1>5. CASE kind = "round"
  <2>1. key \o <<>> = key
    BY <1>3, ConcatEmptySeq DEF Bytes
  <2> QED
    BY <1>2, <1>4, <1>5, <2>1 DEF KeyOf, GetCurrentRoundKey, Place, PrefixOf
<1>6. CASE kind \in Pairwise
  <2>1. PICK user \in Users, token \in Tokens : record.of = <<user, token>>
    BY <1>6 DEF IsRecord
  <2>2. user \in Seq(Nat) /\ token \in Seq(Nat) /\ key \in Seq(Nat)
    BY <1>3, AddressAssumption, AddressTyped DEF Addresses, Bytes
  <2>3. (key \o user) \o token = key \o (user \o token)
    BY <2>2, ConcatAssociative
  <2>4. Place(record) = user \o token
    BY <1>6, <2>1 DEF Place, Pairwise
  <2>5. KeyOf(record) = (key \o user) \o token
    BY <1>6, <2>1 DEF KeyOf, GetBalanceKey, GetPreparedWithdrawKey, PrefixOf, Pairwise
  <2> QED
    BY <1>2, <1>4, <2>3, <2>4, <2>5
<1>7. CASE kind \notin Pairwise \cup {"round"}
  <2>1. KeyOf(record) = key \o record.of[1]
    <3>1. CASE kind = "profit"
      BY <3>1 DEF KeyOf, GetSpProfitKey, PrefixOf
    <3>2. CASE kind = "withdrawn"
      BY <3>2 DEF KeyOf, GetDWithdrawKey, PrefixOf
    <3>3. CASE kind = "relay"
      BY <3>3 DEF KeyOf, GetAccountKey, PrefixOf
    <3>4. CASE kind = "cancelNumber"
      BY <3>4 DEF KeyOf, GetAccountKey, PrefixOf
    <3>5. CASE kind = "order"
      BY <3>5 DEF KeyOf, GetOrderIdKey, PrefixOf
    <3> QED
      BY <1>1, <1>7, <3>1, <3>2, <3>3, <3>4, <3>5 DEF PrefixOf, Pairwise
  <2>2. Place(record) = record.of[1]
    BY <1>7 DEF Place
  <2> QED
    BY <1>2, <1>4, <2>1, <2>2
<1> QED
  BY <1>5, <1>6, <1>7

\* Two strings that begin with equally long parts and are equal have equal parts.
LEMMA JoinedEqual ==
  ASSUME NEW s \in Bytes, NEW t \in Bytes, NEW u \in Bytes, NEW v \in Bytes,
         Len(s) = Len(u), s \o t = u \o v
  PROVE  s = u /\ t = v
<1> DEFINE x == s \o t
<1>1. IsJoined(x, s, t)
  BY BytesJoined
<1>2. IsJoined(x, u, v)
  <2>1. x = u \o v
    OBVIOUS
  <2> HIDE DEF x
  <2> QED
    BY <2>1, BytesJoined
<1> HIDE DEF x
<1>3. /\ \A i \in 1..Len(s) : s[i] = u[i]
      /\ Len(t) = Len(v)
      /\ \A j \in 1..Len(t) : t[j] = v[j]
  <2>1. /\ Len(s) \in Nat /\ Len(t) \in Nat /\ Len(v) \in Nat
        /\ Len(x) = Len(s) + Len(t) /\ Len(x) = Len(u) + Len(v)
    BY <1>1, <1>2 DEF IsJoined
  <2>2. Len(t) = Len(v)
    BY <2>1
  <2> QED
    BY <1>1, <1>2, <2>2 DEF IsJoined
<1>4. s = u
  BY <1>3, SeqEqual DEF Bytes
<1>5. t = v
  BY <1>3, SeqEqual DEF Bytes
<1> QED
  BY <1>4, <1>5

LEMMA PrefixesDiffer ==
  ASSUME NEW k \in DOMAIN PrefixOf, NEW l \in DOMAIN PrefixOf, PrefixOf[k] = PrefixOf[l]
  PROVE  k = l
BY DEF PrefixOf, KeyPrefixBalance, KeyPrefixPrepareWithdraw, KeyPrefixCurrentRound,
       KeyPrefixSpProfit, KeyPrefixDWithdraw, KeyPrefixRelay, KeyPrefixDCancelOrder,
       KeyPrefixOrder

\* Records of one kind have places of their own.
LEMMA PlaceOwn ==
  ASSUME NEW r, IsRecord(r), NEW q, IsRecord(q), r.kind = q.kind, Place(r) = Place(q)
  PROVE  r.of = q.of
<1> USE DEF IsRecord, Pairwise
<1>1. CASE r.kind = "round"
  BY <1>1
<1>2. CASE r.kind \in Pairwise
  <2>1. PICK u \in Users, t \in Tokens : r.of = <<u, t>>
    BY <1>2
  <2>2. PICK v \in Users, s \in Tokens : q.of = <<v, s>>
    BY <1>2
  <2>3. u \in Addresses /\ t \in Addresses /\ v \in Addresses /\ s \in Addresses
    BY AddressAssumption DEF Addresses
  <2>4. Place(r) = u \o t /\ Place(q) = v \o s
    BY <1>2, <2>1, <2>2 DEF Place
  <2>5. /\ u \in Bytes /\ t \in Bytes /\ v \in Bytes /\ s \in Bytes /\ Len(u) = Len(v)
    BY <2>3, AddressTyped
  <2>6. u = v /\ t = s
    BY <2>4, <2>5, JoinedEqual
  <2> QED
    BY <2>1, <2>2, <2>6
<1>3. CASE r.kind \in {"profit", "relay", "cancelNumber", "withdrawn", "order"}
  <2>1. PICK x : r.of = <<x>>
    BY <1>3
  <2>2. PICK y : q.of = <<y>>
    BY <1>3
  <2>3. Place(r) = x /\ Place(q) = y
    BY <1>3, <2>1, <2>2 DEF Place
  <2> QED
    BY <2>1, <2>2, <2>3
<1> QED
  BY <1>1, <1>2, <1>3 DEF PrefixOf

\* No two records share a key.
LEMMA KeysApart ==
  ASSUME NEW r \in Records, NEW q \in Records, KeyOf(r) = KeyOf(q)
  PROVE  r = q
<1> DEFINE s == GetPrefixKey(PrefixOf[r.kind])
           u == GetPrefixKey(PrefixOf[q.kind])
<1>1. IsRecord(r) /\ IsRecord(q)
  BY RecordCases
<1>2. /\ PrefixOf[r.kind] \in Nat /\ KeyOf(r) = s \o Place(r)
      /\ PrefixOf[q.kind] \in Nat /\ KeyOf(q) = u \o Place(q)
  BY <1>1, KeyShape
<1>3. /\ s \in Bytes /\ u \in Bytes /\ Len(s) = Len(u)
      /\ s[AddressSize + 1] = PrefixOf[r.kind] /\ u[AddressSize + 1] = PrefixOf[q.kind]
  BY <1>2, PrefixKeyTyped
<1> HIDE DEF s, u
<1>4. Place(r) \in Bytes /\ Place(q) \in Bytes
  BY <1>1, PlaceTyped
<1>5. s = u /\ Place(r) = Place(q)
  BY <1>2, <1>3, <1>4, JoinedEqual
<1>6. r.kind = q.kind
  BY <1>1, <1>3, <1>5, PrefixesDiffer DEF IsRecord
<1>7. r.of = q.of
  BY <1>1, <1>5, <1>6, PlaceOwn
<1> QED
  BY <1>1, <1>6, <1>7 DEF IsRecord

-----------------------------------------------------------------------------
(* The state set.                                                          *)

\* A record's format has one, two or three fields, and is read as written.
LEMMA StoredFormats ==
  ASSUME NEW kind \in DOMAIN PrefixOf
  PROVE  /\ Loaded[kind] = Stored[kind]
         /\ \E n : IsFormat(Stored[kind], n)
<1>1. {"uint32", "uint64", "bool", "account"} \subseteq Kinds
  BY DEF Kinds, Width
<1>3. /\ IsFormat(Uint64State, 1) /\ IsFormat(BoolState, 1)
      /\ IsFormat(PrepareWithdrawStateOut, 2) /\ IsFormat(SpProfitOut, 3)
      /\ IsFormat(OrderStateOut, 3)
  <2> USE <1>1 DEF IsFormat, Field, uint32, uint64, bool, account
  <2>1. IsFormat(Uint64State, 1)
    BY DEF Uint64State
  <2>2. IsFormat(BoolState, 1)
    BY DEF BoolState
  <2>3. IsFormat(PrepareWithdrawStateOut, 2)
    BY DEF PrepareWithdrawStateOut
  <2>4. IsFormat(SpProfitOut, 3)
    BY DEF SpProfitOut
  <2>5. IsFormat(OrderStateOut, 3)
    BY DEF OrderStateOut
  <2> QED
    BY <2>1, <2>2, <2>3, <2>4, <2>5
<1>4. /\ PrepareWithdrawStateIn = PrepareWithdrawStateOut
      /\ SpProfitIn = SpProfitOut /\ OrderStateIn = OrderStateOut
  BY DEF PrepareWithdrawStateIn, PrepareWithdrawStateOut, SpProfitIn, SpProfitOut,
         OrderStateIn, OrderStateOut
<1>5. DOMAIN PrefixOf = {"balance", "prepared", "round", "profit", "withdrawn", "relay",
                         "cancelNumber", "order"}
  BY DEF PrefixOf
<1>6. Loaded = Stored
  BY <1>4 DEF Stored, Loaded
<1>7. \A k \in DOMAIN PrefixOf :
        Stored[k] \in {Uint64State, BoolState, PrepareWithdrawStateOut, SpProfitOut, OrderStateOut}
  BY <1>5 DEF Stored
<1> QED
  BY <1>3, <1>6, <1>7

(* What is kept is what was written last, under the keys of the records    *)
(* that are kept.                                                          *)
StoreInv ==
  /\ DOMAIN written \subseteq Records
  /\ \A record \in DOMAIN written : written[record] \in ValuesOf(record.kind)
  /\ DOMAIN store = {KeyOf(record) : record \in DOMAIN written}
  /\ \A record \in DOMAIN written :
       store[KeyOf(record)] = Serialize(Stored[record.kind], written[record])

LEMMA StoreInvInit ==
  ASSUME StoreInit
  PROVE  StoreInv
BY DEF StoreInit, StoreInv

LEMMA StorePut ==
  ASSUME StoreInv, NEW record \in Records, NEW value \in ValuesOf(record.kind),
         Put(record, value)
  PROVE  StoreInv'
<1> DEFINE key == KeyOf(record)
           bytes == Serialize(Stored[record.kind], value)
<1>1. store' = With(store, key, bytes) /\ written' = With(written, record, value)
  BY DEF Put
<1> HIDE DEF bytes
<1>2. DOMAIN written' = DOMAIN written \cup {record} /\ DOMAIN store' = DOMAIN store \cup {key}
  BY <1>1 DEF With
<1>3. written'[record] = value /\ store'[key] = bytes
  BY <1>1 DEF With
<1>4. ASSUME NEW r \in DOMAIN written, r # record
      PROVE  /\ written'[r] = written[r]
             /\ KeyOf(r) \in DOMAIN store /\ store'[KeyOf(r)] = store[KeyOf(r)]
  <2>1. KeyOf(r) # key /\ KeyOf(r) \in DOMAIN store
    BY <1>4, KeysApart DEF StoreInv
  <2> HIDE DEF key
  <2> QED
    BY <1>1, <1>4, <2>1 DEF With
<1>5. DOMAIN written' \subseteq Records
  BY <1>2 DEF StoreInv
<1>6. ASSUME NEW r \in DOMAIN written' PROVE written'[r] \in ValuesOf(r.kind)
  BY <1>2, <1>3, <1>4, <1>6 DEF StoreInv
<1>7. DOMAIN store' = {KeyOf(r) : r \in DOMAIN written'}
  BY <1>2 DEF StoreInv
<1>8. ASSUME NEW r \in DOMAIN written'
      PROVE  store'[KeyOf(r)] = Serialize(Stored[r.kind], written'[r])
  <2>1. CASE r = record
    BY <1>3, <2>1 DEF bytes
  <2>2. CASE r # record
    <3>1. r \in DOMAIN written
      BY <1>2, <2>2
    <3> QED
      BY <1>4, <2>2, <3>1 DEF StoreInv
  <2> QED
    BY <2>1, <2>2
<1> QED
  BY <1>5, <1>6, <1>7, <1>8 DEF StoreInv

LEMMA StoreDelete ==
  ASSUME StoreInv, NEW record \in Records, Delete(record)
  PROVE  StoreInv'
<1> DEFINE key == KeyOf(record)
<1>1. /\ store' = [k \in DOMAIN store \ {key} |-> store[k]]
      /\ written' = [r \in DOMAIN written \ {record} |-> written[r]]
      /\ record \in DOMAIN written
  BY DEF Delete
<1>2. DOMAIN written' = DOMAIN written \ {record} /\ DOMAIN store' = DOMAIN store \ {key}
  BY <1>1
<1>3. ASSUME NEW r \in DOMAIN written'
      PROVE  /\ r \in DOMAIN written /\ written'[r] = written[r]
             /\ KeyOf(r) \in DOMAIN store' /\ store'[KeyOf(r)] = store[KeyOf(r)]
  <2>1. r \in DOMAIN written /\ r # record
    BY <1>2, <1>3
  <2>2. KeyOf(r) # key /\ KeyOf(r) \in DOMAIN store
    BY <2>1, KeysApart DEF StoreInv
  <2> HIDE DEF key
  <2> QED
    BY <1>1, <1>2, <2>1, <2>2
<1>4. DOMAIN written' \subseteq Records
  BY <1>2 DEF StoreInv
<1>5. \A r \in DOMAIN written' : written'[r] \in ValuesOf(r.kind)
  BY <1>3 DEF StoreInv
<1>6. DOMAIN store' = {KeyOf(r) : r \in DOMAIN written'}
  <2>1. ASSUME NEW k \in DOMAIN store' PROVE \E r \in DOMAIN written' : k = KeyOf(r)
    <3>1. k \in DOMAIN store /\ k # key
      BY <1>2, <2>1
    <3>2. PICK r \in DOMAIN written : k = KeyOf(r)
      BY <3>1 DEF StoreInv
    <3> QED
      BY <1>2, <3>1, <3>2
  <2> QED
    BY <1>3, <2>1
<1>7. \A r \in DOMAIN written' :
        store'[KeyOf(r)] = Serialize(Stored[r.kind], written'[r])
  BY <1>3 DEF StoreInv
<1> QED
  BY <1>4, <1>5, <1>6, <1>7 DEF StoreInv

LEMMA StoreStep ==
  ASSUME StoreInv, [StoreNext]_storeVars
  PROVE  StoreInv'
<1>1. CASE StoreNext
  <2>1. PICK record \in Records :
          (\E value \in ValuesOf(record.kind) : Put(record, value)) \/ Delete(record)
    BY <1>1 DEF StoreNext
  <2>2. CASE \E value \in ValuesOf(record.kind) : Put(record, value)
    BY <2>2, StorePut
  <2>3. CASE Delete(record)
    BY <2>3, StoreDelete
  <2> QED
    BY <2>1, <2>2, <2>3
<1>2. CASE UNCHANGED storeVars
  BY <1>2 DEF storeVars, StoreInv, ValuesOf
<1> QED
  BY <1>1, <1>2

LEMMA StoreInvariant == StoreSpec => []StoreInv
<1>1. StoreInit => StoreInv
  BY StoreInvInit
<1>2. StoreInv /\ [StoreNext]_storeVars => StoreInv'
  BY StoreStep
<1> QED
  BY <1>1, <1>2, PTL DEF StoreSpec

\* A record's value has its fields, each of its kind.
LEMMA ValueFits ==
  ASSUME NEW kind, NEW value \in ValuesOf(kind), NEW n, IsFormat(Stored[kind], n)
  PROVE  Fits(Stored[kind], value) /\ Known(Stored[kind], value, n) = value
<1> DEFINE format == Stored[kind]
           fields == Range(format)
           names == {field.name : field \in fields}
<1>1. DOMAIN format = 1..n
  BY DEF IsFormat
<1>2. fields = {format[i] : i \in 1..n}
  BY <1>1 DEF Range
<1>3. /\ DOMAIN value = names /\ value = [x \in names |-> value[x]]
      /\ \A field \in fields : value[field.name] \in Values[field.kind]
  BY DEF ValuesOf
<1> HIDE DEF fields, format
<1>4. names = {format[i].name : i \in 1..n}
  BY <1>2
<1>5. \A i \in DOMAIN format : value[format[i].name] \in Values[format[i].kind]
  BY <1>1, <1>2, <1>3
<1>6. Known(format, value, n) = value
  BY <1>3, <1>4 DEF Known
<1> QED
  BY <1>5, <1>6 DEF Fits, format

\* A record that is kept is read as it was written.
LEMMA KeptIsRead ==
  ASSUME StoreInv, NEW record \in DOMAIN written
  PROVE  Get(record) = [ok |-> TRUE, args |-> written[record]]
<1> DEFINE format == Stored[record.kind]
           value == written[record]
           bytes == Serialize(format, value)
<1>1. /\ record \in Records /\ value \in ValuesOf(record.kind)
      /\ KeyOf(record) \in DOMAIN store /\ store[KeyOf(record)] = bytes
  BY DEF StoreInv
<1>2. record.kind \in DOMAIN PrefixOf
  BY <1>1, RecordCases DEF IsRecord
<1>3. Loaded[record.kind] = format
  BY <1>2, StoredFormats
<1>4. PICK n : IsFormat(format, n)
  BY <1>2, StoredFormats
<1>5. Fits(format, value) /\ Known(format, value, n) = value
  BY <1>1, <1>4, ValueFits
<1>6. Get(record) = Deserialize(format, bytes)
  BY <1>1, <1>3 DEF Get
<1> HIDE DEF format, value
<1>7. bytes \in Bytes
  <2>1. PICK whole : IsWriting(whole, Parts(format, value), n) /\ bytes = whole[n]
    BY <1>4, <1>5, SerializeRun
  <2> QED
    BY <1>4, <2>1 DEF IsWriting, IsFormat
<1>8. Agree(bytes, bytes) /\ Len(bytes) <= Len(bytes)
  BY <1>7, LenProperties DEF Agree, Bytes
<1>9. Deserialize(format, bytes) = [ok |-> TRUE, args |-> Known(format, value, n)]
  BY <1>4, <1>5, <1>7, <1>8, ReadsBack
<1> QED
  BY <1>5, <1>6, <1>9 DEF value

LEMMA OthersAbsent ==
  ASSUME StoreInv, NEW record \in Records, record \notin DOMAIN written
  PROVE  ~ Get(record).ok
<1>1. KeyOf(record) \notin DOMAIN store
  BY KeysApart DEF StoreInv
<1> QED
  BY <1>1 DEF Get

(* Every record of the state set reads back as the contract last wrote it, *)
(* whatever is written to others, for any accounts, assets, hashes and     *)
(* field values (util.go, state_object.go, engine/types.go).               *)
THEOREM RecordsReadBack == StoreSpec => []RecordsApart
<1>1. StoreInv => RecordsApart
  BY KeptIsRead, OthersAbsent DEF RecordsApart
<1> QED
  BY <1>1, StoreInvariant, PTL

-----------------------------------------------------------------------------
(* The scan for relays.                                                    *)

RelayPrefix == GetPrefixKey(KeyPrefixRelay)

LEMMA Beginning ==
  ASSUME NEW s \in Bytes, NEW m \in Nat, m <= Len(s)
  PROVE  /\ SubSeq(s, 1, m) \in Bytes /\ Len(SubSeq(s, 1, m)) = m
         /\ \A i \in 1..m : SubSeq(s, 1, m)[i] = s[i]
<1>1. /\ SubSeq(s, 0 + 1, 0 + m) \in Bytes /\ Len(SubSeq(s, 0 + 1, 0 + m)) = m
      /\ \A i \in 1..m : SubSeq(s, 0 + 1, 0 + m)[i] = s[0 + i]
  <2>1. 0 \in Nat /\ 0 + m <= Len(s)
    OBVIOUS
  <2> QED
    BY <2>1, Slice
<1>2. 0 + 1 = 1 /\ 0 + m = m /\ \A i \in 1..m : 0 + i = i
  OBVIOUS
<1> QED
  BY <1>1, <1>2

\* A key begins with the prefix of its own record only.
LEMMA PrefixFound ==
  ASSUME NEW record \in Records
  PROVE  IsPrefix(RelayPrefix, KeyOf(record)) <=> record.kind = "relay"
<1> DEFINE p == RelayPrefix
           s == GetPrefixKey(PrefixOf[record.kind])
           key == KeyOf(record)
           m == AddressSize + 1
<1>1. IsRecord(record)
  BY RecordCases
<1>2. /\ PrefixOf[record.kind] \in Nat /\ key = s \o Place(record) /\ key \in Bytes
      /\ Place(record) \in Bytes
  BY <1>1, KeyShape, PlaceTyped
<1>3. s \in Bytes /\ Len(s) = m /\ s[m] = PrefixOf[record.kind]
  BY <1>2, PrefixKeyTyped
<1>4. p \in Bytes /\ Len(p) = m /\ p[m] = KeyPrefixRelay
  BY PrefixKeyTyped DEF RelayPrefix, KeyPrefixRelay
<1>5. m \in Nat /\ m \in 1..m
  BY SizeAssumption
<1>6. PrefixOf["relay"] = KeyPrefixRelay
  BY DEF PrefixOf
<1> HIDE DEF p, s, key, m
<1>7. Len(key) \in Nat /\ m <= Len(key) /\ \A i \in 1..m : key[i] = s[i]
  <2>1. IsJoined(key, s, Place(record))
    BY <1>2, <1>3, BytesJoined
  <2>2. /\ Len(key) = m + Len(Place(record)) /\ Len(Place(record)) \in Nat
        /\ \A i \in 1..m : key[i] = s[i]
    BY <1>3, <2>1 DEF IsJoined
  <2> QED
    BY <1>5, <2>2
<1>8. /\ SubSeq(p, 1, m) \in Bytes /\ SubSeq(key, 1, m) \in Bytes
      /\ Len(SubSeq(p, 1, m)) = m /\ Len(SubSeq(key, 1, m)) = m
      /\ \A i \in 1..m : SubSeq(p, 1, m)[i] = p[i] /\ SubSeq(key, 1, m)[i] = s[i]
  <2>1. /\ SubSeq(p, 1, m) \in Bytes /\ Len(SubSeq(p, 1, m)) = m
        /\ \A i \in 1..m : SubSeq(p, 1, m)[i] = p[i]
    BY <1>4, <1>5, Beginning
  <2>2. /\ SubSeq(key, 1, m) \in Bytes /\ Len(SubSeq(key, 1, m)) = m
        /\ \A i \in 1..m : SubSeq(key, 1, m)[i] = key[i]
    BY <1>2, <1>5, <1>7, Beginning
  <2> QED
    BY <1>7, <2>1, <2>2
<1>9. IsPrefix(p, key) <=> SubSeq(p, 1, m) = SubSeq(key, 1, m)
  BY <1>4, <1>7 DEF IsPrefix
<1>10. CASE record.kind = "relay"
  <2>1. s = p
    BY <1>6, <1>10 DEF s, p, RelayPrefix
  <2>2. SubSeq(p, 1, m) = SubSeq(key, 1, m)
    BY <1>8, <2>1, SeqEqual DEF Bytes
  <2> QED
    BY <1>9, <1>10, <2>2 DEF p, key
<1>11. CASE record.kind # "relay"
  <2>1. PrefixOf[record.kind] # KeyPrefixRelay
    <3>1. "relay" \in DOMAIN PrefixOf /\ record.kind \in DOMAIN PrefixOf
      BY <1>1 DEF PrefixOf, IsRecord
    <3> QED
      BY <1>6, <1>11, <3>1, PrefixesDiffer
  <2>2. SubSeq(p, 1, m)[m] # SubSeq(key, 1, m)[m]
    BY <1>3, <1>4, <1>5, <1>8, <2>1
  <2> QED
    BY <1>9, <1>11, <2>2 DEF p, key
<1> QED
  BY <1>10, <1>11

\* Behind it stands the account.
LEMMA RelayFound ==
  ASSUME NEW record \in Records, record.kind = "relay"
  PROVE  \E user \in Users :
           /\ record = Record("relay", <<user>>)
           /\ SubSeq(KeyOf(record), Len(RelayPrefix) + 1, Len(KeyOf(record))) = user
<1>1. IsRecord(record)
  BY RecordCases
<1>2. PICK user \in Users : record.of = <<user>>
  BY <1>1 DEF IsRecord
<1> DEFINE p == RelayPrefix
           key == KeyOf(record)
<1>3. p \in Bytes /\ user \in Bytes
  BY PrefixKeyTyped, AddressAssumption, AddressTyped
     DEF RelayPrefix, KeyPrefixRelay, Addresses
<1>4. key = p \o user
  BY <1>2 DEF KeyOf, GetAccountKey, RelayPrefix
<1> HIDE DEF p, key
<1>5. key \in Bytes /\ IsJoined(key, p, user)
  BY <1>3, <1>4, BytesJoined
<1>6. /\ Len(p) \in Nat /\ Len(user) \in Nat /\ Len(key) = Len(p) + Len(user)
      /\ \A j \in 1..Len(user) : key[Len(p) + j] = user[j]
  BY <1>5 DEF IsJoined
<1> DEFINE a == Len(p)
           b == Len(user)
           x == SubSeq(key, a + 1, a + b)
<1>7. x \in Bytes /\ Len(x) = b /\ \A i \in 1..b : x[i] = key[a + i]
  <2>1. a \in Nat /\ b \in Nat /\ a + b <= Len(key)
    BY <1>6
  <2> HIDE DEF a, b
  <2> QED
    BY <1>5, <2>1, Slice
<1>8. SubSeq(key, Len(p) + 1, Len(key)) = x
  BY <1>6
<1>9. x = user
  <2>1. \A i \in 1..Len(x) : x[i] = user[i]
    BY <1>6, <1>7
  <2> HIDE DEF x
  <2> QED
    BY <1>3, <1>7, <2>1, SeqEqual DEF Bytes
<1>10. record = Record("relay", <<user>>)
  BY <1>1, <1>2 DEF IsRecord, Record
<1> QED
  BY <1>8, <1>9, <1>10 DEF p, key

(* The scan for relays finds the accounts that have a relay record and     *)
(* nothing else, whatever records are kept (management.go).                *)
THEOREM ScanFindsRelays == StoreSpec => []RelaysListed
<1>1. ASSUME StoreInv PROVE RelaysListed
  <2> DEFINE pp(key) == SubSeq(key, Len(RelayPrefix) + 1, Len(key))
             found == {key \in DOMAIN store : IsPrefix(RelayPrefix, key)}
  <2>1. Relays = {pp(key) : key \in found}
    BY DEF Relays, RelayPrefix
  <2>2. ASSUME NEW key \in found
        PROVE  \E user \in Users : /\ Record("relay", <<user>>) \in DOMAIN written
                                   /\ pp(key) = user
    <3>1. PICK record \in DOMAIN written : key = KeyOf(record)
      BY <1>1 DEF StoreInv
    <3>2. record \in Records /\ record.kind = "relay"
      BY <1>1, <3>1, PrefixFound DEF StoreInv
    <3>3. PICK user \in Users : record = Record("relay", <<user>>) /\ pp(KeyOf(record)) = user
      BY <3>2, RelayFound
    <3> QED
      BY <3>1, <3>3
  <2>3. ASSUME NEW user \in Users, Record("relay", <<user>>) \in DOMAIN written
        PROVE  \E key \in found : pp(key) = user
    <3> DEFINE record == Record("relay", <<user>>)
    <3>1. record \in Records /\ record.kind = "relay" /\ record.of = <<user>>
          /\ KeyOf(record) \in DOMAIN store
      BY <1>1, <2>3 DEF StoreInv, Record
    <3> HIDE DEF record
    <3>2. KeyOf(record) \in found
      BY <3>1, PrefixFound
    <3>3. PICK other \in Users : record = Record("relay", <<other>>) /\ pp(KeyOf(record)) = other
      BY <3>1, RelayFound
    <3>4. other = user
      BY <3>1, <3>3 DEF Record
    <3> QED
      BY <3>2, <3>3, <3>4
  <2> HIDE DEF pp, found
  <2>4. {pp(key) : key \in found}
          = {user \in Users : Record("relay", <<user>>) \in DOMAIN written}
    BY <2>2, <2>3
  <2> QED
    BY <2>1, <2>4 DEF RelaysListed
<1> QED
  BY <1>1, StoreInvariant, PTL

-----------------------------------------------------------------------------
(* The size of a record.                                                   *)

\* A field with a width takes it.
LEMMA WidthTaken ==
  ASSUME NEW format, NEW n, IsFormat(format, n), NEW args, Fits(format, args),
         NEW k \in 1..n, HasWidth(format[k])
  PROVE  Len(Parts(format, args)[k]) = Width[format[k].kind]
<1>1. Parts(format, args)[k] = args[format[k].name]
      /\ args[format[k].name] \in Values[format[k].kind]
  BY DEF IsFormat, Parts, Written, Fits
<1> QED
  BY <1>1, ValuesAssumption DEF HasWidth

\* The bytes of a format of two or three fields with widths.
LEMMA SizesAdd ==
  ASSUME NEW format, NEW n, IsFormat(format, n), NEW args, Fits(format, args),
         \A k \in 1..n : HasWidth(format[k])
  PROVE  /\ n = 2 => Len(Serialize(format, args)) =
                       Width[format[1].kind] + Width[format[2].kind]
         /\ n = 3 => Len(Serialize(format, args)) =
                       Width[format[1].kind] + Width[format[2].kind] + Width[format[3].kind]
<1> DEFINE parts == Parts(format, args)
           size(k) == Width[format[k].kind]
<1>0. n \in Nat
  BY DEF IsFormat
<1>1. PICK whole : IsWriting(whole, parts, n) /\ Serialize(format, args) = whole[n]
  BY SerializeRun
<1>2. \A k \in 1..n : parts[k] \in Bytes
  BY SerializeRun
<1>3. ASSUME NEW k \in 1..n PROVE Len(whole[k]) = Len(whole[k - 1]) + size(k)
  <2>1. IsJoined(whole[k], whole[k - 1], parts[k])
    BY <1>0, <1>1, <1>2, WritingStep
  <2>2. Len(parts[k]) = size(k)
    BY WidthTaken
  <2> QED
    BY <2>1, <2>2 DEF IsJoined
<1>4. Len(whole[0]) = 0
  BY <1>1 DEF IsWriting
<1>5. \A k \in 1..n : size(k) \in Nat
  BY FieldTyped DEF IsFormat
<1> HIDE DEF size, parts
<1>6. CASE n = 2
  <2>1. 1 \in 1..n /\ 2 \in 1..n /\ 1 - 1 = 0 /\ 2 - 1 = 1
    BY <1>6
  <2>2. Len(whole[1]) = size(1) /\ Len(whole[2]) = size(1) + size(2)
    BY <1>3, <1>4, <1>5, <2>1
  <2> QED
    BY <1>1, <1>6, <2>2 DEF size
<1>7. CASE n = 3
  <2>1. 1 \in 1..n /\ 2 \in 1..n /\ 3 \in 1..n /\ 1 - 1 = 0 /\ 2 - 1 = 1 /\ 3 - 1 = 2
    BY <1>7
  <2>2. Len(whole[1]) = size(1) /\ Len(whole[2]) = size(1) + size(2)
        /\ Len(whole[3]) = size(1) + size(2) + size(3)
    BY <1>3, <1>4, <1>5, <2>1
  <2> QED
    BY <1>1, <1>7, <2>2 DEF size
<1> QED
  BY <1>6, <1>7

(* A record of the contract's own types takes the bytes its DataSize says, *)
(* whatever the sizes of integers and addresses (state_object.go,          *)
(* engine/types.go).                                                       *)
THEOREM SizesAsToldToHost == StoreSpec => []SizesHold
<1>1. ASSUME StoreInv PROVE SizesHold
  <2> SUFFICES ASSUME NEW record \in DOMAIN written, record.kind \in DOMAIN DataSize
               PROVE  Len(store[KeyOf(record)]) = DataSize[record.kind]
    BY DEF SizesHold
  <2> DEFINE value == written[record]
  <2>1. /\ value \in ValuesOf(record.kind)
        /\ store[KeyOf(record)] = Serialize(Stored[record.kind], value)
    BY <1>1 DEF StoreInv
  <2> HIDE DEF value
  <2>2. Width = [uint32 |-> Uint32Size, uint64 |-> Uint64Size, bool |-> 1, account |-> AddressSize]
        /\ DOMAIN Width = {"uint32", "uint64", "bool", "account"}
    BY DEF Width
  <2>3. {"uint32", "uint64", "bool", "account"} \subseteq Kinds
    BY DEF Kinds, Width
  <2> USE DEF IsFormat, HasWidth, Field, uint32, uint64, bool, account
  <2>4. Uint32Size \in Nat /\ Uint64Size \in Nat /\ AddressSize \in Nat
    BY SizeAssumption
  <2>5. CASE record.kind = "prepared"
    <3>1. /\ IsFormat(PrepareWithdrawStateOut, 2)
          /\ \A k \in 1..2 : HasWidth(PrepareWithdrawStateOut[k])
          /\ Width[PrepareWithdrawStateOut[1].kind] = Uint32Size
          /\ Width[PrepareWithdrawStateOut[2].kind] = Uint64Size
      BY <2>2, <2>3 DEF PrepareWithdrawStateOut
    <3>2. Stored[record.kind] = PrepareWithdrawStateOut
      BY <2>5 DEF Stored
    <3> HIDE DEF IsFormat, HasWidth
    <3>3. Fits(PrepareWithdrawStateOut, value)
      BY <2>1, <3>1, <3>2, ValueFits
    <3>4. Len(Serialize(PrepareWithdrawStateOut, value)) = Uint32Size + Uint64Size
      BY <3>1, <3>3, SizesAdd
    <3> QED
      BY <2>1, <2>5, <3>2, <3>4 DEF DataSize
  <2>6. CASE record.kind = "profit"
    <3>1. /\ IsFormat(SpProfitOut, 3)
          /\ \A k \in 1..3 : HasWidth(SpProfitOut[k])
          /\ Width[SpProfitOut[1].kind] = Uint32Size
          /\ Width[SpProfitOut[2].kind] = Uint64Size
          /\ Width[SpProfitOut[3].kind] = Uint64Size
      BY <2>2, <2>3 DEF SpProfitOut
    <3>2. Stored[record.kind] = SpProfitOut
      BY <2>6 DEF Stored
    <3> HIDE DEF IsFormat, HasWidth
    <3>3. Fits(SpProfitOut, value)
      BY <2>1, <3>1, <3>2, ValueFits
    <3>4. Len(Serialize(SpProfitOut, value)) = Uint32Size + Uint64Size + Uint64Size
      BY <3>1, <3>3, SizesAdd
    <3> QED
      BY <2>1, <2>6, <3>2, <3>4 DEF DataSize
  <2>7. CASE record.kind = "order"
    <3>1. /\ IsFormat(OrderStateOut, 3)
          /\ \A k \in 1..3 : HasWidth(OrderStateOut[k])
          /\ Width[OrderStateOut[1].kind] = AddressSize
          /\ Width[OrderStateOut[2].kind] = Uint64Size
          /\ Width[OrderStateOut[3].kind] = 1
      BY <2>2, <2>3 DEF OrderStateOut
    <3>2. Stored[record.kind] = OrderStateOut
      BY <2>7 DEF Stored
    <3> HIDE DEF IsFormat, HasWidth
    <3>3. Fits(OrderStateOut, value)
      BY <2>1, <3>1, <3>2, ValueFits
    <3>4. Len(Serialize(OrderStateOut, value)) = AddressSize + Uint64Size + 1
      BY <3>1, <3>3, SizesAdd
    <3> QED
      BY <2>1, <2>7, <3>2, <3>4 DEF DataSize
  <2> QED
    BY <2>5, <2>6, <2>7 DEF DataSize
<1> QED
  BY <1>1, StoreInvariant, PTL
-----------------------------------------------------------------------------
(* The arguments of calls.                                                 *)

\* Fields of one name are of one kind.
KindsAgree(format) ==
  \A a, b \in Range(format) : a.name = b.name => a.kind = b.kind

LEMMA PlainFits ==
  ASSUME NEW format, NEW n, IsFormat(format, n), KindsAgree(format), NEW field \in Range(format)
  PROVE  Plain(format)[field.name] \in Values[field.kind]
<1> DEFINE name == field.name
           chosen == CHOOSE f \in Range(format) : f.name = name
<1>1. chosen \in Range(format) /\ chosen.name = name
  OBVIOUS
<1>2. chosen.kind = field.kind
  BY <1>1 DEF KindsAgree
<1>3. field.kind \in Kinds
  BY DEF IsFormat, Range
<1>4. name \in {f.name : f \in Range(format)}
  OBVIOUS
<1>5. Plain(format)[name] = CHOOSE value \in Values[chosen.kind] : TRUE
  BY <1>4 DEF Plain
<1> HIDE DEF chosen
<1> QED
  BY <1>2, <1>3, <1>5, ValuesAssumption

LEMMA ArgsFit ==
  ASSUME NEW format, NEW n, IsFormat(format, n), KindsAgree(format), NEW args \in ArgsOf(format)
  PROVE  Fits(format, args) /\ Known(format, args, n) = args
<1>0. DOMAIN format = 1..n /\ Range(format) = {format[i] : i \in 1..n}
  BY DEF IsFormat, Range
<1> DEFINE names == {field.name : field \in Range(format)}
           plain == Plain(format)
<1>1. PICK changed \in Range(format) :
        \E value \in Values[changed.kind] : args = [plain EXCEPT ![changed.name] = value]
  BY DEF ArgsOf
<1> PICK value \in Values[changed.kind] : args = [plain EXCEPT ![changed.name] = value]
  BY <1>1
<1>2. DOMAIN plain = names /\ changed.name \in names
  BY DEF Plain
<1> HIDE DEF plain
<1>3. DOMAIN args = names /\ args = [name \in names |-> args[name]]
  BY <1>1, <1>2
<1>4. ASSUME NEW field \in Range(format) PROVE args[field.name] \in Values[field.kind]
  <2>1. CASE field.name = changed.name
    <3>1. field.kind = changed.kind
      BY <2>1 DEF KindsAgree
    <3> QED
      BY <1>1, <1>2, <2>1, <3>1
  <2>2. CASE field.name # changed.name
    <3>1. args[field.name] = plain[field.name]
      BY <1>1, <1>2, <2>2
    <3> QED
      BY <3>1, PlainFits DEF plain
  <2> QED
    BY <2>1, <2>2
<1>5. Fits(format, args)
  BY <1>0, <1>4 DEF Fits
<1>6. names = {format[i].name : i \in 1..n}
  BY <1>0
<1>7. Known(format, args, n) = args
  BY <1>3, <1>6 DEF Known
<1> QED
  BY <1>5, <1>7

\* A format, its names of one kind each, as a sequence.
IsType(format, n) == IsFormat(format, n) /\ KindsAgree(format) /\ format \in Seq(Range(format))

LEMMA SequenceOfItsOwn ==
  ASSUME NEW n \in Nat, NEW f, f = [i \in 1..n |-> f[i]]
  PROVE  f \in Seq(Range(f)) /\ Len(f) = n /\ Range(f) = {f[i] : i \in 1..n}
<1>1. DOMAIN f = 1..n
  OBVIOUS
<1>2. Range(f) = {f[i] : i \in 1..n}
  BY <1>1 DEF Range
<1>3. f \in [1..n -> Range(f)]
  BY <1>2
<1> HIDE DEF Range
<1>4. f \in Seq(Range(f))
  BY <1>3
<1>5. Len(f) = n
  BY <1>1, <1>4, LenProperties
<1> QED
  BY <1>2, <1>4, <1>5

LEMMA Longer ==
  ASSUME NEW x, NEW kind, NEW name
  PROVE  [Field(x, kind) EXCEPT !.name = <<name>> \o @] = [name |-> <<name, x>>, kind |-> kind]
<1> DEFINE S == {name, x}
           a == <<name>>
           b == <<x>>
           c == <<name, x>>
<1>1. a \in Seq(S) /\ b \in Seq(S) /\ c \in Seq(S)
      /\ Len(a) = 1 /\ Len(b) = 1 /\ Len(c) = 2
      /\ a[1] = name /\ b[1] = x /\ c[1] = name /\ c[2] = x
  OBVIOUS
<1> HIDE DEF a, b, c, S
<1>2. a \o b \in Seq(S) /\ Len(a \o b) = 2
      /\ \A i \in 1..2 : (a \o b)[i] = IF i <= 1 THEN a[i] ELSE b[i - 1]
  <2>1. Len(a) + Len(b) = 2
    BY <1>1
  <2>2. /\ a \o b \in Seq(S) /\ Len(a \o b) = Len(a) + Len(b)
        /\ \A i \in 1..Len(a) + Len(b) :
             (a \o b)[i] = IF i <= Len(a) THEN a[i] ELSE b[i - Len(a)]
    BY <1>1, ConcatProperties
  <2> QED
    BY <1>1, <2>1, <2>2
<1>3. (a \o b)[1] = a[1] /\ (a \o b)[2] = b[1]
  <2>1. 1 \in 1..2 /\ 2 \in 1..2 /\ 1 <= 1 /\ ~(2 <= 1) /\ 2 - 1 = 1
    OBVIOUS
  <2> QED
    BY <1>2, <2>1
<1>4. \A i \in 1..Len(c) : (a \o b)[i] = c[i]
  <2>1. \A i \in 1..2 : i = 1 \/ i = 2
    OBVIOUS
  <2> QED
    BY <1>1, <1>3, <2>1
<1>5. a \o b = c
  BY <1>1, <1>2, <1>4, SeqEqual
<1> QED
  BY <1>5 DEF Field, a, b, c

\* The fields of a type within another.
LEMMA WithinIsType ==
  ASSUME NEW format, NEW n, IsType(format, n), NEW name,
         \A i \in 1..n : \E x : format[i] = Field(x, format[i].kind)
  PROVE  /\ IsType(Within(name, format), n)
         /\ \A field \in Range(Within(name, format)) : \E x : field.name = <<name, x>>
<1> DEFINE w == Within(name, format)
           Taken(i) == [format[i] EXCEPT !.name = <<name>> \o @]
<1>1. n \in Nat /\ DOMAIN format = 1..n /\ Range(format) = {format[i] : i \in 1..n}
      /\ \A i \in 1..n : format[i].kind \in Kinds
  BY DEF IsType, IsFormat, Range
<1>2. w = [i \in 1..n |-> Taken(i)]
  BY <1>1 DEF Within
<1>3. ASSUME NEW i \in 1..n
      PROVE  \E x : /\ format[i].name = <<x>> /\ Taken(i).name = <<name, x>>
                    /\ Taken(i).kind = format[i].kind
  <2>1. PICK x : format[i] = Field(x, format[i].kind)
    OBVIOUS
  <2> DEFINE kind == format[i].kind
  <2>2. [Field(x, kind) EXCEPT !.name = <<name>> \o @] = [name |-> <<name, x>>, kind |-> kind]
    BY Longer
  <2>3. Field(x, kind).name = <<x>>
    BY DEF Field
  <2> HIDE DEF kind
  <2>4. Taken(i) = [name |-> <<name, x>>, kind |-> kind] /\ format[i].name = <<x>>
    BY <2>1, <2>2, <2>3 DEF kind
  <2> HIDE DEF Taken
  <2> QED
    BY <2>4 DEF kind
<1> HIDE DEF Taken
<1>4. w = [i \in 1..n |-> w[i]] /\ \A i \in 1..n : w[i] = Taken(i)
  BY <1>2
<1> HIDE DEF w
<1>5. w \in Seq(Range(w)) /\ Range(w) = {w[i] : i \in 1..n}
  BY <1>1, <1>4, SequenceOfItsOwn
<1>6. DOMAIN w = 1..n /\ \A i \in 1..n : w[i].kind \in Kinds
  BY <1>1, <1>3, <1>4
<1>7. ASSUME NEW i \in 1..n, NEW j \in 1..n, w[i].name = w[j].name
      PROVE  w[i].kind = w[j].kind
  <2>1. PICK x : /\ format[i].name = <<x>> /\ w[i].name = <<name, x>>
                 /\ w[i].kind = format[i].kind
    BY <1>3, <1>4
  <2>2. PICK y : /\ format[j].name = <<y>> /\ w[j].name = <<name, y>>
                 /\ w[j].kind = format[j].kind
    BY <1>3, <1>4
  <2>3. x = y
    <3>1. <<name, x>> = <<name, y>>
      BY <1>7, <2>1, <2>2
    <3>2. <<name, x>>[2] = x /\ <<name, y>>[2] = y
      OBVIOUS
    <3> QED
      BY <3>1, <3>2
  <2>4. format[i].name = format[j].name /\ format[i] \in Range(format) /\ format[j] \in Range(format)
    BY <1>1, <2>1, <2>2, <2>3
  <2>5. format[i].kind = format[j].kind
    BY <2>4 DEF IsType, KindsAgree
  <2> QED
    BY <2>1, <2>2, <2>5
<1>8. KindsAgree(w)
  BY <1>5, <1>7 DEF KindsAgree
<1>9. \A field \in Range(w) : \E x : field.name = <<name, x>>
  BY <1>3, <1>4, <1>5
<1>10. IsType(w, n)
  BY <1>1, <1>5, <1>6, <1>8 DEF IsType, IsFormat
<1> QED
  BY <1>9, <1>10 DEF w

\* Types one after the other, if no name is in both.
LEMMA TypesJoined ==
  ASSUME NEW f, NEW m, IsType(f, m), NEW g, NEW n, IsType(g, n),
         \A a \in Range(f), b \in Range(g) : a.name # b.name
  PROVE  IsType(f \o g, m + n) /\ Range(f \o g) = Range(f) \cup Range(g)
<1> DEFINE F == Range(f)
           G == Range(g)
           S == F \cup G
           h == f \o g
<1>1. m \in Nat /\ n \in Nat /\ f \in Seq(F) /\ g \in Seq(G) /\ DOMAIN f = 1..m /\ DOMAIN g = 1..n
  BY DEF IsType, IsFormat
<1>0. /\ \A a, b \in F : a.name = b.name => a.kind = b.kind
      /\ \A a, b \in G : a.name = b.name => a.kind = b.kind
  BY DEF IsType, KindsAgree
<1>2. (\A a \in F : a.kind \in Kinds) /\ (\A b \in G : b.kind \in Kinds)
  BY DEF IsType, IsFormat, Range
<1> HIDE DEF F, G
<1>3. f \in Seq(S) /\ g \in Seq(S)
  BY <1>1
<1>4. Len(f) = m /\ Len(g) = n
  BY <1>1, LenProperties
<1>5. h \in Seq(S) /\ Len(h) = m + n /\ DOMAIN h = 1..(m + n)
  <2>1. h \in Seq(S) /\ Len(h) = Len(f) + Len(g)
    BY <1>3, ConcatProperties
  <2> HIDE DEF h, S
  <2> QED
    BY <1>4, <2>1, LenProperties
<1>6. Range(h) = S
  BY <1>3, RangeConcatenation DEF F, G
<1> HIDE DEF h
<1>7. ASSUME NEW a \in S, NEW b \in S, a.name = b.name PROVE a.kind = b.kind
  <2>1. CASE a \in F /\ b \in F
    BY <1>0, <1>7, <2>1
  <2>2. CASE a \in G /\ b \in G
    BY <1>0, <1>7, <2>2
  <2>3. ~(a \in F /\ b \in G) /\ ~(a \in G /\ b \in F)
    BY <1>7 DEF F, G
  <2> QED
    BY <2>1, <2>2, <2>3
<1>8. KindsAgree(h)
  BY <1>6, <1>7 DEF KindsAgree
<1>9. \A i \in 1..(m + n) : h[i] \in S
  BY <1>5, <1>6 DEF Range
<1>10. IsFormat(h, m + n)
  BY <1>1, <1>2, <1>5, <1>9 DEF IsFormat
<1> QED
  BY <1>5, <1>6, <1>8, <1>10 DEF IsType, h, F, G

LEMMA TypeIs ==
  ASSUME NEW n \in Nat, NEW f, DOMAIN f = 1..n, f = [i \in 1..n |-> f[i]],
         \A i \in 1..n : f[i].kind \in Kinds,
         \A i, j \in 1..n : f[i].name = f[j].name => f[i].kind = f[j].kind
  PROVE  IsType(f, n)
<1>1. f \in Seq(Range(f)) /\ Range(f) = {f[i] : i \in 1..n}
  BY SequenceOfItsOwn
<1>2. KindsAgree(f)
  BY <1>1 DEF KindsAgree
<1> QED
  BY <1>1, <1>2 DEF IsType, IsFormat

LEMMA KindsAre ==
  {"uint32", "uint64", "bool", "account", "string", "signature"} \subseteq Kinds
BY DEF Kinds, Width

\* The types of plain fields.
LEMMA PlainTypes ==
  /\ IsType(RawOrderDataOut, 11)
  /\ IsType(RelayArgsOut, 4)
  /\ IsType(DWithdrawArgsOut, 9)
  /\ IsType(DCancelArgsOut, 3)
  /\ IsType(SetterArgsOut, 3)
  /\ IsType(CommitWithdrawArgsOut, 2)
  /\ IsType(ListAssetArgsOut, 3)
  /\ IsType(AnchorArgsOut, 2)
  /\ IsType(AssetFeeOut, 2)
  /\ IsType(LinkMarketArgsOut, 4)
<1> USE DEF Field, uint32, uint64, bool, account, string, Sig
<1>1. IsType(RawOrderDataOut, 11)
  <2> DEFINE f == RawOrderDataOut
  <2>1. DOMAIN f = 1..11 /\ f = [i \in 1..11 |-> f[i]]
    BY DEF RawOrderDataOut
  <2>2. \A i \in 1..11 : f[i].kind \in Kinds
    BY KindsAre DEF RawOrderDataOut
  <2>3. \A i, j \in 1..11 : f[i].name = f[j].name => f[i].kind = f[j].kind
    BY DEF RawOrderDataOut
  <2> HIDE DEF f
  <2> QED
    BY <2>1, <2>2, <2>3, TypeIs DEF f
<1>2. IsType(RelayArgsOut, 4)
  <2> DEFINE f == RelayArgsOut
  <2>1. DOMAIN f = 1..4 /\ f = [i \in 1..4 |-> f[i]]
    BY DEF RelayArgsOut
  <2>2. \A i \in 1..4 : f[i].kind \in Kinds
    BY KindsAre DEF RelayArgsOut
  <2>3. \A i, j \in 1..4 : f[i].name = f[j].name => f[i].kind = f[j].kind
    BY DEF RelayArgsOut
  <2> HIDE DEF f
  <2> QED
    BY <2>1, <2>2, <2>3, TypeIs DEF f
<1>3. IsType(DWithdrawArgsOut, 9)
  <2> DEFINE f == DWithdrawArgsOut
  <2>1. DOMAIN f = 1..9 /\ f = [i \in 1..9 |-> f[i]]
    BY DEF DWithdrawArgsOut
  <2>2. \A i \in 1..9 : f[i].kind \in Kinds
    BY KindsAre DEF DWithdrawArgsOut
  <2>3. \A i, j \in 1..9 : f[i].name = f[j].name => f[i].kind = f[j].kind
    BY DEF DWithdrawArgsOut
  <2> HIDE DEF f
  <2> QED
    BY <2>1, <2>2, <2>3, TypeIs DEF f
<1>4. IsType(DCancelArgsOut, 3)
  <2> DEFINE f == DCancelArgsOut
  <2>1. DOMAIN f = 1..3 /\ f = [i \in 1..3 |-> f[i]]
    BY DEF DCancelArgsOut
  <2>2. \A i \in 1..3 : f[i].kind \in Kinds
    BY KindsAre DEF DCancelArgsOut
  <2>3. \A i, j \in 1..3 : f[i].name = f[j].name => f[i].kind = f[j].kind
    BY DEF DCancelArgsOut
  <2> HIDE DEF f
  <2> QED
    BY <2>1, <2>2, <2>3, TypeIs DEF f
<1>5. IsType(SetterArgsOut, 3)
  <2> DEFINE f == SetterArgsOut
  <2>1. DOMAIN f = 1..3 /\ f = [i \in 1..3 |-> f[i]]
    BY DEF SetterArgsOut
  <2>2. \A i \in 1..3 : f[i].kind \in Kinds
    BY KindsAre DEF SetterArgsOut
  <2>3. \A i, j \in 1..3 : f[i].name = f[j].name => f[i].kind = f[j].kind
    BY DEF SetterArgsOut
  <2> HIDE DEF f
  <2> QED
    BY <2>1, <2>2, <2>3, TypeIs DEF f
<1>6. IsType(CommitWithdrawArgsOut, 2)
  <2> DEFINE f == CommitWithdrawArgsOut
  <2>1. DOMAIN f = 1..2 /\ f = [i \in 1..2 |-> f[i]]
    BY DEF CommitWithdrawArgsOut
  <2>2. \A i \in 1..2 : f[i].kind \in Kinds
    BY KindsAre DEF CommitWithdrawArgsOut
  <2>3. \A i, j \in 1..2 : f[i].name = f[j].name => f[i].kind = f[j].kind
    BY DEF CommitWithdrawArgsOut
  <2> HIDE DEF f
  <2> QED
    BY <2>1, <2>2, <2>3, TypeIs DEF f
<1>7. IsType(ListAssetArgsOut, 3)
  <2> DEFINE f == ListAssetArgsOut
  <2>1. DOMAIN f = 1..3 /\ f = [i \in 1..3 |-> f[i]]
    BY DEF ListAssetArgsOut
  <2>2. \A i \in 1..3 : f[i].kind \in Kinds
    BY KindsAre DEF ListAssetArgsOut
  <2>3. \A i, j \in 1..3 : f[i].name = f[j].name => f[i].kind = f[j].kind
    BY DEF ListAssetArgsOut
  <2> HIDE DEF f
  <2> QED
    BY <2>1, <2>2, <2>3, TypeIs DEF f
<1>8. IsType(AnchorArgsOut, 2)
  <2> DEFINE f == AnchorArgsOut
  <2>1. DOMAIN f = 1..2 /\ f = [i \in 1..2 |-> f[i]]
    BY DEF AnchorArgsOut
  <2>2. \A i \in 1..2 : f[i].kind \in Kinds
    BY KindsAre DEF AnchorArgsOut
  <2>3. \A i, j \in 1..2 : f[i].name = f[j].name => f[i].kind = f[j].kind
    BY DEF AnchorArgsOut
  <2> HIDE DEF f
  <2> QED
    BY <2>1, <2>2, <2>3, TypeIs DEF f
<1>9. IsType(AssetFeeOut, 2)
  <2> DEFINE f == AssetFeeOut
  <2>1. DOMAIN f = 1..2 /\ f = [i \in 1..2 |-> f[i]]
    BY DEF AssetFeeOut
  <2>2. \A i \in 1..2 : f[i].kind \in Kinds
    BY KindsAre DEF AssetFeeOut
  <2>3. \A i, j \in 1..2 : f[i].name = f[j].name => f[i].kind = f[j].kind
    BY DEF AssetFeeOut
  <2> HIDE DEF f
  <2> QED
    BY <2>1, <2>2, <2>3, TypeIs DEF f
<1>10. IsType(LinkMarketArgsOut, 4)
  <2> DEFINE f == LinkMarketArgsOut
  <2>1. DOMAIN f = 1..4 /\ f = [i \in 1..4 |-> f[i]]
    BY DEF LinkMarketArgsOut
  <2>2. \A i \in 1..4 : f[i].kind \in Kinds
    BY KindsAre DEF LinkMarketArgsOut
  <2>3. \A i, j \in 1..4 : f[i].name = f[j].name => f[i].kind = f[j].kind
    BY DEF LinkMarketArgsOut
  <2> HIDE DEF f
  <2> QED
    BY <2>1, <2>2, <2>3, TypeIs DEF f
<1> QED
  BY <1>1, <1>2, <1>3, <1>4, <1>5, <1>6, <1>7, <1>8, <1>9, <1>10

LEMMA OrderType ==
  /\ IsType(OrderDataOut, 12)
  /\ \A i \in 1..12 : \E x : OrderDataOut[i] = Field(x, OrderDataOut[i].kind)
<1> DEFINE raw == RawOrderDataOut
           sig == <<Sig>>
<1>1. IsType(raw, 11)
  BY PlainTypes
<1>2. IsType(sig, 1)
  <2>1. DOMAIN sig = 1..1 /\ sig = [i \in 1..1 |-> sig[i]]
    OBVIOUS
  <2>2. \A i \in 1..1 : sig[i].kind \in Kinds
    BY KindsAre DEF Sig, Field
  <2>3. \A i, j \in 1..1 : sig[i].name = sig[j].name => sig[i].kind = sig[j].kind
    OBVIOUS
  <2> HIDE DEF sig
  <2> QED
    BY <2>1, <2>2, <2>3, TypeIs
<1>3. /\ \A i \in 1..11 : raw[i].name # <<"Sig">>
      /\ \A i \in 1..11 : raw[i] = [name |-> <<raw[i].name[1]>>, kind |-> raw[i].kind]
  BY DEF RawOrderDataOut, Field, uint32, uint64, account, string
<1>4. Range(raw) = {raw[i] : i \in 1..11} /\ DOMAIN raw = 1..11 /\ raw \in Seq(Range(raw))
  BY <1>1 DEF IsType, IsFormat, Range
<1> HIDE DEF raw
<1>5. Range(sig) = {Sig}
  BY DEF Range
<1>6. \A a \in Range(raw), b \in Range(sig) : a.name # b.name
  BY <1>3, <1>4, <1>5 DEF Sig, Field
<1> HIDE DEF sig
<1>7. IsType(raw \o sig, 12) /\ Range(raw \o sig) = Range(raw) \cup Range(sig)
  <2>1. IsType(raw \o sig, 11 + 1) /\ Range(raw \o sig) = Range(raw) \cup Range(sig)
    BY <1>1, <1>2, <1>6, TypesJoined
  <2>2. 11 + 1 = 12
    OBVIOUS
  <2> QED
    BY <2>1, <2>2, Zenon
<1>8. OrderDataOut = raw \o sig
  <2> DEFINE S == Range(raw) \cup {Sig}
  <2>1. raw \in Seq(S) /\ Sig \in S
    BY <1>4
  <2> HIDE DEF S
  <2> QED
    BY <2>1, AppendIsConcat DEF OrderDataOut, raw, sig
<1>9. ASSUME NEW field \in Range(raw) \cup Range(sig)
      PROVE  \E x : field = Field(x, field.kind)
  <2>1. CASE field \in Range(raw)
    BY <1>3, <1>4, <2>1 DEF Field
  <2>2. CASE field = Sig
    <3>1. Sig = Field("Sig", Sig.kind)
      BY DEF Sig, Field
    <3> QED
      BY <2>2, <3>1
  <2> QED
    BY <1>5, <1>9, <2>1, <2>2 DEF sig
<1>10. \A i \in 1..12 : (raw \o sig)[i] \in Range(raw \o sig)
  BY <1>7 DEF IsType, IsFormat, Range
<1> DEFINE whole == raw \o sig
<1>11. \A i \in 1..12 : \E x : whole[i] = Field(x, whole[i].kind)
  BY <1>7, <1>9, <1>10
<1> HIDE DEF whole
<1> QED
  BY <1>7, <1>8, <1>11 DEF whole

\* The two orders and what the relay names are told apart by their names.
LEMMA TradeType == IsType(TradeArgsOut, 28)
<1> DEFINE maker == Within("Maker", OrderDataOut)
           taker == Within("Taker", OrderDataOut)
           relay == Within("Relay", RelayArgsOut)
<1>1. /\ IsType(maker, 12) /\ \A field \in Range(maker) : \E x : field.name = <<"Maker", x>>
      /\ IsType(taker, 12) /\ \A field \in Range(taker) : \E x : field.name = <<"Taker", x>>
  BY OrderType, WithinIsType
<1>2. IsType(relay, 4) /\ \A field \in Range(relay) : \E x : field.name = <<"Relay", x>>
  <2>1. \A i \in 1..4 : RelayArgsOut[i] = Field(RelayArgsOut[i].name[1], RelayArgsOut[i].kind)
    BY DEF RelayArgsOut, Field, account, string
  <2>2. IsType(RelayArgsOut, 4)
    BY PlainTypes
  <2>3. \A i \in 1..4 : \E x : RelayArgsOut[i] = Field(x, RelayArgsOut[i].kind)
    BY <2>1
  <2> QED
    BY <2>2, <2>3, WithinIsType
<1>3. \A x, y : <<"Maker", x>> # <<"Taker", y>> /\ <<"Maker", x>> # <<"Relay", y>>
                /\ <<"Taker", x>> # <<"Relay", y>>
  OBVIOUS
<1> HIDE DEF maker, taker, relay
<1> DEFINE orders == maker \o taker
<1>4. IsType(orders, 24) /\ Range(orders) = Range(maker) \cup Range(taker)
  <2>1. \A a \in Range(maker), b \in Range(taker) : a.name # b.name
    BY <1>1, <1>3
  <2>2. 12 + 12 = 24
    OBVIOUS
  <2> QED
    BY <1>1, <2>1, <2>2, TypesJoined
<1> HIDE DEF orders
<1>5. IsType(orders \o relay, 28)
  <2>1. \A a \in Range(orders), b \in Range(relay) : a.name # b.name
    BY <1>1, <1>2, <1>3, <1>4
  <2>2. IsType(orders \o relay, 24 + 4)
    BY <1>2, <1>4, <2>1, TypesJoined
  <2>3. 24 + 4 = 28
    OBVIOUS
  <2> QED
    BY <2>2, <2>3, Zenon
<1> QED
  BY <1>5 DEF TradeArgsOut, orders, maker, taker, relay

LEMMA TypesKnown ==
  ASSUME NEW type \in Types
  PROVE  In[type] = Out[type] /\ \E n : IsType(Out[type], n)
<1>1. Types = {"TradeArgs", "CancelOrderArgs", "DWithdrawArgs", "DCancelArgs", "SetterArgs",
               "CommitWithdrawArgs", "ListAssetArgs", "AnchorArgs", "AssetFee", "LinkMarketArgs"}
  BY DEF Types, Out
<1>2. /\ RawOrderDataIn = RawOrderDataOut /\ RelayArgsIn = RelayArgsOut
      /\ DWithdrawArgsIn = DWithdrawArgsOut /\ DCancelArgsIn = DCancelArgsOut
      /\ SetterArgsIn = SetterArgsOut /\ CommitWithdrawArgsIn = CommitWithdrawArgsOut
      /\ ListAssetArgsIn = ListAssetArgsOut /\ AnchorArgsIn = AnchorArgsOut
      /\ AssetFeeIn = AssetFeeOut /\ LinkMarketArgsIn = LinkMarketArgsOut
  BY DEF RawOrderDataIn, RawOrderDataOut, RelayArgsIn, RelayArgsOut, DWithdrawArgsIn,
         DWithdrawArgsOut, DCancelArgsIn, DCancelArgsOut, SetterArgsIn, SetterArgsOut,
         CommitWithdrawArgsIn, CommitWithdrawArgsOut, ListAssetArgsIn, ListAssetArgsOut,
         AnchorArgsIn, AnchorArgsOut, AssetFeeIn, AssetFeeOut, LinkMarketArgsIn,
         LinkMarketArgsOut
<1>3. TradeArgsIn = TradeArgsOut
  BY <1>2 DEF TradeArgsIn, TradeArgsOut, OrderDataIn, OrderDataOut
<1>4. In[type] = Out[type]
  BY <1>1, <1>2, <1>3 DEF In, Out
<1>5. \E n : IsType(Out[type], n)
  BY <1>1, PlainTypes, TradeType DEF Out
<1> QED
  BY <1>4, <1>5

IsCall(c) == c.type \in Types /\ c.args \in ArgsOf(Out[c.type])

LEMMA MessageRead ==
  ASSUME NEW c, IsCall(c), NEW bytes \in Bytes, Agree(bytes, Message(c))
  PROVE  /\ Message(c) \in Bytes
         /\ IF Len(Message(c)) <= Len(bytes)
            THEN Deserialize(In[c.type], bytes) = [ok |-> TRUE, args |-> c.args]
            ELSE ~ Deserialize(In[c.type], bytes).ok
<1> DEFINE format == Out[c.type]
           args == c.args
<1>1. c.type \in Types /\ args \in ArgsOf(format)
  BY DEF IsCall
<1>2. PICK n : IsType(format, n)
  BY <1>1, TypesKnown
<1>3. In[c.type] = format
  BY <1>1, TypesKnown
<1>4. Message(c) = Serialize(format, args)
  BY DEF Message
<1> HIDE DEF format, args
<1>5. IsFormat(format, n) /\ KindsAgree(format)
  BY <1>2 DEF IsType
<1>6. Fits(format, args) /\ Known(format, args, n) = args
  BY <1>1, <1>5, ArgsFit
<1>7. /\ Serialize(format, args) \in Bytes
      /\ IF Len(Serialize(format, args)) <= Len(bytes)
         THEN Deserialize(format, bytes) = [ok |-> TRUE, args |-> Known(format, args, n)]
         ELSE ~ Deserialize(format, bytes).ok
  BY <1>4, <1>5, <1>6, ReadsBack
<1> QED
  BY <1>3, <1>4, <1>6, <1>7 DEF args

\* What arrives is the message as far as both go, and what was read was read
\* from it.
CallInv ==
  /\ IsCall(call)
  /\ wire \in Bytes /\ Agree(wire, Message(call))
  /\ got = Nothing \/ got = Deserialize(In[call.type], wire)

LEMMA CallInvInit == CallInit => CallInv
<1> SUFFICES ASSUME CallInit PROVE CallInv
  OBVIOUS
<1>1. IsCall(call)
  <2>1. PICK type \in Types : \E args \in ArgsOf(Out[type]) : call = [type |-> type, args |-> args]
    BY DEF CallInit
  <2>2. PICK args \in ArgsOf(Out[type]) : call = [type |-> type, args |-> args]
    BY <2>1
  <2>3. call.type = type /\ call.args = args
    BY <2>2
  <2> QED
    BY <2>3 DEF IsCall
<1>2. wire = Message(call) /\ got = Nothing
  BY DEF CallInit
<1>3. Agree(wire, wire)
  BY DEF Agree
<1>4. Message(call) \in Bytes
  <2> DEFINE format == Out[call.type]
  <2>1. call.type \in Types /\ call.args \in ArgsOf(format)
    BY <1>1 DEF IsCall
  <2>2. PICK n : IsType(format, n)
    BY <2>1, TypesKnown
  <2> HIDE DEF format
  <2>3. IsFormat(format, n) /\ Fits(format, call.args)
    BY <2>1, <2>2, ArgsFit DEF IsType
  <2>4. PICK whole : /\ IsWriting(whole, Parts(format, call.args), n)
                     /\ Serialize(format, call.args) = whole[n]
    BY <2>3, SerializeRun
  <2>5. whole[n] \in Bytes
    BY <2>3, <2>4 DEF IsFormat, IsWriting
  <2> QED
    BY <2>4, <2>5 DEF Message, format
<1> QED
  BY <1>1, <1>2, <1>3, <1>4 DEF CallInv

LEMMA CallInvStep == CallInv /\ [CallNext]_callVars => CallInv'
<1> SUFFICES ASSUME CallInv, [CallNext]_callVars PROVE CallInv'
  OBVIOUS
<1> DEFINE m == Message(call)
           w == wire'
<1>0. IsCall(call) /\ wire \in Bytes /\ Agree(wire, m) /\ m \in Bytes
      /\ Len(wire) \in Nat /\ Len(m) \in Nat
  BY MessageRead, LenProperties DEF CallInv, Bytes
<1>1. ASSUME call' = call, w \in Bytes, Agree(w, m), got' = Nothing PROVE CallInv'
  BY <1>0, <1>1 DEF CallInv, Message
<1> HIDE DEF m, w
<1>2. CASE Cut
  <2>1. wire # <<>> /\ w = SubSeq(wire, 1, Len(wire) - 1)
    BY <1>2 DEF Cut, Front, w
  <2>2. Len(wire) # 0
    BY <1>0, <2>1, EmptySeq DEF Bytes
  <2> DEFINE b == Len(wire) - 1
  <2>3. b \in Nat /\ 0 + b <= Len(wire) /\ 0 + b = b /\ 0 + 1 = 1
    BY <1>0, <2>2
  <2>4. w \in Bytes /\ Len(w) = b /\ \A i \in 1..b : w[i] = wire[i]
    <3> HIDE DEF b
    <3>1. /\ SubSeq(wire, 0 + 1, 0 + b) \in Bytes /\ Len(SubSeq(wire, 0 + 1, 0 + b)) = b
          /\ \A i \in 1..b : SubSeq(wire, 0 + 1, 0 + b)[i] = wire[0 + i]
      BY <1>0, <2>3, Slice
    <3>2. \A i \in 1..b : 0 + i = i
      BY <2>3
    <3>3. SubSeq(wire, 0 + 1, 0 + b) = w
      BY <2>1, <2>3 DEF b
    <3> QED
      BY <3>1, <3>2, <3>3
  <2>5. Agree(w, m)
    BY <1>0, <2>3, <2>4 DEF Agree
  <2> QED
    BY <1>1, <1>2, <2>4, <2>5 DEF Cut
<1>3. CASE \E tail \in Tails : Extend(tail)
  <2>1. PICK tail \in Tails : Extend(tail)
    BY <1>3
  <2>2. wire = m /\ w = wire \o tail /\ tail \in Bytes
    BY <2>1, TailsAssumption DEF Extend, m, w, Bytes
  <2>3. w \in Bytes /\ IsJoined(w, m, tail)
    BY <1>0, <2>2, BytesJoined
  <2>4. Agree(w, m)
    BY <2>3 DEF Agree, IsJoined
  <2> QED
    BY <1>1, <2>1, <2>3, <2>4 DEF Extend
<1>4. CASE Receive
  BY <1>4 DEF Receive, CallInv, IsCall, Message
<1>5. CASE UNCHANGED callVars
  BY <1>5 DEF callVars, CallInv, IsCall, Message
<1> QED
  BY <1>2, <1>3, <1>4, <1>5 DEF CallNext

\* The whole message has arrived if as many bytes have.
LEMMA WholeArrived ==
  ASSUME NEW m \in Bytes, NEW w \in Bytes, Agree(w, m)
  PROVE  IsPrefix(m, w) <=> Len(m) <= Len(w)
<1>1. Len(m) \in Nat /\ Len(w) \in Nat
  BY LenProperties DEF Bytes
<1>2. ASSUME Len(m) <= Len(w) PROVE SubSeq(m, 1, Len(m)) = SubSeq(w, 1, Len(m))
  <2> DEFINE b == Len(m)
             x == SubSeq(m, 1, b)
             y == SubSeq(w, 1, b)
  <2>0. b \in Nat /\ 0 + b <= Len(m) /\ 0 + b <= Len(w) /\ 0 + b = b /\ 0 + 1 = 1 /\ 0 \in Nat
    BY <1>1, <1>2
  <2> HIDE DEF b
  <2>1. /\ SubSeq(m, 0 + 1, 0 + b) \in Bytes /\ Len(SubSeq(m, 0 + 1, 0 + b)) = b
        /\ \A i \in 1..b : SubSeq(m, 0 + 1, 0 + b)[i] = m[0 + i]
    BY <2>0, Slice
  <2>2. /\ SubSeq(w, 0 + 1, 0 + b) \in Bytes /\ Len(SubSeq(w, 0 + 1, 0 + b)) = b
        /\ \A i \in 1..b : SubSeq(w, 0 + 1, 0 + b)[i] = w[0 + i]
    BY <2>0, Slice
  <2>3. \A i \in 1..b : 0 + i = i
    BY <2>0
  <2>4. x \in Bytes /\ Len(x) = b /\ \A i \in 1..b : x[i] = m[i]
    BY <2>0, <2>1, <2>3
  <2>5. y \in Bytes /\ Len(y) = b /\ \A i \in 1..b : y[i] = w[i]
    BY <2>0, <2>2, <2>3
  <2>6. \A i \in 1..b : w[i] = m[i]
    BY <1>1, <1>2, <2>0 DEF Agree, b
  <2> HIDE DEF x, y
  <2>7. \A i \in 1..Len(x) : x[i] = y[i]
    BY <2>4, <2>5, <2>6
  <2>8. x = y
    BY <2>4, <2>5, <2>7, SeqEqual DEF Bytes
  <2> QED
    BY <2>8 DEF x, y, b
<1> QED
  BY <1>2 DEF IsPrefix

(* A handler reads exactly what the client wrote or refuses, whatever the  *)
(* type, however much of the message arrives and whatever follows it       *)
(* (types.go Serialize, Deserialize).                                      *)
THEOREM CallsReadAsWritten == CallSpec => []ReadAsWritten
<1>1. ASSUME CallInv PROVE ReadAsWritten
  <2>1. IsCall(call) /\ wire \in Bytes /\ Agree(wire, Message(call))
        /\ (got = Nothing \/ got = Deserialize(In[call.type], wire))
    BY <1>1 DEF CallInv
  <2>2. /\ Message(call) \in Bytes
        /\ IF Len(Message(call)) <= Len(wire)
           THEN Deserialize(In[call.type], wire) = [ok |-> TRUE, args |-> call.args]
           ELSE ~ Deserialize(In[call.type], wire).ok
    BY <2>1, MessageRead
  <2>3. Whole <=> Len(Message(call)) <= Len(wire)
    BY <2>1, <2>2, WholeArrived DEF Whole
  <2> QED
    BY <2>1, <2>2, <2>3 DEF ReadAsWritten, Nothing
<1> QED
  BY <1>1, CallInvInit, CallInvStep, PTL DEF CallSpec
=============================================================================
