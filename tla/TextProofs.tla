------------------------------ MODULE TextProofs ------------------------------
(***************************************************************************)
(* Theorems about texts: the numbers written in them, for any radix,       *)
(* decimals and word size, and the texts owners sign, for any amounts and  *)
(* names.  A text's digits and a number's text are recursive functions;    *)
(* their equations are shown to have solutions before anything is said of  *)
(* them.                                                                   *)
(***************************************************************************)
EXTENDS DecimalCodec, SignedText, FoldTheorems, SequenceTheorems

(* Recursion over Nat.                                                     *)

Recursions(X) == [(Nat \X X) -> X]

IsRecursion(g, X, start, step) ==
  g \in [Nat -> X] /\ g[0] = start /\ \A n \in Nat : g[n + 1] = step[<<n + 1, g[n]>>]

LEMMA NatRecursion ==
  ASSUME NEW X, NEW start \in X, NEW step \in Recursions(X)
  PROVE  \E g : IsRecursion(g, X, start, step)
<1> DEFINE Chain(r, n) == /\ r \in [0..n -> X] /\ r[0] = start
                          /\ \A k \in 1..n : r[k] = step[<<k, r[k - 1]>>]
           chain(n) == CHOOSE r : Chain(r, n)
           g == [n \in Nat |-> chain(n)[n]]
<1>1. ASSUME NEW n \in Nat PROVE \E r : Chain(r, n)
  <2> DEFINE part == [p \in (1..n) \X X |-> step[p]]
  <2>1. part \in Steps(n, X) /\ \A k \in 1..n, x \in X : part[<<k, x>>] = step[<<k, x>>]
    <3>1. \A p \in (1..n) \X X : p \in Nat \X X
      OBVIOUS
    <3>2. \A k \in 1..n, x \in X : <<k, x>> \in (1..n) \X X
      OBVIOUS
    <3> QED
      BY <3>1, <3>2 DEF Steps, Recursions
  <2> HIDE DEF part
  <2>2. PICK r : IsChain(r, n, X, start, part)
    BY <2>1, ChainExists
  <2>3. \A k \in 1..n : k - 1 \in 0..n
    OBVIOUS
  <2>4. Chain(r, n)
    BY <2>1, <2>2, <2>3 DEF IsChain
  <2> QED
    BY <2>4
<1>2. \A n \in Nat : Chain(chain(n), n)
  <2> HIDE DEF Chain
  <2> QED
    BY <1>1
<1> HIDE DEF chain
<1>3. ASSUME NEW n \in Nat PROVE chain(n + 1)[n] = chain(n)[n]
  <2> DEFINE a == chain(n + 1)
             b == chain(n)
  <2>1. Chain(a, n + 1) /\ Chain(b, n)
    BY <1>2
  <2> HIDE DEF a, b
  <2>2. a[0] = b[0] /\ \A k \in 1..n : a[k - 1] = b[k - 1] => a[k] = b[k]
    <3>1. \A k \in 1..n : k \in 1..(n + 1)
      OBVIOUS
    <3> QED
      BY <2>1, <3>1
  <2>3. \A k \in 0..n : a[k] = b[k]
    <3> HIDE DEF Chain
    <3> QED
      BY <2>2, SameChain
  <2> QED
    BY <2>3 DEF a, b
<1>4. g \in [Nat -> X] /\ g[0] = start
  BY <1>2
<1>5. ASSUME NEW n \in Nat PROVE g[n + 1] = step[<<n + 1, g[n]>>]
  <2>1. n + 1 \in 1..(n + 1) /\ (n + 1) - 1 = n /\ n + 1 \in Nat
    OBVIOUS
  <2>2. chain(n + 1)[n + 1] = step[<<n + 1, chain(n + 1)[n]>>]
    BY <1>2, <2>1
  <2> QED
    BY <1>3, <2>1, <2>2
<1> HIDE DEF g
<1> QED
  BY <1>4, <1>5 DEF IsRecursion

\* Induction on all smaller numbers.
LEMMA StrongInduction ==
  ASSUME NEW S, \A n \in Nat : (\A m \in Nat : m < n => m \in S) => n \in S
  PROVE  Nat \subseteq S
<1> SUFFICES ASSUME Nat \ S # {} PROVE FALSE
  OBVIOUS
<1>1. PICK n \in Nat \ S : \A m \in Nat \ S : n <= m
  BY NatMinimum
<1> QED
  BY <1>1
-----------------------------------------------------------------------------
(* Powers.                                                                 *)

IsPow(f) == f = [n \in Nat |-> IF n = 0 THEN 1 ELSE Radix * f[n - 1]]

LEMMA PowIs ==
  /\ Pow \in [Nat -> Nat \ {0}]
  /\ Pow[0] = 1
  /\ \A n \in Nat : Pow[n + 1] = Radix * Pow[n]
<1> DEFINE P == Nat \ {0}
           step == [p \in Nat \X P |-> Radix * p[2]]
<1>1. Radix \in P /\ \A x \in P : Radix * x \in P
  BY CodecAssumption
<1>2. step \in Recursions(P) /\ 1 \in P
        /\ \A n \in Nat, x \in P : step[<<n, x>>] = Radix * x
  BY <1>1 DEF Recursions
<1> HIDE DEF step, P
<1>3. PICK g : IsRecursion(g, P, 1, step)
  BY <1>2, NatRecursion
<1>4. g \in [Nat -> P] /\ g[0] = 1 /\ \A n \in Nat : g[n + 1] = Radix * g[n]
  <2>1. g \in [Nat -> P] /\ g[0] = 1 /\ \A n \in Nat : g[n + 1] = step[<<n + 1, g[n]>>]
    BY <1>3 DEF IsRecursion
  <2>2. \A n \in Nat : n + 1 \in Nat /\ g[n] \in P
    BY <2>1
  <2> QED
    BY <1>2, <2>1, <2>2
<1>5. IsPow(g)
  <2>1. ASSUME NEW n \in Nat PROVE g[n] = IF n = 0 THEN 1 ELSE Radix * g[n - 1]
    <3>1. CASE n = 0
      BY <1>4, <3>1
    <3>2. CASE n # 0
      <4>1. n - 1 \in Nat /\ (n - 1) + 1 = n
        BY <3>2
      <4> QED
        BY <1>4, <3>2, <4>1
    <3> QED
      BY <3>1, <3>2
  <2>2. g = [n \in Nat |-> g[n]]
    BY <1>4
  <2> QED
    BY <2>1, <2>2 DEF IsPow
<1>6. Pow = CHOOSE f : IsPow(f)
  BY DEF Pow, IsPow
<1>7. IsPow(Pow)
  BY <1>5, <1>6
<1>8. Pow[0] = 1 /\ \A n \in Nat : Pow[n + 1] = Radix * Pow[n]
  <2>1. \A n \in Nat : Pow[n] = IF n = 0 THEN 1 ELSE Radix * Pow[n - 1]
    BY <1>7 DEF IsPow
  <2>2. \A n \in Nat : n + 1 \in Nat /\ n + 1 # 0 /\ (n + 1) - 1 = n
    OBVIOUS
  <2> QED
    BY <2>1, <2>2
<1>9. \A n \in Nat : Pow[n] \in P
  <2> DEFINE N == {n \in Nat : Pow[n] \in P}
  <2>1. 0 \in N /\ \A n \in Nat : n \in N => n + 1 \in N
    BY <1>1, <1>2, <1>8
  <2> HIDE DEF N
  <2>2. Nat \subseteq N
    BY <2>1, SetInduction
  <2> QED
    BY <2>2 DEF N
<1>10. Pow = [n \in Nat |-> Pow[n]]
  BY <1>7 DEF IsPow
<1> QED
  BY <1>8, <1>9, <1>10 DEF P

LEMMA PowSum ==
  ASSUME NEW a \in Nat, NEW b \in Nat
  PROVE  Pow[a + b] = Pow[a] * Pow[b]
<1> DEFINE N == {k \in Nat : Pow[a + k] = Pow[a] * Pow[k]}
<1>0. Radix \in Nat /\ \A n \in Nat : Pow[n] \in Nat
  BY CodecAssumption, PowIs
<1>1. 0 \in N
  <2>1. a + 0 = a /\ Pow[a] * 1 = Pow[a]
    BY <1>0
  <2> QED
    BY <2>1, PowIs
<1>2. ASSUME NEW k \in Nat, k \in N PROVE k + 1 \in N
  <2>1. a + (k + 1) = (a + k) + 1 /\ a + k \in Nat
    OBVIOUS
  <2>2. Pow[a + (k + 1)] = Radix * (Pow[a] * Pow[k])
    BY <1>2, <2>1, PowIs
  <2>3. Pow[k + 1] = Radix * Pow[k]
    BY PowIs
  <2>4. \A x, y \in Nat : Radix * (x * y) = x * (Radix * y)
    BY <1>0
  <2> QED
    BY <1>0, <2>2, <2>3, <2>4
<1>3. Nat \subseteq N
  <2> HIDE DEF N
  <2> QED
    BY <1>1, <1>2, SetInduction
<1> QED
  BY <1>3
-----------------------------------------------------------------------------
(* Writing numbers.                                                        *)

LEMMA Quotients ==
  ASSUME NEW n \in Nat, NEW b \in Nat \ {0}
  PROVE  /\ n \div b \in Nat /\ n % b \in Nat /\ n % b < b
         /\ n = (n \div b) * b + (n % b)
OBVIOUS

LEMMA Divided ==
  ASSUME NEW n \in Nat
  PROVE  /\ n \div Radix \in Nat /\ n % Radix \in Nat /\ n % Radix < Radix
         /\ n = (n \div Radix) * Radix + (n % Radix)
         /\ n >= Radix => n \div Radix < n
<1> DEFINE q == n \div Radix
           r == n % Radix
<1>0. Radix \in Nat \ {0} /\ Radix >= 2
  BY CodecAssumption
<1>1. q \in Nat /\ r \in Nat /\ r < Radix /\ n = q * Radix + r
  BY <1>0, Quotients
<1> HIDE DEF q, r
<1>2. q * Radix >= q + q
  BY <1>0, <1>1
<1>3. n >= Radix => q < n
  <2>1. n >= q + q
    BY <1>0, <1>1, <1>2
  <2>2. q = 0 => n < Radix
    BY <1>0, <1>1
  <2> QED
    BY <1>0, <1>1, <2>1, <2>2
<1> QED
  BY <1>1, <1>3 DEF q, r

Texts == Seq(Nat)
IsFormatting(f) ==
  f = [n \in Nat |-> IF n < Radix THEN <<n>> ELSE Append(f[n \div Radix], n % Radix)]

\* Writing the higher digits first, once more for every number.
Longer(h) == [n \in Nat |-> IF n < Radix THEN <<n>> ELSE Append(h[n \div Radix], n % Radix)]

LEMMA LongerTyped ==
  ASSUME NEW h \in [Nat -> Texts]
  PROVE  Longer(h) \in [Nat -> Texts]
<1>1. ASSUME NEW n \in Nat
      PROVE  (IF n < Radix THEN <<n>> ELSE Append(h[n \div Radix], n % Radix)) \in Seq(Nat)
  <2>1. n \div Radix \in Nat /\ n % Radix \in Nat
    BY Divided
  <2>2. h[n \div Radix] \in Seq(Nat)
    BY <2>1 DEF Texts
  <2>3. Append(h[n \div Radix], n % Radix) \in Seq(Nat)
    BY <2>1, <2>2, AppendProperties
  <2> QED
    BY <2>3
<1> QED
  BY <1>1 DEF Longer, Texts

LEMMA FormattingExists == \E f : IsFormatting(f)
<1> DEFINE X == [Nat -> Texts]
           start == [n \in Nat |-> <<n>>]
           step == [p \in Nat \X X |-> Longer(p[2])]
<1>1. start \in X
  BY DEF Texts
<1>2. step \in Recursions(X) /\ \A n \in Nat, h \in X : step[<<n, h>>] = Longer(h)
  BY LongerTyped DEF Recursions
<1> HIDE DEF step, start
<1>3. PICK g : IsRecursion(g, X, start, step)
  <2> HIDE DEF X
  <2> QED
    BY <1>1, <1>2, NatRecursion
<1>4. /\ \A k \in Nat : g[k] \in X
      /\ \A k \in Nat : g[k + 1] = Longer(g[k])
  <2> HIDE DEF X
  <2>1. g \in [Nat -> X] /\ \A k \in Nat : g[k + 1] = step[<<k + 1, g[k]>>]
    BY <1>3 DEF IsRecursion
  <2>2. \A k \in Nat : k + 1 \in Nat /\ g[k] \in X
    BY <2>1
  <2> QED
    BY <1>2, <2>1, <2>2
<1>5. \A k, n \in Nat :
        g[k + 1][n] = IF n < Radix THEN <<n>> ELSE Append(g[k][n \div Radix], n % Radix)
  BY <1>4 DEF Longer
<1> HIDE DEF X
<1> DEFINE N == {k \in Nat : \A n \in 0..k : g[k + 1][n] = g[k][n]}
<1>6. 0 \in N
  <2>1. g[0][0] = <<0>>
    BY <1>3 DEF IsRecursion, start
  <2>2. 0 < Radix
    BY CodecAssumption
  <2>3. g[0 + 1][0] = <<0>>
    BY <1>5, <2>2
  <2>4. \A n \in 0..0 : n = 0
    OBVIOUS
  <2> QED
    BY <2>1, <2>3, <2>4
<1>7. ASSUME NEW k \in Nat, k \in N PROVE k + 1 \in N
  <2>1. ASSUME NEW n \in 0..(k + 1) PROVE g[(k + 1) + 1][n] = g[k + 1][n]
    <3>1. n \in Nat /\ k + 1 \in Nat
      OBVIOUS
    <3>2. CASE n < Radix
      BY <1>5, <3>1, <3>2
    <3>3. CASE ~(n < Radix)
      <4>1. n \div Radix \in Nat /\ n \div Radix < n
        BY <3>1, <3>3, Divided, CodecAssumption
      <4>2. n \div Radix \in 0..k
        BY <4>1
      <4>3. g[k + 1][n \div Radix] = g[k][n \div Radix]
        BY <1>7, <4>2
      <4> QED
        BY <1>5, <3>1, <3>3, <4>3
    <3> QED
      BY <3>2, <3>3
  <2> QED
    BY <2>1
<1>8. Nat \subseteq N
  <2> HIDE DEF N
  <2> QED
    BY <1>6, <1>7, SetInduction
<1>9. ASSUME NEW n \in Nat, NEW d \in Nat PROVE g[n + d][n] = g[n][n]
  <2> DEFINE M == {e \in Nat : g[n + e][n] = g[n][n]}
  <2>1. 0 \in M
    <3>1. n + 0 = n
      OBVIOUS
    <3> QED
      BY <3>1
  <2>2. ASSUME NEW e \in Nat, e \in M PROVE e + 1 \in M
    <3>1. n + (e + 1) = (n + e) + 1 /\ n + e \in Nat /\ n \in 0..(n + e)
      OBVIOUS
    <3>2. g[(n + e) + 1][n] = g[n + e][n]
      BY <1>8, <3>1
    <3> QED
      BY <2>2, <3>1, <3>2
  <2>3. Nat \subseteq M
    <3> HIDE DEF M
    <3> QED
      BY <2>1, <2>2, SetInduction
  <2> QED
    BY <2>3
<1> DEFINE f == [n \in Nat |-> g[n][n]]
<1>10. ASSUME NEW n \in Nat
       PROVE  f[n] = IF n < Radix THEN <<n>> ELSE Append(f[n \div Radix], n % Radix)
  <2>1. CASE n < Radix
    <3>1. CASE n = 0
      <4>1. g[0][0] = <<0>>
        BY <1>3 DEF IsRecursion, start
      <4> QED
        BY <2>1, <3>1, <4>1
    <3>2. CASE n # 0
      <4>1. n - 1 \in Nat /\ (n - 1) + 1 = n
        BY <3>2
      <4> QED
        BY <1>5, <2>1, <4>1
    <3> QED
      BY <3>1, <3>2
  <2>2. CASE ~(n < Radix)
    <3> DEFINE q == n \div Radix
               k == n - 1
               d == k - q
    <3>1. q \in Nat /\ q < n /\ n # 0
      BY <2>2, Divided, CodecAssumption
    <3> HIDE DEF q
    <3>2. k \in Nat /\ k + 1 = n /\ d \in Nat /\ q + d = k
      BY <3>1
    <3> HIDE DEF k, d
    <3>3. g[n][n] = Append(g[k][q], n % Radix)
      BY <1>5, <2>2, <3>2 DEF q
    <3>4. g[k][q] = g[q][q]
      BY <1>9, <3>1, <3>2
    <3> QED
      BY <2>2, <3>1, <3>3, <3>4 DEF q
  <2> QED
    BY <2>1, <2>2
<1>11. IsFormatting(f)
  <2>1. f = [n \in Nat |-> f[n]]
    OBVIOUS
  <2> HIDE DEF f
  <2> QED
    BY <1>10, <2>1 DEF IsFormatting
<1> QED
  BY <1>11

LEMMA FormatUintIs ==
  ASSUME NEW n \in Nat
  PROVE  FormatUint[n] = IF n < Radix THEN <<n>> ELSE Append(FormatUint[n \div Radix], n % Radix)
<1>1. FormatUint = CHOOSE f : IsFormatting(f)
  BY DEF FormatUint, IsFormatting
<1>2. IsFormatting(FormatUint)
  BY <1>1, FormattingExists
<1> QED
  BY <1>2 DEF IsFormatting
-----------------------------------------------------------------------------
(* Reading numbers.                                                        *)

IsCounting(h, text) ==
  h = [t \in SUBSET (DOMAIN text) |->
         IF t = {} THEN 0 ELSE h[t \ {Top(t)}] * Radix + text[Top(t)]]

LEMMA DigitsAre ==
  ASSUME NEW text
  PROVE  Digits(text) = (CHOOSE h : IsCounting(h, text))[DOMAIN text]
BY DEF Digits, IsCounting, Top, FoldLeft, MapThenFoldSet, Max

\* The numbers the first k digits stand for.
IsCount(r, text) ==
  /\ r \in [0..Len(text) -> Nat] /\ r[0] = 0
  /\ \A k \in 1..Len(text) : r[k] = r[k - 1] * Radix + text[k]

LEMMA DigitsRun ==
  ASSUME NEW text \in Texts
  PROVE  \E r : IsCount(r, text) /\ Digits(text) = r[Len(text)]
<1> DEFINE n == Len(text)
           step == [p \in (1..n) \X Nat |-> p[2] * Radix + text[p[1]]]
           h == CHOOSE g : IsCounting(g, text)
<1>0. /\ n \in Nat /\ DOMAIN text = 1..n /\ \A k \in 1..n : text[k] \in Nat
      /\ Radix \in Nat
  BY LenProperties, CodecAssumption DEF Texts
<1> HIDE DEF n
<1>1. step \in Steps(n, Nat) /\ \A k \in 1..n, x \in Nat : step[<<k, x>>] = x * Radix + text[k]
  <2>1. \A k \in 1..n, x \in Nat : x * Radix + text[k] \in Nat
    BY <1>0
  <2> QED
    BY <2>1 DEF Steps
<1> HIDE DEF step
<1>2. \A t \in SUBSET (1..n) : t # {} => Top(t) \in 1..n
  BY <1>0, TopTaken
<1>3. IsCounting(h, text)
  <2>1. PICK g \in [SUBSET (1..n) -> Nat] : IsFold(g, n, 0, step)
    BY <1>0, <1>1, FoldExists
  <2>2. \A t \in SUBSET (1..n) : t # {} =>
          step[<<Top(t), g[t \ {Top(t)}]>>] = g[t \ {Top(t)}] * Radix + text[Top(t)]
    BY <1>1, <1>2
  <2>3. g = [t \in SUBSET (1..n) |->
               IF t = {} THEN 0 ELSE g[t \ {Top(t)}] * Radix + text[Top(t)]]
    BY <2>1, <2>2 DEF IsFold
  <2>4. IsCounting(g, text)
    BY <1>0, <2>3 DEF IsCounting
  <2> QED
    BY <2>4
<1> HIDE DEF h
<1>4. Goes(h, n, Nat, 0, step)
  BY <1>0, <1>1, <1>2, <1>3 DEF IsCounting, Goes
<1>5. IsChain(Along(h, n), n, Nat, 0, step) /\ Along(h, n)[n] = h[1..n]
  <2> DEFINE X == Nat
  <2>1. n \in Nat /\ 0 \in X /\ step \in Steps(n, X) /\ Goes(h, n, X, 0, step)
    BY <1>0, <1>1, <1>4
  <2> HIDE DEF X
  <2>2. IsChain(Along(h, n), n, X, 0, step) /\ Along(h, n)[n] = h[1..n]
    BY <2>1, FoldAlong
  <2> QED
    BY <2>2 DEF X
<1> DEFINE r == Along(h, n)
<1>6. r \in [0..n -> Nat] /\ r[0] = 0 /\ \A k \in 1..n : r[k] = step[<<k, r[k - 1]>>]
  BY <1>5 DEF IsChain
<1> HIDE DEF r
<1>7. \A k \in 1..n : r[k - 1] \in Nat
  BY <1>0, <1>6
<1>8. IsCount(r, text)
  BY <1>1, <1>6, <1>7 DEF IsCount, n
<1>9. Digits(text) = r[n]
  BY <1>0, <1>5, DigitsAre DEF h, r
<1> QED
  BY <1>8, <1>9 DEF n

\* What the digits of a text stand for is found by going through them.
LEMMA DigitsCount ==
  ASSUME NEW text \in Texts, NEW r, IsCount(r, text)
  PROVE  Digits(text) = r[Len(text)]
<1>1. PICK q : IsCount(q, text) /\ Digits(text) = q[Len(text)]
  BY DigitsRun
<1> DEFINE n == Len(text)
<1>2. n \in Nat
  BY LenProperties DEF Texts
<1>3. q[0] = r[0] /\ \A k \in 1..n : q[k - 1] = r[k - 1] => q[k] = r[k]
  BY <1>1 DEF IsCount
<1>4. \A k \in 0..n : q[k] = r[k]
  BY <1>2, <1>3, SameChain
<1> QED
  BY <1>1, <1>2, <1>4

LEMMA CountAt ==
  ASSUME NEW text \in Texts, NEW r, IsCount(r, text), NEW k \in 1..Len(text)
  PROVE  r[k] = r[k - 1] * Radix + text[k]
BY DEF IsCount

LEMMA DigitsNatural ==
  ASSUME NEW text \in Texts
  PROVE  Digits(text) \in Nat
<1>1. PICK q : IsCount(q, text) /\ Digits(text) = q[Len(text)]
  BY DigitsRun
<1>2. Len(text) \in Nat
  BY LenProperties DEF Texts
<1> QED
  BY <1>1, <1>2 DEF IsCount

LEMMA ShiftedSum ==
  ASSUME NEW a \in Nat, NEW p \in Nat, NEW x \in Nat, NEW c \in Nat, NEW R \in Nat
  PROVE  (a * p + x) * R + c = a * (R * p) + (x * R + c)
<1>1. (a * p + x) * R = (a * p) * R + x * R
  OBVIOUS
<1>2. (a * p) * R = a * (R * p)
  OBVIOUS
<1>3. a * p \in Nat /\ (a * p) * R \in Nat /\ x * R \in Nat
  OBVIOUS
<1> QED
  BY <1>1, <1>2, <1>3

\* Digits in front of others are shifted by these.
LEMMA DigitsJoined ==
  ASSUME NEW s \in Texts, NEW t \in Texts
  PROVE  /\ s \o t \in Texts
         /\ Digits(s \o t) = Digits(s) * Pow[Len(t)] + Digits(t)
<1> DEFINE u == s \o t
           m == Len(s)
           n == Len(t)
<1>1. /\ u \in Texts /\ m \in Nat /\ n \in Nat /\ Len(u) = m + n
      /\ \A i \in 1..m + n : u[i] = IF i <= m THEN s[i] ELSE t[i - m]
      /\ \A i \in 1..n : t[i] \in Nat
  BY ConcatProperties, LenProperties DEF Texts
<1>2. PICK a : IsCount(a, s) /\ Digits(s) = a[m]
  BY DigitsRun
<1>3. PICK b : IsCount(b, t) /\ Digits(t) = b[n]
  BY DigitsRun
<1>4. PICK c : IsCount(c, u) /\ Digits(u) = c[Len(u)]
  BY <1>1, DigitsRun
<1> HIDE DEF u, m, n
<1>5. a[0] = 0 /\ b[0] = 0 /\ c[0] = 0
  BY <1>2, <1>3, <1>4 DEF IsCount
<1>5a. ASSUME NEW k \in 1..m PROVE a[k] = a[k - 1] * Radix + s[k]
  <2>1. k \in 1..Len(s)
    BY DEF m
  <2> QED
    BY <1>2, <2>1, CountAt
<1>5b. ASSUME NEW k \in 1..n PROVE b[k] = b[k - 1] * Radix + t[k]
  <2>1. k \in 1..Len(t)
    BY DEF n
  <2> QED
    BY <1>3, <2>1, CountAt
<1>5c. ASSUME NEW k \in 1..(m + n) PROVE c[k] = c[k - 1] * Radix + u[k]
  <2>1. k \in 1..Len(u)
    BY <1>1
  <2> QED
    BY <1>1, <1>4, <2>1, CountAt
<1>6. a[m] \in Nat /\ \A k \in 0..n : b[k] \in Nat
  <2>1. a \in [0..m -> Nat] /\ b \in [0..n -> Nat]
    BY <1>2, <1>3 DEF IsCount, m, n
  <2>2. m \in 0..m
    BY <1>1
  <2> QED
    BY <2>1, <2>2
<1>7. \A k \in 0..m : c[k] = a[k]
  <2>1. \A k \in 1..m : k \in 1..(m + n) /\ u[k] = s[k]
    BY <1>1
  <2>2. ASSUME NEW k \in 1..m, c[k - 1] = a[k - 1] PROVE c[k] = a[k]
    <3>1. c[k] = c[k - 1] * Radix + u[k]
      BY <1>5c, <2>1
    <3>2. a[k] = a[k - 1] * Radix + s[k]
      BY <1>5a
    <3> QED
      BY <2>1, <2>2, <3>1, <3>2
  <2>3. c[0] = a[0] /\ m \in Nat
    BY <1>1, <1>5
  <2> QED
    BY <2>2, <2>3, SameChain
<1> DEFINE Shifted(k) == c[m + k] = a[m] * Pow[k] + b[k]
           N == {k \in Nat : k <= n => Shifted(k)}
<1>8. 0 \in N
  <2>1. m + 0 = m /\ m \in 0..m
    BY <1>1
  <2>2. Pow[0] = 1
    BY PowIs
  <2>3. a[m] * 1 + 0 = a[m]
    BY <1>6
  <2>4. c[m] = a[m] /\ b[0] = 0
    BY <1>5, <1>7, <2>1
  <2> QED
    BY <2>1, <2>2, <2>3, <2>4
<1>9. ASSUME NEW k \in Nat, k \in N, k + 1 <= n PROVE Shifted(k + 1)
  <2>1. /\ k <= n /\ k \in 0..n /\ k + 1 \in 1..n /\ (k + 1) - 1 = k
        /\ m + (k + 1) \in 1..(m + n) /\ m + (k + 1) - 1 = m + k
        /\ ~(m + (k + 1) <= m) /\ m + (k + 1) - m = k + 1
    BY <1>1, <1>9
  <2>2. c[m + k] = a[m] * Pow[k] + b[k]
    BY <1>9, <2>1
  <2>3. c[m + (k + 1)] = c[m + k] * Radix + u[m + (k + 1)]
    <3> DEFINE l == m + (k + 1)
    <3>0. m \in Nat
      BY <1>1
    <3>1. l \in 1..(m + n) /\ l - 1 = m + k
      BY <2>1, <3>0
    <3> HIDE DEF l
    <3>2. c[l] = c[l - 1] * Radix + u[l]
      BY <3>1, <1>5c
    <3> QED
      BY <3>1, <3>2 DEF l
  <2>4. u[m + (k + 1)] = t[k + 1]
    <3>1. m + (k + 1) \in 1..m + n
      BY <2>1
    <3> QED
      BY <1>1, <2>1, <3>1
  <2>5. b[k + 1] = b[k] * Radix + t[k + 1]
    <3> DEFINE l == k + 1
    <3>1. l \in 1..n /\ l - 1 = k
      BY <2>1
    <3> HIDE DEF l
    <3>2. b[l] = b[l - 1] * Radix + t[l]
      BY <3>1, <1>5b
    <3> QED
      BY <3>1, <3>2 DEF l
  <2>6. Pow[k + 1] = Radix * Pow[k] /\ Pow[k] \in Nat /\ Radix \in Nat
        /\ b[k] \in Nat /\ t[k + 1] \in Nat
    BY <1>1, <1>6, <2>1, PowIs, CodecAssumption
  <2>7. (a[m] * Pow[k] + b[k]) * Radix + t[k + 1]
          = a[m] * (Radix * Pow[k]) + (b[k] * Radix + t[k + 1])
    BY <1>6, <2>6, ShiftedSum
  <2> QED
    BY <2>2, <2>3, <2>4, <2>5, <2>6, <2>7
<1>10. \A k \in Nat : k \in N => k + 1 \in N
  <2> HIDE DEF Shifted
  <2> QED
    BY <1>9
<1>11. Nat \subseteq N
  <2> HIDE DEF N
  <2> QED
    BY <1>8, <1>10, SetInduction
<1>12. Shifted(n)
  BY <1>1, <1>11
<1> QED
  BY <1>1, <1>2, <1>3, <1>4, <1>12 DEF u, n

LEMMA NoDigits == <<>> \in Texts /\ Digits(<<>>) = 0
<1> DEFINE t == <<>>
           r == [k \in 0..0 |-> 0]
<1>1. t \in Texts /\ Len(t) = 0
  BY EmptySeq DEF Texts
<1>2. IsCount(r, t)
  BY <1>1 DEF IsCount
<1> HIDE DEF r, t
<1>3. Digits(t) = r[Len(t)]
  BY <1>1, <1>2, DigitsCount
<1> QED
  BY <1>1, <1>3 DEF t, r

LEMMA OneDigit ==
  ASSUME NEW n \in Nat
  PROVE  <<n>> \in Texts /\ Len(<<n>>) = 1 /\ Digits(<<n>>) = n
<1> DEFINE t == <<n>>
           r == [k \in 0..1 |-> IF k = 0 THEN 0 ELSE n]
<1>1. t \in Texts /\ Len(t) = 1 /\ t[1] = n
  BY DEF Texts
<1>2. IsCount(r, t)
  <2>1. r \in [0..1 -> Nat] /\ r[0] = 0 /\ r[1] = n
    OBVIOUS
  <2>2. 0 * Radix + n = n
    BY CodecAssumption
  <2>3. \A k \in 1..1 : k = 1 /\ k - 1 = 0
    OBVIOUS
  <2> HIDE DEF r, t
  <2>4. \A k \in 1..1 : r[k] = r[k - 1] * Radix + t[k]
    BY <1>1, <2>1, <2>2, <2>3
  <2> QED
    BY <1>1, <2>1, <2>4 DEF IsCount
<1> HIDE DEF r, t
<1>3. Digits(t) = r[Len(t)]
  BY <1>1, <1>2, DigitsCount
<1>4. r[1] = n
  BY DEF r
<1> QED
  BY <1>1, <1>3, <1>4 DEF t

LEMMA ZerosCount ==
  ASSUME NEW n \in Nat
  PROVE  Zeros(n) \in Texts /\ Len(Zeros(n)) = n /\ Digits(Zeros(n)) = 0
<1> DEFINE t == Zeros(n)
           r == [k \in 0..n |-> 0]
<1>1. t \in Texts /\ Len(t) = n /\ \A k \in 1..n : t[k] = 0
  <2>1. t \in [1..n -> Nat]
    BY DEF Zeros
  <2>2. t \in Seq(Nat)
    BY <2>1
  <2>3. Len(t) = n
    BY <2>1, <2>2, LenProperties
  <2> QED
    BY <2>2, <2>3 DEF Zeros, Texts
<1>2. IsCount(r, t)
  <2>1. r \in [0..n -> Nat] /\ \A k \in 0..n : r[k] = 0
    OBVIOUS
  <2>2. 0 * Radix + 0 = 0
    BY CodecAssumption
  <2>3. \A k \in 1..n : k \in 0..n /\ k - 1 \in 0..n
    OBVIOUS
  <2> HIDE DEF r, t
  <2>4. \A k \in 1..n : r[k] = r[k - 1] * Radix + t[k]
    BY <1>1, <2>1, <2>2, <2>3
  <2> QED
    BY <1>1, <2>1, <2>4 DEF IsCount
<1> HIDE DEF r, t
<1>3. Digits(t) = r[Len(t)]
  BY <1>1, <1>2, DigitsCount
<1>4. r[n] = 0
  BY DEF r
<1> QED
  BY <1>1, <1>3, <1>4 DEF t
-----------------------------------------------------------------------------
(* What is written is what is read.                                        *)

Plain == Seq(0..(Radix - 1))

LEMMA PlainTexts == Plain \subseteq Texts
<1>1. 0..(Radix - 1) \subseteq Nat
  BY CodecAssumption
<1> QED
  BY <1>1, SeqMonotonic DEF Plain, Texts

\* One more digit.
LEMMA OneMore ==
  ASSUME NEW t \in Plain, NEW x \in 0..(Radix - 1)
  PROVE  /\ Append(t, x) \in Plain /\ Append(t, x) # <<>>
         /\ Len(Append(t, x)) = Len(t) + 1
         /\ Digits(Append(t, x)) = Digits(t) * Radix + x
<1>1. Append(t, x) \in Plain /\ Append(t, x) # <<>> /\ Len(Append(t, x)) = Len(t) + 1
  BY AppendProperties DEF Plain
<1>2. Append(t, x) = t \o <<x>>
  BY AppendIsConcat DEF Plain
<1>3. t \in Texts /\ x \in Nat
  BY PlainTexts, CodecAssumption
<1>4. <<x>> \in Texts /\ Len(<<x>>) = 1 /\ Digits(<<x>>) = x
  BY <1>3, OneDigit
<1>5. Digits(t \o <<x>>) = Digits(t) * Pow[1] + x
  <2> DEFINE s == <<x>>
  <2>1. s \in Texts /\ Len(s) = 1 /\ Digits(s) = x
    BY <1>4
  <2> HIDE DEF s
  <2>2. Digits(t \o s) = Digits(t) * Pow[Len(s)] + Digits(s)
    BY <1>3, <2>1, DigitsJoined
  <2>3. Digits(t \o s) = Digits(t) * Pow[1] + x
    BY <2>1, <2>2
  <2> QED
    BY <2>3 DEF s
<1>6. Pow[1] = Radix
  <2>1. 0 + 1 = 1 /\ Radix * 1 = Radix
    BY CodecAssumption
  <2> QED
    BY <2>1, PowIs
<1> QED
  BY <1>1, <1>2, <1>5, <1>6

Faithful(n) ==
  /\ FormatUint[n] \in Plain /\ FormatUint[n] # <<>>
  /\ Digits(FormatUint[n]) = n

LEMMA FormatFaithful ==
  ASSUME NEW n \in Nat
  PROVE  Faithful(n)
<1> DEFINE N == {m \in Nat : Faithful(m)}
<1>1. ASSUME NEW m \in Nat, \A k \in Nat : k < m => k \in N
      PROVE  m \in N
  <2>1. CASE m < Radix
    <3>1. FormatUint[m] = <<m>>
      BY <2>1, FormatUintIs
    <3>2. Digits(<<m>>) = m
      BY OneDigit
    <3>3. <<m>> \in Plain /\ <<m>> # <<>>
      <4>1. m \in 0..(Radix - 1)
        BY <2>1, CodecAssumption
      <4> QED
        BY <4>1 DEF Plain
    <3> QED
      BY <3>1, <3>2, <3>3 DEF Faithful
  <2>2. CASE ~(m < Radix)
    <3> DEFINE q == m \div Radix
               x == m % Radix
    <3>1. q \in Nat /\ q < m /\ x \in 0..(Radix - 1) /\ m = q * Radix + x
      BY <2>2, Divided, CodecAssumption
    <3>2. FormatUint[m] = Append(FormatUint[q], x)
      BY <2>2, FormatUintIs
    <3> HIDE DEF q, x
    <3>3. Faithful(q)
      BY <1>1, <3>1
    <3> DEFINE t == FormatUint[q]
    <3>4. t \in Plain /\ Digits(t) = q
      BY <3>3 DEF Faithful
    <3> HIDE DEF t
    <3>5. /\ Append(t, x) \in Plain /\ Append(t, x) # <<>>
          /\ Digits(Append(t, x)) = Digits(t) * Radix + x
      BY <3>1, <3>4, OneMore
    <3>6. FormatUint[m] = Append(t, x)
      BY <3>2 DEF t
    <3> QED
      BY <3>1, <3>4, <3>5, <3>6 DEF Faithful
  <2> QED
    BY <2>1, <2>2
<1>2. Nat \subseteq N
  <2> HIDE DEF N
  <2> QED
    BY <1>1, StrongInduction
<1> QED
  BY <1>2

\* A number below a power has no more digits than it.
LEMMA FormatShort ==
  ASSUME NEW d \in Nat
  PROVE  \A x \in Nat : x # 0 /\ x < Pow[d] => Len(FormatUint[x]) <= d
<1> DEFINE Short(k) == \A x \in Nat : x # 0 /\ x < Pow[k] => Len(FormatUint[x]) <= k
           N == {k \in Nat : Short(k)}
<1>1. 0 \in N
  <2>1. \A x \in Nat : ~(x # 0 /\ x < 1)
    OBVIOUS
  <2> QED
    BY <2>1, PowIs
<1>2. ASSUME NEW k \in Nat, k \in N PROVE k + 1 \in N
  <2>1. ASSUME NEW x \in Nat, x # 0, x < Pow[k + 1]
        PROVE  Len(FormatUint[x]) <= k + 1
    <3>1. CASE x < Radix
      <4>1. FormatUint[x] = <<x>> /\ Len(<<x>>) = 1
        BY <3>1, FormatUintIs, OneDigit
      <4> QED
        BY <4>1
    <3>2. CASE ~(x < Radix)
      <4> DEFINE q == x \div Radix
                 y == x % Radix
      <4>1. q \in Nat /\ y \in 0..(Radix - 1) /\ x = q * Radix + y
        BY Divided, CodecAssumption
      <4>2. FormatUint[x] = Append(FormatUint[q], y)
        BY <3>2, FormatUintIs
      <4> HIDE DEF q, y
      <4>3. q # 0
        BY <3>2, <4>1, CodecAssumption
      <4>4. q < Pow[k]
        <5> DEFINE p == Pow[k]
        <5>1. p \in Nat /\ Pow[k + 1] = Radix * p
          BY PowIs
        <5> HIDE DEF p
        <5>2. q * Radix < Radix * p
          BY <2>1, <4>1, <5>1, CodecAssumption
        <5>3. q >= p => q * Radix >= Radix * p
          BY <4>1, <5>1, CodecAssumption
        <5> QED
          BY <4>1, <5>1, <5>2, <5>3, CodecAssumption DEF p
      <4>5. Len(FormatUint[q]) <= k
        BY <1>2, <4>1, <4>3, <4>4
      <4> DEFINE t == FormatUint[q]
      <4>6. t \in Plain
        BY <4>1, FormatFaithful DEF Faithful
      <4>7. Len(t) \in Nat
        BY <4>6, LenProperties DEF Plain
      <4> HIDE DEF t
      <4>8. Len(Append(t, y)) = Len(t) + 1
        BY <4>1, <4>6, OneMore
      <4> QED
        BY <4>2, <4>5, <4>7, <4>8 DEF t
    <3> QED
      BY <3>1, <3>2
  <2> QED
    BY <2>1
<1>3. Nat \subseteq N
  <2> HIDE DEF N
  <2> QED
    BY <1>1, <1>2, SetInduction
<1> QED
  BY <1>3
-----------------------------------------------------------------------------
(* Numbers with a dot.                                                     *)

LEMMA ParseIs ==
  ASSUME NEW text \in Texts
  PROVE  /\ Digits(text) \in Nat
         /\ ParseUint(text).kind = "ok" =>
              ParseUint(text) = Ok(Digits(text)) /\ Digits(text) <= MaxUint64
         /\ text # <<>> /\ Radix \notin Range(text) /\ Digits(text) <= MaxUint64 =>
              ParseUint(text) = Ok(Digits(text))
<1>1. Digits(text) \in Nat
  BY DigitsNatural
<1> DEFINE n == Digits(text)
<1>2. ParseUint(text) = IF text = <<>> \/ Radix \in Range(text) \/ n > MaxUint64
                        THEN Refused ELSE Ok(n)
  BY DEF ParseUint
<1> HIDE DEF n
<1>3. Refused.kind # "ok"
  BY DEF Refused
<1>4. n \in Nat /\ MaxUint64 \in Nat
  BY <1>1, CodecAssumption DEF n
<1>5. n <= MaxUint64 <=> ~(n > MaxUint64)
  BY <1>4
<1>6. ParseUint(text).kind = "ok" => ParseUint(text) = Ok(n) /\ n <= MaxUint64
  BY <1>2, <1>3, <1>5
<1>7. text # <<>> /\ Radix \notin Range(text) /\ n <= MaxUint64 => ParseUint(text) = Ok(n)
  BY <1>2, <1>5
<1> QED
  BY <1>4, <1>6, <1>7 DEF n

LEMMA WithZeros ==
  ASSUME NEW text \in Texts, NEW z \in Nat
  PROVE  /\ text \o Zeros(z) \in Texts
         /\ Digits(text \o Zeros(z)) = Digits(text) * Pow[z]
         /\ Digits(text) * Pow[z] \in Nat
         /\ text # <<>> => text \o Zeros(z) # <<>>
         /\ Radix \notin Range(text) => Radix \notin Range(text \o Zeros(z))
<1> DEFINE s == Zeros(z)
<1>1. s \in Texts /\ Len(s) = z /\ Digits(s) = 0
  BY ZerosCount
<1>2. \A i \in DOMAIN s : s[i] = 0
  BY DEF Zeros
<1> HIDE DEF s
<1>3. text \o s \in Texts /\ Digits(text \o s) = Digits(text) * Pow[Len(s)] + Digits(s)
  BY <1>1, DigitsJoined
<1>4. Digits(text) \in Nat /\ Pow[z] \in Nat
  BY DigitsNatural, PowIs
<1>5. Digits(text) * Pow[z] \in Nat
  BY <1>4
<1>6. Digits(text \o s) = Digits(text) * Pow[z]
  BY <1>1, <1>3, <1>5
<1>7. text # <<>> => text \o s # <<>>
  BY <1>1, ConcatEqualIffEmpty DEF Texts
<1>8. Radix \notin Range(text) => Radix \notin Range(text \o s)
  <2>1. Range(text \o s) = Range(text) \cup Range(s)
    BY <1>1, RangeConcatenation DEF Texts
  <2>2. Radix \notin Range(s)
    <3>1. \A x \in Range(s) : x = 0
      BY <1>2 DEF Range
    <3> QED
      BY <3>1, CodecAssumption
  <2> QED
    BY <2>1, <2>2
<1> QED
  BY <1>3, <1>5, <1>6, <1>7, <1>8 DEF s

LEMMA PaddedIs ==
  ASSUME NEW text \in Texts, NEW z \in Nat
  PROVE  /\ Digits(text) * Pow[z] \in Nat
         /\ Padded(text, z).kind = "ok" =>
              Padded(text, z) = Ok(Digits(text) * Pow[z]) /\ Digits(text) * Pow[z] <= MaxUint64
         /\ /\ z <= ZeroLen /\ text # <<>> /\ Radix \notin Range(text)
            /\ Digits(text) * Pow[z] <= MaxUint64
            => Padded(text, z) = Ok(Digits(text) * Pow[z])
<1> DEFINE all == text \o Zeros(z)
           u == Digits(text) * Pow[z]
<1>1. all \in Texts /\ Digits(all) = u /\ u \in Nat
  BY WithZeros
<1>2. text # <<>> /\ Radix \notin Range(text) => all # <<>> /\ Radix \notin Range(all)
  BY WithZeros
<1>3. Padded(text, z) = IF z > ZeroLen THEN Panic ELSE ParseUint(all)
  BY DEF Padded
<1> HIDE DEF all, u
<1>4. /\ ParseUint(all).kind = "ok" => ParseUint(all) = Ok(u) /\ u <= MaxUint64
      /\ all # <<>> /\ Radix \notin Range(all) /\ u <= MaxUint64 => ParseUint(all) = Ok(u)
  <2>1. /\ ParseUint(all).kind = "ok" =>
             ParseUint(all) = Ok(Digits(all)) /\ Digits(all) <= MaxUint64
        /\ all # <<>> /\ Radix \notin Range(all) /\ Digits(all) <= MaxUint64 =>
             ParseUint(all) = Ok(Digits(all))
    BY <1>1, ParseIs
  <2> QED
    BY <1>1, <2>1
<1>5. Panic.kind # "ok"
  BY DEF Panic
<1>6. z <= ZeroLen <=> ~(z > ZeroLen)
  BY CodecAssumption
<1>7. Padded(text, z).kind = "ok" => Padded(text, z) = Ok(u) /\ u <= MaxUint64
  BY <1>3, <1>4, <1>5
<1>8. z <= ZeroLen /\ text # <<>> /\ Radix \notin Range(text) /\ u <= MaxUint64
        => Padded(text, z) = Ok(u)
  BY <1>2, <1>3, <1>4, <1>6
<1> QED
  BY <1>1, <1>7, <1>8 DEF u

\* What strings.Split may make of a text.
Parts(k) == [1..k -> Seq(Chars)]
SplitTexts == Parts(1) \cup Parts(2) \cup Parts(3)

LEMMA SplitIs ==
  ASSUME NEW number \in SplitTexts
  PROVE  /\ Len(number) \in 1..3 /\ number \in Parts(Len(number))
         /\ \A i \in 1..Len(number) : number[i] \in Texts
<1>1. ASSUME NEW k \in 1..3, number \in Parts(k)
      PROVE  Len(number) = k /\ \A i \in 1..k : number[i] \in Texts
  <2> DEFINE S == Seq(Chars)
  <2>1. number \in [1..k -> S] /\ S \subseteq Texts
    <3>1. Chars \subseteq Nat
      BY CodecAssumption DEF Chars
    <3> QED
      BY <1>1, <3>1, SeqMonotonic DEF Parts, Texts
  <2> HIDE DEF S
  <2>2. number \in Seq(S) /\ DOMAIN number = 1..k
    BY <2>1
  <2>3. DOMAIN number = 1..Len(number) /\ Len(number) \in Nat
    BY <2>2, LenProperties
  <2>4. Len(number) = k
    BY <2>2, <2>3
  <2> QED
    BY <2>1, <2>4
<1>2. \E k \in 1..3 : number \in Parts(k)
  BY DEF SplitTexts
<1> QED
  BY <1>1, <1>2

IsFlattening(h, number) ==
  h = [i \in 1..Len(number) |-> IF i = 1 THEN number[i] ELSE h[i - 1] \o number[i]]

LEMMA Flattened ==
  ASSUME NEW number
  PROVE  /\ Len(number) = 1 => FlattenSeq(number) = number[1]
         /\ Len(number) = 2 => FlattenSeq(number) = number[1] \o number[2]
<1> DEFINE h == CHOOSE g : IsFlattening(g, number)
<1>1. Len(number) \in {1, 2} => FlattenSeq(number) = h[Len(number)]
  BY DEF FlattenSeq, IsFlattening
<1>2. ASSUME Len(number) = 1 PROVE FlattenSeq(number) = number[1]
  <2> DEFINE g == [i \in 1..1 |-> number[1]]
  <2>1. IsFlattening(g, number)
    BY <1>2 DEF IsFlattening
  <2>2. IsFlattening(h, number)
    BY <2>1
  <2> HIDE DEF h, g
  <2>3. h[1] = number[1]
    BY <1>2, <2>2 DEF IsFlattening
  <2> QED
    BY <1>1, <1>2, <2>3
<1>3. ASSUME Len(number) = 2 PROVE FlattenSeq(number) = number[1] \o number[2]
  <2> DEFINE both == number[1] \o number[2]
             g == [i \in 1..2 |-> IF i = 1 THEN number[1] ELSE both]
  <2>1. IsFlattening(g, number)
    <3> HIDE DEF both
    <3>0. g[1] = number[1] /\ g[2] = both
      OBVIOUS
    <3>1. g[1] = number[1] /\ g[2] = number[1] \o number[2]
      BY <3>0 DEF both
    <3>2. \A i \in 1..2 : i = 1 \/ i = 2
      OBVIOUS
    <3>3. g = [i \in 1..2 |-> g[i]]
      OBVIOUS
    <3> HIDE DEF g
    <3>4. \A i \in 1..2 : g[i] = IF i = 1 THEN number[i] ELSE g[i - 1] \o number[i]
      <4>1. 2 - 1 = 1
        OBVIOUS
      <4> QED
        BY <3>1, <3>2, <4>1
    <3> QED
      BY <1>3, <3>3, <3>4 DEF IsFlattening
  <2>2. IsFlattening(h, number)
    BY <2>1
  <2> HIDE DEF h, g
  <2>3. h[1] = number[1] /\ h[2] = h[1] \o number[2]
    <3>1. \A i \in 1..2 : h[i] = IF i = 1 THEN number[i] ELSE h[i - 1] \o number[i]
      BY <1>3, <2>2 DEF IsFlattening
    <3>2. 1 \in 1..2 /\ 2 \in 1..2 /\ 2 - 1 = 1 /\ 2 # 1
      OBVIOUS
    <3> QED
      BY <3>1, <3>2
  <2> QED
    BY <1>1, <1>3, <2>3
<1> QED
  BY <1>2, <1>3

\* Reading a number with at most one dot.
LEMMA ReadingIs ==
  ASSUME NEW number \in SplitTexts, NEW d \in Nat, Len(number) <= 2
  PROVE  LET f == FlattenSeq(number)
             p == Places(number)
             u == Digits(f) * Pow[d - p]
             r == DecimalToUint64(number, d)
         IN  /\ f \in Texts /\ p \in Nat
             /\ r.kind = "ok" => p <= d /\ r = Ok(u) /\ u \in 0..MaxUint64
             /\ Proper(number) /\ p <= d /\ u <= MaxUint64 /\ d <= ZeroLen => r = Ok(u)
<1> DEFINE f == FlattenSeq(number)
           p == Places(number)
           u == Digits(f) * Pow[d - p]
           r == DecimalToUint64(number, d)
<1>0. Len(number) \in 1..2 /\ \A i \in 1..Len(number) : number[i] \in Texts
  <2>1. Len(number) \in 1..3 /\ \A i \in 1..Len(number) : number[i] \in Texts
    BY SplitIs
  <2>2. Len(number) \in 1..2
    BY <2>1
  <2> QED
    BY <2>1, <2>2
<1>1. Proper(number) => f # <<>> /\ Radix \notin Range(f)
  BY DEF Proper
<1>2. f \in Texts /\ p \in Nat
  <2>1. CASE Len(number) = 1
    <3>1. number[1] \in Texts /\ Len(number) # 2
      BY <1>0, <2>1
    <3>2. f = number[1] /\ p = 0
      BY <2>1, <3>1, Flattened DEF Places
    <3> QED
      BY <3>1, <3>2
  <2>2. CASE Len(number) = 2
    <3>1. number[1] \in Texts /\ number[2] \in Texts
      BY <1>0, <2>2
    <3>2. f = number[1] \o number[2] /\ p = Len(number[2])
      BY <2>2, Flattened DEF Places
    <3> QED
      BY <3>1, <3>2, ConcatProperties, LenProperties DEF Texts
  <2> QED
    BY <1>0, <2>1, <2>2
<1>3. CASE p <= d
  <2>1. r = Padded(f, d - p)
    <3>1. CASE Len(number) = 1
      <4>0. Len(number) # 2 /\ d - 0 = d
        BY <3>1
      <4>1. f = number[1] /\ p = 0
        BY <3>1, <4>0, Flattened DEF Places
      <4>2. r = Padded(number[1], d)
        BY <3>1 DEF DecimalToUint64
      <4> QED
        BY <4>0, <4>1, <4>2
    <3>2. CASE Len(number) = 2
      <4>1. f = number[1] \o number[2] /\ p = Len(number[2])
        BY <3>2, Flattened DEF Places
      <4>2. ~(Len(number[2]) > d) /\ Len(number[2]) <= d
        BY <1>2, <1>3, <4>1
      <4>3. r = Padded(number[1] \o number[2], d - Len(number[2]))
        <5> HIDE DEF f, p
        <5>1. ~(Len(number) = 1)
          BY <3>2
        <5> QED
          BY <3>2, <4>2, <5>1 DEF DecimalToUint64
      <4> QED
        BY <4>1, <4>3
    <3> QED
      BY <1>0, <3>1, <3>2
  <2>2. d - p \in Nat /\ d - p <= d
    BY <1>2, <1>3
  <2> DEFINE z == d - p
  <2>3. z \in Nat /\ (d <= ZeroLen => z <= ZeroLen)
    BY <2>2, CodecAssumption
  <2> HIDE DEF f, p, z, r
  <2>4. /\ Digits(f) * Pow[z] \in Nat
        /\ r.kind = "ok" => r = Ok(Digits(f) * Pow[z]) /\ Digits(f) * Pow[z] <= MaxUint64
        /\ /\ z <= ZeroLen /\ f # <<>> /\ Radix \notin Range(f)
           /\ Digits(f) * Pow[z] <= MaxUint64
           => r = Ok(Digits(f) * Pow[z])
    <3>1. r = Padded(f, z)
      BY <2>1 DEF z
    <3> QED
      BY <1>2, <2>3, <3>1, PaddedIs
  <2>5. /\ u \in Nat
        /\ r.kind = "ok" => r = Ok(u) /\ u <= MaxUint64
        /\ z <= ZeroLen /\ f # <<>> /\ Radix \notin Range(f) /\ u <= MaxUint64 => r = Ok(u)
    BY <2>4 DEF z
  <2> HIDE DEF u
  <2>6. r.kind = "ok" => p <= d /\ r = Ok(u) /\ u \in 0..MaxUint64
    BY <1>3, <2>5, CodecAssumption
  <2>7. Proper(number) /\ p <= d /\ u <= MaxUint64 /\ d <= ZeroLen => r = Ok(u)
    BY <1>1, <2>3, <2>5
  <2> QED
    BY <1>2, <2>6, <2>7 DEF f, p, u, r
<1>4. CASE ~(p <= d)
  <2>1. Len(number) = 2 /\ p = Len(number[2])
    BY <1>4 DEF Places
  <2>2. Len(number[2]) > d
    BY <1>2, <1>4, <2>1
  <2>3. r = Refused
    <3>1. ~(Len(number) = 1)
      BY <2>1
    <3> HIDE DEF f, p
    <3> QED
      BY <2>1, <2>2, <3>1 DEF DecimalToUint64
  <2>4. Refused.kind # "ok"
    BY DEF Refused
  <2> HIDE DEF f, p, u, r
  <2>5. r.kind # "ok"
    BY <2>3, <2>4
  <2> QED
    BY <1>2, <1>4, <2>5 DEF f, p, u, r
<1> QED
  BY <1>3, <1>4

\* What is accepted fits in 64 bits.
LEMMA ReadingFits ==
  ASSUME NEW number \in SplitTexts, NEW d \in Nat, DecimalToUint64(number, d).kind = "ok"
  PROVE  \E u \in 0..MaxUint64 : DecimalToUint64(number, d) = Ok(u)
<1>1. CASE Len(number) <= 2
  BY <1>1, ReadingIs
<1>2. CASE ~(Len(number) <= 2)
  <2>1. number[1] \in Texts /\ Len(number) # 1 /\ Len(number) # 2
    BY <1>2, SplitIs
  <2>2. DecimalToUint64(number, d) = ParseUint(number[1])
    BY <2>1 DEF DecimalToUint64
  <2> DEFINE n == Digits(number[1])
             r == ParseUint(number[1])
  <2>3. n \in Nat /\ (r.kind = "ok" => r = Ok(n) /\ n <= MaxUint64)
    BY <2>1, ParseIs
  <2> HIDE DEF n, r
  <2>4. r.kind = "ok" => \E u \in 0..MaxUint64 : r = Ok(u)
    BY <2>3, CodecAssumption
  <2> QED
    BY <2>2, <2>4 DEF r
<1> QED
  BY <1>1, <1>2

LEMMA PlainNumbers ==
  /\ Zeros(0) \in Plain /\ \A n \in Nat : Zeros(n) \in Plain
  /\ \A t \in Plain : t \in Seq(Chars) /\ Radix \notin Range(t)
<1>1. ASSUME NEW n \in Nat PROVE Zeros(n) \in Plain
  <2>1. 0 \in 0..(Radix - 1)
    BY CodecAssumption
  <2> QED
    BY <2>1 DEF Zeros, Plain
<1>2. ASSUME NEW t \in Plain PROVE t \in Seq(Chars) /\ Radix \notin Range(t)
  <2>1. 0..(Radix - 1) \subseteq Chars /\ Radix \notin 0..(Radix - 1)
    BY CodecAssumption DEF Chars
  <2>2. Range(t) \subseteq 0..(Radix - 1)
    BY RangeOfSeq DEF Plain
  <2> QED
    BY <2>1, <2>2, SeqMonotonic DEF Plain
<1> QED
  BY <1>1, <1>2

\* What is written is a number with exactly its decimals' units.
Says(number, v, d) ==
  /\ number \in SplitTexts /\ Len(number) <= 2 /\ Proper(number)
  /\ Places(number) <= d
  /\ Digits(FlattenSeq(number)) * Pow[d - Places(number)] = v

LEMMA WritingIs ==
  ASSUME NEW v \in Nat, NEW d \in Nat
  PROVE  Says(Uint64ToDecimal(v, d), v, d)
<1> DEFINE p == Pow[d]
           q == v \div p
           x == v % p
           a == FormatUint[q]
           dec == FormatUint[x]
           z == d - Len(dec)
           frac == Zeros(z) \o dec
<1>1. Uint64ToDecimal(v, d) = IF x = 0 THEN <<a>> ELSE <<a, frac>>
  BY DEF Uint64ToDecimal
<1>2. p \in Nat \ {0}
  BY PowIs
<1> HIDE DEF p
<1>3. q \in Nat /\ x \in Nat /\ x < p /\ v = q * p + x
  BY <1>2, Quotients
<1> HIDE DEF q, x
<1>4. a \in Plain /\ a # <<>> /\ Digits(a) = q /\ dec \in Plain /\ Digits(dec) = x
  BY <1>3, FormatFaithful DEF Faithful
<1>5. x # 0 => Len(dec) <= d
  BY <1>3, FormatShort DEF p
<1> HIDE DEF a, dec
<1>6. a \in Texts /\ dec \in Texts /\ a \in Seq(Chars) /\ Radix \notin Range(a)
  BY <1>4, PlainTexts, PlainNumbers
<1>7. CASE x = 0
  <2> DEFINE number == <<a>>
  <2>1. number \in SplitTexts /\ Len(number) = 1 /\ number[1] = a
    <3>1. number \in [1..1 -> Seq(Chars)]
      BY <1>6
    <3> QED
      BY <3>1 DEF SplitTexts, Parts
  <2> HIDE DEF number
  <2>2. FlattenSeq(number) = a /\ Places(number) = 0
    <3>1. Len(number) # 2
      BY <2>1
    <3> QED
      BY <2>1, <3>1, Flattened DEF Places
  <2>3. Proper(number)
    BY <1>4, <1>6, <2>1, <2>2 DEF Proper
  <2>4. q * p = v /\ d - 0 = d /\ 0 <= d
    BY <1>2, <1>3, <1>7
  <2>5. Says(number, v, d)
    BY <1>4, <2>1, <2>2, <2>3, <2>4 DEF Says, p
  <2> QED
    BY <1>1, <1>7, <2>5 DEF number
<1>8. CASE x # 0
  <2>1. z \in Nat /\ z + Len(dec) = d
    <3>1. Len(dec) \in Nat
      BY <1>4, LenProperties DEF Plain
    <3> QED
      BY <1>5, <1>8, <3>1
  <2> DEFINE s == Zeros(z)
  <2>2. s \in Texts /\ Len(s) = z /\ Digits(s) = 0 /\ s \in Plain
    BY <2>1, ZerosCount, PlainNumbers
  <2>3. frac = s \o dec
    OBVIOUS
  <2> HIDE DEF s, z, frac
  <2>4. frac \in Plain /\ Len(frac) = d
    <3>1. frac \in Plain /\ Len(frac) = Len(s) + Len(dec)
      BY <1>4, <2>2, <2>3, ConcatProperties DEF Plain
    <3> QED
      BY <2>1, <2>2, <3>1
  <2>5. Digits(frac) = x
    <3>1. Digits(frac) = Digits(s) * Pow[Len(dec)] + Digits(dec)
      BY <1>6, <2>2, <2>3, DigitsJoined
    <3>2. Pow[Len(dec)] \in Nat
      BY <1>4, LenProperties, PowIs DEF Plain
    <3>3. 0 * Pow[Len(dec)] + x = x
      BY <1>3, <3>2
    <3> QED
      BY <1>4, <2>2, <3>1, <3>3
  <2> DEFINE whole == a \o frac
  <2>6. whole \in Plain /\ whole # <<>>
    BY <1>4, <2>4, ConcatProperties, ConcatEqualIffEmpty DEF Plain
  <2>7. Digits(whole) = v
    <3>1. frac \in Texts
      BY <2>4, PlainTexts
    <3>2. Digits(whole) = Digits(a) * Pow[Len(frac)] + Digits(frac)
      BY <1>6, <3>1, DigitsJoined
    <3>3. Digits(whole) = q * p + x
      BY <1>4, <2>4, <2>5, <3>2 DEF p
    <3> QED
      BY <1>3, <3>3
  <2> DEFINE number == <<a, frac>>
  <2>8. number \in SplitTexts /\ Len(number) = 2 /\ number[1] = a /\ number[2] = frac
    <3>1. a \in Seq(Chars) /\ frac \in Seq(Chars)
      BY <1>6, <2>4, PlainNumbers
    <3>2. number \in [1..2 -> Seq(Chars)]
      BY <3>1
    <3> QED
      BY <3>2 DEF SplitTexts, Parts
  <2>9. Uint64ToDecimal(v, d) = number
    BY <1>1, <1>8
  <2> HIDE DEF number
  <2>10. FlattenSeq(number) = whole /\ Places(number) = d
    BY <2>4, <2>8, Flattened DEF Places
  <2> HIDE DEF whole
  <2>11. Proper(number)
    BY <2>6, <2>8, <2>10, PlainNumbers DEF Proper
  <2>12. Digits(FlattenSeq(number)) * Pow[d - Places(number)] = v
    <3>1. v * 1 = v /\ d - d = 0
      OBVIOUS
    <3>2. Pow[0] = 1
      BY PowIs
    <3> QED
      BY <2>7, <2>10, <3>1, <3>2
  <2>13. Says(number, v, d)
    BY <2>8, <2>10, <2>11, <2>12 DEF Says
  <2> QED
    BY <2>9, <2>13
<1> QED
  BY <1>7, <1>8

\* A number that is written is read back, while the padding suffices.
LEMMA ReadBack ==
  ASSUME NEW v \in 0..MaxUint64, NEW d \in Nat, d <= ZeroLen
  PROVE  DecimalToUint64(Uint64ToDecimal(v, d), d) = Ok(v)
<1> DEFINE number == Uint64ToDecimal(v, d)
<1>1. v \in Nat /\ v <= MaxUint64
  BY CodecAssumption
<1>2. Says(number, v, d)
  BY <1>1, WritingIs
<1> HIDE DEF number
<1>3. number \in SplitTexts /\ Len(number) <= 2 /\ Proper(number) /\ Places(number) <= d
  BY <1>2 DEF Says
<1> DEFINE u == Digits(FlattenSeq(number)) * Pow[d - Places(number)]
           r == DecimalToUint64(number, d)
<1>4. u = v
  BY <1>2 DEF Says
<1>5. Proper(number) /\ Places(number) <= d /\ u <= MaxUint64 /\ d <= ZeroLen => r = Ok(u)
  BY <1>3, ReadingIs
<1> HIDE DEF u, r
<1>6. r = Ok(v)
  BY <1>1, <1>3, <1>4, <1>5
<1> QED
  BY <1>6 DEF r, number
-----------------------------------------------------------------------------
(* The contract's reading of a form.                                       *)

Forms == [Fields -> SplitTexts]
Units == [Fields -> 0..MaxUint64]

Typed ==
  form \in Forms /\ takerSide \in {"buy", "sell"} /\ decimals \in TokenDecimals

LEMMA DecimalsKnown ==
  ASSUME Typed, NEW field \in Fields
  PROVE  ReadWith(field) \in Nat /\ EventDecimals[field] = ReadWith(field)
<1> DEFINE b == decimals.base
           q == decimals.quote
<1>1. b \in Nat /\ q \in Nat /\ PriceDecimal \in Nat
  <2>1. decimals \in [base : Nat, quote : Nat]
    BY CodecAssumption DEF Typed
  <2> QED
    BY <2>1, CodecAssumption
<1>2. takerSide = "sell" \/ takerSide # "sell"
  OBVIOUS
<1> DEFINE makerGets == IF takerSide = "sell" THEN b ELSE q
           takerGets == IF takerSide = "sell" THEN q ELSE b
<1>3. /\ EventDecimals = [Price |-> PriceDecimal, Amount |-> b, TradeAmount |-> b,
                          MakerFee |-> makerGets, TakerFee |-> takerGets]
      /\ OrderDecimals = [Price |-> PriceDecimal, Amount |-> b]
      /\ RelayDecimals = [TradeAmount |-> b, MakerFee |-> makerGets, TakerFee |-> takerGets]
  BY DEF EventDecimals, OrderDecimals, RelayDecimals
<1>4. makerGets \in Nat /\ takerGets \in Nat
  BY <1>1
<1> HIDE DEF b, q, makerGets, takerGets
<1>5. CASE field = "Price"
  BY <1>1, <1>3, <1>5 DEF ReadWith
<1>6. CASE field = "Amount"
  BY <1>1, <1>3, <1>6 DEF ReadWith
<1>7. CASE field = "TradeAmount"
  BY <1>1, <1>3, <1>7 DEF ReadWith
<1>8. CASE field = "MakerFee"
  BY <1>3, <1>4, <1>8 DEF ReadWith
<1>9. CASE field = "TakerFee"
  BY <1>3, <1>4, <1>9 DEF ReadWith
<1> QED
  BY <1>5, <1>6, <1>7, <1>8, <1>9 DEF Fields

LEMMA ReadingKinds ==
  ASSUME NEW number, NEW d
  PROVE  DecimalToUint64(number, d).kind \in {"ok", "refused", "panic"}
<1>1. /\ Refused.kind = "refused" /\ Panic.kind = "panic"
      /\ \A u : Ok(u).kind = "ok"
  BY DEF Refused, Panic, Ok
<1>2. ASSUME NEW text PROVE ParseUint(text) = Refused \/ \E u : ParseUint(text) = Ok(u)
  BY DEF ParseUint
<1>3. ASSUME NEW text PROVE ParseUint(text).kind \in {"ok", "refused"}
  BY <1>1, <1>2
<1>4. ASSUME NEW text, NEW z PROVE Padded(text, z).kind \in {"ok", "refused", "panic"}
  BY <1>1, <1>3 DEF Padded
<1>5. \/ \E text, z : DecimalToUint64(number, d) = Padded(text, z)
      \/ DecimalToUint64(number, d) = Refused
      \/ \E text : DecimalToUint64(number, d) = ParseUint(text)
  <2>1. CASE Len(number) = 1
    BY <2>1 DEF DecimalToUint64
  <2>2. CASE Len(number) = 2 /\ Len(number[2]) > d
    BY <2>2 DEF DecimalToUint64
  <2>3. CASE Len(number) = 2 /\ Len(number[2]) <= d /\ ~(Len(number[2]) > d)
    BY <2>3 DEF DecimalToUint64
  <2>4. CASE Len(number) # 1 /\ ~(Len(number) = 2 /\ Len(number[2]) > d)
             /\ ~(Len(number) = 2 /\ Len(number[2]) <= d)
    BY <2>4 DEF DecimalToUint64
  <2> QED
    BY <2>1, <2>2, <2>3, <2>4
<1> QED
  BY <1>1, <1>3, <1>4, <1>5

Read == [field \in Fields |-> DecimalToUint64(form[field], ReadWith(field))]

LEMMA ReadIs ==
  ASSUME Typed, NEW field \in Fields
  PROVE  /\ Read[field].kind \in {"ok", "refused", "panic"}
         /\ Read[field].kind = "ok" => \E u \in 0..MaxUint64 : Read[field] = Ok(u)
<1>1. Read[field] = DecimalToUint64(form[field], ReadWith(field))
  BY DEF Read
<1>2. form[field] \in SplitTexts /\ ReadWith(field) \in Nat
  BY DecimalsKnown DEF Typed, Forms
<1> QED
  BY <1>1, <1>2, ReadingKinds, ReadingFits

LEMMA ParsedIs ==
  ASSUME Typed
  PROVE  /\ Parsed.kind = "ok" =>
              \E units \in Units : Parsed = Ok(units) /\ \A field \in Fields :
                Read[field] = Ok(units[field])
         /\ \A units \in Units :
              (\A field \in Fields : Read[field] = Ok(units[field])) => Parsed = Ok(units)
<1> DEFINE told == [field \in Fields |-> Read[field].units]
           failing == {i \in 1..5 : Read[ReadingOrder[i]].kind # "ok"}
<1>0. /\ \A i \in 1..5 : ReadingOrder[i] \in Fields
      /\ \A field \in Fields : \E i \in 1..5 : ReadingOrder[i] = field
  BY DEF ReadingOrder, Fields
<1>1. failing # {} => Min(failing) \in failing
  <2> SUFFICES ASSUME failing # {} PROVE \E i \in failing : \A j \in failing : i <= j
    BY DEF Min
  <2>1. PICK i \in 1..5 : i \in failing
    OBVIOUS
  <2>2. failing \subseteq 1..5
    OBVIOUS
  <2> HIDE DEF failing
  <2>3. i = 1 \/ i = 2 \/ i = 3 \/ i = 4 \/ i = 5
    OBVIOUS
  <2> QED
    BY <2>1, <2>2, <2>3
<1>2. Parsed = IF failing = {} THEN Ok(told) ELSE Read[ReadingOrder[Min(failing)]]
  <2> DEFINE read(field) == DecimalToUint64(form[field], ReadWith(field))
             bad == {i \in 1..5 : read(ReadingOrder[i]).kind # "ok"}
  <2>1. Parsed = IF bad = {} THEN Ok([field \in Fields |-> read(field).units])
                             ELSE read(ReadingOrder[Min(bad)])
    BY DEF Parsed
  <2>2. \A field \in Fields : Read[field] = read(field)
    BY DEF Read
  <2> HIDE DEF read
  <2>3. told = [field \in Fields |-> read(field).units] /\ failing = bad
    BY <1>0, <2>2
  <2>4. bad # {} => Min(bad) \in 1..5
    BY <1>1, <2>3
  <2> HIDE DEF bad, failing, told
  <2> QED
    BY <1>0, <2>1, <2>2, <2>3, <2>4
<1>3. \A u : Ok(u).kind = "ok" /\ Ok(u).units = u
  BY DEF Ok
<1>4. ASSUME \A field \in Fields : Read[field].kind = "ok"
      PROVE  /\ Parsed = Ok(told) /\ told \in Units
             /\ \A field \in Fields : Read[field] = Ok(told[field])
  <2>1. \A field \in Fields : \E u \in 0..MaxUint64 : Read[field] = Ok(u)
    BY <1>4, ReadIs
  <2>2. \A field \in Fields : told[field] \in 0..MaxUint64 /\ Read[field] = Ok(told[field])
    BY <1>3, <2>1
  <2>3. told \in Units
    BY <2>2 DEF Units
  <2>4. failing = {}
    BY <1>0, <1>4
  <2>5. Parsed = Ok(told)
    BY <1>2, <2>4
  <2> QED
    BY <2>2, <2>3, <2>5
<1>5. ASSUME ~(\A field \in Fields : Read[field].kind = "ok") PROVE Parsed.kind # "ok"
  <2>1. failing # {}
    BY <1>0, <1>5
  <2>2. Min(failing) \in failing
    BY <1>1, <2>1
  <2>3. Parsed = Read[ReadingOrder[Min(failing)]]
    <3> HIDE DEF failing, told
    <3> QED
      BY <1>2, <2>1
  <2> QED
    BY <2>2, <2>3
<1>6. ASSUME Parsed.kind = "ok"
      PROVE  \E units \in Units : Parsed = Ok(units) /\ \A field \in Fields :
               Read[field] = Ok(units[field])
  <2> HIDE DEF told
  <2> QED
    BY <1>4, <1>5, <1>6
<1>7. ASSUME NEW units \in Units, \A field \in Fields : Read[field] = Ok(units[field])
      PROVE  Parsed = Ok(units)
  <2>1. \A field \in Fields : Read[field].kind = "ok" /\ Read[field].units = units[field]
    BY <1>3, <1>7
  <2>2. told = units
    BY <2>1 DEF Units
  <2> HIDE DEF told
  <2> QED
    BY <1>4, <2>1, <2>2
<1> QED
  BY <1>6, <1>7
-----------------------------------------------------------------------------
(* The invariant.                                                          *)

\* A text tells a number of units to the last decimal.
Tells(number, v, d) ==
  Len(number) <= 2 => v * Pow[Places(number)] = Digits(FlattenSeq(number)) * Pow[d]

LEMMA Shifted ==
  ASSUME NEW D \in Nat, NEW p \in Nat, NEW d \in Nat, p <= d
  PROVE  (D * Pow[d - p]) * Pow[p] = D * Pow[d]
<1>1. d - p \in Nat /\ (d - p) + p = d
  OBVIOUS
<1>2. Pow[d] = Pow[d - p] * Pow[p]
  <2> DEFINE z == d - p
  <2>1. z \in Nat /\ z + p = d
    BY <1>1
  <2> HIDE DEF z
  <2>2. Pow[z + p] = Pow[z] * Pow[p]
    BY <2>1, PowSum
  <2> QED
    BY <2>1, <2>2 DEF z
<1>3. Pow[d - p] \in Nat /\ Pow[p] \in Nat
  BY <1>1, PowIs
<1>4. \A x, y \in Nat : (D * x) * y = D * (x * y)
  OBVIOUS
<1> QED
  BY <1>2, <1>3, <1>4

LEMMA ReadTells ==
  ASSUME NEW number \in SplitTexts, NEW d \in Nat, NEW v,
         DecimalToUint64(number, d) = Ok(v)
  PROVE  Tells(number, v, d)
<1> SUFFICES ASSUME Len(number) <= 2
             PROVE  v * Pow[Places(number)] = Digits(FlattenSeq(number)) * Pow[d]
  BY DEF Tells
<1> DEFINE f == FlattenSeq(number)
           p == Places(number)
           u == Digits(f) * Pow[d - p]
           r == DecimalToUint64(number, d)
<1>1. f \in Texts /\ p \in Nat /\ (r.kind = "ok" => p <= d /\ r = Ok(u))
  BY ReadingIs
<1>2. Digits(f) \in Nat
  BY <1>1, DigitsNatural
<1> HIDE DEF f, p, u, r
<1>3. r = Ok(v)
  BY DEF r
<1>4. r.kind = "ok"
  BY <1>3 DEF Ok
<1>5. p <= d /\ v = u
  BY <1>1, <1>3, <1>4 DEF Ok
<1>6. u * Pow[p] = Digits(f) * Pow[d]
  BY <1>1, <1>2, <1>5, Shifted DEF u
<1> QED
  BY <1>5, <1>6 DEF f, p

LEMMA WrittenTells ==
  ASSUME NEW v \in Nat, NEW d \in Nat
  PROVE  /\ Uint64ToDecimal(v, d) \in SplitTexts
         /\ Tells(Uint64ToDecimal(v, d), v, d)
<1> DEFINE number == Uint64ToDecimal(v, d)
<1>1. Says(number, v, d)
  BY WritingIs
<1> HIDE DEF number
<1>2. number \in SplitTexts /\ Len(number) <= 2 /\ Places(number) <= d
  BY <1>1 DEF Says
<1> DEFINE f == FlattenSeq(number)
           p == Places(number)
<1>3. f \in Texts /\ p \in Nat
  BY <1>2, ReadingIs
<1>4. p <= d /\ Digits(f) * Pow[d - p] = v
  BY <1>1 DEF Says
<1>5. Digits(f) \in Nat
  BY <1>3, DigitsNatural
<1> HIDE DEF f, p
<1>6. v * Pow[p] = Digits(f) * Pow[d]
  BY <1>3, <1>4, <1>5, Shifted
<1> QED
  BY <1>2, <1>6 DEF Tells, f, p, number

\* The units are the form's, or the form is what the event tells of them.
Reading(units) ==
  /\ parsed = Ok(units)
  /\ \A field \in Fields : Tells(form[field], units[field], ReadWith(field))
  /\ \/ parsed = Parsed
     \/ \A field \in Fields : form[field] = Uint64ToDecimal(units[field], ReadWith(field))

CodecInv ==
  /\ Typed
  /\ parsed.kind = "ok" => \E units \in Units : Reading(units)

LEMMA NumbersSplit == Numbers \subseteq SplitTexts
<1> DEFINE parts(n) == UNION {[1..k -> Chars] : k \in 0..n}
           of(dots) == [1..(dots + 1) -> parts(MaxText - dots)]
<1>1. ASSUME NEW n \in Int PROVE parts(n) \subseteq Seq(Chars)
  <2>1. \A k \in 0..n : k \in Nat
    OBVIOUS
  <2>2. \A k \in Nat : [1..k -> Chars] \subseteq Seq(Chars)
    OBVIOUS
  <2> QED
    BY <2>1, <2>2
<1>2. ASSUME NEW dots \in 0..2 PROVE of(dots) \subseteq SplitTexts
  <2> DEFINE S == parts(MaxText - dots)
  <2>1. S \subseteq Seq(Chars)
    BY <1>1, CodecAssumption
  <2> HIDE DEF S, parts
  <2>2. \A k : [1..k -> S] \subseteq Parts(k)
    BY <2>1 DEF Parts
  <2>3. dots + 1 \in {1, 2, 3}
    OBVIOUS
  <2>4. Parts(dots + 1) \subseteq SplitTexts
    BY <2>3 DEF SplitTexts
  <2> QED
    BY <2>2, <2>4 DEF S
<1> HIDE DEF of
<1>3. UNION {of(dots) : dots \in 0..2} \subseteq SplitTexts
  BY <1>2
<1>4. Numbers \subseteq UNION {of(dots) : dots \in 0..2}
  BY DEF Numbers, of
<1> QED
  BY <1>3, <1>4

LEMMA BlankIs == Blank \in Forms
<1>1. 0 \in Chars
  BY CodecAssumption DEF Chars
<1>2. <<0>> \in Seq(Chars)
  BY <1>1
<1> DEFINE S == Seq(Chars)
           t == <<0>>
<1>3. t \in S
  BY <1>2
<1> HIDE DEF S, t
<1>4. <<t>> \in [1..1 -> S]
  BY <1>3
<1>5. Zero \in SplitTexts
  BY <1>4 DEF Zero, SplitTexts, Parts, S, t
<1> QED
  BY <1>5 DEF Blank, Forms

LEMMA SubmitReads ==
  ASSUME CodecInv, Submit
  PROVE  CodecInv'
<1>1. Typed /\ Typed' /\ form' = form /\ parsed' = Parsed
  BY DEF CodecInv, Submit, Typed
<1>2. ReadWith(1)' = ReadWith(1) /\ \A field \in Fields : ReadWith(field)' = ReadWith(field)
  BY DEF Submit, ReadWith, OrderDecimals, RelayDecimals
<1>3. Parsed' = Parsed
  BY DEF Submit, Parsed, ReadWith, OrderDecimals, RelayDecimals
<1>4. ASSUME Parsed.kind = "ok" PROVE \E units \in Units : Reading(units)'
  <2>1. PICK units \in Units : Parsed = Ok(units) /\ \A field \in Fields :
                                 Read[field] = Ok(units[field])
    BY <1>1, <1>4, ParsedIs
  <2>2. ASSUME NEW field \in Fields
        PROVE  Tells(form[field], units[field], ReadWith(field))
    <3>1. form[field] \in SplitTexts /\ ReadWith(field) \in Nat
      BY <1>1, DecimalsKnown DEF Typed, Forms
    <3>2. DecimalToUint64(form[field], ReadWith(field)) = Ok(units[field])
      BY <2>1 DEF Read
    <3> QED
      BY <3>1, <3>2, ReadTells
  <2>3. \A field \in Fields : Tells(form'[field], units[field], ReadWith(field)')
    BY <1>1, <1>2, <2>2
  <2>4. Reading(units)'
    BY <1>1, <1>3, <2>1, <2>3 DEF Reading
  <2> QED
    BY <2>4
<1> QED
  BY <1>1, <1>4 DEF CodecInv

LEMMA LogReads ==
  ASSUME CodecInv, Log
  PROVE  CodecInv'
<1>1. Typed /\ parsed.kind = "ok" /\ parsed' = parsed
      /\ takerSide' = takerSide /\ decimals' = decimals
  BY DEF CodecInv, Log
<1>2. PICK units \in Units : Reading(units)
  BY <1>1 DEF CodecInv
<1>3. parsed = Ok(units) /\ parsed.units = units
  BY <1>2 DEF Reading, Ok
<1>4. \A field \in Fields : ReadWith(field)' = ReadWith(field)
  BY <1>1 DEF ReadWith, OrderDecimals, RelayDecimals
<1> DEFINE written == [field \in Fields |-> Uint64ToDecimal(units[field], ReadWith(field))]
<1>5. form' = written
  BY <1>1, <1>3, DecimalsKnown DEF Log
<1>6. ASSUME NEW field \in Fields
      PROVE  /\ written[field] \in SplitTexts
             /\ Tells(written[field], units[field], ReadWith(field))
  <2>1. units[field] \in Nat /\ ReadWith(field) \in Nat
    BY <1>1, DecimalsKnown, CodecAssumption DEF Units
  <2>2. written[field] = Uint64ToDecimal(units[field], ReadWith(field))
    OBVIOUS
  <2> QED
    BY <2>1, <2>2, WrittenTells
<1>7. written \in Forms /\ \A field \in Fields :
        written[field] = Uint64ToDecimal(units[field], ReadWith(field))
  BY <1>6 DEF Forms
<1> HIDE DEF written
<1>8. Typed'
  BY <1>1, <1>5, <1>7 DEF Typed
<1>9. Reading(units)'
  BY <1>1, <1>3, <1>4, <1>5, <1>6, <1>7 DEF Reading
<1> QED
  BY <1>8, <1>9 DEF CodecInv

LEMMA CodecInvStep ==
  ASSUME CodecInv, [CodecNext]_codecVars
  PROVE  CodecInv'
<1>1. ASSUME NEW field \in Fields, NEW number \in Numbers, Enter(field, number)
      PROVE  CodecInv'
  <2>1. form' \in Forms
    BY <1>1, NumbersSplit DEF Enter, CodecInv, Typed, Forms
  <2>2. Typed'
    BY <1>1, <2>1 DEF Enter, CodecInv, Typed
  <2>3. parsed'.kind # "ok"
    BY <1>1 DEF Enter, Unread
  <2> QED
    BY <2>2, <2>3 DEF CodecInv
<1>2. CASE Submit
  BY <1>2, SubmitReads
<1>3. CASE Log
  BY <1>3, LogReads
<1>4. CASE UNCHANGED codecVars
  <2>1. form' = form /\ takerSide' = takerSide /\ decimals' = decimals /\ parsed' = parsed
    BY <1>4 DEF codecVars
  <2>2. Parsed' = Parsed /\ \A field \in Fields : ReadWith(field)' = ReadWith(field)
    BY <2>1 DEF Parsed, ReadWith, OrderDecimals, RelayDecimals
  <2>3. \A units \in Units : Reading(units) => Reading(units)'
    BY <2>1, <2>2 DEF Reading
  <2> QED
    BY <2>1, <2>3 DEF CodecInv, Typed
<1> QED
  BY <1>1, <1>2, <1>3, <1>4 DEF CodecNext

LEMMA CodecInvInit == CodecInit => CodecInv
<1> SUFFICES ASSUME CodecInit PROVE CodecInv
  OBVIOUS
<1>1. Typed
  BY BlankIs DEF CodecInit, Typed
<1>2. parsed.kind # "ok"
  BY DEF CodecInit, Unread
<1> QED
  BY <1>1, <1>2 DEF CodecInv

\* The invariant, with every step that is taken.
LEMMA CodecHolds == CodecSpec => []CodecInv
<1>1. CodecInv /\ [CodecNext]_codecVars => CodecInv'
  BY CodecInvStep
<1> QED
  BY <1>1, CodecInvInit, PTL DEF CodecSpec
-----------------------------------------------------------------------------

(* An accepted or logged number says exactly the units it counts, for any  *)
(* radix, decimals and word size (DecimalToUint64 and Uint64ToDecimal,     *)
(* util.go).                                                               *)
THEOREM NumbersReadExactly == CodecSpec => []ReadsExactly
<1>1. CodecInv => ReadsExactly
  <2> SUFFICES ASSUME CodecInv, parsed.kind = "ok", NEW field \in Fields,
                      Len(form[field]) <= 2
               PROVE  parsed.units[field] * Pow[Places(form[field])]
                        = Digits(FlattenSeq(form[field])) * Pow[ReadWith(field)]
    BY DEF ReadsExactly
  <2>1. PICK units \in Units : Reading(units)
    BY DEF CodecInv
  <2>2. parsed.units = units
    BY <2>1 DEF Reading, Ok
  <2>3. Tells(form[field], units[field], ReadWith(field))
    BY <2>1 DEF Reading
  <2> QED
    BY <2>2, <2>3 DEF Tells
<1> QED
  BY <1>1, CodecHolds, PTL

LEMMA ProperRead ==
  ASSUME Typed, NEW field \in Fields,
         Proper(form[field]), Places(form[field]) <= ReadWith(field),
         Digits(FlattenSeq(form[field])) * Pow[ReadWith(field) - Places(form[field])]
           <= MaxUint64,
         ReadWith(field) <= ZeroLen
  PROVE  Read[field].kind = "ok"
<1> DEFINE number == form[field]
           d == ReadWith(field)
<1>1. number \in SplitTexts /\ d \in Nat /\ Len(number) <= 2
  BY DecimalsKnown DEF Typed, Forms, Proper
<1>2. Read[field] = DecimalToUint64(number, d)
  BY DEF Read
<1> DEFINE u == Digits(FlattenSeq(number)) * Pow[d - Places(number)]
           r == DecimalToUint64(number, d)
<1>3. Proper(number) /\ Places(number) <= d /\ u <= MaxUint64 /\ d <= ZeroLen
  OBVIOUS
<1> HIDE DEF number, d
<1>4. Proper(number) /\ Places(number) <= d /\ u <= MaxUint64 /\ d <= ZeroLen => r = Ok(u)
  BY <1>1, ReadingIs
<1> HIDE DEF u, r
<1>5. r = Ok(u)
  BY <1>3, <1>4
<1> QED
  BY <1>2, <1>5 DEF r, Ok

(* A form of proper numbers that are not too fine, not too large and not   *)
(* beyond the padding constant is never refused and never panics           *)
(* (DecimalToUint64, util.go).                                             *)
THEOREM ProperNumbersAccepted == CodecSpec => []ProperFormsAccepted
<1> DEFINE Good == \A field \in Fields :
             /\ Proper(form[field])
             /\ Places(form[field]) <= ReadWith(field)
             /\ Digits(FlattenSeq(form[field]))
                  * Pow[ReadWith(field) - Places(form[field])] <= MaxUint64
             /\ ReadWith(field) <= ZeroLen
<1>1. CodecInit => ProperFormsAccepted
  BY DEF CodecInit, Unread, ProperFormsAccepted
<1>2. ASSUME CodecInv, ProperFormsAccepted, [CodecNext]_codecVars
      PROVE  ProperFormsAccepted'
  <2>1. ASSUME NEW field \in Fields, NEW number \in Numbers, Enter(field, number)
        PROVE  ProperFormsAccepted'
    BY <2>1 DEF Enter, Unread, ProperFormsAccepted
  <2>2. CASE Submit
    <3>1. ASSUME Good PROVE Parsed.kind = "ok"
      <4>1. \A field \in Fields : Read[field].kind = "ok"
        BY <1>2, <3>1, ProperRead DEF CodecInv
      <4>2. \A field \in Fields : \E u \in 0..MaxUint64 : Read[field] = Ok(u)
        BY <1>2, <4>1, ReadIs DEF CodecInv
      <4> DEFINE units == [field \in Fields |-> CHOOSE u \in 0..MaxUint64 : Read[field] = Ok(u)]
      <4>3. units \in Units /\ \A field \in Fields : Read[field] = Ok(units[field])
        BY <4>2 DEF Units
      <4> HIDE DEF units
      <4>4. Parsed = Ok(units)
        BY <1>2, <4>3, ParsedIs DEF CodecInv
      <4> QED
        BY <4>4 DEF Ok
    <3>2. /\ form' = form /\ parsed' = Parsed
          /\ \A field \in Fields : ReadWith(field)' = ReadWith(field)
      BY <2>2 DEF Submit, ReadWith, OrderDecimals, RelayDecimals
    <3>3. Good' => Good
      BY <3>2
    <3>4. Good' => parsed'.kind = "ok"
      <4> HIDE DEF Good
      <4> QED
        BY <3>1, <3>2, <3>3
    <3> QED
      BY <3>4 DEF ProperFormsAccepted
  <2>3. CASE Log
    BY <2>3 DEF Log, ProperFormsAccepted
  <2>4. CASE UNCHANGED codecVars
    <3>1. /\ form' = form /\ parsed' = parsed
          /\ \A field \in Fields : ReadWith(field)' = ReadWith(field)
      BY <2>4 DEF codecVars, ReadWith, OrderDecimals, RelayDecimals
    <3> QED
      BY <1>2, <3>1 DEF ProperFormsAccepted
  <2> QED
    BY <1>2, <2>1, <2>2, <2>3, <2>4 DEF CodecNext
<1> QED
  BY <1>1, <1>2, CodecHolds, PTL DEF CodecSpec

(* A form that was accepted, or the texts its trade's event writes, is     *)
(* read as the same numbers, within the padding constant (evtlog.go,       *)
(* types.go, util.go).                                                     *)
THEOREM LoggedNumbersReadBack == CodecSpec => LoggedReadsBack
<1>1. ASSUME CodecInv, [CodecNext]_codecVars
      PROVE  [parsed.kind = "ok" /\ Submit =>
                \/ parsed' = parsed
                \/ \E field \in Fields : ReadWith(field) > ZeroLen]_codecVars
  <2> SUFFICES ASSUME parsed.kind = "ok", Submit, parsed # Parsed,
                      \A field \in Fields : ~(ReadWith(field) > ZeroLen)
               PROVE  parsed' = parsed
    BY DEF Submit
  <2>1. Typed
    BY <1>1 DEF CodecInv
  <2>2. PICK units \in Units : Reading(units)
    BY <1>1 DEF CodecInv
  <2>3. ASSUME NEW field \in Fields PROVE Read[field] = Ok(units[field])
    <3>1. ReadWith(field) \in Nat /\ units[field] \in 0..MaxUint64
      BY <2>1, DecimalsKnown DEF Units
    <3>2. ReadWith(field) <= ZeroLen
      BY <3>1, CodecAssumption
    <3>3. form[field] = Uint64ToDecimal(units[field], ReadWith(field))
      BY <2>2 DEF Reading
    <3> QED
      BY <3>1, <3>2, <3>3, ReadBack DEF Read
  <2>4. Parsed = Ok(units)
    BY <2>1, <2>3, ParsedIs
  <2> QED
    BY <2>2, <2>4 DEF Reading
<1> QED
  BY <1>1, CodecHolds, PTL DEF CodecSpec, LoggedReadsBack
-----------------------------------------------------------------------------
(* The texts owners sign.                                                  *)

\* A text u that is p, then the symbol x, then a.
IsAround(u, p, x, a) ==
  /\ Len(p) \in Nat /\ Len(a) \in Nat /\ Len(u) = Len(p) + 1 + Len(a)
  /\ \A i \in 1..Len(p) : u[i] = p[i]
  /\ u[Len(p) + 1] = x
  /\ \A j \in 1..Len(a) : u[Len(p) + 1 + j] = a[j]

Labeled(p, x, a) == (p \o <<x>>) \o a

LEMMA LabelAround ==
  ASSUME NEW T, NEW p \in Seq(T), NEW x \in T, NEW a \in Seq(T)
  PROVE  Labeled(p, x, a) \in Seq(T) /\ IsAround(Labeled(p, x, a), p, x, a)
<1> DEFINE c == <<x>>
           h == p \o c
           u == h \o a
<1>1. Len(p) \in Nat /\ Len(a) \in Nat /\ c \in Seq(T) /\ Len(c) = 1 /\ c[1] = x
  BY LenProperties
<1> HIDE DEF c
<1>2. h \in Seq(T) /\ Len(h) = Len(p) + 1
      /\ \A i \in 1..(Len(p) + 1) : h[i] = IF i <= Len(p) THEN p[i] ELSE c[i - Len(p)]
  <2>1. h \in Seq(T) /\ Len(h) = Len(p) + Len(c)
        /\ \A i \in 1..Len(p) + Len(c) : h[i] = IF i <= Len(p) THEN p[i] ELSE c[i - Len(p)]
    BY <1>1, ConcatProperties
  <2> HIDE DEF h
  <2> QED
    BY <1>1, <2>1
<1>3. \A i \in 1..Len(p) : h[i] = p[i]
  <2>1. \A i \in 1..Len(p) : i \in 1..(Len(p) + 1) /\ i <= Len(p)
    BY <1>1
  <2> HIDE DEF h
  <2> QED
    BY <1>2, <2>1
<1>4. h[Len(p) + 1] = x
  <2>1. Len(p) + 1 \in 1..(Len(p) + 1) /\ ~(Len(p) + 1 <= Len(p)) /\ Len(p) + 1 - Len(p) = 1
    BY <1>1
  <2> HIDE DEF h
  <2> QED
    BY <1>1, <1>2, <2>1
<1> HIDE DEF h
<1>5. u \in Seq(T) /\ Len(u) = Len(h) + Len(a)
      /\ \A i \in 1..Len(h) + Len(a) : u[i] = IF i <= Len(h) THEN h[i] ELSE a[i - Len(h)]
  <2>1. h \in Seq(T)
    BY <1>2
  <2> QED
    BY <2>1, ConcatProperties
<1> HIDE DEF u
<1>6. \A i \in 1..Len(h) : u[i] = h[i]
  <2>1. \A i \in 1..Len(h) : i \in 1..Len(h) + Len(a) /\ i <= Len(h)
    BY <1>1, <1>2
  <2> QED
    BY <1>5, <2>1
<1>7. \A j \in 1..Len(a) : u[Len(p) + 1 + j] = a[j]
  <2>1. \A j \in 1..Len(a) : /\ Len(h) + j \in 1..Len(h) + Len(a) /\ ~(Len(h) + j <= Len(h))
                             /\ Len(h) + j - Len(h) = j
    BY <1>1, <1>2
  <2>2. \A j \in 1..Len(a) : u[Len(h) + j] = a[j]
    BY <1>5, <2>1
  <2> QED
    BY <1>2, <2>2
<1>8. \A i \in 1..Len(p) : i \in 1..Len(h)
  BY <1>1, <1>2
<1>9. Len(p) + 1 \in 1..Len(h)
  BY <1>1, <1>2
<1>10. IsAround(u, p, x, a)
  BY <1>1, <1>2, <1>3, <1>4, <1>5, <1>6, <1>7, <1>8, <1>9 DEF IsAround
<1> QED
  BY <1>5, <1>10 DEF Labeled, u, h, c

\* A label stands no further right than one after which there are none, ...
LEMMA NotBehind ==
  ASSUME NEW u, NEW T, NEW K, NEW p, NEW x \in K, NEW a, IsAround(u, p, x, a),
         NEW q, NEW y, NEW b \in Seq(T \ K), IsAround(u, q, y, b)
  PROVE  Len(p) <= Len(q)
<1> SUFFICES ASSUME ~(Len(p) <= Len(q)) PROVE FALSE
  OBVIOUS
<1> DEFINE j == Len(p) - Len(q)
<1>1. Len(p) \in Nat /\ Len(q) \in Nat /\ Len(a) \in Nat /\ Len(b) \in Nat
      /\ Len(p) + 1 + Len(a) = Len(q) + 1 + Len(b)
  BY DEF IsAround
<1>2. j \in 1..Len(b) /\ Len(q) + 1 + j = Len(p) + 1
  BY <1>1
<1>3. u[Len(q) + 1 + j] = b[j] /\ u[Len(p) + 1] = x
  BY <1>2 DEF IsAround
<1>4. b[j] \in T \ K
  BY <1>2
<1> QED
  BY <1>2, <1>3, <1>4

\* ... nor further left than one before which there are none.
LEMMA NotAhead ==
  ASSUME NEW u, NEW T, NEW K, NEW p, NEW x \in K, NEW a, IsAround(u, p, x, a),
         NEW q \in Seq(T \ K), NEW y, NEW b, IsAround(u, q, y, b)
  PROVE  Len(q) <= Len(p)
<1> SUFFICES ASSUME ~(Len(q) <= Len(p)) PROVE FALSE
  OBVIOUS
<1> DEFINE i == Len(p) + 1
<1>1. Len(p) \in Nat /\ Len(q) \in Nat
  BY DEF IsAround
<1>2. i \in 1..Len(q)
  BY <1>1
<1>3. u[i] = q[i] /\ u[i] = x
  BY <1>2 DEF IsAround
<1>4. q[i] \in T \ K
  BY <1>2
<1> QED
  BY <1>3, <1>4

LEMMA AroundSame ==
  ASSUME NEW T, NEW u, NEW p \in Seq(T), NEW x, NEW a \in Seq(T), IsAround(u, p, x, a),
         NEW q \in Seq(T), NEW y, NEW b \in Seq(T), IsAround(u, q, y, b), Len(p) = Len(q)
  PROVE  p = q /\ x = y /\ a = b
<1>1. /\ Len(p) \in Nat /\ Len(a) \in Nat /\ Len(b) \in Nat /\ Len(a) = Len(b)
      /\ \A i \in 1..Len(p) : p[i] = q[i]
      /\ \A j \in 1..Len(a) : a[j] = b[j]
      /\ x = y
  BY DEF IsAround
<1> QED
  BY <1>1, SeqEqual

\* A text is cut in one way at the last of the labels K, ...
LEMMA CutAtLast ==
  ASSUME NEW T, NEW K, NEW p \in Seq(T), NEW x \in K, NEW a \in Seq(T \ K),
         NEW q \in Seq(T), NEW y \in K, NEW b \in Seq(T \ K), K \subseteq T,
         Labeled(p, x, a) = Labeled(q, y, b)
  PROVE  p = q /\ x = y /\ a = b
<1> DEFINE u == Labeled(p, x, a)
<1>1. a \in Seq(T) /\ b \in Seq(T) /\ x \in T /\ y \in T
  OBVIOUS
<1>2. IsAround(u, p, x, a) /\ IsAround(u, q, y, b)
  BY <1>1, LabelAround
<1> HIDE DEF u
<1>3. Len(p) <= Len(q) /\ Len(q) <= Len(p)
  BY <1>2, NotBehind
<1>4. Len(p) = Len(q)
  BY <1>2, <1>3 DEF IsAround
<1> QED
  BY <1>1, <1>2, <1>4, AroundSame

\* ... and at the first of them.
LEMMA CutAtFirst ==
  ASSUME NEW T, NEW K, NEW p \in Seq(T \ K), NEW x \in K, NEW a \in Seq(T),
         NEW q \in Seq(T \ K), NEW y \in K, NEW b \in Seq(T), K \subseteq T,
         Labeled(p, x, a) = Labeled(q, y, b)
  PROVE  p = q /\ x = y /\ a = b
<1> DEFINE u == Labeled(p, x, a)
<1>1. p \in Seq(T) /\ q \in Seq(T) /\ x \in T /\ y \in T
  OBVIOUS
<1>2. IsAround(u, p, x, a) /\ IsAround(u, q, y, b)
  BY <1>1, LabelAround
<1> HIDE DEF u
<1>3. Len(p) <= Len(q) /\ Len(q) <= Len(p)
  BY <1>2, NotAhead
<1>4. Len(p) = Len(q)
  BY <1>2, <1>3 DEF IsAround
<1> QED
  BY <1>1, <1>2, <1>4, AroundSame

\* A text in which a label stands once is cut in one way there.
LEMMA CutAtOnly ==
  ASSUME NEW T, NEW K, NEW p \in Seq(T \ K), NEW x \in K, NEW a \in Seq(T \ K),
         NEW q \in Seq(T), NEW y \in K, NEW b \in Seq(T), K \subseteq T,
         Labeled(p, x, a) = Labeled(q, y, b)
  PROVE  p = q /\ x = y /\ a = b
<1> DEFINE u == Labeled(p, x, a)
<1>1. p \in Seq(T) /\ a \in Seq(T) /\ x \in T /\ y \in T
  OBVIOUS
<1>2. IsAround(u, p, x, a) /\ IsAround(u, q, y, b)
  BY <1>1, LabelAround
<1> HIDE DEF u
<1>3. Len(q) <= Len(p)
  BY <1>2, NotBehind
<1>4. Len(p) <= Len(q)
  BY <1>2, NotAhead
<1>5. Len(p) = Len(q)
  BY <1>2, <1>3, <1>4 DEF IsAround
<1> QED
  BY <1>1, <1>2, <1>5, AroundSame

\* Fields without labels, and all that a text is made of.
Unlabeled == (STRING \cup {"buy", "sell"}) \ Labels
Symbols == Unlabeled \cup Labels

LEMMA SequencesOfMore ==
  ASSUME NEW A, NEW B, A \subseteq B
  PROVE  Seq(A) \subseteq Seq(B)
OBVIOUS

LEMMA FieldsUnlabeled ==
  /\ Numerals \subseteq Seq(Unlabeled) /\ Amounts \subseteq Seq(Unlabeled)
  /\ Names \subseteq Seq(Unlabeled) /\ Pairs \subseteq Seq(Unlabeled)
  /\ <<"buy">> \in Seq(Unlabeled) /\ <<"sell">> \in Seq(Unlabeled)
  /\ Extras \subseteq Seq(Symbols) /\ AnyAmounts \subseteq Seq(Symbols)
<1>1. STRING \ Labels \subseteq Unlabeled /\ STRING \subseteq Symbols
  BY DEF Unlabeled, Symbols
<1>2. "buy" \in Unlabeled /\ "sell" \in Unlabeled
  BY DEF Unlabeled, Labels
<1>3. Seq(STRING \ Labels) \subseteq Seq(Unlabeled)
  BY <1>1, SequencesOfMore
<1>4. Seq(STRING) \subseteq Seq(Symbols)
  BY <1>1, SequencesOfMore, Zenon
<1> HIDE DEF Unlabeled
<1> QED
  BY <1>2, <1>3, <1>4, TextAssumption

LEMMA SymbolsSplit ==
  /\ Labels \subseteq Symbols /\ Unlabeled = Symbols \ Labels
  /\ \A x \in Labels : Unlabeled \subseteq Symbols \ {x}
BY DEF Symbols, Unlabeled

\* What follows the last label is told apart from what stands before it.
LEMMA LastField ==
  ASSUME NEW p \in Seq(Symbols), NEW x \in Labels, NEW a \in Seq(Unlabeled),
         NEW q \in Seq(Symbols), NEW y \in Labels, NEW b \in Seq(Unlabeled),
         Labeled(p, x, a) = Labeled(q, y, b)
  PROVE  p = q /\ x = y /\ a = b
<1>1. a \in Seq(Symbols \ Labels) /\ b \in Seq(Symbols \ Labels) /\ Labels \subseteq Symbols
  BY SymbolsSplit
<1> QED
  BY <1>1, CutAtLast

\* Two texts that end with the same label and fields without any.
SameEnding(p, q, x, a, b) ==
  /\ p \in Seq(Symbols) /\ q \in Seq(Symbols) /\ x \in Labels
  /\ a \in Seq(Unlabeled) /\ b \in Seq(Unlabeled)

LEMMA EndingsCut ==
  ASSUME NEW p, NEW q, NEW x, NEW a, NEW b, SameEnding(p, q, x, a, b),
         Labeled(p, x, a) = Labeled(q, x, b)
  PROVE  p = q /\ a = b
BY LastField DEF SameEnding

LEMMA LabeledTyped ==
  ASSUME NEW p \in Seq(Symbols), NEW x \in Labels, NEW a \in Seq(Unlabeled)
  PROVE  Labeled(p, x, a) \in Seq(Symbols)
<1>1. x \in Symbols /\ a \in Seq(Symbols)
  BY SymbolsSplit
<1> QED
  BY <1>1, LabelAround

\* The texts, field by field.
Text1(x) == Labeled(<<>>, "amount=", x)
Withdrawal2(arg) == Labeled(Text1(arg.Amount), "&asset=", arg.Asset)
Withdrawal3(arg) == Labeled(Withdrawal2(arg), "&extra=", arg.Extra)
Withdrawal4(arg) == Labeled(Withdrawal3(arg), "&fee=", arg.Fee)
Withdrawal5(arg) == Labeled(Withdrawal4(arg), "&from=", arg.From)
Withdrawal6(arg) == Labeled(Withdrawal5(arg), "&salt=", arg.Salt)
Order2(a) == Labeled(Text1(a.Amount), "&chain_id=", a.ChainId)
Order3(a) == Labeled(Order2(a), "&channel=", a.Channel)
Order4(a) == Labeled(Order3(a), "&expire=", a.Expire)
Order5(a) == Labeled(Order4(a), "&maker_fee_rate=", a.MakerFeeRate)
Order6(a) == Labeled(Order5(a), "&pair=", a.Pair)
Order7(a) == Labeled(Order6(a), "&price=", a.Price)
Order8(a) == Labeled(Order7(a), "&salt=", a.Salt)
Order9(a) == Labeled(Order8(a), "&side=", a.Side)
Order10(a) == Labeled(Order9(a), "&taker_fee_rate=", a.TakerFeeRate)

LEMMA TextsAre ==
  /\ \A arg : HashParams(arg) = Labeled(Withdrawal6(arg), "&to=", arg.To)
  /\ \A a : OrderId(a) = Labeled(Order10(a), "&user=", a.User)
<1>1. <<>> \o <<"amount=">> = <<"amount=">>
  <2>1. <<"amount=">> \in Seq({"amount="})
    OBVIOUS
  <2> QED
    BY <2>1, ConcatEmptySeq
<1>2. \A x : Text1(x) = <<"amount=">> \o x
  BY <1>1 DEF Text1, Labeled
<1> QED
  BY <1>2 DEF HashParams, OrderId, Labeled, Withdrawal2, Withdrawal3, Withdrawal4, Withdrawal5,
              Withdrawal6, Order2, Order3, Order4, Order5, Order6, Order7, Order8, Order9, Order10

LEMMA WithdrawalTyped ==
  ASSUME NEW arg \in DWithdrawArgs
  PROVE  /\ Text1(arg.Amount) \in Seq(Symbols) /\ Withdrawal2(arg) \in Seq(Symbols)
         /\ Withdrawal3(arg) \in Seq(Symbols) /\ Withdrawal4(arg) \in Seq(Symbols)
         /\ Withdrawal5(arg) \in Seq(Symbols) /\ Withdrawal6(arg) \in Seq(Symbols)
         /\ Withdrawal2(arg) \in Seq(Symbols \ {"&extra="})
         /\ arg.Amount \in Seq(Unlabeled) /\ arg.Asset \in Seq(Unlabeled)
         /\ arg.Extra \in Seq(Symbols) /\ arg.Fee \in Seq(Unlabeled) /\ arg.From \in Seq(Unlabeled)
         /\ arg.Salt \in Seq(Unlabeled) /\ arg.To \in Seq(Unlabeled)
<1> DEFINE Amount == arg.Amount
           Asset == arg.Asset
           Extra == arg.Extra
           Fee == arg.Fee
           From_ == arg.From
           Salt == arg.Salt
           To == arg.To
<1>1. /\ Amount \in Seq(Unlabeled) /\ Asset \in Seq(Unlabeled)
      /\ Extra \in Seq(Symbols) /\ Fee \in Seq(Unlabeled) /\ From_ \in Seq(Unlabeled)
      /\ Salt \in Seq(Unlabeled) /\ To \in Seq(Unlabeled)
  BY FieldsUnlabeled DEF DWithdrawArgs
<1> HIDE DEF Amount, Asset, Extra, Fee, From_, Salt, To
<1>2. {"amount=", "&asset=", "&extra=", "&fee=", "&from=", "&salt=", "&to="} \subseteq Labels
  BY DEF Labels
<1>3. Text1(Amount) \in Seq(Symbols)
  <2>1. <<>> \in Seq(Symbols)
    OBVIOUS
  <2> QED
    BY <1>1, <1>2, <2>1, LabeledTyped DEF Text1
<1>4. Withdrawal2(arg) \in Seq(Symbols)
  BY <1>1, <1>2, <1>3, LabeledTyped DEF Withdrawal2, Amount, Asset
<1>5. Withdrawal3(arg) \in Seq(Symbols)
  <2>1. "&extra=" \in Symbols
    BY <1>2, SymbolsSplit
  <2> QED
    BY <1>1, <1>4, <2>1, LabelAround DEF Withdrawal3, Extra
<1>6. Withdrawal4(arg) \in Seq(Symbols)
  BY <1>1, <1>2, <1>5, LabeledTyped DEF Withdrawal4, Fee
<1>7. Withdrawal5(arg) \in Seq(Symbols)
  BY <1>1, <1>2, <1>6, LabeledTyped DEF Withdrawal5, From_
<1>8. Withdrawal6(arg) \in Seq(Symbols)
  BY <1>1, <1>2, <1>7, LabeledTyped DEF Withdrawal6, Salt
<1>9. Withdrawal2(arg) \in Seq(Symbols \ {"&extra="})
  <2> DEFINE T == Symbols \ {"&extra="}
  <2>1. Unlabeled \subseteq T /\ "amount=" \in T /\ "&asset=" \in T
    BY <1>2, SymbolsSplit
  <2> HIDE DEF T
  <2>2. Amount \in Seq(T) /\ Asset \in Seq(T) /\ <<>> \in Seq(T)
    BY <1>1, <2>1
  <2>3. Text1(Amount) \in Seq(T)
    BY <2>1, <2>2, LabelAround DEF Text1
  <2>4. Withdrawal2(arg) \in Seq(T)
    BY <2>1, <2>2, <2>3, LabelAround DEF Withdrawal2, Amount, Asset
  <2> QED
    BY <2>4 DEF T
<1> QED
  BY <1>1, <1>3, <1>4, <1>5, <1>6, <1>7, <1>8, <1>9
     DEF Amount, Asset, Extra, Fee, From_, Salt, To

LEMMA OrderTyped ==
  ASSUME NEW a \in RawOrderData(Amounts \cup AnyAmounts)
  PROVE  /\ Text1(a.Amount) \in Seq(Symbols)
         /\ Order2(a) \in Seq(Symbols)
         /\ Order3(a) \in Seq(Symbols)
         /\ Order4(a) \in Seq(Symbols)
         /\ Order5(a) \in Seq(Symbols)
         /\ Order6(a) \in Seq(Symbols)
         /\ Order7(a) \in Seq(Symbols)
         /\ Order8(a) \in Seq(Symbols)
         /\ Order9(a) \in Seq(Symbols)
         /\ Order10(a) \in Seq(Symbols)
         /\ a.Amount \in Seq(Symbols)
         /\ a.ChainId \in Seq(Unlabeled)
         /\ a.Channel \in Seq(Unlabeled)
         /\ a.Expire \in Seq(Unlabeled)
         /\ a.MakerFeeRate \in Seq(Unlabeled)
         /\ a.Pair \in Seq(Unlabeled)
         /\ a.Price \in Seq(Symbols)
         /\ a.Salt \in Seq(Unlabeled)
         /\ a.Side \in Seq(Unlabeled)
         /\ a.TakerFeeRate \in Seq(Unlabeled)
         /\ a.User \in Seq(Unlabeled)
<1> DEFINE Amount_ == a.Amount
           ChainId_ == a.ChainId
           Channel_ == a.Channel
           Expire_ == a.Expire
           MakerFeeRate_ == a.MakerFeeRate
           Pair_ == a.Pair
           Price_ == a.Price
           Salt_ == a.Salt
           Side_ == a.Side
           TakerFeeRate_ == a.TakerFeeRate
           User_ == a.User
<1>1. /\ Amount_ \in Seq(Symbols)
      /\ ChainId_ \in Seq(Unlabeled)
      /\ Channel_ \in Seq(Unlabeled)
      /\ Expire_ \in Seq(Unlabeled)
      /\ MakerFeeRate_ \in Seq(Unlabeled)
      /\ Pair_ \in Seq(Unlabeled)
      /\ Price_ \in Seq(Symbols)
      /\ Salt_ \in Seq(Unlabeled)
      /\ Side_ \in Seq(Unlabeled)
      /\ TakerFeeRate_ \in Seq(Unlabeled)
      /\ User_ \in Seq(Unlabeled)
  <2>1. Unlabeled \subseteq Symbols
    BY SymbolsSplit
  <2>2. Seq(Unlabeled) \subseteq Seq(Symbols)
    BY <2>1, SequencesOfMore
  <2>3. Amount_ \in Amounts \cup AnyAmounts /\ Price_ \in Amounts \cup AnyAmounts
    BY DEF RawOrderData
  <2>4. Amount_ \in Seq(Symbols) /\ Price_ \in Seq(Symbols)
    BY <2>2, <2>3, FieldsUnlabeled
  <2> QED
    BY <2>4, FieldsUnlabeled DEF RawOrderData
<1> HIDE DEF Amount_, ChainId_, Channel_, Expire_, MakerFeeRate_, Pair_, Price_, Salt_, Side_, TakerFeeRate_, User_
<1>2. {"amount=", "&chain_id=", "&channel=", "&expire=", "&maker_fee_rate=", "&pair=", "&price=", "&salt=", "&side=", "&taker_fee_rate="} \subseteq Labels
  BY DEF Labels
<1>3. Text1(Amount_) \in Seq(Symbols)
  <2>1. <<>> \in Seq(Symbols)
    OBVIOUS
  <2>2. "amount=" \in Symbols
    BY <1>2, SymbolsSplit
  <2> QED
    BY <1>1, <2>1, <2>2, LabelAround DEF Text1
<1>4. Order2(a) \in Seq(Symbols)
  BY <1>1, <1>2, <1>3, LabeledTyped DEF Order2, ChainId_, Amount_
<1>5. Order3(a) \in Seq(Symbols)
  BY <1>1, <1>2, <1>4, LabeledTyped DEF Order3, Channel_
<1>6. Order4(a) \in Seq(Symbols)
  BY <1>1, <1>2, <1>5, LabeledTyped DEF Order4, Expire_
<1>7. Order5(a) \in Seq(Symbols)
  BY <1>1, <1>2, <1>6, LabeledTyped DEF Order5, MakerFeeRate_
<1>8. Order6(a) \in Seq(Symbols)
  BY <1>1, <1>2, <1>7, LabeledTyped DEF Order6, Pair_
<1>9. Order7(a) \in Seq(Symbols)
  <2>1. "&price=" \in Symbols
    BY <1>2, SymbolsSplit
  <2> QED
    BY <1>1, <1>8, <2>1, LabelAround DEF Order7, Price_
<1>10. Order8(a) \in Seq(Symbols)
  BY <1>1, <1>2, <1>9, LabeledTyped DEF Order8, Salt_
<1>11. Order9(a) \in Seq(Symbols)
  BY <1>1, <1>2, <1>10, LabeledTyped DEF Order9, Side_
<1>12. Order10(a) \in Seq(Symbols)
  BY <1>1, <1>2, <1>11, LabeledTyped DEF Order10, TakerFeeRate_
<1> QED
  BY <1>1, <1>3, <1>4, <1>5, <1>6, <1>7, <1>8, <1>9, <1>10, <1>11, <1>12
     DEF Amount_, ChainId_, Channel_, Expire_, MakerFeeRate_, Pair_, Price_, Salt_, Side_, TakerFeeRate_, User_

\* What an owner signs names a price once.
LEMMA OnePrice ==
  ASSUME NEW a \in RawOrderData(Amounts)
  PROVE  Order6(a) \in Seq(Symbols \ {"&price="}) /\ a.Price \in Seq(Symbols \ {"&price="})
<1> DEFINE T == Symbols \ {"&price="}
           Amount_ == a.Amount
           ChainId_ == a.ChainId
           Channel_ == a.Channel
           Expire_ == a.Expire
           MakerFeeRate_ == a.MakerFeeRate
           Pair_ == a.Pair
<1>1. "&price=" \in Labels
  BY DEF Labels
<1>2. Unlabeled \subseteq T
  BY <1>1, SymbolsSplit
<1>3. {"amount=", "&chain_id=", "&channel=", "&expire=", "&maker_fee_rate=", "&pair="} \subseteq T
  <2>1. {"amount=", "&chain_id=", "&channel=", "&expire=", "&maker_fee_rate=", "&pair="}
          \subseteq Labels \ {"&price="}
    BY DEF Labels
  <2> QED
    BY <2>1, SymbolsSplit
<1> HIDE DEF T
<1>4. Seq(Unlabeled) \subseteq Seq(T)
  BY <1>2, SequencesOfMore
<1>5. /\ <<>> \in Seq(T) /\ Amount_ \in Seq(T) /\ ChainId_ \in Seq(T) /\ Channel_ \in Seq(T)
      /\ Expire_ \in Seq(T) /\ MakerFeeRate_ \in Seq(T) /\ Pair_ \in Seq(T)
      /\ a.Price \in Seq(T)
  BY <1>4, FieldsUnlabeled DEF RawOrderData
<1> HIDE DEF Amount_, ChainId_, Channel_, Expire_, MakerFeeRate_, Pair_
<1>6. Text1(Amount_) \in Seq(T)
  BY <1>3, <1>5, LabelAround DEF Text1
<1>7. Order2(a) \in Seq(T)
  BY <1>3, <1>5, <1>6, LabelAround DEF Order2, Amount_, ChainId_
<1>8. Order3(a) \in Seq(T)
  BY <1>3, <1>5, <1>7, LabelAround DEF Order3, Channel_
<1>9. Order4(a) \in Seq(T)
  BY <1>3, <1>5, <1>8, LabelAround DEF Order4, Expire_
<1>10. Order5(a) \in Seq(T)
  BY <1>3, <1>5, <1>9, LabelAround DEF Order5, MakerFeeRate_
<1>11. Order6(a) \in Seq(T)
  BY <1>3, <1>5, <1>10, LabelAround DEF Order6, Pair_
<1> QED
  BY <1>5, <1>11 DEF T

\* A withdrawal's text tells every field, whatever its extra text says.
LEMMA WithdrawalsDiffer ==
  ASSUME NEW a \in DWithdrawArgs, NEW b \in DWithdrawArgs, HashParams(a) = HashParams(b)
  PROVE  a = b
<1>0. {"amount=", "&asset=", "&extra=", "&fee=", "&from=", "&salt=", "&to="} \subseteq Labels
  BY DEF Labels
<1>1. Labeled(Withdrawal6(a), "&to=", a.To) = Labeled(Withdrawal6(b), "&to=", b.To)
  BY TextsAre
<1>2. Withdrawal6(a) = Withdrawal6(b) /\ a.To = b.To
  BY <1>0, <1>1, WithdrawalTyped, LastField
<1>3. Withdrawal5(a) = Withdrawal5(b) /\ a.Salt = b.Salt
  BY <1>0, <1>2, WithdrawalTyped, LastField DEF Withdrawal6
<1>4. Withdrawal4(a) = Withdrawal4(b) /\ a.From = b.From
  BY <1>0, <1>3, WithdrawalTyped, LastField DEF Withdrawal5
<1>5. Withdrawal3(a) = Withdrawal3(b) /\ a.Fee = b.Fee
  BY <1>0, <1>4, WithdrawalTyped, LastField DEF Withdrawal4
<1>6. Withdrawal2(a) = Withdrawal2(b) /\ a.Extra = b.Extra
  <2> DEFINE K == {"&extra="}
  <2>1. "&extra=" \in K /\ K \subseteq Symbols
    BY <1>0, SymbolsSplit
  <2>2. Withdrawal2(a) \in Seq(Symbols \ K) /\ Withdrawal2(b) \in Seq(Symbols \ K)
        /\ a.Extra \in Seq(Symbols) /\ b.Extra \in Seq(Symbols)
    BY WithdrawalTyped
  <2>3. Labeled(Withdrawal2(a), "&extra=", a.Extra) = Labeled(Withdrawal2(b), "&extra=", b.Extra)
    BY <1>5 DEF Withdrawal3
  <2> HIDE DEF K
  <2> QED
    BY <2>1, <2>2, <2>3, CutAtFirst
<1>7. Text1(a.Amount) = Text1(b.Amount) /\ a.Asset = b.Asset
  BY <1>0, <1>6, WithdrawalTyped, LastField DEF Withdrawal2
<1>8. a.Amount = b.Amount
  <2>1. SameEnding(<<>>, <<>>, "amount=", a.Amount, b.Amount)
    BY <1>0, WithdrawalTyped DEF SameEnding
  <2> QED
    BY <1>7, <2>1, EndingsCut DEF Text1
<1> QED
  BY <1>2, <1>3, <1>4, <1>5, <1>6, <1>7, <1>8 DEF DWithdrawArgs

\* No other order has the text of one an owner signs, whatever its price and
\* amount read.
LEMMA OrdersDiffer ==
  ASSUME NEW a \in RawOrderData(Amounts), NEW b \in RawOrderData(Amounts \cup AnyAmounts),
         OrderId(a) = OrderId(b)
  PROVE  a = b
<1>0. {"amount=", "&chain_id=", "&channel=", "&expire=", "&maker_fee_rate=", "&pair=", "&price=",
       "&salt=", "&side=", "&taker_fee_rate=", "&user="} \subseteq Labels
  BY DEF Labels
<1>1. a \in RawOrderData(Amounts \cup AnyAmounts)
  BY DEF RawOrderData
<1>2. /\ SameEnding(Text1(a.Amount), Text1(b.Amount), "&chain_id=", a.ChainId, b.ChainId)
      /\ SameEnding(Order2(a), Order2(b), "&channel=", a.Channel, b.Channel)
      /\ SameEnding(Order3(a), Order3(b), "&expire=", a.Expire, b.Expire)
      /\ SameEnding(Order4(a), Order4(b), "&maker_fee_rate=", a.MakerFeeRate, b.MakerFeeRate)
      /\ SameEnding(Order5(a), Order5(b), "&pair=", a.Pair, b.Pair)
      /\ SameEnding(Order7(a), Order7(b), "&salt=", a.Salt, b.Salt)
      /\ SameEnding(Order8(a), Order8(b), "&side=", a.Side, b.Side)
      /\ SameEnding(Order9(a), Order9(b), "&taker_fee_rate=", a.TakerFeeRate, b.TakerFeeRate)
      /\ SameEnding(Order10(a), Order10(b), "&user=", a.User, b.User)
  BY <1>0, <1>1, OrderTyped DEF SameEnding
<1>3. Labeled(Order10(a), "&user=", a.User) = Labeled(Order10(b), "&user=", b.User)
  BY TextsAre
<1>4. Order10(a) = Order10(b) /\ a.User = b.User
  BY <1>2, <1>3, EndingsCut
<1>5. Order9(a) = Order9(b) /\ a.TakerFeeRate = b.TakerFeeRate
  BY <1>2, <1>4, EndingsCut DEF Order10
<1>6. Order8(a) = Order8(b) /\ a.Side = b.Side
  BY <1>2, <1>5, EndingsCut DEF Order9
<1>7. Order7(a) = Order7(b) /\ a.Salt = b.Salt
  BY <1>2, <1>6, EndingsCut DEF Order8
<1>8. Order6(a) = Order6(b) /\ a.Price = b.Price
  <2> DEFINE K == {"&price="}
  <2>1. "&price=" \in K /\ K \subseteq Symbols
    BY <1>0, SymbolsSplit
  <2>2. Order6(a) \in Seq(Symbols \ K) /\ a.Price \in Seq(Symbols \ K)
    BY OnePrice
  <2>3. Order6(b) \in Seq(Symbols) /\ b.Price \in Seq(Symbols)
    BY OrderTyped
  <2>4. Labeled(Order6(a), "&price=", a.Price) = Labeled(Order6(b), "&price=", b.Price)
    BY <1>7 DEF Order7
  <2> HIDE DEF K
  <2> QED
    BY <2>1, <2>2, <2>3, <2>4, CutAtOnly
<1>9. Order5(a) = Order5(b) /\ a.Pair = b.Pair
  BY <1>2, <1>8, EndingsCut DEF Order6
<1>10. Order4(a) = Order4(b) /\ a.MakerFeeRate = b.MakerFeeRate
  BY <1>2, <1>9, EndingsCut DEF Order5
<1>11. Order3(a) = Order3(b) /\ a.Expire = b.Expire
  BY <1>2, <1>10, EndingsCut DEF Order4
<1>12. Order2(a) = Order2(b) /\ a.Channel = b.Channel
  BY <1>2, <1>11, EndingsCut DEF Order3
<1>13. Text1(a.Amount) = Text1(b.Amount) /\ a.ChainId = b.ChainId
  BY <1>2, <1>12, EndingsCut DEF Order2
<1>14. a.Amount = b.Amount
  <2> DEFINE u == Text1(a.Amount)
             start == <<>>
  <2>1. "amount=" \in Symbols /\ start \in Seq(Symbols)
    BY <1>0, SymbolsSplit
  <2>2. a.Amount \in Seq(Symbols) /\ b.Amount \in Seq(Symbols)
    BY <1>1, OrderTyped
  <2> HIDE DEF start
  <2>3. u = Labeled(start, "amount=", a.Amount) /\ u = Labeled(start, "amount=", b.Amount)
    BY <1>13 DEF Text1, start
  <2> HIDE DEF u
  <2>4. IsAround(u, start, "amount=", a.Amount) /\ IsAround(u, start, "amount=", b.Amount)
    BY <2>1, <2>2, <2>3, LabelAround
  <2> QED
    BY <2>1, <2>2, <2>4, AroundSame
<1> QED
  BY <1>4, <1>5, <1>6, <1>7, <1>8, <1>9, <1>10, <1>11, <1>12, <1>13, <1>14
     DEF RawOrderData

\* A withdrawal ends with its receiver, an order with its owner.
LEMMA KindsDiffer ==
  ASSUME NEW a \in DWithdrawArgs, NEW b \in RawOrderData(Amounts \cup AnyAmounts)
  PROVE  HashParams(a) # OrderId(b)
<1> SUFFICES ASSUME HashParams(a) = OrderId(b) PROVE FALSE
  OBVIOUS
<1>1. Labeled(Withdrawal6(a), "&to=", a.To) = Labeled(Order10(b), "&user=", b.User)
  BY TextsAre
<1>2. "&to=" \in Labels /\ "&user=" \in Labels
  BY DEF Labels
<1>3. /\ Withdrawal6(a) \in Seq(Symbols) /\ a.To \in Seq(Unlabeled)
      /\ Order10(b) \in Seq(Symbols) /\ b.User \in Seq(Unlabeled)
  BY WithdrawalTyped, OrderTyped
<1>4. "&to=" = "&user="
  BY <1>1, <1>2, <1>3, LastField
<1> QED
  BY <1>4

LEMMA TextsDiffer ==
  ASSUME NEW s \in Things, NEW t \in Submissions, TextOf(s) = TextOf(t)
  PROVE  s = t
<1>1. /\ \/ s.kind = "withdrawal" /\ s.data \in DWithdrawArgs
         \/ s.kind = "order" /\ s.data \in RawOrderData(Amounts)
      /\ \/ t.kind = "withdrawal" /\ t.data \in DWithdrawArgs
         \/ t.kind = "order" /\ t.data \in RawOrderData(Amounts \cup AnyAmounts)
  BY DEF Things, Submissions, Withdrawals
<1>2. s = [kind |-> s.kind, data |-> s.data] /\ t = [kind |-> t.kind, data |-> t.data]
  BY DEF Things, Submissions, Withdrawals
<1>3. s.kind = t.kind /\ s.data = t.data
  <2>1. RawOrderData(Amounts) \subseteq RawOrderData(Amounts \cup AnyAmounts)
    BY DEF RawOrderData
  <2> QED
    BY <1>1, <2>1, WithdrawalsDiffer, OrdersDiffer, KindsDiffer DEF TextOf
<1> QED
  BY <1>2, <1>3

(* One signature, one meaning, for any amounts, names and extra texts, and *)
(* whatever a submitted order holds for numbers: the contract takes        *)
(* nothing but what the owner signed for signed (types.go HashParams and   *)
(* OrderId, verify.go VerifySig).                                          *)
THEOREM SignaturesMeanOneThing == TextSpec => []AcceptedAsSigned
<1> DEFINE Inv == signed \in Things /\ AcceptedAsSigned
<1>1. TextInit => Inv
  BY DEF TextInit, AcceptedAsSigned
<1>2. Inv /\ [TextNext]_textVars => Inv'
  <2> SUFFICES ASSUME Inv, [TextNext]_textVars PROVE Inv'
    OBVIOUS
  <2>1. ASSUME NEW thing \in Submissions, Accept(thing) PROVE Inv'
    <3>1. thing = signed
      BY <2>1, TextsDiffer DEF Accept, VerifySig
    <3> QED
      BY <2>1, <3>1 DEF Accept, AcceptedAsSigned
  <2>2. CASE UNCHANGED textVars
    BY <2>2 DEF textVars, AcceptedAsSigned
  <2> QED
    BY <2>1, <2>2 DEF TextNext
<1>3. Inv => AcceptedAsSigned
  OBVIOUS
<1> QED
  BY <1>1, <1>2, <1>3, PTL DEF TextSpec
=============================================================================
