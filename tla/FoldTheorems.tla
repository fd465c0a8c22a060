---------------------------- MODULE FoldTheorems ----------------------------
(***************************************************************************)
(* What the proofs need to know of folds.  A fold is a function defined    *)
(* recursively on the subsets of its set, taking one element at a time;    *)
(* its equation is shown to have a solution by induction over Nat, which   *)
(* the first lemmas derive from the well-foundedness of <.                 *)
(*                                                                         *)
(* SumFunctionOnSet totals the balances of an asset in the ledger.         *)
(* Sequences are folded from the left where a follower reads events and    *)
(* where bytes and digits are read; the operator folded with is given as a *)
(* function here, and each user shows that its own agrees with it.         *)
(***************************************************************************)
EXTENDS Functions, FiniteSetTheorems, WellFoundedInduction, TLAPS

\* A nonempty set of naturals has a least element.
LEMMA NatMinimum ==
  ASSUME NEW T \in SUBSET Nat, T # {}
  PROVE \E x \in T : \A y \in T : x <= y
<1> DEFINE R == OpToRel(<, Nat)
<1>1. IsWellFoundedOn(R, Nat)
  BY NatLessThanWellFounded
<1>2. \A x, y \in Nat : x < y => <<x, y>> \in R
  BY DEF OpToRel
<1> HIDE DEF R
<1>3. PICK x \in T : \A y \in T : ~(<<y, x>> \in R)
  BY <1>1, WFMin
<1>4. ASSUME NEW y \in T PROVE x <= y
  <2>1. x \in Nat /\ y \in Nat
    OBVIOUS
  <2>2. ~(y < x)
    BY <1>2, <1>3, <2>1
  <2> QED
    BY <2>1, <2>2
<1> QED
  BY <1>4

\* Induction over Nat, with the induction hypothesis as a set.
LEMMA SetInduction ==
  ASSUME NEW S, 0 \in S, \A n \in Nat : n \in S => n + 1 \in S
  PROVE Nat \subseteq S
<1> SUFFICES ASSUME Nat \ S # {} PROVE FALSE
  OBVIOUS
<1>1. PICK m \in Nat \ S : \A y \in Nat \ S : m <= y
  BY NatMinimum
<1>2. m # 0
  OBVIOUS
<1>3. m - 1 \in Nat /\ ~(m <= m - 1)
  BY <1>2
<1>4. m - 1 \in S
  BY <1>1, <1>3
<1>5. (m - 1) + 1 \in S
  BY <1>3, <1>4
<1> QED
  BY <1>5

-----------------------------------------------------------------------------
(* Sums.                                                                   *)

\* The element the fold takes from a set, and the equation it recurses on,
\* for a family D of sets.
First(s) == CHOOSE x \in s : TRUE
IsIter(f, D, g) ==
  g = [s \in D |-> IF s = {} THEN 0 ELSE f[First(s)] + g[s \ {First(s)}]]

\* SumFunctionOnSet, unfolded: it picks some function that solves the equation.
LEMMA SumIsChoice ==
  ASSUME NEW S, NEW f
  PROVE SumFunctionOnSet(f, S) = (CHOOSE g : IsIter(f, SUBSET S, g))[S]
BY DEF SumFunctionOnSet, FoldFunctionOnSet, MapThenFoldSet, IsIter, First

\* The subsets of at most k elements.
Small(S, k) == {s \in SUBSET S : Cardinality(s) <= k}

\* The fold's step takes one element away from a finite set.
LEMMA FirstRemoved ==
  ASSUME NEW S, IsFiniteSet(S), NEW s \in SUBSET S, s # {}
  PROVE /\ First(s) \in s
        /\ s \ {First(s)} \in SUBSET S
        /\ Cardinality(s) \in Nat
        /\ Cardinality(s \ {First(s)}) = Cardinality(s) - 1
<1>1. First(s) \in s
  BY DEF First
<1>2. IsFiniteSet(s)
  BY FS_Subset
<1>3. Cardinality(s) \in Nat
  BY <1>2, FS_CardinalityType
<1>4. Cardinality(s \ {First(s)}) = Cardinality(s) - 1
  BY <1>1, <1>2, FS_RemoveElement
<1> QED
  BY <1>1, <1>3, <1>4

\* Induction over the subsets of a finite set, along the fold's steps.
LEMMA SubsetInduction ==
  ASSUME NEW S, IsFiniteSet(S), NEW G, {} \in G,
         \A s \in SUBSET S : s # {} /\ s \ {First(s)} \in G => s \in G
  PROVE SUBSET S \subseteq G
<1> DEFINE N == {k \in Nat : \A s \in SUBSET S : Cardinality(s) = k => s \in G}
<1>1. 0 \in N
  <2>1. ASSUME NEW s \in SUBSET S, Cardinality(s) = 0 PROVE s \in G
    <3>1. s = {}
      BY <2>1, FS_Subset, FS_EmptySet
    <3> QED
      BY <3>1
  <2> QED
    BY <2>1
<1>2. ASSUME NEW n \in Nat, n \in N PROVE n + 1 \in N
  <2>1. ASSUME NEW s \in SUBSET S, Cardinality(s) = n + 1 PROVE s \in G
    <3>1. s # {}
      BY <2>1, FS_Subset, FS_EmptySet
    <3>2. /\ s \ {First(s)} \in SUBSET S
          /\ Cardinality(s \ {First(s)}) = n
      BY <2>1, <3>1, FirstRemoved
    <3>3. s \ {First(s)} \in G
      BY <1>2, <3>2
    <3> QED
      BY <3>1, <3>3
  <2> QED
    BY <2>1
<1>3. Nat \subseteq N
  <2> HIDE DEF N
  <2> QED
    BY <1>1, <1>2, SetInduction
<1>4. ASSUME NEW s \in SUBSET S PROVE s \in G
  <2>1. Cardinality(s) \in Nat
    BY FS_Subset, FS_CardinalityType
  <2> QED
    BY <1>3, <2>1
<1> QED
  BY <1>4

\* The fold's equation has a solution for every f that is an integer on S.
LEMMA IterExists ==
  ASSUME NEW S, IsFiniteSet(S), NEW f, \A a \in S : f[a] \in Int
  PROVE \E g \in [SUBSET S -> Int] : IsIter(f, SUBSET S, g)
<1> DEFINE Q(k) == \E g \in [Small(S, k) -> Int] : IsIter(f, Small(S, k), g)
<1> DEFINE N == {k \in Nat : Q(k)}
<1>0. \A s \in SUBSET S : Cardinality(s) \in Nat /\ IsFiniteSet(s)
  BY FS_Subset, FS_CardinalityType
<1>1. 0 \in N
  <2>1. Small(S, 0) = {{}}
    <3>1. \A s \in SUBSET S : Cardinality(s) <= 0 <=> s = {}
      BY <1>0, FS_EmptySet
    <3> QED
      BY <3>1 DEF Small
  <2> DEFINE g == [s \in Small(S, 0) |-> 0]
  <2>2. g \in [Small(S, 0) -> Int]
    OBVIOUS
  <2>3. IsIter(f, Small(S, 0), g)
    BY <2>1 DEF IsIter
  <2> QED
    BY <2>2, <2>3
<1>2. ASSUME NEW k \in Nat, k \in N PROVE k + 1 \in N
  <2>0. Q(k)
    BY <1>2
  <2> HIDE DEF N
  <2>1. PICK g \in [Small(S, k) -> Int] : IsIter(f, Small(S, k), g)
    BY <2>0
  <2> DEFINE h == [s \in Small(S, k + 1) |->
                     IF s = {} THEN 0 ELSE f[First(s)] + g[s \ {First(s)}]]
  <2>2. Small(S, k) \subseteq Small(S, k + 1)
    BY <1>0 DEF Small
  <2>3. ASSUME NEW s \in Small(S, k + 1), s # {}
        PROVE  s \ {First(s)} \in Small(S, k) /\ First(s) \in S
    BY <2>3, FirstRemoved DEF Small
  <2>4. h \in [Small(S, k + 1) -> Int]
    <3>1. ASSUME NEW s \in Small(S, k + 1) PROVE h[s] \in Int
      BY <2>3
    <3> QED
      BY <3>1
  <2>5. \A s \in Small(S, k) : h[s] = g[s]
    BY <2>1, <2>2 DEF IsIter
  <2>6. h = [s \in Small(S, k + 1) |->
                IF s = {} THEN 0 ELSE f[First(s)] + h[s \ {First(s)}]]
    BY <2>3, <2>5
  <2>7. IsIter(f, Small(S, k + 1), h)
    BY <2>6 DEF IsIter
  <2>8. Q(k + 1)
    <3> HIDE DEF h
    <3> QED
      BY <2>4, <2>7
  <2> QED
    BY <2>8 DEF N
<1>3. Nat \subseteq N
  <2> HIDE DEF N
  <2> QED
    BY <1>1, <1>2, SetInduction
<1>4. Small(S, Cardinality(S)) = SUBSET S
  <2>1. \A s \in SUBSET S : Cardinality(s) <= Cardinality(S)
    BY FS_Subset
  <2> QED
    BY <2>1 DEF Small
<1>5. Q(Cardinality(S))
  BY <1>3, FS_CardinalityType
<1> QED
  BY <1>4, <1>5

\* The sums of f over all subsets of S.
SumOver(f, S) == CHOOSE g : IsIter(f, SUBSET S, g)

\* The chosen solution satisfies the equation and is integer-valued.
LEMMA IterUnfold ==
  ASSUME NEW S, IsFiniteSet(S), NEW f, \A a \in S : f[a] \in Int
  PROVE /\ SumOver(f, S) \in [SUBSET S -> Int]
        /\ SumOver(f, S)[{}] = 0
        /\ \A s \in SUBSET S : s # {} =>
             SumOver(f, S)[s] = f[First(s)] + SumOver(f, S)[s \ {First(s)}]
<1> DEFINE g == SumOver(f, S)
<1>1. PICK h \in [SUBSET S -> Int] : IsIter(f, SUBSET S, h)
  BY IterExists
<1>2. IsIter(f, SUBSET S, g)
  BY <1>1 DEF SumOver
<1>3. g = [s \in SUBSET S |-> IF s = {} THEN 0 ELSE f[First(s)] + g[s \ {First(s)}]]
  BY <1>2 DEF IsIter
<1>4. h = [s \in SUBSET S |-> IF s = {} THEN 0 ELSE f[First(s)] + h[s \ {First(s)}]]
  BY <1>1 DEF IsIter
<1> HIDE DEF g
<1>5. {} \in SUBSET S /\ g[{}] = 0
  BY <1>3
<1>6. \A s \in SUBSET S : s # {} => g[s] = f[First(s)] + g[s \ {First(s)}]
  BY <1>3
<1>7. \A s \in SUBSET S : g[s] = h[s]
  <2> DEFINE G == {s \in SUBSET S : g[s] = h[s]}
  <2>1. {} \in G
    BY <1>4, <1>5
  <2>2. \A s \in SUBSET S : s # {} /\ s \ {First(s)} \in G => s \in G
    BY <1>4, <1>6
  <2>3. SUBSET S \subseteq G
    <3> HIDE DEF G
    <3> QED
      BY <2>1, <2>2, SubsetInduction
  <2> QED
    BY <2>3
<1>8. g \in [SUBSET S -> Int]
  BY <1>3, <1>7
<1> QED
  BY <1>5, <1>6, <1>8 DEF g

\* What is summed is the values on the set: the sum over a subset is the
\* fold's value there, and two functions that agree have the same sums.
LEMMA SumSubset ==
  ASSUME NEW S, IsFiniteSet(S), NEW f, \A a \in S : f[a] \in Int, NEW T \in SUBSET S,
         NEW h, \A a \in T : h[a] = f[a]
  PROVE  SumFunctionOnSet(h, T) = SumOver(f, S)[T]
<1> DEFINE gS == SumOver(f, S)
           gT == SumOver(h, T)
<1>0. IsFiniteSet(T) /\ \A a \in T : h[a] \in Int
  BY FS_Subset
<1>1. /\ gS[{}] = 0
      /\ \A s \in SUBSET S : s # {} => gS[s] = f[First(s)] + gS[s \ {First(s)}]
  BY IterUnfold
<1>2. /\ gT[{}] = 0
      /\ \A s \in SUBSET T : s # {} => gT[s] = h[First(s)] + gT[s \ {First(s)}]
  BY <1>0, IterUnfold
<1> HIDE DEF gS, gT
<1> DEFINE G == {s \in SUBSET T : gS[s] = gT[s]}
<1>3. {} \in G
  BY <1>1, <1>2
<1>4. ASSUME NEW s \in SUBSET T, s # {}, s \ {First(s)} \in G
      PROVE  s \in G
  <2>1. First(s) \in s
    BY <1>4 DEF First
  <2> QED
    BY <1>1, <1>2, <1>4, <2>1
<1>5. SUBSET T \subseteq G
  <2> HIDE DEF G
  <2> QED
    BY <1>0, <1>3, <1>4, SubsetInduction
<1>6. gS[T] = gT[T]
  BY <1>5
<1> QED
  BY <1>6, SumIsChoice DEF gS, gT, SumOver

\* The sum of integers is an integer.
LEMMA SumInteger ==
  ASSUME NEW S, IsFiniteSet(S), NEW f, \A a \in S : f[a] \in Int
  PROVE  SumFunctionOnSet(f, S) \in Int
<1>1. SumOver(f, S) \in [SUBSET S -> Int]
  BY IterUnfold
<1> QED
  BY <1>1, SumSubset

\* Two functions that agree on a set have the same sum over it.
LEMMA SumSame ==
  ASSUME NEW S, IsFiniteSet(S), NEW f, \A a \in S : f[a] \in Int,
         NEW h, \A a \in S : h[a] = f[a]
  PROVE  SumFunctionOnSet(h, S) = SumFunctionOnSet(f, S)
BY SumSubset

\* Whichever member is taken away first, the sum is its value and the rest's.
LEMMA SumRemove ==
  ASSUME NEW S, IsFiniteSet(S), NEW f, \A a \in S : f[a] \in Int, NEW a \in S
  PROVE  SumFunctionOnSet(f, S) = f[a] + SumFunctionOnSet(f, S \ {a})
<1> DEFINE g == SumOver(f, S)
<1>1. /\ g \in [SUBSET S -> Int]
      /\ g[{}] = 0
      /\ \A s \in SUBSET S : s # {} => g[s] = f[First(s)] + g[s \ {First(s)}]
  BY IterUnfold
<1>2. \A s \in SUBSET S : SumFunctionOnSet(f, s) = g[s]
  BY SumSubset
<1> HIDE DEF g
<1> DEFINE P(s) == \A b \in s : g[s] = f[b] + g[s \ {b}]
           N == {k \in Nat : \A s \in SUBSET S : Cardinality(s) = k => P(s)}
<1>3. \A s \in SUBSET S : Cardinality(s) \in Nat /\ IsFiniteSet(s)
  BY FS_Subset, FS_CardinalityType
<1>4. 0 \in N
  <2>1. ASSUME NEW s \in SUBSET S, Cardinality(s) = 0 PROVE s = {}
    BY <1>3, <2>1, FS_EmptySet
  <2> QED
    BY <2>1
<1>5. ASSUME NEW n \in Nat, n \in N PROVE n + 1 \in N
  <2>1. ASSUME NEW s \in SUBSET S, Cardinality(s) = n + 1, NEW b \in s
        PROVE  g[s] = f[b] + g[s \ {b}]
    <3> DEFINE x == First(s)
    <3>1. x \in s
      BY <2>1 DEF First
    <3>2. g[s] = f[x] + g[s \ {x}]
      BY <1>1, <2>1
    <3> HIDE DEF x
    <3>3. CASE b = x
      BY <3>2, <3>3
    <3>4. CASE b # x
      <4> DEFINE r == s \ {b, x}
      <4>1. s \ {x} \in SUBSET S /\ s \ {b} \in SUBSET S /\ r \in SUBSET S
        OBVIOUS
      <4>2. Cardinality(s \ {x}) = n /\ Cardinality(s \ {b}) = n
        <5>1. \A y \in s : Cardinality(s \ {y}) = Cardinality(s) - 1
          BY <1>3, FS_RemoveElement
        <5> QED
          BY <2>1, <3>1, <5>1
      <4>3. P(s \ {x}) /\ P(s \ {b})
        BY <1>5, <4>1, <4>2
      <4>4. (s \ {x}) \ {b} = r /\ (s \ {b}) \ {x} = r
        OBVIOUS
      <4>5. g[s \ {x}] = f[b] + g[r]
        BY <2>1, <3>4, <4>3, <4>4
      <4>6. g[s \ {b}] = f[x] + g[r]
        BY <3>1, <3>4, <4>3, <4>4
      <4> HIDE DEF r
      <4>7. f[b] \in Int /\ f[x] \in Int /\ g[r] \in Int
        BY <1>1, <2>1, <3>1, <4>1
      <4> QED
        BY <3>2, <4>5, <4>6, <4>7
    <3> QED
      BY <3>3, <3>4
  <2> QED
    BY <2>1
<1>6. Nat \subseteq N
  <2> HIDE DEF N
  <2> QED
    BY <1>4, <1>5, SetInduction
<1>7. P(S)
  BY <1>3, <1>6
<1> HIDE DEF P
<1>8. g[S] = f[a] + g[S \ {a}]
  BY <1>7 DEF P
<1> QED
  BY <1>2, <1>8

\* Nothing adds up to nothing.
LEMMA SumEmpty ==
  ASSUME NEW f
  PROVE  SumFunctionOnSet(f, {}) = 0
<1>1. IsFiniteSet({}) /\ \A a \in {} : f[a] \in Int
  BY FS_EmptySet
<1>2. SumOver(f, {})[{}] = 0
  BY <1>1, IterUnfold
<1> QED
  BY <1>1, <1>2, SumSubset

\* The sum of natural numbers is a natural number no member exceeds.
LEMMA SumBounds ==
  ASSUME NEW S, IsFiniteSet(S), NEW f, \A a \in S : f[a] \in Nat
  PROVE /\ SumFunctionOnSet(f, S) \in Nat
        /\ \A a \in S : f[a] <= SumFunctionOnSet(f, S)
<1> DEFINE g == SumOver(f, S)
<1>0. \A a \in S : f[a] \in Int
  OBVIOUS
<1>1. /\ g \in [SUBSET S -> Int]
      /\ g[{}] = 0
      /\ \A s \in SUBSET S : s # {} => g[s] = f[First(s)] + g[s \ {First(s)}]
  BY <1>0, IterUnfold
<1> HIDE DEF g
<1> DEFINE G == {s \in SUBSET S : g[s] \in Nat /\ \A a \in s : f[a] <= g[s]}
<1>2. {} \in G
  BY <1>1
<1>3. ASSUME NEW s \in SUBSET S, s # {}, s \ {First(s)} \in G
      PROVE  s \in G
  <2> DEFINE x == First(s)
  <2>0. x \in s
    BY <1>3, FirstRemoved
  <2> HIDE DEF x
  <2>1. x \in s /\ f[x] \in Nat
    BY <2>0
  <2>2. g[s] = f[x] + g[s \ {x}]
    BY <1>1, <1>3 DEF x
  <2>3. g[s \ {x}] \in Nat /\ \A a \in s \ {x} : f[a] <= g[s \ {x}]
    BY <1>3 DEF x
  <2>4. g[s] \in Nat
    BY <2>1, <2>2, <2>3
  <2>5. ASSUME NEW a \in s PROVE f[a] <= g[s]
    <3>1. CASE a = x
      BY <2>1, <2>2, <2>3, <3>1
    <3>2. CASE a # x
      <4>1. f[a] \in Nat /\ f[a] <= g[s \ {x}]
        BY <2>3, <3>2
      <4> QED
        BY <2>1, <2>2, <2>3, <4>1
    <3> QED
      BY <3>1, <3>2
  <2> QED
    BY <2>4, <2>5
<1>4. SUBSET S \subseteq G
  <2> HIDE DEF G
  <2> QED
    BY <1>2, <1>3, SubsetInduction
<1> QED
  BY <1>4, SumIsChoice DEF g, SumOver

\* Zeros add up to zero.
LEMMA SumZero ==
  ASSUME NEW S, IsFiniteSet(S)
  PROVE SumFunctionOnSet([a \in S |-> 0], S) = 0
<1> DEFINE f == [a \in S |-> 0]
<1> DEFINE g == SumOver(f, S)
<1>0. f \in [S -> Int] /\ \A a \in S : f[a] = 0
  OBVIOUS
<1> HIDE DEF f
<1>1. /\ g \in [SUBSET S -> Int]
      /\ g[{}] = 0
      /\ \A s \in SUBSET S : s # {} => g[s] = f[First(s)] + g[s \ {First(s)}]
  BY <1>0, IterUnfold
<1> HIDE DEF g
<1> DEFINE G == {s \in SUBSET S : g[s] = 0}
<1>2. {} \in G
  BY <1>1
<1>3. ASSUME NEW s \in SUBSET S, s # {}, s \ {First(s)} \in G
      PROVE  s \in G
  BY <1>0, <1>1, <1>3, FirstRemoved
<1>4. SUBSET S \subseteq G
  <2> HIDE DEF G
  <2> QED
    BY <1>2, <1>3, SubsetInduction
<1>5. SumFunctionOnSet(f, S) = 0
  BY <1>4, SumIsChoice DEF g, SumOver
<1> QED
  BY <1>5 DEF f

\* Changing one member changes the sum by the same amount.
LEMMA SumChange ==
  ASSUME NEW S, IsFiniteSet(S), NEW f, NEW h, NEW a \in S,
         \A b \in S : f[b] \in Int, h[a] \in Int,
         \A b \in S \ {a} : h[b] = f[b]
  PROVE  SumFunctionOnSet(h, S) = SumFunctionOnSet(f, S) + h[a] - f[a]
<1> DEFINE rest == SumFunctionOnSet(f, S \ {a})
<1>0. IsFiniteSet(S \ {a})
  BY FS_Subset
<1>1. SumFunctionOnSet(f, S) = f[a] + rest
  BY SumRemove
<1>2. \A b \in S : h[b] \in Int
  OBVIOUS
<1>3. SumFunctionOnSet(h, S) = h[a] + SumFunctionOnSet(h, S \ {a})
  BY <1>2, SumRemove
<1>4. SumFunctionOnSet(h, S \ {a}) = rest
  BY <1>0, SumSame
<1>5. rest \in Int
  BY <1>0, SumInteger
<1> QED
  BY <1>1, <1>3, <1>4, <1>5

\* The same when that element may be outside the set.
LEMMA SumShift ==
  ASSUME NEW S, IsFiniteSet(S), NEW f, NEW h, NEW a, NEW n \in Int,
         \A b \in S : f[b] \in Int,
         h[a] = f[a] + n,
         \A b \in S \ {a} : h[b] = f[b]
  PROVE  /\ SumFunctionOnSet(f, S) \in Int
         /\ SumFunctionOnSet(h, S) = SumFunctionOnSet(f, S) + IF a \in S THEN n ELSE 0
<1>1. SumFunctionOnSet(f, S) \in Int
  BY SumInteger
<1>2. CASE a \in S
  <2>1. f[a] \in Int /\ h[a] \in Int
    BY <1>2
  <2>2. SumFunctionOnSet(h, S) = SumFunctionOnSet(f, S) + h[a] - f[a]
    BY <1>2, <2>1, SumChange
  <2> QED
    BY <1>1, <1>2, <2>1, <2>2
<1>3. CASE a \notin S
  <2>1. SumFunctionOnSet(h, S) = SumFunctionOnSet(f, S)
    BY <1>3, SumSame
  <2> QED
    BY <1>1, <1>3, <2>1
<1> QED
  BY <1>1, <1>2, <1>3

\* The same for a function that is updated.
LEMMA SumUpdate ==
  ASSUME NEW S, IsFiniteSet(S), NEW f \in [S -> Int], NEW a \in S, NEW v \in Int
  PROVE  SumFunctionOnSet([f EXCEPT ![a] = v], S) = SumFunctionOnSet(f, S) + v - f[a]
<1> DEFINE h == [f EXCEPT ![a] = v]
<1>1. /\ h[a] = v /\ h[a] \in Int
      /\ \A b \in S : f[b] \in Int
      /\ \A b \in S \ {a} : h[b] = f[b]
  OBVIOUS
<1> HIDE DEF h
<1>2. SumFunctionOnSet(h, S) = SumFunctionOnSet(f, S) + h[a] - f[a]
  BY <1>1, SumChange
<1> QED
  BY <1>1, <1>2 DEF h

\* A sum of naturals over part of a set is no more than over all of it.
LEMMA SumPart ==
  ASSUME NEW S, IsFiniteSet(S), NEW f, \A a \in S : f[a] \in Nat, NEW T \in SUBSET S
  PROVE  SumFunctionOnSet(f, T) <= SumFunctionOnSet(f, S)
<1> DEFINE G == {s \in SUBSET (S \ T) :
                   SumFunctionOnSet(f, T) <= SumFunctionOnSet(f, T \cup s)}
<1>0. IsFiniteSet(S \ T) /\ \A s \in SUBSET S : IsFiniteSet(s)
  BY FS_Subset
<1>1. \A s \in SUBSET S : SumFunctionOnSet(f, s) \in Int
  BY <1>0, SumInteger
<1>2. {} \in G
  BY <1>1
<1>3. ASSUME NEW s \in SUBSET (S \ T), s # {}, s \ {First(s)} \in G
      PROVE  s \in G
  <2> DEFINE x == First(s)
             r == T \cup (s \ {x})
  <2>1. x \in s
    BY <1>3 DEF First
  <2>2. SumFunctionOnSet(f, T) <= SumFunctionOnSet(f, r)
    BY <1>3
  <2> HIDE DEF x
  <2>3. /\ T \cup s \in SUBSET S /\ r \in SUBSET S
        /\ (T \cup s) \ {x} = r /\ x \in T \cup s /\ x \in S
    BY <2>1
  <2> HIDE DEF r
  <2>4. SumFunctionOnSet(f, T \cup s) = f[x] + SumFunctionOnSet(f, r)
    <3>1. IsFiniteSet(T \cup s) /\ \A a \in T \cup s : f[a] \in Int
      BY <1>0, <2>3
    <3> QED
      BY <2>3, <3>1, SumRemove
  <2>5. SumFunctionOnSet(f, T) <= SumFunctionOnSet(f, T \cup s)
    BY <1>1, <2>2, <2>3, <2>4
  <2> QED
    BY <2>5
<1>4. SUBSET (S \ T) \subseteq G
  <2> HIDE DEF G
  <2> QED
    BY <1>0, <1>2, <1>3, SubsetInduction
<1>5. T \cup (S \ T) = S /\ S \ T \in SUBSET (S \ T)
  OBVIOUS
<1> QED
  BY <1>4, <1>5

\* Larger summands have a larger sum.
LEMMA SumMonotonic ==
  ASSUME NEW S, IsFiniteSet(S), NEW f, NEW h,
         \A a \in S : f[a] \in Int /\ h[a] \in Int /\ f[a] <= h[a]
  PROVE  SumFunctionOnSet(f, S) <= SumFunctionOnSet(h, S)
<1> DEFINE G == {s \in SUBSET S : SumFunctionOnSet(f, s) <= SumFunctionOnSet(h, s)}
<1>0. \A s \in SUBSET S : IsFiniteSet(s)
  BY FS_Subset
<1>1. \A s \in SUBSET S : SumFunctionOnSet(f, s) \in Int /\ SumFunctionOnSet(h, s) \in Int
  BY <1>0, SumInteger
<1>2. {} \in G
  BY SumEmpty
<1>3. ASSUME NEW s \in SUBSET S, s # {}, s \ {First(s)} \in G
      PROVE  s \in G
  <2> DEFINE x == First(s)
             r == s \ {x}
  <2>1. x \in s /\ r \in SUBSET S
    BY <1>3 DEF First
  <2>2. SumFunctionOnSet(f, r) <= SumFunctionOnSet(h, r)
    BY <1>3
  <2> HIDE DEF x
  <2>3. SumFunctionOnSet(f, s) = f[x] + SumFunctionOnSet(f, r)
    BY <1>0, <2>1, SumRemove
  <2>4. SumFunctionOnSet(h, s) = h[x] + SumFunctionOnSet(h, r)
    BY <1>0, <2>1, SumRemove
  <2> HIDE DEF r
  <2>5. SumFunctionOnSet(f, s) <= SumFunctionOnSet(h, s)
    BY <1>1, <2>1, <2>2, <2>3, <2>4
  <2> QED
    BY <2>5
<1>4. SUBSET S \subseteq G
  <2> HIDE DEF G
  <2> QED
    BY <1>2, <1>3, SubsetInduction
<1> QED
  BY <1>4
-----------------------------------------------------------------------------
(* Sequences folded from the left: the fold takes the greatest position    *)
(* first and applies its operator to the fold of those below.              *)

Top(s) == CHOOSE x \in s : \A y \in s : x >= y

\* Positions have a greatest one.
LEMMA TopTaken ==
  ASSUME NEW n \in Nat, NEW s \in SUBSET (1..n), s # {}
  PROVE  /\ Top(s) \in s
         /\ \A y \in s : Top(s) >= y
<1> DEFINE T == {n - x : x \in s}
<1>0. \A x \in s : x \in Int /\ n - x \in Nat
  OBVIOUS
<1>1. T \in SUBSET Nat /\ T # {}
  <2>1. PICK x \in s : TRUE
    OBVIOUS
  <2>2. n - x \in T
    BY <2>1
  <2> QED
    BY <1>0, <2>2
<1>2. PICK m \in T : \A y \in T : m <= y
  BY <1>1, NatMinimum
<1>3. PICK x \in s : m = n - x
  BY <1>2
<1>4. ASSUME NEW y \in s PROVE x >= y
  <2>1. n - y \in T
    OBVIOUS
  <2>2. n - x <= n - y
    BY <1>2, <1>3, <2>1
  <2>3. x \in Int /\ y \in Int
    BY <1>0
  <2> QED
    BY <2>2, <2>3
<1> QED
  BY <1>4 DEF Top

\* What is left when it is taken lies below it.
LEMMA TopRemoved ==
  ASSUME NEW n \in Nat, NEW s \in SUBSET (1..(n + 1)), s # {}
  PROVE  /\ Top(s) \in 1..(n + 1)
         /\ s \ {Top(s)} \in SUBSET (1..n)
<1> DEFINE t == Top(s)
<1>0. n + 1 \in Nat
  OBVIOUS
<1>1. t \in s /\ \A y \in s : t >= y
  BY <1>0, TopTaken
<1> HIDE DEF t
<1>2. ASSUME NEW y \in s \ {t} PROVE y \in 1..n
  BY <1>1, <1>2
<1>3. t \in 1..(n + 1) /\ s \ {t} \in SUBSET (1..n)
  BY <1>1, <1>2
<1> QED
  BY <1>3 DEF t

\* From an initial segment the fold takes the last position.
LEMMA TopOfSegment ==
  ASSUME NEW n \in Nat
  PROVE  Top(1..(n + 1)) = n + 1 /\ (1..(n + 1)) \ {n + 1} = 1..n
<1>0. n + 1 \in Nat /\ n + 1 \in 1..(n + 1) /\ 1..(n + 1) # {}
  OBVIOUS
<1>1. Top(1..(n + 1)) \in 1..(n + 1) /\ \A y \in 1..(n + 1) : Top(1..(n + 1)) >= y
  BY <1>0, TopTaken
<1> QED
  BY <1>0, <1>1

\* A sequence of values stays in a set that its steps stay in.
LEMMA ChainTyped ==
  ASSUME NEW n \in Nat, NEW X, NEW r, r[0] \in X,
         \A k \in 1..n : r[k - 1] \in X => r[k] \in X
  PROVE  \A k \in 0..n : r[k] \in X
<1> DEFINE N == {k \in Nat : k <= n => r[k] \in X}
<1>1. 0 \in N
  OBVIOUS
<1>2. ASSUME NEW k \in Nat, k \in N PROVE k + 1 \in N
  <2> SUFFICES ASSUME k + 1 <= n PROVE r[k + 1] \in X
    OBVIOUS
  <2>1. k + 1 \in 1..n /\ (k + 1) - 1 = k /\ r[k] \in X
    BY <1>2
  <2> QED
    BY <2>1
<1>3. Nat \subseteq N
  <2> HIDE DEF N
  <2> QED
    BY <1>1, <1>2, SetInduction
<1> QED
  BY <1>3

Steps(n, X) == [(1..n) \X X -> X]

\* The equation, for an operator given as a function of position and value.
IsFold(h, n, start, step) ==
  h = [s \in SUBSET (1..n) |-> IF s = {} THEN start ELSE step[<<Top(s), h[s \ {Top(s)}]>>]]

\* It has a solution, of the operator's type.
LEMMA FoldExists ==
  ASSUME NEW X, NEW n \in Nat, NEW start \in X, NEW step \in Steps(n, X)
  PROVE  \E h \in [SUBSET (1..n) -> X] : IsFold(h, n, start, step)
<1> DEFINE D(k) == SUBSET (1..k)
           Q(k) == \E h \in [D(k) -> X] : IsFold(h, k, start, step)
           N == {k \in Nat : k <= n => Q(k)}
<1>1. 0 \in N
  <2> DEFINE h == [s \in D(0) |-> start]
  <2>1. \A s \in D(0) : s = {}
    OBVIOUS
  <2>2. h \in [D(0) -> X] /\ IsFold(h, 0, start, step)
    BY <2>1 DEF IsFold
  <2> QED
    BY <2>2
<1>2. ASSUME NEW k \in Nat, k \in N, k + 1 <= n PROVE Q(k + 1)
  <2>0. Q(k)
    <3>1. k <= n
      BY <1>2
    <3> HIDE DEF Q
    <3> QED
      BY <1>2, <3>1
  <2>1. PICK g \in [D(k) -> X] : IsFold(g, k, start, step)
    BY <2>0
  <2> DEFINE h == [s \in D(k + 1) |->
                     IF s = {} THEN start ELSE step[<<Top(s), g[s \ {Top(s)}]>>]]
  <2>2. ASSUME NEW s \in D(k + 1), s # {}
        PROVE  Top(s) \in 1..n /\ s \ {Top(s)} \in D(k)
    <3>1. Top(s) \in 1..(k + 1) /\ s \ {Top(s)} \in D(k)
      BY <2>2, TopRemoved
    <3> QED
      BY <1>2, <3>1
  <2>3. h \in [D(k + 1) -> X]
    <3>1. ASSUME NEW s \in D(k + 1) PROVE h[s] \in X
      BY <2>2 DEF Steps
    <3> QED
      BY <3>1
  <2>4. D(k) \subseteq D(k + 1)
    OBVIOUS
  <2>5. \A s \in D(k) : h[s] = g[s]
    BY <2>1, <2>4 DEF IsFold
  <2>6. h = [s \in D(k + 1) |->
               IF s = {} THEN start ELSE step[<<Top(s), h[s \ {Top(s)}]>>]]
    BY <2>2, <2>5
  <2>7. IsFold(h, k + 1, start, step)
    BY <2>6 DEF IsFold
  <2> QED
    <3> HIDE DEF h
    <3> QED
      BY <2>3, <2>7
<1>3. \A k \in Nat : k \in N => k + 1 \in N
  <2> HIDE DEF Q
  <2> QED
    BY <1>2
<1>4. Nat \subseteq N
  <2> HIDE DEF N
  <2> QED
    BY <1>1, <1>3, SetInduction
<1>5. Q(n)
  <2> HIDE DEF Q
  <2> QED
    BY <1>4
<1> QED
  BY <1>5

Along(h, n) == [k \in 0..n |-> h[1..k]]

\* Read along the initial segments, what solves the equation wherever the
\* values are typed is the sequence of values the fold goes through.
Goes(h, n, X, start, step) ==
  /\ h[{}] = start
  /\ \A s \in SUBSET (1..n) :
       s # {} /\ h[s \ {Top(s)}] \in X => h[s] = step[<<Top(s), h[s \ {Top(s)}]>>]

IsChain(r, n, X, start, step) ==
  /\ r \in [0..n -> X]
  /\ r[0] = start
  /\ \A k \in 1..n : r[k] = step[<<k, r[k - 1]>>]

LEMMA FoldAlong ==
  ASSUME NEW X, NEW n \in Nat, NEW start \in X, NEW step \in Steps(n, X),
         NEW h, Goes(h, n, X, start, step)
  PROVE  IsChain(Along(h, n), n, X, start, step) /\ Along(h, n)[n] = h[1..n]
<1> DEFINE r == [k \in 0..n |-> h[1..k]]
<1>1. \A s \in SUBSET (1..n) :
        s # {} /\ h[s \ {Top(s)}] \in X => h[s] = step[<<Top(s), h[s \ {Top(s)}]>>]
  BY DEF Goes
<1>2. r[0] = start
  <2>1. 1..0 = {} /\ 0 \in 0..n
    OBVIOUS
  <2> QED
    BY <2>1 DEF Goes
<1>3. ASSUME NEW k \in 1..n, r[k - 1] \in X PROVE r[k] = step[<<k, r[k - 1]>>]
  <2>1. k - 1 \in Nat /\ (k - 1) + 1 = k /\ k - 1 \in 0..n /\ k \in 0..n
    OBVIOUS
  <2>2. Top(1..k) = k /\ (1..k) \ {k} = 1..(k - 1)
    BY <2>1, TopOfSegment
  <2>3. 1..k # {} /\ 1..k \in SUBSET (1..n)
    <3>1. k \in 1..k /\ \A x \in 1..k : x \in 1..n
      OBVIOUS
    <3> QED
      BY <3>1
  <2>4. h[1..(k - 1)] \in X
    BY <1>3, <2>1
  <2>5. h[1..k] = step[<<k, h[1..(k - 1)]>>]
    BY <1>1, <2>2, <2>3, <2>4
  <2> QED
    BY <2>1, <2>5
<1>4. r[n] = h[1..n]
  OBVIOUS
<1>5. \A k \in 0..n : r[k] \in X
  <2>1. \A k \in 1..n : r[k - 1] \in X => r[k] \in X
    BY <1>3 DEF Steps
  <2> HIDE DEF r
  <2> QED
    BY <1>2, <2>1, ChainTyped
<1>6. \A k \in 1..n : r[k] = step[<<k, r[k - 1]>>]
  <2>1. \A k \in 1..n : k - 1 \in 0..n
    OBVIOUS
  <2> HIDE DEF r
  <2> QED
    BY <1>3, <1>5, <2>1
<1> QED
  BY <1>2, <1>4, <1>5, <1>6 DEF Along, IsChain

\* A recursion along Nat has a solution.
LEMMA ChainExists ==
  ASSUME NEW X, NEW n \in Nat, NEW start \in X, NEW step \in Steps(n, X)
  PROVE  \E r : IsChain(r, n, X, start, step)
<1>1. PICK h \in [SUBSET (1..n) -> X] : IsFold(h, n, start, step)
  BY FoldExists
<1>2. Goes(h, n, X, start, step)
  BY <1>1 DEF IsFold, Goes
<1> QED
  BY <1>2, FoldAlong

\* Two sequences of values that step alike are equal.
LEMMA SameChain ==
  ASSUME NEW n \in Nat, NEW r, NEW q, r[0] = q[0],
         \A k \in 1..n : r[k - 1] = q[k - 1] => r[k] = q[k]
  PROVE  \A k \in 0..n : r[k] = q[k]
<1> DEFINE N == {k \in Nat : k <= n => r[k] = q[k]}
<1>1. 0 \in N
  OBVIOUS
<1>2. ASSUME NEW k \in Nat, k \in N PROVE k + 1 \in N
  <2> SUFFICES ASSUME k + 1 <= n PROVE r[k + 1] = q[k + 1]
    OBVIOUS
  <2>1. k + 1 \in 1..n /\ (k + 1) - 1 = k /\ r[k] = q[k]
    BY <1>2
  <2> QED
    BY <2>1
<1>3. Nat \subseteq N
  <2> HIDE DEF N
  <2> QED
    BY <1>1, <1>2, SetInduction
<1> QED
  BY <1>3
============================================================================
