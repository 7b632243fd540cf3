------------------------------ MODULE SumLemmas ------------------------------
(***************************************************************************)
(* Facts about sums over finite sets: the SumFunctionOnSet of Functions,   *)
(* in which the balances, confirmed amounts and commitments of the models  *)
(* are stated.  The provers have no induction; each fact about every       *)
(* finite set is proved on a smallest counterexample (SmallestSet).        *)
(***************************************************************************)
EXTENDS Integers, FiniteSets, Functions, FiniteSetTheorems, WellFoundedInduction, TLAPS

\* A non-empty set of naturals has a least element.
LEMMA LeastNat ==
    ASSUME NEW T \in SUBSET Nat, T # {}
    PROVE  \E n \in T : \A m \in T : n <= m
<1>. DEFINE R == OpToRel(<, Nat)
<1>1. IsWellFoundedOn(R, Nat)
  BY NatLessThanWellFounded
<1>2. \A m, n \in Nat : m < n => <<m, n>> \in R
  BY DEF OpToRel
<1>. HIDE DEF R
<1>3. PICK n \in T : \A m \in T : <<m, n>> \notin R
  BY <1>1, WFMin
<1>4. ASSUME NEW m \in T PROVE n <= m
  <2>1. n \in Nat /\ m \in Nat /\ ~(m < n)
    BY <1>2, <1>3
  <2>. QED  BY <2>1
<1>. QED  BY <1>4

\* A non-empty set of finite sets has a smallest member.
LEMMA SmallestSet ==
    ASSUME NEW F, F # {}, \A s \in F : IsFiniteSet(s)
    PROVE  \E s \in F : \A r \in F : Cardinality(s) <= Cardinality(r)
<1>. DEFINE sizes == {Cardinality(s) : s \in F}
<1>1. sizes \in SUBSET Nat /\ sizes # {}
  BY FS_CardinalityType
<1>2. PICK n \in sizes : \A m \in sizes : n <= m
  BY <1>1, LeastNat
<1>. QED  BY <1>2

-----------------------------------------------------------------------------
(***************************************************************************)
(* The sum is a function on the subsets of its index set, defined by       *)
(* recursion: such functions exist, and agree where both are defined.      *)
(***************************************************************************)

Picked(s) == CHOOSE x \in s : TRUE

Summed(f, g, s) == IF s = {} THEN 0 ELSE f[Picked(s)] + g[s \ {Picked(s)}]

\* g sums f over every set in D.
Sums(f, g, D) == g = [s \in D |-> Summed(f, g, s)]

UpTo(S, n) == {s \in SUBSET S : Cardinality(s) <= n}

LEMMA PickedIn == ASSUME NEW s, s # {} PROVE Picked(s) \in s
BY DEF Picked

LEMMA SmallerWithout ==
    ASSUME NEW s, IsFiniteSet(s), NEW x \in s
    PROVE  /\ IsFiniteSet(s \ {x})
           /\ Cardinality(s) \in Nat
           /\ Cardinality(s \ {x}) \in Nat
           /\ Cardinality(s \ {x}) = Cardinality(s) - 1
BY FS_RemoveElement, FS_CardinalityType

\* The smallest set of a family is no longer in it without one of its elements.
LEMMA LeastWithout ==
    ASSUME NEW F, NEW s \in F, IsFiniteSet(s), NEW x \in s,
           \A r \in F : Cardinality(s) <= Cardinality(r)
    PROVE  s \ {x} \notin F
<1>1. Cardinality(s) \in Nat /\ Cardinality(s \ {x}) = Cardinality(s) - 1
  BY SmallerWithout
<1>2. ~(Cardinality(s) <= Cardinality(s \ {x}))
  BY <1>1
<1>. QED  BY <1>2

LEMMA SumsExtend ==
    ASSUME NEW f, NEW S, IsFiniteSet(S), NEW n \in Nat, NEW g, Sums(f, g, UpTo(S, n))
    PROVE  \E h : Sums(f, h, UpTo(S, n + 1))
<1>. DEFINE h == [s \in UpTo(S, n + 1) |-> Summed(f, g, s)]
<1>1. ASSUME NEW s \in UpTo(S, n + 1), s # {}
      PROVE  /\ s \ {Picked(s)} \in UpTo(S, n)
             /\ s \ {Picked(s)} \in UpTo(S, n + 1)
  <2>1. Picked(s) \in s /\ s \in SUBSET S /\ Cardinality(s) <= n + 1
    BY <1>1, PickedIn DEF UpTo
  <2>2. IsFiniteSet(s)
    BY <2>1, FS_Subset
  <2>. QED  BY <2>1, <2>2, SmallerWithout DEF UpTo
<1>2. ASSUME NEW r \in UpTo(S, n), r \in UpTo(S, n + 1) PROVE h[r] = g[r]
  BY <1>2 DEF Sums
<1>3. ASSUME NEW s \in UpTo(S, n + 1) PROVE Summed(f, h, s) = Summed(f, g, s)
  <2>. HIDE DEF h
  <2>. QED  BY <1>1, <1>2 DEF Summed
<1>4. h = [s \in UpTo(S, n + 1) |-> Summed(f, h, s)]
  <2>1. [s \in UpTo(S, n + 1) |-> Summed(f, h, s)] = [s \in UpTo(S, n + 1) |-> Summed(f, g, s)]
    <3>. HIDE DEF h
    <3>. QED  BY <1>3
  <2>. QED  BY <2>1
<1>. QED  BY <1>4 DEF Sums

LEMMA SumsExist ==
    ASSUME NEW f, NEW S, IsFiniteSet(S)
    PROVE  \E g : Sums(f, g, SUBSET S)
<1>. DEFINE Has(n) == \E g : Sums(f, g, UpTo(S, n))
            Lacks == {n \in Nat : ~Has(n)}
<1>1. UpTo(S, 0) = {{}}
  <2>1. \A s \in SUBSET S : IsFiniteSet(s) /\ Cardinality(s) \in Nat
    BY FS_Subset, FS_CardinalityType
  <2>2. \A s \in SUBSET S : Cardinality(s) = 0 <=> s = {}
    BY <2>1, FS_EmptySet
  <2>. QED  BY <2>1, <2>2 DEF UpTo
<1>2. Has(0)
  <2>1. Sums(f, [s \in {{}} |-> 0], UpTo(S, 0))
    BY <1>1 DEF Sums, Summed
  <2>. QED  BY <2>1
<1>3. ASSUME NEW n \in Nat, Has(n) PROVE Has(n + 1)
  BY <1>3, SumsExtend
<1>. HIDE DEF Has
<1>4. Lacks = {}
  <2>. SUFFICES ASSUME Lacks # {} PROVE FALSE
    OBVIOUS
  <2>1. PICK n \in Lacks : \A m \in Lacks : n <= m
    BY LeastNat
  <2>2. n # 0 /\ n \in Nat /\ ~Has(n)
    BY <1>2
  <2>3. n - 1 \in Nat /\ n - 1 \notin Lacks
    BY <2>1, <2>2
  <2>4. Has((n - 1) + 1)
    BY <1>3, <2>3
  <2>. QED  BY <2>2, <2>4
<1>5. Cardinality(S) \in Nat
  BY FS_CardinalityType
<1>6. UpTo(S, Cardinality(S)) = SUBSET S
  BY FS_Subset DEF UpTo
<1>7. Has(Cardinality(S))
  BY <1>4, <1>5
<1>. QED  BY <1>6, <1>7 DEF Has

LEMMA SumsAgree ==
    ASSUME NEW f, NEW S, NEW T \in SUBSET S, NEW g, NEW h,
           IsFiniteSet(S), Sums(f, g, SUBSET S), Sums(f, h, SUBSET T)
    PROVE  g[T] = h[T]
<1>. DEFINE Differ == {s \in SUBSET T : g[s] # h[s]}
<1>1. \A s \in SUBSET T : g[s] = Summed(f, g, s) /\ h[s] = Summed(f, h, s)
  <2>1. \A s \in SUBSET S : g[s] = Summed(f, g, s)
    BY DEF Sums
  <2>2. \A s \in SUBSET T : h[s] = Summed(f, h, s)
    BY DEF Sums
  <2>. QED  BY <2>1, <2>2
<1>2. Differ = {}
  <2>. SUFFICES ASSUME Differ # {} PROVE FALSE
    OBVIOUS
  <2>1. \A s \in Differ : IsFiniteSet(s)
    BY FS_Subset
  <2>2. PICK s \in Differ : \A r \in Differ : Cardinality(s) <= Cardinality(r)
    BY <2>1, SmallestSet
  <2>3. s # {}
    BY <1>1 DEF Summed
  <2>4. Picked(s) \in s
    BY <2>3, PickedIn
  <2>5. s \ {Picked(s)} \notin Differ
    BY <2>1, <2>2, <2>4, LeastWithout
  <2>6. g[s \ {Picked(s)}] = h[s \ {Picked(s)}]
    BY <2>5
  <2>. QED  BY <1>1, <2>3, <2>6 DEF Summed
<1>. QED  BY <1>2

-----------------------------------------------------------------------------
Iteration(f, S) == CHOOSE g : Sums(f, g, SUBSET S)

LEMMA SumIsIteration ==
    ASSUME NEW f, NEW S
    PROVE  SumFunctionOnSet(f, S) = Iteration(f, S)[S]
BY DEF SumFunctionOnSet, FoldFunctionOnSet, MapThenFoldSet, Iteration, Sums, Summed, Picked

LEMMA IterationSums ==
    ASSUME NEW f, NEW S, IsFiniteSet(S)
    PROVE  Sums(f, Iteration(f, S), SUBSET S)
BY SumsExist DEF Iteration

\* The equation of the sum.
LEMMA SumEmpty ==
    ASSUME NEW f
    PROVE  SumFunctionOnSet(f, {}) = 0
<1>1. Sums(f, Iteration(f, {}), SUBSET {})
  BY IterationSums, FS_EmptySet
<1>2. Iteration(f, {})[{}] = 0
  BY <1>1 DEF Sums, Summed
<1>. QED  BY <1>2, SumIsIteration

LEMMA SumPicked ==
    ASSUME NEW f, NEW S, IsFiniteSet(S), S # {}
    PROVE  SumFunctionOnSet(f, S)
             = f[Picked(S)] + SumFunctionOnSet(f, S \ {Picked(S)})
<1>. DEFINE R == S \ {Picked(S)}
            g == Iteration(f, S)
            h == Iteration(f, R)
<1>1. IsFiniteSet(R) /\ R \in SUBSET S
  BY FS_Subset
<1>2. Sums(f, g, SUBSET S) /\ Sums(f, h, SUBSET R)
  BY <1>1, IterationSums
<1>3. g[S] = f[Picked(S)] + g[R]
  BY <1>2 DEF Sums, Summed
<1>4. g[R] = h[R]
  <2>. HIDE DEF g, h, R
  <2>1. Sums(f, g, SUBSET S) /\ Sums(f, h, SUBSET R) /\ R \in SUBSET S
    BY <1>1, <1>2
  <2>. QED  BY <2>1, SumsAgree
<1>. QED  BY <1>3, <1>4, SumIsIteration

-----------------------------------------------------------------------------
(***************************************************************************)
(* What a sum is worth.                                                    *)
(***************************************************************************)

LEMMA SumInt ==
    ASSUME NEW f, NEW S, IsFiniteSet(S), \A x \in S : f[x] \in Int
    PROVE  SumFunctionOnSet(f, S) \in Int
<1>. DEFINE Bad == {s \in SUBSET S : SumFunctionOnSet(f, s) \notin Int}
<1>1. Bad = {}
  <2>. SUFFICES ASSUME Bad # {} PROVE FALSE
    OBVIOUS
  <2>1. \A s \in Bad : IsFiniteSet(s)
    BY FS_Subset
  <2>2. PICK s \in Bad : \A r \in Bad : Cardinality(s) <= Cardinality(r)
    BY <2>1, SmallestSet
  <2>3. s # {}
    BY SumEmpty
  <2>4. Picked(s) \in s
    BY <2>3, PickedIn
  <2>5. s \ {Picked(s)} \notin Bad
    BY <2>1, <2>2, <2>4, LeastWithout
  <2>6. SumFunctionOnSet(f, s) = f[Picked(s)] + SumFunctionOnSet(f, s \ {Picked(s)})
    BY <2>1, <2>3, SumPicked
  <2>7. f[Picked(s)] \in Int /\ SumFunctionOnSet(f, s \ {Picked(s)}) \in Int
    BY <2>4, <2>5
  <2>. QED  BY <2>6, <2>7
<1>. QED  BY <1>1

\* Any element can be taken out first.
LEMMA SumRemove ==
    ASSUME NEW f, NEW S, NEW y \in S, IsFiniteSet(S), \A x \in S : f[x] \in Int
    PROVE  SumFunctionOnSet(f, S) = f[y] + SumFunctionOnSet(f, S \ {y})
<1>. DEFINE Splits(s) == \A x \in s : SumFunctionOnSet(f, s) = f[x] + SumFunctionOnSet(f, s \ {x})
            Bad == {s \in SUBSET S : ~Splits(s)}
<1>1. Bad = {}
  <2>. SUFFICES ASSUME Bad # {} PROVE FALSE
    OBVIOUS
  <2>. HIDE DEF Splits
  <2>1. \A s \in Bad : IsFiniteSet(s)
    BY FS_Subset
  <2>2. PICK s \in Bad : \A r \in Bad : Cardinality(s) <= Cardinality(r)
    BY <2>1, SmallestSet
  <2>3. PICK x \in s : SumFunctionOnSet(f, s) # f[x] + SumFunctionOnSet(f, s \ {x})
    BY <2>2 DEF Splits
  <2>. DEFINE z == Picked(s)
  <2>4. z \in s
    BY <2>3, PickedIn
  <2>5. SumFunctionOnSet(f, s) = f[z] + SumFunctionOnSet(f, s \ {z})
    BY <2>1, <2>4, SumPicked
  <2>. HIDE DEF z
  <2>6. z # x
    BY <2>3, <2>5
  <2>7. Splits(s \ {z}) /\ Splits(s \ {x})
    BY <2>1, <2>2, <2>3, <2>4, SmallerWithout
  <2>8. SumFunctionOnSet(f, s \ {z}) = f[x] + SumFunctionOnSet(f, (s \ {z}) \ {x})
    BY <2>3, <2>6, <2>7 DEF Splits
  <2>9. SumFunctionOnSet(f, s \ {x}) = f[z] + SumFunctionOnSet(f, (s \ {x}) \ {z})
    BY <2>4, <2>6, <2>7 DEF Splits
  <2>10. (s \ {z}) \ {x} = (s \ {x}) \ {z}
    OBVIOUS
  <2>11. IsFiniteSet((s \ {x}) \ {z}) /\ \A u \in (s \ {x}) \ {z} : f[u] \in Int
    BY FS_Subset
  <2>12. SumFunctionOnSet(f, (s \ {x}) \ {z}) \in Int
    BY <2>11, SumInt
  <2>13. f[x] \in Int /\ f[z] \in Int
    BY <2>3, <2>4
  <2>14. f[z] + SumFunctionOnSet(f, s \ {z}) = f[x] + SumFunctionOnSet(f, s \ {x})
    <3>. DEFINE rest == SumFunctionOnSet(f, (s \ {x}) \ {z})
    <3>1. SumFunctionOnSet(f, s \ {z}) = f[x] + rest
      BY <2>8, <2>10, Zenon
    <3>2. rest \in Int /\ SumFunctionOnSet(f, s \ {x}) = f[z] + rest
      BY <2>9, <2>12
    <3>. HIDE DEF rest
    <3>. QED  BY <2>13, <3>1, <3>2
  <2>. QED  BY <2>3, <2>5, <2>14, Zenon
<1>. HIDE DEF Splits
<1>2. Splits(S)
  BY <1>1
<1>. QED  BY <1>2 DEF Splits

LEMMA SumAdd ==
    ASSUME NEW f, NEW S, NEW y, y \notin S, IsFiniteSet(S), f[y] \in Int,
           \A x \in S : f[x] \in Int
    PROVE  SumFunctionOnSet(f, S \cup {y}) = f[y] + SumFunctionOnSet(f, S)
<1>1. IsFiniteSet(S \cup {y})
  BY FS_AddElement
<1>2. SumFunctionOnSet(f, S \cup {y}) = f[y] + SumFunctionOnSet(f, (S \cup {y}) \ {y})
  BY <1>1, SumRemove
<1>3. (S \cup {y}) \ {y} = S
  OBVIOUS
<1>. QED  BY <1>2, <1>3

\* The sum depends on the values over its set alone.
LEMMA SumEqual ==
    ASSUME NEW f, NEW g, NEW S, IsFiniteSet(S), \A x \in S : f[x] = g[x]
    PROVE  SumFunctionOnSet(f, S) = SumFunctionOnSet(g, S)
<1>. DEFINE Bad == {s \in SUBSET S : SumFunctionOnSet(f, s) # SumFunctionOnSet(g, s)}
<1>1. Bad = {}
  <2>. SUFFICES ASSUME Bad # {} PROVE FALSE
    OBVIOUS
  <2>1. \A s \in Bad : IsFiniteSet(s)
    BY FS_Subset
  <2>2. PICK s \in Bad : \A r \in Bad : Cardinality(s) <= Cardinality(r)
    BY <2>1, SmallestSet
  <2>3. s # {}
    BY SumEmpty
  <2>. DEFINE z == Picked(s)
  <2>4. z \in s
    BY <2>3, PickedIn
  <2>5. /\ SumFunctionOnSet(f, s) = f[z] + SumFunctionOnSet(f, s \ {z})
        /\ SumFunctionOnSet(g, s) = g[z] + SumFunctionOnSet(g, s \ {z})
    BY <2>1, <2>3, SumPicked
  <2>. HIDE DEF z
  <2>6. s \ {z} \notin Bad
    BY <2>1, <2>2, <2>4, LeastWithout
  <2>7. f[z] = g[z] /\ SumFunctionOnSet(f, s \ {z}) = SumFunctionOnSet(g, s \ {z})
    BY <2>4, <2>6
  <2>. QED  BY <2>2, <2>5, <2>7
<1>. QED  BY <1>1

LEMMA SumZero ==
    ASSUME NEW f, NEW S, IsFiniteSet(S), \A x \in S : f[x] = 0
    PROVE  SumFunctionOnSet(f, S) = 0
<1>. DEFINE Bad == {s \in SUBSET S : SumFunctionOnSet(f, s) # 0}
<1>1. Bad = {}
  <2>. SUFFICES ASSUME Bad # {} PROVE FALSE
    OBVIOUS
  <2>1. \A s \in Bad : IsFiniteSet(s)
    BY FS_Subset
  <2>2. PICK s \in Bad : \A r \in Bad : Cardinality(s) <= Cardinality(r)
    BY <2>1, SmallestSet
  <2>3. s # {}
    BY SumEmpty
  <2>. DEFINE z == Picked(s)
  <2>4. z \in s
    BY <2>3, PickedIn
  <2>5. SumFunctionOnSet(f, s) = f[z] + SumFunctionOnSet(f, s \ {z})
    BY <2>1, <2>3, SumPicked
  <2>. HIDE DEF z
  <2>6. SumFunctionOnSet(f, s \ {z}) = 0 /\ f[z] = 0
    BY <2>1, <2>2, <2>4, SmallerWithout
  <2>. QED  BY <2>2, <2>5, <2>6
<1>. QED  BY <1>1

\* A sum of zeros and ones counts some of the elements.
LEMMA SumAtMost ==
    ASSUME NEW f, NEW S, IsFiniteSet(S), \A x \in S : f[x] \in 0..1
    PROVE  SumFunctionOnSet(f, S) \in 0..Cardinality(S)
<1>. DEFINE Bad == {s \in SUBSET S : SumFunctionOnSet(f, s) \notin 0..Cardinality(s)}
<1>1. Bad = {}
  <2>. SUFFICES ASSUME Bad # {} PROVE FALSE
    OBVIOUS
  <2>1. \A s \in Bad : IsFiniteSet(s)
    BY FS_Subset
  <2>2. PICK s \in Bad : \A r \in Bad : Cardinality(s) <= Cardinality(r)
    BY <2>1, SmallestSet
  <2>3. s # {}
    BY SumEmpty, FS_EmptySet
  <2>. DEFINE z == Picked(s)
  <2>4. z \in s
    BY <2>3, PickedIn
  <2>5. SumFunctionOnSet(f, s) = f[z] + SumFunctionOnSet(f, s \ {z})
    BY <2>1, <2>3, SumPicked
  <2>. HIDE DEF z
  <2>6. SumFunctionOnSet(f, s \ {z}) \in 0..Cardinality(s \ {z}) /\ f[z] \in 0..1
    BY <2>1, <2>2, <2>4, LeastWithout
  <2>7. Cardinality(s) \in Nat /\ Cardinality(s \ {z}) = Cardinality(s) - 1
    BY <2>1, <2>4, SmallerWithout
  <2>8. SumFunctionOnSet(f, s) \in 0..Cardinality(s)
    BY <2>5, <2>6, <2>7
  <2>. QED  BY <2>2, <2>8
<1>. QED  BY <1>1

\* A change of one value is a change of the sum.
LEMMA SumUpdate ==
    ASSUME NEW f, NEW g, NEW S, NEW y \in S, IsFiniteSet(S), \A x \in S : f[x] \in Int,
           g[y] \in Int, \A x \in S \ {y} : g[x] = f[x]
    PROVE  SumFunctionOnSet(g, S) = SumFunctionOnSet(f, S) + (g[y] - f[y])
<1>1. SumFunctionOnSet(f, S) = f[y] + SumFunctionOnSet(f, S \ {y})
  BY SumRemove
<1>2. \A x \in S : g[x] \in Int
  OBVIOUS
<1>3. SumFunctionOnSet(g, S) = g[y] + SumFunctionOnSet(g, S \ {y})
  BY <1>2, SumRemove
<1>4. IsFiniteSet(S \ {y}) /\ \A x \in S \ {y} : g[x] = f[x] /\ f[x] \in Int
  BY FS_Subset
<1>5. SumFunctionOnSet(g, S \ {y}) = SumFunctionOnSet(f, S \ {y})
  BY <1>4, SumEqual
<1>6. SumFunctionOnSet(f, S \ {y}) \in Int /\ f[y] \in Int
  BY <1>4, SumInt
<1>. QED  BY <1>1, <1>3, <1>5, <1>6

\* A sum of naturals over more elements is no less.
LEMMA SumMonotone ==
    ASSUME NEW f, NEW T, NEW S \in SUBSET T, IsFiniteSet(T), \A x \in T : f[x] \in Nat
    PROVE  /\ SumFunctionOnSet(f, S) \in Nat
           /\ SumFunctionOnSet(f, S) <= SumFunctionOnSet(f, T)
<1>. DEFINE Grows(s) == /\ SumFunctionOnSet(f, s) \in Nat
                        /\ \A r \in SUBSET s : SumFunctionOnSet(f, r) <= SumFunctionOnSet(f, s)
            Bad == {s \in SUBSET T : ~Grows(s)}
<1>1. Bad = {}
  <2>. SUFFICES ASSUME Bad # {} PROVE FALSE
    OBVIOUS
  <2>. HIDE DEF Grows
  <2>1. \A s \in Bad : IsFiniteSet(s)
    BY FS_Subset
  <2>2. PICK s \in Bad : \A r \in Bad : Cardinality(s) <= Cardinality(r)
    BY <2>1, SmallestSet
  <2>3. ASSUME NEW x \in s
        PROVE  /\ Grows(s \ {x})
               /\ f[x] \in Nat
               /\ SumFunctionOnSet(f, s) = f[x] + SumFunctionOnSet(f, s \ {x})
    <3>1. s \ {x} \notin Bad
      BY <2>1, <2>2, LeastWithout
    <3>2. \A u \in s : f[u] \in Int
      OBVIOUS
    <3>3. SumFunctionOnSet(f, s) = f[x] + SumFunctionOnSet(f, s \ {x})
      BY <2>1, <3>2, SumRemove
    <3>. QED  BY <3>1, <3>3
  <2>4. CASE s = {}
    BY <2>2, <2>4, SumEmpty DEF Grows
  <2>5. ASSUME s # {} PROVE SumFunctionOnSet(f, s) \in Nat
    <3>1. PICK x \in s : TRUE
      BY <2>5
    <3>2. SumFunctionOnSet(f, s \ {x}) \in Nat /\ f[x] \in Nat
      BY <2>3 DEF Grows
    <3>. QED  BY <2>3, <3>2
  <2>6. ASSUME NEW r \in SUBSET s, s # {}
        PROVE  SumFunctionOnSet(f, r) <= SumFunctionOnSet(f, s)
    <3>1. CASE r = s
      BY <2>5, <2>6, <3>1
    <3>2. CASE r # s
      <4>1. PICK x \in s : r \in SUBSET (s \ {x})
        BY <3>2
      <4>2. /\ SumFunctionOnSet(f, r) <= SumFunctionOnSet(f, s \ {x})
            /\ SumFunctionOnSet(f, s \ {x}) \in Nat
        BY <2>3, <4>1 DEF Grows
      <4>3. r \in SUBSET T /\ IsFiniteSet(r) /\ \A u \in r : f[u] \in Int
        BY <2>2, FS_Subset
      <4>4. SumFunctionOnSet(f, r) \in Int
        BY <4>3, SumInt
      <4>. QED  BY <2>3, <4>2, <4>4
    <3>. QED  BY <3>1, <3>2
  <2>. QED  BY <2>2, <2>4, <2>5, <2>6 DEF Grows
<1>. HIDE DEF Grows
<1>2. Grows(T) /\ Grows(S)
  BY <1>1
<1>. QED  BY <1>2 DEF Grows

\* Summing over indices that each stand for another element is summing over those.
LEMMA SumReindex ==
    ASSUME NEW f, NEW g, NEW phi, NEW S, IsFiniteSet(S),
           \A x \in S : g[x] \in Int /\ g[x] = f[phi[x]],
           \A x, y \in S : phi[x] = phi[y] => x = y
    PROVE  SumFunctionOnSet(g, S) = SumFunctionOnSet(f, {phi[x] : x \in S})
<1>. DEFINE Img(s) == {phi[x] : x \in s}
            Bad == {s \in SUBSET S : SumFunctionOnSet(g, s) # SumFunctionOnSet(f, Img(s))}
<1>1. Bad = {}
  <2>. SUFFICES ASSUME Bad # {} PROVE FALSE
    OBVIOUS
  <2>1. \A s \in Bad : IsFiniteSet(s)
    BY FS_Subset
  <2>2. PICK s \in Bad : \A r \in Bad : Cardinality(s) <= Cardinality(r)
    BY <2>1, SmallestSet
  <2>3. CASE s = {}
    <3>1. Img(s) = {}
      BY <2>3
    <3>. QED  BY <2>2, <2>3, <3>1, SumEmpty
  <2>4. CASE s # {}
    <3>1. PICK z \in s : TRUE
      BY <2>4
    <3>2. s \ {z} \notin Bad
      BY <2>1, <2>2, LeastWithout
    <3>3. SumFunctionOnSet(g, s) = g[z] + SumFunctionOnSet(g, s \ {z})
      <4>1. IsFiniteSet(s) /\ \A x \in s : g[x] \in Int
        BY <2>1, <2>2
      <4>. QED  BY <4>1, SumRemove
    <3>4. IsFiniteSet(Img(s)) /\ \A t \in Img(s) : f[t] \in Int
      <4>1. [x \in s |-> phi[x]] \in Surjection(s, Img(s))
        BY DEF Surjection
      <4>. QED  BY <2>1, <2>2, <4>1, FS_Surjection
    <3>5. phi[z] \in Img(s) /\ Img(s) \ {phi[z]} = Img(s \ {z})
      BY <2>2
    <3>6. SumFunctionOnSet(f, Img(s)) = f[phi[z]] + SumFunctionOnSet(f, Img(s \ {z}))
      <4>. HIDE DEF Img
      <4>1. SumFunctionOnSet(f, Img(s))
              = f[phi[z]] + SumFunctionOnSet(f, Img(s) \ {phi[z]})
        BY <3>4, <3>5, SumRemove
      <4>. QED  BY <3>5, <4>1
    <3>7. SumFunctionOnSet(g, s \ {z}) = SumFunctionOnSet(f, Img(s \ {z}))
      BY <2>2, <3>2
    <3>. HIDE DEF Img
    <3>. QED  BY <2>2, <3>3, <3>6, <3>7
  <2>. QED  BY <2>3, <2>4
<1>. QED  BY <1>1
=============================================================================
