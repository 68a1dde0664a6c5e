------------------------------ MODULE SumLemmas ------------------------------
(***************************************************************************)
(* The laws of SumOf that the proofs about money rest on: what it is of    *)
(* no element, of one, of two disjoint sets, of a part, of equal amounts,  *)
(* of more and of both, of a set by parts, and what it becomes when one    *)
(* amount changes.                                                         *)
(***************************************************************************)
EXTENDS Sums, FiniteSetTheorems, WellFoundedInduction, TLAPS

\* The units of one element.
LEMMA UnitsOfOne ==
  ASSUME NEW x, NEW amount, amount[x] \in Nat
  PROVE  /\ IsFiniteSet({x} \X (1 .. amount[x]))
         /\ Cardinality({x} \X (1 .. amount[x])) = amount[x]
<1>. DEFINE n == amount[x]
<1>. HIDE DEF n
<1>0. n \in Nat
  BY DEF n
<1>1. IsFiniteSet(1 .. n) /\ Cardinality(1 .. n) = n
  BY <1>0, FS_Interval
<1>2. IsFiniteSet({x}) /\ Cardinality({x}) = 1
  BY FS_Singleton
<1>3. /\ IsFiniteSet({x} \X (1 .. n))
      /\ Cardinality({x} \X (1 .. n)) = Cardinality({x}) * Cardinality(1 .. n)
  BY <1>1, <1>2, FS_Product
<1>. QED BY <1>0, <1>1, <1>2, <1>3 DEF n

\* Finitely many elements have finitely many units, so their total is a number.
LEMMA SumType ==
  ASSUME NEW S, IsFiniteSet(S), NEW amount, \A x \in S : amount[x] \in Nat
  PROVE  IsFiniteSet(UnitsOf(S, amount)) /\ SumOf(S, amount) \in Nat
<1>. DEFINE parts == {{x} \X (1 .. amount[x]) : x \in S}
            part == [x \in S |-> {x} \X (1 .. amount[x])]
<1>1. part \in Surjection(S, parts)
  BY DEF Surjection
<1>2. IsFiniteSet(parts)
  BY <1>1, FS_Surjection
<1>3. \A P \in parts : IsFiniteSet(P)
  BY UnitsOfOne
<1>4. IsFiniteSet(UnitsOf(S, amount))
  BY <1>2, <1>3, FS_UNION DEF UnitsOf
<1>. QED BY <1>4, FS_CardinalityType DEF SumOf

LEMMA SumOfNone == ASSUME NEW amount PROVE SumOf({}, amount) = 0
<1>1. UnitsOf({}, amount) = {}
  BY DEF UnitsOf
<1>. QED BY <1>1, FS_EmptySet DEF SumOf

LEMMA SumOfOne ==
  ASSUME NEW x, NEW amount, amount[x] \in Nat
  PROVE  SumOf({x}, amount) = amount[x]
<1>1. UnitsOf({x}, amount) = {x} \X (1 .. amount[x])
  BY DEF UnitsOf
<1>. QED BY <1>1, UnitsOfOne DEF SumOf

\* Only the amounts of the elements count.
LEMMA SumOfSame ==
  ASSUME NEW S, NEW amount, NEW other, \A x \in S : amount[x] = other[x]
  PROVE  SumOf(S, amount) = SumOf(S, other)
<1>1. UnitsOf(S, amount) = UnitsOf(S, other)
  BY DEF UnitsOf
<1>. QED BY <1>1 DEF SumOf

LEMMA SumOfUnion ==
  ASSUME NEW S, NEW T, IsFiniteSet(S), IsFiniteSet(T), S \intersect T = {},
         NEW amount, \A x \in S \union T : amount[x] \in Nat
  PROVE  SumOf(S \union T, amount) = SumOf(S, amount) + SumOf(T, amount)
<1>. DEFINE US == UnitsOf(S, amount)
            UT == UnitsOf(T, amount)
<1>1. IsFiniteSet(US) /\ IsFiniteSet(UT)
  BY SumType
<1>2. UnitsOf(S \union T, amount) = US \union UT
  BY DEF UnitsOf
<1>3. US \intersect UT = {}
  BY DEF UnitsOf
<1>4. Cardinality(US) \in Nat /\ Cardinality(UT) \in Nat
  BY <1>1, FS_CardinalityType
<1>. HIDE DEF US, UT
<1>5. Cardinality(US \union UT) = Cardinality(US) + Cardinality(UT) - 0
  BY <1>1, <1>3, FS_Union, FS_EmptySet
<1>6. Cardinality(US \union UT) = Cardinality(US) + Cardinality(UT)
  BY <1>4, <1>5
<1>. QED BY <1>2, <1>6 DEF SumOf, US, UT

\* One element more.
LEMMA SumOfAdded ==
  ASSUME NEW S, IsFiniteSet(S), NEW x, x \notin S, NEW amount,
         \A y \in S \union {x} : amount[y] \in Nat
  PROVE  /\ IsFiniteSet(S \union {x})
         /\ SumOf(S \union {x}, amount) = SumOf(S, amount) + amount[x]
<1>1. IsFiniteSet({x}) /\ S \intersect {x} = {}
  BY FS_Singleton
<1>0. IsFiniteSet(S \union {x})
  BY FS_AddElement
<1>2. SumOf(S \union {x}, amount) = SumOf(S, amount) + SumOf({x}, amount)
  BY <1>1, SumOfUnion
<1>. QED BY <1>0, <1>2, SumOfOne

\* A part has no larger total than the whole.
LEMMA SumOfPart ==
  ASSUME NEW S, IsFiniteSet(S), NEW T \in SUBSET S, NEW amount,
         \A x \in S : amount[x] \in Nat
  PROVE  IsFiniteSet(T) /\ SumOf(T, amount) <= SumOf(S, amount)
<1>1. IsFiniteSet(T)
  BY FS_Subset
<1>2. IsFiniteSet(UnitsOf(S, amount))
  BY SumType
<1>3. UnitsOf(T, amount) \subseteq UnitsOf(S, amount)
  BY DEF UnitsOf
<1>. QED BY <1>1, <1>2, <1>3, FS_Subset DEF SumOf

\* The total when one element's amount changes.
LEMMA SumOfChanged ==
  ASSUME NEW S, IsFiniteSet(S), NEW x \in S, NEW amount, NEW other,
         \A y \in S : amount[y] \in Nat /\ other[y] \in Nat,
         \A y \in S \ {x} : other[y] = amount[y]
  PROVE  SumOf(S, other) = SumOf(S, amount) - amount[x] + other[x]
<1>. DEFINE R == S \ {x}
<1>1. IsFiniteSet(R) /\ x \notin R /\ S = R \union {x}
  BY FS_RemoveElement
<1>2. SumOf(R, amount) = SumOf(R, other) /\ SumOf(R, amount) \in Nat
  BY <1>1, SumOfSame, SumType
<1>. HIDE DEF R
<1>3. /\ SumOf(R \union {x}, amount) = SumOf(R, amount) + amount[x]
      /\ SumOf(R \union {x}, other) = SumOf(R, other) + other[x]
  BY <1>1, SumOfAdded
<1>. QED BY <1>1, <1>2, <1>3

\* Amounts that are nowhere larger have no larger total, and the same total only
\* if they are the same amounts.
LEMMA SumOfLess ==
  ASSUME NEW S, IsFiniteSet(S), NEW low, NEW high,
         \A x \in S : low[x] \in Nat /\ high[x] \in Nat /\ low[x] <= high[x]
  PROVE  /\ SumOf(S, low) <= SumOf(S, high)
         /\ SumOf(S, low) = SumOf(S, high) => \A x \in S : low[x] = high[x]
<1>. DEFINE L == UnitsOf(S, low)
            H == UnitsOf(S, high)
<1>1. IsFiniteSet(H)
  BY SumType
<1>2. L \subseteq H
  BY DEF UnitsOf
<1>3. ASSUME L = H, NEW x \in S
      PROVE  low[x] = high[x]
  <2>1. CASE low[x] = high[x]
    BY <2>1
  <2>2. CASE low[x] < high[x]
    <3>1. high[x] \in 1 .. high[x] /\ high[x] \notin 1 .. low[x]
      BY <2>2
    <3>2. <<x, high[x]>> \in H
      BY <3>1 DEF UnitsOf
    <3>3. <<x, high[x]>> \notin L
      BY <3>1 DEF UnitsOf
    <3>. QED BY <1>3, <3>2, <3>3
  <2>. QED BY <2>1, <2>2
<1>. HIDE DEF L, H
<1>4. Cardinality(L) <= Cardinality(H) /\ (Cardinality(L) = Cardinality(H) => L = H)
  BY <1>1, <1>2, FS_Subset
<1>. QED BY <1>3, <1>4 DEF SumOf, L, H

\* Elements of one amount.
LEMMA SumOfEqual ==
  ASSUME NEW S, IsFiniteSet(S), NEW k \in Nat, NEW amount, \A x \in S : amount[x] = k
  PROVE  SumOf(S, amount) = Cardinality(S) * k
<1>1. UnitsOf(S, amount) = S \X (1 .. k)
  BY DEF UnitsOf
<1>2. IsFiniteSet(1 .. k) /\ Cardinality(1 .. k) = k
  BY FS_Interval
<1>. QED BY <1>1, <1>2, FS_Product DEF SumOf

\* The amounts are the same but for one, to which more is added.
Grows(S, x, more, amount, other) ==
  /\ IsFiniteSet(S) /\ x \in S /\ more \in Nat
  /\ \A y \in S : amount[y] \in Nat /\ other[y] \in Nat
  /\ \A y \in S \ {x} : other[y] = amount[y]
  /\ other[x] = amount[x] + more

\* What is added to one amount is added to the total.
LEMMA SumOfMore ==
  ASSUME NEW S, NEW x, NEW more, NEW amount, NEW other, Grows(S, x, more, amount, other)
  PROVE  SumOf(S, other) = SumOf(S, amount) + more
<1>1. SumOf(S, other) = SumOf(S, amount) - amount[x] + other[x]
  BY SumOfChanged DEF Grows
<1>2. SumOf(S, amount) \in Nat
  BY SumType DEF Grows
<1>. QED BY <1>1, <1>2 DEF Grows

-----------------------------------------------------------------------------
(* Sums of sums *)

\* A set of numbers has a least one.
LEMMA Least ==
  ASSUME NEW S \in SUBSET Nat, S # {}
  PROVE  \E n \in S : \A m \in S : n <= m
<1>1. \E n \in S : \A m \in S : ~ (<<m, n>> \in OpToRel(<, Nat))
  BY WFMin, NatLessThanWellFounded
<1>2. PICK n \in S : \A m \in S : ~ (m < n)
  BY <1>1 DEF OpToRel
<1>. QED BY <1>2

\* Induction over the subsets of a finite set: what is good of none, and stays good as
\* elements are added, is good of all.
LEMMA GoodOfAll ==
  ASSUME NEW K, IsFiniteSet(K), NEW Good \in SUBSET SUBSET K, {} \in Good,
         \A H \in Good : \A g \in K \ H : H \union {g} \in Good
  PROVE  K \in Good
<1>. SUFFICES ASSUME K \notin Good PROVE FALSE
  OBVIOUS
<1>. DEFINE Bad == {H \in SUBSET K : H \notin Good}
            Sizes == {Cardinality(H) : H \in Bad}
<1>1. \A H \in SUBSET K : IsFiniteSet(H) /\ Cardinality(H) \in Nat
  BY FS_Subset, FS_CardinalityType
<1>2. Sizes \subseteq Nat /\ Sizes # {}
  BY <1>1
<1>3. PICK n \in Sizes : \A m \in Sizes : n <= m
  BY <1>2, Least
<1>4. PICK H \in Bad : Cardinality(H) = n
  BY <1>3
<1>5. PICK g \in H : TRUE
  BY <1>4
<1>. DEFINE R == H \ {g}
<1>6. IsFiniteSet(R) /\ Cardinality(R) = n - 1
  BY <1>1, <1>4, FS_RemoveElement
<1>7. n \in Nat /\ n - 1 \in Nat /\ n - 1 < n
  BY <1>1, <1>2, <1>6, FS_CardinalityType
<1>8. n - 1 \notin Sizes
  BY <1>3, <1>7
<1>9. R \in Good
  BY <1>6, <1>8
<1>10. g \in K \ R /\ R \union {g} = H
  BY <1>4
<1>11. H \in Good
  BY <1>9, <1>10
<1>. QED BY <1>4, <1>11

\* What the elements with one key add up to.
KeyedBy(S, key, g) == {x \in S : key[x] = g}
PerKey(S, key, K, amount) == [g \in K |-> SumOf(KeyedBy(S, key, g), amount)]

\* The totals of the parts add up to the total.
LEMMA SumOfParts ==
  ASSUME NEW S, IsFiniteSet(S), NEW amount, \A x \in S : amount[x] \in Nat,
         NEW K, IsFiniteSet(K), NEW key, \A x \in S : key[x] \in K
  PROVE  /\ \A g \in K : PerKey(S, key, K, amount)[g] \in Nat
         /\ SumOf(K, PerKey(S, key, K, amount)) = SumOf(S, amount)
<1>. DEFINE per == PerKey(S, key, K, amount)
            Part(H) == {x \in S : key[x] \in H}
            Good == {H \in SUBSET K : SumOf(H, per) = SumOf(Part(H), amount)}
<1>1. \A g \in K : per[g] = SumOf(KeyedBy(S, key, g), amount)
  BY DEF PerKey
<1>2. \A T \in SUBSET S : IsFiniteSet(T) /\ SumOf(T, amount) \in Nat
  BY FS_Subset, SumType
<1>3. \A g \in K : per[g] \in Nat
  BY <1>1, <1>2 DEF KeyedBy
<1>4. {} \in Good
  <2>1. Part({}) = {}
    OBVIOUS
  <2>. HIDE DEF Part, per
  <2>. QED BY <2>1, SumOfNone
<1>5. ASSUME NEW H \in Good, NEW g \in K \ H
      PROVE  H \union {g} \in Good
  <2>1. Part(H \union {g}) = Part(H) \union KeyedBy(S, key, g)
        /\ Part(H) \intersect KeyedBy(S, key, g) = {}
        /\ Part(H) \subseteq S /\ KeyedBy(S, key, g) \subseteq S
    BY <1>5 DEF KeyedBy
  <2>2. IsFiniteSet(H)
    BY <1>5, FS_Subset
  <2>3. H \in SUBSET K /\ SumOf(H, per) = SumOf(Part(H), amount)
    OBVIOUS
  <2>. HIDE DEF Part, per
  <2>4. SumOf(H \union {g}, per) = SumOf(H, per) + per[g]
    BY <1>3, <1>5, <2>2, <2>3, SumOfAdded
  <2>5. SumOf(Part(H) \union KeyedBy(S, key, g), amount)
          = SumOf(Part(H), amount) + SumOf(KeyedBy(S, key, g), amount)
    BY <1>2, <2>1, SumOfUnion
  <2>6. SumOf(H \union {g}, per) = SumOf(Part(H \union {g}), amount)
    BY <1>1, <2>1, <2>3, <2>4, <2>5
  <2>. QED BY <2>3, <2>6
<1>6. Part(K) = S
  OBVIOUS
<1>7. Good \in SUBSET SUBSET K
  OBVIOUS
<1>8. K \in Good
  <2>. HIDE DEF Good
  <2>. QED BY <1>4, <1>5, <1>7, GoodOfAll
<1>9. SumOf(K, per) = SumOf(Part(K), amount)
  BY <1>8
<1>. QED BY <1>3, <1>6, <1>9

\* The amounts of whole are those of one and of other together.
Adds(S, whole, one, other) ==
  \A x \in S : one[x] \in Nat /\ other[x] \in Nat /\ whole[x] = one[x] + other[x]

\* Amounts added to amounts add up.
LEMMA SumOfBoth ==
  ASSUME NEW S, IsFiniteSet(S), NEW whole, NEW one, NEW other, Adds(S, whole, one, other)
  PROVE  SumOf(S, whole) = SumOf(S, one) + SumOf(S, other)
<1>. DEFINE Good == {H \in SUBSET S : SumOf(H, whole) = SumOf(H, one) + SumOf(H, other)}
<1>1. {} \in Good
  BY SumOfNone
<1>2. ASSUME NEW H \in Good, NEW x \in S \ H
      PROVE  H \union {x} \in Good
  <2>1. IsFiniteSet(H) /\ H \in SUBSET S /\ SumOf(H, whole) = SumOf(H, one) + SumOf(H, other)
    BY <1>2, FS_Subset
  <2>2. \A y \in H \union {x} : one[y] \in Nat /\ other[y] \in Nat /\ whole[y] \in Nat
    BY <2>1 DEF Adds
  <2>3. /\ SumOf(H \union {x}, whole) = SumOf(H, whole) + whole[x]
        /\ SumOf(H \union {x}, one) = SumOf(H, one) + one[x]
        /\ SumOf(H \union {x}, other) = SumOf(H, other) + other[x]
    BY <2>1, <2>2, SumOfAdded
  <2>4. SumOf(H, one) \in Nat /\ SumOf(H, other) \in Nat
    BY <2>1, <2>2, SumType
  <2>5. whole[x] = one[x] + other[x] /\ one[x] \in Nat /\ other[x] \in Nat
    BY DEF Adds
  <2>. QED BY <2>1, <2>3, <2>4, <2>5
<1>3. Good \in SUBSET SUBSET S
  OBVIOUS
<1>. HIDE DEF Good
<1>4. S \in Good
  BY <1>1, <1>2, <1>3, GoodOfAll
<1>. QED BY <1>4 DEF Good

\* Differences add up to the difference.
LEMMA BalanceOfDifference ==
  ASSUME NEW S, IsFiniteSet(S), NEW net, NEW plus, NEW minus,
         \A x \in S : plus[x] \in Nat /\ minus[x] \in Nat /\ net[x] = plus[x] - minus[x]
  PROVE  BalanceOf(S, net) = SumOf(S, plus) - SumOf(S, minus)
<1>. DEFINE over == [x \in S |-> IF net[x] > 0 THEN net[x] ELSE 0]
            under == [x \in S |-> IF net[x] < 0 THEN -net[x] ELSE 0]
            most == [x \in S |-> over[x] + minus[x]]
<1>1. \A x \in S : /\ over[x] \in Nat /\ under[x] \in Nat
                   /\ over[x] + minus[x] = plus[x] + under[x]
  OBVIOUS
<1>2. Adds(S, most, over, minus) /\ Adds(S, most, plus, under)
  BY <1>1 DEF Adds
<1>3. BalanceOf(S, net) = SumOf(S, over) - SumOf(S, under)
  BY DEF BalanceOf
<1>. HIDE DEF over, under, most
<1>4. /\ SumOf(S, most) = SumOf(S, over) + SumOf(S, minus)
      /\ SumOf(S, most) = SumOf(S, plus) + SumOf(S, under)
  BY <1>2, SumOfBoth
<1>5. /\ SumOf(S, over) \in Nat /\ SumOf(S, minus) \in Nat
      /\ SumOf(S, plus) \in Nat /\ SumOf(S, under) \in Nat
  BY <1>1, SumType
<1>. QED BY <1>3, <1>4, <1>5
=============================================================================
