---------------------------- MODULE OutlierProofs ----------------------------
(***************************************************************************)
(* What the relative signal means, for a history of any length: the value  *)
(* exceeds half of the history by the multiplier, and a value that exceeds *)
(* all of it is caught.                                                    *)
(***************************************************************************)
EXTENDS Outliers, FiniteSetTheorems, WellFoundedInduction, TLAPS

\* A set of naturals that is not empty has a least element.
LEMMA LeastNatural ==
  ASSUME NEW T \in SUBSET Nat, T # {}
  PROVE  \E x \in T : \A y \in T : x <= y
  <1>1. IsWellFoundedOn(OpToRel(<, Nat), Nat)
    BY NatLessThanWellFounded
  <1>2. PICK x \in T : \A y \in T : ~(<<y, x>> \in OpToRel(<, Nat))
    BY <1>1, WFMin
  <1>3. \A y \in T : ~(y < x)
    BY <1>2 DEF OpToRel
  <1> QED BY <1>3

\* A finite set of indices has one with the greatest value: the one that has the
\* fewest above it.
LEMMA GreatestValue ==
  ASSUME NEW J, IsFiniteSet(J), J # {}, NEW values, \A j \in J : values[j] \in Nat
  PROVE  \E i \in J : \A j \in J : values[j] <= values[i]
  <1> DEFINE Above(i) == {j \in J : values[j] > values[i]}
             Count(i) == Cardinality(Above(i))
             T == {Count(i) : i \in J}
  <1>1. \A i \in J : IsFiniteSet(Above(i)) /\ Count(i) \in Nat
    <2> SUFFICES ASSUME NEW i \in J PROVE IsFiniteSet(Above(i)) /\ Count(i) \in Nat
      OBVIOUS
    <2>1. IsFiniteSet(Above(i))
      BY FS_Subset
    <2> QED BY <2>1, FS_CardinalityType
  <1>2. PICK i \in J : \A j \in J : Count(i) <= Count(j)
    <2>1. T \in SUBSET Nat /\ T # {}
      BY <1>1
    <2>2. PICK x \in T : \A y \in T : x <= y
      BY <2>1, LeastNatural
    <2> QED BY <2>2
  <1>3. ASSUME NEW j \in J, values[j] > values[i] PROVE FALSE
    <2>1. Above(j) \in SUBSET (Above(i) \ {j}) /\ j \in Above(i)
      BY <1>3
    <2>2. /\ IsFiniteSet(Above(i) \ {j})
          /\ Cardinality(Above(i) \ {j}) = Count(i) - 1
      BY <1>1, <2>1, FS_RemoveElement
    <2>3. Count(j) <= Count(i) - 1
      BY <2>1, <2>2, FS_Subset
    <2>4. Count(i) <= Count(j) /\ Count(i) \in Nat /\ Count(j) \in Nat
      BY <1>1, <1>2
    <2> HIDE DEF Count
    <2> QED BY <2>3, <2>4
  <1> QED BY <1>3

\* The k-th smallest of the values of a function is one of them; fewer than k are
\* below it and at least k are not above it.
LEMMA SmallestIs ==
  ASSUME NEW values, IsFiniteSet(DOMAIN values), \A j \in DOMAIN values : values[j] \in Nat,
         NEW k \in 1..Cardinality(DOMAIN values)
  PROVE  /\ Smallest(k, values) \in {values[j] : j \in DOMAIN values}
         /\ Cardinality({j \in DOMAIN values : values[j] < Smallest(k, values)}) < k
         /\ Cardinality({j \in DOMAIN values : values[j] <= Smallest(k, values)}) >= k
  <1> DEFINE D == DOMAIN values
             V == {values[j] : j \in D}
             Below(v) == {j \in D : values[j] < v}
             UpTo(v) == {j \in D : values[j] <= v}
             T == {v \in V : Cardinality(UpTo(v)) >= k}
  <1>1. \A v : IsFiniteSet(Below(v)) /\ IsFiniteSet(UpTo(v))
               /\ Cardinality(Below(v)) \in Nat /\ Cardinality(UpTo(v)) \in Nat
    <2> SUFFICES ASSUME NEW v
                 PROVE IsFiniteSet(Below(v)) /\ IsFiniteSet(UpTo(v))
                       /\ Cardinality(Below(v)) \in Nat /\ Cardinality(UpTo(v)) \in Nat
      OBVIOUS
    <2>1. IsFiniteSet(Below(v)) /\ IsFiniteSet(UpTo(v))
      BY FS_Subset
    <2> QED BY <2>1, FS_CardinalityType
  <1>2. Cardinality(D) \in Nat /\ D # {}
    BY FS_CardinalityType, FS_EmptySet
  <1>3. T # {}
    <2>1. PICK i \in D : \A j \in D : values[j] <= values[i]
      BY <1>2, GreatestValue
    <2>2. UpTo(values[i]) = D
      BY <2>1
    <2> QED BY <1>2, <2>2
  <1>4. PICK v \in T : \A w \in T : v <= w
    BY <1>3, LeastNatural
  <1>5. Cardinality(Below(v)) < k
    <2> SUFFICES ASSUME Cardinality(Below(v)) >= k PROVE FALSE
      BY <1>1
    <2>1. Below(v) # {}
      BY FS_EmptySet
    <2>2. PICK i \in Below(v) : \A j \in Below(v) : values[j] <= values[i]
      BY <1>1, <2>1, GreatestValue
    <2>3. Below(v) \in SUBSET UpTo(values[i])
      BY <2>2
    <2>4. Cardinality(UpTo(values[i])) >= k
      <3>1. PICK w : w = values[i]
        OBVIOUS
      <3>2. /\ IsFiniteSet(UpTo(w)) /\ Below(v) \in SUBSET UpTo(w)
            /\ Cardinality(Below(v)) \in Nat /\ Cardinality(UpTo(w)) \in Nat
        BY <1>1, <2>3, <3>1
      <3>3. Cardinality(Below(v)) <= Cardinality(UpTo(w))
        BY <3>2, FS_Subset
      <3> HIDE DEF UpTo, Below
      <3>4. Cardinality(UpTo(w)) >= k
        BY <3>2, <3>3
      <3> QED BY <3>1, <3>4
    <2> QED BY <1>4, <2>2, <2>4
  <1>6. \E w \in V : Cardinality(Below(w)) < k /\ Cardinality(UpTo(w)) >= k
    BY <1>4, <1>5
  <1> HIDE DEF V
  <1> QED BY <1>6 DEF Smallest, V

\* The multiplier keeps the order.
LEMMA TimesKeepsOrder ==
  ASSUME NEW times \in Nat, NEW v \in Nat, NEW w \in Nat, v <= w
  PROVE  times * v <= times * w
  OBVIOUS

\* The doubled median is the sum of two values; at least half of the history is
\* not above the first, at most half is below the second.
LEMMA MedianIs ==
  ASSUME NEW values, IsFiniteSet(DOMAIN values), \A j \in DOMAIN values : values[j] \in Nat,
         DOMAIN values # {}
  PROVE  \E i, j \in DOMAIN values :
           /\ TwiceMedian(values) = values[i] + values[j]
           /\ values[i] <= values[j]
           /\ 2 * Cardinality({l \in DOMAIN values : values[l] <= values[i]})
                >= Cardinality(DOMAIN values)
           /\ 2 * Cardinality({l \in DOMAIN values : values[l] < values[j]})
                <= Cardinality(DOMAIN values)
  <1> DEFINE n == Cardinality(DOMAIN values)
             mid == n \div 2
             UpTo(v) == {l \in DOMAIN values : values[l] <= v}
             Below(v) == {l \in DOMAIN values : values[l] < v}
  <1>1. n \in Nat \ {0}
    BY FS_CardinalityType, FS_EmptySet
  <1>2. \A v : IsFiniteSet(UpTo(v)) /\ Cardinality(UpTo(v)) \in Nat
               /\ IsFiniteSet(Below(v)) /\ Cardinality(Below(v)) \in Nat
    <2> SUFFICES ASSUME NEW v
                 PROVE IsFiniteSet(UpTo(v)) /\ Cardinality(UpTo(v)) \in Nat
                       /\ IsFiniteSet(Below(v)) /\ Cardinality(Below(v)) \in Nat
      OBVIOUS
    <2>1. IsFiniteSet(UpTo(v)) /\ IsFiniteSet(Below(v))
      BY FS_Subset
    <2> QED BY <2>1, FS_CardinalityType
  <1>3. \A k \in 1..n : \E i \in DOMAIN values :
          /\ Smallest(k, values) = values[i]
          /\ Cardinality(Below(values[i])) < k /\ Cardinality(UpTo(values[i])) >= k
    <2> SUFFICES ASSUME NEW k \in 1..n
                 PROVE  \E i \in DOMAIN values :
                          /\ Smallest(k, values) = values[i]
                          /\ Cardinality(Below(values[i])) < k
                          /\ Cardinality(UpTo(values[i])) >= k
      OBVIOUS
    <2>1. PICK v \in {values[j] : j \in DOMAIN values} :
            /\ v = Smallest(k, values)
            /\ Cardinality(Below(v)) < k /\ Cardinality(UpTo(v)) >= k
      BY SmallestIs
    <2>2. PICK i \in DOMAIN values : v = values[i]
      OBVIOUS
    <2> HIDE DEF UpTo, Below
    <2> QED BY <2>1, <2>2
  <1>4. CASE n % 2 = 1
    <2>1. mid + 1 \in 1..n /\ 2 * (mid + 1) >= n
      BY <1>1
    <2>2. PICK i \in DOMAIN values : /\ Smallest(mid + 1, values) = values[i]
                                    /\ Cardinality(Below(values[i])) < mid + 1
                                    /\ Cardinality(UpTo(values[i])) >= mid + 1
      BY <1>3, <2>1
    <2>3. TwiceMedian(values) = values[i] + values[i] /\ values[i] <= values[i]
      BY <1>4, <2>2 DEF TwiceMedian
    <2>4. 2 * Cardinality(UpTo(values[i])) >= n
      <3>1. PICK c \in Nat : c = Cardinality(UpTo(values[i]))
        BY <1>2
      <3>2. 2 * c >= n
        BY <1>1, <2>1, <2>2, <3>1
      <3> QED BY <3>1, <3>2
    <2>5. 2 * Cardinality(Below(values[i])) <= n
      <3>1. PICK c \in Nat : c = Cardinality(Below(values[i]))
        BY <1>2
      <3>2. 2 * c <= n
        BY <1>1, <1>4, <2>2, <3>1
      <3> QED BY <3>1, <3>2
    <2> QED BY <2>3, <2>4, <2>5, Zenon
  <1>5. CASE n % 2 # 1
    <2>1. mid \in 1..n /\ mid + 1 \in 1..n /\ 2 * mid >= n
      BY <1>1, <1>5
    <2>2. PICK i \in DOMAIN values : /\ Smallest(mid, values) = values[i]
                                    /\ Cardinality(Below(values[i])) < mid
                                    /\ Cardinality(UpTo(values[i])) >= mid
      BY <1>3, <2>1
    <2>3. PICK j \in DOMAIN values : /\ Smallest(mid + 1, values) = values[j]
                                    /\ Cardinality(Below(values[j])) < mid + 1
                                    /\ Cardinality(UpTo(values[j])) >= mid + 1
      BY <1>3, <2>1
    <2>4. TwiceMedian(values) = values[i] + values[j]
      BY <1>5, <2>2, <2>3 DEF TwiceMedian
    <2>5. values[i] <= values[j]
      <3> SUFFICES ASSUME values[j] < values[i] PROVE FALSE
        OBVIOUS
      <3>1. PICK v, w : v = values[i] /\ w = values[j]
        OBVIOUS
      <3>2. UpTo(w) \in SUBSET Below(v)
        BY <3>1
      <3>3. Cardinality(UpTo(w)) <= Cardinality(Below(v))
        BY <1>2, <3>2, FS_Subset
      <3>4. /\ Cardinality(UpTo(w)) >= mid + 1 /\ Cardinality(Below(v)) < mid
            /\ Cardinality(UpTo(w)) \in Nat /\ Cardinality(Below(v)) \in Nat
        BY <1>2, <2>2, <2>3, <3>1
      <3> HIDE DEF UpTo, Below, mid
      <3> QED BY <2>1, <3>3, <3>4
    <2>6. 2 * Cardinality(UpTo(values[i])) >= n
      <3>1. PICK c \in Nat : c = Cardinality(UpTo(values[i]))
        BY <1>2
      <3>2. 2 * c >= n
        BY <1>1, <2>1, <2>2, <3>1
      <3> QED BY <3>1, <3>2
    <2>7. 2 * Cardinality(Below(values[j])) <= n
      <3>1. PICK c \in Nat : c = Cardinality(Below(values[j]))
        BY <1>2
      <3>2. 2 * c <= n
        BY <1>1, <2>1, <2>3, <3>1
      <3> QED BY <3>1, <3>2
    <2> QED BY <2>4, <2>5, <2>6, <2>7
  <1> QED BY <1>4, <1>5

\* A value flagged against a history exceeds, by the multiplier, half of it.
LEMMA OutlierStandsOut ==
  ASSUME NEW history, IsFiniteSet(DOMAIN history),
         \A j \in DOMAIN history : history[j] \in Nat,
         NEW value \in Nat, NEW times \in Nat, NEW after \in Nat \ {0}, NEW floor \in Nat,
         Outlier(value, history, times, after, floor)
  PROVE  Cardinality(DOMAIN history) >= after /\ StandsOut(value, history, times)
  <1> DEFINE D == DOMAIN history
  <1>1. Cardinality(D) >= after /\ Cardinality(D) \in Nat /\ D # {}
    BY FS_CardinalityType, FS_EmptySet DEF Outlier
  <1>2. PICK i, j \in D : /\ TwiceMedian(history) = history[i] + history[j]
                          /\ history[i] <= history[j]
                          /\ 2 * Cardinality({l \in D : history[l] <= history[i]}) >= Cardinality(D)
    BY <1>1, MedianIs
  <1> DEFINE Half == {l \in D : history[l] <= history[i]}
             Exceeded == {l \in D : value > times * history[l]}
  <1>3. value > times * history[i]
    <2>1. PICK v, w \in Nat : v = history[i] /\ w = history[j]
      OBVIOUS
    <2>2. 2 * value > times * (v + w) /\ v <= w
      BY <1>2, <2>1 DEF Outlier
    <2>3. times * v <= times * w
      BY <2>2, TimesKeepsOrder
    <2>4. times * (v + w) = times * v + times * w /\ times * v \in Nat /\ times * w \in Nat
      OBVIOUS
    <2>5. value > times * v
      BY <2>2, <2>3, <2>4
    <2> QED BY <2>1, <2>5
  <1>4. Half \in SUBSET Exceeded
    <2> SUFFICES ASSUME NEW l \in Half PROVE value > times * history[l]
      OBVIOUS
    <2>1. PICK u, v \in Nat : u = history[l] /\ v = history[i]
      OBVIOUS
    <2>2. times * u <= times * v /\ times * u \in Nat /\ times * v \in Nat
      BY <2>1, TimesKeepsOrder
    <2> QED BY <1>3, <2>1, <2>2
  <1>5. IsFiniteSet(Exceeded)
    BY FS_Subset
  <1>6. /\ Cardinality(Half) <= Cardinality(Exceeded)
        /\ Cardinality(Half) \in Nat /\ Cardinality(Exceeded) \in Nat
    BY <1>4, <1>5, FS_Subset, FS_CardinalityType
  <1>7. 2 * Cardinality(Half) >= Cardinality(D)
    BY <1>2
  <1>8. 2 * Cardinality(Exceeded) >= Cardinality(D)
    <2> HIDE DEF Half, Exceeded
    <2> QED BY <1>1, <1>6, <1>7
  <1> QED BY <1>1, <1>8 DEF StandsOut

\* A value that exceeds all of a long enough history, and the floor, is flagged.
LEMMA ToweringIsOutlier ==
  ASSUME NEW history, IsFiniteSet(DOMAIN history),
         \A j \in DOMAIN history : history[j] \in Nat,
         NEW value \in Nat, NEW times \in Nat, NEW after \in Nat \ {0}, NEW floor \in Nat,
         Cardinality(DOMAIN history) >= after, value > floor,
         TowersOver(value, history, times)
  PROVE  Outlier(value, history, times, after, floor)
  <1>1. DOMAIN history # {}
    BY FS_EmptySet
  <1>2. PICK i, j \in DOMAIN history : TwiceMedian(history) = history[i] + history[j]
    BY <1>1, MedianIs
  <1>3. PICK v, w \in Nat : v = history[i] /\ w = history[j]
    OBVIOUS
  <1>4. v > 0 /\ w > 0 /\ value > times * v /\ value > times * w
    BY <1>3 DEF TowersOver
  <1>5. times * (v + w) = times * v + times * w /\ times * v \in Nat /\ times * w \in Nat
    OBVIOUS
  <1>6. 2 * value > times * (v + w) /\ v + w > 0
    BY <1>4, <1>5
  <1> QED BY <1>2, <1>3, <1>6 DEF Outlier

\* The same where the value is itself part of the history, if only that is of
\* three values or more.
LEMMA ToweringAmongAll ==
  ASSUME NEW history, IsFiniteSet(DOMAIN history),
         \A j \in DOMAIN history : history[j] \in Nat,
         NEW k \in DOMAIN history, NEW times \in Nat \ {0}, NEW after \in Nat, after >= 3,
         NEW floor \in Nat, Cardinality(DOMAIN history) >= after, history[k] > floor,
         \A j \in DOMAIN history \ {k} : history[j] > 0 /\ history[k] > times * history[j]
  PROVE  Outlier(history[k], history, times, after, floor)
  <1> DEFINE D == DOMAIN history
             n == Cardinality(D)
             Below(v) == {l \in D : history[l] < v}
  <1>1. n \in Nat /\ n >= 3 /\ D # {}
    BY FS_CardinalityType
  <1>2. PICK i, j \in D : /\ TwiceMedian(history) = history[i] + history[j]
                          /\ history[i] <= history[j]
                          /\ 2 * Cardinality(Below(history[j])) <= n
    BY <1>1, MedianIs
  <1>3. \A l \in D \ {k} : history[l] < history[k]
    <2> SUFFICES ASSUME NEW l \in D \ {k} PROVE history[l] < history[k]
      OBVIOUS
    <2>1. PICK v, w \in Nat : v = history[l] /\ w = history[k]
      OBVIOUS
    <2>2. w > times * v
      BY <2>1
    <2>3. times * v >= 1 * v
      BY TimesKeepsOrder
    <2> QED BY <2>1, <2>2, <2>3
  <1>4. j # k
    <2> SUFFICES ASSUME j = k PROVE FALSE
      OBVIOUS
    <2>1. Below(history[j]) = D \ {k}
      BY <1>3
    <2>2. Cardinality(D \ {k}) = n - 1
      BY FS_RemoveElement
    <2>3. PICK c : c = Cardinality(Below(history[j]))
      OBVIOUS
    <2>4. 2 * c <= n /\ c = n - 1
      BY <1>2, <2>1, <2>2, <2>3
    <2> HIDE DEF n
    <2> QED BY <1>1, <2>4
  <1>5. i # k
    BY <1>2, <1>3, <1>4
  <1>6. PICK v, w, x \in Nat : v = history[i] /\ w = history[j] /\ x = history[k]
    OBVIOUS
  <1>7. v > 0 /\ w > 0 /\ x > times * v /\ x > times * w /\ x > floor
    BY <1>4, <1>5, <1>6
  <1>8. times * (v + w) = times * v + times * w /\ times * v \in Nat /\ times * w \in Nat
    OBVIOUS
  <1>9. 2 * x > times * (v + w) /\ v + w > 0
    BY <1>7, <1>8
  <1> QED BY <1>2, <1>6, <1>7, <1>9 DEF Outlier
=============================================================================
