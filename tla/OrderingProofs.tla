---------------------------- MODULE OrderingProofs ----------------------------
(***************************************************************************)
(* What Ordered is for every finite set and every total order on it: all   *)
(* of the set, each element once, in the order.  And induction over the    *)
(* natural numbers as a fact about a set of them.                          *)
(***************************************************************************)
EXTENDS Ordering, FiniteSetTheorems, FunctionTheorems, WellFoundedInduction, TLAPS

\* R orders S: any two elements one way, and not both unless they are one.
Orders(R, S) ==
  /\ \A x, y \in S : <<x, y>> \in R \/ <<y, x>> \in R
  /\ \A x, y \in S : <<x, y>> \in R /\ <<y, x>> \in R => x = y
  /\ \A x, y, z \in S : <<x, y>> \in R /\ <<y, z>> \in R => <<x, z>> \in R

(* An element's place is a number of the set's size, and later elements     *)
(* have later places.                                                       *)
LEMMA PlacesFollowOrder ==
  ASSUME NEW S, IsFiniteSet(S), NEW R, Orders(R, S), NEW x \in S, NEW y \in S
  PROVE  /\ Cardinality(UpTo(x, S, R)) \in 1 .. Cardinality(S)
         /\ <<x, y>> \in R <=> Cardinality(UpTo(x, S, R)) <= Cardinality(UpTo(y, S, R))
         /\ Cardinality(UpTo(x, S, R)) = Cardinality(UpTo(y, S, R)) => x = y
<1> DEFINE X == UpTo(x, S, R)
           Y == UpTo(y, S, R)
<1>1. /\ X \in SUBSET S /\ Y \in SUBSET S
      /\ x \in X /\ y \in Y
  BY DEF UpTo, Orders
<1>2. /\ <<x, y>> \in R => X \in SUBSET Y
      /\ <<y, x>> \in R => Y \in SUBSET X
  BY DEF UpTo, Orders
<1>3. X = Y => x = y
  BY <1>1 DEF UpTo, Orders
<1>4. <<x, y>> \in R \/ <<y, x>> \in R
  BY DEF Orders
<1>5. <<x, y>> \in R /\ <<y, x>> \in R => x = y
  BY DEF Orders
<1> HIDE DEF X, Y
<1>6. /\ IsFiniteSet(X) /\ IsFiniteSet(Y)
      /\ Cardinality(X) \in Nat /\ Cardinality(Y) \in Nat /\ Cardinality(S) \in Nat
      /\ Cardinality(X) <= Cardinality(S)
  BY <1>1, FS_Subset, FS_CardinalityType
<1>7. Cardinality(X) # 0
  BY <1>1, <1>6, FS_EmptySet
<1>8. <<x, y>> \in R => Cardinality(X) <= Cardinality(Y) /\ (Cardinality(X) = Cardinality(Y) => X = Y)
  BY <1>2, <1>6, FS_Subset
<1>9. <<y, x>> \in R => Cardinality(Y) <= Cardinality(X) /\ (Cardinality(X) = Cardinality(Y) => X = Y)
  BY <1>2, <1>6, FS_Subset
<1>10. Cardinality(X) \in 1 .. Cardinality(S)
  BY <1>6, <1>7
<1>11. <<x, y>> \in R <=> Cardinality(X) <= Cardinality(Y)
  BY <1>3, <1>4, <1>5, <1>6, <1>8, <1>9
<1>12. Cardinality(X) = Cardinality(Y) => x = y
  BY <1>3, <1>4, <1>8, <1>9
<1> QED
  BY <1>10, <1>11, <1>12 DEF X, Y

(* Ordered lists the whole set, each element once and after those before    *)
(* it in the order.                                                         *)
LEMMA OrderedIsOrdered ==
  ASSUME NEW S, IsFiniteSet(S), NEW R, Orders(R, S)
  PROVE  /\ Cardinality(S) \in Nat
         /\ Ordered(S, R) \in [1 .. Cardinality(S) -> S]
         /\ \A x \in S : \E i \in 1 .. Cardinality(S) : Ordered(S, R)[i] = x
         /\ \A i, j \in 1 .. Cardinality(S) :
              i <= j <=> <<Ordered(S, R)[i], Ordered(S, R)[j]>> \in R
         /\ \A i, j \in 1 .. Cardinality(S) : Ordered(S, R)[i] = Ordered(S, R)[j] => i = j
<1> DEFINE n == Cardinality(S)
           place == [x \in S |-> Cardinality(UpTo(x, S, R))]
<1>1. n \in Nat /\ IsFiniteSet(1 .. n) /\ Cardinality(1 .. n) = n
  BY FS_CardinalityType, FS_Interval
<1>2. \A x, y \in S : /\ place[x] \in 1 .. n
                      /\ <<x, y>> \in R <=> place[x] <= place[y]
                      /\ place[x] = place[y] => x = y
  <2> TAKE x, y \in S
  <2>1. /\ Cardinality(UpTo(x, S, R)) \in 1 .. n
        /\ <<x, y>> \in R <=> Cardinality(UpTo(x, S, R)) <= Cardinality(UpTo(y, S, R))
        /\ Cardinality(UpTo(x, S, R)) = Cardinality(UpTo(y, S, R)) => x = y
    BY PlacesFollowOrder
  <2> QED
    BY <2>1
<1>3. place \in Injection(S, 1 .. n)
  BY <1>2 DEF Injection, IsInjective
<1>4. place \in Surjection(S, 1 .. n)
  BY <1>1, <1>3, FS_Injection
<1>5. \A i \in 1 .. n : \E x \in S : place[x] = i
  BY <1>4 DEF Surjection
<1>6. \A i \in 1 .. n : Ordered(S, R)[i] \in S /\ place[Ordered(S, R)[i]] = i
  <2> TAKE i \in 1 .. n
  <2>1. PICK x \in S : place[x] = i
    BY <1>5
  <2>2. Cardinality(UpTo(x, S, R)) = i
    BY <2>1
  <2>3. Ordered(S, R)[i] = CHOOSE y \in S : Cardinality(UpTo(y, S, R)) = i
    BY DEF Ordered
  <2>4. Ordered(S, R)[i] \in S /\ Cardinality(UpTo(Ordered(S, R)[i], S, R)) = i
    BY <2>2, <2>3
  <2> QED
    BY <2>4
<1>7. Ordered(S, R) = [i \in 1 .. n |-> Ordered(S, R)[i]]
  BY DEF Ordered
<1> HIDE DEF place
<1>8. Ordered(S, R) \in [1 .. n -> S]
  BY <1>6, <1>7
<1>9. ASSUME NEW x \in S PROVE \E i \in 1 .. n : Ordered(S, R)[i] = x
  <2>1. place[x] \in 1 .. n
    BY <1>2
  <2>2. Ordered(S, R)[place[x]] = x
    BY <1>2, <1>6, <2>1
  <2> QED
    BY <2>1, <2>2
<1>10. \A i, j \in 1 .. n : i <= j <=> <<Ordered(S, R)[i], Ordered(S, R)[j]>> \in R
  BY <1>2, <1>6
<1>11. \A i, j \in 1 .. n : Ordered(S, R)[i] = Ordered(S, R)[j] => i = j
  BY <1>6
<1> QED
  BY <1>1, <1>8, <1>9, <1>10, <1>11

(* Numbers in their order.                                                  *)
LEMMA AscendingIsAscending ==
  ASSUME NEW S \in SUBSET Int, IsFiniteSet(S)
  PROVE  /\ Cardinality(S) \in Nat
         /\ Ascending(S) \in [1 .. Cardinality(S) -> S]
         /\ \A x \in S : \E i \in 1 .. Cardinality(S) : Ascending(S)[i] = x
         /\ \A i, j \in 1 .. Cardinality(S) : i <= j <=> Ascending(S)[i] <= Ascending(S)[j]
         /\ \A i, j \in 1 .. Cardinality(S) : Ascending(S)[i] = Ascending(S)[j] => i = j
<1> DEFINE R == {p \in S \X S : p[1] <= p[2]}
<1>1. \A x, y \in S : <<x, y>> \in R <=> x <= y
  OBVIOUS
<1>2. Ascending(S) = Ordered(S, R)
  BY DEF Ascending
<1> HIDE DEF R
<1>3. Orders(R, S)
  BY <1>1 DEF Orders
<1>4. /\ Cardinality(S) \in Nat
      /\ Ascending(S) \in [1 .. Cardinality(S) -> S]
      /\ \A x \in S : \E i \in 1 .. Cardinality(S) : Ascending(S)[i] = x
      /\ \A i, j \in 1 .. Cardinality(S) : Ascending(S)[i] = Ascending(S)[j] => i = j
  BY <1>2, <1>3, OrderedIsOrdered
<1>5. \A i, j \in 1 .. Cardinality(S) :
        i <= j <=> <<Ascending(S)[i], Ascending(S)[j]>> \in R
  BY <1>2, <1>3, OrderedIsOrdered
<1>6. \A i, j \in 1 .. Cardinality(S) : i <= j <=> Ascending(S)[i] <= Ascending(S)[j]
  BY <1>1, <1>4, <1>5
<1> QED
  BY <1>4, <1>6

(* The place an element has in Ordered is its own.                          *)
LEMMA PlaceInOrdered ==
  ASSUME NEW S, IsFiniteSet(S), NEW R, Orders(R, S), NEW i \in 1 .. Cardinality(S)
  PROVE  Cardinality(UpTo(Ordered(S, R)[i], S, R)) = i
<1>1. Cardinality(S) \in Nat /\ Ordered(S, R) \in [1 .. Cardinality(S) -> S]
  BY OrderedIsOrdered
<1> DEFINE f == [j \in 1 .. Cardinality(S) |-> Cardinality(UpTo(Ordered(S, R)[j], S, R))]
           n == Cardinality(S)
<1>2. \A j, k \in 1 .. n : /\ f[j] \in 1 .. n
                           /\ f[j] = f[k] => j = k
  <2> TAKE j, k \in 1 .. n
  <2>1. Ordered(S, R)[j] \in S /\ Ordered(S, R)[k] \in S
    BY <1>1
  <2>2. /\ Cardinality(UpTo(Ordered(S, R)[j], S, R)) \in 1 .. n
        /\ Cardinality(UpTo(Ordered(S, R)[j], S, R)) = Cardinality(UpTo(Ordered(S, R)[k], S, R))
             => Ordered(S, R)[j] = Ordered(S, R)[k]
    BY <2>1, PlacesFollowOrder
  <2>3. Ordered(S, R)[j] = Ordered(S, R)[k] => j = k
    BY OrderedIsOrdered
  <2> QED
    BY <2>2, <2>3
<1>3. f \in Injection(1 .. n, 1 .. n)
  BY <1>2 DEF Injection, IsInjective
<1>4. f \in Surjection(1 .. n, 1 .. n)
  BY <1>1, <1>3, FS_Interval, FS_Injection
<1>5. PICK j \in 1 .. n : f[j] = i
  BY <1>4 DEF Surjection
<1>6. Cardinality(UpTo(Ordered(S, R)[j], S, R)) = i /\ Ordered(S, R)[j] \in S
  BY <1>1, <1>5
<1>7. Ordered(S, R)[i] = CHOOSE x \in S : Cardinality(UpTo(x, S, R)) = i
  BY DEF Ordered
<1> QED
  BY <1>6, <1>7

(* The elements at the places from a to b.                                  *)
Stretch(f, a, b) == {f[i] : i \in a .. b}

(* As many elements as a range of places has.                               *)
LEMMA RangeOfPlaces ==
  ASSUME NEW S, NEW n \in Nat, NEW f \in [1 .. n -> S],
         \A i, j \in 1 .. n : f[i] = f[j] => i = j,
         NEW a \in 1 .. n, NEW b \in 1 .. n
  PROVE  /\ IsFiniteSet(Stretch(f, a, b))
         /\ Cardinality(Stretch(f, a, b)) = IF a <= b THEN b - a + 1 ELSE 0
<1> DEFINE T == {f[i] : i \in a .. b}
           g == [i \in a .. b |-> f[i]]
<1>1. \A i, j \in a .. b : i \in 1 .. n /\ g[i] = f[i] /\ (g[i] = g[j] => i = j)
  OBVIOUS
<1>2. g \in Bijection(a .. b, T)
  <2>1. g \in [a .. b -> T]
    OBVIOUS
  <2>2. \A t \in T : \E i \in a .. b : g[i] = t
    OBVIOUS
  <2> HIDE DEF g, T
  <2> QED
    BY <1>1, <2>1, <2>2 DEF Bijection, Injection, IsInjective, Surjection
<1>3. IsFiniteSet(a .. b) /\ Cardinality(a .. b) = IF a <= b THEN b - a + 1 ELSE 0
  <2>1. IsFiniteSet(a .. b) /\ Cardinality(a .. b) = IF a > b THEN 0 ELSE b - a + 1
    BY FS_Interval
  <2> QED
    BY <2>1
<1> HIDE DEF g, T
<1>4. IsFiniteSet(T) /\ Cardinality(T) = Cardinality(a .. b)
  <2> DEFINE D == a .. b
  <2>1. IsFiniteSet(D) /\ g \in Bijection(D, T)
    BY <1>2, <1>3
  <2> HIDE DEF D
  <2>2. IsFiniteSet(T) /\ Cardinality(T) = Cardinality(D)
    BY <2>1, FS_Bijection DEF ExistsBijection
  <2> QED
    BY <2>2 DEF D
<1> QED
  BY <1>3, <1>4 DEF T, Stretch

(* Of natural numbers there is a least one.                                 *)
LEMMA LeastNatural ==
  ASSUME NEW T, T \subseteq Nat, T # {}
  PROVE  \E m \in T : \A k \in T : m <= k
<1>1. PICK m \in T : \A k \in T : ~(<<k, m>> \in OpToRel(<, Nat))
  BY WFMin, NatLessThanWellFounded
<1>2. \A k \in Nat : k < m => <<k, m>> \in OpToRel(<, Nat)
  BY DEF OpToRel
<1>3. ASSUME NEW k \in T PROVE m <= k
  <2>1. m \in Nat /\ k \in Nat
    OBVIOUS
  <2>2. ~(k < m)
    BY <1>1, <1>2, <2>1
  <2> QED
    BY <2>1, <2>2
<1> QED
  BY <1>3

(* What holds of 0 and, with a number, of the next one, holds of all.       *)
LEMMA NaturalInduction ==
  ASSUME NEW T, 0 \in T, \A n \in Nat : n \in T => n + 1 \in T
  PROVE  Nat \subseteq T
<1> DEFINE Rest == Nat \ T
<1>1. SUFFICES ASSUME Rest # {} PROVE FALSE
  OBVIOUS
<1>2. PICK m \in Rest : \A k \in Rest : m <= k
  BY <1>1, LeastNatural
<1>4. m # 0 /\ m - 1 \in Nat /\ m - 1 < m
  OBVIOUS
<1>5. m - 1 \in T
  BY <1>2, <1>4
<1> QED
  BY <1>4, <1>5

(* A finite set of natural numbers has a greatest one.                      *)
LEMMA GreatestNatural ==
  ASSUME NEW S \in SUBSET Nat, IsFiniteSet(S), S # {}
  PROVE  \E m \in S : \A k \in S : k <= m
<1> DEFINE n == Cardinality(S)
<1>1. /\ n \in Nat
      /\ Ascending(S) \in [1 .. n -> S]
      /\ \A x \in S : \E i \in 1 .. n : Ascending(S)[i] = x
      /\ \A i, j \in 1 .. n : i <= j <=> Ascending(S)[i] <= Ascending(S)[j]
  BY AscendingIsAscending
<1>2. n # 0
  BY FS_EmptySet
<1> HIDE DEF n
<1>3. n \in 1 .. n
  BY <1>1, <1>2
<1>4. Ascending(S)[n] \in S
  BY <1>1, <1>3
<1>5. \A k \in S : k <= Ascending(S)[n]
  BY <1>1, <1>3
<1> QED
  BY <1>4, <1>5

(* A function on a finite set takes finitely many values.                   *)
LEMMA FiniteValues ==
  ASSUME NEW S, IsFiniteSet(S), NEW T, NEW f \in [S -> T]
  PROVE  IsFiniteSet({f[x] : x \in S})
<1> DEFINE Values == {f[x] : x \in S}
<1>1. f \in [S -> Values] /\ \A v \in Values : \E x \in S : f[x] = v
  OBVIOUS
<1> HIDE DEF Values
<1>2. f \in Surjection(S, Values)
  BY <1>1 DEF Surjection
<1>3. IsFiniteSet(Values)
  BY <1>2, FS_Surjection
<1> QED
  BY <1>3 DEF Values

(* The value of rank i is one of the values, and the first that i of them   *)
(* are not above.                                                           *)
LEMMA RankedIsRanked ==
  ASSUME NEW S, IsFiniteSet(S), NEW f \in [S -> Nat], NEW i \in 1 .. Cardinality(S)
  PROVE  /\ Ranked(f, i) \in {f[x] : x \in S}
         /\ Ranked(f, i) \in Nat
         /\ Cardinality({x \in S : f[x] < Ranked(f, i)}) < i
         /\ i <= Cardinality({x \in S : f[x] <= Ranked(f, i)})
<1> DEFINE Values == {f[x] : x \in S}
           Below(v) == {x \in S : f[x] < v}
           Within(v) == {x \in S : f[x] <= v}
           T == {v \in Nat : i <= Cardinality(Within(v))}
<1>1. Cardinality(S) \in Nat
  BY FS_CardinalityType
<1>2. \A v : /\ Cardinality(Below(v)) \in Nat /\ Cardinality(Within(v)) \in Nat
             /\ IsFiniteSet(Below(v)) /\ IsFiniteSet(Within(v))
  BY FS_Subset, FS_CardinalityType
<1>3. T # {}
  <2>1. Values \in SUBSET Nat
    OBVIOUS
  <2>5. IsFiniteSet(Values)
    BY FiniteValues
  <2>6. Values # {}
    BY FS_EmptySet
  <2>2. PICK m \in Nat : \A k \in Values : k <= m
    <3> HIDE DEF Values
    <3>1. PICK m \in Values : \A k \in Values : k <= m
      BY <2>1, <2>5, <2>6, GreatestNatural
    <3> QED
      BY <2>1, <3>1
  <2>3. Within(m) = S
    BY <2>2
  <2>4. m \in T
    BY <1>1, <2>3
  <2> QED
    BY <2>4
<1>4. PICK m \in T : \A k \in T : m <= k
  BY <1>3, LeastNatural
<1>5. m \in Nat /\ i <= Cardinality(Within(m))
  OBVIOUS
<1>6. Cardinality(Below(m)) < i
  <2>1. CASE m = 0
    <3>1. Below(m) = {}
      BY <2>1
    <3> QED
      BY <3>1, FS_EmptySet, <1>1
  <2>2. CASE m # 0
    <3>1. m - 1 \in Nat /\ ~(m <= m - 1)
      BY <1>5, <2>2
    <3>2. Below(m) = Within(m - 1)
      BY <1>5, <3>1
    <3>3. ~(i <= Cardinality(Within(m - 1)))
      BY <1>4, <3>1
    <3> HIDE DEF Below, Within
    <3> QED
      BY <1>1, <1>2, <3>2, <3>3
  <2> QED
    BY <2>1, <2>2
<1>7. m \in Values
  <2> SUFFICES ASSUME m \notin Values PROVE FALSE
    OBVIOUS
  <2>1. Within(m) = Below(m)
    BY <1>5
  <2> HIDE DEF Below, Within
  <2> QED
    BY <1>1, <1>2, <1>5, <1>6, <2>1
<1>8. Ranked(f, i) = CHOOSE v \in Values : Cardinality(Below(v)) < i /\ i <= Cardinality(Within(v))
  BY DEF Ranked
<1>9. /\ Ranked(f, i) \in Values
      /\ Cardinality(Below(Ranked(f, i))) < i /\ i <= Cardinality(Within(Ranked(f, i)))
  <2> HIDE DEF Values, Below, Within
  <2> QED
    BY <1>5, <1>6, <1>7, <1>8
<1> QED
  BY <1>9
===============================================================================
