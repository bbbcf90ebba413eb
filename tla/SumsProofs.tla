----------------------------- MODULE SumsProofs -----------------------------
(***************************************************************************)
(* Facts about SumOver: the number of units of finitely many rows.         *)
(***************************************************************************)
EXTENDS Sums, FiniteSetTheorems, TLAPS

(* A nonempty set of naturals has a least element. *)
LEMMA LeastNatural ==
  ASSUME NEW T \in SUBSET Nat, T # {}
  PROVE  \E x \in T : \A y \in T : x <= y
<1>1. PICK x \in T : \A y \in T : ~ (<<y, x>> \in OpToRel(<, Nat))
  BY NatLessThanWellFounded, WFMin
<1>2. \A y \in T : ~ (y < x)
  BY <1>1 DEF OpToRel
<1> QED BY <1>2

(* The units of finitely many rows are finitely many, so a sum is a number. *)
LEMMA UnitsFinite ==
  ASSUME NEW S, IsFiniteSet(S), NEW f \in [S -> Nat], NEW T \in SUBSET S
  PROVE  IsFiniteSet(Units(f, T))
<1> DEFINE box(x) == {x} \X (1..f[x])
           boxes == {box(x) : x \in T}
           F == [x \in T |-> box(x)]
<1>1. IsFiniteSet(T)
  BY FS_Subset
<1>2. F \in Surjection(T, boxes)
  BY DEF Surjection
<1>3. IsFiniteSet(boxes)
  BY <1>1, <1>2, FS_Surjection
<1>4. \A b \in boxes : IsFiniteSet(b)
  <2> SUFFICES ASSUME NEW x \in T PROVE IsFiniteSet(box(x))
    OBVIOUS
  <2>1. IsFiniteSet(1..f[x])
    BY FS_Interval
  <2>2. IsFiniteSet({x})
    BY FS_Singleton
  <2> QED BY <2>1, <2>2, FS_Product
<1>5. IsFiniteSet(UNION boxes)
  BY <1>3, <1>4, FS_UNION
<1> QED BY <1>5 DEF Units

LEMMA SumIsNat ==
  ASSUME NEW S, IsFiniteSet(S), NEW f \in [S -> Nat], NEW T \in SUBSET S
  PROVE  SumOver(f, T) \in Nat
BY UnitsFinite, FS_CardinalityType DEF SumOver

(* One row taken out of a sum. *)
LEMMA SumWithout ==
  ASSUME NEW S, IsFiniteSet(S), NEW f \in [S -> Nat], NEW x \in S
  PROVE  SumOver(f, S) = SumOver(f, S \ {x}) + f[x]
<1> DEFINE A == Units(f, S \ {x})
           B == {x} \X (1..f[x])
<1>1. Units(f, S) = A \cup B
  BY DEF Units
<1>2. A \cap B = {}
  BY DEF Units
<1>3. IsFiniteSet(A)
  BY UnitsFinite
<1>4. IsFiniteSet(B) /\ Cardinality(B) = f[x]
  <2>1. IsFiniteSet(1..f[x]) /\ Cardinality(1..f[x]) = f[x]
    BY FS_Interval
  <2>2. IsFiniteSet({x}) /\ Cardinality({x}) = 1
    BY FS_Singleton
  <2>3. IsFiniteSet(B) /\ Cardinality(B) = Cardinality({x}) * Cardinality(1..f[x])
    <3> HIDE DEF B
    <3>1. B = {x} \X (1..f[x])
      BY DEF B
    <3> QED BY ONLY <3>1, <2>1, <2>2, FS_Product
  <2>4. f[x] \in Nat
    OBVIOUS
  <2>5. Cardinality(B) = 1 * f[x]
    BY ONLY <2>1, <2>2, <2>3
  <2> QED BY ONLY <2>3, <2>4, <2>5
<1>5. Cardinality(A \cup B) = Cardinality(A) + Cardinality(B)
      - Cardinality(A \cap B)
  <2> HIDE DEF A, B
  <2> QED BY <1>3, <1>4, FS_Union
<1>6. Cardinality(A) \in Nat /\ Cardinality({}) = 0
  BY <1>3, FS_CardinalityType, FS_EmptySet
<1>7. SumOver(f, S) = Cardinality(A \cup B) /\ SumOver(f, S \ {x}) = Cardinality(A)
  BY <1>1 DEF SumOver
<1>8. f[x] \in Nat
  OBVIOUS
<1>9. Cardinality(A \cap B) = 0
  BY <1>2, <1>6
<1>10. Cardinality(A \cup B) = Cardinality(A) + f[x]
  <2> DEFINE u == Cardinality(A \cup B)
             a == Cardinality(A)
             b == Cardinality(B)
             c == Cardinality(A \cap B)
  <2>1. u = a + b - c /\ b = f[x] /\ c = 0 /\ a \in Nat /\ f[x] \in Nat
    BY <1>4, <1>5, <1>6, <1>8, <1>9
  <2> HIDE DEF u, a, b, c
  <2>2. u = a + f[x]
    BY <2>1
  <2> QED BY <2>2 DEF u, a
<1> QED BY ONLY <1>7, <1>10

(* A sum depends on the values of the summed rows alone. *)
LEMMA SumSame ==
  ASSUME NEW T, NEW f, NEW g, \A x \in T : f[x] = g[x]
  PROVE  SumOver(f, T) = SumOver(g, T)
<1>1. {{x} \X (1..f[x]) : x \in T} = {{x} \X (1..g[x]) : x \in T}
  OBVIOUS
<1> QED BY <1>1 DEF SumOver, Units

(* When one row changes, the sum changes as the row does. *)
LEMMA SumOneChanged ==
  ASSUME NEW S, IsFiniteSet(S), NEW f \in [S -> Nat], NEW g \in [S -> Nat],
         NEW x \in S, \A y \in S \ {x} : f[y] = g[y]
  PROVE  SumOver(g, S) = SumOver(f, S) - f[x] + g[x]
<1>1. SumOver(f, S \ {x}) = SumOver(g, S \ {x})
  BY SumSame
<1>2. SumOver(f, S \ {x}) \in Nat
  BY SumIsNat
<1>3. SumOver(f, S) = SumOver(f, S \ {x}) + f[x]
  BY SumWithout
<1>4. SumOver(g, S) = SumOver(g, S \ {x}) + g[x]
  BY SumWithout
<1> QED BY <1>1, <1>2, <1>3, <1>4

(* Rows without units add nothing. *)
LEMMA SumZero ==
  ASSUME NEW T, NEW f, \A x \in T : f[x] = 0
  PROVE  SumOver(f, T) = 0
<1>1. \A x \in T : {x} \X (1..f[x]) = {}
  OBVIOUS
<1>2. Units(f, T) = {}
  BY <1>1 DEF Units
<1> QED BY <1>2, FS_EmptySet DEF SumOver

-----------------------------------------------------------------------------
(* A set of parts of S that holds the empty part, and every part that it   *)
(* holds without one of its elements, holds S.                             *)
LEMMA PartsInduction ==
  ASSUME NEW S, IsFiniteSet(S), NEW G, {} \in G,
         \A D \in SUBSET S : \A x \in D : D \ {x} \in G => D \in G
  PROVE  S \in G
<1> SUFFICES ASSUME S \notin G PROVE FALSE
  OBVIOUS
<1> DEFINE sizes == {Cardinality(D) : D \in {T \in SUBSET S : T \notin G}}
<1>1. \A D \in SUBSET S : IsFiniteSet(D) /\ Cardinality(D) \in Nat
  BY FS_Subset, FS_CardinalityType
<1>2. sizes \in SUBSET Nat /\ sizes # {}
  BY <1>1
<1>3. PICK k \in sizes : \A m \in sizes : k <= m
  BY <1>2, LeastNatural
<1>4. PICK D \in SUBSET S : D \notin G /\ Cardinality(D) = k
  BY <1>3
<1>5. PICK x \in D : TRUE
  BY <1>4
<1>6. Cardinality(D \ {x}) = k - 1 /\ D \ {x} \in SUBSET S /\ k \in Nat
  BY <1>1, <1>4, <1>5, FS_RemoveElement
<1>7. D \ {x} \in G
  <2> SUFFICES ASSUME D \ {x} \notin G PROVE FALSE
    OBVIOUS
  <2>1. Cardinality(D \ {x}) \in sizes
    BY <1>6
  <2>2. k <= k - 1
    BY <1>3, <1>6, <2>1
  <2> QED BY <1>6, <2>2
<1> QED BY <1>4, <1>5, <1>7

(* Row by row, then in sum. *)
LEMMA SumOfTwo ==
  ASSUME NEW S, IsFiniteSet(S), NEW f \in [S -> Nat], NEW g \in [S -> Nat],
         NEW h \in [S -> Nat], \A x \in S : h[x] = f[x] + g[x]
  PROVE  SumOver(h, S) = SumOver(f, S) + SumOver(g, S)
<1> DEFINE G == {D \in SUBSET S : SumOver(h, D) = SumOver(f, D) + SumOver(g, D)}
<1>1. {} \in G
  BY SumZero
<1>2. ASSUME NEW D \in SUBSET S, NEW x \in D, D \ {x} \in G
      PROVE  D \in G
  <2>1. IsFiniteSet(D) /\ D \ {x} \in SUBSET S
    BY FS_Subset
  <2>2. ASSUME NEW e \in [S -> Nat]
        PROVE  /\ SumOver(e, D) = SumOver(e, D \ {x}) + e[x]
               /\ SumOver(e, D \ {x}) \in Nat
    <3> DEFINE r == [y \in D |-> e[y]]
    <3>1. r \in [D -> Nat] /\ r[x] = e[x]
      OBVIOUS
    <3>2. SumOver(r, D) = SumOver(e, D) /\ SumOver(r, D \ {x}) = SumOver(e, D \ {x})
      BY SumSame
    <3>3. SumOver(e, D \ {x}) \in Nat
      BY <2>1, SumIsNat
    <3> HIDE DEF r
    <3> QED BY <2>1, <3>1, <3>2, <3>3, SumWithout
  <2>3. SumOver(h, D \ {x}) = SumOver(f, D \ {x}) + SumOver(g, D \ {x})
    BY <1>2
  <2>4. h[x] = f[x] + g[x] /\ f[x] \in Nat /\ g[x] \in Nat
    BY <1>2
  <2>5. /\ SumOver(h, D) = SumOver(h, D \ {x}) + h[x]
        /\ SumOver(f, D) = SumOver(f, D \ {x}) + f[x]
        /\ SumOver(g, D) = SumOver(g, D \ {x}) + g[x]
        /\ SumOver(f, D \ {x}) \in Nat /\ SumOver(g, D \ {x}) \in Nat
    BY <2>2
  <2>6. SumOver(h, D) = SumOver(f, D) + SumOver(g, D)
    BY ONLY <2>3, <2>4, <2>5
  <2> QED BY <2>6
<1> HIDE DEF G
<1>3. S \in G
  BY <1>1, <1>2, PartsInduction
<1> QED BY <1>3 DEF G

(* Smaller rows have a smaller sum. *)
LEMMA SumIsMonotone ==
  ASSUME NEW S, IsFiniteSet(S), NEW f \in [S -> Nat], NEW g \in [S -> Nat],
         \A x \in S : f[x] <= g[x]
  PROVE  SumOver(f, S) <= SumOver(g, S)
<1> DEFINE d == [x \in S |-> g[x] - f[x]]
<1>1. d \in [S -> Nat] /\ \A x \in S : g[x] = f[x] + d[x]
  OBVIOUS
<1> HIDE DEF d
<1>2. SumOver(g, S) = SumOver(f, S) + SumOver(d, S)
  BY <1>1, SumOfTwo
<1>3. SumOver(f, S) \in Nat /\ SumOver(d, S) \in Nat
  BY <1>1, SumIsNat
<1> QED BY <1>2, <1>3

(* Rows without units may be left out of a sum. *)
LEMMA SumOfPart ==
  ASSUME NEW S, NEW T \in SUBSET S, NEW f, \A x \in S \ T : f[x] = 0
  PROVE  SumOver(f, S) = SumOver(f, T)
<1>1. \A x \in S \ T : {x} \X (1..f[x]) = {}
  OBVIOUS
<1>2. Units(f, S) = Units(f, T)
  BY <1>1 DEF Units
<1> QED BY <1>2 DEF SumOver

(* before[s] is the set of the rows of S that a sort puts before row s.    *)
Sorts(before, S) ==
  /\ before \in [S -> SUBSET S]
  /\ \A x \in S : x \notin before[x]
  /\ \A x, y \in S : x # y => x \in before[y] \/ y \in before[x]
  /\ \A x, y \in S : x \in before[y] => before[x] \subseteq before[y]

(* What the code's loops over sorted rows take in all: row by row as much  *)
(* as is there and still wanted of n.                                      *)
LEMMA GreedyTakesAll ==
  ASSUME NEW S, IsFiniteSet(S), NEW a \in [S -> Nat], NEW n \in Nat,
         NEW before, Sorts(before, S), NEW take \in [S -> Nat],
         \A x \in S : take[x] = AtLeastZero(Least(a[x], n - SumOver(a, before[x])))
  PROVE  SumOver(take, S) = Least(n, SumOver(a, S))
<1> DEFINE closed(D) == \A x \in D : before[x] \subseteq D
           G == {D \in SUBSET S : closed(D) => SumOver(take, D) = Least(n, SumOver(a, D))}
           size(D) == Cardinality(D)
           sizes == {size(D) : D \in {T \in SUBSET S : T \notin G}}
<1> SUFFICES ASSUME S \notin G PROVE FALSE
  BY DEF Sorts
<1> USE DEF Sorts
<1>1. \A D \in SUBSET S : IsFiniteSet(D) /\ size(D) \in Nat
  BY FS_Subset, FS_CardinalityType
<1>2. PICK k \in sizes : \A m \in sizes : k <= m
  <2>1. sizes \in SUBSET Nat /\ sizes # {}
    BY <1>1
  <2> HIDE DEF sizes
  <2> QED BY <2>1, LeastNatural
<1>3. PICK D \in SUBSET S : D \notin G /\ size(D) = k
  BY <1>2
<1>4. closed(D) /\ SumOver(take, D) # Least(n, SumOver(a, D))
  BY <1>3
<1>5. D # {}
  <2>1. SumOver(take, {}) = 0 /\ SumOver(a, {}) = 0
    BY SumZero
  <2>2. Least(n, 0) = 0
    BY DEF Least
  <2> QED BY <1>4, <2>1, <2>2
<1>6. PICK x \in D : \A y \in D : size(before[y]) <= size(before[x])
  <2> DEFINE rest == {size(S) - size(before[y]) : y \in D}
  <2>1. \A y \in D : size(before[y]) \in Nat /\ size(before[y]) <= size(S)
    BY <1>1, FS_Subset
  <2>2. size(S) \in Nat
    BY <1>1
  <2> HIDE DEF size
  <2>3. rest \in SUBSET Nat /\ rest # {}
    BY <1>5, <2>1, <2>2
  <2>4. PICK r \in rest : \A q \in rest : r <= q
    BY <2>3, LeastNatural
  <2>5. PICK z \in D : r = size(S) - size(before[z])
    BY <2>4
  <2>6. \A y \in D : size(S) - size(before[z]) <= size(S) - size(before[y])
    BY <2>4, <2>5
  <2>7. \A y \in D : size(before[y]) <= size(before[z])
    BY <2>1, <2>2, <2>6
  <2> QED BY <2>7
<1>7. before[x] = D \ {x}
  <2>1. before[x] \subseteq D \ {x}
    BY <1>4
  <2>2. ASSUME NEW y \in D, y # x, y \notin before[x] PROVE FALSE
    <3>1. x \in before[y] /\ before[x] \subseteq before[y] /\ x \notin before[x]
      BY <2>2
    <3>2. IsFiniteSet(before[y]) /\ before[x] # before[y]
      BY <1>1, <3>1
    <3>3. size(before[x]) < size(before[y])
      BY <3>1, <3>2, FS_Subset, <1>1
    <3> QED BY <1>1, <1>6, <3>3
  <2> QED BY <2>1, <2>2
<1>8. SumOver(take, before[x]) = Least(n, SumOver(a, before[x]))
  <2>1. size(before[x]) = k - 1 /\ k \in Nat
    BY <1>1, <1>3, <1>7, FS_RemoveElement
  <2>2. before[x] \in SUBSET S /\ closed(before[x])
    OBVIOUS
  <2>3. before[x] \in G
    <3> SUFFICES ASSUME before[x] \notin G PROVE FALSE
      OBVIOUS
    <3>1. size(before[x]) \in sizes
      BY <2>2
    <3>2. k <= k - 1
      BY <1>2, <2>1, <3>1
    <3> QED BY <2>1, <3>2
  <2> QED BY <2>2, <2>3
<1>9. ASSUME NEW e \in [S -> Nat]
      PROVE  /\ SumOver(e, D) = SumOver(e, before[x]) + e[x]
             /\ SumOver(e, before[x]) \in Nat
  <2> DEFINE r == [y \in D |-> e[y]]
  <2>1. r \in [D -> Nat] /\ r[x] = e[x]
    OBVIOUS
  <2>2. SumOver(r, D) = SumOver(e, D) /\ SumOver(r, D \ {x}) = SumOver(e, D \ {x})
    BY SumSame
  <2>3. SumOver(e, D \ {x}) \in Nat
    BY SumIsNat
  <2>4. IsFiniteSet(D)
    BY <1>1
  <2> HIDE DEF r
  <2> QED BY <1>7, <2>1, <2>2, <2>3, <2>4, SumWithout
<1> DEFINE A == SumOver(a, before[x])
<1>10. SumOver(take, D) = Least(n, A) + AtLeastZero(Least(a[x], n - A))
  BY <1>8, <1>9
<1>11. SumOver(a, D) = A + a[x] /\ A \in Nat /\ a[x] \in Nat
  BY <1>9
<1> HIDE DEF A
<1>12. Least(n, A) + AtLeastZero(Least(a[x], n - A)) = Least(n, A + a[x])
  BY <1>11 DEF Least, AtLeastZero
<1> QED BY <1>4, <1>10, <1>11, <1>12

-----------------------------------------------------------------------------
(* Sums of functions that may be negative.                                 *)
LEMMA NetSumIsInt ==
  ASSUME NEW S, IsFiniteSet(S), NEW f \in [S -> Int]
  PROVE  NetSum(f, S) \in Int
<1> DEFINE ups == [x \in S |-> AtLeastZero(f[x])]  downs == [x \in S |-> AtLeastZero(-f[x])]
<1>1. ups \in [S -> Nat] /\ downs \in [S -> Nat]
  BY DEF AtLeastZero
<1>2. NetSum(f, S) = SumOver(ups, S) - SumOver(downs, S)
  BY DEF NetSum
<1> HIDE DEF ups, downs
<1>3. SumOver(ups, S) \in Nat /\ SumOver(downs, S) \in Nat
  BY <1>1, SumIsNat
<1> QED BY <1>2, <1>3

LEMMA NetSumZero ==
  ASSUME NEW S, NEW f, \A x \in S : f[x] = 0
  PROVE  NetSum(f, S) = 0
<1> DEFINE ups == [x \in S |-> AtLeastZero(f[x])]  downs == [x \in S |-> AtLeastZero(-f[x])]
<1>1. \A x \in S : ups[x] = 0 /\ downs[x] = 0
  BY DEF AtLeastZero
<1>2. NetSum(f, S) = SumOver(ups, S) - SumOver(downs, S)
  BY DEF NetSum
<1> HIDE DEF ups, downs
<1>3. SumOver(ups, S) = 0
  BY <1>1, SumZero
<1>4. SumOver(downs, S) = 0
  BY <1>1, SumZero
<1> QED BY <1>2, <1>3, <1>4

LEMMA NetSumOneChanged ==
  ASSUME NEW S, IsFiniteSet(S), NEW f \in [S -> Int], NEW g \in [S -> Int],
         NEW x \in S, \A y \in S \ {x} : f[y] = g[y]
  PROVE  NetSum(g, S) = NetSum(f, S) - f[x] + g[x]
<1> DEFINE up(h) == [y \in S |-> AtLeastZero(h[y])]  down(h) == [y \in S |-> AtLeastZero(-h[y])]
           fu == up(f)  fd == down(f)  gu == up(g)  gd == down(g)
<1>1. /\ fu \in [S -> Nat] /\ fd \in [S -> Nat] /\ gu \in [S -> Nat] /\ gd \in [S -> Nat]
  BY DEF AtLeastZero
<1>2. /\ NetSum(f, S) = SumOver(fu, S) - SumOver(fd, S)
      /\ NetSum(g, S) = SumOver(gu, S) - SumOver(gd, S)
  BY DEF NetSum
<1>3. fu[x] - fd[x] = f[x] /\ gu[x] - gd[x] = g[x]
  BY DEF AtLeastZero
<1>4. \A y \in S \ {x} : fu[y] = gu[y] /\ fd[y] = gd[y]
  OBVIOUS
<1> HIDE DEF fu, fd, gu, gd
<1>5. SumOver(gu, S) = SumOver(fu, S) - fu[x] + gu[x]
  <2>1. \A y \in S \ {x} : fu[y] = gu[y]
    BY <1>4
  <2> QED BY <1>1, <2>1, SumOneChanged
<1>6. SumOver(gd, S) = SumOver(fd, S) - fd[x] + gd[x]
  <2>1. \A y \in S \ {x} : fd[y] = gd[y]
    BY <1>4
  <2> QED BY <1>1, <2>1, SumOneChanged
<1>7. /\ SumOver(gu, S) \in Nat /\ SumOver(fu, S) \in Nat
      /\ SumOver(gd, S) \in Nat /\ SumOver(fd, S) \in Nat
  BY <1>1, SumIsNat
<1> QED BY <1>1, <1>2, <1>3, <1>5, <1>6, <1>7

(* A sum of one row.                                                       *)
LEMMA NetSumOfOne ==
  ASSUME NEW x, NEW f \in [{x} -> Int]
  PROVE  NetSum(f, {x}) = f[x]
<1> DEFINE none == [y \in {x} |-> 0]
<1>1. IsFiniteSet({x})
  BY FS_Singleton
<1>2. none \in [{x} -> Int] /\ none[x] = 0 /\ \A y \in {x} : none[y] = 0
  OBVIOUS
<1> HIDE DEF none
<1>3. NetSum(none, {x}) = 0
  BY <1>2, NetSumZero
<1>4. \A y \in {x} \ {x} : none[y] = f[y]
  OBVIOUS
<1>5. NetSum(f, {x}) = NetSum(none, {x}) - none[x] + f[x]
  BY <1>1, <1>2, <1>4, NetSumOneChanged
<1> QED BY <1>2, <1>3, <1>5

(* One row more at the end of the rows 1..n.                               *)
LEMMA SumAppended ==
  ASSUME NEW n \in Nat, NEW f \in [1..n -> Nat], NEW g \in [1..(n + 1) -> Nat],
         \A i \in 1..n : g[i] = f[i]
  PROVE  SumOver(g, 1..(n + 1)) = SumOver(f, 1..n) + g[n + 1]
<1>0. n + 1 \in Nat /\ n + 1 \in 1..(n + 1) /\ (1..(n + 1)) \ {n + 1} = 1..n
  OBVIOUS
<1>1. IsFiniteSet(1..(n + 1))
  BY <1>0, FS_Interval
<1>2. SumOver(g, 1..(n + 1)) = SumOver(g, 1..n) + g[n + 1]
  BY <1>0, <1>1, SumWithout
<1>3. SumOver(g, 1..n) = SumOver(f, 1..n)
  BY SumSame
<1> QED BY <1>2, <1>3

(* A sum of naturals is zero only if every row is.                         *)
LEMMA SumIsZero ==
  ASSUME NEW S, IsFiniteSet(S), NEW f \in [S -> Nat], SumOver(f, S) = 0, NEW x \in S
  PROVE  f[x] = 0
<1>1. SumOver(f, S) = SumOver(f, S \ {x}) + f[x]
  BY SumWithout
<1>2. SumOver(f, S \ {x}) \in Nat /\ f[x] \in Nat
  BY SumIsNat
<1> QED BY <1>1, <1>2
===============================================================================
