-------------------------- MODULE ExternalSortProofs ------------------------
(***************************************************************************)
(* Proofs about ExternalSort: for every file, every size of the memory and *)
(* every number of runs that are merged at a time, the output is the       *)
(* input, sorted.                                                          *)
(***************************************************************************)
EXTENDS ExternalSort, FiniteSetTheorems, WellFoundedInduction, TLAPS

---------------------------------------------------------------------------
(* Parts of files with the same numbers *)

\* The positions A of file a hold the numbers that the positions B of file b hold: the
\* function says which of b the one of a is.
Holds(a, A, b, B) ==
  \E h \in [A -> B] : /\ \A i, j \in A : h[i] = h[j] => i = j
                      /\ \A k \in B : \E i \in A : h[i] = k
                      /\ \A i \in A : a[i] = b[h[i]]

\* No position holds what no position holds.
LEMMA HoldsNone == ASSUME NEW a, NEW b PROVE Holds(a, {}, b, {})
<1> DEFINE h == [i \in {} |-> i]
<1>1. h \in [{} -> {}]
  OBVIOUS
<1> QED
  BY <1>1 DEF Holds

\* One number more.
LEMMA HoldsOneMore ==
  ASSUME NEW a, NEW A, NEW b, NEW B, Holds(a, A, b, B), NEW c, NEW x, NEW y,
         x \notin A, y \notin B, c[x] = b[y], \A i \in A : c[i] = a[i]
  PROVE  Holds(c, A \cup {x}, b, B \cup {y})
<1>1. PICK h \in [A -> B] : /\ \A i, j \in A : h[i] = h[j] => i = j
                            /\ \A k \in B : \E i \in A : h[i] = k
                            /\ \A i \in A : a[i] = b[h[i]]
  BY Zenon DEF Holds
<1> DEFINE g == [i \in A \cup {x} |-> IF i = x THEN y ELSE h[i]]
<1>2. /\ g \in [A \cup {x} -> B \cup {y}]
      /\ g[x] = y /\ \A i \in A : g[i] = h[i] /\ h[i] \in B
  OBVIOUS
<1> HIDE DEF g
<1>3. \A i, j \in A \cup {x} : g[i] = g[j] => i = j
  BY <1>1, <1>2
<1>4. \A k \in B \cup {y} : \E i \in A \cup {x} : g[i] = k
  BY <1>1, <1>2
<1>5. \A i \in A \cup {x} : c[i] = b[g[i]]
  BY <1>1, <1>2
<1> QED
  BY <1>2, <1>3, <1>4, <1>5, Zenon DEF Holds

\* The correspondence can be read the other way.
LEMMA HoldsInverse ==
  ASSUME NEW a, NEW A, NEW b, NEW B, Holds(a, A, b, B) PROVE Holds(b, B, a, A)
<1>1. PICK h \in [A -> B] : /\ \A i, j \in A : h[i] = h[j] => i = j
                            /\ \A k \in B : \E i \in A : h[i] = k
                            /\ \A i \in A : a[i] = b[h[i]]
  BY Zenon DEF Holds
<1> DEFINE g == [k \in B |-> CHOOSE i \in A : h[i] = k]
<1>2. ASSUME NEW k \in B PROVE g[k] \in A /\ h[g[k]] = k
  BY <1>1
<1>3. g \in [B -> A]
  BY <1>2
<1> HIDE DEF g
<1>4. \A i, j \in B : g[i] = g[j] => i = j
  BY <1>2
<1>5. \A k \in A : \E i \in B : g[i] = k
  BY <1>1, <1>2
<1>6. \A i \in B : b[i] = a[g[i]]
  BY <1>1, <1>2
<1> QED
  BY <1>3, <1>4, <1>5, <1>6, Zenon DEF Holds

\* What file a holds as b does, and b as c does, a holds as c does.
LEMMA HoldsThrough ==
  ASSUME NEW a, NEW A, NEW b, NEW B, NEW c, NEW C, Holds(a, A, b, B), Holds(b, B, c, C)
  PROVE  Holds(a, A, c, C)
<1>1. PICK h \in [A -> B] : /\ \A i, j \in A : h[i] = h[j] => i = j
                            /\ \A k \in B : \E i \in A : h[i] = k
                            /\ \A i \in A : a[i] = b[h[i]]
  BY Zenon DEF Holds
<1>2. PICK f \in [B -> C] : /\ \A i, j \in B : f[i] = f[j] => i = j
                            /\ \A k \in C : \E i \in B : f[i] = k
                            /\ \A i \in B : b[i] = c[f[i]]
  BY Zenon DEF Holds
<1> DEFINE g == [i \in A |-> f[h[i]]]
<1>3. g \in [A -> C] /\ \A i \in A : g[i] = f[h[i]] /\ h[i] \in B
  OBVIOUS
<1> HIDE DEF g
<1>4. \A i, j \in A : g[i] = g[j] => i = j
  BY <1>1, <1>2, <1>3
<1>5. \A k \in C : \E i \in A : g[i] = k
  BY <1>1, <1>2, <1>3
<1>6. \A i \in A : a[i] = c[g[i]]
  BY <1>1, <1>2, <1>3
<1> QED
  BY <1>3, <1>4, <1>5, <1>6, Zenon DEF Holds

\* Two parts that have nothing in common.
LEMMA HoldsBoth ==
  ASSUME NEW a, NEW A, NEW b, NEW B, NEW C, NEW D, Holds(a, A, b, B), Holds(a, C, b, D),
         A \cap C = {}, B \cap D = {}
  PROVE  Holds(a, A \cup C, b, B \cup D)
<1>1. PICK h \in [A -> B] : /\ \A i, j \in A : h[i] = h[j] => i = j
                            /\ \A k \in B : \E i \in A : h[i] = k
                            /\ \A i \in A : a[i] = b[h[i]]
  BY Zenon DEF Holds
<1>2. PICK f \in [C -> D] : /\ \A i, j \in C : f[i] = f[j] => i = j
                            /\ \A k \in D : \E i \in C : f[i] = k
                            /\ \A i \in C : a[i] = b[f[i]]
  BY Zenon DEF Holds
<1> DEFINE g == [i \in A \cup C |-> IF i \in A THEN h[i] ELSE f[i]]
<1>3. /\ g \in [A \cup C -> B \cup D]
      /\ \A i \in A : g[i] = h[i] /\ h[i] \in B
      /\ \A i \in C : g[i] = f[i] /\ f[i] \in D
  OBVIOUS
<1> HIDE DEF g
<1>4. \A i, j \in A \cup C : g[i] = g[j] => i = j
  <2> SUFFICES ASSUME NEW i \in A \cup C, NEW j \in A \cup C, g[i] = g[j] PROVE i = j
    OBVIOUS
  <2>1. CASE i \in A /\ j \in A
    BY <1>1, <1>3, <2>1
  <2>2. CASE i \in C /\ j \in C
    BY <1>2, <1>3, <2>2
  <2>3. CASE i \in A /\ j \in C
    BY <1>3, <2>3
  <2>4. CASE i \in C /\ j \in A
    BY <1>3, <2>4
  <2> QED
    BY <2>1, <2>2, <2>3, <2>4
<1>5. \A k \in B \cup D : \E i \in A \cup C : g[i] = k
  BY <1>1, <1>2, <1>3
<1>6. \A i \in A \cup C : a[i] = b[g[i]]
  BY <1>1, <1>2, <1>3
<1> QED
  BY <1>3, <1>4, <1>5, <1>6, Zenon DEF Holds

\* The part of the file that matters is the one that is held.
LEMMA HoldsStill ==
  ASSUME NEW a, NEW A, NEW b, NEW B, Holds(a, A, b, B), NEW c, \A i \in A : c[i] = a[i]
  PROVE  Holds(c, A, b, B)
<1>1. PICK h \in [A -> B] : /\ \A i, j \in A : h[i] = h[j] => i = j
                            /\ \A k \in B : \E i \in A : h[i] = k
                            /\ \A i \in A : a[i] = b[h[i]]
  BY Zenon DEF Holds
<1>2. \A i \in A : c[i] = b[h[i]]
  BY <1>1
<1> QED
  BY <1>1, <1>2, Zenon DEF Holds

\* A file that was sorted apart is put where it came from.
LEMMA HoldsMoved ==
  ASSUME NEW a, NEW b, NEW c, NEW d, NEW m \in Nat, NEW n \in Nat,
         Holds(a, 1 .. n, b, 1 .. n),
         \A i \in 1 .. n : c[m + i] = a[i], \A i \in 1 .. n : d[m + i] = b[i]
  PROVE  Holds(c, m + 1 .. m + n, d, m + 1 .. m + n)
<1>1. PICK h \in [1 .. n -> 1 .. n] : /\ \A i, j \in 1 .. n : h[i] = h[j] => i = j
                                      /\ \A k \in 1 .. n : \E i \in 1 .. n : h[i] = k
                                      /\ \A i \in 1 .. n : a[i] = b[h[i]]
  BY Zenon DEF Holds
<1> DEFINE g == [i \in m + 1 .. m + n |-> m + h[i - m]]
<1>2. ASSUME NEW i \in m + 1 .. m + n
      PROVE  i - m \in 1 .. n /\ h[i - m] \in 1 .. n /\ m + (i - m) = i /\ g[i] = m + h[i - m]
  OBVIOUS
<1>3. g \in [m + 1 .. m + n -> m + 1 .. m + n]
  BY <1>2
<1> HIDE DEF g
<1>4. \A i, j \in m + 1 .. m + n : g[i] = g[j] => i = j
  <2> SUFFICES ASSUME NEW i \in m + 1 .. m + n, NEW j \in m + 1 .. m + n, g[i] = g[j] PROVE i = j
    OBVIOUS
  <2>1. h[i - m] = h[j - m]
    BY <1>2
  <2>2. i - m = j - m
    BY <1>1, <1>2, <2>1
  <2> QED
    BY <2>2
<1>5. \A k \in m + 1 .. m + n : \E i \in m + 1 .. m + n : g[i] = k
  <2> SUFFICES ASSUME NEW k \in m + 1 .. m + n PROVE \E i \in m + 1 .. m + n : g[i] = k
    OBVIOUS
  <2>1. PICK j \in 1 .. n : h[j] = k - m
    BY <1>1, <1>2
  <2>2. m + j \in m + 1 .. m + n /\ m + j - m = j
    OBVIOUS
  <2>3. g[m + j] = k
    BY <1>2, <2>1, <2>2
  <2> QED
    BY <2>2, <2>3
<1>6. \A i \in m + 1 .. m + n : c[i] = d[g[i]]
  <2> SUFFICES ASSUME NEW i \in m + 1 .. m + n PROVE c[i] = d[g[i]]
    OBVIOUS
  <2>1. c[i] = a[i - m] /\ a[i - m] = b[h[i - m]] /\ d[m + h[i - m]] = b[h[i - m]]
    BY <1>1, <1>2
  <2> QED
    BY <1>2, <2>1
<1> QED
  BY <1>3, <1>4, <1>5, <1>6, Zenon DEF Holds

\* Positions that hold the same numbers are as many.
LEMMA HoldsAsMany ==
  ASSUME NEW a, NEW A, NEW b, NEW B, Holds(a, A, b, B), IsFiniteSet(A)
  PROVE  IsFiniteSet(B) /\ Cardinality(A) = Cardinality(B)
<1>1. PICK h \in [A -> B] : /\ \A i, j \in A : h[i] = h[j] => i = j
                            /\ \A k \in B : \E i \in A : h[i] = k
  BY Zenon DEF Holds
<1>2. h \in Bijection(A, B)
  BY <1>1, Zenon DEF Bijection, Injection, Surjection, IsInjective
<1> QED
  BY <1>2, FS_Bijection DEF ExistsBijection

\* Files that correspond over their whole length have the same numbers, in the sense of the
\* comparison at the end of the program.
LEMMA HoldsSameNumbers ==
  ASSUME NEW a, NEW b, Holds(a, DOMAIN a, b, DOMAIN b), IsFiniteSet(DOMAIN a)
  PROVE  SameNumbers(a, b)
<1>1. PICK h \in [DOMAIN a -> DOMAIN b] :
        /\ \A i, j \in DOMAIN a : h[i] = h[j] => i = j
        /\ \A k \in DOMAIN b : \E i \in DOMAIN a : h[i] = k
        /\ \A i \in DOMAIN a : a[i] = b[h[i]]
  BY Zenon DEF Holds
<1>2. ASSUME NEW value
      PROVE  Cardinality({i \in DOMAIN a : a[i] = value}) = Cardinality({i \in DOMAIN b : b[i] = value})
  <2> DEFINE A == {i \in DOMAIN a : a[i] = value}
             B == {i \in DOMAIN b : b[i] = value}
             g == [i \in A |-> h[i]]
  <2>1. g \in [A -> B] /\ \A i \in A : g[i] = h[i] /\ i \in DOMAIN a
    BY <1>1
  <2>2. \A i, j \in A : g[i] = g[j] => i = j
    BY <1>1, <2>1
  <2>3. \A k \in B : \E i \in A : g[i] = k
    BY <1>1, <2>1
  <2>4. IsFiniteSet(A)
    BY FS_Subset
  <2> HIDE DEF A, B, g
  <2>5. g \in Bijection(A, B)
    BY <2>1, <2>2, <2>3, Zenon DEF Bijection, Injection, Surjection, IsInjective
  <2>6. Cardinality(A) = Cardinality(B)
    BY <2>4, <2>5, FS_Bijection DEF ExistsBijection
  <2> QED
    BY <2>6 DEF A, B
<1> QED
  BY <1>2 DEF SameNumbers
---------------------------------------------------------------------------
(* std::sort *)

\* The positions from from + 1 to to are in order.
LEMMA AscendingIs ==
  ASSUME NEW f, NEW m, NEW n, \A i, j \in m + 1 .. n : i <= j => f[i] <= f[j]
  PROVE  IsAscending(f, m, n)
<1>1. \A i, j \in m + 1 .. n : i < j => i <= j
  OBVIOUS
<1> QED
  BY <1>1 DEF IsAscending

\* The ranks are the positions of the sorted file: each number has one of its own.
LEMMA RanksAreOrdered ==
  ASSUME NEW n \in Nat, NEW f \in [1 .. n -> Nat], NEW i \in 1 .. n, NEW j \in 1 .. n,
         f[i] < f[j] \/ (f[i] = f[j] /\ i < j)
  PROVE  Rank(f, i) < Rank(f, j)
<1> DEFINE Upto(x) == {k \in 1 .. n : f[k] < f[x] \/ (f[k] = f[x] /\ k <= x)}
<1>1. Rank(f, i) = Cardinality(Upto(i)) /\ Rank(f, j) = Cardinality(Upto(j))
  BY DEF Rank
<1>2. IsFiniteSet(1 .. n)
  BY FS_Interval
<1>3. IsFiniteSet(Upto(j))
  BY <1>2, FS_Subset
<1>4. Upto(i) \subseteq Upto(j)
  <2> SUFFICES ASSUME NEW k \in Upto(i) PROVE k \in Upto(j)
    OBVIOUS
  <2>1. f[k] \in Nat /\ f[i] \in Nat /\ f[j] \in Nat /\ k \in Nat /\ i \in Nat /\ j \in Nat
    OBVIOUS
  <2> QED
    BY <2>1
<1>5. j \in Upto(j)
  OBVIOUS
<1>6. j \notin Upto(i)
  <2>1. f[i] \in Nat /\ f[j] \in Nat /\ i \in Nat /\ j \in Nat
    OBVIOUS
  <2> QED
    BY <2>1
<1> HIDE DEF Upto
<1>7. Cardinality(Upto(i)) <= Cardinality(Upto(j)) /\ Cardinality(Upto(i)) # Cardinality(Upto(j))
  BY <1>3, <1>4, <1>5, <1>6, FS_Subset
<1>8. Cardinality(Upto(i)) \in Nat /\ Cardinality(Upto(j)) \in Nat
  BY <1>3, <1>4, FS_Subset, FS_CardinalityType
<1> QED
  BY <1>1, <1>7, <1>8

\* The ranks of the numbers of a part are its positions, one each, and follow the numbers.
LEMMA RanksArePositions ==
  ASSUME NEW n \in Nat, NEW f \in [1 .. n -> Nat]
  PROVE  /\ \A i \in 1 .. n : Rank(f, i) \in 1 .. n
         /\ \A i, j \in 1 .. n : Rank(f, i) = Rank(f, j) => i = j
         /\ \A k \in 1 .. n : \E i \in 1 .. n : Rank(f, i) = k
         /\ \A i, j \in 1 .. n : Rank(f, i) <= Rank(f, j) => f[i] <= f[j]
<1>1. IsFiniteSet(1 .. n) /\ Cardinality(1 .. n) = n
  BY FS_Interval
<1>2. ASSUME NEW i \in 1 .. n PROVE Rank(f, i) \in 1 .. n
  <2> DEFINE U == {k \in 1 .. n : f[k] < f[i] \/ (f[k] = f[i] /\ k <= i)}
  <2>1. Rank(f, i) = Cardinality(U) /\ U \subseteq 1 .. n /\ i \in U
    BY DEF Rank
  <2> HIDE DEF U
  <2>2. IsFiniteSet(U) /\ Cardinality(U) <= n
    BY <1>1, <2>1, FS_Subset
  <2>3. Cardinality(U) \in Nat /\ Cardinality(U) # 0
    BY <2>1, <2>2, FS_CardinalityType, FS_EmptySet
  <2> QED
    BY <2>1, <2>2, <2>3
<1>3. \A i, j \in 1 .. n : Rank(f, i) = Rank(f, j) => i = j
  <2> SUFFICES ASSUME NEW i \in 1 .. n, NEW j \in 1 .. n, i # j PROVE Rank(f, i) # Rank(f, j)
    OBVIOUS
  <2>1. f[i] \in Nat /\ f[j] \in Nat /\ Rank(f, i) \in Nat /\ Rank(f, j) \in Nat
    <3>1. Rank(f, i) \in 1 .. n /\ Rank(f, j) \in 1 .. n
      BY <1>2
    <3> QED
      BY <3>1
  <2>2. CASE f[i] < f[j] \/ (f[i] = f[j] /\ i < j)
    BY <2>1, <2>2, RanksAreOrdered
  <2>3. CASE f[j] < f[i] \/ (f[j] = f[i] /\ j < i)
    BY <2>1, <2>3, RanksAreOrdered
  <2> QED
    BY <2>1, <2>2, <2>3
<1>4. \A k \in 1 .. n : \E i \in 1 .. n : Rank(f, i) = k
  <2> DEFINE r == [i \in 1 .. n |-> Rank(f, i)]
  <2>1. r \in [1 .. n -> 1 .. n] /\ \A i \in 1 .. n : r[i] = Rank(f, i)
    BY <1>2
  <2> HIDE DEF r
  <2>2. r \in Injection(1 .. n, 1 .. n)
    BY <1>3, <2>1, Zenon DEF Injection, IsInjective
  <2>3. r \in Surjection(1 .. n, 1 .. n)
    BY <1>1, <2>2, FS_Injection
  <2>4. \A k \in 1 .. n : \E i \in 1 .. n : r[i] = k
    BY <2>3, Zenon DEF Surjection
  <2> QED
    BY <2>1, <2>4
<1>5. ASSUME NEW i \in 1 .. n, NEW j \in 1 .. n, Rank(f, i) <= Rank(f, j) PROVE f[i] <= f[j]
  <2>1. f[i] \in Nat /\ f[j] \in Nat /\ Rank(f, i) \in Nat /\ Rank(f, j) \in Nat
    BY <1>2
  <2>2. f[j] < f[i] => Rank(f, j) < Rank(f, i)
    BY RanksAreOrdered
  <2> QED
    BY <1>5, <2>1, <2>2
<1> QED
  BY <1>2, <1>3, <1>4, <1>5

\* Sorting puts the same numbers in order.
LEMMA SortedIsAscending ==
  ASSUME NEW n \in Nat, NEW f \in [1 .. n -> Nat]
  PROVE  /\ Sorted(f) \in [1 .. n -> Nat]
         /\ \A i, j \in 1 .. n : i <= j => Sorted(f)[i] <= Sorted(f)[j]
         /\ Holds(Sorted(f), 1 .. n, f, 1 .. n)
<1> DEFINE h == [i \in 1 .. n |-> CHOOSE j \in 1 .. n : Rank(f, j) = i]
<1>1. ASSUME NEW i \in 1 .. n PROVE h[i] \in 1 .. n /\ Rank(f, h[i]) = i
  <2>1. \E j \in 1 .. n : Rank(f, j) = i
    BY RanksArePositions
  <2>2. h[i] = CHOOSE j \in 1 .. n : Rank(f, j) = i
    OBVIOUS
  <2> HIDE DEF h
  <2> QED
    BY <2>1, <2>2, Zenon
<1>2. Sorted(f) = [i \in 1 .. n |-> f[h[i]]]
  BY DEF Sorted
<1>3. h \in [1 .. n -> 1 .. n]
  BY <1>1
<1> HIDE DEF h
<1>4. \A i \in 1 .. n : Sorted(f)[i] = f[h[i]]
  BY <1>2
<1>5. Sorted(f) \in [1 .. n -> Nat]
  BY <1>2, <1>3
<1>6. \A i, j \in 1 .. n : i <= j => Sorted(f)[i] <= Sorted(f)[j]
  <2> SUFFICES ASSUME NEW i \in 1 .. n, NEW j \in 1 .. n, i <= j PROVE f[h[i]] <= f[h[j]]
    BY <1>4
  <2>1. PICK x, y \in 1 .. n : x = h[i] /\ y = h[j]
    BY <1>1
  <2>2. Rank(f, x) = i /\ Rank(f, y) = j
    BY <1>1, <2>1
  <2>3. Rank(f, x) <= Rank(f, y) => f[x] <= f[y]
    BY RanksArePositions
  <2> QED
    BY <2>1, <2>2, <2>3
<1>7. \A i, j \in 1 .. n : h[i] = h[j] => i = j
  BY <1>1
<1>8. \A k \in 1 .. n : \E i \in 1 .. n : h[i] = k
  <2> SUFFICES ASSUME NEW k \in 1 .. n PROVE \E i \in 1 .. n : h[i] = k
    OBVIOUS
  <2>1. Rank(f, k) \in 1 .. n
    BY RanksArePositions
  <2>2. PICK r \in 1 .. n : r = Rank(f, k)
    BY <2>1
  <2>3. PICK j \in 1 .. n : j = h[r] /\ Rank(f, j) = Rank(f, k)
    BY <1>1, <2>2
  <2>4. j = k
    BY <2>3, RanksArePositions
  <2> QED
    BY <2>2, <2>3, <2>4
<1>9. Holds(Sorted(f), 1 .. n, f, 1 .. n)
  BY <1>3, <1>4, <1>7, <1>8, Zenon DEF Holds
<1> QED
  BY <1>5, <1>6, <1>9

\* Numbers have one order only.  If a had a smaller number at i, its first i numbers would
\* have to be among the first i - 1 of b.
LEMMA NotBefore ==
  ASSUME NEW n \in Nat, NEW a \in [1 .. n -> Nat], NEW b \in [1 .. n -> Nat],
         \A i, j \in 1 .. n : i <= j => a[i] <= a[j],
         \A i, j \in 1 .. n : i <= j => b[i] <= b[j],
         Holds(a, 1 .. n, b, 1 .. n), NEW i \in 1 .. n
  PROVE  ~(a[i] < b[i])
<1> SUFFICES ASSUME a[i] < b[i] PROVE FALSE
  OBVIOUS
<1>1. PICK h \in [1 .. n -> 1 .. n] : /\ \A x, y \in 1 .. n : h[x] = h[y] => x = y
                                      /\ \A x \in 1 .. n : a[x] = b[h[x]]
  BY Zenon DEF Holds
<1> DEFINE g == [x \in 1 .. i |-> h[x]]
<1>2. ASSUME NEW x \in 1 .. i PROVE x \in 1 .. n /\ g[x] = h[x] /\ h[x] \in 1 .. i - 1
  <2>1. x \in 1 .. n /\ x <= i
    OBVIOUS
  <2>2. a[x] <= a[i] /\ a[x] = b[h[x]] /\ h[x] \in 1 .. n
    BY <1>1, <2>1
  <2>3. i <= h[x] => b[i] <= b[h[x]]
    BY <2>2
  <2>4. a[x] \in Nat /\ a[i] \in Nat /\ b[i] \in Nat /\ b[h[x]] \in Nat
    BY <2>1, <2>2
  <2>5. h[x] < i
    <3>1. PICK ax, ai, bi, y, bh : /\ ax = a[x] /\ ai = a[i] /\ bi = b[i]
                                   /\ y = h[x] /\ bh = b[h[x]]
      OBVIOUS
    <3>2. ax <= ai /\ ax = bh /\ ai < bi /\ (i <= y => bi <= bh) /\ y \in 1 .. n
      BY <2>2, <2>3, <3>1
    <3>3. ax \in Nat /\ ai \in Nat /\ bi \in Nat /\ bh \in Nat
      BY <2>4, <3>1
    <3>4. y < i
      BY <3>2, <3>3
    <3> QED
      BY <3>1, <3>4
  <2> QED
    BY <2>1, <2>2, <2>5
<1>3. g \in [1 .. i -> 1 .. i - 1]
  BY <1>2
<1> HIDE DEF g
<1>4. /\ IsFiniteSet(1 .. i) /\ Cardinality(1 .. i) = i
      /\ IsFiniteSet(1 .. i - 1) /\ Cardinality(1 .. i - 1) = i - 1
  <2>1. 1 \in Int /\ i \in Int /\ i - 1 \in Int /\ ~(1 > i) /\ i - 1 + 1 = i
    OBVIOUS
  <2>2. IsFiniteSet(1 .. i - 1) /\ Cardinality(1 .. i - 1) = IF 1 > i - 1 THEN 0 ELSE i - 1 - 1 + 1
    BY <2>1, FS_Interval
  <2>3. IsFiniteSet(1 .. i) /\ Cardinality(1 .. i) = IF 1 > i THEN 0 ELSE i - 1 + 1
    BY <2>1, FS_Interval
  <2> QED
    BY <2>2, <2>3
<1>5. \E x, y \in 1 .. i : x # y /\ g[x] = g[y]
  <2>1. Cardinality(1 .. i - 1) < Cardinality(1 .. i)
    BY <1>4
  <2> QED
    BY <1>3, <1>4, <2>1, FS_PigeonHole
<1> QED
  BY <1>1, <1>2, <1>5

\* There is only one ascending order of the same numbers.
LEMMA OneOrder ==
  ASSUME NEW n \in Nat, NEW a \in [1 .. n -> Nat], NEW b \in [1 .. n -> Nat],
         \A i, j \in 1 .. n : i <= j => a[i] <= a[j],
         \A i, j \in 1 .. n : i <= j => b[i] <= b[j],
         Holds(a, 1 .. n, b, 1 .. n)
  PROVE  a = b
<1>1. Holds(b, 1 .. n, a, 1 .. n)
  BY HoldsInverse
<1>2. ASSUME NEW i \in 1 .. n PROVE a[i] = b[i]
  <2>1. ~(a[i] < b[i])
    BY NotBefore
  <2>2. ~(b[i] < a[i])
    BY <1>1, NotBefore
  <2> QED
    BY <2>1, <2>2
<1> QED
  BY <1>2
---------------------------------------------------------------------------
(* Runs *)

\* The runs of length L with the numbers i < j do not overlap.
LEMMA Multiples ==
  ASSUME NEW i \in Nat, NEW j \in Nat, i < j, NEW L \in Nat
  PROVE  i * L \in Nat /\ j * L \in Nat /\ i * L + L <= j * L
<1>1. PICK d \in Nat : j = i + 1 + d
  <2>1. j - i - 1 \in Nat /\ j = i + 1 + (j - i - 1)
    OBVIOUS
  <2> QED
    BY <2>1
<1>2. i * L \in Nat /\ j * L \in Nat /\ d * L \in Nat
  OBVIOUS
<1>3. j * L = i * L + L + d * L
  BY <1>1
<1> QED
  BY <1>2, <1>3

\* The multiplications of positions stay in Nat.
LEMMA Products == ASSUME NEW i \in Nat, NEW j \in Nat PROVE i * j \in Nat
OBVIOUS

\* The lesser one of two numbers.
LEMMA MinIs ==
  ASSUME NEW a \in Nat, NEW b \in Nat
  PROVE  Min({a, b}) = IF a <= b THEN a ELSE b
<1> DEFINE m == IF a <= b THEN a ELSE b
<1>1. m \in {a, b} /\ \A y \in {a, b} : m <= y
  OBVIOUS
<1>2. \A x \in {a, b} : (\A y \in {a, b} : x <= y) => x = m
  OBVIOUS
<1>3. Min({a, b}) = CHOOSE x \in {a, b} : \A y \in {a, b} : x <= y
  BY DEF Min
<1> HIDE DEF m
<1>4. Min({a, b}) = m
  BY <1>1, <1>2, <1>3, Zenon
<1> QED
  BY <1>4 DEF m

\* Up to position e file f consists of sorted runs of length L, of which the last one may be
\* cut off.
Runs(f, L, e) ==
  \A j, x, y \in Nat :
    j * L < x /\ x < y /\ y <= j * L + L /\ y <= e => f[x] <= f[y]

\* One sorted run more behind q of them.
LEMMA RunsMore ==
  ASSUME NEW L \in Nat, NEW q \in Nat, NEW e \in Nat, NEW f, NEW g, Runs(f, L, q * L),
         e <= q * L + L, \A x \in 1 .. q * L : g[x] = f[x],
         \A x, y \in q * L + 1 .. e : x < y => g[x] <= g[y]
  PROVE  Runs(g, L, e)
<1> SUFFICES ASSUME NEW j \in Nat, NEW x \in Nat, NEW y \in Nat,
                    j * L < x, x < y, y <= j * L + L, y <= e
             PROVE  g[x] <= g[y]
  BY DEF Runs
<1>1. PICK a, b : a = j * L /\ b = q * L
  OBVIOUS
<1>2. a \in Nat /\ b \in Nat
  BY <1>1, Products
<1>3. CASE j < q
  <2>1. a + L <= b
    BY <1>1, <1>3, Multiples
  <2>2. a < x /\ y <= a + L
    BY <1>1
  <2>3. x \in 1 .. b /\ y \in 1 .. b
    BY <1>2, <2>1, <2>2
  <2>4. x \in 1 .. q * L /\ y \in 1 .. q * L /\ y <= q * L
    BY <1>1, <1>2, <2>3
  <2>5. f[x] <= f[y]
    BY <2>4 DEF Runs
  <2> QED
    BY <2>4, <2>5
<1>4. CASE j = q
  <2>1. a = b /\ a < x /\ y <= e
    BY <1>1, <1>4
  <2>2. x \in b + 1 .. e /\ y \in b + 1 .. e
    BY <1>2, <2>1
  <2> QED
    BY <1>1, <2>2
<1>5. CASE j > q
  <2>1. b + L <= a
    BY <1>1, <1>5, Multiples
  <2>2. a < x /\ e <= b + L
    BY <1>1
  <2> QED
    BY <1>2, <2>1, <2>2
<1> QED
  BY <1>3, <1>4, <1>5

\* At the begin of a file there is no run that could be out of order.
LEMMA NoRuns == ASSUME NEW f, NEW L PROVE Runs(f, L, 0)
<1>1. \A x, y \in Nat : x < y => ~(y <= 0)
  OBVIOUS
<1> QED
  BY <1>1 DEF Runs

\* One run alone is in order.
LEMMA OneRun ==
  ASSUME NEW L \in Nat, NEW n \in Nat, NEW f \in [1 .. n -> Nat], Runs(f, L, n), n <= L
  PROVE  \A i, j \in 1 .. n : i <= j => f[i] <= f[j]
<1> SUFFICES ASSUME NEW i \in 1 .. n, NEW j \in 1 .. n, i <= j PROVE f[i] <= f[j]
  OBVIOUS
<1>1. CASE i = j
  BY <1>1
<1>2. CASE i < j
  <2>1. 0 * L < i /\ j <= 0 * L + L /\ j <= n /\ i \in Nat /\ j \in Nat /\ 0 \in Nat
    OBVIOUS
  <2> QED
    BY <1>2, <2>1 DEF Runs
<1> QED
  BY <1>1, <1>2

\* Sequence z of numbers is p, with m of them, and then q, with n of them.
JoinedTo(z, p, m, q, n) ==
  /\ z \in Seq(Nat) /\ m \in Nat /\ n \in Nat /\ Len(z) = m + n
  /\ \A i \in 1 .. m : z[i] = p[i]
  /\ \A i \in 1 .. n : z[m + i] = q[i]

\* The concatenation of two sequences.
LEMMA Joined ==
  ASSUME NEW p \in Seq(Nat), NEW q \in Seq(Nat) PROVE JoinedTo(p \o q, p, Len(p), q, Len(q))
BY DEF JoinedTo

\* File z is file f with part r, of d numbers, copied into it behind position m.
IsSpliced(z, f, n, m, r, d) ==
  /\ z \in [1 .. n -> Nat]
  /\ \A i \in 1 .. m : z[i] = f[i]
  /\ \A i \in 1 .. d : z[m + i] = r[i]

\* What is read from a file: the d numbers behind position m.
LEMMA PartIs ==
  ASSUME NEW f \in Seq(Nat), NEW m \in Nat, NEW d \in Nat, NEW e \in Nat, e = m + d, e <= Len(f)
  PROVE  LET p == SubSeq(f, m + 1, e) IN
         p \in [1 .. d -> Nat] /\ \A i \in 1 .. d : f[m + i] = p[i]
<1>1. PICK p : p = SubSeq(f, m + 1, e)
  OBVIOUS
<1>2. p \in Seq(Nat) /\ Len(p) = d
  BY <1>1
<1>3. ASSUME NEW i \in 1 .. d PROVE p[i] = f[m + i]
  <2>1. i \in 1 .. e - (m + 1) + 1 /\ m + 1 + i - 1 = m + i
    OBVIOUS
  <2> QED
    BY <1>1, <2>1
<1>4. p \in [1 .. d -> Nat]
  BY <1>2
<1> QED
  BY <1>1, <1>3, <1>4

\* Copying a part into a file: the part begins behind position m.
LEMMA Spliced ==
  ASSUME NEW n \in Nat, NEW f \in [1 .. n -> Nat], NEW m \in Nat, NEW d \in Nat,
         NEW e \in Nat, e = m + d, e <= n, NEW r \in [1 .. d -> Nat]
  PROVE  IsSpliced(SubSeq(f, 1, m) \o r \o SubSeq(f, e + 1, n), f, n, m, r, d)
<1>1. f \in Seq(Nat) /\ Len(f) = n /\ r \in Seq(Nat) /\ Len(r) = d
  OBVIOUS
<1>2. PICK p : p = SubSeq(f, 1, m)
  OBVIOUS
<1>3. PICK s : s = SubSeq(f, e + 1, n)
  OBVIOUS
<1>4. p \in Seq(Nat) /\ Len(p) = m /\ \A i \in 1 .. m : p[i] = f[i]
  BY <1>1, <1>2
<1>5. s \in Seq(Nat) /\ Len(s) = n - e
  BY <1>1, <1>3
<1>6. PICK t : t = p \o r
  OBVIOUS
<1>7. /\ t \in Seq(Nat) /\ Len(t) = e
      /\ \A i \in 1 .. m : t[i] = p[i]
      /\ \A i \in 1 .. d : t[m + i] = r[i]
  <2>1. JoinedTo(t, p, m, r, d)
    BY <1>1, <1>4, <1>6, Joined
  <2> QED
    BY <2>1 DEF JoinedTo
<1>8. PICK z : z = t \o s
  OBVIOUS
<1>9. /\ z \in Seq(Nat) /\ Len(z) = n
      /\ \A i \in 1 .. e : z[i] = t[i]
  <2>1. JoinedTo(z, t, e, s, n - e)
    BY <1>5, <1>7, <1>8, Joined
  <2> QED
    BY <2>1 DEF JoinedTo
<1>10. z \in [1 .. n -> Nat]
  BY <1>9
<1>11. \A i \in 1 .. d : m + i \in 1 .. e /\ z[m + i] = r[i]
  <2>1. \A i \in 1 .. d : m + i \in 1 .. e
    OBVIOUS
  <2> QED
    BY <1>7, <1>9, <2>1
<1>12. \A i \in 1 .. m : z[i] = f[i]
  <2>1. \A i \in 1 .. m : i \in 1 .. e
    OBVIOUS
  <2> QED
    BY <1>4, <1>7, <1>9, <2>1
<1> QED
  BY <1>2, <1>3, <1>6, <1>8, <1>10, <1>11, <1>12 DEF IsSpliced
---------------------------------------------------------------------------
(* One merge *)

\* The runs of length L of a merge begin behind the positions b[i], from m on.
Windows(b, m, L) ==
  /\ b \in [0 .. K - 1 -> Nat] /\ m \in Nat /\ L \in Nat /\ L > 0
  /\ \A i \in 0 .. K - 1 : m <= b[i]
  /\ \A i, j \in 0 .. K - 1 : i < j => b[i] + L <= b[j]

\* The runs that there are in a file of length n.
Begun(b, n) == {i \in 0 .. K - 1 : b[i] < n}

\* The positions of a merge that are in the output: those of each run before its number in the
\* queue.  A: the runs that have one there.
Taken(b, n, next, A) ==
  {p \in Nat : \E i \in Begun(b, n) : b[i] < p /\ p <= next[i] /\ (i \in A => p # next[i])}

\* The runs of the input are sorted.
InOrder(in, b, L, n) ==
  \A i \in 0 .. K - 1, x, y \in Nat :
    b[i] < x /\ x < y /\ y <= b[i] + L /\ y <= n => in[x] <= in[y]

\* Where the readers of the runs stand; that of a run outside A is at the end of its run.
NextIsInRun(b, L, n, next, A) ==
  /\ A \subseteq Begun(b, n)
  /\ \A i \in Begun(b, n) : /\ next[i] \in Nat /\ b[i] < next[i]
                            /\ next[i] <= b[i] + L /\ next[i] <= n
                            /\ i \notin A => next[i] = b[i] + L \/ next[i] = n
  /\ \A i \in 0 .. K - 1 : i \notin Begun(b, n) => next[i] = Nil

\* A merge from position m on has written the positions up to e of out.
Merged(in, out, b, n, next, A, m, e) ==
  /\ e \in Nat /\ m <= e
  /\ Holds(out, m + 1 .. e, in, Taken(b, n, next, A))
  /\ \A x, y \in m + 1 .. e : x < y => out[x] <= out[y]
  /\ \A i \in A, x \in m + 1 .. e : out[x] <= in[next[i]]

\* The number v is written to the file at position k + 1.
Writes(new, out, m, k, v) == new[k + 1] = v /\ \A x \in m + 1 .. k : new[x] = out[x]

\* Run e is the one that has the least number in the queue.
Least(in, next, A, e) == \A i \in A : in[next[e]] <= in[next[i]]

\* It gives this number, and what is in the queue then is not less.
Gives(in, b, n, next, A, f, B, e) ==
  /\ Taken(b, n, f, B) = Taken(b, n, next, A) \cup {next[e]}
  /\ \A i \in B : in[next[e]] <= in[f[i]] /\ f[i] \in 1 .. n

\* The reader of run e goes on by one.
GoesOn(next, f, e) == f[e] = next[e] + 1 /\ \A i \in 0 .. K - 1 : i # e => f[i] = next[i]

\* A position is in one run only.
LEMMA OneWindow ==
  ASSUME NEW b, NEW m, NEW L, Windows(b, m, L), NEW i \in 0 .. K - 1, NEW j \in 0 .. K - 1,
         NEW p \in Nat, b[i] < p, p <= b[i] + L, b[j] < p, p <= b[j] + L
  PROVE  i = j
<1>1. b[i] \in Nat /\ b[j] \in Nat /\ L \in Nat
  BY DEF Windows
<1>2. CASE i < j
  <2>1. b[i] + L <= b[j]
    BY <1>2 DEF Windows
  <2> QED
    BY <1>1, <2>1
<1>3. CASE j < i
  <2>1. b[j] + L <= b[i]
    BY <1>3 DEF Windows
  <2> QED
    BY <1>1, <2>1
<1> QED
  BY <1>2, <1>3, SortAssumption

\* The number at the head of run e is the next that is taken, whether its run has more
\* numbers, ...
LEMMA TakenAfterMore ==
  ASSUME NEW b, NEW m, NEW L, NEW n \in Nat, NEW next, NEW A, Windows(b, m, L),
         NextIsInRun(b, L, n, next, A), NEW e \in A, NEW f,
         f[e] = next[e] + 1, \A i \in 0 .. K - 1 : i # e => f[i] = next[i]
  PROVE  Taken(b, n, f, A) = Taken(b, n, next, A) \cup {next[e]}
<1>1. e \in Begun(b, n) /\ e \in 0 .. K - 1
  BY DEF NextIsInRun, Begun
<1>2. next[e] \in Nat /\ b[e] < next[e] /\ b[e] \in Nat
  BY <1>1 DEF NextIsInRun, Windows
<1>3. ASSUME NEW p \in Nat
      PROVE  (b[e] < p /\ p <= f[e] /\ p # f[e])
               <=> (b[e] < p /\ p <= next[e] /\ p # next[e]) \/ p = next[e]
  BY <1>2
<1>4. \A i \in Begun(b, n) : i \in 0 .. K - 1
  BY DEF Begun
<1>5. ASSUME NEW p
      PROVE  p \in Taken(b, n, f, A) <=> p \in Taken(b, n, next, A) \cup {next[e]}
  BY <1>1, <1>2, <1>3, <1>4 DEF Taken
<1> QED
  BY <1>5

\* ... or not.
LEMMA TakenAfterLast ==
  ASSUME NEW b, NEW m, NEW L, NEW n \in Nat, NEW next, NEW A, Windows(b, m, L),
         NextIsInRun(b, L, n, next, A), NEW e \in A, NEW B, B = A \ {e}
  PROVE  Taken(b, n, next, B) = Taken(b, n, next, A) \cup {next[e]}
<1>1. e \in Begun(b, n)
  BY DEF NextIsInRun
<1>2. next[e] \in Nat /\ b[e] < next[e] /\ next[e] <= next[e]
  BY <1>1 DEF NextIsInRun
<1>5. ASSUME NEW p
      PROVE  p \in Taken(b, n, next, B) <=> p \in Taken(b, n, next, A) \cup {next[e]}
  BY <1>1, <1>2 DEF Taken
<1> QED
  BY <1>5

\* A number in the queue is not taken.
LEMMA HeadIsNotTaken ==
  ASSUME NEW b, NEW m, NEW L, NEW n \in Nat, NEW next, NEW A, Windows(b, m, L),
         NextIsInRun(b, L, n, next, A), NEW e \in A
  PROVE  next[e] \notin Taken(b, n, next, A)
<1> SUFFICES ASSUME next[e] \in Taken(b, n, next, A) PROVE FALSE
  OBVIOUS
<1>1. PICK i \in Begun(b, n) : b[i] < next[e] /\ next[e] <= next[i] /\ (i \in A => next[e] # next[i])
  BY DEF Taken
<1>2. e \in Begun(b, n) /\ i \in 0 .. K - 1 /\ e \in 0 .. K - 1
  BY DEF NextIsInRun, Begun
<1>3. /\ next[e] \in Nat /\ b[e] < next[e] /\ next[e] <= b[e] + L
      /\ next[i] \in Nat /\ next[i] <= b[i] + L
  BY <1>2 DEF NextIsInRun
<1>4. next[e] <= b[i] + L
  <2>1. b[i] \in Nat /\ L \in Nat
    BY <1>2 DEF Windows
  <2> QED
    BY <1>1, <1>3, <2>1
<1>5. i = e
  BY <1>1, <1>2, <1>3, <1>4, OneWindow
<1> QED
  BY <1>1, <1>5

\* What is taken is in the file.
LEMMA TakenIsInFile ==
  ASSUME NEW b, NEW m, NEW L, NEW n \in Nat, NEW next, NEW A, Windows(b, m, L),
         NextIsInRun(b, L, n, next, A)
  PROVE  /\ Taken(b, n, next, A) \subseteq m + 1 .. n
         /\ \A i \in Begun(b, n) : next[i] \in m + 1 .. n
<1>1. ASSUME NEW i \in Begun(b, n)
      PROVE  m <= b[i] /\ b[i] < next[i] /\ next[i] <= n /\ b[i] \in Nat /\ m \in Nat /\ next[i] \in Nat
  BY DEF Windows, NextIsInRun, Begun
<1>2. ASSUME NEW p \in Taken(b, n, next, A) PROVE p \in m + 1 .. n
  <2>1. PICK i \in Begun(b, n) : p \in Nat /\ b[i] < p /\ p <= next[i]
    BY DEF Taken
  <2> QED
    BY <1>1, <2>1
<1>3. ASSUME NEW i \in Begun(b, n) PROVE next[i] \in m + 1 .. n
  BY <1>1
<1> QED
  BY <1>2, <1>3
\* There is room for a number that is still in the queue.
LEMMA MergeFits ==
  ASSUME NEW in, NEW out, NEW b, NEW m, NEW L, NEW n \in Nat, NEW next, NEW A, NEW k,
         Windows(b, m, L), NextIsInRun(b, L, n, next, A), Merged(in, out, b, n, next, A, m, k),
         NEW e \in A
  PROVE  k < n /\ k \in Nat /\ m <= k
<1> DEFINE T == Taken(b, n, next, A)
<1>1. m \in Nat /\ k \in Nat /\ m <= k
  BY DEF Windows, Merged
<1>2. next[e] \in m + 1 .. n
  BY TakenIsInFile DEF NextIsInRun
<1>3. m + 1 <= n
  BY <1>1, <1>2
<1>4. T \subseteq m + 1 .. n /\ next[e] \notin T
  BY TakenIsInFile, HeadIsNotTaken
<1>5. IsFiniteSet(m + 1 .. n) /\ Cardinality(m + 1 .. n) = n - m
  <2>1. m + 1 \in Int /\ n \in Int /\ ~(m + 1 > n) /\ n - (m + 1) + 1 = n - m
    BY <1>1, <1>3
  <2>2. IsFiniteSet(m + 1 .. n) /\ Cardinality(m + 1 .. n) = IF m + 1 > n THEN 0 ELSE n - (m + 1) + 1
    BY <2>1, FS_Interval
  <2> QED
    BY <2>1, <2>2
<1>6. IsFiniteSet(m + 1 .. k) /\ Cardinality(m + 1 .. k) = k - m
  <2>1. m + 1 \in Int /\ k \in Int
    BY <1>1
  <2>2. IsFiniteSet(m + 1 .. k) /\ Cardinality(m + 1 .. k) = IF m + 1 > k THEN 0 ELSE k - (m + 1) + 1
    BY <2>1, FS_Interval
  <2> QED
    BY <1>1, <2>2
<1>7. Cardinality(T) = k - m /\ IsFiniteSet(T)
  <2>1. Holds(out, m + 1 .. k, in, T)
    BY DEF Merged
  <2> QED
    BY <1>6, <2>1, HoldsAsMany
<1> HIDE DEF T
<1>8. Cardinality(T) <= n - m /\ Cardinality(T) # n - m
  BY <1>2, <1>4, <1>5, FS_Subset
<1> QED
  BY <1>1, <1>7, <1>8

\* Writing the least number of the queue.
LEMMA MergeGoesOn ==
  ASSUME NEW n \in Nat, NEW in \in [1 .. n -> Nat], NEW out \in [1 .. n -> Nat], NEW b, NEW m, NEW L,
         NEW next, NEW A, NEW k, Windows(b, m, L), NextIsInRun(b, L, n, next, A),
         Merged(in, out, b, n, next, A, m, k), NEW e \in A,
         Least(in, next, A, e), NEW new, Writes(new, out, m, k, in[next[e]]),
         NEW f, NEW B, Gives(in, b, n, next, A, f, B, e)
  PROVE  Merged(in, new, b, n, f, B, m, k + 1)
<1>1. k < n /\ k \in Nat /\ m <= k /\ m \in Nat
  BY MergeFits DEF Windows
<1>2. next[e] \in 1 .. n
  <2>1. next[e] \in m + 1 .. n
    BY TakenIsInFile DEF NextIsInRun
  <2> QED
    BY <1>1, <2>1
<1>3. PICK v \in Nat : v = in[next[e]]
  BY <1>2
<1>4. (m + 1 .. k) \cup {k + 1} = m + 1 .. k + 1 /\ k + 1 \notin m + 1 .. k
  BY <1>1
<1>5. \A x \in m + 1 .. k : out[x] \in Nat /\ out[x] <= v /\ new[x] = out[x]
  <2>1. \A x \in m + 1 .. k : x \in 1 .. n
    BY <1>1
  <2> QED
    BY <1>3, <2>1 DEF Merged, Writes
<1>6. Holds(new, m + 1 .. k + 1, in, Taken(b, n, f, B))
  <2>1. Holds(out, m + 1 .. k, in, Taken(b, n, next, A))
    BY DEF Merged
  <2>2. next[e] \notin Taken(b, n, next, A)
    BY HeadIsNotTaken
  <2>3. PICK P, T, x, y : P = m + 1 .. k /\ T = Taken(b, n, next, A) /\ x = k + 1 /\ y = next[e]
    OBVIOUS
  <2>4. /\ Holds(out, P, in, T) /\ x \notin P /\ y \notin T
        /\ new[x] = in[y] /\ \A i \in P : new[i] = out[i]
    BY <1>4, <2>1, <2>2, <2>3 DEF Writes
  <2>5. Holds(new, P \cup {x}, in, T \cup {y})
    BY <2>4, HoldsOneMore
  <2>6. Taken(b, n, f, B) = T \cup {y}
    BY <2>3 DEF Gives
  <2> QED
    BY <1>4, <2>3, <2>5, <2>6
<1>7. ASSUME NEW x \in m + 1 .. k + 1, NEW y \in m + 1 .. k + 1, x < y PROVE new[x] <= new[y]
  <2>1. x \in m + 1 .. k
    BY <1>1, <1>7
  <2>2. CASE y = k + 1
    BY <1>3, <1>5, <2>1, <2>2 DEF Writes
  <2>3. CASE y # k + 1
    <3>1. y \in m + 1 .. k
      BY <1>4, <2>3
    <3> QED
      BY <1>5, <1>7, <2>1, <3>1 DEF Merged
  <2> QED
    BY <2>2, <2>3
<1>8. ASSUME NEW i \in B, NEW x \in m + 1 .. k + 1 PROVE new[x] <= in[f[i]]
  <2>1. PICK w \in Nat : w = in[f[i]]
    BY DEF Gives
  <2>2. v <= w
    BY <1>3, <2>1 DEF Gives
  <2>3. PICK u : u = new[x]
    OBVIOUS
  <2>4. u \in Nat /\ u <= v
    <3>1. CASE x = k + 1
      BY <1>3, <2>3, <3>1 DEF Writes
    <3>2. CASE x # k + 1
      <4>1. x \in m + 1 .. k
        BY <1>4, <3>2
      <4> QED
        BY <1>5, <2>3, <4>1
    <3> QED
      BY <3>1, <3>2
  <2>5. u <= w
    BY <2>2, <2>4
  <2> QED
    BY <2>1, <2>3, <2>5
<1>9. k + 1 \in Nat /\ m <= k + 1
  BY <1>1
<1> QED
  BY <1>6, <1>7, <1>8, <1>9 DEF Merged

\* The next number of its run takes its place in the queue.
LEMMA MergeMore ==
  ASSUME NEW n \in Nat, NEW in \in [1 .. n -> Nat], NEW out \in [1 .. n -> Nat], NEW b, NEW m, NEW L,
         NEW next, NEW A, NEW k, Windows(b, m, L), NextIsInRun(b, L, n, next, A),
         InOrder(in, b, L, n), Merged(in, out, b, n, next, A, m, k), NEW e \in A,
         Least(in, next, A, e), NEW new, Writes(new, out, m, k, in[next[e]]),
         next[e] < b[e] + L, next[e] < n,
         NEW f, GoesOn(next, f, e)
  PROVE  NextIsInRun(b, L, n, f, A) /\ Merged(in, new, b, n, f, A, m, k + 1)
<1>1. e \in Begun(b, n) /\ e \in 0 .. K - 1 /\ A \subseteq Begun(b, n) /\ Begun(b, n) \subseteq 0 .. K - 1
  BY DEF NextIsInRun, Begun
<1>2. /\ next[e] \in Nat /\ b[e] < next[e] /\ b[e] \in Nat /\ L \in Nat
      /\ next[e] + 1 \in 1 .. n /\ next[e] \in 1 .. n /\ next[e] + 1 <= b[e] + L
  <2>1. next[e] \in Nat /\ b[e] < next[e] /\ b[e] \in Nat /\ L \in Nat
    BY <1>1 DEF NextIsInRun, Windows
  <2> QED
    BY <2>1
<1>3. NextIsInRun(b, L, n, f, A)
  <2>1. ASSUME NEW i \in Begun(b, n)
        PROVE  /\ f[i] \in Nat /\ b[i] < f[i]
               /\ f[i] <= b[i] + L /\ f[i] <= n
               /\ i \notin A => f[i] = b[i] + L \/ f[i] = n
    <3>1. CASE i = e
      BY <1>2, <3>1 DEF GoesOn
    <3>2. CASE i # e
      BY <1>1, <3>2 DEF NextIsInRun, GoesOn
    <3> QED
      BY <3>1, <3>2
  <2>2. \A i \in 0 .. K - 1 : i \notin Begun(b, n) => f[i] = Nil
    BY <1>1 DEF NextIsInRun, GoesOn
  <2> QED
    BY <1>1, <2>1, <2>2 DEF NextIsInRun
<1>4. Taken(b, n, f, A) = Taken(b, n, next, A) \cup {next[e]}
  <2>1. f[e] = next[e] + 1 /\ \A i \in 0 .. K - 1 : i # e => f[i] = next[i]
    BY DEF GoesOn
  <2> QED
    BY <2>1, TakenAfterMore
<1>5. ASSUME NEW i \in A PROVE in[next[e]] <= in[f[i]] /\ f[i] \in 1 .. n
  <2>1. CASE i = e
    <3>1. b[e] < next[e] /\ next[e] < next[e] + 1 /\ next[e] + 1 <= b[e] + L /\ next[e] + 1 <= n
      BY <1>2
    <3>2. next[e] + 1 \in Nat
      BY <1>2
    <3>3. in[next[e]] <= in[next[e] + 1]
      BY <1>1, <1>2, <3>1, <3>2 DEF InOrder
    <3> QED
      BY <1>2, <2>1, <3>3 DEF GoesOn
  <2>2. CASE i # e
    <3>1. next[i] \in Nat /\ b[i] < next[i] /\ next[i] <= n /\ b[i] \in Nat
      BY <1>1 DEF NextIsInRun, Windows
    <3>2. f[i] = next[i] /\ in[next[e]] <= in[next[i]]
      BY <1>1, <2>2 DEF Least, GoesOn
    <3> QED
      BY <3>1, <3>2
  <2> QED
    BY <2>1, <2>2
<1>6. Gives(in, b, n, next, A, f, A, e)
  BY <1>4, <1>5 DEF Gives
<1> QED
  BY <1>3, <1>6, MergeGoesOn

\* Its run has no more numbers.
LEMMA MergeLast ==
  ASSUME NEW n \in Nat, NEW in \in [1 .. n -> Nat], NEW out \in [1 .. n -> Nat], NEW b, NEW m, NEW L,
         NEW next, NEW A, NEW k, Windows(b, m, L), NextIsInRun(b, L, n, next, A),
         Merged(in, out, b, n, next, A, m, k), NEW e \in A,
         Least(in, next, A, e), NEW new, Writes(new, out, m, k, in[next[e]]),
         ~(next[e] < b[e] + L /\ next[e] < n)
  PROVE  NextIsInRun(b, L, n, next, A \ {e}) /\ Merged(in, new, b, n, next, A \ {e}, m, k + 1)
<1>1. e \in Begun(b, n) /\ e \in 0 .. K - 1 /\ A \subseteq Begun(b, n) /\ Begun(b, n) \subseteq 0 .. K - 1
  BY DEF NextIsInRun, Begun
<1>2. next[e] = b[e] + L \/ next[e] = n
  <2>1. /\ next[e] \in Nat /\ b[e] < next[e] /\ b[e] \in Nat /\ L \in Nat
        /\ next[e] <= b[e] + L /\ next[e] <= n
    BY <1>1 DEF NextIsInRun, Windows
  <2>2. PICK p, q : p = next[e] /\ q = b[e] + L
    OBVIOUS
  <2>3. p \in Nat /\ q \in Nat /\ p <= q /\ p <= n /\ ~(p < q /\ p < n)
    BY <2>1, <2>2
  <2>4. p = q \/ p = n
    BY <2>3
  <2> QED
    BY <2>2, <2>4
<1>3. NextIsInRun(b, L, n, next, A \ {e})
  BY <1>1, <1>2 DEF NextIsInRun
<1>4. Taken(b, n, next, A \ {e}) = Taken(b, n, next, A) \cup {next[e]}
  <2>1. PICK B : B = A \ {e}
    OBVIOUS
  <2>2. Taken(b, n, next, B) = Taken(b, n, next, A) \cup {next[e]}
    BY <2>1, TakenAfterLast
  <2> QED
    BY <2>1, <2>2
<1>5. ASSUME NEW i \in A \ {e} PROVE in[next[e]] <= in[next[i]] /\ next[i] \in 1 .. n
  <2>1. next[i] \in Nat /\ b[i] < next[i] /\ next[i] <= n /\ b[i] \in Nat
    BY <1>1 DEF NextIsInRun, Windows
  <2>2. in[next[e]] <= in[next[i]] /\ next[i] \in 1 .. n
    BY <2>1 DEF Least
  <2> QED
    BY <2>2
<1>6. Gives(in, b, n, next, A, next, A \ {e}, e)
  BY <1>4, <1>5 DEF Gives
<1> QED
  BY <1>3, <1>6, MergeGoesOn
\* A merge begins with the first number of each run in the queue.
LEMMA MergeBegins ==
  ASSUME NEW n \in Nat, NEW in, NEW out, NEW b, NEW m, NEW L, Windows(b, m, L), NEW next,
         \A i \in Begun(b, n) : next[i] = b[i] + 1,
         \A i \in 0 .. K - 1 : i \notin Begun(b, n) => next[i] = Nil
  PROVE  /\ NextIsInRun(b, L, n, next, Begun(b, n))
         /\ Merged(in, out, b, n, next, Begun(b, n), m, m)
<1>1. ASSUME NEW i \in Begun(b, n)
      PROVE  /\ b[i] \in Nat /\ next[i] = b[i] + 1 /\ next[i] \in Nat /\ b[i] < next[i]
             /\ next[i] <= b[i] + L /\ next[i] <= n
  <2>1. b[i] \in Nat /\ L \in Nat /\ L > 0 /\ b[i] < n
    BY DEF Windows, Begun
  <2> QED
    BY <2>1
<1>2. NextIsInRun(b, L, n, next, Begun(b, n))
  BY <1>1 DEF NextIsInRun
<1>3. Taken(b, n, next, Begun(b, n)) = {}
  <2> SUFFICES ASSUME NEW p \in Taken(b, n, next, Begun(b, n)) PROVE FALSE
    OBVIOUS
  <2>1. PICK i \in Begun(b, n) : p \in Nat /\ b[i] < p /\ p <= next[i] /\ p # next[i]
    BY DEF Taken
  <2> QED
    BY <1>1, <2>1
<1>4. m \in Nat /\ m + 1 .. m = {}
  BY DEF Windows
<1>5. Holds(out, m + 1 .. m, in, Taken(b, n, next, Begun(b, n)))
  BY <1>3, <1>4, HoldsNone
<1>6. /\ \A x, y \in m + 1 .. m : x < y => out[x] <= out[y]
      /\ \A i \in Begun(b, n), x \in m + 1 .. m : out[x] <= in[next[i]]
  BY <1>4
<1>7. m <= m
  BY <1>4
<1>8. Merged(in, out, b, n, next, Begun(b, n), m, m)
  BY <1>4, <1>5, <1>6, <1>7 DEF Merged
<1> QED
  BY <1>2, <1>8

\* A set of natural numbers that is not empty has a least one.
LEMMA LeastNumber ==
  ASSUME NEW T, T \subseteq Nat, T # {}
  PROVE  \E x \in T : \A y \in T : x <= y
<1> DEFINE R == OpToRel(<, Nat)
<1>1. IsWellFoundedOn(R, Nat)
  BY NatLessThanWellFounded
<1>2. \A x, y \in Nat : <<y, x>> \in R <=> y < x
  BY DEF OpToRel
<1> HIDE DEF R
<1>3. PICK x \in T : \A y \in T : ~ (<<y, x>> \in R)
  BY <1>1, WFMin
<1>4. x \in Nat /\ \A y \in T : y \in Nat /\ ~(y < x)
  BY <1>2, <1>3, Zenon
<1> QED
  BY <1>4

\* The K runs of length L from m on leave no position out.
LEMMA RunsCover ==
  ASSUME NEW m \in Nat, NEW L \in Nat, NEW p \in Nat, m < p, p <= m + K * L
  PROVE  \E i \in 0 .. K - 1 : m + i * L < p /\ p <= m + i * L + L
<1> DEFINE T == {j \in Nat : p <= m + j * L + L}
<1>1. K - 1 \in Nat /\ K \in Nat
  BY SortAssumption
<1>2. (K - 1) * L + L = K * L
  <2>1. PICK j \in Nat : j = K - 1
    BY <1>1
  <2>2. (j + 1) * L = j * L + L
    OBVIOUS
  <2>3. j + 1 = K
    BY <1>1, <2>1
  <2> QED
    BY <2>1, <2>2, <2>3
<1>3. K - 1 \in T
  <2>1. (K - 1) * L \in Nat /\ K * L \in Nat
    BY <1>1, Products
  <2>2. m + (K - 1) * L + L = m + K * L
    BY <1>2, <2>1
  <2> QED
    BY <1>1, <2>2
<1>4. PICK i \in T : \A j \in T : i <= j
  <2>1. T \subseteq Nat /\ T # {}
    BY <1>3
  <2> HIDE DEF T
  <2> QED
    BY <2>1, LeastNumber
<1>5. i \in Nat /\ i <= K - 1 /\ p <= m + i * L + L
  BY <1>3, <1>4
<1>6. m + i * L < p
  <2>1. CASE i = 0
    <3>1. 0 * L = 0
      OBVIOUS
    <3> QED
      BY <2>1, <3>1
  <2>2. CASE i # 0
    <3>1. PICK j \in Nat : i = j + 1
      <4>1. i - 1 \in Nat /\ i = i - 1 + 1
        BY <1>5, <2>2
      <4> QED
        BY <4>1
    <3>2. ~(i <= j)
      BY <3>1
    <3>3. j \notin T
      BY <1>4, <3>2
    <3>4. i * L = j * L + L
      BY <3>1
    <3>5. j * L \in Nat /\ ~(p <= m + j * L + L)
      BY <3>3, Products
    <3>6. PICK s : s = j * L
      OBVIOUS
    <3>7. m + s + L < p /\ s \in Nat
      BY <3>5, <3>6
    <3> QED
      BY <3>4, <3>6, <3>7
  <2> QED
    BY <2>1, <2>2
<1>7. i \in 0 .. K - 1
  BY <1>1, <1>5
<1> QED
  BY <1>5, <1>6, <1>7

\* The runs of one merge stand one behind the other, from position m on.
RunsBeginAt(b, m, L) == \A i \in 0 .. K - 1 : b[i] = m + i * L

\* The position at which one merge ends: behind its last run, or at the end of the file.
EndOfMerge(m, L, n) == IF m + K * L <= n THEN m + K * L ELSE n

\* When the queue is empty everything is taken, up to the end of the runs or of the file.
LEMMA MergeEnds ==
  ASSUME NEW n \in Nat, NEW in, NEW out, NEW b, NEW m, NEW L, Windows(b, m, L), m <= n,
         RunsBeginAt(b, m, L),
         NEW next, NextIsInRun(b, L, n, next, {}), NEW k, Merged(in, out, b, n, next, {}, m, k),
         NEW e \in Nat, e = EndOfMerge(m, L, n)
  PROVE  k = e /\ Taken(b, n, next, {}) = m + 1 .. e
<1>0. (\A i \in 0 .. K - 1 : b[i] = m + i * L) /\ e = IF m + K * L <= n THEN m + K * L ELSE n
  BY DEF RunsBeginAt, EndOfMerge
<1>1. m \in Nat /\ L \in Nat /\ k \in Nat /\ m <= k /\ K * L \in Nat /\ K \in Nat
  <2>1. m \in Nat /\ L \in Nat /\ k \in Nat /\ m <= k /\ K \in Nat
    BY SortAssumption DEF Windows, Merged
  <2> QED
    BY <2>1, Products
<1>2. PICK w : w = m + K * L
  OBVIOUS
<1>3. w \in Nat /\ m <= w /\ e = IF w <= n THEN w ELSE n
  BY <1>0, <1>1, <1>2
<1>4. ASSUME NEW i \in Begun(b, n)
      PROVE  b[i] \in Nat /\ m <= b[i] /\ b[i] + L <= w /\ (next[i] = b[i] + L \/ next[i] = n)
             /\ next[i] <= b[i] + L /\ next[i] <= n /\ next[i] \in Nat
  <2>1. i \in 0 .. K - 1 /\ i \in Nat /\ i < K
    BY SortAssumption DEF Begun
  <2>2. i * L + L <= K * L /\ i * L \in Nat
    BY <1>1, <2>1, Multiples
  <2>3. b[i] = m + i * L
    BY <1>0, <2>1
  <2>4. b[i] + L <= w
    <3>1. PICK s, t : s = i * L /\ t = K * L
      OBVIOUS
    <3> QED
      BY <1>1, <1>2, <2>2, <2>3, <3>1
  <2>5. b[i] \in Nat /\ m <= b[i]
    BY <2>1 DEF Windows
  <2>6. (next[i] = b[i] + L \/ next[i] = n) /\ next[i] <= b[i] + L /\ next[i] <= n /\ next[i] \in Nat
    BY DEF NextIsInRun
  <2> QED
    BY <2>4, <2>5, <2>6
<1>5. ASSUME NEW p \in Taken(b, n, next, {}) PROVE p \in m + 1 .. e
  <2>1. PICK i \in Begun(b, n) : p \in Nat /\ b[i] < p /\ p <= next[i]
    BY DEF Taken
  <2>2. p \in Nat /\ m < p /\ p <= w /\ p <= n
    <3>1. PICK x, t : x = b[i] /\ t = next[i]
      OBVIOUS
    <3>2. x \in Nat /\ m <= x /\ x + L <= w /\ t \in Nat /\ t <= x + L /\ t <= n /\ x < p /\ p <= t
      BY <1>4, <2>1, <3>1
    <3> QED
      BY <1>1, <1>3, <2>1, <3>2
  <2>3. p <= e /\ m + 1 <= p
    BY <1>1, <1>3, <2>2
  <2> QED
    BY <2>2, <2>3
<1>6. ASSUME NEW p \in m + 1 .. e PROVE p \in Taken(b, n, next, {})
  <2>1. p \in Nat /\ m < p /\ p <= w /\ p <= n
    BY <1>1, <1>3
  <2>2. PICK i \in 0 .. K - 1 : m + i * L < p /\ p <= m + i * L + L
    BY <1>1, <1>2, <2>1, RunsCover
  <2>3. b[i] < p /\ p <= b[i] + L /\ b[i] \in Nat
    BY <1>0, <2>2 DEF Windows
  <2>4. i \in Begun(b, n)
    BY <2>1, <2>3 DEF Begun
  <2>5. p <= next[i]
    BY <1>4, <2>1, <2>3, <2>4
  <2> QED
    BY <2>1, <2>3, <2>4, <2>5 DEF Taken
<1>7. Taken(b, n, next, {}) = m + 1 .. e
  BY <1>5, <1>6
<1>8. m <= e
  BY <1>3
<1>9. k = e
  <2>1. Holds(out, m + 1 .. k, in, m + 1 .. e)
    BY <1>7 DEF Merged
  <2>2. IsFiniteSet(m + 1 .. k) /\ Cardinality(m + 1 .. k) = IF m + 1 > k THEN 0 ELSE k - (m + 1) + 1
    BY <1>1, FS_Interval
  <2>3. Cardinality(m + 1 .. e) = IF m + 1 > e THEN 0 ELSE e - (m + 1) + 1
    <3>1. m + 1 \in Int /\ e \in Int
      BY <1>1
    <3> QED
      BY <3>1, FS_Interval
  <2>4. Cardinality(m + 1 .. k) = Cardinality(m + 1 .. e)
    BY <2>1, <2>2, HoldsAsMany
  <2> QED
    BY <1>1, <1>8, <2>2, <2>3, <2>4
<1> QED
  BY <1>7, <1>9
\* The queue for the heads of the runs A.
Heads(in, next, A) == {[run |-> i, value |-> in[next[i]]] : i \in A}

\* The positions that have been read, of all runs.
Taking(b, n, next) == {p \in Nat : \E i \in Begun(b, n) : b[i] < p /\ p <= next[i]}

\* What is read is written or waits in the queue.
LEMMA MergeCounts ==
  ASSUME NEW n \in Nat, NEW in, NEW out, NEW b, NEW m, NEW L, Windows(b, m, L), NEW next, NEW A,
         NextIsInRun(b, L, n, next, A), NEW k, Merged(in, out, b, n, next, A, m, k)
  PROVE  /\ k + Cardinality(Heads(in, next, A)) = m + Cardinality(Taking(b, n, next))
         /\ Cardinality(Heads(in, next, A)) \in Nat /\ Cardinality(Taking(b, n, next)) \in Nat
<1> DEFINE T == Taken(b, n, next, A)
           H == {next[i] : i \in A}
           Q == Heads(in, next, A)
           g == [i \in A |-> next[i]]
           q == [i \in A |-> [run |-> i, value |-> in[next[i]]]]
<1>1. A \subseteq Begun(b, n) /\ Begun(b, n) \subseteq 0 .. K - 1 /\ m \in Nat /\ k \in Nat /\ m <= k
  BY DEF NextIsInRun, Begun, Windows, Merged
<1>2. IsFiniteSet(A)
  <2>1. K - 1 \in Int
    BY SortAssumption
  <2>2. IsFiniteSet(0 .. K - 1) /\ A \in SUBSET (0 .. K - 1)
    BY <1>1, <2>1, FS_Interval
  <2> QED
    BY <2>2, FS_Subset
<1>3. ASSUME NEW i \in A, NEW j \in A, next[i] = next[j] PROVE i = j
  <2>1. /\ next[i] \in Nat /\ b[i] < next[i] /\ next[i] <= b[i] + L
        /\ b[j] < next[j] /\ next[j] <= b[j] + L
    BY <1>1 DEF NextIsInRun
  <2>2. i \in 0 .. K - 1 /\ j \in 0 .. K - 1
    BY <1>1
  <2> QED
    BY <1>3, <2>1, <2>2, OneWindow
<1>4. g \in [A -> H] /\ \A i \in A : g[i] = next[i]
  OBVIOUS
<1>5. q \in [A -> Q] /\ \A i \in A : q[i] = [run |-> i, value |-> in[next[i]]]
  BY DEF Heads
<1>6. \A h \in Q : \E i \in A : q[i] = h
  BY DEF Heads
<1>7. \A h \in H : \E i \in A : g[i] = h
  OBVIOUS
<1> HIDE DEF g, q, H, Q, T
<1>8. g \in Bijection(A, H)
  BY <1>3, <1>4, <1>7, Zenon DEF Bijection, Injection, Surjection, IsInjective
<1>9. q \in Bijection(A, Q)
  <2>1. \A i, j \in A : q[i] = q[j] => i = j
    BY <1>5
  <2> QED
    BY <1>5, <1>6, <2>1, Zenon DEF Bijection, Injection, Surjection, IsInjective
<1>10. IsFiniteSet(H) /\ Cardinality(H) = Cardinality(A) /\ Cardinality(Q) = Cardinality(A)
  BY <1>2, <1>8, <1>9, FS_Bijection DEF ExistsBijection
<1>11. IsFiniteSet(T) /\ Cardinality(T) = k - m
  <2>1. m + 1 \in Int /\ k \in Int
    BY <1>1
  <2>2. IsFiniteSet(m + 1 .. k) /\ Cardinality(m + 1 .. k) = IF m + 1 > k THEN 0 ELSE k - (m + 1) + 1
    BY <2>1, FS_Interval
  <2>3. Holds(out, m + 1 .. k, in, T)
    BY DEF Merged, T
  <2>4. Cardinality(T) = Cardinality(m + 1 .. k) /\ IsFiniteSet(T)
    BY <2>2, <2>3, HoldsAsMany
  <2> QED
    BY <1>1, <2>2, <2>4
<1>12. T \cap H = {}
  BY HeadIsNotTaken DEF T, H
<1>13. Taking(b, n, next) = T \cup H
  <2>1. ASSUME NEW p \in T \cup H PROVE p \in Taking(b, n, next)
    <3>1. CASE p \in T
      BY <3>1 DEF T, Taken, Taking
    <3>2. CASE p \in H
      <4>1. PICK i \in A : p = next[i]
        BY <3>2 DEF H
      <4>2. next[i] \in Nat /\ b[i] < next[i] /\ next[i] <= next[i] /\ i \in Begun(b, n)
        BY <1>1 DEF NextIsInRun
      <4> QED
        BY <4>1, <4>2 DEF Taking
    <3> QED
      BY <2>1, <3>1, <3>2
  <2>2. ASSUME NEW p \in Taking(b, n, next) PROVE p \in T \cup H
    <3>1. PICK i \in Begun(b, n) : p \in Nat /\ b[i] < p /\ p <= next[i]
      BY DEF Taking
    <3>2. CASE i \in A /\ p = next[i]
      BY <3>2 DEF H
    <3>3. CASE ~(i \in A /\ p = next[i])
      BY <3>1, <3>3 DEF T, Taken
    <3> QED
      BY <3>2, <3>3
  <2> QED
    BY <2>1, <2>2
<1>14. Cardinality(T \cup H) = Cardinality(T) + Cardinality(H) - Cardinality(T \cap H)
  BY <1>10, <1>11, FS_Union
<1>15. Cardinality(T \cap H) = 0
  BY <1>12, FS_EmptySet
<1>16. Cardinality(A) \in Nat
  BY <1>2, FS_CardinalityType
<1>17. k + Cardinality(Q) = m + Cardinality(Taking(b, n, next))
  BY <1>1, <1>10, <1>11, <1>13, <1>14, <1>15, <1>16
<1>18. Cardinality(Q) \in Nat /\ Cardinality(Taking(b, n, next)) \in Nat
  BY <1>1, <1>10, <1>11, <1>13, <1>14, <1>15, <1>16
<1> QED
  BY <1>17, <1>18 DEF Q
---------------------------------------------------------------------------
(* The merges of a phase *)

\* The merges before position m have made the numbers up to position k of out: runs that are
\* K times as long, of the same numbers.
MergesDone(in, out, n, L, m, k) ==
  /\ \E q \in Nat : m = q * (K * L)
  /\ k = IF m <= n THEN m ELSE n
  /\ Runs(out, K * L, k)
  /\ Holds(out, 1 .. k, in, 1 .. k)

\* At the begin of a phase nothing has been merged.
LEMMA NoMergeIsDone ==
  ASSUME NEW n \in Nat, NEW in, NEW out, NEW L \in Nat PROVE MergesDone(in, out, n, L, 0, 0)
<1>1. K * L \in Nat
  BY SortAssumption, Products
<1>2. 0 = 0 * (K * L) /\ 0 \in Nat
  BY <1>1
<1>3. 1 .. 0 = {}
  OBVIOUS
<1>4. Holds(out, 1 .. 0, in, 1 .. 0)
  BY <1>3, HoldsNone
<1>5. Runs(out, K * L, 0)
  BY NoRuns
<1>6. 0 = IF 0 <= n THEN 0 ELSE n
  OBVIOUS
<1>7. \E q \in Nat : 0 = q * (K * L)
  BY <1>2
<1> QED
  BY <1>4, <1>5, <1>6, <1>7 DEF MergesDone

\* One more merge.
LEMMA OneMergeMore ==
  ASSUME NEW n \in Nat, NEW in, NEW out, NEW L \in Nat, NEW m \in Nat, m < n,
         MergesDone(in, out, n, L, m, m),
         NEW e \in Nat, e = IF m + K * L <= n THEN m + K * L ELSE n,
         Holds(out, m + 1 .. e, in, m + 1 .. e),
         \A x, y \in m + 1 .. e : x < y => out[x] <= out[y]
  PROVE  MergesDone(in, out, n, L, m + K * L, e)
<1>1. PICK q \in Nat : m = q * (K * L)
  BY DEF MergesDone
<1>2. PICK w : w = K * L
  OBVIOUS
<1>3. w \in Nat
  BY <1>2, SortAssumption, Products
<1>4. m = q * w /\ e = (IF m + w <= n THEN m + w ELSE n) /\ e <= m + w /\ m <= e
  <2>1. m = q * w /\ e = IF m + w <= n THEN m + w ELSE n
    BY <1>1, <1>2
  <2> QED
    BY <1>3, <2>1
<1>5. \E r \in Nat : m + w = r * w
  <2>1. (q + 1) * w = q * w + w
    BY <1>3
  <2> QED
    BY <1>4, <2>1
<1>6. Runs(out, w, e)
  <2>1. Runs(out, w, q * w)
    BY <1>2, <1>4 DEF MergesDone
  <2>2. e <= q * w + w
    BY <1>4
  <2>3. \A x, y \in q * w + 1 .. e : x < y => out[x] <= out[y]
    BY <1>4
  <2> QED
    BY <1>3, <2>1, <2>2, <2>3, RunsMore
<1>7. Holds(out, 1 .. e, in, 1 .. e)
  <2>1. Holds(out, 1 .. m, in, 1 .. m)
    BY DEF MergesDone
  <2>2. (1 .. m) \cap (m + 1 .. e) = {} /\ (1 .. m) \cup (m + 1 .. e) = 1 .. e
    BY <1>4
  <2>3. PICK A, C : A = 1 .. m /\ C = m + 1 .. e
    OBVIOUS
  <2>4. Holds(out, A \cup C, in, A \cup C)
    BY <2>1, <2>2, <2>3, HoldsBoth
  <2> QED
    BY <2>2, <2>3, <2>4
<1> QED
  BY <1>2, <1>4, <1>5, <1>6, <1>7 DEF MergesDone

\* What a merge writes does not touch the ones before.
LEMMA MergesStayDone ==
  ASSUME NEW n \in Nat, NEW in, NEW out, NEW L \in Nat, NEW m \in Nat, m < n,
         MergesDone(in, out, n, L, m, m), NEW new, \A x \in 1 .. m : new[x] = out[x]
  PROVE  MergesDone(in, new, n, L, m, m)
<1>1. PICK q \in Nat : m = q * (K * L)
  BY DEF MergesDone
<1>2. PICK w : w = K * L
  OBVIOUS
<1>3. w \in Nat
  BY <1>2, SortAssumption, Products
<1>4. m = q * w
  BY <1>1, <1>2
<1>5. Runs(new, w, m)
  <2>1. Runs(out, w, q * w)
    BY <1>2, <1>4 DEF MergesDone
  <2>2. m <= q * w + w /\ \A x, y \in q * w + 1 .. m : x < y => new[x] <= new[y]
    BY <1>3, <1>4
  <2>3. \A x \in 1 .. q * w : new[x] = out[x]
    BY <1>4
  <2> QED
    BY <1>3, <2>1, <2>2, <2>3, RunsMore
<1>6. Holds(new, 1 .. m, in, 1 .. m)
  <2>1. Holds(out, 1 .. m, in, 1 .. m)
    BY DEF MergesDone
  <2> QED
    BY <2>1, HoldsStill
<1> QED
  BY <1>2, <1>5, <1>6 DEF MergesDone

\* When all merges are done the other file has the runs of the next phase.
LEMMA AllMergesDone ==
  ASSUME NEW n \in Nat, NEW in, NEW out, NEW L \in Nat, NEW m \in Nat, NEW k,
         MergesDone(in, out, n, L, m, k), m >= n
  PROVE  k = n /\ Runs(out, K * L, n) /\ Holds(out, 1 .. n, in, 1 .. n)
<1>1. k = n
  BY DEF MergesDone
<1> QED
  BY <1>1 DEF MergesDone

---------------------------------------------------------------------------
(* The invariant *)

Files == [1 .. Size -> Nat]

\* The file that a phase writes.
MergeTo == tmp[1 - phase]

\* Where the runs of a merge begin.
Starts == [i \in 0 .. K - 1 |-> mergeStart + i * RunLength]

SortTypes ==
  /\ input \in Inputs
  /\ inMemory \in {Nil, Sorted(input)}
  /\ tmp \in [0 .. 1 -> Files]
  /\ inPos \in Nat /\ phase \in 0 .. 1 /\ runMult \in Nat \ {0}
  /\ mergeStart \in Nat /\ mergeOut \in Nat
  /\ nextRunValue \in [0 .. K - 1 -> Nat \cup {Nil}]
  /\ sortPc \in {"internal", "form", "phase", "start", "merge", "done", "compare", "correct"}

\* Run formation: so many runs are in the first file.
FormingInv ==
  /\ phase = 0 /\ runMult = 1
  /\ inPos <= Size /\ (inPos < Size => \E q \in Nat : inPos = q * RunSize)
  /\ Runs(tmp[0], RunSize, inPos)
  /\ Holds(tmp[0], 1 .. inPos, input, 1 .. inPos)

\* A phase reads sorted runs of the numbers of the input, ...
ReadingInv == Runs(MergeIn, RunLength, Size) /\ Holds(MergeIn, 1 .. Size, input, 1 .. Size)

\* ... and has some merges behind it, ...
PhaseInv == MergesDone(MergeIn, MergeTo, Size, RunLength, mergeStart, mergeOut)

\* ... or is in one.  A: the runs with a number in the queue.
MergeInv ==
  /\ mergeStart < Size
  /\ MergesDone(MergeIn, MergeTo, Size, RunLength, mergeStart, mergeStart)
  /\ \E A : /\ NextIsInRun(Starts, RunLength, Size, nextRunValue, A)
            /\ queue = Heads(MergeIn, nextRunValue, A)
            /\ Merged(MergeIn, MergeTo, Starts, Size, nextRunValue, A, mergeStart, mergeOut)

\* At the end the output is there.
OutputInv ==
  /\ output \in Files
  /\ \A i, j \in 1 .. Size : i <= j => output[i] <= output[j]
  /\ Holds(output, 1 .. Size, input, 1 .. Size)
  /\ sortPc = "compare" => inMemory # Nil

\* The inductive invariant: what is true at each part of the program.
SortInv ==
  /\ SortTypes
  /\ sortPc \in {"internal", "form"} => FormingInv
  /\ sortPc \in {"phase", "start", "merge"} => ReadingInv
  /\ sortPc = "start" => PhaseInv
  /\ sortPc = "merge" => MergeInv
  /\ sortPc \in {"done", "compare", "correct"} => OutputInv

\* The input is a file of numbers.
LEMMA InputIsFile == ASSUME SortTypes PROVE Size \in Nat /\ input \in Files /\ input \in Seq(Nat)
<1>1. input \in Seq(Nat)
  BY SortAssumption DEF SortTypes
<1> QED
  BY <1>1 DEF Size, Files

\* A run has at least one number.
LEMMA RunLengthIs == ASSUME SortTypes PROVE RunLength \in Nat /\ RunLength > 0
<1>1. RunSize \in Nat /\ RunSize > 0 /\ runMult \in Nat /\ runMult > 0
  BY SortAssumption DEF SortTypes
<1>2. PICK i \in Nat : runMult = i + 1
  <2>1. runMult - 1 \in Nat /\ runMult = runMult - 1 + 1
    BY <1>1
  <2> QED
    BY <2>1
<1>3. PICK s : s = RunSize
  OBVIOUS
<1>4. s \in Nat /\ s > 0
  BY <1>1, <1>3
<1>5. s * (i + 1) = s * i + s /\ s * i \in Nat
  BY <1>4
<1>6. s * (i + 1) \in Nat /\ s * (i + 1) > 0
  BY <1>4, <1>5
<1> QED
  BY <1>2, <1>3, <1>6 DEF RunLength

\* The runs that startMerge opens do not overlap (main.cpp:193-198).
LEMMA StartsAreWindows ==
  ASSUME SortTypes
  PROVE  /\ Windows(Starts, mergeStart, RunLength)
         /\ \A i \in 0 .. K - 1 : Starts[i] = mergeStart + i * RunLength
<1>1. PICK L : L = RunLength
  OBVIOUS
<1>2. L \in Nat /\ L > 0 /\ mergeStart \in Nat
  BY <1>1, RunLengthIs DEF SortTypes
<1>3. \A i \in 0 .. K - 1 : Starts[i] = mergeStart + i * L
  BY <1>1 DEF Starts
<1>4. \A i \in 0 .. K - 1 : i \in Nat /\ i * L \in Nat
  BY <1>2, Products
<1>5. Starts \in [0 .. K - 1 -> Nat]
  <2>1. \A i \in 0 .. K - 1 : mergeStart + i * L \in Nat
    BY <1>2, <1>4
  <2> QED
    BY <1>1, <2>1 DEF Starts
<1>6. \A i \in 0 .. K - 1 : mergeStart <= Starts[i]
  <2> SUFFICES ASSUME NEW i \in 0 .. K - 1 PROVE mergeStart <= mergeStart + i * L
    BY <1>3
  <2> QED
    BY <1>2, <1>4
<1>7. ASSUME NEW i \in 0 .. K - 1, NEW j \in 0 .. K - 1, i < j PROVE Starts[i] + L <= Starts[j]
  <2>1. i * L + L <= j * L
    BY <1>2, <1>4, <1>7, Multiples
  <2>2. PICK x, y : x = i * L /\ y = j * L
    OBVIOUS
  <2>3. x \in Nat /\ y \in Nat /\ x + L <= y /\ Starts[i] = mergeStart + x /\ Starts[j] = mergeStart + y
    BY <1>3, <1>4, <2>1, <2>2
  <2> QED
    BY <1>2, <2>3
<1> QED
  BY <1>1, <1>2, <1>3, <1>5, <1>6, <1>7 DEF Windows
---------------------------------------------------------------------------
(* The steps *)

\* SortInv holds at the begin.
LEMMA SortInitHas == SortInit => SortInv
<1> SUFFICES ASSUME SortInit PROVE SortInv
  OBVIOUS
<1>1. input \in Inputs /\ input \in Seq(Nat) /\ Size \in Nat
  BY SortAssumption DEF SortInit, Size
<1>2. [i \in 1 .. Size |-> 0] \in Files
  BY DEF Files
<1>3. tmp \in [0 .. 1 -> Files] /\ tmp[0] = [i \in 1 .. Size |-> 0]
  BY <1>2 DEF SortInit, Size
<1>4. SortTypes
  BY <1>1, <1>3 DEF SortInit, SortTypes
<1>5. FormingInv
  <2>1. 1 .. 0 = {} /\ 0 = 0 * RunSize /\ 0 <= Size
    BY <1>1, SortAssumption
  <2>2. Holds(tmp[0], 1 .. 0, input, 1 .. 0)
    BY <2>1, HoldsNone
  <2>3. Runs(tmp[0], RunSize, 0)
    BY NoRuns
  <2>4. \E q \in Nat : 0 = q * RunSize
    BY <2>1
  <2> QED
    BY <2>1, <2>2, <2>3, <2>4 DEF SortInit, FormingInv
<1> QED
  BY <1>4, <1>5 DEF SortInit, SortInv

\* Steps that leave the files alone.
LEMMA SortStutters == SortInv /\ UNCHANGED sortVars => SortInv'
<1> SUFFICES ASSUME SortInv, UNCHANGED sortVars PROVE SortInv'
  OBVIOUS
<1>1. /\ Size' = Size /\ RunLength' = RunLength /\ MergeIn' = MergeIn /\ MergeTo' = MergeTo
      /\ Files' = Files /\ Starts' = Starts
  BY DEF sortVars, Size, RunLength, MergeIn, MergeTo, Files, Starts
<1>2. SortTypes'
  BY <1>1 DEF SortInv, SortTypes, sortVars
<1>3. FormingInv' = FormingInv
  BY <1>1 DEF FormingInv, sortVars
<1>4. ReadingInv' = ReadingInv
  BY <1>1 DEF ReadingInv, sortVars
<1>5. PhaseInv' = PhaseInv
  BY <1>1 DEF PhaseInv, sortVars
<1>6. MergeInv' = MergeInv
  BY <1>1 DEF MergeInv, sortVars
<1>7. OutputInv' = OutputInv
  BY <1>1 DEF OutputInv, sortVars
<1> QED
  BY <1>2, <1>3, <1>4, <1>5, <1>6, <1>7 DEF SortInv, sortVars

\* A file that fits into memory is sorted there at once.
LEMMA InternalSortKeeps == SortInv /\ InternalSort => SortInv'
<1> SUFFICES ASSUME SortInv, InternalSort PROVE SortInv'
  OBVIOUS
<1>1. Size' = Size /\ Files' = Files
  BY DEF InternalSort, Size, Files
<1>2. SortTypes'
  BY <1>1 DEF SortInv, SortTypes, InternalSort
<1>3. FormingInv'
  BY <1>1 DEF SortInv, FormingInv, InternalSort
<1> QED
  BY <1>2, <1>3 DEF SortInv, InternalSort

\* One part of the input is sorted and written behind those before it.
LEMMA FormRunKeeps == SortInv /\ FormRun => SortInv'
<1> SUFFICES ASSUME SortInv, FormRun PROVE SortInv'
  OBVIOUS
<1> DEFINE end == Min({inPos + RunSize, Size})
           part == SubSeq(input, inPos + 1, end)
           run == Sorted(part)
<1>1. /\ SortTypes /\ FormingInv /\ sortPc = "form" /\ inPos < Size /\ inPos \in Nat
      /\ Size \in Nat /\ input \in Seq(Nat) /\ input \in Files /\ RunSize \in Nat
      /\ Size' = Size /\ Files' = Files
  <2>1. /\ SortTypes /\ FormingInv /\ sortPc = "form" /\ inPos < Size /\ inPos \in Nat
        /\ Size' = Size /\ Files' = Files
    BY DEF SortInv, FormRun, SortTypes, Size, Files
  <2> QED
    BY <2>1, InputIsFile, SortAssumption
<1>2. /\ tmp' = [tmp EXCEPT ![0] = SubSeq(@, 1, inPos) \o run \o SubSeq(@, end + 1, Size)]
      /\ inPos' = end
      /\ UNCHANGED <<input, inMemory, phase, runMult, mergeStart, nextRunValue, queue, mergeOut, output, sortPc>>
  BY DEF FormRun
<1>3. end \in Nat /\ inPos <= end /\ end <= Size /\ end <= inPos + RunSize
      /\ (end < Size => end = inPos + RunSize)
  <2>1. end = IF inPos + RunSize <= Size THEN inPos + RunSize ELSE Size
    BY <1>1, MinIs
  <2> HIDE DEF end
  <2> QED
    BY <1>1, <2>1
<1> HIDE DEF end
<1>4. PICK d \in Nat : end = inPos + d
  <2>1. end - inPos \in Nat /\ end = inPos + (end - inPos)
    BY <1>1, <1>3
  <2> QED
    BY <2>1
<1>5. part \in [1 .. d -> Nat] /\ \A i \in 1 .. d : input[inPos + i] = part[i]
  BY <1>1, <1>3, <1>4, PartIs DEF Size
<1> HIDE DEF part
<1>6. /\ run \in [1 .. d -> Nat]
      /\ \A i, j \in 1 .. d : i <= j => run[i] <= run[j]
      /\ Holds(run, 1 .. d, part, 1 .. d)
  BY <1>5, SortedIsAscending
<1> HIDE DEF run
<1>7. PICK f : f = tmp[0]
  OBVIOUS
<1>8. f \in [1 .. Size -> Nat]
  <2>1. tmp[0] \in Files
    BY <1>1 DEF SortTypes
  <2> QED
    BY <1>7, <2>1 DEF Files
<1>9. PICK z : z = SubSeq(f, 1, inPos) \o run \o SubSeq(f, end + 1, Size)
  OBVIOUS
<1>10. /\ z \in [1 .. Size -> Nat]
       /\ \A i \in 1 .. inPos : z[i] = f[i]
       /\ \A i \in 1 .. d : z[inPos + i] = run[i]
  <2>1. IsSpliced(z, f, Size, inPos, run, d)
    BY <1>1, <1>3, <1>4, <1>6, <1>8, <1>9, Spliced
  <2> QED
    BY <2>1 DEF IsSpliced
<1>11. tmp' \in [0 .. 1 -> Files] /\ tmp'[0] = z
  <2>1. tmp' = [tmp EXCEPT ![0] = z]
    BY <1>2, <1>7, <1>9
  <2>2. z \in Files
    BY <1>10 DEF Files
  <2>3. tmp \in [0 .. 1 -> Files]
    BY <1>1 DEF SortTypes
  <2> QED
    BY <2>1, <2>2, <2>3
<1>12. SortTypes'
  BY <1>1, <1>2, <1>3, <1>11 DEF SortTypes
<1>13. PICK q \in Nat : inPos = q * RunSize
  BY <1>1 DEF FormingInv
<1>14. end < Size => \E r \in Nat : end = r * RunSize
  <2>1. (q + 1) * RunSize = q * RunSize + RunSize
    BY <1>1
  <2> QED
    BY <1>3, <1>13, <2>1
<1>15. Runs(z, RunSize, end)
  <2>1. Runs(f, RunSize, q * RunSize) /\ end <= q * RunSize + RunSize
    BY <1>1, <1>3, <1>7, <1>13 DEF FormingInv
  <2>2. ASSUME NEW x \in inPos + 1 .. end, NEW y \in inPos + 1 .. end, x < y PROVE z[x] <= z[y]
    <3>1. x - inPos \in 1 .. d /\ y - inPos \in 1 .. d /\ x - inPos <= y - inPos
          /\ inPos + (x - inPos) = x /\ inPos + (y - inPos) = y
      BY <1>1, <1>3, <1>4, <2>2
    <3>2. z[x] = run[x - inPos] /\ z[y] = run[y - inPos]
      BY <1>10, <3>1
    <3> QED
      BY <1>6, <3>1, <3>2
  <2>3. \A x \in 1 .. q * RunSize : z[x] = f[x]
    BY <1>10, <1>13
  <2>4. \A x, y \in q * RunSize + 1 .. end : x < y => z[x] <= z[y]
    BY <1>13, <2>2
  <2> QED
    BY <1>1, <1>3, <2>1, <2>3, <2>4, RunsMore
<1>16. Holds(z, 1 .. end, input, 1 .. end)
  <2>1. Holds(z, 1 .. inPos, input, 1 .. inPos)
    <3>1. Holds(f, 1 .. inPos, input, 1 .. inPos)
      BY <1>1, <1>7 DEF FormingInv
    <3> QED
      BY <1>10, <3>1, HoldsStill
  <2>2. Holds(z, inPos + 1 .. inPos + d, input, inPos + 1 .. inPos + d)
    BY <1>1, <1>5, <1>6, <1>10, HoldsMoved
  <2>3. /\ (1 .. inPos) \cap (inPos + 1 .. inPos + d) = {}
        /\ (1 .. inPos) \cup (inPos + 1 .. inPos + d) = 1 .. end
    BY <1>1, <1>4
  <2>4. PICK A, C : A = 1 .. inPos /\ C = inPos + 1 .. inPos + d
    OBVIOUS
  <2>5. Holds(z, A \cup C, input, A \cup C)
    BY <2>1, <2>2, <2>3, <2>4, HoldsBoth
  <2> QED
    BY <2>3, <2>4, <2>5
<1>17. FormingInv'
  BY <1>1, <1>2, <1>3, <1>11, <1>14, <1>15, <1>16 DEF FormingInv
<1> QED
  BY <1>1, <1>2, <1>12, <1>17 DEF SortInv

\* The whole input has been read: the phases begin.
LEMMA RunsAreFormedKeeps == SortInv /\ RunsAreFormed => SortInv'
<1> SUFFICES ASSUME SortInv, RunsAreFormed PROVE SortInv'
  OBVIOUS
<1>1. /\ Size' = Size /\ Files' = Files /\ RunLength' = RunLength /\ MergeIn' = MergeIn
      /\ SortTypes /\ FormingInv /\ inPos >= Size /\ inPos \in Nat
  BY DEF SortInv, RunsAreFormed, Size, Files, RunLength, MergeIn, SortTypes
<1>2. Size \in Nat
  BY <1>1, InputIsFile
<1>3. inPos = Size /\ phase = 0 /\ runMult = 1
  BY <1>1, <1>2 DEF FormingInv
<1>4. RunLength = RunSize /\ MergeIn = tmp[0]
  BY <1>3, SortAssumption DEF RunLength, MergeIn
<1>5. ReadingInv
  BY <1>1, <1>3, <1>4 DEF FormingInv, ReadingInv
<1>6. ReadingInv'
  BY <1>1, <1>5 DEF ReadingInv, RunsAreFormed
<1>7. SortTypes'
  BY <1>1 DEF SortTypes, RunsAreFormed
<1> QED
  BY <1>6, <1>7 DEF SortInv, RunsAreFormed

\* A phase reads the file that the last one wrote.
LEMMA StartPhaseKeeps == SortInv /\ StartPhase => SortInv'
<1> SUFFICES ASSUME SortInv, StartPhase PROVE SortInv'
  OBVIOUS
<1>1. /\ Size' = Size /\ Files' = Files /\ RunLength' = RunLength /\ MergeIn' = MergeIn
      /\ MergeTo' = MergeTo /\ SortTypes /\ ReadingInv
  BY DEF SortInv, StartPhase, Size, Files, RunLength, MergeIn, MergeTo
<1>2. Size \in Nat /\ RunLength \in Nat
  BY <1>1, InputIsFile, RunLengthIs
<1>3. MergesDone(MergeIn, MergeTo, Size, RunLength, 0, 0)
  BY <1>2, NoMergeIsDone
<1>4. PhaseInv'
  BY <1>1, <1>3 DEF PhaseInv, StartPhase
<1>5. ReadingInv'
  BY <1>1 DEF ReadingInv, StartPhase
<1>6. SortTypes'
  BY <1>1 DEF SortTypes, StartPhase
<1> QED
  BY <1>4, <1>5, <1>6 DEF SortInv, StartPhase

\* The first number of each run goes into the queue.
LEMMA StartMergeKeeps == SortInv /\ StartMerge => SortInv'
<1> SUFFICES ASSUME SortInv, StartMerge PROVE SortInv'
  OBVIOUS
<1>1. /\ Size' = Size /\ Files' = Files /\ RunLength' = RunLength /\ MergeIn' = MergeIn
      /\ MergeTo' = MergeTo /\ Starts' = Starts /\ SortTypes /\ ReadingInv /\ PhaseInv /\ mergeStart < Size
      /\ UNCHANGED <<input, inMemory, tmp, inPos, phase, runMult, mergeStart, mergeOut, output>>
      /\ sortPc' = "merge"
  BY DEF SortInv, StartMerge, Size, Files, RunLength, MergeIn, MergeTo, Starts
<1>2. Size \in Nat /\ RunLength \in Nat /\ mergeStart \in Nat
  BY <1>1, InputIsFile, RunLengthIs DEF SortTypes
<1>3. Windows(Starts, mergeStart, RunLength) /\ \A i \in 0 .. K - 1 : Starts[i] = mergeStart + i * RunLength
  BY <1>1, StartsAreWindows
<1>4. \A i \in 0 .. K - 1 : Starts[i] \in Nat
  BY <1>3 DEF Windows
<1>5. /\ nextRunValue' = [i \in 0 .. K - 1 |-> IF i \in Begun(Starts, Size) THEN Starts[i] + 1 ELSE Nil]
      /\ queue' = {[run |-> i, value |-> MergeIn[Starts[i] + 1]] : i \in Begun(Starts, Size)}
  <2>1. Begun(Starts, Size) = {i \in 0 .. K - 1 : mergeStart + i * RunLength < Size}
    BY <1>3 DEF Begun
  <2>2. /\ nextRunValue' = [i \in 0 .. K - 1 |-> IF i \in Begun(Starts, Size)
                                                   THEN mergeStart + i * RunLength + 1 ELSE Nil]
        /\ queue' = {[run |-> i, value |-> MergeIn[mergeStart + i * RunLength + 1]] :
                       i \in Begun(Starts, Size)}
    BY <2>1 DEF StartMerge
  <2>3. Begun(Starts, Size) \subseteq 0 .. K - 1
    BY DEF Begun
  <2> HIDE DEF Starts
  <2> QED
    BY <1>3, <2>2, <2>3
<1>6. PICK f : f = nextRunValue'
  OBVIOUS
<1>7. /\ \A i \in Begun(Starts, Size) : f[i] = Starts[i] + 1 /\ f[i] \in Nat
      /\ \A i \in 0 .. K - 1 : i \notin Begun(Starts, Size) => f[i] = Nil
      /\ f \in [0 .. K - 1 -> Nat \cup {Nil}]
  <2>1. \A i \in Begun(Starts, Size) : i \in 0 .. K - 1
    BY DEF Begun
  <2> QED
    BY <1>4, <1>5, <1>6, <2>1
<1>8. mergeOut = mergeStart
  BY <1>1, <1>2 DEF PhaseInv, MergesDone
<1>9. /\ NextIsInRun(Starts, RunLength, Size, f, Begun(Starts, Size))
      /\ Merged(MergeIn, MergeTo, Starts, Size, f, Begun(Starts, Size), mergeStart, mergeStart)
  BY <1>2, <1>3, <1>7, MergeBegins
<1>10. queue' = Heads(MergeIn, f, Begun(Starts, Size))
  BY <1>5, <1>7 DEF Heads
<1>11. MergesDone(MergeIn, MergeTo, Size, RunLength, mergeStart, mergeStart)
  BY <1>1, <1>8 DEF PhaseInv
<1>12. MergeInv'
  <2>1. PICK A : A = Begun(Starts, Size)
    OBVIOUS
  <2>2. /\ NextIsInRun(Starts, RunLength, Size, f, A)
        /\ queue' = Heads(MergeIn, f, A)
        /\ Merged(MergeIn, MergeTo, Starts, Size, f, A, mergeStart, mergeOut)
    BY <1>8, <1>9, <1>10, <2>1
  <2>3. \E B : /\ NextIsInRun(Starts, RunLength, Size, f, B)
               /\ queue' = Heads(MergeIn, f, B)
               /\ Merged(MergeIn, MergeTo, Starts, Size, f, B, mergeStart, mergeOut)
    BY <2>2, Zenon
  <2> QED
    BY <1>1, <1>6, <1>11, <2>3 DEF MergeInv
<1>13. SortTypes'
  <2>1. nextRunValue' \in [0 .. K - 1 -> Nat \cup {Nil}]
    BY <1>6, <1>7
  <2> QED
    BY <1>1, <2>1 DEF SortTypes
<1>14. ReadingInv'
  BY <1>1 DEF ReadingInv
<1> QED
  BY <1>1, <1>12, <1>13, <1>14 DEF SortInv

\* Run i of merge q stands behind q merges of k runs, and i runs more.
LEMMA Distributes ==
  ASSUME NEW q \in Nat, NEW k \in Nat, NEW i \in Nat, NEW L \in Nat
  PROVE  q * k + i \in Nat /\ (q * k + i) * L = q * (k * L) + i * L
OBVIOUS

\* The runs of a merge are runs of the file.
LEMMA ReadIsInOrder ==
  ASSUME SortTypes, ReadingInv, NEW out, NEW k, MergesDone(MergeIn, out, Size, RunLength, mergeStart, k)
  PROVE  InOrder(MergeIn, Starts, RunLength, Size)
<1>1. PICK L, m : L = RunLength /\ m = mergeStart
  OBVIOUS
<1>2. PICK q \in Nat : m = q * (K * L)
  BY <1>1 DEF MergesDone
<1>3. L \in Nat /\ K \in Nat /\ m \in Nat
  BY <1>1, RunLengthIs, SortAssumption DEF SortTypes
<1>4. ASSUME NEW i \in 0 .. K - 1, NEW x \in Nat, NEW y \in Nat,
             Starts[i] < x, x < y, y <= Starts[i] + L, y <= Size
      PROVE  MergeIn[x] <= MergeIn[y]
  <2>1. i \in Nat
    OBVIOUS
  <2>2. PICK j \in Nat : j * L = m + i * L
    BY <1>2, <1>3, <2>1, Distributes
  <2>3. Starts[i] = j * L
    BY <1>1, <2>2, StartsAreWindows
  <2> QED
    BY <1>1, <1>4, <2>3 DEF ReadingInv, Runs
<1> QED
  BY <1>1, <1>4 DEF InOrder

\* A queue without the head of one run.
LEMMA HeadsWithout ==
  ASSUME NEW in, NEW next, NEW A, NEW e \in A
  PROVE  Heads(in, next, A) \ {[run |-> e, value |-> in[next[e]]]} = Heads(in, next, A \ {e})
<1>1. ASSUME NEW h
      PROVE  h \in Heads(in, next, A) \ {[run |-> e, value |-> in[next[e]]]}
               <=> h \in Heads(in, next, A \ {e})
  BY DEF Heads
<1> QED
  BY <1>1

\* The number that follows in run e goes into the queue.
LEMMA HeadsWith ==
  ASSUME NEW in, NEW next, NEW A, NEW e \in A, NEW B, B = A \ {e}, NEW f,
         \A i \in A : i # e => f[i] = next[i]
  PROVE  Heads(in, next, B) \cup {[run |-> e, value |-> in[f[e]]]} = Heads(in, f, A)
<1>1. ASSUME NEW h
      PROVE  h \in Heads(in, next, B) \cup {[run |-> e, value |-> in[f[e]]]}
               <=> h \in Heads(in, f, A)
  BY DEF Heads
<1> QED
  BY <1>1

\* The least number of the queue is written, and the next one of its run is read.
LEMMA MergeNextKeeps == SortInv /\ MergeNext => SortInv'
<1> SUFFICES ASSUME SortInv, MergeNext PROVE SortInv'
  OBVIOUS
<1>1. /\ Size' = Size /\ Files' = Files /\ RunLength' = RunLength /\ Starts' = Starts
      /\ SortTypes /\ ReadingInv /\ MergeInv /\ sortPc = "merge"
      /\ UNCHANGED <<input, inMemory, inPos, phase, runMult, mergeStart, output, sortPc>>
  BY DEF SortInv, MergeNext, Size, Files, RunLength, Starts
<1>2. Size \in Nat /\ RunLength \in Nat /\ mergeStart \in Nat /\ mergeOut \in Nat /\ mergeStart < Size
      /\ phase \in 0 .. 1 /\ 1 - phase \in 0 .. 1 /\ phase # 1 - phase
  BY <1>1, InputIsFile, RunLengthIs DEF SortTypes, MergeInv
<1>3. Windows(Starts, mergeStart, RunLength) /\ \A i \in 0 .. K - 1 : Starts[i] = mergeStart + i * RunLength
  BY <1>1, StartsAreWindows
<1>4. PICK A : /\ NextIsInRun(Starts, RunLength, Size, nextRunValue, A)
               /\ queue = Heads(MergeIn, nextRunValue, A)
               /\ Merged(MergeIn, MergeTo, Starts, Size, nextRunValue, A, mergeStart, mergeOut)
  BY <1>1 DEF MergeInv
<1>5. PICK elem \in queue :
        /\ IsTop(elem)
        /\ tmp' = Write(1 - phase, mergeOut, elem.value)
        /\ mergeOut' = mergeOut + 1
        /\ IF InRun(elem.run)
             THEN /\ queue' = (queue \ {elem}) \cup
                       {[run |-> elem.run, value |-> MergeIn[nextRunValue[elem.run] + 1]]}
                  /\ nextRunValue' = [nextRunValue EXCEPT ![elem.run] = @ + 1]
             ELSE /\ queue' = queue \ {elem}
                  /\ UNCHANGED nextRunValue
  BY DEF MergeNext
<1>6. PICK next, f : next = nextRunValue /\ f = nextRunValue'
  OBVIOUS
<1>7. PICK e \in A : elem = [run |-> e, value |-> MergeIn[next[e]]]
  BY <1>4, <1>5, <1>6 DEF Heads
<1>8. elem.run = e /\ elem.value = MergeIn[next[e]]
  BY <1>7
<1>9. e \in 0 .. K - 1 /\ e \in Begun(Starts, Size) /\ A \subseteq 0 .. K - 1
  BY <1>4 DEF NextIsInRun, Begun
<1>10. Least(MergeIn, next, A, e)
  <2> SUFFICES ASSUME NEW i \in A PROVE MergeIn[next[e]] <= MergeIn[next[i]]
    BY DEF Least
  <2>1. [run |-> i, value |-> MergeIn[next[i]]] \in queue
    BY <1>4, <1>6 DEF Heads
  <2>2. elem.value <= [run |-> i, value |-> MergeIn[next[i]]].value
    BY <1>5, <2>1 DEF IsTop
  <2> QED
    BY <1>8, <2>2
<1>11. mergeOut < Size /\ next[e] \in 1 .. Size
  <2>1. mergeOut < Size
    BY <1>2, <1>3, <1>4, MergeFits
  <2>2. next[e] \in mergeStart + 1 .. Size
    BY <1>2, <1>3, <1>4, <1>6, <1>9, TakenIsInFile
  <2> QED
    BY <1>2, <2>1, <2>2
<1>12. MergeIn \in Files /\ MergeTo \in Files
  BY <1>1, <1>2 DEF SortTypes, MergeIn, MergeTo
<1>13. MergeIn[next[e]] \in Nat
  BY <1>11, <1>12 DEF Files
<1>14. PICK new : new = [MergeTo EXCEPT ![mergeOut + 1] = MergeIn[next[e]]]
  OBVIOUS
<1>15. /\ new \in Files /\ new[mergeOut + 1] = MergeIn[next[e]]
       /\ \A x \in 1 .. Size : x # mergeOut + 1 => new[x] = MergeTo[x]
  <2>1. mergeOut + 1 \in 1 .. Size
    BY <1>2, <1>11
  <2> QED
    BY <1>12, <1>13, <1>14, <2>1 DEF Files
<1>16. tmp' \in [0 .. 1 -> Files] /\ MergeIn' = MergeIn /\ MergeTo' = new
  <2>1. tmp' = [tmp EXCEPT ![1 - phase] = [@ EXCEPT ![mergeOut + 1] = MergeIn[next[e]]]]
    BY <1>5, <1>8 DEF Write
  <2>2. tmp' = [tmp EXCEPT ![1 - phase] = new]
    BY <1>14, <2>1 DEF MergeTo
  <2>3. tmp \in [0 .. 1 -> Files]
    BY <1>1 DEF SortTypes
  <2>4. tmp' \in [0 .. 1 -> Files] /\ tmp'[1 - phase] = new /\ tmp'[phase] = tmp[phase]
    BY <1>2, <1>15, <2>2, <2>3
  <2> QED
    BY <1>1, <2>4 DEF MergeIn, MergeTo
<1>17. /\ \A x \in mergeStart + 1 .. mergeOut : new[x] = MergeTo[x]
       /\ \A x \in 1 .. mergeStart : new[x] = MergeTo[x]
  <2>1. mergeStart <= mergeOut
    BY <1>4 DEF Merged
  <2>2. \A x \in 1 .. mergeOut : x \in 1 .. Size /\ x # mergeOut + 1
    BY <1>2, <1>11
  <2>3. \A x \in 1 .. mergeOut : new[x] = MergeTo[x]
    BY <1>15, <2>2
  <2> QED
    BY <1>2, <2>1, <2>3
<1>18. Writes(new, MergeTo, mergeStart, mergeOut, MergeIn[next[e]])
  BY <1>15, <1>17 DEF Writes
<1>19. InRun(e) <=> next[e] < Starts[e] + RunLength /\ next[e] < Size
  <2>1. PICK L : L = RunLength
    OBVIOUS
  <2>2. (e + 1) * L = e * L + L /\ e * L \in Nat
    BY <1>2, <1>9, <2>1
  <2>3. Starts[e] = mergeStart + e * L
    BY <1>3, <1>9, <2>1
  <2>4. mergeStart + (e + 1) * L = Starts[e] + L
    BY <1>2, <2>1, <2>2, <2>3
  <2> QED
    BY <1>6, <2>1, <2>4 DEF InRun
<1>20. nextRunValue \in [0 .. K - 1 -> Nat \cup {Nil}] /\ next[e] \in Nat
  BY <1>1, <1>11 DEF SortTypes
<1>21. /\ f \in [0 .. K - 1 -> Nat \cup {Nil}]
       /\ \E B : /\ NextIsInRun(Starts, RunLength, Size, f, B)
                 /\ queue' = Heads(MergeIn, f, B)
                 /\ Merged(MergeIn, new, Starts, Size, f, B, mergeStart, mergeOut + 1)
  <2>1. CASE InRun(e)
    <3>1. GoesOn(next, f, e)
      BY <1>5, <1>6, <1>8, <1>9, <1>20, <2>1 DEF GoesOn
    <3>2. /\ NextIsInRun(Starts, RunLength, Size, f, A)
          /\ Merged(MergeIn, new, Starts, Size, f, A, mergeStart, mergeOut + 1)
      <4>1. InOrder(MergeIn, Starts, RunLength, Size)
        BY <1>1, ReadIsInOrder DEF MergeInv
      <4>2. next[e] < Starts[e] + RunLength /\ next[e] < Size
        BY <1>19, <2>1
      <4>3. MergeIn \in [1 .. Size -> Nat] /\ MergeTo \in [1 .. Size -> Nat]
        BY <1>12 DEF Files
      <4> QED
        BY <1>2, <1>3, <1>4, <1>6, <1>10, <1>18, <3>1, <4>1, <4>2, <4>3, MergeMore
    <3>3. queue' = Heads(MergeIn, f, A)
      <4>1. queue' = (queue \ {elem}) \cup {[run |-> e, value |-> MergeIn[f[e]]]}
        BY <1>5, <1>6, <1>8, <2>1, <3>1 DEF GoesOn
      <4>2. queue \ {elem} = Heads(MergeIn, next, A \ {e})
        BY <1>4, <1>6, <1>7, HeadsWithout
      <4>3. \A i \in A : i # e => f[i] = next[i]
        BY <1>9, <3>1 DEF GoesOn
      <4>4. Heads(MergeIn, next, A \ {e}) \cup {[run |-> e, value |-> MergeIn[f[e]]]} = Heads(MergeIn, f, A)
        <5>1. PICK B : B = A \ {e}
          OBVIOUS
        <5>2. Heads(MergeIn, next, B) \cup {[run |-> e, value |-> MergeIn[f[e]]]} = Heads(MergeIn, f, A)
          BY <4>3, <5>1, HeadsWith
        <5> QED
          BY <5>1, <5>2
      <4> QED
        BY <4>1, <4>2, <4>4
    <3>4. f \in [0 .. K - 1 -> Nat \cup {Nil}]
      <4>1. f = [nextRunValue EXCEPT ![e] = nextRunValue[e] + 1]
        BY <1>5, <1>6, <1>8, <2>1
      <4>2. nextRunValue[e] + 1 \in Nat
        BY <1>6, <1>20
      <4> QED
        BY <1>20, <4>1, <4>2
    <3> QED
      BY <3>2, <3>3, <3>4, Zenon
  <2>2. CASE ~InRun(e)
    <3>1. f = next /\ queue' = queue \ {elem}
      BY <1>5, <1>6, <1>8, <2>2
    <3>2. /\ NextIsInRun(Starts, RunLength, Size, next, A \ {e})
          /\ Merged(MergeIn, new, Starts, Size, next, A \ {e}, mergeStart, mergeOut + 1)
      <4>1. ~(next[e] < Starts[e] + RunLength /\ next[e] < Size)
        BY <1>19, <2>2
      <4>2. MergeIn \in [1 .. Size -> Nat] /\ MergeTo \in [1 .. Size -> Nat]
        BY <1>12 DEF Files
      <4> QED
        BY <1>2, <1>3, <1>4, <1>6, <1>10, <1>18, <4>1, <4>2, MergeLast
    <3>3. queue' = Heads(MergeIn, next, A \ {e})
      <4>1. queue \ {elem} = Heads(MergeIn, next, A \ {e})
        BY <1>4, <1>6, <1>7, HeadsWithout
      <4> QED
        BY <3>1, <4>1
    <3>4. f \in [0 .. K - 1 -> Nat \cup {Nil}]
      BY <1>6, <1>20, <3>1
    <3> QED
      BY <3>1, <3>2, <3>3, <3>4, Zenon
  <2> QED
    BY <2>1, <2>2
<1>22. MergesDone(MergeIn, new, Size, RunLength, mergeStart, mergeStart)
  BY <1>1, <1>2, <1>17, MergesStayDone DEF MergeInv
<1>23. MergeInv'
  BY <1>1, <1>2, <1>5, <1>6, <1>16, <1>21, <1>22 DEF MergeInv
<1>24. SortTypes'
  <2>1. nextRunValue' \in [0 .. K - 1 -> Nat \cup {Nil}] /\ mergeOut' \in Nat
    BY <1>2, <1>5, <1>6, <1>21
  <2> QED
    BY <1>1, <1>16, <2>1 DEF SortTypes
<1>25. ReadingInv'
  BY <1>1, <1>16 DEF ReadingInv
<1> QED
  BY <1>1, <1>23, <1>24, <1>25 DEF SortInv

\* The queue is empty: the runs of this merge are one run of the file that is written.
LEMMA EndMergeKeeps == SortInv /\ EndMerge => SortInv'
<1> SUFFICES ASSUME SortInv, EndMerge PROVE SortInv'
  OBVIOUS
<1>1. /\ Size' = Size /\ Files' = Files /\ RunLength' = RunLength /\ MergeIn' = MergeIn
      /\ MergeTo' = MergeTo /\ SortTypes /\ ReadingInv /\ MergeInv
      /\ UNCHANGED <<input, inMemory, tmp, inPos, phase, runMult, nextRunValue, mergeOut, output>>
      /\ sortPc' = "start" /\ queue = {} /\ mergeStart' = mergeStart + K * RunLength
  BY DEF SortInv, EndMerge, Size, Files, RunLength, MergeIn, MergeTo
<1>2. Size \in Nat /\ RunLength \in Nat /\ mergeStart \in Nat /\ mergeStart < Size /\ K * RunLength \in Nat
  BY <1>1, InputIsFile, RunLengthIs, SortAssumption, Products DEF SortTypes, MergeInv
<1>3. Windows(Starts, mergeStart, RunLength) /\ \A i \in 0 .. K - 1 : Starts[i] = mergeStart + i * RunLength
  BY <1>1, StartsAreWindows
<1>4. /\ NextIsInRun(Starts, RunLength, Size, nextRunValue, {})
      /\ Merged(MergeIn, MergeTo, Starts, Size, nextRunValue, {}, mergeStart, mergeOut)
  <2>1. PICK A : /\ NextIsInRun(Starts, RunLength, Size, nextRunValue, A)
                 /\ queue = Heads(MergeIn, nextRunValue, A)
                 /\ Merged(MergeIn, MergeTo, Starts, Size, nextRunValue, A, mergeStart, mergeOut)
    BY <1>1 DEF MergeInv
  <2>2. A = {}
    BY <1>1, <2>1 DEF Heads
  <2> QED
    BY <2>1, <2>2
<1>5. PICK e : e = IF mergeStart + K * RunLength <= Size THEN mergeStart + K * RunLength ELSE Size
  OBVIOUS
<1>6. e \in Nat
  BY <1>2, <1>5
<1>7. mergeOut = e /\ Taken(Starts, Size, nextRunValue, {}) = mergeStart + 1 .. e
  <2>1. mergeStart <= Size
    BY <1>2
  <2> QED
    <3>1. Windows(Starts, mergeStart, RunLength) /\ RunsBeginAt(Starts, mergeStart, RunLength)
      BY <1>3 DEF RunsBeginAt
    <3>2. e = EndOfMerge(mergeStart, RunLength, Size)
      BY <1>5 DEF EndOfMerge
    <3>3. PICK n, L, b, in, out : n = Size /\ L = RunLength /\ b = Starts /\ in = MergeIn /\ out = MergeTo
      OBVIOUS
    <3>4. /\ n \in Nat /\ Windows(b, mergeStart, L) /\ mergeStart <= n /\ RunsBeginAt(b, mergeStart, L)
          /\ NextIsInRun(b, L, n, nextRunValue, {})
          /\ Merged(in, out, b, n, nextRunValue, {}, mergeStart, mergeOut)
          /\ e = EndOfMerge(mergeStart, L, n)
      BY <1>2, <1>4, <2>1, <3>1, <3>2, <3>3
    <3>5. mergeOut = e /\ Taken(b, n, nextRunValue, {}) = mergeStart + 1 .. e
      BY <1>6, <3>4, MergeEnds
    <3> QED
      BY <3>3, <3>5
<1>8. /\ Holds(MergeTo, mergeStart + 1 .. e, MergeIn, mergeStart + 1 .. e)
      /\ \A x, y \in mergeStart + 1 .. e : x < y => MergeTo[x] <= MergeTo[y]
  BY <1>4, <1>7 DEF Merged
<1>9. MergesDone(MergeIn, MergeTo, Size, RunLength, mergeStart + K * RunLength, e)
  BY <1>1, <1>2, <1>5, <1>6, <1>8, OneMergeMore DEF MergeInv
<1>10. PhaseInv'
  BY <1>1, <1>7, <1>9 DEF PhaseInv
<1>11. SortTypes'
  BY <1>1, <1>2 DEF SortTypes
<1>12. ReadingInv'
  BY <1>1 DEF ReadingInv
<1> QED
  BY <1>1, <1>10, <1>11, <1>12 DEF SortInv

\* All runs have been merged: the files change their roles.
LEMMA EndPhaseKeeps == SortInv /\ EndPhase => SortInv'
<1> SUFFICES ASSUME SortInv, EndPhase PROVE SortInv'
  OBVIOUS
<1>1. /\ Size' = Size /\ Files' = Files /\ SortTypes /\ ReadingInv /\ PhaseInv /\ mergeStart >= Size
      /\ UNCHANGED <<input, inMemory, tmp, inPos, mergeStart, nextRunValue, queue, mergeOut, output>>
      /\ sortPc' = "phase" /\ phase' = 1 - phase /\ runMult' = runMult * K
  BY DEF SortInv, EndPhase, Size, Files
<1>2. Size \in Nat /\ RunLength \in Nat /\ mergeStart \in Nat
  BY <1>1, InputIsFile, RunLengthIs DEF SortTypes
<1>3. Runs(MergeTo, K * RunLength, Size) /\ Holds(MergeTo, 1 .. Size, MergeIn, 1 .. Size)
  BY <1>1, <1>2, AllMergesDone DEF PhaseInv
<1>4. MergeIn' = MergeTo
  BY <1>1 DEF MergeIn, MergeTo
<1>5. RunSize \in Nat /\ runMult \in Nat \ {0} /\ K \in Nat \ {0}
  BY <1>1, SortAssumption DEF SortTypes
<1>6. RunLength' = K * RunLength
  <2>1. PICK s, r : s = RunSize /\ r = runMult
    OBVIOUS
  <2>2. s \in Nat /\ r \in Nat /\ K \in Nat
    BY <1>5, <2>1
  <2>3. s * (r * K) = K * (s * r)
    BY <2>2
  <2> QED
    BY <1>1, <2>1, <2>3 DEF RunLength
<1>7. Holds(MergeTo, 1 .. Size, input, 1 .. Size)
  BY <1>1, <1>3, HoldsThrough DEF ReadingInv
<1>8. ReadingInv'
  BY <1>1, <1>3, <1>4, <1>6, <1>7 DEF ReadingInv
<1>9. SortTypes'
  <2>1. phase' \in 0 .. 1
    BY <1>1 DEF SortTypes
  <2>2. runMult' \in Nat \ {0}
    <3>1. PICK i \in Nat, j \in Nat : runMult = i + 1 /\ K = j + 1
      <4>1. runMult - 1 \in Nat /\ runMult = runMult - 1 + 1 /\ K - 1 \in Nat /\ K = K - 1 + 1
        BY <1>5
      <4> QED
        BY <4>1
    <3>2. (i + 1) * (j + 1) = i * j + i + j + 1 /\ i * j \in Nat
      OBVIOUS
    <3>3. (i + 1) * (j + 1) \in Nat \ {0}
      BY <3>2
    <3> QED
      BY <1>1, <3>1, <3>3
  <2> QED
    BY <1>1, <2>1, <2>2 DEF SortTypes
<1> QED
  BY <1>1, <1>8, <1>9 DEF SortInv

\* One run is left: it is the output.
LEMMA CopyOutputKeeps == SortInv /\ CopyOutput => SortInv'
<1> SUFFICES ASSUME SortInv, CopyOutput PROVE SortInv'
  OBVIOUS
<1>1. /\ Size' = Size /\ Files' = Files /\ SortTypes /\ ReadingInv /\ ~(RunLength < Size)
      /\ UNCHANGED <<input, inMemory, tmp, inPos, phase, runMult, mergeStart, nextRunValue, queue, mergeOut>>
      /\ output' = MergeIn /\ sortPc' = IF inMemory = Nil THEN "done" ELSE "compare"
  BY DEF SortInv, CopyOutput, MoreThanOneRun, Size, Files
<1>2. Size \in Nat /\ RunLength \in Nat /\ MergeIn \in Files
  BY <1>1, InputIsFile, RunLengthIs DEF SortTypes, MergeIn
<1>3. RunLength >= Size /\ MergeIn \in [1 .. Size -> Nat]
  BY <1>1, <1>2 DEF Files
<1>4. \A i, j \in 1 .. Size : i <= j => MergeIn[i] <= MergeIn[j]
  BY <1>1, <1>2, <1>3, OneRun DEF ReadingInv
<1>5. Holds(MergeIn, 1 .. Size, input, 1 .. Size)
  BY <1>1 DEF ReadingInv
<1>6. OutputInv'
  BY <1>1, <1>2, <1>4, <1>5 DEF OutputInv
<1>7. SortTypes'
  BY <1>1 DEF SortTypes
<1> QED
  BY <1>1, <1>6, <1>7 DEF SortInv

\* The sort in memory and the external one give the same file.
LEMMA CompareFilesKeeps == SortInv /\ CompareFiles => SortInv'
<1> SUFFICES ASSUME SortInv, CompareFiles PROVE SortInv'
  OBVIOUS
<1>1. /\ Size' = Size /\ Files' = Files /\ SortTypes /\ OutputInv /\ sortPc = "compare"
      /\ UNCHANGED <<input, inMemory, tmp, inPos, phase, runMult, mergeStart, nextRunValue, queue, mergeOut, output>>
      /\ sortPc' = IF output = inMemory THEN "correct" ELSE "incorrect"
  BY DEF SortInv, CompareFiles, Size, Files
<1>2. inMemory = Sorted(input)
  BY <1>1 DEF SortTypes, OutputInv
<1>3. Size \in Nat /\ input \in [1 .. Size -> Nat] /\ output \in [1 .. Size -> Nat]
  BY <1>1, InputIsFile DEF Files, OutputInv
<1>4. PICK s : s = Sorted(input)
  OBVIOUS
<1>5. /\ s \in [1 .. Size -> Nat]
      /\ \A i, j \in 1 .. Size : i <= j => s[i] <= s[j]
      /\ Holds(s, 1 .. Size, input, 1 .. Size)
  BY <1>3, <1>4, SortedIsAscending
<1>6. Holds(output, 1 .. Size, s, 1 .. Size)
  <2>1. Holds(input, 1 .. Size, s, 1 .. Size)
    BY <1>5, HoldsInverse
  <2>2. Holds(output, 1 .. Size, input, 1 .. Size)
    BY <1>1 DEF OutputInv
  <2> QED
    BY <2>1, <2>2, HoldsThrough
<1>7. output = s
  <2>1. \A i, j \in 1 .. Size : i <= j => output[i] <= output[j]
    BY <1>1 DEF OutputInv
  <2> QED
    BY <1>3, <1>5, <1>6, <2>1, OneOrder
<1>8. sortPc' = "correct"
  BY <1>1, <1>2, <1>4, <1>7
<1>9. OutputInv'
  BY <1>1, <1>8 DEF OutputInv
<1>10. SortTypes'
  BY <1>1, <1>8 DEF SortTypes
<1> QED
  BY <1>8, <1>9, <1>10 DEF SortInv

---------------------------------------------------------------------------
(* The theorems *)

\* The invariant is kept by every step.
THEOREM SortIsInductive == SortSpec => []SortInv
<1>1. SortInv /\ [SortNext]_sortVars => SortInv'
  BY SortStutters, InternalSortKeeps, FormRunKeeps, RunsAreFormedKeeps, StartPhaseKeeps,
     StartMergeKeeps, MergeNextKeeps, EndMergeKeeps, EndPhaseKeeps, CopyOutputKeeps,
     CompareFilesKeeps DEF SortNext
<1> QED
  BY <1>1, SortInitHas, PTL DEF SortSpec

\* The positions of the files are finitely many.
LEMMA FilesAreFinite == ASSUME SortTypes PROVE IsFiniteSet(1 .. Size) /\ DOMAIN input = 1 .. Size
<1>1. Size \in Nat /\ input \in Files
  BY InputIsFile
<1>2. IsFiniteSet(1 .. Size)
  BY <1>1, FS_Interval
<1> QED
  BY <1>1, <1>2 DEF Files

\* With the invariant the output is the input in ascending order.
LEMMA OutputFollows == SortInv => OutputIsSorted
<1> SUFFICES ASSUME SortInv PROVE OutputIsSorted
  OBVIOUS
<1>1. SortTypes /\ sortPc # "incorrect"
  BY DEF SortInv, SortTypes
<1>2. ASSUME sortPc \in {"done", "compare", "correct"}
      PROVE  IsAscending(output, 0, Size) /\ SameNumbers(output, input)
  <2>1. OutputInv
    BY <1>2 DEF SortInv
  <2>2. IsAscending(output, 0, Size)
    <3>1. \A i, j \in 0 + 1 .. Size : i <= j => output[i] <= output[j]
      BY <2>1 DEF OutputInv
    <3> QED
      BY <3>1, AscendingIs
  <2>3. DOMAIN output = 1 .. Size /\ Holds(output, 1 .. Size, input, 1 .. Size)
    BY <2>1 DEF OutputInv, Files
  <2>4. SameNumbers(output, input)
    BY <1>1, <2>3, FilesAreFinite, HoldsSameNumbers
  <2> QED
    BY <2>2, <2>4
<1> QED
  BY <1>1, <1>2 DEF OutputIsSorted

\* With the invariant the phases read sorted runs.
LEMMA RunsFollow == SortInv => RunsAreSorted
<1> SUFFICES ASSUME SortInv, sortPc \in {"phase", "start", "merge"}
             PROVE  /\ \A run \in 0 .. Size :
                         IsAscending(MergeIn, run * RunLength, Min({(run + 1) * RunLength, Size}))
                    /\ SameNumbers(MergeIn, input)
  BY DEF RunsAreSorted
<1>1. SortTypes /\ ReadingInv
  BY DEF SortInv
<1>2. Size \in Nat /\ RunLength \in Nat /\ MergeIn \in Files
  BY <1>1, InputIsFile, RunLengthIs DEF SortTypes, MergeIn
<1>3. SameNumbers(MergeIn, input)
  <2>1. DOMAIN MergeIn = 1 .. Size /\ Holds(MergeIn, 1 .. Size, input, 1 .. Size)
    BY <1>1, <1>2 DEF ReadingInv, Files
  <2> QED
    BY <1>1, <2>1, FilesAreFinite, HoldsSameNumbers
<1>4. ASSUME NEW run \in 0 .. Size
      PROVE  IsAscending(MergeIn, run * RunLength, Min({(run + 1) * RunLength, Size}))
  <2>1. PICK L, s, e : L = RunLength /\ s = run * L /\ e = Min({(run + 1) * L, Size})
    OBVIOUS
  <2>2. run \in Nat /\ L \in Nat /\ s \in Nat /\ (run + 1) * L = s + L
    BY <1>2, <2>1
  <2>3. e = IF s + L <= Size THEN s + L ELSE Size
    BY <1>2, <2>1, <2>2, MinIs
  <2>4. e <= s + L /\ e <= Size /\ e \in Nat
    BY <1>2, <2>2, <2>3
  <2>5. ASSUME NEW i \in s + 1 .. e, NEW j \in s + 1 .. e, i < j PROVE MergeIn[i] <= MergeIn[j]
    <3>1. i \in Nat /\ j \in Nat /\ s < i /\ j <= s + L /\ j <= Size
      <4>1. PICK n : n = Size
        OBVIOUS
      <4>2. n \in Nat /\ e <= n /\ e <= s + L /\ e \in Nat
        BY <1>2, <2>4, <4>1
      <4>3. i \in s + 1 .. e /\ j \in s + 1 .. e
        BY <2>5
      <4>4. i \in Nat /\ j \in Nat /\ s < i /\ j <= e
        BY <2>2, <4>2, <4>3
      <4>5. j <= s + L /\ j <= n
        BY <2>2, <4>2, <4>4
      <4> QED
        BY <4>1, <4>4, <4>5
    <3>2. run * L < i /\ j <= run * L + L
      BY <2>1, <3>1
    <3>3. Runs(MergeIn, L, Size)
      BY <1>1, <2>1 DEF ReadingInv
    <3> QED
      BY <2>2, <2>5, <3>1, <3>2, <3>3 DEF Runs
  <2> QED
    BY <2>1, <2>5 DEF IsAscending
<1> QED
  BY <1>3, <1>4

\* With the invariant a merge writes the least numbers first.
LEMMA MergeFollows == SortInv => MergeIsOrdered
<1> DEFINE begun == {i \in 0 .. K - 1 : nextRunValue[i] # Nil}
           read == UNION {mergeStart + i * RunLength + 1 .. nextRunValue[i] : i \in begun}
<1> SUFFICES ASSUME SortInv, sortPc = "merge"
             PROVE  /\ mergeOut + Cardinality(queue) = mergeStart + Cardinality(read)
                    /\ IsAscending(tmp[1 - phase], mergeStart, mergeOut)
                    /\ \A elem \in queue, i \in mergeStart + 1 .. mergeOut :
                         tmp[1 - phase][i] <= elem.value
  BY DEF MergeIsOrdered
<1>1. SortTypes /\ MergeInv
  BY DEF SortInv
<1>2. Size \in Nat /\ Windows(Starts, mergeStart, RunLength)
      /\ \A i \in 0 .. K - 1 : Starts[i] = mergeStart + i * RunLength
  BY <1>1, InputIsFile, StartsAreWindows
<1>3. PICK A : /\ NextIsInRun(Starts, RunLength, Size, nextRunValue, A)
               /\ queue = Heads(MergeIn, nextRunValue, A)
               /\ Merged(MergeIn, MergeTo, Starts, Size, nextRunValue, A, mergeStart, mergeOut)
  BY <1>1 DEF MergeInv
<1>4. read = Taking(Starts, Size, nextRunValue)
  <2>1. begun = Begun(Starts, Size)
    <3>1. \A i \in Begun(Starts, Size) : nextRunValue[i] # Nil /\ i \in 0 .. K - 1
      BY <1>3, SortAssumption DEF NextIsInRun, Begun
    <3>2. \A i \in 0 .. K - 1 : i \notin Begun(Starts, Size) => nextRunValue[i] = Nil
      BY <1>3 DEF NextIsInRun
    <3> QED
      BY <3>1, <3>2
  <2>2. ASSUME NEW i \in Begun(Starts, Size), NEW p
        PROVE  p \in mergeStart + i * RunLength + 1 .. nextRunValue[i]
                 <=> p \in Nat /\ Starts[i] < p /\ p <= nextRunValue[i]
    <3>1. i \in 0 .. K - 1
      BY DEF Begun
    <3>2. PICK s, t : s = Starts[i] /\ t = nextRunValue[i]
      OBVIOUS
    <3>3. s \in Nat /\ t \in Nat /\ s = mergeStart + i * RunLength
      BY <1>2, <1>3, <3>1, <3>2 DEF Windows, NextIsInRun
    <3>4. p \in s + 1 .. t <=> p \in Nat /\ s < p /\ p <= t
      BY <3>3
    <3> QED
      BY <3>2, <3>3, <3>4
  <2>3. ASSUME NEW p
        PROVE  p \in UNION {mergeStart + i * RunLength + 1 .. nextRunValue[i] : i \in Begun(Starts, Size)}
                 <=> p \in Taking(Starts, Size, nextRunValue)
    BY <2>2, Zenon DEF Taking
  <2> QED
    BY <2>1, <2>3
<1>5. mergeOut + Cardinality(queue) = mergeStart + Cardinality(read)
  <2> HIDE DEF read
  <2> QED
    BY <1>2, <1>3, <1>4, MergeCounts
<1>6. IsAscending(tmp[1 - phase], mergeStart, mergeOut)
  BY <1>3 DEF Merged, IsAscending, MergeTo
<1>7. ASSUME NEW elem \in queue, NEW i \in mergeStart + 1 .. mergeOut
      PROVE  tmp[1 - phase][i] <= elem.value
  <2>1. PICK j \in A : elem = [run |-> j, value |-> MergeIn[nextRunValue[j]]]
    BY <1>3 DEF Heads
  <2>2. MergeTo[i] <= MergeIn[nextRunValue[j]]
    BY <1>3 DEF Merged
  <2>3. elem.value = MergeIn[nextRunValue[j]]
    BY <2>1
  <2> QED
    BY <2>2, <2>3 DEF MergeTo
<1> QED
  BY <1>5, <1>6, <1>7

\* The output is the input, sorted, and the comparison with the file sorted in memory never
\* says anything else.
THEOREM SortSorts == SortSpec => []OutputIsSorted
BY SortIsInductive, OutputFollows, PTL

\* Each phase reads sorted runs of the length it expects, of all numbers of the input.
THEOREM PhasesReadRuns == SortSpec => []RunsAreSorted
BY SortIsInductive, RunsFollow, PTL

\* A merge writes in order and nothing before the smaller numbers that wait.
THEOREM MergesAreOrdered == SortSpec => []MergeIsOrdered
BY SortIsInductive, MergeFollows, PTL
=============================================================================
