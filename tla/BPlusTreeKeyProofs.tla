-------------------------- MODULE BPlusTreeKeyProofs ------------------------
(***************************************************************************)
(* Proofs about the keys of BPlusTree, on top of BPlusTreeProofs: every    *)
(* key is where a look-up goes for it, the tree is balanced, and no        *)
(* assertion of insert fails, for any number of threads, pages and calls,  *)
(* any degrees and any load.                                               *)
(***************************************************************************)
EXTENDS BPlusTreeProofs, WellFoundedInduction

---------------------------------------------------------------------------
(* Numbers and sequences *)

\* A set of numbers has a least one.
LEMMA LeastNatural ==
  ASSUME NEW T, T \subseteq Nat, T # {}
  PROVE  \E x \in T : \A y \in T : x <= y
<1> DEFINE R == OpToRel(<, Nat)
<1>1. IsWellFoundedOn(R, Nat)
  BY NatLessThanWellFounded
<1>2. \A x, y \in Nat : <<y, x>> \in R <=> y < x
  BY DEF OpToRel
<1> HIDE DEF R
<1>3. PICK x \in T : \A y \in T : ~ (<<y, x>> \in R)
  BY <1>1, WFMin
<1>4. x \in Nat /\ \A y \in T : y \in Nat /\ ~(y < x)
  BY <1>2, <1>3, Zenon
<1> QED
  BY <1>4

SortedKeys(keys) == \A i, j \in 1 .. Len(keys) : i < j => keys[i] < keys[j]

\* The index that separates the lesser keys from the others is the one that is found.
LEMMA LowerBoundIs ==
  ASSUME NEW keys \in Seq(Nat), NEW key \in Nat, NEW k \in 0 .. Len(keys),
         \A i \in 1 .. Len(keys) : keys[i] < key <=> i <= k
  PROVE  LowerBound(keys, key) = k
<1> DEFINE less == {i \in DOMAIN keys : keys[i] < key}
<1>1. Len(keys) \in Nat /\ k \in Int /\ 1 \in Int /\ DOMAIN keys = 1 .. Len(keys)
  OBVIOUS
<1>2. less = 1 .. k
  BY <1>1
<1>3. Cardinality(1 .. k) = IF 1 > k THEN 0 ELSE k - 1 + 1
  BY <1>1, FS_Interval
<1>4. Cardinality(1 .. k) = k
  BY <1>1, <1>3
<1> QED
  BY <1>2, <1>4 DEF LowerBound

\* In sorted keys there is such an index.
LEMMA LowerBoundSeparates ==
  ASSUME NEW keys \in Seq(Nat), SortedKeys(keys), NEW key \in Nat
  PROVE  \A i \in 1 .. Len(keys) : keys[i] < key <=> i <= LowerBound(keys, key)
<1> DEFINE n == Len(keys)
           T == {j \in 1 .. n + 1 : j = n + 1 \/ key <= keys[j]}
<1>1. n \in Nat /\ \A i \in 1 .. n : keys[i] \in Nat
  OBVIOUS
<1>2. T \subseteq Nat /\ n + 1 \in T
  BY <1>1
<1>3. PICK m \in T : \A j \in T : m <= j
  BY <1>2, LeastNatural
<1>4. m \in 1 .. n + 1 /\ (m = n + 1 \/ key <= keys[m])
  BY <1>3
<1>5. \A j \in 1 .. n : j \in T <=> key <= keys[j]
  BY <1>1
<1>6. \A i \in 1 .. n : i < m => keys[i] < key
  BY <1>1, <1>3, <1>4, <1>5
<1>7. \A i \in 1 .. n : m <= i => ~(keys[i] < key)
  <2>1. SUFFICES ASSUME NEW i \in 1 .. n, m <= i PROVE ~(keys[i] < key)
    OBVIOUS
  <2>2. m \in 1 .. n /\ key <= keys[m] /\ keys[m] \in Nat /\ keys[i] \in Nat
    BY <1>1, <1>4, <2>1
  <2>3. CASE i = m
    BY <2>2, <2>3
  <2>4. CASE i # m
    <3>1. keys[m] < keys[i]
      BY <1>1, <2>1, <2>2, <2>4 DEF SortedKeys
    <3> QED
      BY <2>2, <3>1
  <2> QED
    BY <2>3, <2>4
<1>8. m - 1 \in 0 .. n /\ \A i \in 1 .. n : i < m <=> i <= m - 1
  BY <1>1, <1>4
<1> HIDE DEF T
<1>9. \A i \in 1 .. n : keys[i] < key <=> i <= m - 1
  BY <1>4, <1>1, <1>6, <1>7, <1>8
<1>10. LowerBound(keys, key) = m - 1
  BY <1>8, <1>9, LowerBoundIs
<1> QED
  BY <1>9, <1>10

\* What is where after an insertion.
LEMMA InsertAtValue ==
  ASSUME NEW S, NEW s \in Seq(S), NEW i \in 1 .. Len(s) + 1, NEW e \in S
  PROVE  \A j \in 1 .. Len(s) + 1 :
           InsertAt(s, i, e)[j] = IF j < i THEN s[j] ELSE IF j = i THEN e ELSE s[j - 1]
<1> DEFINE front == SubSeq(s, 1, i - 1)
           back == SubSeq(s, i, Len(s))
           middle == front \o <<e>>
<1>1. Len(s) \in Nat /\ i \in Nat /\ i - 1 \in Nat
  OBVIOUS
<1>2. front \in Seq(S) /\ Len(front) = i - 1 /\ \A j \in 1 .. i - 1 : front[j] = s[j]
  BY <1>1
<1>3. back \in Seq(S) /\ Len(back) = Len(s) - i + 1
      /\ \A j \in 1 .. Len(s) - i + 1 : back[j] = s[i + j - 1]
  BY <1>1
<1>4. <<e>> \in Seq(S) /\ Len(<<e>>) = 1 /\ <<e>>[1] = e
  OBVIOUS
<1> HIDE DEF front, back
<1>5. /\ middle \in Seq(S) /\ Len(middle) = i
      /\ \A j \in 1 .. i : middle[j] = IF j < i THEN s[j] ELSE e
  BY <1>1, <1>2, <1>4
<1>6. InsertAt(s, i, e) = middle \o back
  BY DEF InsertAt, front, back
<1> HIDE DEF middle
<1>7. SUFFICES ASSUME NEW j \in 1 .. Len(s) + 1
               PROVE  (middle \o back)[j] = IF j < i THEN s[j] ELSE IF j = i THEN e ELSE s[j - 1]
  BY <1>6
<1>8. (middle \o back)[j] = IF j <= i THEN middle[j] ELSE back[j - i]
  BY <1>1, <1>3, <1>5
<1>9. CASE j <= i
  BY <1>1, <1>5, <1>8, <1>9
<1>10. CASE ~(j <= i)
  <2>1. j - i \in 1 .. Len(s) - i + 1 /\ i + (j - i) - 1 = j - 1
    BY <1>1, <1>10
  <2>2. back[j - i] = s[j - 1]
    BY <1>3, <2>1
  <2> QED
    BY <1>1, <1>8, <1>10, <2>2
<1> QED
  BY <1>9, <1>10

\* What is where after a removal.
LEMMA RemoveAtValue ==
  ASSUME NEW S, NEW s \in Seq(S), NEW i \in 1 .. Len(s)
  PROVE  \A j \in 1 .. Len(s) - 1 : RemoveAt(s, i)[j] = IF j < i THEN s[j] ELSE s[j + 1]
<1> DEFINE front == SubSeq(s, 1, i - 1)
           back == SubSeq(s, i + 1, Len(s))
<1>1. Len(s) \in Nat /\ i \in Nat /\ i - 1 \in Nat
  OBVIOUS
<1>2. front \in Seq(S) /\ Len(front) = i - 1 /\ \A j \in 1 .. i - 1 : front[j] = s[j]
  BY <1>1
<1>3. back \in Seq(S) /\ Len(back) = Len(s) - i /\ \A j \in 1 .. Len(s) - i : back[j] = s[i + j]
  BY <1>1
<1>4. RemoveAt(s, i) = front \o back
  BY DEF RemoveAt
<1> HIDE DEF front, back
<1>5. SUFFICES ASSUME NEW j \in 1 .. Len(s) - 1
               PROVE  (front \o back)[j] = IF j < i THEN s[j] ELSE s[j + 1]
  BY <1>4
<1>6. (front \o back)[j] = IF j < i THEN front[j] ELSE back[j - (i - 1)]
  BY <1>1, <1>2, <1>3
<1>7. CASE j < i
  BY <1>1, <1>2, <1>6, <1>7
<1>8. CASE ~(j < i)
  <2>1. j - (i - 1) \in 1 .. Len(s) - i /\ i + (j - (i - 1)) = j + 1
    BY <1>1, <1>8
  <2>2. back[j - (i - 1)] = s[j + 1]
    BY <1>3, <2>1
  <2> QED
    BY <1>6, <1>8, <2>2
<1> QED
  BY <1>7, <1>8

\* A part of a sequence.
LEMMA SubSeqValue ==
  ASSUME NEW S, NEW s \in Seq(S), NEW m \in Nat, NEW n \in Nat, 1 <= m, n <= Len(s), m <= n + 1
  PROVE  /\ SubSeq(s, m, n) \in Seq(S)
         /\ Len(SubSeq(s, m, n)) = n - m + 1
         /\ \A j \in 1 .. n - m + 1 : SubSeq(s, m, n)[j] = s[m + j - 1]
OBVIOUS

---------------------------------------------------------------------------
(* The shape of a tree: page p is for the keys above lo[p] and up to hi[p] (-1 where there *)
(* is no bound), it is level[p] above the leaves, and up[p] has it as a child.             *)

IsInner(n) == n.leaf = FALSE
IsLeaf(n) == n.leaf = TRUE

Within(key, low, high) == low < key /\ (high = -1 \/ key <= high)

KeysOK(n, low, high) ==
  /\ SortedKeys(n.keys)
  /\ \A i \in 1 .. Len(n.keys) : Within(n.keys[i], low, high)

\* The places of an inner node's children, and the bounds of the child at place i.
Places(n) == 1 .. Len(n.keys) + 1
LowOf(n, i, low) == IF i = 1 THEN low ELSE n.keys[i - 1]
HighOf(n, i, high) == IF i = Len(n.keys) + 1 THEN high ELSE n.keys[i]

\* Page c is the child at place i of the node n, which is in page p.
ChildOK(n, p, i, c, lo, hi, level, up) ==
  /\ c # Root /\ up[c] = p /\ level[p] = level[c] + 1
  /\ lo[c] = LowOf(n, i, lo[p]) /\ hi[c] = HighOf(n, i, hi[p])

ChildrenOK(n, p, lo, hi, level, up) ==
  \A i \in Places(n) : ChildOK(n, p, i, n.children[i], lo, hi, level, up)

HasChild(n, c) == \E i \in Places(n) : n.children[i] = c

\* A leaf ends where the next one begins.
LinkOK(n, p, lo, hi) ==
  IF n.next = NoPage THEN hi[p] = -1 ELSE hi[p] # -1 /\ lo[n.next] = hi[p]

\* The pages in A have nodes that lead to pages in A.
NodesIn(ns, A) ==
  /\ Root \in A /\ A \subseteq Pages
  /\ IsInner(ns[Root])
  /\ \A p \in A : \/ IsInner(ns[p]) /\ ns[p] \in InnerIn(A)
                  \/ IsLeaf(ns[p]) /\ ns[p] \in LeafIn(A)

\* They are a tree, and the first leaf is the leftmost one.
Tree(ns, A, lo, hi, level, up) ==
  /\ lo \in [Pages -> Nat \cup {-1}] /\ hi \in [Pages -> Nat \cup {-1}]
  /\ level \in [Pages -> Nat] /\ up \in [Pages -> Pages]
  /\ lo[Root] = -1 /\ hi[Root] = -1
  /\ FirstLeaf \in A /\ lo[FirstLeaf] = -1 /\ level[FirstLeaf] = 0
  /\ \A p \in A : hi[p] = -1 \/ lo[p] < hi[p]
  /\ \A p \in A : KeysOK(ns[p], lo[p], hi[p])
  /\ \A p \in A : IsInner(ns[p]) => ChildrenOK(ns[p], p, lo, hi, level, up)
  /\ \A p \in A : IsLeaf(ns[p]) => level[p] = 0 /\ LinkOK(ns[p], p, lo, hi)
  /\ \A p \in A \ {Root} : up[p] \in A /\ IsInner(ns[up[p]]) /\ HasChild(ns[up[p]], p)

LEMMA NodeFields ==
  ASSUME NEW ns, NEW A, NodesIn(ns, A), NEW p \in A
  PROVE  /\ p \in Pages /\ (IsInner(ns[p]) <=> ~IsLeaf(ns[p]))
         /\ ns[p].keys \in Seq(Nat) /\ Len(ns[p].keys) \in Nat
         /\ \A i \in 1 .. Len(ns[p].keys) : ns[p].keys[i] \in Nat
         /\ IsInner(ns[p]) => /\ ns[p] \in InnerIn(A) /\ ns[p].children \in Seq(A)
                              /\ Len(ns[p].children) = Len(ns[p].keys) + 1
                              /\ \A i \in Places(ns[p]) : ns[p].children[i] \in A
         /\ IsLeaf(ns[p]) => ns[p] \in LeafIn(A) /\ ns[p].next \in A \cup {NoPage}
<1>1. p \in Pages /\ (IsInner(ns[p]) <=> ~IsLeaf(ns[p]))
  BY DEF NodesIn, IsInner, IsLeaf
<1>2. CASE IsInner(ns[p]) /\ ns[p] \in InnerIn(A)
  <2>1. /\ ns[p].keys \in Seq(Nat) /\ Len(ns[p].keys) \in Nat /\ ns[p].children \in Seq(A)
        /\ Len(ns[p].children) = Len(ns[p].keys) + 1
    BY <1>2, InnerFields
  <2>2. \A i \in 1 .. Len(ns[p].keys) : ns[p].keys[i] \in Nat
    BY <2>1, ElementOfSeq
  <2>3. \A i \in Places(ns[p]) : ns[p].children[i] \in A
    BY <2>1, ElementOfSeq DEF Places
  <2> QED
    BY <1>1, <1>2, <2>1, <2>2, <2>3
<1>3. CASE IsLeaf(ns[p]) /\ ns[p] \in LeafIn(A)
  <2>1. ns[p].keys \in Seq(Nat) /\ Len(ns[p].keys) \in Nat /\ ns[p].next \in A \cup {NoPage}
    BY <1>3, LeafFields
  <2>2. \A i \in 1 .. Len(ns[p].keys) : ns[p].keys[i] \in Nat
    BY <2>1, ElementOfSeq
  <2> QED
    BY <1>1, <1>3, <2>1, <2>2
<1> QED
  BY <1>2, <1>3 DEF NodesIn

LEMMA TreeTypes ==
  ASSUME NEW ns, NEW A, NEW lo, NEW hi, NEW level, NEW up, Tree(ns, A, lo, hi, level, up),
         NEW p \in Pages
  PROVE  /\ lo[p] \in Nat \cup {-1} /\ lo[p] \in Int /\ hi[p] \in Nat \cup {-1} /\ hi[p] \in Int
         /\ level[p] \in Nat /\ up[p] \in Pages
BY DEF Tree

\* The children of an inner node.
LEMMA TreeChild ==
  ASSUME NEW ns, NEW A, NodesIn(ns, A),
         NEW lo, NEW hi, NEW level, NEW up, Tree(ns, A, lo, hi, level, up),
         NEW p \in A, IsInner(ns[p]), NEW i \in Places(ns[p])
  PROVE  /\ ns[p].children[i] \in A /\ ns[p].children[i] \in Pages
         /\ ChildOK(ns[p], p, i, ns[p].children[i], lo, hi, level, up)
<1>1. ns[p].children[i] \in A
  BY NodeFields
<1>2. ns[p].children[i] \in Pages
  BY <1>1 DEF NodesIn
<1>3. ChildrenOK(ns[p], p, lo, hi, level, up)
  BY DEF Tree
<1> QED
  BY <1>1, <1>2, <1>3 DEF ChildrenOK

\* The keys of an inner node are in ascending order and within its bounds.
LEMMA InnerBounds ==
  ASSUME NEW ns, NEW A, NodesIn(ns, A),
         NEW lo, NEW hi, NEW level, NEW up, Tree(ns, A, lo, hi, level, up), NEW p \in A
  PROVE  /\ \A i, j \in 1 .. Len(ns[p].keys) : i < j => ns[p].keys[i] < ns[p].keys[j]
         /\ \A i \in 1 .. Len(ns[p].keys) : lo[p] < ns[p].keys[i]
         /\ \A i \in 1 .. Len(ns[p].keys) : hi[p] = -1 \/ ns[p].keys[i] <= hi[p]
<1>1. KeysOK(ns[p], lo[p], hi[p])
  BY DEF Tree
<1> QED
  BY <1>1 DEF KeysOK, SortedKeys, Within

\* No page is at two places of a node: children begin where the one before ends.
LEMMA OnePlace ==
  ASSUME NEW ns, NEW A, NodesIn(ns, A),
         NEW lo, NEW hi, NEW level, NEW up, Tree(ns, A, lo, hi, level, up),
         NEW p \in A, IsInner(ns[p]), NEW i \in Places(ns[p]), NEW j \in Places(ns[p]), i # j
  PROVE  ns[p].children[i] # ns[p].children[j]
<1> DEFINE keys == ns[p].keys
<1>1. /\ Len(keys) \in Nat /\ \A k \in 1 .. Len(keys) : keys[k] \in Nat
      /\ p \in Pages
  BY NodeFields
<1>2. /\ \A k, l \in 1 .. Len(keys) : k < l => keys[k] < keys[l]
      /\ \A k \in 1 .. Len(keys) : lo[p] < keys[k]
  BY InnerBounds
<1>3. lo[p] \in Int
  BY <1>1, TreeTypes
<1>0. ASSUME NEW k \in Places(ns[p])
      PROVE  lo[ns[p].children[k]] = LowOf(ns[p], k, lo[p])
  <2>1. ChildOK(ns[p], p, k, ns[p].children[k], lo, hi, level, up)
    BY TreeChild
  <2> QED
    BY <2>1 DEF ChildOK
<1>4. ASSUME NEW k \in Places(ns[p]), NEW l \in Places(ns[p]), k < l
      PROVE  ns[p].children[k] # ns[p].children[l]
  <2>1. lo[ns[p].children[k]] = LowOf(ns[p], k, lo[p]) /\ lo[ns[p].children[l]] = LowOf(ns[p], l, lo[p])
    BY <1>0
  <2>2. l - 1 \in 1 .. Len(keys) /\ l # 1
    BY <1>1, <1>4 DEF Places
  <2>3. LowOf(ns[p], l, lo[p]) = keys[l - 1]
    BY <2>2 DEF LowOf
  <2>4. CASE k = 1
    <3>1. LowOf(ns[p], k, lo[p]) = lo[p]
      BY <2>4 DEF LowOf
    <3>2. lo[p] < keys[l - 1] /\ keys[l - 1] \in Nat
      BY <1>1, <1>2, <2>2
    <3> QED
      BY <1>3, <2>1, <2>3, <3>1, <3>2
  <2>5. CASE k # 1
    <3>1. LowOf(ns[p], k, lo[p]) = keys[k - 1]
      BY <2>5 DEF LowOf
    <3>2. k - 1 \in 1 .. Len(keys) /\ k - 1 < l - 1
      BY <1>1, <1>4, <2>5 DEF Places
    <3>3. keys[k - 1] < keys[l - 1] /\ keys[l - 1] \in Nat /\ keys[k - 1] \in Nat
      BY <1>1, <1>2, <2>2, <3>2
    <3> QED
      BY <2>1, <2>3, <3>1, <3>3
  <2> QED
    BY <2>4, <2>5
<1>5. i < j \/ j < i
  BY <1>1 DEF Places
<1> QED
  BY <1>4, <1>5

\* lookup in an inner node gives the child at place i, for the keys between its bounds.
LEMMA LookupAt ==
  ASSUME NEW n, n.keys \in Seq(Nat), SortedKeys(n.keys), NEW key \in Nat,
         NEW low \in Nat \cup {-1}, NEW high \in Nat \cup {-1}, NEW i \in Places(n),
         Within(key, LowOf(n, i, low), HighOf(n, i, high))
  PROVE  LowerBound(n.keys, key) = i - 1 /\ InnerLookup(n, key) = n.children[i]
<1> DEFINE keys == n.keys
<1>1. Len(keys) \in Nat /\ i \in 1 .. Len(keys) + 1 /\ \A j \in 1 .. Len(keys) : keys[j] \in Nat
  BY DEF Places
<1>2. \A j \in 1 .. Len(keys) : j <= i - 1 => keys[j] < key
  <2>1. SUFFICES ASSUME NEW j \in 1 .. Len(keys), j <= i - 1 PROVE keys[j] < key
    OBVIOUS
  <2>2. i - 1 \in 1 .. Len(keys) /\ i # 1
    BY <1>1, <2>1
  <2>3. keys[i - 1] < key
    BY <2>2 DEF Within, LowOf
  <2>4. j = i - 1 \/ keys[j] < keys[i - 1]
    BY <1>1, <2>1, <2>2 DEF SortedKeys
  <2>5. keys[j] \in Nat /\ keys[i - 1] \in Nat
    BY <1>1, <2>2
  <2> HIDE DEF keys
  <2> QED
    BY <2>3, <2>4, <2>5
<1>3. \A j \in 1 .. Len(keys) : ~(j <= i - 1) => ~(keys[j] < key)
  <2>1. SUFFICES ASSUME NEW j \in 1 .. Len(keys), ~(j <= i - 1) PROVE ~(keys[j] < key)
    OBVIOUS
  <2>2. i \in 1 .. Len(keys) /\ i # Len(keys) + 1
    BY <1>1, <2>1
  <2>3. key <= keys[i]
    BY <1>1, <2>2 DEF Within, HighOf
  <2>4. j = i \/ keys[i] < keys[j]
    BY <1>1, <2>1, <2>2 DEF SortedKeys
  <2> QED
    BY <1>1, <2>2, <2>3, <2>4
<1>4. i - 1 \in 0 .. Len(keys)
  BY <1>1
<1>5. LowerBound(keys, key) = i - 1
  BY <1>2, <1>3, <1>4, LowerBoundIs
<1>6. i - 1 + 1 = i
  BY <1>1
<1> QED
  BY <1>5, <1>6 DEF InnerLookup

\* A key between the bounds of a node is between those of the child that lookup gives.
LEMMA LookupPlace ==
  ASSUME NEW n, n.keys \in Seq(Nat), SortedKeys(n.keys), NEW key \in Nat,
         NEW low \in Nat \cup {-1}, NEW high \in Nat \cup {-1}, Within(key, low, high)
  PROVE  \E i \in Places(n) : /\ i = LowerBound(n.keys, key) + 1
                              /\ InnerLookup(n, key) = n.children[i]
                              /\ Within(key, LowOf(n, i, low), HighOf(n, i, high))
<1> DEFINE keys == n.keys
           k == LowerBound(keys, key)
<1>1. Len(keys) \in Nat /\ \A j \in 1 .. Len(keys) : keys[j] \in Nat
  OBVIOUS
<1>2. k \in 0 .. Len(keys)
  BY LowerBoundType
<1>3. \A i \in 1 .. Len(keys) : keys[i] < key <=> i <= k
  BY LowerBoundSeparates
<1>4. InnerLookup(n, key) = n.children[k + 1]
  BY DEF InnerLookup
<1> HIDE DEF k
<1>5. k + 1 \in Places(n)
  BY <1>1, <1>2 DEF Places
<1>6. LowOf(n, k + 1, low) < key
  <2>1. CASE k = 0
    BY <2>1 DEF LowOf, Within
  <2>2. CASE k # 0
    <3>1. k \in 1 .. Len(keys) /\ k + 1 # 1 /\ k + 1 - 1 = k
      BY <1>1, <1>2, <2>2
    <3>2. keys[k] < key
      BY <1>3, <3>1
    <3> QED
      BY <3>1, <3>2 DEF LowOf
  <2> QED
    BY <2>1, <2>2
<1>7. HighOf(n, k + 1, high) = -1 \/ key <= HighOf(n, k + 1, high)
  <2>1. CASE k = Len(keys)
    BY <2>1 DEF HighOf, Within
  <2>2. CASE k # Len(keys)
    <3>1. k + 1 \in 1 .. Len(keys) /\ k + 1 # Len(keys) + 1 /\ ~(k + 1 <= k)
      BY <1>1, <1>2, <2>2
    <3>2. ~(keys[k + 1] < key) /\ keys[k + 1] \in Nat
      BY <1>1, <1>3, <3>1
    <3>3. HighOf(n, k + 1, high) = keys[k + 1]
      BY <3>1 DEF HighOf
    <3> QED
      BY <3>2, <3>3
  <2> QED
    BY <2>1, <2>2
<1>8. Within(key, LowOf(n, k + 1, low), HighOf(n, k + 1, high))
  BY <1>6, <1>7 DEF Within
<1> QED
  BY <1>4, <1>5, <1>8 DEF k

---------------------------------------------------------------------------
(* Ways through the tree *)

\* lookup in an inner node that the key belongs to gives a child that it belongs to.
LEMMA LookupChild ==
  ASSUME NEW ns, NEW A, NodesIn(ns, A),
         NEW lo, NEW hi, NEW level, NEW up, Tree(ns, A, lo, hi, level, up),
         NEW p \in A, IsInner(ns[p]), NEW key \in Nat, Within(key, lo[p], hi[p]),
         NEW c, c = InnerLookup(ns[p], key)
  PROVE  /\ c \in A /\ c # Root /\ up[c] = p /\ level[p] = level[c] + 1
         /\ Within(key, lo[c], hi[c])
<1> DEFINE n == ns[p]
<1>1. n.keys \in Seq(Nat) /\ SortedKeys(n.keys)
  BY NodeFields DEF Tree, KeysOK
<1>2. lo[p] \in Nat \cup {-1} /\ hi[p] \in Nat \cup {-1}
  BY NodeFields, TreeTypes
<1>3. PICK i \in Places(n) : /\ InnerLookup(n, key) = n.children[i]
                             /\ Within(key, LowOf(n, i, lo[p]), HighOf(n, i, hi[p]))
  <2> HIDE DEF n
  <2> QED
    BY <1>1, <1>2, LookupPlace DEF n
<1>4. c = ns[p].children[i]
  BY <1>3
<1>5. ns[p].children[i] \in A /\ ChildOK(ns[p], p, i, ns[p].children[i], lo, hi, level, up)
  BY <1>3, TreeChild
<1> QED
  BY <1>3, <1>4, <1>5 DEF ChildOK

\* The first child of an inner node begins where the node does.
LEMMA LeftmostChild ==
  ASSUME NEW ns, NEW A, NodesIn(ns, A),
         NEW lo, NEW hi, NEW level, NEW up, Tree(ns, A, lo, hi, level, up),
         NEW p \in A, IsInner(ns[p]), NEW c, c = Leftmost(ns[p])
  PROVE  c \in A /\ c # Root /\ up[c] = p /\ level[p] = level[c] + 1 /\ lo[c] = lo[p]
<1>1. 1 \in Places(ns[p])
  BY NodeFields DEF Places
<1>2. ns[p].children[1] \in A /\ ChildOK(ns[p], p, 1, ns[p].children[1], lo, hi, level, up)
  BY <1>1, TreeChild
<1> QED
  BY <1>2 DEF ChildOK, Leftmost, LowOf

\* The place of a page in the node above it.
LEMMA PlaceAbove ==
  ASSUME NEW ns, NEW A, NodesIn(ns, A),
         NEW lo, NEW hi, NEW level, NEW up, Tree(ns, A, lo, hi, level, up),
         NEW c \in A, c # Root
  PROVE  \E i \in Places(ns[up[c]]) : /\ ns[up[c]].children[i] = c
                                     /\ ChildOK(ns[up[c]], up[c], i, c, lo, hi, level, up)
<1>1. up[c] \in A /\ IsInner(ns[up[c]]) /\ HasChild(ns[up[c]], c)
  BY DEF Tree
<1>2. PICK i \in Places(ns[up[c]]) : ns[up[c]].children[i] = c
  BY <1>1 DEF HasChild
<1>3. ChildOK(ns[up[c]], up[c], i, ns[up[c]].children[i], lo, hi, level, up)
  BY <1>1, TreeChild
<1> QED
  BY <1>2, <1>3

LEMMA AboveIn ==
  ASSUME NEW ns, NEW A, NEW lo, NEW hi, NEW level, NEW up, Tree(ns, A, lo, hi, level, up),
         NEW c \in A, c # Root
  PROVE  up[c] \in A
BY DEF Tree

LEMMA Above ==
  ASSUME NEW ns, NEW A, NodesIn(ns, A),
         NEW lo, NEW hi, NEW level, NEW up, Tree(ns, A, lo, hi, level, up),
         NEW c \in A, c # Root, NEW p \in A, p = up[c]
  PROVE  /\ p \in Pages /\ p # c /\ level[p] = level[c] + 1
         /\ IsInner(ns[p])
<1>1. p \in A /\ IsInner(ns[p])
  BY DEF Tree
<1>2. c \in Pages /\ p \in Pages
  BY <1>1 DEF NodesIn
<1>3. level[p] = level[c] + 1
  BY PlaceAbove DEF ChildOK
<1>4. level[c] \in Nat
  BY <1>2, TreeTypes
<1>5. p # c
  BY <1>3, <1>4
<1> QED
  BY <1>1, <1>2, <1>3, <1>5

\* A child is within the bounds of its node.
LEMMA BoundsAbove ==
  ASSUME NEW n, n.keys \in Seq(Nat), NEW low \in Nat \cup {-1}, NEW high \in Nat \cup {-1},
         KeysOK(n, low, high), NEW i \in Places(n), NEW key \in Nat,
         Within(key, LowOf(n, i, low), HighOf(n, i, high))
  PROVE  Within(key, low, high)
<1> DEFINE keys == n.keys
<1>1. /\ Len(keys) \in Nat /\ i \in 1 .. Len(keys) + 1
      /\ \A j \in 1 .. Len(keys) : keys[j] \in Nat
  BY DEF Places
<1>2. /\ \A j \in 1 .. Len(keys) : low < keys[j]
      /\ \A j \in 1 .. Len(keys) : high = -1 \/ keys[j] <= high
  BY DEF KeysOK, Within
<1>3. low < key
  <2>1. CASE i = 1
    BY <2>1 DEF LowOf, Within
  <2>2. CASE i # 1
    <3>1. i - 1 \in 1 .. Len(keys) /\ keys[i - 1] < key
      BY <1>1, <2>2 DEF LowOf, Within
    <3>2. low < keys[i - 1] /\ keys[i - 1] \in Nat
      BY <1>1, <1>2, <3>1
    <3> QED
      BY <3>1, <3>2
  <2> QED
    BY <2>1, <2>2
<1>4. high = -1 \/ key <= high
  <2>1. CASE i = Len(keys) + 1
    BY <2>1 DEF HighOf, Within
  <2>2. CASE i # Len(keys) + 1
    <3>1. i \in 1 .. Len(keys)
      BY <1>1, <2>2
    <3>2. key <= keys[i]
      BY <1>1, <2>2, <3>1 DEF HighOf, Within
    <3>3. keys[i] \in Nat /\ (high = -1 \/ keys[i] <= high)
      BY <1>1, <1>2, <3>1
    <3> QED
      BY <3>2, <3>3
  <2> QED
    BY <2>1, <2>2
<1> QED
  BY <1>3, <1>4 DEF Within

\* From the node above a page, lookup leads to the page for the keys that belong to it.
LEMMA LookupFromAbove ==
  ASSUME NEW ns, NEW A, NodesIn(ns, A),
         NEW lo, NEW hi, NEW level, NEW up, Tree(ns, A, lo, hi, level, up),
         NEW c \in A, c # Root, NEW key \in Nat, Within(key, lo[c], hi[c])
  PROVE  InnerLookup(ns[up[c]], key) = c /\ Within(key, lo[up[c]], hi[up[c]])
<1>0. PICK p \in A : p = up[c]
  BY AboveIn
<1>1. p \in A /\ p \in Pages /\ IsInner(ns[p])
  BY <1>0, Above
<1>2. PICK i \in Places(ns[p]) : /\ ns[p].children[i] = c
                                 /\ ChildOK(ns[p], p, i, c, lo, hi, level, up)
  BY <1>0, PlaceAbove
<1>3. Within(key, LowOf(ns[p], i, lo[p]), HighOf(ns[p], i, hi[p]))
  BY <1>2 DEF ChildOK
<1>4. ns[p].keys \in Seq(Nat) /\ KeysOK(ns[p], lo[p], hi[p]) /\ SortedKeys(ns[p].keys)
  BY <1>1, NodeFields DEF Tree, KeysOK
<1>5. lo[p] \in Nat \cup {-1} /\ hi[p] \in Nat \cup {-1}
  BY <1>1, TreeTypes
<1>6. Within(key, lo[p], hi[p]) /\ InnerLookup(ns[p], key) = ns[p].children[i]
  <2> DEFINE n == ns[p]
             low == lo[p]
             high == hi[p]
  <2>1. /\ n.keys \in Seq(Nat) /\ KeysOK(n, low, high) /\ SortedKeys(n.keys)
        /\ low \in Nat \cup {-1} /\ high \in Nat \cup {-1}
    BY <1>4, <1>5
  <2>2. i \in Places(n) /\ Within(key, LowOf(n, i, low), HighOf(n, i, high))
    BY <1>3
  <2> HIDE DEF n, low, high
  <2>3. InnerLookup(n, key) = n.children[i]
    BY <2>1, <2>2, LookupAt
  <2>4. Within(key, low, high)
    BY <2>1, <2>2, BoundsAbove
  <2> QED
    BY <2>3, <2>4 DEF n, low, high
<1> QED
  BY <1>0, <1>2, <1>6

---------------------------------------------------------------------------
(* The halves of a full node *)

\* The keys up to the splitter s stay in the old node, those above it go to the new one.
KeysSplit(old, new, s, low, high) ==
  /\ s \in Nat /\ low < s /\ (high = -1 \/ s < high)
  /\ KeysOK(old, low, s) /\ KeysOK(new, s, high)

\* The children stay in their order; the splitter is a key of neither half.
ChildrenSplit(n, old, new, s) ==
  \E k \in Nat :
    /\ k + 1 \in 1 .. Len(n.keys) /\ s = n.keys[k + 1]
    /\ Len(old.keys) = k /\ Len(new.keys) = Len(n.keys) - k - 1
    /\ \A i \in 1 .. k : old.keys[i] = n.keys[i]
    /\ \A i \in 1 .. k + 1 : old.children[i] = n.children[i]
    /\ \A i \in 1 .. Len(n.keys) - k - 1 : new.keys[i] = n.keys[k + 1 + i]
    /\ \A i \in 1 .. Len(n.keys) - k : new.children[i] = n.children[k + 1 + i]

\* old has the first k keys of n, and new those behind the key s at place a.
KeyParts(n, old, new, s, a, k) ==
  /\ n.keys \in Seq(Nat) /\ a \in 1 .. Len(n.keys) /\ s = n.keys[a] /\ a < Len(n.keys)
  /\ k \in Nat /\ k <= a /\ Len(old.keys) = k /\ \A i \in 1 .. k : old.keys[i] = n.keys[i]
  /\ Len(new.keys) = Len(n.keys) - a
  /\ \A i \in 1 .. Len(n.keys) - a : new.keys[i] = n.keys[a + i]

\* Two parts of sorted keys, of which the first ends before s and the second begins behind it.
LEMMA KeysAreSplit ==
  ASSUME NEW n, NEW low \in Nat \cup {-1}, NEW high \in Nat \cup {-1}, KeysOK(n, low, high),
         NEW old, NEW new, NEW s, NEW a, NEW k, KeyParts(n, old, new, s, a, k)
  PROVE  KeysSplit(old, new, s, low, high)
<1>0. /\ n.keys \in Seq(Nat) /\ a \in 1 .. Len(n.keys) /\ s = n.keys[a] /\ a < Len(n.keys)
      /\ k \in Nat /\ k <= a /\ Len(old.keys) = k /\ \A i \in 1 .. k : old.keys[i] = n.keys[i]
      /\ Len(new.keys) = Len(n.keys) - a
      /\ \A i \in 1 .. Len(n.keys) - a : new.keys[i] = n.keys[a + i]
  BY DEF KeyParts
<1> USE <1>0
<1> DEFINE m == Len(n.keys)
<1>1. m \in Nat /\ a \in Nat /\ \A i \in 1 .. m : n.keys[i] \in Nat
  OBVIOUS
<1>2. /\ \A i, j \in 1 .. m : i < j => n.keys[i] < n.keys[j]
      /\ \A i \in 1 .. m : low < n.keys[i] /\ (high = -1 \/ n.keys[i] <= high)
  BY DEF KeysOK, SortedKeys, Within
<1>3. s \in Nat /\ low < s
  BY <1>1, <1>2
<1>4. high = -1 \/ s < high
  <2>1. m \in 1 .. m /\ a < m
    BY <1>1
  <2>2. n.keys[a] < n.keys[m] /\ (high = -1 \/ n.keys[m] <= high)
    BY <1>2, <2>1
  <2>3. n.keys[a] \in Nat /\ n.keys[m] \in Nat
    BY <1>1, <2>1
  <2> QED
    BY <2>2, <2>3
<1>5. KeysOK(old, low, s)
  <2>1. ASSUME NEW i \in 1 .. Len(old.keys)
        PROVE  i \in 1 .. m /\ old.keys[i] = n.keys[i] /\ i <= a
    <3>1. i \in 1 .. k /\ old.keys[i] = n.keys[i]
      OBVIOUS
    <3>2. a \in Nat /\ a < m /\ k <= a
      OBVIOUS
    <3> QED
      BY <1>1, <3>1, <3>2
  <2>2. SortedKeys(old.keys)
    BY <1>2, <2>1 DEF SortedKeys
  <2>3. ASSUME NEW i \in 1 .. Len(old.keys)
        PROVE  Within(old.keys[i], low, s)
    <3>1. i \in 1 .. m /\ old.keys[i] = n.keys[i] /\ i <= a
      BY <2>1
    <3>2. low < n.keys[i]
      BY <1>2, <3>1
    <3>3. n.keys[i] <= n.keys[a]
      <4>1. i = a \/ n.keys[i] < n.keys[a]
        BY <1>1, <1>2, <3>1
      <4>2. n.keys[i] \in Nat /\ n.keys[a] \in Nat
        BY <1>1, <3>1
      <4> QED
        BY <4>1, <4>2
    <3> QED
      BY <3>1, <3>2, <3>3 DEF Within
  <2> QED
    BY <2>2, <2>3 DEF KeysOK
<1>6. KeysOK(new, s, high)
  <2>1. ASSUME NEW i \in 1 .. Len(new.keys)
        PROVE  a + i \in 1 .. m /\ new.keys[i] = n.keys[a + i] /\ a < a + i
    BY <1>1
  <2>2. SortedKeys(new.keys)
    <3>1. SUFFICES ASSUME NEW i \in 1 .. Len(new.keys), NEW j \in 1 .. Len(new.keys), i < j
                   PROVE  new.keys[i] < new.keys[j]
      BY DEF SortedKeys
    <3>2. a + i \in 1 .. m /\ a + j \in 1 .. m /\ a + i < a + j
      BY <1>1, <2>1, <3>1
    <3>3. n.keys[a + i] < n.keys[a + j]
      BY <1>2, <3>2
    <3> QED
      BY <2>1, <3>3
  <2>3. ASSUME NEW i \in 1 .. Len(new.keys)
        PROVE  Within(new.keys[i], s, high)
    <3>1. a + i \in 1 .. m /\ new.keys[i] = n.keys[a + i] /\ a < a + i
      BY <2>1
    <3>2. n.keys[a] < n.keys[a + i] /\ (high = -1 \/ n.keys[a + i] <= high)
      BY <1>2, <3>1
    <3> QED
      BY <3>1, <3>2 DEF Within
  <2> QED
    BY <2>2, <2>3 DEF KeysOK
<1> QED
  BY <1>3, <1>4, <1>5, <1>6 DEF KeysSplit

LEMMA InnerParts ==
  ASSUME NEW keys, NEW children, NEW n, n = InnerNode(keys, children)
  PROVE  IsInner(n) /\ n.keys = keys /\ n.children = children
BY DEF InnerNode, IsInner

LEMMA LeafParts ==
  ASSUME NEW keys, NEW values, NEW next, NEW n, n = LeafNode(keys, values, next)
  PROVE  IsLeaf(n) /\ n.keys = keys /\ n.values = values /\ n.next = next
BY DEF LeafNode, IsLeaf

\* The two parts of a sequence.
LEMMA SeqHalves ==
  ASSUME NEW T, NEW s \in Seq(T), NEW m, m = Len(s), NEW k \in Nat, k <= m,
         NEW front, front = SubSeq(s, 1, k), NEW back, back = SubSeq(s, k + 1, m)
  PROVE  /\ Len(front) = k /\ \A i \in 1 .. k : front[i] = s[i]
         /\ Len(back) = m - k /\ \A i \in 1 .. m - k : back[i] = s[k + i]
<1>1. m \in Nat
  OBVIOUS
<1>2. k <= Len(s) /\ k - 1 + 1 = k /\ \A i \in 1 .. k : 1 + i - 1 = i
  BY <1>1
<1>3. Len(front) = k - 1 + 1 /\ \A i \in 1 .. k - 1 + 1 : front[i] = s[1 + i - 1]
  BY <1>1, <1>2, SubSeqValue
<1>4. PICK from \in Nat : from = k + 1
  OBVIOUS
<1>5. /\ 1 <= from /\ m <= Len(s) /\ from <= m + 1
      /\ m - from + 1 = m - k /\ \A i \in 1 .. m - k : from + i - 1 = k + i
  BY <1>1, <1>4
<1>6. Len(back) = m - from + 1 /\ \A i \in 1 .. m - from + 1 : back[i] = s[from + i - 1]
  <2>1. /\ Len(SubSeq(s, from, m)) = m - from + 1
        /\ \A i \in 1 .. m - from + 1 : SubSeq(s, from, m)[i] = s[from + i - 1]
    <3>1. PICK n \in Nat : n = m
      BY <1>1
    <3>2. 1 <= from /\ n <= Len(s) /\ from <= n + 1
      BY <1>5, <3>1
    <3>3. /\ Len(SubSeq(s, from, n)) = n - from + 1
          /\ \A i \in 1 .. n - from + 1 : SubSeq(s, from, n)[i] = s[from + i - 1]
      BY <3>2, SubSeqValue
    <3> QED
      BY <3>1, <3>3
  <2> QED
    BY <1>4, <2>1
<1> QED
  BY <1>2, <1>3, <1>5, <1>6

\* A full inner node has room in both halves, and a key between them.
LEMMA InnerHalves ==
  ASSUME NEW A, NEW n \in InnerIn(A), ~HasFreeSpace(n),
         NEW low \in Nat \cup {-1}, NEW high \in Nat \cup {-1}, KeysOK(n, low, high),
         NEW old, old = InnerSplit(n).old, NEW new, new = InnerSplit(n).new,
         NEW s, s = InnerSplit(n).splitter
  PROVE  /\ IsInner(old) /\ IsInner(new) /\ HasFreeSpace(old) /\ HasFreeSpace(new)
         /\ KeysSplit(old, new, s, low, high)
         /\ ChildrenSplit(n, old, new, s)
<1> DEFINE m == Len(n.keys)
           k == m \div 2
<1>1. /\ n.keys \in Seq(Nat) /\ n.children \in Seq(A) /\ Len(n.children) = m + 1
      /\ m \in Nat /\ Size(n) = m /\ m < 2 * InnerDegree /\ ~(m + 1 < 2 * InnerDegree)
  BY InnerFields
<1>2. /\ old = InnerNode(SubSeq(n.keys, 1, k), SubSeq(n.children, 1, k + 1))
      /\ new = InnerNode(SubSeq(n.keys, k + 2, m), SubSeq(n.children, k + 2, m + 1))
      /\ s = n.keys[k + 1]
  BY <1>1 DEF InnerSplit
<1>3. m = Len(n.keys)
  OBVIOUS
<1> HIDE DEF m
<1>4. m >= 3
  BY <1>1, Degrees
<1>5. k \in Nat /\ 1 <= k /\ k + 1 < m /\ k + 1 < 2 * InnerDegree /\ m - k - 1 + 1 < 2 * InnerDegree
  BY <1>1, <1>4, Degrees
<1> HIDE DEF k
<1>6. /\ IsInner(old) /\ old.keys = SubSeq(n.keys, 1, k)
      /\ old.children = SubSeq(n.children, 1, k + 1)
      /\ IsInner(new) /\ new.keys = SubSeq(n.keys, k + 2, m)
      /\ new.children = SubSeq(n.children, k + 2, m + 1)
  <2> DEFINE a == SubSeq(n.keys, 1, k)
             b == SubSeq(n.children, 1, k + 1)
             c == SubSeq(n.keys, k + 2, m)
             d == SubSeq(n.children, k + 2, m + 1)
  <2>1. old = InnerNode(a, b) /\ new = InnerNode(c, d)
    BY <1>2
  <2> HIDE DEF a, b, c, d
  <2>2. /\ IsInner(old) /\ old.keys = a /\ old.children = b
        /\ IsInner(new) /\ new.keys = c /\ new.children = d
    BY <2>1, InnerParts
  <2> QED
    BY <2>2 DEF a, b, c, d
<1>7. /\ Len(old.keys) = k
      /\ \A i \in 1 .. k : old.keys[i] = n.keys[i]
  <2>1. PICK keys \in Seq(Nat) : keys = n.keys
    BY <1>1
  <2>2. PICK front : front = SubSeq(keys, 1, k)
    OBVIOUS
  <2>3. m = Len(keys) /\ k \in Nat /\ k <= m
    BY <1>1, <1>3, <1>5, <2>1
  <2>4. Len(front) = k /\ \A i \in 1 .. k : front[i] = keys[i]
    BY <2>2, <2>3, SeqHalves
  <2> QED
    BY <1>6, <2>1, <2>2, <2>4
<1> DEFINE l == k + 1
<1>0. /\ l \in Nat /\ l <= m /\ l + 1 = k + 2 /\ m - l = m - k - 1
      /\ m + 1 - l = m - k /\ l <= m + 1
  BY <1>1, <1>5
<1>9. /\ Len(new.keys) = m - k - 1
      /\ \A i \in 1 .. m - k - 1 : new.keys[i] = n.keys[k + 1 + i]
  <2>1. new.keys = SubSeq(n.keys, l + 1, m)
    BY <1>0, <1>6
  <2> HIDE DEF l
  <2>2. Len(new.keys) = m - l /\ \A i \in 1 .. m - l : new.keys[i] = n.keys[l + i]
    BY <1>0, <1>1, <1>3, <2>1, SeqHalves
  <2> QED
    BY <1>0, <2>2 DEF l
<1>8. \A i \in 1 .. k + 1 : old.children[i] = n.children[i]
  <2>1. old.children = SubSeq(n.children, 1, l) /\ m + 1 = Len(n.children)
    BY <1>1, <1>6
  <2> HIDE DEF l
  <2>2. \A i \in 1 .. l : old.children[i] = n.children[i]
    BY <1>0, <1>1, <2>1, SeqHalves
  <2> QED
    BY <2>2 DEF l
<1>10. \A i \in 1 .. m - k : new.children[i] = n.children[k + 1 + i]
  <2>1. new.children = SubSeq(n.children, l + 1, m + 1) /\ m + 1 = Len(n.children)
    BY <1>0, <1>1, <1>6
  <2> HIDE DEF l
  <2>2. \A i \in 1 .. m + 1 - l : new.children[i] = n.children[l + i]
    BY <1>0, <1>1, <2>1, SeqHalves
  <2> QED
    BY <1>0, <2>2 DEF l
<1>11. HasFreeSpace(old) /\ HasFreeSpace(new)
  BY <1>5, <1>6, <1>7, <1>9 DEF HasFreeSpace, Size, IsInner
<1>12. ChildrenSplit(n, old, new, s)
  <2>1. k + 1 \in 1 .. Len(n.keys)
    BY <1>1, <1>3, <1>5
  <2> QED
    BY <1>2, <1>3, <1>5, <1>7, <1>8, <1>9, <1>10, <2>1 DEF ChildrenSplit
<1>13. KeysSplit(old, new, s, low, high)
  <2> DEFINE a == k + 1
  <2>1. /\ a \in 1 .. Len(n.keys) /\ s = n.keys[a] /\ a < Len(n.keys) /\ k <= a
        /\ Len(new.keys) = Len(n.keys) - a
        /\ \A i \in 1 .. Len(n.keys) - a : new.keys[i] = n.keys[a + i]
    <3>1. m - a = m - k - 1 /\ a \in 1 .. m /\ a < m /\ k <= a
      BY <1>1, <1>5
    <3> HIDE DEF a
    <3>2. Len(new.keys) = m - a /\ \A i \in 1 .. m - a : new.keys[i] = n.keys[a + i]
      BY <1>9, <3>1 DEF a
    <3> QED
      BY <1>2, <1>3, <3>1, <3>2 DEF a
  <2> HIDE DEF a
  <2>2. KeyParts(n, old, new, s, a, k)
    BY <1>1, <1>5, <1>7, <2>1 DEF KeyParts
  <2> QED
    BY <2>2, KeysAreSplit
<1> QED
  BY <1>6, <1>11, <1>12, <1>13

\* The entries of a leaf stay in their order.
EntriesSplit(n, old, new) ==
  \E k \in 1 .. Len(n.keys) :
    /\ Len(old.keys) = k /\ Len(new.keys) = Len(n.keys) - k
    /\ \A i \in 1 .. k : old.keys[i] = n.keys[i] /\ old.values[i] = n.values[i]
    /\ \A i \in 1 .. Len(n.keys) - k : new.keys[i] = n.keys[k + i] /\ new.values[i] = n.values[k + i]

\* A full leaf has room in both halves; the splitter stays in the old one.
LEMMA LeafHalves ==
  ASSUME NEW A, NEW n \in LeafIn(A), ~HasFreeSpace(n), NEW page,
         NEW low \in Nat \cup {-1}, NEW high \in Nat \cup {-1}, KeysOK(n, low, high),
         NEW old, old = LeafSplit(n, page).old, NEW new, new = LeafSplit(n, page).new,
         NEW s, s = LeafSplit(n, page).splitter
  PROVE  /\ IsLeaf(old) /\ IsLeaf(new) /\ HasFreeSpace(old) /\ HasFreeSpace(new)
         /\ old.next = page /\ new.next = n.next
         /\ KeysSplit(old, new, s, low, high)
         /\ EntriesSplit(n, old, new)
<1> DEFINE m == Len(n.keys)
           k == (m + 1) \div 2
<1>1. /\ n.keys \in Seq(Nat) /\ n.values \in Seq(Values) /\ Len(n.values) = m
      /\ m \in Nat /\ Size(n) = m /\ m < 2 * LeafDegree /\ ~(m + 1 < 2 * LeafDegree)
  BY LeafFields
<1>2. /\ old = LeafNode(SubSeq(n.keys, 1, k), SubSeq(n.values, 1, k), page)
      /\ new = LeafNode(SubSeq(n.keys, k + 1, m), SubSeq(n.values, k + 1, m), n.next)
      /\ s = n.keys[k]
  BY <1>1 DEF LeafSplit
<1>3. m = Len(n.keys)
  OBVIOUS
<1> HIDE DEF m
<1>4. m >= 3
  BY <1>1, Degrees
<1>5. k \in Nat /\ 1 <= k /\ k < m /\ k + 1 < 2 * LeafDegree /\ m - k + 1 < 2 * LeafDegree
  BY <1>1, <1>4, Degrees
<1> HIDE DEF k
<1>6. /\ IsLeaf(old) /\ old.keys = SubSeq(n.keys, 1, k)
      /\ old.values = SubSeq(n.values, 1, k) /\ old.next = page
      /\ IsLeaf(new) /\ new.keys = SubSeq(n.keys, k + 1, m)
      /\ new.values = SubSeq(n.values, k + 1, m) /\ new.next = n.next
  <2> DEFINE a == SubSeq(n.keys, 1, k)
             b == SubSeq(n.values, 1, k)
             c == SubSeq(n.keys, k + 1, m)
             d == SubSeq(n.values, k + 1, m)
             next == n.next
  <2>1. old = LeafNode(a, b, page) /\ new = LeafNode(c, d, next)
    BY <1>2
  <2> HIDE DEF a, b, c, d, next
  <2>2. /\ IsLeaf(old) /\ old.keys = a /\ old.values = b /\ old.next = page
        /\ IsLeaf(new) /\ new.keys = c /\ new.values = d /\ new.next = next
    BY <2>1, LeafParts
  <2> QED
    BY <2>2 DEF a, b, c, d, next
<1>7. k <= m
  BY <1>1, <1>5
<1>8. /\ Len(old.keys) = k /\ Len(new.keys) = m - k
      /\ \A i \in 1 .. k : old.keys[i] = n.keys[i]
      /\ \A i \in 1 .. m - k : new.keys[i] = n.keys[k + i]
  <2>1. PICK keys \in Seq(Nat) : keys = n.keys
    BY <1>1
  <2>2. m = Len(keys) /\ old.keys = SubSeq(keys, 1, k) /\ new.keys = SubSeq(keys, k + 1, m)
    BY <1>3, <1>6, <2>1
  <2>3. PICK front : front = old.keys
    OBVIOUS
  <2>4. PICK back : back = new.keys
    OBVIOUS
  <2>5. front = SubSeq(keys, 1, k) /\ back = SubSeq(keys, k + 1, m) /\ k \in Nat
    BY <1>5, <2>2, <2>3, <2>4
  <2>6. /\ Len(front) = k /\ \A i \in 1 .. k : front[i] = keys[i]
        /\ Len(back) = m - k /\ \A i \in 1 .. m - k : back[i] = keys[k + i]
    BY <1>7, <2>2, <2>5, SeqHalves
  <2> QED
    BY <2>1, <2>3, <2>4, <2>6
<1>9. /\ \A i \in 1 .. k : old.values[i] = n.values[i]
      /\ \A i \in 1 .. m - k : new.values[i] = n.values[k + i]
  BY <1>1, <1>5, <1>6, <1>7, SeqHalves
<1>10. HasFreeSpace(old) /\ HasFreeSpace(new)
  BY <1>5, <1>6, <1>8 DEF HasFreeSpace, Size, IsLeaf
<1>11. k \in 1 .. Len(n.keys) /\ k < Len(n.keys) /\ k <= k /\ s = n.keys[k]
  <2>1. k \in 1 .. m /\ k < m /\ k <= k
    BY <1>1, <1>5
  <2> QED
    BY <1>2, <1>3, <2>1
<1>12. KeysSplit(old, new, s, low, high)
  <2>1. PICK a \in 1 .. Len(n.keys) : a = k
    BY <1>11
  <2>2. /\ s = n.keys[a] /\ a < Len(n.keys) /\ k <= a
        /\ Len(new.keys) = Len(n.keys) - a
        /\ \A i \in 1 .. Len(n.keys) - a : new.keys[i] = n.keys[a + i]
    BY <1>3, <1>8, <1>11, <2>1
  <2>3. /\ n.keys \in Seq(Nat) /\ k \in Nat /\ Len(old.keys) = k
        /\ \A i \in 1 .. k : old.keys[i] = n.keys[i]
    BY <1>1, <1>5, <1>8
  <2>4. KeyParts(n, old, new, s, a, k)
    BY <2>2, <2>3 DEF KeyParts
  <2> QED
    BY <2>4, KeysAreSplit
<1>13. EntriesSplit(n, old, new)
  BY <1>3, <1>8, <1>9, <1>11 DEF EntriesSplit
<1> QED
  BY <1>6, <1>10, <1>12, <1>13

---------------------------------------------------------------------------
(* A split *)

\* The key s is at place i, with the page behind it.
Grown(n, new, i, s, page) ==
  /\ IsInner(new) /\ Len(new.keys) = Len(n.keys) + 1
  /\ \A j \in 1 .. Len(n.keys) + 1 :
       new.keys[j] = IF j < i THEN n.keys[j] ELSE IF j = i THEN s ELSE n.keys[j - 1]
  /\ \A j \in 1 .. Len(n.keys) + 2 :
       new.children[j] = IF j < i + 1 THEN n.children[j]
                         ELSE IF j = i + 1 THEN page ELSE n.children[j - 1]

\* What InnerInsert makes of a node when the key is strictly between the bounds of place i:
\* the page gets the place behind it.
LEMMA InsertedChild ==
  ASSUME NEW S, NEW n, n.keys \in Seq(Nat), n.children \in Seq(S),
         Len(n.children) = Len(n.keys) + 1, NEW page \in S,
         NEW low \in Nat \cup {-1}, NEW high \in Nat \cup {-1}, KeysOK(n, low, high),
         NEW i \in Places(n), NEW s \in Nat, LowOf(n, i, low) < s,
         HighOf(n, i, high) = -1 \/ s < HighOf(n, i, high),
         NEW new, new = InnerInsert(n, s, page)
  PROVE  Grown(n, new, i, s, page) /\ KeysOK(new, low, high)
<1>1. PICK keys \in Seq(Nat) : keys = n.keys
  OBVIOUS
<1>2. PICK children \in Seq(S) : children = n.children
  OBVIOUS
<1> DEFINE m == Len(keys)
<1>3. /\ m \in Nat /\ i \in 1 .. m + 1 /\ Len(children) = m + 1
      /\ \A j \in 1 .. m : keys[j] \in Nat
  BY <1>1, <1>2 DEF Places
<1>4. HighOf(n, i, high) \in Nat \cup {-1}
  BY <1>1, <1>3 DEF HighOf
<1>5. LowerBound(keys, s) = i - 1
  <2>1. Within(s, LowOf(n, i, low), HighOf(n, i, high))
    BY <1>4 DEF Within
  <2>2. SortedKeys(n.keys)
    BY DEF KeysOK
  <2> QED
    BY <1>1, <2>1, <2>2, LookupAt
<1>6. /\ IsInner(new) /\ new.keys = InsertAt(keys, i, s)
      /\ new.children = InsertAt(children, i + 1, page)
  <2>1. i - 1 + 1 = i /\ i - 1 + 2 = i + 1
    BY <1>3
  <2>2. new = InnerNode(InsertAt(keys, i, s), InsertAt(children, i + 1, page))
    BY <1>1, <1>2, <1>5, <2>1 DEF InnerInsert
  <2> QED
    BY <2>2, InnerParts
<1>7. /\ Len(new.keys) = m + 1
      /\ \A j \in 1 .. m + 1 :
           new.keys[j] = IF j < i THEN keys[j] ELSE IF j = i THEN s ELSE keys[j - 1]
  <2>1. PICK k \in 1 .. Len(keys) + 1 : k = i
    BY <1>3
  <2>2. Len(InsertAt(keys, k, s)) = Len(keys) + 1
    BY InsertAtType
  <2>3. \A j \in 1 .. Len(keys) + 1 :
          InsertAt(keys, k, s)[j] = IF j < k THEN keys[j] ELSE IF j = k THEN s ELSE keys[j - 1]
    BY InsertAtValue
  <2> QED
    BY <1>6, <2>1, <2>2, <2>3
<1>8. \A j \in 1 .. m + 2 :
        new.children[j] = IF j < i + 1 THEN children[j]
                          ELSE IF j = i + 1 THEN page ELSE children[j - 1]
  <2>1. PICK k \in 1 .. Len(children) + 1 : k = i + 1
    BY <1>3
  <2>2. \A j \in 1 .. Len(children) + 1 :
          InsertAt(children, k, page)[j] = IF j < k THEN children[j]
                                           ELSE IF j = k THEN page ELSE children[j - 1]
    BY InsertAtValue
  <2>3. Len(children) + 1 = m + 2
    BY <1>3
  <2> QED
    BY <1>6, <2>1, <2>2, <2>3
<1>9. /\ \A j, k \in 1 .. m : j < k => keys[j] < keys[k]
      /\ \A j \in 1 .. m : Within(keys[j], low, high)
  BY <1>1 DEF KeysOK, SortedKeys
<1>10. \A j \in 1 .. m : j < i => keys[j] < s
  <2>1. SUFFICES ASSUME NEW j \in 1 .. m, j < i PROVE keys[j] < s
    OBVIOUS
  <2>2. i - 1 \in 1 .. m /\ i # 1
    BY <1>3, <2>1
  <2>3. keys[i - 1] < s
    BY <1>1, <2>2 DEF LowOf
  <2>4. j = i - 1 \/ keys[j] < keys[i - 1]
    BY <1>3, <1>9, <2>1, <2>2
  <2> QED
    BY <1>3, <2>2, <2>3, <2>4
<1>11. \A j \in 1 .. m : i <= j => s < keys[j]
  <2>1. SUFFICES ASSUME NEW j \in 1 .. m, i <= j PROVE s < keys[j]
    OBVIOUS
  <2>2. i \in 1 .. m /\ i # m + 1
    BY <1>3, <2>1
  <2>3. HighOf(n, i, high) = keys[i] /\ keys[i] \in Nat
    BY <1>1, <1>3, <2>2 DEF HighOf
  <2>4. s < keys[i]
    BY <2>3
  <2>5. j = i \/ keys[i] < keys[j]
    BY <1>3, <1>9, <2>1, <2>2
  <2> QED
    BY <1>3, <2>2, <2>4, <2>5
<1>12. SortedKeys(new.keys)
  <2>1. SUFFICES ASSUME NEW j \in 1 .. m + 1, NEW k \in 1 .. m + 1, j < k
                 PROVE  new.keys[j] < new.keys[k]
    BY <1>7 DEF SortedKeys
  <2>2. CASE k < i
    <3>1. j \in 1 .. m /\ k \in 1 .. m /\ j < i
      BY <1>3, <2>1, <2>2
    <3> QED
      BY <1>7, <1>9, <2>1, <2>2, <3>1
  <2>3. CASE k = i
    <3>1. j \in 1 .. m /\ j < i
      BY <1>3, <2>1, <2>3
    <3>2. new.keys[j] = keys[j] /\ keys[j] < s
      BY <1>7, <1>10, <3>1
    <3>3. new.keys[k] = s
      BY <1>7, <2>3
    <3> QED
      BY <3>2, <3>3
  <2>4. CASE i < k
    <3>1. k - 1 \in 1 .. m /\ i <= k - 1 /\ ~(k < i) /\ k # i
      BY <1>3, <2>1, <2>4
    <3>2. new.keys[k] = keys[k - 1] /\ s < keys[k - 1] /\ keys[k - 1] \in Nat
      BY <1>3, <1>7, <1>11, <3>1
    <3>3. CASE j < i
      <4>1. j \in 1 .. m
        BY <1>3, <3>3
      <4>2. new.keys[j] = keys[j] /\ keys[j] < s /\ keys[j] \in Nat
        BY <1>3, <1>7, <1>10, <3>3, <4>1
      <4> QED
        BY <3>2, <4>2
    <3>4. CASE j = i
      BY <1>7, <3>2, <3>4
    <3>5. CASE i < j
      <4>1. j - 1 \in 1 .. m /\ j - 1 < k - 1 /\ ~(j < i) /\ j # i
        BY <1>3, <2>1, <3>5
      <4>2. new.keys[j] = keys[j - 1]
        BY <1>7, <4>1
      <4> QED
        BY <1>9, <3>1, <3>2, <4>1, <4>2
    <3> QED
      BY <1>3, <3>3, <3>4, <3>5
  <2> QED
    BY <1>3, <2>2, <2>3, <2>4
<1>13. \A j \in 1 .. m + 1 : Within(new.keys[j], low, high)
  <2>1. Within(s, low, high)
    <3>1. Within(s, LowOf(n, i, low), HighOf(n, i, high))
      BY <1>4 DEF Within
    <3> QED
      BY <3>1, BoundsAbove
  <2>2. SUFFICES ASSUME NEW j \in 1 .. m + 1 PROVE Within(new.keys[j], low, high)
    OBVIOUS
  <2>3. CASE j < i
    <3>1. j \in 1 .. m
      BY <1>3, <2>3
    <3> QED
      BY <1>7, <1>9, <2>3, <3>1
  <2>4. CASE j = i
    BY <1>7, <2>1, <2>4
  <2>5. CASE i < j
    <3>1. j - 1 \in 1 .. m /\ ~(j < i) /\ j # i
      BY <1>3, <2>5
    <3> QED
      BY <1>7, <1>9, <3>1
  <2> QED
    BY <1>3, <2>3, <2>4, <2>5
<1>14. KeysOK(new, low, high)
  BY <1>7, <1>12, <1>13 DEF KeysOK
<1> QED
  BY <1>1, <1>2, <1>6, <1>7, <1>8, <1>14 DEF Grown

\* The children of a half have the bounds that they had.
HalvesOf(n, old, new, s, low, high) ==
  \E k \in Nat :
      /\ Places(old) = 1 .. k + 1 /\ k + 1 < Len(n.keys) + 1
      /\ \A i \in Places(old) : /\ i \in Places(n) /\ old.children[i] = n.children[i]
                                /\ LowOf(old, i, low) = LowOf(n, i, low)
                                /\ HighOf(old, i, s) = HighOf(n, i, high)
      /\ \A i \in Places(new) : /\ k + 1 + i \in Places(n) /\ i >= 1
                                /\ new.children[i] = n.children[k + 1 + i]
                                /\ LowOf(new, i, s) = LowOf(n, k + 1 + i, low)
                                /\ HighOf(new, i, high) = HighOf(n, k + 1 + i, high)
      /\ \A i \in Places(n) : k + 1 < i => /\ i - k - 1 \in Places(new)
                                           /\ new.children[i - k - 1] = n.children[i]

LEMMA SplitBounds ==
  ASSUME NEW n, n.keys \in Seq(Nat), NEW old, NEW new, NEW s, ChildrenSplit(n, old, new, s),
         NEW low, NEW high
  PROVE  HalvesOf(n, old, new, s, low, high)
<1> DEFINE m == Len(n.keys)
<1>1. PICK k \in Nat :
        /\ k + 1 \in 1 .. m /\ s = n.keys[k + 1]
        /\ Len(old.keys) = k /\ Len(new.keys) = m - k - 1
        /\ \A i \in 1 .. k : old.keys[i] = n.keys[i]
        /\ \A i \in 1 .. k + 1 : old.children[i] = n.children[i]
        /\ \A i \in 1 .. m - k - 1 : new.keys[i] = n.keys[k + 1 + i]
        /\ \A i \in 1 .. m - k : new.children[i] = n.children[k + 1 + i]
  BY DEF ChildrenSplit
<1>2. m \in Nat /\ k \in Nat /\ k + 1 <= m
  BY <1>1
<1>3. /\ Places(old) = 1 .. k + 1 /\ Places(new) = 1 .. m - k /\ Places(n) = 1 .. m + 1
      /\ m - k - 1 + 1 = m - k
  BY <1>1, <1>2 DEF Places
<1>4. ASSUME NEW i \in Places(old)
      PROVE  /\ i \in Places(n) /\ old.children[i] = n.children[i]
             /\ LowOf(old, i, low) = LowOf(n, i, low)
             /\ HighOf(old, i, s) = HighOf(n, i, high)
  <2>1. i \in Places(n) /\ old.children[i] = n.children[i]
    BY <1>1, <1>2, <1>3
  <2>2. LowOf(old, i, low) = LowOf(n, i, low)
    <3>1. i = 1 \/ i - 1 \in 1 .. k
      BY <1>1, <1>3
    <3> QED
      BY <1>1, <3>1 DEF LowOf
  <2>3. HighOf(old, i, s) = HighOf(n, i, high)
    <3>1. i # m + 1 /\ (i = k + 1 \/ i \in 1 .. k)
      BY <1>1, <1>2, <1>3
    <3>2. i \in 1 .. k => i # k + 1
      BY <1>1
    <3> QED
      BY <1>1, <3>1, <3>2 DEF HighOf
  <2> QED
    BY <2>1, <2>2, <2>3
<1>5. ASSUME NEW i \in Places(new)
      PROVE  /\ k + 1 + i \in Places(n) /\ i >= 1
             /\ new.children[i] = n.children[k + 1 + i]
             /\ LowOf(new, i, s) = LowOf(n, k + 1 + i, low)
             /\ HighOf(new, i, high) = HighOf(n, k + 1 + i, high)
  <2>0. i \in Nat /\ 1 <= i /\ i <= m - k
    BY <1>2, <1>3
  <2>1. /\ k + 1 + i \in Places(n) /\ i >= 1
        /\ new.children[i] = n.children[k + 1 + i]
    <3>1. k + 1 + i \in 1 .. m + 1 /\ i \in 1 .. m - k
      BY <1>2, <2>0
    <3> QED
      BY <1>1, <1>3, <2>0, <3>1
  <2>2. LowOf(new, i, s) = LowOf(n, k + 1 + i, low)
    <3>1. k + 1 + i # 1 /\ k + 1 + i - 1 = k + i /\ k + 1 = k + 1 + 1 - 1
      BY <1>2, <2>0
    <3>2. CASE i = 1
      BY <1>1, <3>1, <3>2 DEF LowOf
    <3>3. CASE i # 1
      <4>1. i - 1 \in 1 .. m - k - 1 /\ k + 1 + (i - 1) = k + i
        BY <1>2, <2>0, <3>3
      <4>2. new.keys[i - 1] = n.keys[k + i]
        BY <1>1, <4>1
      <4>3. LowOf(new, i, s) = new.keys[i - 1]
        BY <3>3 DEF LowOf
      <4>4. LowOf(n, k + 1 + i, low) = n.keys[k + i]
        <5>1. PICK l \in Nat : l = k + 1 + i
          BY <1>2, <2>0
        <5>2. l # 1 /\ l - 1 = k + i
          BY <1>2, <2>0, <5>1
        <5> QED
          BY <5>1, <5>2 DEF LowOf
      <4> QED
        BY <3>1, <4>2, <4>3, <4>4
    <3> QED
      BY <3>2, <3>3
  <2>3. HighOf(new, i, high) = HighOf(n, k + 1 + i, high)
    <3>1. i = m - k <=> k + 1 + i = m + 1
      BY <1>2, <2>0
    <3>2. i = m - k \/ i \in 1 .. m - k - 1
      BY <1>2, <2>0
    <3> QED
      BY <1>1, <1>3, <3>1, <3>2 DEF HighOf
  <2> QED
    BY <2>1, <2>2, <2>3
<1>6. ASSUME NEW i \in Places(n), k + 1 < i
      PROVE  i - k - 1 \in Places(new) /\ new.children[i - k - 1] = n.children[i]
  <2>0. i \in Nat /\ i <= m + 1
    BY <1>2, <1>3
  <2>1. i - k - 1 \in 1 .. m - k /\ k + 1 + (i - k - 1) = i
    BY <1>2, <1>6, <2>0
  <2> QED
    BY <1>1, <1>3, <2>1
<1>7. k + 1 < m + 1
  BY <1>1, <1>2
<1> QED
  BY <1>3, <1>4, <1>5, <1>6, <1>7 DEF HalvesOf

\* The children keep their bounds when a page is inserted behind the child at place i; only
\* these two share its bounds.
GrownBounds(n, new, i, s, page, low, high) ==
  /\ \A j \in Places(new) :
       \/ /\ j # i /\ j \in Places(n) /\ new.children[j] = n.children[j]
          /\ LowOf(new, j, low) = LowOf(n, j, low)
          /\ HighOf(new, j, high) = HighOf(n, j, high)
       \/ /\ j = i /\ new.children[j] = n.children[i]
          /\ LowOf(new, j, low) = LowOf(n, i, low) /\ HighOf(new, j, high) = s
       \/ /\ j = i + 1 /\ new.children[j] = page
          /\ LowOf(new, j, low) = s /\ HighOf(new, j, high) = HighOf(n, i, high)
       \/ /\ j - 1 # i /\ j - 1 \in Places(n) /\ new.children[j] = n.children[j - 1]
          /\ LowOf(new, j, low) = LowOf(n, j - 1, low)
          /\ HighOf(new, j, high) = HighOf(n, j - 1, high)
  /\ HasChild(new, page)
  /\ \A j \in Places(n) : HasChild(new, n.children[j])

LEMMA InsertBounds ==
  ASSUME NEW n, n.keys \in Seq(Nat), NEW page, NEW low, NEW high,
         NEW i \in Places(n), NEW s, NEW new, Grown(n, new, i, s, page)
  PROVE  GrownBounds(n, new, i, s, page, low, high)
<1>0. /\ Len(new.keys) = Len(n.keys) + 1
      /\ \A j \in 1 .. Len(n.keys) + 1 :
           new.keys[j] = IF j < i THEN n.keys[j] ELSE IF j = i THEN s ELSE n.keys[j - 1]
      /\ \A j \in 1 .. Len(n.keys) + 2 :
           new.children[j] = IF j < i + 1 THEN n.children[j]
                             ELSE IF j = i + 1 THEN page ELSE n.children[j - 1]
  BY DEF Grown
<1> DEFINE m == Len(n.keys)
<1>1. m \in Nat /\ i \in 1 .. m + 1 /\ Places(n) = 1 .. m + 1 /\ Places(new) = 1 .. m + 2
      /\ m + 1 + 1 = m + 2
  BY <1>0, <1>0 DEF Places
<1>2. ASSUME NEW j \in Places(new), j < i
      PROVE  /\ j # i /\ j \in Places(n) /\ new.children[j] = n.children[j]
             /\ LowOf(new, j, low) = LowOf(n, j, low)
             /\ HighOf(new, j, high) = HighOf(n, j, high)
  <2>1. j # i /\ j \in Places(n) /\ j < i + 1 /\ j \in 1 .. m /\ j # m + 1 /\ j # m + 2
        /\ j \in 1 .. m + 1 /\ j \in 1 .. m + 2
    BY <1>0, <1>1, <1>2
  <2>2. LowOf(new, j, low) = LowOf(n, j, low)
    <3>1. j = 1 \/ (j - 1 \in 1 .. m + 1 /\ j - 1 < i)
      BY <1>0, <1>1, <1>2
    <3> QED
      BY <1>0, <3>1 DEF LowOf
  <2>3. HighOf(new, j, high) = HighOf(n, j, high)
    BY <1>0, <1>1, <1>2, <2>1 DEF HighOf
  <2> QED
    BY <1>0, <2>1, <2>2, <2>3
<1>3. /\ i \in Places(new) /\ new.children[i] = n.children[i]
      /\ LowOf(new, i, low) = LowOf(n, i, low) /\ HighOf(new, i, high) = s
  <2>1. /\ i \in Places(new) /\ i < i + 1 /\ i # m + 2 /\ ~(i < i)
        /\ i \in 1 .. m + 1 /\ i \in 1 .. m + 2
    BY <1>0, <1>1
  <2>2. LowOf(new, i, low) = LowOf(n, i, low)
    <3>1. i = 1 \/ (i - 1 \in 1 .. m + 1 /\ i - 1 < i)
      BY <1>0, <1>1
    <3> QED
      BY <1>0, <3>1 DEF LowOf
  <2> QED
    BY <1>0, <1>1, <2>1, <2>2 DEF HighOf
<1>4. /\ i + 1 \in Places(new) /\ new.children[i + 1] = page
      /\ LowOf(new, i + 1, low) = s /\ HighOf(new, i + 1, high) = HighOf(n, i, high)
  <2>1. /\ i + 1 \in Places(new) /\ ~(i + 1 < i + 1) /\ i + 1 # 1 /\ i + 1 - 1 = i /\ ~(i < i)
        /\ i \in 1 .. m + 1 /\ i + 1 \in 1 .. m + 2
    BY <1>0, <1>1
  <2>2. new.children[i + 1] = page /\ LowOf(new, i + 1, low) = s
    BY <1>0, <2>1 DEF LowOf
  <2>3. HighOf(new, i + 1, high) = HighOf(n, i, high)
    <3>1. (i + 1 = m + 2 <=> i = m + 1) /\ ~(i + 1 < i) /\ i + 1 # i
      BY <1>0, <1>1
    <3>2. i = m + 1 \/ i + 1 \in 1 .. m + 1
      BY <1>0, <1>1
    <3> QED
      BY <1>0, <1>1, <2>1, <3>1, <3>2 DEF HighOf
  <2> QED
    BY <1>0, <2>1, <2>2, <2>3
<1>5. ASSUME NEW j \in Places(new), i + 1 < j
      PROVE  /\ j - 1 # i /\ j - 1 \in Places(n) /\ new.children[j] = n.children[j - 1]
             /\ LowOf(new, j, low) = LowOf(n, j - 1, low)
             /\ HighOf(new, j, high) = HighOf(n, j - 1, high)
  <2>1. /\ j - 1 # i /\ j - 1 \in Places(n) /\ ~(j < i + 1) /\ j # i + 1 /\ j # 1 /\ j - 1 # 1
        /\ j - 1 \in 1 .. m + 1 /\ j \in 1 .. m + 2 /\ ~(j - 1 < i) /\ ~(j < i) /\ j # i
    BY <1>0, <1>1, <1>5
  <2>2. new.children[j] = n.children[j - 1]
    BY <1>0, <2>1
  <2>3. LowOf(new, j, low) = LowOf(n, j - 1, low)
    BY <1>0, <2>1 DEF LowOf
  <2>4. HighOf(new, j, high) = HighOf(n, j - 1, high)
    <3>1. j = m + 2 <=> j - 1 = m + 1
      BY <1>0, <1>1
    <3>2. j = m + 2 \/ j \in 1 .. m + 1
      BY <1>0, <1>1, <2>1
    <3> QED
      BY <1>0, <1>1, <2>1, <3>1, <3>2 DEF HighOf
  <2> QED
    BY <1>0, <2>1, <2>2, <2>3, <2>4
<1>6. \A j \in Places(new) : j < i \/ j = i \/ j = i + 1 \/ i + 1 < j
  BY <1>0, <1>1
<1>7. ASSUME NEW j \in Places(n)
      PROVE  HasChild(new, n.children[j])
  <2>1. CASE j < i + 1
    <3>1. j \in Places(new) /\ j \in 1 .. m + 2
      BY <1>0, <1>1, <2>1
    <3> QED
      BY <1>0, <2>1, <3>1 DEF HasChild
  <2>2. CASE ~(j < i + 1)
    <3>1. PICK l \in 1 .. m + 2 : l = j + 1
      BY <1>0, <1>1
    <3>2. l \in Places(new) /\ ~(l < i + 1) /\ l # i + 1 /\ l - 1 = j
      BY <1>0, <1>1, <2>2, <3>1
    <3>3. new.children[l] = n.children[l - 1]
      BY <1>0, <3>2
    <3> QED
      BY <1>0, <3>2, <3>3 DEF HasChild
  <2> QED
    BY <1>0, <2>1, <2>2
<1>8. HasChild(new, page)
  BY <1>0, <1>4 DEF HasChild
<1>9. ASSUME NEW j \in Places(new)
      PROVE  \/ /\ j # i /\ j \in Places(n) /\ new.children[j] = n.children[j]
                /\ LowOf(new, j, low) = LowOf(n, j, low)
                /\ HighOf(new, j, high) = HighOf(n, j, high)
             \/ /\ j = i /\ new.children[j] = n.children[i]
                /\ LowOf(new, j, low) = LowOf(n, i, low) /\ HighOf(new, j, high) = s
             \/ /\ j = i + 1 /\ new.children[j] = page
                /\ LowOf(new, j, low) = s /\ HighOf(new, j, high) = HighOf(n, i, high)
             \/ /\ j - 1 # i /\ j - 1 \in Places(n) /\ new.children[j] = n.children[j - 1]
                /\ LowOf(new, j, low) = LowOf(n, j - 1, low)
                /\ HighOf(new, j, high) = HighOf(n, j - 1, high)
  <2>1. CASE j < i
    BY <1>0, <1>2, <2>1
  <2>2. CASE j = i
    BY <1>0, <1>3, <2>2
  <2>3. CASE j = i + 1
    BY <1>0, <1>4, <2>3
  <2>4. CASE i + 1 < j
    BY <1>0, <1>5, <2>4
  <2> QED
    BY <1>0, <1>6, <2>1, <2>2, <2>3, <2>4
<1> QED
  BY <1>0, <1>7, <1>8, <1>9 DEF GrownBounds

\* The page c is split: its node gets a sibling in the new page f behind it, and the node
\* above it, in the page q, gets the splitter s and the page f.
Grafted(ns2, A, lo, hi, c, f, s, q) ==
  \E lo2, hi2, level2, up2 :
    /\ Tree(ns2, A \cup {f}, lo2, hi2, level2, up2)
    /\ \A p \in A : lo2[p] = lo[p] /\ (p # c => hi2[p] = hi[p])
    /\ hi2[c] = s /\ lo2[f] = s /\ hi2[f] = hi[c]
    /\ up2[c] = q /\ up2[f] = q

LEMMA SplitTree ==
  ASSUME NEW ns, NEW A, NodesIn(ns, A),
         NEW lo, NEW hi, NEW level, NEW up, Tree(ns, A, lo, hi, level, up),
         NEW c \in A, c # Root, NEW q \in A, q = up[c], NEW f \in Pages, f \notin A,
         NEW s, NEW ns2, NodesIn(ns2, A \cup {f}),
         KeysSplit(ns2[c], ns2[f], s, lo[c], hi[c]),
         IsInner(ns[c]) => /\ IsInner(ns2[c]) /\ IsInner(ns2[f])
                           /\ ChildrenSplit(ns[c], ns2[c], ns2[f], s),
         IsLeaf(ns[c]) => /\ IsLeaf(ns2[c]) /\ IsLeaf(ns2[f])
                          /\ ns2[c].next = f /\ ns2[f].next = ns[c].next,
         ns2[q] = InnerInsert(ns[q], s, f),
         \A p \in A \ {c, q} : ns2[p] = ns[p]
  PROVE  Grafted(ns2, A, lo, hi, c, f, s, q)
<1> DEFINE moved == {x \in A : IsInner(ns[c]) /\ HasChild(ns2[f], x)}
           lo2 == [p \in Pages |-> IF p = f THEN s ELSE lo[p]]
           hi2 == [p \in Pages |-> IF p = c THEN s ELSE IF p = f THEN hi[c] ELSE hi[p]]
           level2 == [p \in Pages |-> IF p = f THEN level[c] ELSE level[p]]
           up2 == [p \in Pages |-> IF p = f THEN q ELSE IF p \in moved THEN f ELSE up[p]]
\* Where everything is.
<1>1. /\ A \subseteq Pages /\ Root \in A /\ c \in Pages /\ q \in Pages /\ f # Root /\ c # f
      /\ f # NoPage
  <2>1. f # NoPage
    BY NoPageAssumption DEF Pages
  <2> QED
    BY <2>1 DEF NodesIn
<1>2. q # c /\ q # f /\ level[q] = level[c] + 1 /\ IsInner(ns[q])
  BY Above
<1>3. /\ lo \in [Pages -> Nat \cup {-1}] /\ hi \in [Pages -> Nat \cup {-1}]
      /\ level \in [Pages -> Nat] /\ up \in [Pages -> Pages]
      /\ lo[Root] = -1 /\ hi[Root] = -1
      /\ FirstLeaf \in A /\ lo[FirstLeaf] = -1 /\ level[FirstLeaf] = 0
      /\ \A p \in A : hi[p] = -1 \/ lo[p] < hi[p]
  BY DEF Tree
<1>4. s \in Nat /\ lo[c] < s /\ (hi[c] = -1 \/ s < hi[c])
      /\ KeysOK(ns2[c], lo[c], s) /\ KeysOK(ns2[f], s, hi[c])
  BY DEF KeysSplit
<1>5. /\ lo2 \in [Pages -> Nat \cup {-1}] /\ hi2 \in [Pages -> Nat \cup {-1}]
      /\ level2 \in [Pages -> Nat] /\ up2 \in [Pages -> Pages]
  BY <1>1, <1>3, <1>4
<1>6. /\ \A p \in A : p # f
      /\ \A p \in A : lo2[p] = lo[p] /\ level2[p] = level[p]
      /\ \A p \in A \ {c} : hi2[p] = hi[p]
      /\ lo2[f] = s /\ hi2[f] = hi[c] /\ hi2[c] = s /\ level2[f] = level[c] /\ up2[f] = q
      /\ \A p \in moved : up2[p] = f
      /\ \A p \in A \ moved : up2[p] = up[p]
      /\ moved \subseteq A
  BY <1>1
<1>7. \A x \in moved : IsInner(ns[c]) /\ HasChild(ns2[f], x)
  OBVIOUS
<1>8. \A x \in A : IsInner(ns[c]) /\ HasChild(ns2[f], x) => x \in moved
  OBVIOUS
<1> HIDE DEF moved, lo2, hi2, level2, up2
\* The halves of an inner node.
<1>9. ASSUME IsInner(ns[c])
      PROVE  HalvesOf(ns[c], ns2[c], ns2[f], s, lo[c], hi[c])
  BY <1>9, NodeFields, SplitBounds
\* The children of the page that is split are below it and beside no other.
<1>10. \A x \in A : x # Root /\ up[x] = c => x # c /\ x # q
  <2>1. SUFFICES ASSUME NEW x \in A, x # Root, up[x] = c PROVE x # c /\ x # q
    OBVIOUS
  <2>2. level[c] = level[x] + 1 /\ c # x
    BY <2>1, Above
  <2>3. level[x] \in Nat /\ level[c] \in Nat
    BY <1>1, <1>3
  <2> QED
    BY <1>2, <2>2, <2>3
<1>11. \A x \in moved : x \in A /\ x # Root /\ up[x] = c /\ x # c
  <2>1. SUFFICES ASSUME NEW x \in moved PROVE x \in A /\ x # Root /\ up[x] = c /\ x # c
    OBVIOUS
  <2>2. x \in A /\ IsInner(ns[c]) /\ HasChild(ns2[f], x)
    BY <1>6, <1>7
  <2>3. PICK i \in Places(ns2[f]) : ns2[f].children[i] = x
    BY <2>2 DEF HasChild
  <2>4. PICK j \in Places(ns[c]) : ns[c].children[j] = x
    BY <1>9, <2>2, <2>3 DEF HalvesOf
  <2>5. ChildOK(ns[c], c, j, ns[c].children[j], lo, hi, level, up)
    BY <2>2, TreeChild
  <2>6. x # Root /\ up[x] = c
    BY <2>4, <2>5 DEF ChildOK
  <2> QED
    BY <1>10, <2>2, <2>6
<1>12. c \in A \ moved /\ q \in A \ moved /\ up2[c] = q
  <2>1. \A x \in moved : x # c /\ x # q
    BY <1>10, <1>11
  <2> QED
    BY <1>6, <2>1
\* What the insertion makes of the node above.
<1>13. PICK i \in Places(ns[q]) : ns[q].children[i] = c /\ ChildOK(ns[q], q, i, c, lo, hi, level, up)
  BY PlaceAbove
<1>14. lo[c] = LowOf(ns[q], i, lo[q]) /\ hi[c] = HighOf(ns[q], i, hi[q])
  BY <1>13 DEF ChildOK
<1>15. /\ ns[q].keys \in Seq(Nat) /\ ns[q].children \in Seq(A)
       /\ Len(ns[q].children) = Len(ns[q].keys) + 1
       /\ KeysOK(ns[q], lo[q], hi[q])
       /\ lo[q] \in Nat \cup {-1} /\ hi[q] \in Nat \cup {-1}
  BY <1>1, <1>2, <1>3, NodeFields DEF Tree
<1>16. Grown(ns[q], ns2[q], i, s, f) /\ KeysOK(ns2[q], lo[q], hi[q])
  <2> DEFINE B == A \cup {f}
  <2>1. ns[q].children \in Seq(B) /\ f \in B
    BY <1>15
  <2>2. LowOf(ns[q], i, lo[q]) < s /\ (HighOf(ns[q], i, hi[q]) = -1 \/ s < HighOf(ns[q], i, hi[q]))
    BY <1>4, <1>14
  <2>3. s \in Nat /\ i \in Places(ns[q])
    BY <1>4, <1>13
  <2> HIDE DEF B
  <2>4. PICK n : n = ns[q]
    OBVIOUS
  <2>5. PICK low \in Nat \cup {-1} : low = lo[q]
    BY <1>15
  <2>6. PICK high \in Nat \cup {-1} : high = hi[q]
    BY <1>15
  <2>7. PICK new : new = InnerInsert(n, s, f)
    OBVIOUS
  <2>8. /\ n.keys \in Seq(Nat) /\ n.children \in Seq(B) /\ Len(n.children) = Len(n.keys) + 1
        /\ KeysOK(n, low, high) /\ i \in Places(n)
        /\ LowOf(n, i, low) < s /\ (HighOf(n, i, high) = -1 \/ s < HighOf(n, i, high))
    BY <1>15, <2>1, <2>2, <2>3, <2>4, <2>5, <2>6
  <2>9. Grown(n, new, i, s, f) /\ KeysOK(new, low, high)
    BY <2>1, <2>3, <2>7, <2>8, InsertedChild
  <2> QED
    BY <2>4, <2>5, <2>6, <2>7, <2>9
<1>17. GrownBounds(ns[q], ns2[q], i, s, f, lo[q], hi[q])
  BY <1>13, <1>15, <1>16, InsertBounds
\* Halves are of the same kind.
<1>18. /\ IsInner(ns[c]) <=> IsInner(ns2[c])
       /\ IsInner(ns[c]) <=> IsInner(ns2[f])
       /\ \A p \in A \cup {f} : IsInner(ns2[p]) <=> ~IsLeaf(ns2[p])
  <2>1. /\ \A p \in A \cup {f} : IsInner(ns2[p]) <=> ~IsLeaf(ns2[p])
        /\ IsInner(ns[c]) <=> ~IsLeaf(ns[c])
    BY NodeFields
  <2> QED
    BY <2>1
<1>19. ASSUME NEW p \in A \cup {f}
       PROVE  KeysOK(ns2[p], lo2[p], hi2[p])
  <2>1. CASE p \in {c, f}
    BY <1>1, <1>4, <1>6, <2>1
  <2>2. CASE p = q
    BY <1>2, <1>6, <1>16, <2>2
  <2>3. CASE p \notin {c, f, q}
    <3>1. ns2[p] = ns[p] /\ lo2[p] = lo[p] /\ hi2[p] = hi[p] /\ p \in A
      BY <1>6, <2>3
    <3> QED
      BY <3>1 DEF Tree
  <2> QED
    BY <2>1, <2>2, <2>3
\* A child that is not moved, and not the page itself, keeps its bounds.
<1>20. ASSUME NEW n, NEW n2, NEW p \in A, NEW j, NEW k, NEW x \in A, x # c, x \notin moved,
              ChildOK(n, p, j, x, lo, hi, level, up),
              LowOf(n2, k, lo2[p]) = LowOf(n, j, lo[p]),
              HighOf(n2, k, hi2[p]) = HighOf(n, j, hi[p])
       PROVE  ChildOK(n2, p, k, x, lo2, hi2, level2, up2)
  BY <1>6, <1>20 DEF ChildOK
<1>21. ASSUME NEW p \in A \cup {f}, IsInner(ns2[p]), NEW j \in Places(ns2[p])
       PROVE  ChildOK(ns2[p], p, j, ns2[p].children[j], lo2, hi2, level2, up2)
  <2>1. CASE p = c
    <3>1. IsInner(ns[c])
      BY <1>18, <1>21, <2>1
    <3>2. PICK k \in Nat :
            /\ Places(ns2[c]) = 1 .. k + 1
            /\ \A i_1 \in Places(ns2[c]) :
                 /\ i_1 \in Places(ns[c]) /\ ns2[c].children[i_1] = ns[c].children[i_1]
                 /\ LowOf(ns2[c], i_1, lo[c]) = LowOf(ns[c], i_1, lo[c])
                 /\ HighOf(ns2[c], i_1, s) = HighOf(ns[c], i_1, hi[c])
            /\ \A i_1 \in Places(ns2[f]) :
                 /\ k + 1 + i_1 \in Places(ns[c]) /\ i_1 >= 1
                 /\ ns2[f].children[i_1] = ns[c].children[k + 1 + i_1]
      BY <1>9, <3>1 DEF HalvesOf
    <3>3. /\ j \in Places(ns[c]) /\ ns2[c].children[j] = ns[c].children[j]
          /\ LowOf(ns2[c], j, lo[c]) = LowOf(ns[c], j, lo[c])
          /\ HighOf(ns2[c], j, s) = HighOf(ns[c], j, hi[c])
      BY <1>21, <2>1, <3>2
    <3>4. PICK x \in A : /\ x = ns[c].children[j]
                         /\ ChildOK(ns[c], c, j, x, lo, hi, level, up)
      BY <3>1, <3>3, TreeChild
    <3>5. x # Root /\ up[x] = c
      BY <3>4 DEF ChildOK
    <3>6. x \notin moved
      <4>1. SUFFICES ASSUME x \in moved PROVE FALSE
        OBVIOUS
      <4>2. PICK l \in Places(ns2[f]) : ns2[f].children[l] = x
        BY <1>7, <4>1 DEF HasChild
      <4>3. k + 1 + l \in Places(ns[c]) /\ ns[c].children[k + 1 + l] = x /\ l >= 1
        BY <3>2, <4>2
      <4>4. j \in 1 .. k + 1 /\ l \in Int
        BY <1>21, <2>1, <3>2, <4>2 DEF Places
      <4>5. j # k + 1 + l
        BY <3>2, <4>3, <4>4
      <4> QED
        BY <3>1, <3>3, <3>4, <4>3, <4>5, OnePlace
    <3>7. x # c
      BY <1>10, <3>5
    <3>8. lo2[c] = lo[c] /\ hi2[c] = s
      BY <1>6
    <3>9. ChildOK(ns2[c], c, j, x, lo2, hi2, level2, up2)
      BY <1>20, <3>3, <3>4, <3>6, <3>7, <3>8
    <3> QED
      BY <2>1, <3>3, <3>4, <3>9
  <2>2. CASE p = f
    <3>1. IsInner(ns[c])
      BY <1>18, <1>21, <2>2
    <3>2. PICK k \in Nat :
            \A i_1 \in Places(ns2[f]) :
              /\ k + 1 + i_1 \in Places(ns[c]) /\ i_1 >= 1
              /\ ns2[f].children[i_1] = ns[c].children[k + 1 + i_1]
              /\ LowOf(ns2[f], i_1, s) = LowOf(ns[c], k + 1 + i_1, lo[c])
              /\ HighOf(ns2[f], i_1, hi[c]) = HighOf(ns[c], k + 1 + i_1, hi[c])
      BY <1>9, <3>1 DEF HalvesOf
    <3>3. PICK l \in Places(ns[c]) :
            /\ ns2[f].children[j] = ns[c].children[l]
            /\ LowOf(ns2[f], j, s) = LowOf(ns[c], l, lo[c])
            /\ HighOf(ns2[f], j, hi[c]) = HighOf(ns[c], l, hi[c])
      BY <1>21, <2>2, <3>2
    <3>4. PICK x \in A : /\ x = ns[c].children[l]
                         /\ ChildOK(ns[c], c, l, x, lo, hi, level, up)
      BY <3>1, TreeChild
    <3>5. x # Root /\ up[x] = c /\ level[c] = level[x] + 1
          /\ lo[x] = LowOf(ns[c], l, lo[c]) /\ hi[x] = HighOf(ns[c], l, hi[c])
      BY <3>4 DEF ChildOK
    <3>6. x \in moved /\ x # c
      <4>1. HasChild(ns2[f], x)
        BY <1>21, <2>2, <3>3, <3>4 DEF HasChild
      <4> QED
        BY <1>8, <1>10, <3>1, <3>5, <4>1
    <3>7. up2[x] = f /\ level2[f] = level2[x] + 1 /\ lo2[x] = LowOf(ns2[f], j, lo2[f])
          /\ hi2[x] = HighOf(ns2[f], j, hi2[f])
      BY <1>6, <3>3, <3>5, <3>6
    <3> QED
      BY <2>2, <3>3, <3>4, <3>5, <3>7 DEF ChildOK
  <2>3. CASE p = q
    <3>1. ASSUME NEW l \in Places(ns[q]), l # i
          PROVE  \E x \in A : /\ x = ns[q].children[l] /\ x # c /\ x \notin moved
                              /\ ChildOK(ns[q], q, l, x, lo, hi, level, up)
      <4>1. PICK x \in A : /\ x = ns[q].children[l]
                           /\ ChildOK(ns[q], q, l, x, lo, hi, level, up)
        BY <1>2, TreeChild
      <4>2. x # c
        BY <1>2, <1>13, <3>1, <4>1, OnePlace
      <4>3. up[x] = q
        BY <4>1 DEF ChildOK
      <4>4. x \notin moved
        BY <1>2, <1>11, <4>3
      <4> QED
        BY <4>1, <4>2, <4>4
    <3>2. lo2[q] = lo[q] /\ hi2[q] = hi[q] /\ level2[q] = level[q]
      BY <1>2, <1>6
    <3>3. ASSUME NEW l \in Places(ns[q]), l # i, ns2[q].children[j] = ns[q].children[l],
                 LowOf(ns2[q], j, lo[q]) = LowOf(ns[q], l, lo[q]),
                 HighOf(ns2[q], j, hi[q]) = HighOf(ns[q], l, hi[q])
          PROVE  ChildOK(ns2[q], q, j, ns2[q].children[j], lo2, hi2, level2, up2)
      <4>1. PICK x \in A : /\ x = ns[q].children[l] /\ x # c /\ x \notin moved
                           /\ ChildOK(ns[q], q, l, x, lo, hi, level, up)
        BY <3>1, <3>3
      <4>2. LowOf(ns2[q], j, lo2[q]) = LowOf(ns[q], l, lo[q])
            /\ HighOf(ns2[q], j, hi2[q]) = HighOf(ns[q], l, hi[q])
        BY <3>2, <3>3
      <4>3. ChildOK(ns2[q], q, j, x, lo2, hi2, level2, up2)
        BY <1>20, <4>1, <4>2
      <4> QED
        BY <3>3, <4>1, <4>3
    <3>4. CASE /\ j = i /\ ns2[q].children[j] = ns[q].children[i]
               /\ LowOf(ns2[q], j, lo[q]) = LowOf(ns[q], i, lo[q])
               /\ HighOf(ns2[q], j, hi[q]) = s
      <4>1. ns2[q].children[j] = c
        BY <1>13, <3>4
      <4>2. /\ c # Root /\ up2[c] = q /\ level2[q] = level2[c] + 1
            /\ lo2[c] = LowOf(ns2[q], j, lo2[q]) /\ hi2[c] = HighOf(ns2[q], j, hi2[q])
        BY <1>2, <1>6, <1>12, <1>14, <3>2, <3>4
      <4>3. ChildOK(ns2[q], q, j, c, lo2, hi2, level2, up2)
        BY <4>2 DEF ChildOK
      <4> QED
        BY <2>3, <4>1, <4>3
    <3>5. CASE /\ j = i + 1 /\ ns2[q].children[j] = f
               /\ LowOf(ns2[q], j, lo[q]) = s
               /\ HighOf(ns2[q], j, hi[q]) = HighOf(ns[q], i, hi[q])
      <4>1. /\ f # Root /\ up2[f] = q /\ level2[q] = level2[f] + 1
            /\ lo2[f] = LowOf(ns2[q], j, lo2[q]) /\ hi2[f] = HighOf(ns2[q], j, hi2[q])
        BY <1>1, <1>2, <1>6, <1>14, <3>2, <3>5
      <4>2. ChildOK(ns2[q], q, j, f, lo2, hi2, level2, up2)
        BY <4>1 DEF ChildOK
      <4> QED
        BY <2>3, <3>5, <4>2
    <3>6. \/ /\ j # i /\ j \in Places(ns[q]) /\ ns2[q].children[j] = ns[q].children[j]
             /\ LowOf(ns2[q], j, lo[q]) = LowOf(ns[q], j, lo[q])
             /\ HighOf(ns2[q], j, hi[q]) = HighOf(ns[q], j, hi[q])
          \/ /\ j = i /\ ns2[q].children[j] = ns[q].children[i]
             /\ LowOf(ns2[q], j, lo[q]) = LowOf(ns[q], i, lo[q]) /\ HighOf(ns2[q], j, hi[q]) = s
          \/ /\ j = i + 1 /\ ns2[q].children[j] = f
             /\ LowOf(ns2[q], j, lo[q]) = s
             /\ HighOf(ns2[q], j, hi[q]) = HighOf(ns[q], i, hi[q])
          \/ /\ j - 1 # i /\ j - 1 \in Places(ns[q])
             /\ ns2[q].children[j] = ns[q].children[j - 1]
             /\ LowOf(ns2[q], j, lo[q]) = LowOf(ns[q], j - 1, lo[q])
             /\ HighOf(ns2[q], j, hi[q]) = HighOf(ns[q], j - 1, hi[q])
      BY <1>17, <1>21, <2>3 DEF GrownBounds
    <3>7. ChildOK(ns2[q], q, j, ns2[q].children[j], lo2, hi2, level2, up2)
      <4>1. ASSUME NEW l, l # i, l \in Places(ns[q]),
                   ns2[q].children[j] = ns[q].children[l],
                   LowOf(ns2[q], j, lo[q]) = LowOf(ns[q], l, lo[q]),
                   HighOf(ns2[q], j, hi[q]) = HighOf(ns[q], l, hi[q])
            PROVE  ChildOK(ns2[q], q, j, ns2[q].children[j], lo2, hi2, level2, up2)
        BY <3>3, <4>1
      <4> QED
        BY <2>3, <3>4, <3>5, <3>6, <4>1, Zenon
    <3> QED
      BY <2>3, <3>7
  <2>4. CASE p \notin {c, f, q}
    <3>1. ns2[p] = ns[p] /\ lo2[p] = lo[p] /\ hi2[p] = hi[p] /\ p \in A
      BY <1>6, <2>4
    <3>2. PICK x \in A : /\ x = ns[p].children[j]
                         /\ ChildOK(ns[p], p, j, x, lo, hi, level, up)
      BY <1>21, <3>1, TreeChild
    <3>3. up[x] = p
      BY <3>2 DEF ChildOK
    <3>4. x # c /\ x \notin moved
      BY <1>11, <2>4, <3>3
    <3>5. ChildOK(ns2[p], p, j, x, lo2, hi2, level2, up2)
      BY <1>20, <3>1, <3>2, <3>4
    <3> QED
      BY <3>1, <3>2, <3>5
  <2> QED
    BY <2>1, <2>2, <2>3, <2>4
<1>22. ASSUME NEW p \in A \cup {f}, IsLeaf(ns2[p])
       PROVE  level2[p] = 0 /\ LinkOK(ns2[p], p, lo2, hi2)
  <2>1. p # q
    BY <1>2, <1>16, <1>18, <1>22 DEF Grown
  <2>2. CASE p = c
    <3>1. IsLeaf(ns[c])
      BY <1>18, <1>22, <2>2, NodeFields
    <3>2. level[c] = 0 /\ ns2[c].next = f
      BY <3>1 DEF Tree
    <3> QED
      BY <1>1, <1>4, <1>6, <2>2, <3>2 DEF LinkOK
  <2>3. CASE p = f
    <3>1. IsLeaf(ns[c])
      BY <1>18, <1>22, <2>3, NodeFields
    <3>2. level[c] = 0 /\ ns2[f].next = ns[c].next /\ LinkOK(ns[c], c, lo, hi)
      BY <3>1 DEF Tree
    <3>3. ns[c].next \in A \cup {NoPage}
      BY <3>1, NodeFields
    <3> QED
      BY <1>6, <2>3, <3>2, <3>3 DEF LinkOK
  <2>4. CASE p \notin {c, f, q}
    <3>1. ns2[p] = ns[p] /\ lo2[p] = lo[p] /\ hi2[p] = hi[p] /\ level2[p] = level[p] /\ p \in A
      BY <1>6, <2>4
    <3>2. level[p] = 0 /\ LinkOK(ns[p], p, lo, hi)
      BY <1>22, <3>1 DEF Tree
    <3>3. ns[p].next \in A \cup {NoPage}
      BY <1>22, <3>1, NodeFields
    <3> QED
      BY <1>6, <3>1, <3>2, <3>3 DEF LinkOK
  <2> QED
    BY <2>1, <2>2, <2>3, <2>4
<1>23. ASSUME NEW p \in A \cup {f}, p # Root
       PROVE  up2[p] \in A \cup {f} /\ IsInner(ns2[up2[p]]) /\ HasChild(ns2[up2[p]], p)
  <2>1. IsInner(ns2[q]) /\ HasChild(ns2[q], f)
    BY <1>16, <1>17 DEF Grown, GrownBounds
  <2>2. CASE p = f
    BY <1>6, <2>1, <2>2
  <2>3. CASE p \in moved
    <3>1. up2[p] = f /\ IsInner(ns[c]) /\ HasChild(ns2[f], p)
      BY <1>6, <1>7, <2>3
    <3> QED
      BY <1>18, <3>1
  <2>4. CASE p # f /\ p \notin moved
    <3>1. p \in A /\ up2[p] = up[p]
      BY <1>6, <2>4
    <3>2. PICK r \in A : r = up[p]
      BY <1>23, <3>1, AboveIn
    <3>3. IsInner(ns[r])
      BY <1>23, <3>1, <3>2, Above
    <3>4. PICK j \in Places(ns[r]) : ns[r].children[j] = p
      BY <1>23, <3>1, <3>2, PlaceAbove
    <3>5. CASE r = q
      <4>1. HasChild(ns2[q], ns[q].children[j])
        BY <1>17, <3>4, <3>5 DEF GrownBounds
      <4> QED
        BY <2>1, <3>1, <3>2, <3>4, <3>5, <4>1
    <3>6. CASE r = c
      <4>1. PICK k \in Nat :
              /\ Places(ns2[c]) = 1 .. k + 1
              /\ \A i_1 \in Places(ns2[c]) : ns2[c].children[i_1] = ns[c].children[i_1]
              /\ \A i_1 \in Places(ns[c]) : k + 1 < i_1 =>
                   /\ i_1 - k - 1 \in Places(ns2[f])
                   /\ ns2[f].children[i_1 - k - 1] = ns[c].children[i_1]
        BY <1>9, <3>3, <3>6 DEF HalvesOf
      <4>2. CASE k + 1 < j
        <5>1. HasChild(ns2[f], p)
          BY <3>4, <3>6, <4>1, <4>2 DEF HasChild
        <5> QED
          BY <1>8, <2>4, <3>1, <3>3, <3>6, <5>1
      <4>3. CASE ~(k + 1 < j)
        <5>1. j \in 1 .. k + 1
          BY <3>4, <4>1, <4>3 DEF Places
        <5>2. HasChild(ns2[c], p)
          BY <3>4, <3>6, <4>1, <5>1 DEF HasChild
        <5> QED
          BY <1>18, <3>1, <3>2, <3>3, <3>6, <5>2
      <4> QED
        BY <4>2, <4>3
    <3>7. CASE r \notin {c, q}
      <4>1. ns2[r] = ns[r] /\ HasChild(ns[r], p)
        BY <3>4, <3>7 DEF HasChild
      <4> QED
        BY <3>1, <3>2, <3>3, <4>1
    <3> QED
      BY <3>5, <3>6, <3>7
  <2> QED
    BY <2>2, <2>3, <2>4
<1>24. Tree(ns2, A \cup {f}, lo2, hi2, level2, up2)
  <2>1. /\ lo2[Root] = -1 /\ hi2[Root] = -1
        /\ FirstLeaf \in A \cup {f} /\ lo2[FirstLeaf] = -1 /\ level2[FirstLeaf] = 0
    BY <1>1, <1>3, <1>5, <1>6
  <2>4. \A p \in A \cup {f} : hi2[p] = -1 \/ lo2[p] < hi2[p]
    <3>1. \A p \in A : p # c => hi2[p] = -1 \/ lo2[p] < hi2[p]
      BY <1>3, <1>6
    <3>2. (hi2[c] = -1 \/ lo2[c] < hi2[c]) /\ (hi2[f] = -1 \/ lo2[f] < hi2[f])
      BY <1>1, <1>4, <1>6
    <3> QED
      BY <3>1, <3>2
  <2>2. \A p \in A \cup {f} : IsInner(ns2[p]) => ChildrenOK(ns2[p], p, lo2, hi2, level2, up2)
    BY <1>21 DEF ChildrenOK
  <2>3. \A p \in (A \cup {f}) \ {Root} :
          up2[p] \in A \cup {f} /\ IsInner(ns2[up2[p]]) /\ HasChild(ns2[up2[p]], p)
    BY <1>23
  <2> QED
    BY <1>5, <1>19, <1>22, <2>1, <2>2, <2>3, <2>4 DEF Tree
<1>25. /\ \A p \in A : lo2[p] = lo[p] /\ (p # c => hi2[p] = hi[p])
       /\ hi2[c] = s /\ lo2[f] = s /\ hi2[f] = hi[c]
       /\ up2[c] = q /\ up2[f] = q
  BY <1>6, <1>12
<1> QED
  BY <1>24, <1>25 DEF Grafted

---------------------------------------------------------------------------
(* A split of the root *)

\* The root's node goes to a new page, the only child of the root then.
PushedDown(ns1, A, lo, hi, f) ==
  \E lo1, hi1, level1, up1 :
    /\ Tree(ns1, A \cup {f}, lo1, hi1, level1, up1)
    /\ \A p \in A : lo1[p] = lo[p] /\ hi1[p] = hi[p]
    /\ lo1[f] = -1 /\ hi1[f] = -1 /\ up1[f] = Root

LEMMA PushDown ==
  ASSUME NEW ns, NEW A, NodesIn(ns, A),
         NEW lo, NEW hi, NEW level, NEW up, Tree(ns, A, lo, hi, level, up),
         NEW f \in Pages, f \notin A, NEW ns1, NodesIn(ns1, A \cup {f}),
         ns1[Root] = InnerNode(<<>>, <<f>>), ns1[f] = ns[Root],
         \A p \in A \ {Root} : ns1[p] = ns[p]
  PROVE  PushedDown(ns1, A, lo, hi, f)
<1> DEFINE lo1 == [p \in Pages |-> IF p = f THEN -1 ELSE lo[p]]
           hi1 == [p \in Pages |-> IF p = f THEN -1 ELSE hi[p]]
           level1 == [p \in Pages |-> IF p = Root THEN level[Root] + 1
                                      ELSE IF p = f THEN level[Root] ELSE level[p]]
           up1 == [p \in Pages |-> IF p = f THEN Root
                                   ELSE IF p \in A \ {Root} /\ up[p] = Root THEN f ELSE up[p]]
<1>1. /\ A \subseteq Pages /\ Root \in A /\ Root \in Pages /\ f # Root /\ IsInner(ns[Root])
  BY DEF NodesIn
<1>2. /\ lo \in [Pages -> Nat \cup {-1}] /\ hi \in [Pages -> Nat \cup {-1}]
      /\ level \in [Pages -> Nat] /\ up \in [Pages -> Pages]
      /\ lo[Root] = -1 /\ hi[Root] = -1
      /\ FirstLeaf \in A /\ lo[FirstLeaf] = -1 /\ level[FirstLeaf] = 0
      /\ \A p \in A : hi[p] = -1 \/ lo[p] < hi[p]
  BY DEF Tree
<1>3. /\ lo1 \in [Pages -> Nat \cup {-1}] /\ hi1 \in [Pages -> Nat \cup {-1}]
      /\ level1 \in [Pages -> Nat] /\ up1 \in [Pages -> Pages]
  BY <1>1, <1>2
<1>4. /\ \A p \in A : p # f /\ lo1[p] = lo[p] /\ hi1[p] = hi[p]
      /\ \A p \in A \ {Root} : level1[p] = level[p]
      /\ \A p \in A \ {Root} : up1[p] = IF up[p] = Root THEN f ELSE up[p]
      /\ lo1[f] = -1 /\ hi1[f] = -1 /\ up1[f] = Root
      /\ level1[f] = level[Root] /\ level1[Root] = level[Root] + 1
  BY <1>1
<1> HIDE DEF lo1, hi1, level1, up1
<1>5. /\ IsInner(ns1[Root]) /\ Len(ns1[Root].keys) = 0 /\ Places(ns1[Root]) = {1}
      /\ ns1[Root].children[1] = f
  <2>1. ns1[Root].keys = <<>> /\ ns1[Root].children = <<f>> /\ IsInner(ns1[Root])
    BY InnerParts
  <2>2. Len(<<>>) = 0 /\ <<f>>[1] = f /\ 1 .. 0 + 1 = {1}
    OBVIOUS
  <2> QED
    BY <2>1, <2>2 DEF Places
<1>6. \A p \in A \cup {f} : IsInner(ns1[p]) <=> ~IsLeaf(ns1[p])
  BY NodeFields
<1>7. ASSUME NEW p \in A \cup {f}
      PROVE  KeysOK(ns1[p], lo1[p], hi1[p])
  <2>1. CASE p = Root
    <3>1. KeysOK(ns1[Root], lo1[Root], hi1[Root])
      BY <1>5 DEF KeysOK, SortedKeys
    <3> QED
      BY <2>1, <3>1
  <2>2. CASE p = f
    <3>1. KeysOK(ns[Root], lo[Root], hi[Root])
      BY <1>1 DEF Tree
    <3> QED
      BY <1>2, <1>4, <2>2, <3>1
  <2>3. CASE p \notin {f, Root}
    <3>1. KeysOK(ns[p], lo[p], hi[p])
      BY <2>3 DEF Tree
    <3> QED
      BY <1>4, <2>3, <3>1
  <2> QED
    BY <2>1, <2>2, <2>3
<1>8. ASSUME NEW p \in A, IsInner(ns[p]), NEW j \in Places(ns[p])
      PROVE  \E x \in A : /\ x = ns[p].children[j] /\ x # Root /\ up[x] = p
                          /\ level[p] = level1[x] + 1 /\ up1[x] = (IF p = Root THEN f ELSE p)
                          /\ lo1[x] = LowOf(ns[p], j, lo[p]) /\ hi1[x] = HighOf(ns[p], j, hi[p])
  <2>1. PICK x \in A : /\ x = ns[p].children[j]
                       /\ ChildOK(ns[p], p, j, x, lo, hi, level, up)
    BY <1>8, TreeChild
  <2>2. /\ x # Root /\ up[x] = p /\ level[p] = level[x] + 1
        /\ lo[x] = LowOf(ns[p], j, lo[p]) /\ hi[x] = HighOf(ns[p], j, hi[p])
    BY <2>1 DEF ChildOK
  <2> QED
    BY <1>4, <2>1, <2>2
<1>9. ASSUME NEW p \in A \cup {f}, IsInner(ns1[p]), NEW j \in Places(ns1[p])
      PROVE  ChildOK(ns1[p], p, j, ns1[p].children[j], lo1, hi1, level1, up1)
  <2>1. CASE p = Root
    <3>1. j = 1 /\ ns1[Root].children[j] = f
      BY <1>5, <1>9, <2>1
    <3>2. /\ LowOf(ns1[Root], j, lo1[Root]) = lo1[f]
          /\ HighOf(ns1[Root], j, hi1[Root]) = hi1[f]
      BY <1>1, <1>2, <1>4, <1>5, <3>1 DEF LowOf, HighOf
    <3>3. ChildOK(ns1[Root], Root, j, f, lo1, hi1, level1, up1)
      BY <1>1, <1>4, <3>2 DEF ChildOK
    <3> QED
      BY <2>1, <3>1, <3>3
  <2>2. CASE p = f
    <3>1. j \in Places(ns[Root])
      BY <1>9, <2>2
    <3>2. PICK x \in A : /\ x = ns[Root].children[j] /\ x # Root
                         /\ level[Root] = level1[x] + 1 /\ up1[x] = f
                         /\ lo1[x] = LowOf(ns[Root], j, lo[Root])
                         /\ hi1[x] = HighOf(ns[Root], j, hi[Root])
      BY <1>1, <1>8, <3>1
    <3>3. ChildOK(ns[Root], f, j, x, lo1, hi1, level1, up1)
      BY <1>2, <1>4, <3>2 DEF ChildOK
    <3> QED
      BY <2>2, <3>2, <3>3
  <2>3. CASE p \notin {f, Root}
    <3>1. p \in A /\ ns1[p] = ns[p] /\ lo1[p] = lo[p] /\ hi1[p] = hi[p] /\ level1[p] = level[p]
      BY <1>4, <2>3
    <3>2. PICK x \in A : /\ x = ns[p].children[j] /\ x # Root
                         /\ level[p] = level1[x] + 1 /\ up1[x] = p
                         /\ lo1[x] = LowOf(ns[p], j, lo[p])
                         /\ hi1[x] = HighOf(ns[p], j, hi[p])
      BY <1>8, <1>9, <2>3, <3>1
    <3>3. ChildOK(ns[p], p, j, x, lo1, hi1, level1, up1)
      BY <3>1, <3>2 DEF ChildOK
    <3> QED
      BY <3>1, <3>2, <3>3
  <2> QED
    BY <2>1, <2>2, <2>3
<1>10. ASSUME NEW p \in A \cup {f}, IsLeaf(ns1[p])
       PROVE  level1[p] = 0 /\ LinkOK(ns1[p], p, lo1, hi1)
  <2>1. p # Root /\ p # f
    BY <1>1, <1>5, <1>6, <1>10
  <2>2. p \in A /\ ns1[p] = ns[p] /\ hi1[p] = hi[p] /\ level1[p] = level[p]
    BY <1>4, <2>1
  <2>3. level[p] = 0 /\ LinkOK(ns[p], p, lo, hi)
    BY <1>10, <2>2 DEF Tree
  <2>4. ns[p].next \in A \cup {NoPage}
    BY <1>10, <2>2, NodeFields
  <2> QED
    BY <1>4, <2>2, <2>3, <2>4 DEF LinkOK
<1>11. ASSUME NEW p \in A \cup {f}, p # Root
       PROVE  up1[p] \in A \cup {f} /\ IsInner(ns1[up1[p]]) /\ HasChild(ns1[up1[p]], p)
  <2>1. CASE p = f
    <3>1. HasChild(ns1[Root], f)
      BY <1>5 DEF HasChild
    <3> QED
      BY <1>1, <1>4, <1>5, <2>1, <3>1
  <2>2. CASE p # f
    <3>1. p \in A
      BY <2>2
    <3>2. up[p] \in A /\ IsInner(ns[up[p]]) /\ HasChild(ns[up[p]], p)
      BY <1>11, <3>1 DEF Tree
    <3>3. ns1[up1[p]] = ns[up[p]] /\ up1[p] \in A \cup {f}
      BY <1>4, <1>11, <3>1, <3>2
    <3> QED
      BY <3>2, <3>3
  <2> QED
    BY <2>1, <2>2
<1>12. Tree(ns1, A \cup {f}, lo1, hi1, level1, up1)
  <2>1. \A p \in A \cup {f} : IsInner(ns1[p]) => ChildrenOK(ns1[p], p, lo1, hi1, level1, up1)
    BY <1>9 DEF ChildrenOK
  <2>2. \A p \in (A \cup {f}) \ {Root} :
          up1[p] \in A \cup {f} /\ IsInner(ns1[up1[p]]) /\ HasChild(ns1[up1[p]], p)
    BY <1>11
  <2>4. \A p \in A \cup {f} : hi1[p] = -1 \/ lo1[p] < hi1[p]
    BY <1>2, <1>4
  <2>3. FirstLeaf \in A \cup {f} /\ lo1[FirstLeaf] = -1 /\ level1[FirstLeaf] = 0
    <3>1. FirstLeaf # Root
      BY DEF FirstLeaf, Root
    <3> QED
      BY <1>2, <1>4, <3>1
  <2> QED
    BY <1>1, <1>2, <1>3, <1>4, <1>7, <1>10, <2>1, <2>2, <2>3, <2>4 DEF Tree
<1> QED
  BY <1>4, <1>12 DEF PushedDown

\* A root with one child, after an insertion, is what splitRoot makes.
LEMMA RootGrown ==
  ASSUME NEW s \in Nat, NEW f \in Pages, NEW g \in Pages
  PROVE  InnerInsert(InnerNode(<<>>, <<f>>), s, g) = InnerNode(<<s>>, <<f, g>>)
<1> DEFINE n == InnerNode(<<>>, <<f>>)
<1>1. n.keys = <<>> /\ n.children = <<f>>
  BY InnerParts
<1>2. <<>> \in Seq(Nat) /\ Len(<<>>) = 0 /\ <<f>> \in Seq(Pages) /\ Len(<<f>>) = 1 /\ <<f>>[1] = f
  OBVIOUS
<1>3. LowerBound(<<>>, s) = 0
  <2>1. PICK none \in Seq(Nat) : none = <<>>
    BY <1>2
  <2>2. PICK k \in 0 .. Len(none) : k = 0
    BY <1>2, <2>1
  <2>3. \A i \in 1 .. Len(none) : none[i] < s <=> i <= k
    BY <1>2, <2>1
  <2> QED
    BY <2>1, <2>2, <2>3, LowerBoundIs
<1>4. InnerInsert(n, s, g) = InnerNode(InsertAt(<<>>, 1, s), InsertAt(<<f>>, 2, g))
  BY <1>1, <1>3 DEF InnerInsert
<1>5. InsertAt(<<>>, 1, s) = <<s>>
  <2>1. PICK none \in Seq(Nat) : none = <<>>
    BY <1>2
  <2>2. PICK i \in 1 .. Len(none) + 1 : i = 1
    BY <1>2, <2>1
  <2>3. PICK keys : keys = InsertAt(none, i, s)
    OBVIOUS
  <2>4. keys \in Seq(Nat) /\ Len(keys) = Len(none) + 1
    BY <2>3, InsertAtType
  <2>5. \A j \in 1 .. Len(none) + 1 :
          keys[j] = IF j < i THEN none[j] ELSE IF j = i THEN s ELSE none[j - 1]
    BY <2>3, InsertAtValue
  <2>6. keys[1] = s /\ Len(keys) = 1
    BY <1>2, <2>1, <2>2, <2>4, <2>5
  <2>7. keys = <<s>>
    BY <2>4, <2>6
  <2> QED
    BY <2>1, <2>2, <2>3, <2>7
<1>6. InsertAt(<<f>>, 2, g) = <<f, g>>
  <2>1. PICK one \in Seq(Pages) : one = <<f>>
    BY <1>2
  <2>2. PICK i \in 1 .. Len(one) + 1 : i = 2
    BY <1>2, <2>1
  <2>3. PICK children : children = InsertAt(one, i, g)
    OBVIOUS
  <2>4. children \in Seq(Pages) /\ Len(children) = Len(one) + 1
    BY <2>3, InsertAtType
  <2>5. \A j \in 1 .. Len(one) + 1 :
          children[j] = IF j < i THEN one[j] ELSE IF j = i THEN g ELSE one[j - 1]
    BY <2>3, InsertAtValue
  <2>6. children[1] = f /\ children[2] = g /\ Len(children) = 2
    BY <1>2, <2>1, <2>2, <2>4, <2>5
  <2>7. children = <<f, g>>
    <3>0. <<f, g>> \in Seq(Pages)
      OBVIOUS
    <3>1. PICK two \in Seq(Pages) : two = <<f, g>>
      BY <3>0, Zenon
    <3>2. Len(two) = 2 /\ two[1] = f /\ two[2] = g
      BY <3>1
    <3>3. 1 .. 2 = {1, 2}
      OBVIOUS
    <3>4. \A j \in 1 .. Len(two) : two[j] = children[j]
      BY <2>6, <3>2, <3>3
    <3>5. two = children
      BY <2>4, <2>6, <3>2, <3>4, SeqEqual
    <3> QED
      BY <3>1, <3>5
  <2> QED
    BY <2>1, <2>2, <2>3, <2>7
<1> QED
  BY <1>4, <1>5, <1>6

\* splitRoot keeps the tree, and the bounds of all pages.
LEMMA SplitRootTree ==
  ASSUME NEW ns, NEW A, NodesIn(ns, A),
         NEW lo, NEW hi, NEW level, NEW up, Tree(ns, A, lo, hi, level, up),
         ~HasFreeSpace(ns[Root]),
         NEW f \in Pages, f \notin A, NEW g \in Pages, g \notin A, f # g,
         NEW ns2, NodesIn(ns2, A \cup {f} \cup {g}),
         ns2[Root] = SplitRoot(ns[Root], f, g),
         ns2[f] = InnerSplit(ns[Root]).old, ns2[g] = InnerSplit(ns[Root]).new,
         \A p \in A \ {Root} : ns2[p] = ns[p]
  PROVE  \E lo2, hi2, level2, up2 :
           /\ Tree(ns2, A \cup {f} \cup {g}, lo2, hi2, level2, up2)
           /\ \A p \in A : lo2[p] = lo[p] /\ hi2[p] = hi[p]
<1> DEFINE B == A \cup {f}
           root == InnerNode(<<>>, <<f>>)
           ns1 == [p \in Pages |-> IF p = Root THEN root ELSE IF p = f THEN ns[Root] ELSE ns[p]]
           s == InnerSplit(ns[Root]).splitter
<1>1. /\ A \subseteq Pages /\ Root \in A /\ Root \in Pages /\ f # Root /\ IsInner(ns[Root])
      /\ ns[Root] \in InnerIn(A)
  BY NodeFields DEF NodesIn
<1>2. ns1[Root] = root /\ ns1[f] = ns[Root] /\ \A p \in A \ {Root} : ns1[p] = ns[p]
  BY <1>1
<1>3. IsInner(root) /\ root \in InnerIn(B)
  <2>1. <<>> \in Seq(Nat) /\ Len(<<>>) = 0 /\ <<f>> \in Seq(B) /\ Len(<<f>>) = 1
    OBVIOUS
  <2>2. 0 < 2 * InnerDegree /\ 1 = 0 + 1
    BY Degrees
  <2> HIDE DEF B
  <2>3. root \in InnerIn(B)
    BY <2>1, <2>2, InnerMade
  <2> QED
    BY <2>3, InnerParts
<1> HIDE DEF ns1, root
<1>4. NodesIn(ns1, B)
  <2>1. InnerIn(A) \subseteq InnerIn(B) /\ LeafIn(A) \subseteq LeafIn(B)
    BY LargerIn
  <2>2. ASSUME NEW p \in B
        PROVE  \/ IsInner(ns1[p]) /\ ns1[p] \in InnerIn(B)
               \/ IsLeaf(ns1[p]) /\ ns1[p] \in LeafIn(B)
    <3>1. CASE p = Root
      BY <1>2, <1>3, <3>1
    <3>2. CASE p = f
      BY <1>1, <1>2, <2>1, <3>2
    <3>3. CASE p \notin {Root, f}
      <4>1. p \in A /\ ns1[p] = ns[p]
        BY <1>2, <3>3
      <4>2. \/ IsInner(ns[p]) /\ ns[p] \in InnerIn(A)
            \/ IsLeaf(ns[p]) /\ ns[p] \in LeafIn(A)
        BY <4>1 DEF NodesIn
      <4> QED
        BY <2>1, <4>1, <4>2
    <3> QED
      BY <3>1, <3>2, <3>3
  <2> QED
    BY <1>1, <1>2, <1>3, <2>2 DEF NodesIn
<1>5. PICK lo1, hi1, level1, up1 :
        /\ Tree(ns1, B, lo1, hi1, level1, up1)
        /\ \A p \in A : lo1[p] = lo[p] /\ hi1[p] = hi[p]
        /\ lo1[f] = -1 /\ hi1[f] = -1 /\ up1[f] = Root
  <2>1. ns1[Root] = InnerNode(<<>>, <<f>>)
    BY <1>2 DEF root
  <2>2. PushedDown(ns1, A, lo, hi, f)
    BY <1>2, <1>4, <2>1, PushDown
  <2> QED
    BY <2>2 DEF PushedDown
<1>6. /\ IsInner(ns2[f]) /\ IsInner(ns2[g])
      /\ KeysSplit(ns2[f], ns2[g], s, lo1[f], hi1[f])
      /\ ChildrenSplit(ns1[f], ns2[f], ns2[g], s)
      /\ s \in Nat
  <2>1. KeysOK(ns[Root], -1, -1)
    BY <1>1 DEF Tree
  <2>2. PICK n \in InnerIn(A) : n = ns[Root]
    BY <1>1
  <2>3. PICK low \in Nat \cup {-1} : low = -1
    OBVIOUS
  <2>4. KeysOK(n, low, low) /\ ~HasFreeSpace(n)
    BY <2>1, <2>2, <2>3
  <2>5. ns2[f] = InnerSplit(n).old /\ ns2[g] = InnerSplit(n).new /\ s = InnerSplit(n).splitter
    BY <2>2
  <2> HIDE DEF s
  <2>6. /\ IsInner(ns2[f]) /\ IsInner(ns2[g])
        /\ KeysSplit(ns2[f], ns2[g], s, low, low)
        /\ ChildrenSplit(n, ns2[f], ns2[g], s)
    BY <2>4, <2>5, InnerHalves
  <2>7. s \in Nat
    BY <2>6 DEF KeysSplit
  <2> QED
    BY <1>2, <1>5, <2>2, <2>3, <2>6, <2>7
<1>7. ns2[Root] = InnerInsert(ns1[Root], s, g)
  BY <1>2, <1>6, RootGrown DEF SplitRoot, root
<1>8. NodesIn(ns2, B \cup {g}) /\ g \notin B /\ f \in B
  OBVIOUS
<1>9. ~IsLeaf(ns1[f])
  BY <1>1, <1>2, <1>4, NodeFields
<1>10. \A p \in B \ {f, Root} : ns2[p] = ns1[p]
  BY <1>2
<1> HIDE DEF B, s
<1>11. \E lo2, hi2, level2, up2 :
         /\ Tree(ns2, B \cup {g}, lo2, hi2, level2, up2)
         /\ \A p \in B : lo2[p] = lo1[p] /\ (p # f => hi2[p] = hi1[p])
  <2>1. PICK q \in B : q = Root
    BY <1>1 DEF B
  <2>2. q = up1[f] /\ ns2[q] = InnerInsert(ns1[q], s, g) /\ \A p \in B \ {f, q} : ns2[p] = ns1[p]
    BY <1>5, <1>7, <1>10, <2>1
  <2>3. /\ Tree(ns1, B, lo1, hi1, level1, up1) /\ NodesIn(ns1, B)
        /\ NodesIn(ns2, B \cup {g}) /\ g \notin B /\ f \in B \ {Root} /\ s \in Nat
    BY <1>1, <1>4, <1>5, <1>6, <1>8
  <2>4. Grafted(ns2, B, lo1, hi1, f, g, s, q)
    BY <1>6, <1>9, <2>2, <2>3, SplitTree
  <2> QED
    BY <2>4 DEF Grafted
<1> QED
  BY <1>5, <1>11 DEF B

---------------------------------------------------------------------------
(* The inductive invariant, on top of IInv *)

Inserting(t) == op[t].kind = "insert" /\ pc[t] # "done"

\* Users keep keys distinct.
DistinctOK ==
  /\ \A t, u \in Threads : op[t].kind = "insert" /\ op[u].kind = "insert" /\ t # u =>
       op[t].key # op[u].key
  /\ \A t \in Threads : Inserting(t) => op[t].key \notin TreeKeys

\* Only pages of the tree are fixed exclusively.
LockedOK == \A p \in Pages : exclusive[p] # Nil => p \in Allocated

\* On its way down a thread is where its key belongs.
DescentOK(t, lo, hi) ==
  /\ pc[t] \in {"lockRoot", "lockChild", "lockHalf", "place"} => op[t].kind = "insert"
  /\ pc[t] = "descend" =>
       IF op[t].kind = "size" THEN lo[op[t].node] = -1
                              ELSE Within(op[t].key, lo[op[t].node], hi[op[t].node])

\* An insertion with exclusive locks: there is room in the parent until a child is split; the
\* half that it has to go to has room, and nobody is there or comes there before it.
LockingOK(t, lo, hi) ==
  /\ pc[t] \in {"lockChild", "lockHalf"} =>
       /\ Within(op[t].key, lo[op[t].parent], hi[op[t].parent])
       /\ op[t].node = InnerLookup(nodes[op[t].parent], op[t].key)
  /\ pc[t] = "lockChild" => HasFreeSpace(nodes[op[t].parent])
  /\ pc[t] = "lockHalf" =>
       /\ HasFreeSpace(nodes[op[t].node]) /\ exclusive[op[t].node] = Nil
       /\ \A u \in Threads : pc[u] = "descend" => op[u].node # op[t].node
  /\ pc[t] = "place" =>
       /\ HasFreeSpace(nodes[op[t].node])
       /\ Within(op[t].key, lo[op[t].node], hi[op[t].node])

ThreadOK(t, lo, hi) == DescentOK(t, lo, hi) /\ LockingOK(t, lo, hi)

TreeOK ==
  \E lo, hi, level, up : /\ Tree(nodes, Allocated, lo, hi, level, up)
                         /\ \A t \in Threads : ThreadOK(t, lo, hi)

KInv == status # "failed" /\ DistinctOK /\ LockedOK /\ TreeOK

---------------------------------------------------------------------------
(* What the invariant says *)

LEMMA TreeIn ==
  ASSUME IInv
  PROVE  /\ NodesIn(nodes, Allocated) /\ LeafPages = Leaves
         /\ \A p \in Allocated : /\ IsInner(nodes[p]) <=> ~nodes[p].leaf
                                 /\ IsInner(nodes[p]) <=> p \in InnerPages
                                 /\ IsLeaf(nodes[p]) <=> nodes[p].leaf
                                 /\ IsLeaf(nodes[p]) <=> p \in Leaves
<1>1. /\ Root \in InnerPages /\ Leaves \subseteq Allocated /\ Allocated \subseteq Pages
      /\ InnerPages \subseteq Allocated
  BY DEF IInv, NodesOK, Leaves, Allocated, InnerPages
<1>2. /\ \A p \in InnerPages : IsInner(nodes[p]) /\ ~IsLeaf(nodes[p]) /\ ~nodes[p].leaf
      /\ \A p \in Leaves : IsLeaf(nodes[p]) /\ ~IsInner(nodes[p]) /\ nodes[p].leaf
  BY DEF InnerPages, Leaves, IsInner, IsLeaf
<1>3. /\ \A p \in Allocated : p \in InnerPages \/ p \in Leaves
      /\ \A p \in InnerPages : nodes[p] \in InnerIn(Allocated)
      /\ \A p \in Leaves : nodes[p] \in LeafIn(Leaves)
      /\ \A p \in Pages \ Allocated : nodes[p] = Nil
  BY DEF IInv, NodesOK
<1>4. LeafIn(Leaves) \subseteq LeafIn(Allocated) /\ LeafIn(Leaves) \subseteq LeafNodes
  BY <1>1, LargerIn, NodeSets
<1>5. NodesIn(nodes, Allocated)
  <2>1. ASSUME NEW p \in Allocated
        PROVE  \/ IsInner(nodes[p]) /\ nodes[p] \in InnerIn(Allocated)
               \/ IsLeaf(nodes[p]) /\ nodes[p] \in LeafIn(Allocated)
    BY <1>2, <1>3, <1>4
  <2> QED
    BY <1>1, <1>2, <2>1 DEF NodesIn
<1>6. LeafPages = Leaves
  <2>1. \A p \in Leaves : nodes[p] # Nil /\ nodes[p].leaf
    BY <1>2, <1>3, <1>4, NilAssumption
  <2>2. \A p \in Pages : nodes[p] # Nil /\ nodes[p].leaf => p \in Leaves
    BY <1>2, <1>3
  <2> QED
    BY <1>1, <2>1, <2>2 DEF LeafPages
<1>7. \A p \in Allocated : /\ IsInner(nodes[p]) <=> ~nodes[p].leaf
                           /\ IsInner(nodes[p]) <=> p \in InnerPages
                           /\ IsLeaf(nodes[p]) <=> nodes[p].leaf
                           /\ IsLeaf(nodes[p]) <=> p \in Leaves
  BY <1>2, <1>3
<1> QED
  BY <1>5, <1>6, <1>7

\* The keys of the tree are those of its leaves.
LEMMA KeysOfTree ==
  ASSUME IInv, NEW key
  PROVE  key \in TreeKeys <=>
           \E p \in Leaves : \E i \in 1 .. Len(nodes[p].keys) : nodes[p].keys[i] = key
<1>1. key \in TreeKeys <=> \E p \in Leaves : key \in Range(nodes[p].keys)
  BY TreeIn DEF TreeKeys
<1>2. \A p \in Leaves : nodes[p].keys \in Seq(Nat)
  BY LeafFields DEF IInv, NodesOK
<1>3. \A p \in Leaves : key \in Range(nodes[p].keys) <=>
                          \E i \in 1 .. Len(nodes[p].keys) : nodes[p].keys[i] = key
  BY <1>2 DEF Range
<1> QED
  BY <1>1, <1>3

\* An insertion on its way down has the page above fixed exclusively.
LEMMA LockedWay ==
  ASSUME IInv, NEW lo, NEW hi, NEW level, NEW up, Tree(nodes, Allocated, lo, hi, level, up),
         NEW t \in Threads, ThreadOK(t, lo, hi), pc[t] \in {"lockChild", "lockHalf"}
  PROVE  /\ op[t].node \in Allocated /\ op[t].node # Root /\ op[t].key \in Nat
         /\ up[op[t].node] = op[t].parent /\ op[t].parent \in Allocated
         /\ exclusive[op[t].parent] = t /\ shared[op[t].parent] = {}
         /\ Within(op[t].key, lo[op[t].node], hi[op[t].node])
<1>1. /\ op[t].key \in Nat /\ op[t].parent \in InnerPages /\ op[t].parent \in Allocated
      /\ exclusive[op[t].parent] = t /\ shared[op[t].parent] = {}
  BY LockIsThere
<1>2. IsInner(nodes[op[t].parent])
  BY <1>1, TreeIn
<1>3. /\ Within(op[t].key, lo[op[t].parent], hi[op[t].parent])
      /\ op[t].node = InnerLookup(nodes[op[t].parent], op[t].key)
  BY DEF ThreadOK, LockingOK
<1>4. NodesIn(nodes, Allocated)
  BY TreeIn
<1>5. /\ op[t].node \in Allocated /\ op[t].node # Root /\ up[op[t].node] = op[t].parent
      /\ Within(op[t].key, lo[op[t].node], hi[op[t].node])
  BY <1>1, <1>2, <1>3, <1>4, LookupChild
<1> QED
  BY <1>1, <1>5

\* Two threads go different ways.
LEMMA WaysApart ==
  ASSUME IInv, NEW lo, NEW hi, NEW level, NEW up, Tree(nodes, Allocated, lo, hi, level, up),
         \A u \in Threads : ThreadOK(u, lo, hi),
         NEW t \in Threads, NEW u \in Threads, t # u,
         pc[t] \in {"lockChild", "lockHalf"}, pc[u] \in {"lockChild", "lockHalf"}
  PROVE  op[t].node # op[u].node
<1>1. up[op[t].node] = op[t].parent /\ exclusive[op[t].parent] = t
  BY LockedWay
<1>2. up[op[u].node] = op[u].parent /\ exclusive[op[u].parent] = u
  BY LockedWay
<1> QED
  BY <1>1, <1>2

\* A thread that goes on by itself, with the pages it has.
LEMMA ThreadKept ==
  ASSUME IInv, NEW u \in Threads, NEW lo, NEW hi, ThreadOK(u, lo, hi),
         op'[u] = op[u], pc'[u] = pc[u], NEW lo2, NEW hi2,
         \A p \in Allocated : u \in shared[p] \/ exclusive[p] = u => lo2[p] = lo[p] /\ hi2[p] = hi[p],
         \A p \in Allocated : exclusive[p] = u => nodes'[p] = nodes[p],
         pc[u] = "lockHalf" =>
           /\ HasFreeSpace(nodes'[op[u].node]) /\ exclusive'[op[u].node] = Nil
           /\ \A v \in Threads : pc'[v] = "descend" => op'[v].node # op[u].node
  PROVE  ThreadOK(u, lo2, hi2)'
<1>1. PlaceOK(u) /\ InnerPages \subseteq Allocated /\ Leaves \subseteq Allocated
  BY DEF IInv, PlacesOK, InnerPages, Leaves
<1>2. DescentOK(u, lo2, hi2)'
  <2>1. pc[u] = "descend" =>
          lo2[op[u].node] = lo[op[u].node] /\ hi2[op[u].node] = hi[op[u].node]
    BY <1>1 DEF PlaceOK
  <2> QED
    BY <2>1 DEF ThreadOK, DescentOK
<1>3. LockingOK(u, lo2, hi2)'
  <2>1. pc[u] \in {"lockChild", "lockHalf"} =>
          /\ lo2[op[u].parent] = lo[op[u].parent] /\ hi2[op[u].parent] = hi[op[u].parent]
          /\ nodes'[op[u].parent] = nodes[op[u].parent]
    BY <1>1 DEF PlaceOK
  <2>2. pc[u] = "place" =>
          /\ lo2[op[u].node] = lo[op[u].node] /\ hi2[op[u].node] = hi[op[u].node]
          /\ nodes'[op[u].node] = nodes[op[u].node]
    BY <1>1 DEF PlaceOK
  <2> QED
    BY <2>1, <2>2 DEF ThreadOK, LockingOK
<1> QED
  BY <1>2, <1>3 DEF ThreadOK

LEMMA DistinctKept ==
  ASSUME DistinctOK, TreeKeys' \subseteq TreeKeys,
         \A u \in Threads : /\ op'[u].kind = op[u].kind /\ op'[u].key = op[u].key
                            /\ Inserting(u)' => Inserting(u)
  PROVE  DistinctOK'
BY DEF DistinctOK

\* A step of thread t that changes no node.
LEMMA QuietTree ==
  ASSUME IInv, KInv, NEW lo, NEW hi, NEW level, NEW up,
         Tree(nodes, Allocated, lo, hi, level, up), \A u \in Threads : ThreadOK(u, lo, hi),
         NEW t \in Threads, UNCHANGED <<nodes, free>>, status' # "failed",
         \A u \in Threads \ {t} : op'[u] = op[u] /\ pc'[u] = pc[u],
         DistinctOK', \A p \in Pages : exclusive'[p] # Nil => p \in Allocated,
         ThreadOK(t, lo, hi)',
         \A u \in Threads \ {t} : pc[u] = "lockHalf" =>
           /\ exclusive'[op[u].node] = Nil
           /\ pc'[t] = "descend" => op'[t].node # op[u].node
  PROVE  KInv'
<1>1. Allocated' = Allocated
  BY DEF Allocated, Pages
<1>2. LockedOK'
  BY <1>1 DEF LockedOK, Pages
<1>3. ASSUME NEW u \in Threads \ {t}
      PROVE  ThreadOK(u, lo, hi)'
  <2>1. ThreadOK(u, lo, hi) /\ op'[u] = op[u] /\ pc'[u] = pc[u]
    OBVIOUS
  <2>2. pc[u] = "lockHalf" =>
          /\ HasFreeSpace(nodes'[op[u].node]) /\ exclusive'[op[u].node] = Nil
          /\ \A v \in Threads : pc'[v] = "descend" => op'[v].node # op[u].node
    BY <2>1 DEF ThreadOK, LockingOK
  <2> QED
    BY <2>1, <2>2, ThreadKept
<1>4. Tree(nodes, Allocated, lo, hi, level, up)'
  BY <1>1
<1>5. TreeOK'
  BY <1>3, <1>4 DEF TreeOK
<1> QED
  BY <1>2, <1>5 DEF KInv


---------------------------------------------------------------------------
(* Lookups from the root *)

\* No page is higher than some level.
LEMMA LevelsBounded ==
  ASSUME NEW level \in [Pages -> Nat]
  PROVE  \E b \in Nat : \A p \in Pages : level[p] < b
<1> DEFINE Bounded(n) == \E b \in Nat : \A p \in Pages : p <= n => level[p] < b
           T == {n \in Nat : ~Bounded(n)}
<1>1. SUFFICES \A n \in Nat : Bounded(n)
  <2>1. MaxPages \in Nat
    BY UsersAssumption
  <2>2. PICK b \in Nat : \A p \in Pages : p <= MaxPages => level[p] < b
    BY <2>1
  <2>3. \A p \in Pages : p <= MaxPages
    BY <2>1 DEF Pages
  <2> QED
    BY <2>2, <2>3
<1>2. SUFFICES ASSUME T # {} PROVE FALSE
  OBVIOUS
<1>3. PICK n \in T : \A m \in T : n <= m
  <2>1. T \subseteq Nat /\ T # {}
    BY <1>2
  <2> HIDE DEF T
  <2> QED
    BY <2>1, LeastNatural
<1>4. n \in Nat /\ ~Bounded(n)
  OBVIOUS
<1>5. n # 0
  <2>1. \A p \in Pages : ~(p <= 0)
    BY UsersAssumption DEF Pages
  <2> QED
    BY <1>4, <2>1
<1>6. Bounded(n - 1)
  <2>1. n - 1 \in Nat /\ ~(n <= n - 1)
    BY <1>4, <1>5
  <2> HIDE DEF Bounded
  <2> QED
    BY <1>3, <2>1
<1>7. PICK b \in Nat : \A p \in Pages : p <= n - 1 => level[p] < b
  BY <1>6
<1>8. PICK b2 \in Nat : b <= b2 /\ (n \in Pages => level[n] < b2)
  <2>1. CASE n \in Pages
    <3>1. level[n] \in Nat
      BY <2>1
    <3>2. b + level[n] + 1 \in Nat /\ b <= b + level[n] + 1 /\ level[n] < b + level[n] + 1
      BY <3>1
    <3> QED
      BY <3>2
  <2>2. CASE n \notin Pages
    BY <2>2
  <2> QED
    BY <2>1, <2>2
<1>9. ASSUME NEW p \in Pages, p <= n
      PROVE  level[p] < b2
  <2>1. level[p] \in Nat
    OBVIOUS
  <2>2. p \in Nat
    BY UsersAssumption DEF Pages
  <2>3. CASE p = n
    BY <1>8, <2>3
  <2>4. CASE p # n
    <3>1. p <= n - 1
      BY <1>4, <1>9, <2>2, <2>4
    <3>2. level[p] < b
      BY <1>7, <3>1
    <3> QED
      BY <1>8, <2>1, <3>2
  <2> QED
    BY <2>3, <2>4
<1>10. Bounded(n)
  BY <1>9
<1> QED
  BY <1>4, <1>10

\* There is the function that goes on to the next page until it is at a page in L.
GoesDown(D, L, next) == \E g : g = [p \in D |-> IF p \in L THEN p ELSE g[next[p]]]

\* A way from page to page that leads to less high ones comes to an end.
LEMMA GoingDown ==
  ASSUME NEW D, NEW L, NEW level, \A p \in D : level[p] \in Nat,
         NEW b \in Nat, \A p \in D : level[p] < b,
         NEW next, \A p \in D : p \notin L => next[p] \in D /\ level[next[p]] < level[p]
  PROVE  GoesDown(D, L, next)
<1> DEFINE After(g) == [p \in D |-> IF p \in L THEN p ELSE g[next[p]]]
           Right(g, n) == \A p \in D : level[p] < n => g[p] = After(g)[p]
           T == {n \in Nat : ~\E g : g = [p \in D |-> g[p]] /\ Right(g, n)}
<1>1. SUFFICES b \notin T
  <2>1. PICK g : g = [p \in D |-> g[p]] /\ Right(g, b)
    BY <1>1
  <2>2. g = After(g)
    BY <2>1
  <2> QED
    BY <2>2 DEF GoesDown
<1>2. SUFFICES ASSUME T # {} PROVE FALSE
  OBVIOUS
<1>3. PICK n \in T : \A m \in T : n <= m
  <2>1. T \subseteq Nat /\ T # {}
    BY <1>2
  <2> HIDE DEF T
  <2> QED
    BY <2>1, LeastNatural
<1>4. n \in Nat
  OBVIOUS
<1>5. n # 0
  <2>1. SUFFICES ASSUME n = 0 PROVE FALSE
    OBVIOUS
  <2>2. PICK g : g = [p \in D |-> p]
    OBVIOUS
  <2>3. g = [p \in D |-> g[p]] /\ Right(g, n)
    BY <2>1, <2>2
  <2> QED
    BY <2>3
<1>6. n - 1 \notin T /\ n - 1 \in Nat
  <2>1. n - 1 \in Nat /\ ~(n <= n - 1)
    BY <1>4, <1>5
  <2> HIDE DEF T
  <2> QED
    BY <1>3, <2>1
<1>7. PICK g : g = [p \in D |-> g[p]] /\ Right(g, n - 1)
  BY <1>6
<1>8. PICK h : h = After(g)
  OBVIOUS
<1>9. h = [p \in D |-> h[p]]
  BY <1>8
<1>10. ASSUME NEW p \in D, level[p] < n
       PROVE  h[p] = After(h)[p]
  <2>1. CASE p \in L
    BY <1>8, <2>1
  <2>2. CASE p \notin L
    <3>1. PICK c \in D : c = next[p]
      BY <2>2
    <3>2. level[c] < n - 1
      <4>1. level[c] \in Nat /\ level[p] \in Nat /\ level[c] < level[p]
        BY <2>2, <3>1
      <4> QED
        BY <1>4, <1>10, <4>1
    <3>3. g[c] = After(g)[c]
      BY <1>7, <3>2
    <3>4. h[p] = g[c] /\ After(h)[p] = h[c]
      BY <1>8, <2>2, <3>1
    <3> QED
      BY <1>8, <3>3, <3>4
  <2> QED
    BY <2>1, <2>2
<1>11. Right(h, n)
  BY <1>10
<1> QED
  BY <1>9, <1>11

\* The pages that have a node are those that newPage has given away.
LEMMA PagesWithNodes ==
  ASSUME IInv
  PROVE  {q \in Pages : nodes[q] # Nil} = Allocated
<1>1. /\ \A p \in Pages \ Allocated : nodes[p] = Nil
      /\ Allocated \subseteq Pages
  BY DEF IInv, NodesOK, Allocated
<1>2. \A p \in Allocated : nodes[p] # Nil
  <2>1. \A p \in Allocated : nodes[p] \in InnerIn(Allocated) \/ nodes[p] \in LeafIn(Allocated)
    BY TreeIn DEF NodesIn
  <2>2. InnerIn(Allocated) \subseteq InnerNodes /\ LeafIn(Allocated) \subseteq LeafNodes
    BY <1>1, LargerIn, NodeSets
  <2> QED
    BY <2>1, <2>2, NilAssumption
<1> QED
  BY <1>1, <1>2

\* lookupPage, from any page on for any key: the function that LeafOf stands for.
LEMMA LeafBelow ==
  ASSUME IInv, NEW lo, NEW hi, NEW level, NEW up, Tree(nodes, Allocated, lo, hi, level, up),
         NEW key \in Nat
  PROVE  \E below : /\ LeafOf(key) = below[Root]
                    /\ \A p \in Allocated :
                         below[p] = IF p \in Leaves THEN p ELSE below[InnerLookup(nodes[p], key)]
<1> DEFINE D == {q \in Pages : nodes[q] # Nil}
           below == CHOOSE f : f = [p \in D |-> IF nodes[p].leaf THEN p
                                                ELSE f[InnerLookup(nodes[p], key)]]
           next == [p \in D |-> InnerLookup(nodes[p], key)]
<1>1. LeafOf(key) = below[Root]
  BY DEF LeafOf
<1>2. D = Allocated
  BY PagesWithNodes
<1>3. PICK b \in Nat : \A p \in Pages : level[p] < b
  BY LevelsBounded DEF Tree
<1>4. \A p \in Allocated : level[p] \in Nat /\ level[p] < b /\ p \in Pages
  BY <1>3, TreeTypes DEF Allocated
<1>5. NodesIn(nodes, Allocated) /\ \A p \in Allocated : nodes[p].leaf <=> p \in Leaves
  BY TreeIn
<1>6. ASSUME NEW p \in Allocated, p \notin Leaves
      PROVE  next[p] \in Allocated /\ level[next[p]] < level[p]
  <2>1. IsInner(nodes[p]) /\ nodes[p] \in InnerIn(Allocated)
    BY <1>6, TreeIn, NodeKind
  <2>2. PICK c : c = InnerLookup(nodes[p], key)
    OBVIOUS
  <2>3. next[p] = c
    BY <1>2, <2>2
  <2>4. PICK n \in InnerIn(Allocated) : n = nodes[p]
    BY <2>1
  <2>5. LowerBound(n.keys, key) \in 0 .. Len(n.keys) /\ Len(n.keys) \in Nat
    BY InnerFields, LowerBoundType
  <2>6. PICK i \in Places(n) : i = LowerBound(n.keys, key) + 1
    BY <2>5 DEF Places
  <2>7. c = nodes[p].children[i]
    BY <2>2, <2>4, <2>6 DEF InnerLookup
  <2>8. c \in Allocated /\ ChildOK(nodes[p], p, i, c, lo, hi, level, up)
    BY <1>5, <2>1, <2>4, <2>7, TreeChild
  <2>9. level[p] = level[c] + 1
    BY <2>8 DEF ChildOK
  <2> QED
    BY <1>4, <2>3, <2>8, <2>9
<1> HIDE DEF next
<1>7. GoesDown(Allocated, Leaves, next)
  <2>1. PICK D1 : D1 = Allocated
    OBVIOUS
  <2>2. PICK L1 : L1 = Leaves
    OBVIOUS
  <2>3. PICK next1 : next1 = next
    OBVIOUS
  <2>4. \A p \in D1 : level[p] \in Nat
    BY <1>4, <2>1
  <2>5. \A p \in D1 : level[p] < b
    BY <1>4, <2>1
  <2>6. \A p \in D1 : p \notin L1 => next1[p] \in D1 /\ level[next1[p]] < level[p]
    BY <1>6, <2>1, <2>2, <2>3
  <2>7. GoesDown(D1, L1, next1)
    BY <1>3, <2>4, <2>5, <2>6, GoingDown
  <2> QED
    BY <2>1, <2>2, <2>3, <2>7
<1>8. PICK g : g = [p \in Allocated |-> IF p \in Leaves THEN p ELSE g[next[p]]]
  BY <1>7 DEF GoesDown
<1>9. \A p \in Allocated : next[p] = InnerLookup(nodes[p], key)
  BY <1>2 DEF next
<1>10. g = [p \in D |-> IF nodes[p].leaf THEN p ELSE g[InnerLookup(nodes[p], key)]]
  BY <1>2, <1>5, <1>8, <1>9
<1>11. below = [p \in D |-> IF nodes[p].leaf THEN p ELSE below[InnerLookup(nodes[p], key)]]
  BY <1>10
<1> HIDE DEF below
<1>12. \A p \in Allocated :
         below[p] = IF p \in Leaves THEN p ELSE below[InnerLookup(nodes[p], key)]
  BY <1>2, <1>5, <1>11
<1> QED
  BY <1>1, <1>12

\* From the root lookupPage comes to the leaf within whose bounds a key is.
LEMMA LeafForKey ==
  ASSUME IInv, NEW lo, NEW hi, NEW level, NEW up, Tree(nodes, Allocated, lo, hi, level, up),
         NEW key \in Nat, NEW leaf \in Leaves, Within(key, lo[leaf], hi[leaf])
  PROVE  LeafOf(key) = leaf
<1>1. PICK below : /\ LeafOf(key) = below[Root]
                   /\ \A p \in Allocated :
                        below[p] = IF p \in Leaves THEN p ELSE below[InnerLookup(nodes[p], key)]
  BY LeafBelow
<1>2. PICK b \in Nat : \A p \in Pages : level[p] < b
  BY LevelsBounded DEF Tree
<1> DEFINE OnWay(p) == p \in Allocated /\ Within(key, lo[p], hi[p]) /\ below[p] = leaf
           T == {n \in Nat : \E p \in Allocated : OnWay(p) /\ n = b - level[p]}
<1>3. \A p \in Allocated : level[p] \in Nat /\ b - level[p] \in Nat
  <2>1. SUFFICES ASSUME NEW p \in Allocated PROVE level[p] \in Nat /\ b - level[p] \in Nat
    OBVIOUS
  <2>2. p \in Pages
    BY DEF Allocated
  <2>3. level[p] \in Nat /\ level[p] < b
    BY <1>2, <2>2, TreeTypes
  <2> QED
    BY <2>3
<1>4. OnWay(leaf)
  BY <1>1 DEF Leaves
<1>5. T # {}
  BY <1>3, <1>4
<1>6. PICK n \in T : \A m \in T : n <= m
  <2>1. T \subseteq Nat
    OBVIOUS
  <2> HIDE DEF T
  <2> QED
    BY <1>5, <2>1, LeastNatural
<1>7. PICK p \in Allocated : OnWay(p) /\ n = b - level[p]
  OBVIOUS
<1>8. p = Root
  <2>1. SUFFICES ASSUME p # Root PROVE FALSE
    OBVIOUS
  <2>2. NodesIn(nodes, Allocated)
    BY TreeIn
  <2>3. PICK q \in Allocated : q = up[p]
    BY <2>1, AboveIn
  <2>4. IsInner(nodes[q]) /\ level[q] = level[p] + 1
    BY <2>1, <2>2, <2>3, Above
  <2>5. InnerLookup(nodes[q], key) = p /\ Within(key, lo[q], hi[q])
    BY <1>7, <2>1, <2>2, <2>3, LookupFromAbove
  <2>6. q \notin Leaves
    BY <2>2, <2>4, TreeIn DEF IsInner, IsLeaf
  <2>7. OnWay(q)
    BY <1>1, <1>7, <2>5, <2>6
  <2>8. b - level[q] \in T /\ b - level[q] \in Nat
    BY <1>3, <2>7
  <2>9. n <= b - level[q]
    BY <1>6, <2>8
  <2> QED
    BY <1>3, <1>7, <2>4, <2>9
<1> QED
  BY <1>1, <1>7, <1>8

\* A leaf has the keys between its bounds, and the next one begins where it ends.
LEMMA LeafAndNext ==
  ASSUME IInv, NEW lo, NEW hi, NEW level, NEW up, Tree(nodes, Allocated, lo, hi, level, up),
         NEW p \in Leaves
  PROVE  /\ p \in Allocated /\ p \in Pages
         /\ lo[p] \in Nat \cup {-1} /\ hi[p] \in Nat \cup {-1}
         /\ hi[p] = -1 \/ lo[p] < hi[p]
         /\ nodes[p].next = NoPage => hi[p] = -1
         /\ nodes[p].next # NoPage =>
              nodes[p].next \in Leaves /\ hi[p] \in Nat /\ lo[nodes[p].next] = hi[p]
<1>1. p \in Allocated /\ p \in Pages
  BY DEF Leaves, Allocated
<1>2. lo[p] \in Nat \cup {-1} /\ hi[p] \in Nat \cup {-1}
  BY <1>1, TreeTypes
<1>3. IsLeaf(nodes[p])
  BY <1>1, TreeIn
<1>4. LinkOK(nodes[p], p, lo, hi) /\ (hi[p] = -1 \/ lo[p] < hi[p])
  BY <1>1, <1>3 DEF Tree
<1>5. nodes[p].next \in Leaves \cup {NoPage}
  <2>1. PICK L : L = Leaves
    OBVIOUS
  <2>2. nodes[p] \in LeafIn(L)
    BY <2>1 DEF IInv, NodesOK
  <2> QED
    BY <2>1, <2>2 DEF LeafIn
<1>6. /\ nodes[p].next = NoPage => hi[p] = -1
      /\ nodes[p].next # NoPage => hi[p] # -1 /\ lo[nodes[p].next] = hi[p]
  BY <1>4 DEF LinkOK
<1> QED
  BY <1>1, <1>2, <1>4, <1>5, <1>6

\* A key belongs to one leaf.
LEMMA OneLeaf ==
  ASSUME IInv, NEW lo, NEW hi, NEW level, NEW up, Tree(nodes, Allocated, lo, hi, level, up),
         NEW key \in Nat, NEW p \in Leaves, NEW q \in Leaves,
         Within(key, lo[p], hi[p]), Within(key, lo[q], hi[q])
  PROVE  p = q
<1>1. LeafOf(key) = p
  BY LeafForKey
<1>2. LeafOf(key) = q
  BY LeafForKey
<1> QED
  BY <1>1, <1>2

\* And it belongs to some leaf.
LEMMA SomeLeaf ==
  ASSUME IInv, NEW lo, NEW hi, NEW level, NEW up, Tree(nodes, Allocated, lo, hi, level, up),
         NEW key \in Nat
  PROVE  \E p \in Leaves : Within(key, lo[p], hi[p])
<1> DEFINE T == {n \in Nat : \E p \in Allocated : Within(key, lo[p], hi[p]) /\ n = level[p]}
<1>1. \A p \in Allocated : level[p] \in Nat
  BY TreeTypes DEF Allocated
<1>2. NodesIn(nodes, Allocated)
  BY TreeIn
<1>3. Root \in Allocated /\ Within(key, lo[Root], hi[Root])
  BY <1>2 DEF Tree, NodesIn, Within
<1>4. T # {}
  BY <1>1, <1>3
<1>5. PICK n \in T : \A m \in T : n <= m
  <2>1. T \subseteq Nat
    OBVIOUS
  <2> HIDE DEF T
  <2> QED
    BY <1>4, <2>1, LeastNatural
<1>6. PICK p \in Allocated : Within(key, lo[p], hi[p]) /\ n = level[p]
  OBVIOUS
<1>7. ASSUME IsInner(nodes[p]) PROVE FALSE
  <2>1. PICK c : c = InnerLookup(nodes[p], key)
    OBVIOUS
  <2>2. c \in Allocated /\ level[p] = level[c] + 1 /\ Within(key, lo[c], hi[c])
    BY <1>2, <1>6, <1>7, <2>1, LookupChild
  <2>3. level[c] \in T /\ level[c] \in Nat
    BY <1>1, <2>2
  <2>4. n <= level[c]
    BY <1>5, <2>3
  <2> QED
    BY <1>6, <2>2, <2>3, <2>4
<1>8. p \in Leaves
  BY <1>7, TreeIn
<1> QED
  BY <1>6, <1>8

\* Leaves do not overlap: one that begins within another one is that one.
LEMMA LeavesApart ==
  ASSUME IInv, NEW lo, NEW hi, NEW level, NEW up, Tree(nodes, Allocated, lo, hi, level, up),
         NEW p \in Leaves, NEW q \in Leaves, lo[p] <= lo[q], hi[p] = -1 \/ lo[q] < hi[p]
  PROVE  p = q
<1>1. /\ lo[p] \in Nat \cup {-1} /\ hi[p] \in Nat \cup {-1}
      /\ lo[q] \in Nat \cup {-1} /\ hi[q] \in Nat \cup {-1}
      /\ hi[q] = -1 \/ lo[q] < hi[q]
  BY LeafAndNext
<1>2. PICK key \in Nat : key = lo[q] + 1
  BY <1>1
<1>3. Within(key, lo[p], hi[p]) /\ Within(key, lo[q], hi[q])
  BY <1>1, <1>2 DEF Within
<1> QED
  BY <1>3, OneLeaf

\* A key for which a look-up goes to a leaf is within its bounds.
LEMMA LeafHasKey ==
  ASSUME IInv, NEW lo, NEW hi, NEW level, NEW up, Tree(nodes, Allocated, lo, hi, level, up),
         NEW key \in Nat, NEW p \in Leaves, LeafOf(key) = p
  PROVE  Within(key, lo[p], hi[p])
<1>1. PICK q \in Leaves : Within(key, lo[q], hi[q])
  BY SomeLeaf
<1>2. LeafOf(key) = q
  BY <1>1, LeafForKey
<1> QED
  BY <1>1, <1>2

LeadsTo(p, key, lo, hi, level, up) ==
  /\ IInv /\ Tree(nodes, Allocated, lo, hi, level, up)
  /\ key \in Nat /\ p \in Leaves /\ Within(key, lo[p], hi[p])

LEMMA LeadsToNext ==
  (\A p, key, lo, hi, level, up : LeadsTo(p, key, lo, hi, level, up) => LeafOf(key) = p)'
<1>1. \A p, key, lo, hi, level, up : LeadsTo(p, key, lo, hi, level, up) => LeafOf(key) = p
  BY LeafForKey DEF LeadsTo
<1> QED
  BY <1>1, PTL

\* Look-ups still go to the leaves that threads other than t have fixed for reading.
WaysKept(t) ==
  \A u \in Threads \ {t} : \A p \in Leaves : u \in shared[p] =>
    \A key \in Nat : LeafOf(key) = p => LeafOf(key)' = p

\* The invariant holds after a step of thread t that changes nodes, and look-ups go where they did.
KeptBy(t) == KInv' /\ (IInv' => WaysKept(t))

LEMMA WaysStay ==
  ASSUME IInv, NEW lo, NEW hi, NEW level, NEW up, Tree(nodes, Allocated, lo, hi, level, up),
         IInv', NEW lo2, NEW hi2, NEW level2, NEW up2,
         Tree(nodes, Allocated, lo2, hi2, level2, up2)', Leaves \subseteq Leaves', NEW t \in Threads,
         \A u \in Threads \ {t} : \A p \in Leaves :
           u \in shared[p] => lo2[p] = lo[p] /\ hi2[p] = hi[p]
  PROVE  WaysKept(t)
<1>1. SUFFICES ASSUME NEW u \in Threads \ {t}, NEW p \in Leaves, u \in shared[p],
                      NEW key \in Nat, LeafOf(key) = p
               PROVE  LeafOf(key)' = p
  BY DEF WaysKept
<1>2. Within(key, lo[p], hi[p])
  BY <1>1, LeafHasKey
<1>3. Within(key, lo2[p], hi2[p])
  BY <1>1, <1>2
<1>4. LeadsTo(p, key, lo2, hi2, level2, up2)'
  BY <1>1, <1>3 DEF LeadsTo
<1> QED
  BY <1>4, LeadsToNext

---------------------------------------------------------------------------
(* Steps that change no node and fix no page exclusively *)

\* The keys and the pages are the same.
LEMMA KeysStay ==
  ASSUME nodes' = nodes
  PROVE  TreeKeys' = TreeKeys
BY DEF TreeKeys, LeafPages, Pages

LEMMA ReadTree ==
  ASSUME IInv, KInv, NEW lo, NEW hi, NEW level, NEW up,
         Tree(nodes, Allocated, lo, hi, level, up), \A u \in Threads : ThreadOK(u, lo, hi),
         NEW t \in Threads, UNCHANGED <<nodes, free, exclusive>>, status' # "failed",
         \A u \in Threads \ {t} : op'[u] = op[u] /\ pc'[u] = pc[u],
         DistinctOK', ThreadOK(t, lo, hi)',
         pc'[t] = "descend" =>
           \A u \in Threads \ {t} : pc[u] = "lockHalf" => op'[t].node # op[u].node
  PROVE  KInv'
<1>1. \A p \in Pages : exclusive'[p] # Nil => p \in Allocated
  BY DEF KInv, LockedOK
<1>2. \A u \in Threads \ {t} : pc[u] = "lockHalf" =>
        /\ exclusive'[op[u].node] = Nil
        /\ pc'[t] = "descend" => op'[t].node # op[u].node
  BY DEF ThreadOK, LockingOK
<1>3. UNCHANGED <<nodes, free>>
  OBVIOUS
<1> QED
  BY <1>1, <1>2, <1>3, QuietTree

\* The thread is not on its way down.
LEMMA ReadNowhere ==
  ASSUME IInv, KInv, NEW t \in Threads, UNCHANGED <<nodes, free, exclusive>>, status' # "failed",
         \A u \in Threads \ {t} : op'[u] = op[u] /\ pc'[u] = pc[u],
         DistinctOK', pc'[t] \in {"idle", "start", "lockRoot", "scan", "next", "done"},
         pc'[t] = "lockRoot" => op'[t].kind = "insert"
  PROVE  KInv'
<1>1. PICK lo, hi, level, up : /\ Tree(nodes, Allocated, lo, hi, level, up)
                               /\ \A u \in Threads : ThreadOK(u, lo, hi)
  BY DEF KInv, TreeOK
<1>2. ThreadOK(t, lo, hi)'
  BY DEF ThreadOK, DescentOK, LockingOK
<1>3. pc'[t] # "descend"
  OBVIOUS
<1> QED
  BY <1>1, <1>2, <1>3, ReadTree

LEMMA FinishedAs ==
  ASSUME IInv, NEW t \in Threads, NEW result, Finish(t, result)
  PROVE  /\ pc'[t] = "done" /\ op'[t].kind = op[t].kind /\ op'[t].key = op[t].key
         /\ \A u \in Threads \ {t} : op'[u] = op[u] /\ pc'[u] = pc[u]
         /\ \A u \in Threads : /\ op'[u].kind = op[u].kind /\ op'[u].key = op[u].key
                               /\ Inserting(u)' => Inserting(u) /\ u # t
<1>1. op \in [Threads -> Ops] /\ pc \in [Threads -> Labels]
  BY DEF IInv, TypeOK, OpsOK
<1>2. PICK old \in Ops : old = op[t]
  BY <1>1
<1>3. /\ pc' = [pc EXCEPT ![t] = "done"]
      /\ op' = [op EXCEPT ![t] = [old EXCEPT !.parent = NoPage, !.node = NoPage, !.index = 0,
                                             !.dirtyParent = FALSE, !.result = result]]
  BY <1>2 DEF Finish, Goto
<1>4. /\ pc'[t] = "done" /\ \A u \in Threads \ {t} : op'[u] = op[u] /\ pc'[u] = pc[u]
      /\ op'[t].kind = old.kind /\ op'[t].key = old.key
  BY <1>1, <1>3 DEF Ops
<1> QED
  BY <1>2, <1>4 DEF Inserting

\* A call that reads, or a scan, ends.
LEMMA ReadEnds ==
  ASSUME IInv, KInv, NEW t \in Threads, UNCHANGED <<status, nodes, free, exclusive>>,
         NEW result, Finish(t, result)
  PROVE  KInv'
<1>1. /\ pc'[t] = "done" /\ \A u \in Threads \ {t} : op'[u] = op[u] /\ pc'[u] = pc[u]
      /\ \A u \in Threads : /\ op'[u].kind = op[u].kind /\ op'[u].key = op[u].key
                            /\ Inserting(u)' => Inserting(u)
  BY FinishedAs
<1>2. TreeKeys' \subseteq TreeKeys
  BY KeysStay
<1>3. DistinctOK'
  BY <1>1, <1>2, DistinctKept DEF KInv
<1>4. status' # "failed"
  BY DEF KInv
<1> QED
  BY <1>1, <1>3, <1>4, ReadNowhere

LEMMA LookupKeeps ==
  ASSUME IInv, KInv, NEW t \in Threads, Lookup(t)
  PROVE  KInv'
<1>1. PICK result : Finish(t, result)
  BY DEF Lookup
<1>2. UNCHANGED <<status, nodes, free, exclusive>>
  BY DEF Lookup, Unshare
<1> QED
  BY <1>1, <1>2, ReadEnds

LEMMA EndScanKeeps ==
  ASSUME IInv, KInv, NEW t \in Threads, EndScan(t)
  PROVE  KInv'
<1>1. PICK result : Finish(t, result)
  BY DEF EndScan
<1>2. UNCHANGED <<status, nodes, free, exclusive>>
  BY DEF EndScan, Unshare
<1> QED
  BY <1>1, <1>2, ReadEnds

LEMMA DropScanKeeps ==
  ASSUME IInv, KInv, NEW t \in Threads, DropScan(t)
  PROVE  KInv'
<1>1. PICK result : Finish(t, result)
  BY DEF DropScan
<1>2. UNCHANGED <<status, nodes, free, exclusive>>
  BY DEF DropScan, Unshare
<1> QED
  BY <1>1, <1>2, ReadEnds

LEMMA ReturnKeeps ==
  ASSUME IInv, KInv, NEW t \in Threads, Return(t)
  PROVE  KInv'
<1>1. op \in [Threads -> Ops] /\ pc \in [Threads -> Labels]
  BY DEF IInv, TypeOK, OpsOK
<1>2. /\ pc' = [pc EXCEPT ![t] = "idle"] /\ op' = [op EXCEPT ![t] = NoOp]
      /\ UNCHANGED <<status, nodes, free, exclusive>>
  BY DEF Return, Goto, lockVars
<1>3. /\ pc'[t] = "idle" /\ \A u \in Threads \ {t} : op'[u] = op[u] /\ pc'[u] = pc[u]
      /\ op'[t].kind = "none"
  BY <1>1, <1>2 DEF NoOp
<1>4. TreeKeys' = TreeKeys
  BY <1>2, KeysStay
<1>5. DistinctOK'
  BY <1>3, <1>4 DEF KInv, DistinctOK, Inserting
<1>6. status' # "failed"
  BY <1>2 DEF KInv
<1> QED
  BY <1>2, <1>3, <1>5, <1>6, ReadNowhere

LEMMA BeginKeeps ==
  ASSUME IInv, KInv, NEW t \in Threads, NEW kind \in Kinds, NEW key \in Nat, Begin(t, kind, key)
  PROVE  KInv'
<1>1. op \in [Threads -> Ops] /\ pc \in [Threads -> Labels]
  BY DEF IInv, TypeOK, OpsOK
<1>2. /\ pc' = [pc EXCEPT ![t] = "start"]
      /\ op' = [op EXCEPT ![t] = [NoOp EXCEPT !.kind = kind, !.key = key]]
      /\ UNCHANGED <<status, nodes, free, exclusive>>
      /\ kind = "insert" => MayInsert(key)
  BY DEF Begin, lockVars
<1>3. /\ pc'[t] = "start" /\ \A u \in Threads \ {t} : op'[u] = op[u] /\ pc'[u] = pc[u]
      /\ op'[t].kind = kind /\ op'[t].key = key
  BY <1>1, <1>2 DEF NoOp
<1>4. TreeKeys' = TreeKeys
  BY <1>2, KeysStay
<1>5. DistinctOK'
  BY <1>2, <1>3, <1>4 DEF KInv, DistinctOK, Inserting, MayInsert
<1>6. status' # "failed"
  BY <1>2 DEF KInv
<1> QED
  BY <1>2, <1>3, <1>5, <1>6, ReadNowhere

LEMMA InsertFullKeeps ==
  ASSUME IInv, KInv, NEW t \in Threads, InsertFull(t)
  PROVE  KInv'
<1>1. op \in [Threads -> Ops] /\ pc \in [Threads -> Labels]
  BY DEF IInv, TypeOK, OpsOK
<1>2. PICK old \in Ops : old = op[t]
  BY <1>1
<1>3. /\ pc' = [pc EXCEPT ![t] = "lockRoot"] /\ op' = [op EXCEPT ![t] = [old EXCEPT !.node = NoPage]]
      /\ UNCHANGED <<status, nodes, free, exclusive>> /\ old.kind = "insert" /\ pc[t] = "descend"
  BY <1>1, <1>2 DEF InsertFull, Goto, Unshare, AtLeaf
<1>4. /\ pc'[t] = "lockRoot" /\ \A u \in Threads \ {t} : op'[u] = op[u] /\ pc'[u] = pc[u]
      /\ op'[t].kind = old.kind /\ op'[t].key = old.key
  BY <1>1, <1>3 DEF Ops
<1>5. \A u \in Threads : /\ op'[u].kind = op[u].kind /\ op'[u].key = op[u].key
                         /\ Inserting(u)' => Inserting(u)
  BY <1>2, <1>3, <1>4 DEF Inserting
<1>6. DistinctOK'
  BY <1>3, <1>5, DistinctKept, KeysStay DEF KInv
<1>7. status' # "failed"
  BY <1>3 DEF KInv
<1> QED
  BY <1>3, <1>4, <1>6, <1>7, ReadNowhere

\* A scan comes to an entry or goes on.
LEMMA ScanStays ==
  ASSUME IInv, KInv, NEW t \in Threads, pc[t] # "done", UNCHANGED <<status, nodes, free, exclusive>>,
         NEW o \in Ops, o.kind = op[t].kind, o.key = op[t].key, op' = [op EXCEPT ![t] = o],
         NEW label \in {"scan", "next"}, pc' = [pc EXCEPT ![t] = label]
  PROVE  KInv'
<1>1. op \in [Threads -> Ops] /\ pc \in [Threads -> Labels]
  BY DEF IInv, TypeOK, OpsOK
<1>2. /\ pc'[t] \in {"scan", "next"} /\ op'[t] = o
      /\ \A u \in Threads \ {t} : op'[u] = op[u] /\ pc'[u] = pc[u]
  BY <1>1
<1>3. \A u \in Threads : /\ op'[u].kind = op[u].kind /\ op'[u].key = op[u].key
                         /\ Inserting(u)' => Inserting(u)
  BY <1>2 DEF Inserting
<1>4. DistinctOK'
  BY <1>3, DistinctKept, KeysStay DEF KInv
<1>5. status' # "failed"
  BY DEF KInv
<1> QED
  BY <1>2, <1>4, <1>5, ReadNowhere

LEMMA AtEntryStays ==
  ASSUME IInv, KInv, NEW t \in Threads, pc[t] # "done", UNCHANGED <<status, nodes, free, exclusive>>,
         NEW page \in Leaves, NEW index \in Nat, index <= Size(nodes[page]), AtEntry(t, page, index)
  PROVE  KInv'
<1> DEFINE o == [op[t] EXCEPT !.node = page, !.index = index]
           label == IF index < Size(nodes[page]) THEN "scan" ELSE "next"
<1>1. op[t] \in Ops
  BY DEF IInv, OpsOK
<1>2. page \in Pages /\ index \in 0 .. 2 * LeafDegree
  <2>1. page \in Pages /\ nodes[page] \in LeafIn(Leaves)
    BY DEF IInv, NodesOK, Leaves, Allocated
  <2>2. Size(nodes[page]) \in Nat /\ Size(nodes[page]) < 2 * LeafDegree
    BY <2>1, LeafFields
  <2> QED
    BY <2>1, <2>2, Degrees
<1>3. o \in Ops /\ o.kind = op[t].kind /\ o.key = op[t].key
  BY <1>1, <1>2 DEF Ops
<1>4. op' = [op EXCEPT ![t] = o] /\ pc' = [pc EXCEPT ![t] = label]
  BY DEF AtEntry, Goto
<1>5. label \in {"scan", "next"}
  OBVIOUS
<1> HIDE DEF o, label
<1> QED
  BY <1>3, <1>4, <1>5, ScanStays

LEMMA BeginScanKeeps ==
  ASSUME IInv, KInv, NEW t \in Threads, BeginScan(t)
  PROVE  KInv'
<1>1. UNCHANGED <<status, nodes, free, exclusive>>
  BY DEF BeginScan, lockVars
<1>2. PICK kind : AtLeaf(t, kind)
  BY DEF BeginScan
<1>3. /\ pc[t] = "descend" /\ op[t] \in Ops /\ op[t].node \in Leaves
      /\ nodes[op[t].node] \in LeafIn(Leaves) /\ op[t].key \in Nat
  BY <1>2, AtLeafIsThere DEF Node, Ops
<1>4. LowerBound(nodes[op[t].node].keys, op[t].key) \in 0 .. Size(nodes[op[t].node])
      /\ Size(nodes[op[t].node]) \in Nat
  BY <1>3, LeafFields, LowerBoundType
<1>5. \/ AtEntry(t, op[t].node, LowerBound(nodes[op[t].node].keys, op[t].key))
      \/ AtEntry(t, op[t].node, 0)
  BY DEF BeginScan, Node
<1>6. PICK index \in Nat : index <= Size(nodes[op[t].node]) /\ AtEntry(t, op[t].node, index)
  BY <1>4, <1>5
<1> QED
  BY <1>1, <1>3, <1>6, AtEntryStays

LEMMA NextLeafKeeps ==
  ASSUME IInv, KInv, NEW t \in Threads, NextLeaf(t)
  PROVE  KInv'
<1>1. /\ UNCHANGED <<status, nodes, free, exclusive>> /\ pc[t] = "next"
      /\ nodes[op[t].node].next # NoPage /\ AtEntry(t, nodes[op[t].node].next, 0)
  BY DEF NextLeaf, Step, Node
<1>2. nodes[op[t].node] \in LeafIn(Leaves)
  BY <1>1, ScanIsThere DEF Node
<1>3. nodes[op[t].node].next \in Leaves
  BY <1>1, <1>2, LeafFields
<1>4. nodes[nodes[op[t].node].next] \in LeafIn(Leaves)
  BY <1>3 DEF IInv, NodesOK
<1>5. Size(nodes[nodes[op[t].node].next]) \in Nat
  BY <1>4, LeafFields
<1> QED
  BY <1>1, <1>3, <1>5, AtEntryStays

LEMMA ScanNextKeeps ==
  ASSUME IInv, KInv, NEW t \in Threads, ScanNext(t)
  PROVE  KInv'
<1>1. op \in [Threads -> Ops] /\ pc \in [Threads -> Labels]
  BY DEF IInv, TypeOK, OpsOK
<1>2. PICK old \in Ops : old = op[t]
  BY <1>1
<1>3. PICK entry, label :
        /\ pc[t] = "scan" /\ label \in {"scan", "next"} /\ pc' = [pc EXCEPT ![t] = label]
        /\ op' = [op EXCEPT ![t] = [old EXCEPT !.index = old.index + 1, !.count = old.count + 1,
                                               !.last = entry]]
        /\ UNCHANGED <<status, nodes, free, exclusive>>
  BY <1>2 DEF ScanNext, Goto, lockVars
<1>4. /\ pc'[t] \in {"scan", "next"} /\ op'[t].kind = old.kind /\ op'[t].key = old.key
      /\ \A u \in Threads \ {t} : op'[u] = op[u] /\ pc'[u] = pc[u]
  BY <1>1, <1>3 DEF Ops
<1>5. \A u \in Threads : /\ op'[u].kind = op[u].kind /\ op'[u].key = op[u].key
                         /\ Inserting(u)' => Inserting(u)
  BY <1>2, <1>3, <1>4 DEF Inserting
<1>6. DistinctOK'
  BY <1>3, <1>5, DistinctKept, KeysStay DEF KInv
<1>7. status' # "failed"
  BY <1>3 DEF KInv
<1> QED
  BY <1>3, <1>4, <1>6, <1>7, ReadNowhere

\* Nothing changes but the status.
LEMMA StatusKeeps ==
  ASSUME IInv, KInv, status' # "failed", UNCHANGED <<nodes, free, exclusive, pc, op>>
  PROVE  KInv'
<1>1. TreeKeys' = TreeKeys
  BY KeysStay
<1>2. DistinctOK'
  BY <1>1 DEF KInv, DistinctOK, Inserting
<1>3. Allocated' = Allocated
  BY DEF Allocated, Pages
<1>4. LockedOK'
  BY <1>3 DEF KInv, LockedOK, Pages
<1>5. PICK lo, hi, level, up : /\ Tree(nodes, Allocated, lo, hi, level, up)
                               /\ \A u \in Threads : ThreadOK(u, lo, hi)
  BY DEF KInv, TreeOK
<1>6. Tree(nodes, Allocated, lo, hi, level, up)'
  BY <1>3, <1>5
<1>7. \A u \in Threads : ThreadOK(u, lo, hi)'
  BY <1>5 DEF ThreadOK, DescentOK, LockingOK
<1>8. TreeOK'
  BY <1>6, <1>7 DEF TreeOK
<1> QED
  BY <1>2, <1>4, <1>8 DEF KInv

LEMMA RaceKeeps ==
  ASSUME IInv, KInv, NEW t \in Threads, Race(t)
  PROVE  KInv'
<1>1. status' # "failed" /\ UNCHANGED <<nodes, free, exclusive, pc, op>>
  BY DEF Race, lockVars
<1> QED
  BY <1>1, StatusKeeps

---------------------------------------------------------------------------
(* lookupPage goes down to the page for the key *)

\* A page that a thread has to come back to is not reached from above: the thread has the
\* page above fixed exclusively.
LEMMA HalfIsApart ==
  ASSUME IInv, NEW lo, NEW hi, NEW level, NEW up, Tree(nodes, Allocated, lo, hi, level, up),
         NEW u \in Threads, ThreadOK(u, lo, hi), pc[u] \in {"lockChild", "lockHalf"},
         NEW p \in Allocated, p = Root \/ (shared[up[p]] # {} \/ exclusive[up[p]] # u)
  PROVE  p # op[u].node
BY LockedWay

LEMMA FixRootKeeps ==
  ASSUME IInv, KInv, NEW t \in Threads, FixRoot(t)
  PROVE  KInv'
<1>1. op \in [Threads -> Ops] /\ pc \in [Threads -> Labels]
  BY DEF IInv, TypeOK, OpsOK
<1>2. PICK old \in Ops : old = op[t]
  BY <1>1
<1>3. /\ pc[t] = "start" /\ pc' = [pc EXCEPT ![t] = "descend"]
      /\ op' = [op EXCEPT ![t] = [old EXCEPT !.node = Root]]
      /\ UNCHANGED <<status, nodes, free, exclusive>>
  BY <1>1, <1>2 DEF FixRoot, Goto
<1>4. /\ pc'[t] = "descend" /\ \A u \in Threads \ {t} : op'[u] = op[u] /\ pc'[u] = pc[u]
      /\ op'[t].kind = old.kind /\ op'[t].key = old.key /\ op'[t].node = Root /\ old.key \in Nat
  BY <1>1, <1>3 DEF Ops
<1>5. \A u \in Threads : /\ op'[u].kind = op[u].kind /\ op'[u].key = op[u].key
                         /\ Inserting(u)' => Inserting(u)
  BY <1>2, <1>3, <1>4 DEF Inserting
<1>6. DistinctOK' /\ status' # "failed"
  BY <1>3, <1>5, DistinctKept, KeysStay DEF KInv
<1>7. PICK lo, hi, level, up : /\ Tree(nodes, Allocated, lo, hi, level, up)
                               /\ \A u \in Threads : ThreadOK(u, lo, hi)
  BY DEF KInv, TreeOK
<1>8. lo[Root] = -1 /\ hi[Root] = -1
  BY <1>7 DEF Tree
<1>9. ThreadOK(t, lo, hi)'
  <2>1. Within(old.key, -1, -1)
    BY <1>4 DEF Within
  <2> QED
    BY <1>4, <1>8, <2>1 DEF ThreadOK, DescentOK, LockingOK
<1>10. \A u \in Threads \ {t} : pc[u] = "lockHalf" => op'[t].node # op[u].node
  <2>1. Root \in Allocated
    BY TreeIn DEF NodesIn
  <2> QED
    BY <1>4, <1>7, <2>1, HalfIsApart
<1> QED
  BY <1>3, <1>4, <1>6, <1>7, <1>9, <1>10, ReadTree

LEMMA DescendKeeps ==
  ASSUME IInv, KInv, NEW t \in Threads, Descend(t)
  PROVE  KInv'
<1>1. op \in [Threads -> Ops] /\ pc \in [Threads -> Labels]
  BY DEF IInv, TypeOK, OpsOK
<1>2. PICK old \in Ops : old = op[t]
  BY <1>1
<1>3. PICK child : child = IF old.kind = "size" THEN Leftmost(nodes[old.node])
                                                ELSE InnerLookup(nodes[old.node], old.key)
  OBVIOUS
<1>4. /\ pc[t] = "descend" /\ pc' = pc /\ op' = [op EXCEPT ![t] = [old EXCEPT !.node = child]]
      /\ ~nodes[old.node].leaf /\ UNCHANGED <<status, nodes, free, exclusive>>
  BY <1>1, <1>2, <1>3 DEF Descend, Step, Node
<1>5. old.node \in Allocated /\ t \in shared[old.node] /\ old.key \in Nat
  BY <1>2, <1>4 DEF IInv, PlacesOK, PlaceOK, Ops
<1>6. PICK lo, hi, level, up : /\ Tree(nodes, Allocated, lo, hi, level, up)
                               /\ \A u \in Threads : ThreadOK(u, lo, hi)
  BY DEF KInv, TreeOK
<1>7. IF old.kind = "size" THEN lo[old.node] = -1 ELSE Within(old.key, lo[old.node], hi[old.node])
  BY <1>2, <1>4, <1>6 DEF ThreadOK, DescentOK
<1>8. NodesIn(nodes, Allocated) /\ IsInner(nodes[old.node])
  BY <1>4, <1>5, TreeIn
<1>9. /\ child \in Allocated /\ up[child] = old.node
      /\ IF old.kind = "size" THEN lo[child] = -1 ELSE Within(old.key, lo[child], hi[child])
  <2>1. CASE old.kind = "size"
    <3>1. child \in Allocated /\ up[child] = old.node /\ lo[child] = lo[old.node]
      BY <1>3, <1>5, <1>6, <1>8, <2>1, LeftmostChild
    <3> QED
      BY <1>7, <2>1, <3>1
  <2>2. CASE old.kind # "size"
    <3>1. /\ child \in Allocated /\ up[child] = old.node
          /\ Within(old.key, lo[child], hi[child])
      BY <1>3, <1>5, <1>6, <1>7, <1>8, <2>2, LookupChild
    <3> QED
      BY <2>2, <3>1
  <2> QED
    BY <2>1, <2>2
<1>10. /\ pc'[t] = "descend" /\ \A u \in Threads \ {t} : op'[u] = op[u] /\ pc'[u] = pc[u]
       /\ op'[t].kind = old.kind /\ op'[t].key = old.key /\ op'[t].node = child
  BY <1>1, <1>4 DEF Ops
<1>11. \A u \in Threads : /\ op'[u].kind = op[u].kind /\ op'[u].key = op[u].key
                          /\ Inserting(u)' => Inserting(u)
  BY <1>2, <1>4, <1>10 DEF Inserting
<1>12. DistinctOK' /\ status' # "failed"
  BY <1>4, <1>11, DistinctKept, KeysStay DEF KInv
<1>13. ThreadOK(t, lo, hi)'
  BY <1>9, <1>10 DEF ThreadOK, DescentOK, LockingOK
<1>14. \A u \in Threads \ {t} : pc[u] = "lockHalf" => op'[t].node # op[u].node
  BY <1>5, <1>6, <1>9, <1>10, HalfIsApart
<1> QED
  BY <1>4, <1>6, <1>10, <1>12, <1>13, <1>14, ReadTree

---------------------------------------------------------------------------
(* Exclusive locks, without a split *)

LEMMA LockChildKeeps ==
  ASSUME IInv, KInv, NEW t \in Threads, LockChild(t)
  PROVE  KInv'
<1>1. /\ op \in [Threads -> Ops] /\ pc \in [Threads -> Labels]
      /\ exclusive \in [Pages -> Threads \cup {Nil}]
  BY DEF IInv, TypeOK, OpsOK
<1>2. PICK old \in Ops : old = op[t]
  BY <1>1
<1>3. PICK page : page = old.node
  OBVIOUS
<1>4. /\ pc[t] = "lockHalf" \/ (pc[t] = "lockChild" /\ HasFreeSpace(nodes[page]))
      /\ exclusive' = [exclusive EXCEPT ![old.parent] = Nil, ![page] = t]
      /\ UNCHANGED <<status, nodes, free>>
  BY <1>2, <1>3 DEF LockChild
<1>5. PICK lo, hi, level, up : /\ Tree(nodes, Allocated, lo, hi, level, up)
                               /\ \A u \in Threads : ThreadOK(u, lo, hi)
  BY DEF KInv, TreeOK
<1>6. /\ page \in Allocated /\ page # Root /\ old.key \in Nat /\ up[page] = old.parent
      /\ Within(old.key, lo[page], hi[page])
  BY <1>2, <1>3, <1>4, <1>5, LockedWay
<1>7. HasFreeSpace(nodes[page])
  BY <1>2, <1>3, <1>4, <1>5 DEF ThreadOK, LockingOK
<1>8. PICK o \in {op'[t]} :
        /\ o.kind = old.kind /\ o.key = old.key
        /\ op' = [op EXCEPT ![t] = o]
        /\ IF nodes[page].leaf THEN /\ pc' = [pc EXCEPT ![t] = "place"] /\ o.node = page
                               ELSE /\ pc' = [pc EXCEPT ![t] = "lockChild"] /\ o.parent = page
                                    /\ o.node = InnerLookup(nodes[page], old.key)
  <2>1. CASE nodes[page].leaf
    <3>1. /\ op' = [op EXCEPT ![t] = [old EXCEPT !.parent = NoPage, !.dirtyParent = FALSE]]
          /\ pc' = [pc EXCEPT ![t] = "place"]
      BY <1>1, <1>2, <1>3, <2>1 DEF LockChild, Goto
    <3> QED
      BY <1>1, <1>3, <2>1, <3>1 DEF Ops
  <2>2. CASE ~nodes[page].leaf
    <3>1. /\ op' = [op EXCEPT ![t] = [old EXCEPT !.parent = page, !.dirtyParent = FALSE,
                                                 !.node = InnerLookup(nodes[page], old.key)]]
          /\ pc' = [pc EXCEPT ![t] = "lockChild"]
      BY <1>1, <1>2, <1>3, <2>2 DEF LockChild, Goto
    <3> QED
      BY <1>1, <1>3, <2>2, <3>1 DEF Ops
  <2> QED
    BY <2>1, <2>2
<1>9. \A u \in Threads \ {t} : op'[u] = op[u] /\ pc'[u] = pc[u]
  BY <1>1, <1>8
<1>10. /\ op'[t] = o /\ pc'[t] \in {"place", "lockChild"}
       /\ IF nodes[page].leaf THEN pc'[t] = "place" ELSE pc'[t] = "lockChild"
  BY <1>1, <1>8
<1>11. \A u \in Threads : /\ op'[u].kind = op[u].kind /\ op'[u].key = op[u].key
                          /\ Inserting(u)' => Inserting(u)
  BY <1>2, <1>4, <1>8, <1>9, <1>10 DEF Inserting
<1>12. DistinctOK' /\ status' # "failed"
  BY <1>4, <1>11, DistinctKept, KeysStay DEF KInv
<1>13. old.kind = "insert"
  BY <1>2, <1>4, <1>5 DEF ThreadOK, DescentOK
<1>14. ThreadOK(t, lo, hi)'
  BY <1>4, <1>6, <1>7, <1>8, <1>10, <1>13 DEF ThreadOK, DescentOK, LockingOK
<1>15. \A p \in Pages : p # page => exclusive'[p] = Nil \/ exclusive'[p] = exclusive[p]
  BY <1>1, <1>4
<1>16. \A p \in Pages : exclusive'[p] # Nil => p \in Allocated
  BY <1>6, <1>15 DEF KInv, LockedOK
<1>17. ASSUME NEW u \in Threads \ {t}, pc[u] = "lockHalf"
       PROVE  exclusive'[op[u].node] = Nil
  <2>1. op[u].node \in Allocated /\ op[u].node \in Pages
    BY <1>17, LockIsThere
  <2>2. op[u].node # page
    BY <1>2, <1>3, <1>4, <1>5, <1>17, WaysApart
  <2>3. exclusive[op[u].node] = Nil
    BY <1>5, <1>17 DEF ThreadOK, LockingOK
  <2> QED
    BY <1>15, <2>1, <2>2, <2>3
<1>18. pc'[t] # "descend" /\ UNCHANGED <<nodes, free>>
  BY <1>4, <1>10
<1> QED
  BY <1>5, <1>9, <1>12, <1>14, <1>16, <1>17, <1>18, QuietTree

\* The root after it has been split if it is full.
NewRoot == IF HasFreeSpace(nodes[Root]) THEN nodes[Root]
           ELSE SplitRoot(nodes[Root], NewPage, NewPage + 1)

\* The root is fixed exclusively, and what follows from it.
LEMMA RootLocked ==
  ASSUME IInv, KInv, NEW t \in Threads, LockRoot(t)
  PROVE  /\ pc[t] = "lockRoot" /\ op[t] \in Ops /\ op[t].key \in Nat /\ op[t].kind = "insert"
         /\ exclusive[Root] = Nil /\ shared[Root] = {}
         /\ \A p \in Pages : p # Root => exclusive'[p] = exclusive[p]
         /\ UNCHANGED <<status, shared>> /\ pc'[t] = "lockChild"
         /\ \A u \in Threads \ {t} : op'[u] = op[u] /\ pc'[u] = pc[u]
         /\ op'[t].kind = "insert" /\ op'[t].key = op[t].key /\ op'[t].parent = Root
         /\ op'[t].node = InnerLookup(NewRoot, op[t].key)
         /\ \A u \in Threads : /\ op'[u].kind = op[u].kind /\ op'[u].key = op[u].key
                               /\ Inserting(u)' => Inserting(u)
         /\ \A p \in Pages : exclusive'[p] # Nil => p \in Allocated
<1> DEFINE full == ~HasFreeSpace(nodes[Root])
           root == IF full THEN SplitRoot(nodes[Root], NewPage, NewPage + 1) ELSE nodes[Root]
<1>1. /\ op \in [Threads -> Ops] /\ pc \in [Threads -> Labels]
      /\ exclusive \in [Pages -> Threads \cup {Nil}]
  BY DEF IInv, TypeOK, OpsOK
<1>2. PICK old \in Ops : old = op[t]
  BY <1>1
<1>3. PICK child : child = InnerLookup(NewRoot, old.key) /\ child = InnerLookup(root, old.key)
  BY DEF NewRoot
<1>4. PICK dirty : dirty = full
  OBVIOUS
<1>5. /\ pc[t] = "lockRoot" /\ pc' = [pc EXCEPT ![t] = "lockChild"] /\ MayLock(Root)
      /\ exclusive' = [exclusive EXCEPT ![Root] = t] /\ UNCHANGED <<status, shared>>
  BY DEF LockRoot, Goto
<1>6. op' = [op EXCEPT ![t] = [old EXCEPT !.parent = Root, !.dirtyParent = dirty, !.node = child]]
  BY <1>2, <1>3, <1>4 DEF LockRoot
<1> HIDE DEF full, root
<1>7. exclusive[Root] = Nil /\ shared[Root] = {}
  BY <1>5 DEF MayLock
<1>8. old.kind = "insert"
  BY <1>2, <1>5 DEF KInv, TreeOK, ThreadOK, DescentOK
<1>9. /\ pc'[t] = "lockChild" /\ \A u \in Threads \ {t} : op'[u] = op[u] /\ pc'[u] = pc[u]
      /\ op'[t].kind = old.kind /\ op'[t].key = old.key /\ op'[t].parent = Root
      /\ op'[t].node = child /\ old.key \in Nat
  BY <1>1, <1>5, <1>6 DEF Ops
<1>10. \A u \in Threads : /\ op'[u].kind = op[u].kind /\ op'[u].key = op[u].key
                          /\ Inserting(u)' => Inserting(u)
  BY <1>2, <1>5, <1>9 DEF Inserting
<1>11. \A p \in Pages : p # Root => exclusive'[p] = exclusive[p]
  BY <1>1, <1>5
<1>12. \A p \in Pages : exclusive'[p] # Nil => p \in Allocated
  <2>1. Root \in Allocated
    BY TreeIn DEF NodesIn
  <2> QED
    BY <1>11, <2>1 DEF KInv, LockedOK
<1> QED
  BY <1>2, <1>3, <1>5, <1>7, <1>8, <1>9, <1>10, <1>11, <1>12

LEMMA LockRootKeeps ==
  ASSUME IInv, KInv, NEW t \in Threads, LockRoot(t), HasFreeSpace(nodes[Root])
  PROVE  KInv'
<1>1. UNCHANGED <<nodes, free>>
  BY DEF LockRoot
<1>2. op'[t].node = InnerLookup(nodes[Root], op[t].key)
  BY RootLocked DEF NewRoot
<1>3. PICK lo, hi, level, up : /\ Tree(nodes, Allocated, lo, hi, level, up)
                               /\ \A u \in Threads : ThreadOK(u, lo, hi)
  BY DEF KInv, TreeOK
<1>4. lo[Root] = -1 /\ hi[Root] = -1
  BY <1>3 DEF Tree
<1>5. ThreadOK(t, lo, hi)'
  <2>1. /\ pc'[t] = "lockChild" /\ op'[t].kind = "insert" /\ op'[t].key = op[t].key
        /\ op'[t].parent = Root /\ op[t].key \in Nat
    BY RootLocked
  <2>2. Within(op[t].key, -1, -1)
    BY <2>1 DEF Within
  <2> QED
    BY <1>1, <1>2, <1>4, <2>1, <2>2 DEF ThreadOK, DescentOK, LockingOK
<1>6. DistinctOK' /\ status' # "failed"
  <2>1. \A u \in Threads : /\ op'[u].kind = op[u].kind /\ op'[u].key = op[u].key
                           /\ Inserting(u)' => Inserting(u)
    BY RootLocked
  <2>2. TreeKeys' \subseteq TreeKeys
    BY <1>1, KeysStay
  <2>3. status' = status
    BY RootLocked
  <2> QED
    BY <2>1, <2>2, <2>3, DistinctKept DEF KInv
<1>7. ASSUME NEW u \in Threads \ {t}, pc[u] = "lockHalf"
      PROVE  exclusive'[op[u].node] = Nil
  <2>1. u \in Threads /\ ThreadOK(u, lo, hi) /\ pc[u] \in {"lockChild", "lockHalf"}
    BY <1>3, <1>7
  <2>2. Tree(nodes, Allocated, lo, hi, level, up)
    BY <1>3
  <2>3. op[u].node \in Allocated /\ op[u].node # Root
    BY <2>1, <2>2, LockedWay
  <2>4. op[u].node \in Pages
    BY <2>3 DEF Allocated
  <2>5. exclusive[op[u].node] = Nil
    BY <1>7, <2>1 DEF ThreadOK, LockingOK
  <2> QED
    BY <2>3, <2>4, <2>5, RootLocked
<1>8. /\ pc'[t] # "descend" /\ \A u \in Threads \ {t} : op'[u] = op[u] /\ pc'[u] = pc[u]
      /\ \A p \in Pages : exclusive'[p] # Nil => p \in Allocated
  BY RootLocked
<1> QED
  BY <1>1, <1>3, <1>5, <1>6, <1>7, <1>8, QuietTree

---------------------------------------------------------------------------
(* Changes of a leaf *)

\* A tree stays one when a leaf's keys stay in its bounds.
LEMMA LeafTree ==
  ASSUME NEW ns, NEW A, NodesIn(ns, A),
         NEW lo, NEW hi, NEW level, NEW up, Tree(ns, A, lo, hi, level, up),
         NEW page \in A, IsLeaf(ns[page]), NEW ns2, IsLeaf(ns2[page]),
         ns2[page].next = ns[page].next, KeysOK(ns2[page], lo[page], hi[page]),
         \A p \in A \ {page} : ns2[p] = ns[p]
  PROVE  Tree(ns2, A, lo, hi, level, up)
<1>1. \A p \in A : KeysOK(ns2[p], lo[p], hi[p])
  BY DEF Tree
<1>2. ~IsInner(ns[page]) /\ ~IsInner(ns2[page])
  BY DEF IsInner, IsLeaf
<1>3. \A p \in A : IsInner(ns2[p]) => ChildrenOK(ns2[p], p, lo, hi, level, up)
  BY <1>2 DEF Tree
<1>4. \A p \in A : IsLeaf(ns2[p]) => level[p] = 0 /\ LinkOK(ns2[p], p, lo, hi)
  <2>1. SUFFICES ASSUME NEW p \in A, IsLeaf(ns2[p])
                 PROVE  level[p] = 0 /\ LinkOK(ns2[p], p, lo, hi)
    OBVIOUS
  <2>2. level[p] = 0 /\ LinkOK(ns[p], p, lo, hi)
    BY <2>1 DEF Tree
  <2>3. ns2[p].next = ns[p].next
    OBVIOUS
  <2> QED
    BY <2>2, <2>3 DEF LinkOK
<1>5. ASSUME NEW p \in A \ {Root}
      PROVE  up[p] \in A /\ IsInner(ns2[up[p]]) /\ HasChild(ns2[up[p]], p)
  <2>1. up[p] \in A /\ IsInner(ns[up[p]]) /\ HasChild(ns[up[p]], p)
    BY DEF Tree
  <2> QED
    BY <1>2, <2>1
<1> QED
  BY <1>1, <1>3, <1>4, <1>5 DEF Tree

\* A key that is not in the leaf, within its bounds, goes to its place.
LEMMA LeafGrows ==
  ASSUME NEW A, NEW n \in LeafIn(A), NEW low \in Nat \cup {-1}, NEW high \in Nat \cup {-1},
         KeysOK(n, low, high), NEW key \in Nat, Within(key, low, high),
         \A i \in 1 .. Len(n.keys) : n.keys[i] # key, NEW value,
         NEW new, new = LeafInsert(n, key, value)
  PROVE  /\ IsLeaf(new) /\ new.next = n.next /\ KeysOK(new, low, high)
         /\ \A i \in 1 .. Len(new.keys) :
              new.keys[i] = key \/ \E j \in 1 .. Len(n.keys) : new.keys[i] = n.keys[j]
<1>1. PICK keys \in Seq(Nat) : keys = n.keys
  BY LeafFields
<1>2. PICK m \in Nat : m = Len(keys)
  OBVIOUS
<1>3. PICK k \in 0 .. m : k = LowerBound(keys, key)
  BY <1>2, LowerBoundType
<1>4. /\ SortedKeys(keys) /\ \A i \in 1 .. m : keys[i] \in Nat
      /\ \A i \in 1 .. m : Within(keys[i], low, high)
  BY <1>1, <1>2 DEF KeysOK
<1>5. \A i \in 1 .. m : keys[i] < key <=> i <= k
  BY <1>2, <1>3, <1>4, LowerBoundSeparates
<1>6. PICK l \in 1 .. Len(keys) + 1 : l = k + 1
  BY <1>2, <1>3
<1>7. IsLeaf(new) /\ new.next = n.next /\ new.keys = InsertAt(keys, l, key)
  BY <1>1, <1>3, <1>6, LeafParts DEF LeafInsert
<1>8. Len(new.keys) = m + 1
  <2>1. Len(InsertAt(keys, l, key)) = Len(keys) + 1
    BY InsertAtType
  <2> QED
    BY <1>2, <1>7, <2>1
<1>9. \A j \in 1 .. m + 1 : new.keys[j] = IF j < k + 1 THEN keys[j]
                                          ELSE IF j = k + 1 THEN key ELSE keys[j - 1]
  <2>1. \A j \in 1 .. Len(keys) + 1 :
          InsertAt(keys, l, key)[j] = IF j < l THEN keys[j] ELSE IF j = l THEN key ELSE keys[j - 1]
    BY InsertAtValue
  <2> QED
    BY <1>2, <1>6, <1>7, <2>1
<1>10. \A i, j \in 1 .. m : i < j => keys[i] < keys[j]
  BY <1>2, <1>4 DEF SortedKeys
<1>11. \A i \in 1 .. m : i > k => key < keys[i]
  BY <1>1, <1>2, <1>4, <1>5
<1>12. ASSUME NEW i \in 1 .. m + 1, NEW j \in 1 .. m + 1, i < j
       PROVE  new.keys[i] < new.keys[j]
  <2>1. CASE j < k + 1
    BY <1>9, <1>10, <1>12, <2>1
  <2>2. CASE j = k + 1
    <3>1. i \in 1 .. m /\ i <= k /\ i < k + 1
      BY <1>12, <2>2
    <3>2. new.keys[i] = keys[i] /\ keys[i] < key
      BY <1>5, <1>9, <3>1
    <3>3. new.keys[j] = key
      BY <1>9, <2>2
    <3> QED
      BY <3>2, <3>3
  <2>3. CASE j > k + 1 /\ i < k + 1
    <3>1. /\ new.keys[i] = keys[i] /\ new.keys[j] = keys[j - 1]
          /\ i \in 1 .. m /\ j - 1 \in 1 .. m /\ i < j - 1
      BY <1>9, <2>3
    <3> QED
      BY <1>10, <3>1
  <2>4. CASE j > k + 1 /\ i = k + 1
    <3>1. new.keys[i] = key /\ new.keys[j] = keys[j - 1] /\ j - 1 \in 1 .. m /\ j - 1 > k
      BY <1>9, <2>4
    <3> QED
      BY <1>11, <3>1
  <2>5. CASE i > k + 1
    <3>1. /\ new.keys[i] = keys[i - 1] /\ new.keys[j] = keys[j - 1]
          /\ i - 1 \in 1 .. m /\ j - 1 \in 1 .. m /\ i - 1 < j - 1
      BY <1>9, <1>12, <2>5
    <3> QED
      BY <1>10, <3>1
  <2> QED
    BY <1>3, <1>12, <2>1, <2>2, <2>3, <2>4, <2>5
<1>13. ASSUME NEW i \in 1 .. m + 1
       PROVE  new.keys[i] = key \/ \E j \in 1 .. m : new.keys[i] = keys[j]
  <2>1. CASE i < k + 1
    BY <1>3, <1>9, <2>1
  <2>2. CASE i = k + 1
    BY <1>9, <2>2
  <2>3. CASE i > k + 1
    <3>1. new.keys[i] = keys[i - 1] /\ i - 1 \in 1 .. m
      BY <1>3, <1>9, <2>3
    <3> QED
      BY <3>1
  <2> QED
    BY <1>3, <2>1, <2>2, <2>3
<1>14. \A i \in 1 .. m + 1 : Within(new.keys[i], low, high)
  BY <1>4, <1>13
<1>15. KeysOK(new, low, high)
  BY <1>8, <1>12, <1>14 DEF KeysOK, SortedKeys
<1> QED
  BY <1>1, <1>2, <1>7, <1>8, <1>13, <1>15

\* Without one of its keys a leaf stays in its bounds.
LEMMA LeafShrinks ==
  ASSUME NEW A, NEW n \in LeafIn(A), NEW low \in Nat \cup {-1}, NEW high \in Nat \cup {-1},
         KeysOK(n, low, high), NEW key \in Nat, NEW new, new = LeafErase(n, key)
  PROVE  /\ IsLeaf(new) /\ new.next = n.next /\ KeysOK(new, low, high)
         /\ \A i \in 1 .. Len(new.keys) : \E j \in 1 .. Len(n.keys) : new.keys[i] = n.keys[j]
<1>1. PICK keys \in Seq(Nat) : keys = n.keys
  BY LeafFields
<1>2. PICK m \in Nat : m = Len(keys)
  OBVIOUS
<1>3. /\ \A i, j \in 1 .. m : i < j => keys[i] < keys[j]
      /\ \A i \in 1 .. m : Within(keys[i], low, high)
  BY <1>1, <1>2 DEF KeysOK, SortedKeys
<1>4. CASE IsAt(n, LowerBound(n.keys, key), key)
  <2>1. PICK k \in 1 .. m : k = LowerBound(n.keys, key) + 1
    BY <1>1, <1>2, <1>4, IsAtIndex
  <2>2. IsLeaf(new) /\ new.next = n.next /\ new.keys = RemoveAt(keys, k)
    BY <1>1, <1>4, <2>1, LeafParts DEF LeafErase
  <2>3. k \in 1 .. Len(keys)
    BY <1>2
  <2>4. Len(new.keys) = m - 1
    BY <1>2, <2>2, <2>3, RemoveAtType
  <2>5. \A j \in 1 .. m - 1 : new.keys[j] = IF j < k THEN keys[j] ELSE keys[j + 1]
    BY <1>2, <2>2, <2>3, RemoveAtValue
  <2>6. \A i \in 1 .. m - 1 : \E j \in 1 .. m : new.keys[i] = keys[j]
    <3>1. SUFFICES ASSUME NEW i \in 1 .. m - 1 PROVE \E j \in 1 .. m : new.keys[i] = keys[j]
      OBVIOUS
    <3>2. i \in 1 .. m /\ i + 1 \in 1 .. m
      OBVIOUS
    <3> QED
      BY <2>5, <3>2
  <2>7. ASSUME NEW i \in 1 .. m - 1, NEW j \in 1 .. m - 1, i < j
        PROVE  new.keys[i] < new.keys[j]
    <3>1. /\ i \in 1 .. m /\ i + 1 \in 1 .. m /\ j \in 1 .. m /\ j + 1 \in 1 .. m
          /\ i + 1 < j + 1 /\ i < j + 1
      BY <2>7
    <3> QED
      BY <1>3, <2>5, <2>7, <3>1
  <2>8. KeysOK(new, low, high)
    <3>1. \A i \in 1 .. m - 1 : Within(new.keys[i], low, high)
      BY <1>3, <2>6
    <3> QED
      BY <2>4, <2>7, <3>1 DEF KeysOK, SortedKeys
  <2> QED
    BY <1>1, <1>2, <2>2, <2>4, <2>6, <2>8
<1>5. CASE ~IsAt(n, LowerBound(n.keys, key), key)
  <2>1. new = n /\ IsLeaf(n)
    BY <1>5, LeafFields DEF LeafErase, IsLeaf
  <2> QED
    BY <2>1
<1> QED
  BY <1>4, <1>5

\* The keys of a node are those of another one and some in K.
KeysFrom(new, n, K) ==
  \A i \in 1 .. Len(new.keys) :
    new.keys[i] \in K \/ \E j \in 1 .. Len(n.keys) : new.keys[i] = n.keys[j]

\* No other keys than those in K come into the tree.
AddsOnly(K) == TreeKeys' \subseteq TreeKeys \cup K

\* The keys of the tree after one leaf has changed.
LEMMA LeafKeys ==
  ASSUME IInv, NEW page \in Leaves, NEW new \in LeafIn(Leaves),
         nodes' = [nodes EXCEPT ![page] = new], NEW K, KeysFrom(new, nodes[page], K)
  PROVE  AddsOnly(K)
<1>1. nodes \in [Pages -> InnerNodes \cup LeafNodes \cup {Nil}] /\ page \in LeafPages
  BY TreeIn DEF IInv, TypeOK
<1>2. new.keys \in Seq(Nat) /\ nodes[page].keys \in Seq(Nat)
  BY LeafFields DEF IInv, NodesOK
<1>3. ASSUME NEW x \in Range(new.keys)
      PROVE  x \in K \/ x \in Range(nodes[page].keys)
  <2>0. PICK keys \in Seq(Nat) : keys = new.keys
    BY <1>2
  <2>1. PICK i \in 1 .. Len(new.keys) : x = new.keys[i]
    <3>1. x \in Range(keys)
      BY <1>3, <2>0
    <3>2. PICK i \in 1 .. Len(keys) : x = keys[i]
      BY <3>1 DEF Range
    <3> QED
      BY <2>0, <3>2
  <2>2. CASE x \in K
    BY <2>2
  <2>3. CASE x \notin K
    <3>1. PICK j \in 1 .. Len(nodes[page].keys) : x = nodes[page].keys[j]
      BY <2>1, <2>3 DEF KeysFrom
    <3> QED
      BY <1>2, <3>1 DEF Range
  <2> QED
    BY <2>2, <2>3
<1>4. SUFFICES ASSUME NEW p \in LeafPages', NEW x \in Range(nodes'[p].keys)
               PROVE  x \in TreeKeys \cup K
  BY DEF TreeKeys, AddsOnly
<1>5. CASE p = page
  BY <1>1, <1>3, <1>4, <1>5 DEF TreeKeys, LeafPages, Pages
<1>6. CASE p # page
  <2>1. p \in Pages /\ nodes'[p] = nodes[p]
    BY <1>1, <1>6 DEF LeafPages, Pages
  <2>2. p \in LeafPages
    BY <2>1 DEF LeafPages, Pages
  <2> QED
    BY <1>4, <2>1, <2>2 DEF TreeKeys
<1> QED
  BY <1>5, <1>6

\* A step in which thread t changes a leaf that no other thread has to come back to.
LEMMA LeafStep ==
  ASSUME IInv, KInv, NEW lo, NEW hi, NEW level, NEW up,
         Tree(nodes, Allocated, lo, hi, level, up), \A u \in Threads : ThreadOK(u, lo, hi),
         NEW t \in Threads, UNCHANGED <<status, free>>, NEW page \in Leaves,
         NEW new \in LeafIn(Leaves), nodes' = [nodes EXCEPT ![page] = new],
         new.next = nodes[page].next, KeysOK(new, lo[page], hi[page]),
         pc'[t] = "done", \A u \in Threads \ {t} : op'[u] = op[u] /\ pc'[u] = pc[u],
         \A p \in Pages : exclusive'[p] = exclusive[p] \/ exclusive'[p] = Nil,
         \A u \in Threads \ {t} : exclusive[page] # u,
         \A u \in Threads \ {t} : pc[u] = "lockHalf" => op[u].node # page,
         DistinctOK'
  PROVE  KeptBy(t)
<1>1. Allocated' = Allocated
  BY DEF Allocated, Pages
<1>2. /\ \A p \in Pages : p # page => nodes'[p] = nodes[p]
      /\ nodes'[page] = new /\ Allocated \subseteq Pages /\ page \in Allocated
  BY DEF IInv, TypeOK, Allocated, Leaves
<1>3. LockedOK'
  BY <1>1 DEF KInv, LockedOK, Pages
<1>4. ASSUME NEW u \in Threads \ {t}
      PROVE  ThreadOK(u, lo, hi)'
  <2>1. u \in Threads /\ ThreadOK(u, lo, hi) /\ op'[u] = op[u] /\ pc'[u] = pc[u]
    OBVIOUS
  <2>2. \A p \in Allocated : exclusive[p] = u => nodes'[p] = nodes[p]
    BY <1>2
  <2>3. pc[u] = "lockHalf" =>
          /\ HasFreeSpace(nodes'[op[u].node]) /\ exclusive'[op[u].node] = Nil
          /\ \A v \in Threads : pc'[v] = "descend" => op'[v].node # op[u].node
    <3>1. SUFFICES ASSUME pc[u] = "lockHalf"
                   PROVE  /\ HasFreeSpace(nodes'[op[u].node]) /\ exclusive'[op[u].node] = Nil
                          /\ \A v \in Threads : pc'[v] = "descend" => op'[v].node # op[u].node
      OBVIOUS
    <3>2. op[u].node \in Pages /\ op[u].node # page
      BY <3>1, LockIsThere
    <3>3. /\ HasFreeSpace(nodes[op[u].node]) /\ exclusive[op[u].node] = Nil
          /\ \A v \in Threads : pc[v] = "descend" => op[v].node # op[u].node
      BY <2>1, <3>1 DEF ThreadOK, LockingOK
    <3> QED
      BY <1>2, <3>2, <3>3
  <2> QED
    BY <2>1, <2>2, <2>3, ThreadKept
<1>5. ThreadOK(t, lo, hi)'
  BY DEF ThreadOK, DescentOK, LockingOK
<1>6. Tree(nodes, Allocated, lo, hi, level, up)'
  <2>1. NodesIn(nodes, Allocated) /\ IsLeaf(nodes[page]) /\ IsLeaf(new)
    BY <1>2, TreeIn, LeafFields DEF IsLeaf
  <2>2. \A p \in Allocated \ {page} : nodes'[p] = nodes[p]
    BY <1>2
  <2>3. PICK ns2 \in {nodes'} : TRUE
    OBVIOUS
  <2>4. /\ IsLeaf(ns2[page]) /\ ns2[page].next = nodes[page].next
        /\ KeysOK(ns2[page], lo[page], hi[page])
        /\ \A p \in Allocated \ {page} : ns2[p] = nodes[p]
    BY <1>2, <2>1, <2>2, <2>3
  <2>5. Tree(ns2, Allocated, lo, hi, level, up)
    BY <1>2, <2>1, <2>4, LeafTree
  <2> QED
    BY <1>1, <2>3, <2>5
<1>7. TreeOK'
  BY <1>4, <1>5, <1>6 DEF TreeOK
<1>8. KInv'
  BY <1>3, <1>7 DEF KInv
<1>9. ASSUME IInv'
      PROVE  WaysKept(t)
  <2>1. Leaves \subseteq Leaves'
    <3>1. new.leaf = TRUE
      BY LeafFields
    <3> QED
      BY <1>1, <1>2, <3>1 DEF Leaves
  <2> QED
    BY <1>6, <1>9, <2>1, WaysStay
<1> QED
  BY <1>8, <1>9 DEF KeptBy

\* The leaf that lookupPage has come to is the one for the key, and no thread changes it or
\* has to come back to it.
LEMMA AtLeafOf ==
  ASSUME IInv, NEW lo, NEW hi, NEW level, NEW up, Tree(nodes, Allocated, lo, hi, level, up),
         \A u \in Threads : ThreadOK(u, lo, hi),
         NEW t \in Threads, NEW kind \in {"erase", "insert"}, AtLeaf(t, kind)
  PROVE  /\ pc[t] = "descend" /\ op[t].kind = kind /\ op[t].key \in Nat
         /\ op[t].node \in Leaves /\ op[t].node \in Allocated /\ op[t].node \in Pages
         /\ nodes[op[t].node] \in LeafIn(Leaves)
         /\ Within(op[t].key, lo[op[t].node], hi[op[t].node])
         /\ KeysOK(nodes[op[t].node], lo[op[t].node], hi[op[t].node])
         /\ lo[op[t].node] \in Nat \cup {-1} /\ hi[op[t].node] \in Nat \cup {-1}
         /\ \A u \in Threads : exclusive[op[t].node] # u
         /\ \A u \in Threads : pc[u] = "lockHalf" => op[u].node # op[t].node
<1>1. /\ pc[t] = "descend" /\ op[t].kind = kind /\ op[t] \in Ops
      /\ op[t].node \in Leaves /\ op[t].node \in Pages /\ t \in shared[op[t].node]
      /\ nodes[op[t].node] \in LeafIn(Leaves)
  BY AtLeafIsThere DEF Node
<1>2. op[t].key \in Nat /\ op[t].node \in Allocated
  BY <1>1 DEF Ops, Leaves
<1>3. Within(op[t].key, lo[op[t].node], hi[op[t].node])
  BY <1>1 DEF ThreadOK, DescentOK
<1>4. KeysOK(nodes[op[t].node], lo[op[t].node], hi[op[t].node])
  BY <1>2 DEF Tree
<1>5. lo[op[t].node] \in Nat \cup {-1} /\ hi[op[t].node] \in Nat \cup {-1}
  BY <1>1, TreeTypes
<1>6. \A u \in Threads : exclusive[op[t].node] # u
  <2>1. exclusive[op[t].node] = Nil
    BY <1>1 DEF IInv, LocksExclude
  <2> QED
    BY <2>1, NilAssumption
<1>7. \A u \in Threads : pc[u] = "lockHalf" => op[u].node # op[t].node
  BY <1>1 DEF ThreadOK, LockingOK
<1> QED
  BY <1>1, <1>2, <1>3, <1>4, <1>5, <1>6, <1>7

\* A key that is inserted is not in its leaf before.
LEMMA KeyIsNew ==
  ASSUME IInv, KInv, NEW t \in Threads, op[t].kind = "insert", pc[t] # "done", NEW page \in Leaves
  PROVE  \A i \in 1 .. Len(nodes[page].keys) : nodes[page].keys[i] # op[t].key
<1>1. op[t].key \notin TreeKeys
  BY DEF KInv, DistinctOK, Inserting
<1> QED
  BY <1>1, KeysOfTree

\* The key of the insertion that has been finished is the only one that has been added.
LEMMA InsertedOnce ==
  ASSUME KInv, NEW t \in Threads, op[t].kind = "insert",
         TreeKeys' \subseteq TreeKeys \cup {op[t].key},
         \A u \in Threads : /\ op'[u].kind = op[u].kind /\ op'[u].key = op[u].key
                            /\ Inserting(u)' => Inserting(u) /\ u # t
  PROVE  DistinctOK'
<1>1. DistinctOK
  BY DEF KInv
<1>2. \A u, v \in Threads : op'[u].kind = "insert" /\ op'[v].kind = "insert" /\ u # v =>
        op'[u].key # op'[v].key
  BY <1>1 DEF DistinctOK
<1>3. ASSUME NEW u \in Threads, Inserting(u)'
      PROVE  op'[u].key \notin TreeKeys'
  <2>1. Inserting(u) /\ u # t /\ op'[u].key = op[u].key
    BY <1>3
  <2>2. op[u].key \notin TreeKeys /\ op[u].key # op[t].key
    BY <1>1, <2>1 DEF DistinctOK, Inserting
  <2> QED
    BY <2>1, <2>2
<1> QED
  BY <1>2, <1>3 DEF DistinctOK

LEMMA EraseKeeps ==
  ASSUME IInv, KInv, NEW t \in Threads, Erase(t)
  PROVE  KeptBy(t)
<1>1. PICK lo, hi, level, up : /\ Tree(nodes, Allocated, lo, hi, level, up)
                               /\ \A u \in Threads : ThreadOK(u, lo, hi)
  BY DEF KInv, TreeOK
<1>2. PICK page : page = op[t].node
  OBVIOUS
<1>3. PICK new, result : /\ AtLeaf(t, "erase") /\ new = LeafErase(nodes[page], op[t].key)
                         /\ nodes' = [nodes EXCEPT ![page] = new] /\ Finish(t, result)
                         /\ UNCHANGED <<status, free, exclusive>>
  BY <1>2 DEF Erase, Unshare, Node
<1>4. /\ op[t].key \in Nat /\ page \in Leaves /\ nodes[page] \in LeafIn(Leaves)
      /\ KeysOK(nodes[page], lo[page], hi[page])
      /\ lo[page] \in Nat \cup {-1} /\ hi[page] \in Nat \cup {-1}
      /\ \A u \in Threads : exclusive[page] # u
      /\ \A u \in Threads : pc[u] = "lockHalf" => op[u].node # page
  BY <1>1, <1>2, <1>3, AtLeafOf
<1>5. PICK n \in LeafIn(Leaves) : n = nodes[page]
  BY <1>4
<1>6. /\ new \in LeafIn(Leaves) /\ new.next = n.next /\ KeysOK(new, lo[page], hi[page])
      /\ \A i \in 1 .. Len(new.keys) : \E j \in 1 .. Len(n.keys) : new.keys[i] = n.keys[j]
  <2>1. PICK key \in Nat : key = op[t].key
    BY <1>4
  <2>2. new = LeafErase(n, key)
    BY <1>3, <1>5, <2>1
  <2>3. new \in LeafIn(Leaves)
    BY <2>2, LeafEraseType
  <2>4. PICK low \in Nat \cup {-1} : low = lo[page]
    BY <1>4
  <2>5. PICK high \in Nat \cup {-1} : high = hi[page]
    BY <1>4
  <2>6. KeysOK(n, low, high)
    BY <1>4, <1>5, <2>4, <2>5
  <2>7. /\ new.next = n.next /\ KeysOK(new, low, high)
        /\ \A i \in 1 .. Len(new.keys) : \E j \in 1 .. Len(n.keys) : new.keys[i] = n.keys[j]
    BY <2>2, <2>6, LeafShrinks
  <2> QED
    BY <2>3, <2>4, <2>5, <2>7
<1>7. TreeKeys' \subseteq TreeKeys
  <2>1. PICK K : K = {}
    OBVIOUS
  <2>2. KeysFrom(new, nodes[page], K)
    BY <1>5, <1>6 DEF KeysFrom
  <2>3. AddsOnly(K)
    BY <1>3, <1>4, <1>6, <2>2, LeafKeys
  <2> QED
    BY <2>1, <2>3 DEF AddsOnly
<1>8. /\ pc'[t] = "done" /\ \A u \in Threads \ {t} : op'[u] = op[u] /\ pc'[u] = pc[u]
      /\ \A u \in Threads : /\ op'[u].kind = op[u].kind /\ op'[u].key = op[u].key
                            /\ Inserting(u)' => Inserting(u)
  BY <1>3, FinishedAs
<1>9. DistinctOK'
  BY <1>7, <1>8, DistinctKept DEF KInv
<1>10. \A p \in Pages : exclusive'[p] = exclusive[p] \/ exclusive'[p] = Nil
  BY <1>3
<1>11. /\ Tree(nodes, Allocated, lo, hi, level, up) /\ \A u \in Threads : ThreadOK(u, lo, hi)
       /\ UNCHANGED <<status, free>> /\ nodes' = [nodes EXCEPT ![page] = new]
       /\ \A u \in Threads \ {t} : exclusive[page] # u
       /\ \A u \in Threads \ {t} : pc[u] = "lockHalf" => op[u].node # page
  BY <1>1, <1>3, <1>4
<1>12. new.next = nodes[page].next /\ KeysOK(new, lo[page], hi[page])
  BY <1>5, <1>6
<1>13. pc'[t] = "done" /\ \A u \in Threads \ {t} : op'[u] = op[u] /\ pc'[u] = pc[u]
  BY <1>8
<1> QED
  BY <1>4, <1>6, <1>9, <1>10, <1>11, <1>12, <1>13, LeafStep

\* An insertion into a leaf that has room, whichever way the thread has it fixed.
LEMMA InsertionKeeps ==
  ASSUME IInv, KInv, NEW lo, NEW hi, NEW level, NEW up,
         Tree(nodes, Allocated, lo, hi, level, up), \A u \in Threads : ThreadOK(u, lo, hi),
         NEW t \in Threads, op[t].kind = "insert", pc[t] # "done", op[t].key \in Nat,
         NEW page \in Leaves, HasFreeSpace(nodes[page]), Within(op[t].key, lo[page], hi[page]),
         \A u \in Threads \ {t} : exclusive[page] # u,
         \A u \in Threads \ {t} : pc[u] = "lockHalf" => op[u].node # page,
         nodes' = [nodes EXCEPT ![page] = LeafInsert(@, op[t].key, Value(t, op[t].key))],
         NEW result, Finish(t, result), UNCHANGED <<status, free>>,
         \A p \in Pages : exclusive'[p] = exclusive[p] \/ exclusive'[p] = Nil
  PROVE  KeptBy(t)
<1>1. PICK n \in LeafIn(Leaves) : n = nodes[page]
  BY DEF IInv, NodesOK
<1>2. PICK new : new = LeafInsert(n, op[t].key, Value(t, op[t].key))
  OBVIOUS
<1>3. page \in Allocated /\ page \in Pages
  BY DEF Leaves, Allocated
<1>4. nodes' = [nodes EXCEPT ![page] = new]
  BY <1>1, <1>2
<1>5. lo[page] \in Nat \cup {-1} /\ hi[page] \in Nat \cup {-1} /\ KeysOK(n, lo[page], hi[page])
  BY <1>1, <1>3, TreeTypes DEF Tree
<1>6. \A i \in 1 .. Len(n.keys) : n.keys[i] # op[t].key
  BY <1>1, KeyIsNew
<1>7. /\ new.next = n.next /\ KeysOK(new, lo[page], hi[page])
      /\ \A i \in 1 .. Len(new.keys) :
           new.keys[i] = op[t].key \/ \E j \in 1 .. Len(n.keys) : new.keys[i] = n.keys[j]
  BY <1>2, <1>5, <1>6, LeafGrows
<1>8. new \in LeafIn(Leaves)
  BY <1>1, <1>2, LeafInsertType, ValueIsValue
<1>9. TreeKeys' \subseteq TreeKeys \cup {op[t].key}
  <2>1. PICK K : K = {op[t].key}
    OBVIOUS
  <2>2. KeysFrom(new, nodes[page], K)
    BY <1>1, <1>7, <2>1 DEF KeysFrom
  <2>3. AddsOnly(K)
    BY <1>4, <1>8, <2>2, LeafKeys
  <2> QED
    BY <2>1, <2>3 DEF AddsOnly
<1>10. /\ pc'[t] = "done" /\ \A u \in Threads \ {t} : op'[u] = op[u] /\ pc'[u] = pc[u]
       /\ \A u \in Threads : /\ op'[u].kind = op[u].kind /\ op'[u].key = op[u].key
                             /\ Inserting(u)' => Inserting(u) /\ u # t
  BY FinishedAs
<1>11. DistinctOK'
  BY <1>9, <1>10, InsertedOnce
<1> QED
  BY <1>1, <1>4, <1>7, <1>8, <1>10, <1>11, LeafStep

LEMMA InsertHereKeeps ==
  ASSUME IInv, KInv, NEW t \in Threads, InsertHere(t)
  PROVE  KeptBy(t)
<1>1. PICK lo, hi, level, up : /\ Tree(nodes, Allocated, lo, hi, level, up)
                               /\ \A u \in Threads : ThreadOK(u, lo, hi)
  BY DEF KInv, TreeOK
<1>2. /\ AtLeaf(t, "insert") /\ HasFreeSpace(nodes[op[t].node]) /\ Finish(t, Nil)
      /\ nodes' = [nodes EXCEPT ![op[t].node] = LeafInsert(@, op[t].key, Value(t, op[t].key))]
      /\ UNCHANGED <<status, free, exclusive>>
  BY DEF InsertHere, Unshare, Node
<1>3. /\ pc[t] = "descend" /\ op[t].kind = "insert" /\ op[t].key \in Nat /\ op[t].node \in Leaves
      /\ Within(op[t].key, lo[op[t].node], hi[op[t].node])
      /\ \A u \in Threads : exclusive[op[t].node] # u
      /\ \A u \in Threads : pc[u] = "lockHalf" => op[u].node # op[t].node
  BY <1>1, <1>2, AtLeafOf
<1> QED
  BY <1>1, <1>2, <1>3, InsertionKeeps

LEMMA InsertExclusiveKeeps ==
  ASSUME IInv, KInv, NEW t \in Threads, InsertExclusive(t)
  PROVE  KeptBy(t)
<1>1. PICK lo, hi, level, up : /\ Tree(nodes, Allocated, lo, hi, level, up)
                               /\ \A u \in Threads : ThreadOK(u, lo, hi)
  BY DEF KInv, TreeOK
<1>2. PICK page : page = op[t].node
  OBVIOUS
<1>3. pc[t] = "place"
  BY DEF InsertExclusive
<1>4. /\ op[t].kind = "insert" /\ HasFreeSpace(nodes[page])
      /\ Within(op[t].key, lo[page], hi[page])
  BY <1>1, <1>2, <1>3 DEF ThreadOK, DescentOK, LockingOK
<1>5. page \in Leaves /\ exclusive[page] = t /\ op[t].key \in Nat /\ page \in Pages
  BY <1>2, <1>3 DEF IInv, PlacesOK, PlaceOK, OpsOK, Ops, Leaves, Allocated
<1>6. /\ nodes' = [nodes EXCEPT ![page] = LeafInsert(@, op[t].key, Value(t, op[t].key))]
      /\ exclusive' = [exclusive EXCEPT ![page] = Nil] /\ Finish(t, Nil)
      /\ UNCHANGED <<status, free>>
  BY <1>2, <1>4 DEF InsertExclusive
<1>7. \A p \in Pages : exclusive'[p] = exclusive[p] \/ exclusive'[p] = Nil
  BY <1>5, <1>6 DEF IInv, TypeOK
<1>8. \A u \in Threads : pc[u] = "lockHalf" => op[u].node # page
  <2>1. exclusive[page] # Nil
    BY <1>5, NilAssumption
  <2> QED
    BY <1>1, <2>1 DEF ThreadOK, LockingOK
<1> QED
  BY <1>1, <1>3, <1>4, <1>5, <1>6, <1>7, <1>8, InsertionKeeps

---------------------------------------------------------------------------
(* Splits *)

\* What the invariant says, after a step.
LEMMA NodesNext ==
  (IInv => /\ NodesIn(nodes, Allocated) /\ LeafPages = Leaves
           /\ \A p \in Allocated : IsLeaf(nodes[p]) <=> p \in Leaves)'
<1>1. IInv => /\ NodesIn(nodes, Allocated) /\ LeafPages = Leaves
              /\ \A p \in Allocated : IsLeaf(nodes[p]) <=> p \in Leaves
  BY TreeIn
<1> QED
  BY <1>1, PTL

\* A split brings no key into the tree: those of its leaves were in leaves before.
LEMMA KeysSpread ==
  ASSUME IInv, IInv',
         \A p \in Leaves' : \E q \in Leaves : KeysFrom(nodes'[p], nodes[q], {})
  PROVE  TreeKeys' \subseteq TreeKeys
<1>1. LeafPages' = Leaves' /\ Leaves' \subseteq Allocated'
  BY NodesNext DEF Leaves
<1>2. SUFFICES ASSUME NEW p \in Leaves', NEW x \in Range(nodes'[p].keys) PROVE x \in TreeKeys
  BY <1>1 DEF TreeKeys
<1>3. PICK q \in Leaves : KeysFrom(nodes'[p], nodes[q], {})
  OBVIOUS
<1>4. PICK keys \in Seq(Nat) : keys = nodes'[p].keys
  <2>1. NodesIn(nodes, Allocated)' /\ p \in Allocated'
    BY <1>1, NodesNext
  <2>2. PICK ns2 \in {nodes'} : TRUE
    OBVIOUS
  <2>3. PICK A \in {Allocated'} : TRUE
    OBVIOUS
  <2>4. NodesIn(ns2, A) /\ p \in A
    BY <2>1, <2>2, <2>3
  <2>5. ns2[p].keys \in Seq(Nat)
    BY <2>4, NodeFields
  <2> QED
    BY <2>2, <2>5
<1>5. PICK i \in 1 .. Len(keys) : x = keys[i]
  <2>1. x \in Range(keys)
    BY <1>2, <1>4
  <2> QED
    BY <2>1 DEF Range
<1>6. \E j \in 1 .. Len(nodes[q].keys) : x = nodes[q].keys[j]
  BY <1>3, <1>4, <1>5 DEF KeysFrom
<1> QED
  BY <1>6, KeysOfTree

\* A step in which thread t splits a node, and the tree that follows.
LEMMA SplitStep ==
  ASSUME IInv, KInv, NEW lo, NEW hi, \A u \in Threads : ThreadOK(u, lo, hi),
         NEW t \in Threads, status' = status, pc'[t] # "descend",
         \A u \in Threads \ {t} : op'[u] = op[u] /\ pc'[u] = pc[u],
         NEW lo2, NEW hi2, NEW level2, NEW up2,
         Tree(nodes', Allocated', lo2, hi2, level2, up2),
         \A u \in Threads \ {t} : \A p \in Allocated :
           /\ u \in shared[p] \/ exclusive[p] = u => lo2[p] = lo[p] /\ hi2[p] = hi[p]
           /\ exclusive[p] = u => nodes'[p] = nodes[p],
         \A u \in Threads \ {t} : pc[u] = "lockHalf" =>
           nodes'[op[u].node] = nodes[op[u].node] /\ exclusive'[op[u].node] = Nil,
         ThreadOK(t, lo2, hi2)', DistinctOK', LockedOK',
         NEW level, NEW up, Tree(nodes, Allocated, lo, hi, level, up), Leaves \subseteq Leaves'
  PROVE  KeptBy(t)
<1>1. ASSUME NEW u \in Threads \ {t}
      PROVE  ThreadOK(u, lo2, hi2)'
  <2>1. u \in Threads /\ ThreadOK(u, lo, hi) /\ op'[u] = op[u] /\ pc'[u] = pc[u]
    OBVIOUS
  <2>2. \A p \in Allocated :
          /\ u \in shared[p] \/ exclusive[p] = u => lo2[p] = lo[p] /\ hi2[p] = hi[p]
          /\ exclusive[p] = u => nodes'[p] = nodes[p]
    OBVIOUS
  <2>3. pc[u] = "lockHalf" =>
          /\ HasFreeSpace(nodes'[op[u].node]) /\ exclusive'[op[u].node] = Nil
          /\ \A v \in Threads : pc'[v] = "descend" => op'[v].node # op[u].node
    <3>1. SUFFICES ASSUME pc[u] = "lockHalf"
                   PROVE  /\ HasFreeSpace(nodes'[op[u].node]) /\ exclusive'[op[u].node] = Nil
                          /\ \A v \in Threads : pc'[v] = "descend" => op'[v].node # op[u].node
      OBVIOUS
    <3>2. /\ HasFreeSpace(nodes[op[u].node])
          /\ \A v \in Threads : pc[v] = "descend" => op[v].node # op[u].node
      BY <2>1, <3>1 DEF ThreadOK, LockingOK
    <3> QED
      BY <3>1, <3>2
  <2> QED
    BY <2>1, <2>2, <2>3, ThreadKept
<1>2. Tree(nodes, Allocated, lo2, hi2, level2, up2)'
  OBVIOUS
<1>3. \A u \in Threads : ThreadOK(u, lo2, hi2)'
  BY <1>1
<1>4. TreeOK'
  BY <1>2, <1>3 DEF TreeOK
<1>5. KInv'
  BY <1>4 DEF KInv
<1>6. ASSUME IInv'
      PROVE  WaysKept(t)
  <2>1. \A u \in Threads \ {t} : \A p \in Leaves :
          u \in shared[p] => lo2[p] = lo[p] /\ hi2[p] = hi[p]
    BY DEF Leaves
  <2> QED
    BY <1>2, <1>6, <2>1, WaysStay
<1> QED
  BY <1>5, <1>6 DEF KeptBy

\* The new root has one key.
LEMMA RootHasSpace ==
  ASSUME NEW n, NEW left, NEW right
  PROVE  IsInner(SplitRoot(n, left, right)) /\ HasFreeSpace(SplitRoot(n, left, right))
<1>1. PICK root : root = SplitRoot(n, left, right)
  OBVIOUS
<1>2. PICK s : s = InnerSplit(n).splitter
  OBVIOUS
<1>3. root.leaf = FALSE /\ root.keys = <<s>>
  BY <1>1, <1>2 DEF SplitRoot, InnerNode
<1>4. Len(<<s>>) = 1
  OBVIOUS
<1> QED
  BY <1>1, <1>3, <1>4, Degrees DEF HasFreeSpace, Size, IsInner

LEMMA SplitRootKeeps ==
  ASSUME IInv, KInv, NEW t \in Threads, LockRoot(t), ~HasFreeSpace(nodes[Root])
  PROVE  KeptBy(t)
<1>1. PICK lo, hi, level, up : /\ Tree(nodes, Allocated, lo, hi, level, up)
                               /\ \A u \in Threads : ThreadOK(u, lo, hi)
  BY DEF KInv, TreeOK
<1>2. /\ HasPages(2) /\ free' = free + 2
      /\ nodes' = [nodes EXCEPT ![Root] = SplitRoot(nodes[Root], free, free + 1),
                                ![free] = InnerSplit(nodes[Root]).old,
                                ![free + 1] = InnerSplit(nodes[Root]).new]
  BY DEF LockRoot, NewPage
<1>3. IInv'
  BY LockRootStep
<1>4. PICK f : f = free
  OBVIOUS
<1>5. PICK g : g = free + 1
  OBVIOUS
<1>6. PICK A \in {Allocated} : TRUE
  OBVIOUS
<1>7. /\ Allocated' = A \cup {f} \cup {g} /\ f \in Pages /\ g \in Pages /\ f \notin A /\ g \notin A
      /\ f # g /\ A \subseteq Pages /\ Root \in A /\ f # Root /\ g # Root
  <2>1. free \in Nat
    BY DEF IInv, TypeOK
  <2>2. /\ Allocated' = Allocated \cup (free .. free + 2 - 1)
        /\ free .. free + 2 - 1 \subseteq Pages \ Allocated
        /\ Allocated \subseteq Pages /\ Root \in Allocated
    BY <1>2, PagesGrow DEF InnerPages
  <2>3. free .. free + 2 - 1 = {free} \cup {free + 1} /\ free # free + 1
    BY <2>1
  <2> QED
    BY <1>4, <1>5, <1>6, <2>2, <2>3
<1>8. PICK ns2 \in {nodes'} : TRUE
  OBVIOUS
<1>9. /\ ns2[Root] = SplitRoot(nodes[Root], f, g)
      /\ ns2[f] = InnerSplit(nodes[Root]).old /\ ns2[g] = InnerSplit(nodes[Root]).new
      /\ \A p \in A \ {Root} : ns2[p] = nodes[p]
  <2>1. nodes \in [Pages -> InnerNodes \cup LeafNodes \cup {Nil}]
    BY DEF IInv, TypeOK
  <2> QED
    BY <1>2, <1>4, <1>5, <1>6, <1>7, <1>8, <2>1
<1>10. NodesIn(nodes, A)
  BY <1>6, TreeIn
<1>11. NodesIn(ns2, A \cup {f} \cup {g})
  <2>1. NodesIn(nodes', Allocated')
    BY <1>3, NodesNext
  <2> QED
    BY <1>7, <1>8, <2>1
<1>12. PICK ns \in {nodes} : TRUE
  OBVIOUS
<1>13. PICK lo2, hi2, level2, up2 : /\ Tree(ns2, A \cup {f} \cup {g}, lo2, hi2, level2, up2)
                                    /\ \A p \in A : lo2[p] = lo[p] /\ hi2[p] = hi[p]
  <2>1. /\ NodesIn(ns, A) /\ Tree(ns, A, lo, hi, level, up) /\ ~HasFreeSpace(ns[Root])
        /\ ns2[Root] = SplitRoot(ns[Root], f, g)
        /\ ns2[f] = InnerSplit(ns[Root]).old /\ ns2[g] = InnerSplit(ns[Root]).new
        /\ \A p \in A \ {Root} : ns2[p] = ns[p]
    BY <1>1, <1>6, <1>9, <1>10, <1>12
  <2> QED
    BY <1>7, <1>11, <2>1, SplitRootTree
<1>14. /\ pc'[t] = "lockChild" /\ status' = status /\ op'[t].kind = "insert"
       /\ op'[t].key = op[t].key /\ op'[t].parent = Root
       /\ op'[t].node = InnerLookup(ns2[Root], op[t].key) /\ op[t].key \in Nat
       /\ exclusive[Root] = Nil /\ shared[Root] = {}
       /\ \A u \in Threads \ {t} : op'[u] = op[u] /\ pc'[u] = pc[u]
       /\ \A p \in Pages : p # Root => exclusive'[p] = exclusive[p]
       /\ \A p \in Pages : exclusive'[p] # Nil => p \in A
  BY <1>4, <1>5, <1>6, <1>9, RootLocked DEF NewRoot, NewPage
<1>15. ThreadOK(t, lo2, hi2)'
  <2>1. HasFreeSpace(nodes'[Root])
    BY <1>8, <1>9, RootHasSpace
  <2>2. lo2[Root] = -1 /\ hi2[Root] = -1 /\ Within(op[t].key, -1, -1)
    BY <1>13, <1>14 DEF Tree, Within
  <2> QED
    BY <1>8, <1>14, <2>1, <2>2 DEF ThreadOK, DescentOK, LockingOK
<1>16. DistinctOK'
  <2>1. \A u \in Threads : /\ op'[u].kind = op[u].kind /\ op'[u].key = op[u].key
                           /\ Inserting(u)' => Inserting(u)
    BY RootLocked
  <2>2. ASSUME NEW p \in Leaves'
        PROVE  p \in Leaves /\ nodes'[p] = nodes[p]
    <3>1. p \in A \cup {f} \cup {g} /\ IsLeaf(ns2[p])
      BY <1>3, <1>7, <1>8, NodesNext DEF Leaves
    <3>2. ~IsLeaf(ns2[Root]) /\ ~IsLeaf(ns2[f]) /\ ~IsLeaf(ns2[g])
      <4>1. IsInner(ns2[Root])
        BY <1>11 DEF NodesIn
      <4>2. IsInner(InnerSplit(nodes[Root]).old) /\ IsInner(InnerSplit(nodes[Root]).new)
        BY DEF IsInner, InnerSplit, InnerNode
      <4> QED
        BY <1>9, <4>1, <4>2 DEF IsInner, IsLeaf
    <3>3. p \in A /\ nodes'[p] = nodes[p]
      BY <1>8, <1>9, <3>1, <3>2
    <3>4. IsLeaf(nodes[p])
      BY <1>8, <3>1, <3>3
    <3> QED
      BY <1>6, <3>3, <3>4, TreeIn
  <2>3. \A p \in Leaves' : \E q \in Leaves : KeysFrom(nodes'[p], nodes[q], {})
    BY <2>2 DEF KeysFrom
  <2>4. TreeKeys' \subseteq TreeKeys
    BY <1>3, <2>3, KeysSpread
  <2> QED
    BY <2>1, <2>4, DistinctKept DEF KInv
<1>17. LockedOK'
  <2>1. \A p \in Pages : exclusive'[p] # Nil => p \in Allocated'
    BY <1>7, <1>14
  <2> QED
    BY <2>1 DEF LockedOK, Pages
<1>18. Nil \notin Threads
  BY NilAssumption
<1>19. \A u \in Threads \ {t} : \A p \in Allocated :
         /\ u \in shared[p] \/ exclusive[p] = u => lo2[p] = lo[p] /\ hi2[p] = hi[p]
         /\ exclusive[p] = u => nodes'[p] = nodes[p]
  BY <1>6, <1>8, <1>9, <1>13, <1>14, <1>18
<1>20. ASSUME NEW u \in Threads \ {t}, pc[u] = "lockHalf"
       PROVE  nodes'[op[u].node] = nodes[op[u].node] /\ exclusive'[op[u].node] = Nil
  <2>1. u \in Threads /\ ThreadOK(u, lo, hi) /\ pc[u] \in {"lockChild", "lockHalf"}
    BY <1>1, <1>20
  <2>2. Tree(nodes, Allocated, lo, hi, level, up)
    BY <1>1
  <2>3. op[u].node \in Allocated /\ op[u].node # Root
    BY <2>1, <2>2, LockedWay
  <2>4. exclusive[op[u].node] = Nil
    BY <1>20, <2>1 DEF ThreadOK, LockingOK
  <2> QED
    BY <1>6, <1>7, <1>8, <1>9, <1>14, <2>3, <2>4
<1>21. Tree(nodes', Allocated', lo2, hi2, level2, up2)
  BY <1>7, <1>8, <1>13
<1>22. /\ pc'[t] # "descend" /\ status' = status
       /\ \A u \in Threads \ {t} : op'[u] = op[u] /\ pc'[u] = pc[u]
  BY <1>14
<1>23. \A u \in Threads : ThreadOK(u, lo, hi)
  BY <1>1
<1>24. \A u \in Threads \ {t} : pc[u] = "lockHalf" =>
         nodes'[op[u].node] = nodes[op[u].node] /\ exclusive'[op[u].node] = Nil
  BY <1>20
<1>25. Leaves \subseteq Leaves'
  <2>1. SUFFICES ASSUME NEW p \in Leaves PROVE p \in Leaves'
    OBVIOUS
  <2>2. p \in A /\ p # Root /\ nodes[p].leaf = TRUE
    BY <1>6, <2>1 DEF IInv, NodesOK, InnerPages, Leaves
  <2>3. nodes'[p] = nodes[p] /\ p \in Allocated'
    BY <1>7, <1>8, <1>9, <2>2
  <2> QED
    BY <2>2, <2>3 DEF Leaves
<1>26. Tree(nodes, Allocated, lo, hi, level, up)
  BY <1>1
<1> QED
  BY <1>15, <1>16, <1>17, <1>19, <1>21, <1>22, <1>23, <1>24, <1>25, <1>26, SplitStep

\* The halves of a full node, of either kind.
HalvesOK(n, old, new, s, low, high, page) ==
  /\ HasFreeSpace(old) /\ HasFreeSpace(new) /\ KeysSplit(old, new, s, low, high)
  /\ IsInner(n) => IsInner(old) /\ IsInner(new) /\ ChildrenSplit(n, old, new, s)
  /\ IsLeaf(n) => /\ IsLeaf(old) /\ IsLeaf(new) /\ old.next = page /\ new.next = n.next
                  /\ KeysFrom(old, n, {}) /\ KeysFrom(new, n, {})

LEMMA HalvesAre ==
  ASSUME NEW A, NEW n, (IsInner(n) /\ n \in InnerIn(A)) \/ (IsLeaf(n) /\ n \in LeafIn(A)),
         ~HasFreeSpace(n), NEW page,
         NEW low \in Nat \cup {-1}, NEW high \in Nat \cup {-1}, KeysOK(n, low, high),
         NEW h, h = IF n.leaf THEN LeafSplit(n, page) ELSE InnerSplit(n)
  PROVE  HalvesOK(n, h.old, h.new, h.splitter, low, high, page)
<1>1. PICK old : old = h.old
  OBVIOUS
<1>2. PICK new : new = h.new
  OBVIOUS
<1>3. PICK s : s = h.splitter
  OBVIOUS
<1>4. CASE IsInner(n) /\ n \in InnerIn(A)
  <2>1. ~n.leaf /\ ~IsLeaf(n)
    BY <1>4 DEF IsInner, IsLeaf
  <2>2. h = InnerSplit(n)
    BY <2>1
  <2>3. old = InnerSplit(n).old /\ new = InnerSplit(n).new /\ s = InnerSplit(n).splitter
    BY <1>1, <1>2, <1>3, <2>2
  <2>4. /\ IsInner(old) /\ IsInner(new) /\ HasFreeSpace(old) /\ HasFreeSpace(new)
        /\ KeysSplit(old, new, s, low, high) /\ ChildrenSplit(n, old, new, s)
    BY <1>4, <2>3, InnerHalves
  <2> QED
    BY <1>1, <1>2, <1>3, <2>1, <2>4 DEF HalvesOK
<1>5. CASE IsLeaf(n) /\ n \in LeafIn(A)
  <2>1. n.leaf /\ ~IsInner(n)
    BY <1>5 DEF IsInner, IsLeaf
  <2>2. h = LeafSplit(n, page)
    BY <2>1
  <2>3. old = LeafSplit(n, page).old /\ new = LeafSplit(n, page).new /\ s = LeafSplit(n, page).splitter
    BY <1>1, <1>2, <1>3, <2>2
  <2>4. /\ IsLeaf(old) /\ IsLeaf(new) /\ HasFreeSpace(old) /\ HasFreeSpace(new)
        /\ old.next = page /\ new.next = n.next /\ KeysSplit(old, new, s, low, high)
        /\ EntriesSplit(n, old, new)
    BY <1>5, <2>3, LeafHalves
  <2>5. PICK k \in 1 .. Len(n.keys) :
          /\ Len(old.keys) = k /\ Len(new.keys) = Len(n.keys) - k
          /\ \A i \in 1 .. k : old.keys[i] = n.keys[i]
          /\ \A i \in 1 .. Len(n.keys) - k : new.keys[i] = n.keys[k + i]
    BY <2>4 DEF EntriesSplit
  <2>6. Len(n.keys) \in Nat
    BY <1>5, LeafFields
  <2>7. KeysFrom(old, n, {})
    <3>1. 1 .. k \subseteq 1 .. Len(n.keys)
      BY <2>6
    <3> QED
      BY <2>5, <3>1 DEF KeysFrom
  <2>8. KeysFrom(new, n, {})
    <3>1. \A i \in 1 .. Len(n.keys) - k : k + i \in 1 .. Len(n.keys)
      BY <2>6
    <3> QED
      BY <2>5, <3>1 DEF KeysFrom
  <2> QED
    BY <1>1, <1>2, <1>3, <2>1, <2>4, <2>7, <2>8 DEF HalvesOK
<1> QED
  BY <1>4, <1>5

\* A child is split: where everything is before.
LEMMA ChildTaken ==
  ASSUME IInv, KInv, NEW t \in Threads, SplitChild(t)
  PROVE  /\ pc[t] = "lockChild" /\ op[t].kind = "insert" /\ op[t].key \in Nat
         /\ pc'[t] = "lockHalf" /\ status' = status
         /\ \A u \in Threads \ {t} : op'[u] = op[u] /\ pc'[u] = pc[u]
         /\ op'[t].kind = "insert" /\ op'[t].key = op[t].key /\ op'[t].parent = op[t].parent
         /\ op'[t].node = InnerLookup(nodes'[op[t].parent], op[t].key)
         /\ \A u \in Threads : /\ op'[u].kind = op[u].kind /\ op'[u].key = op[u].key
                               /\ Inserting(u)' => Inserting(u)
         /\ shared[op[t].node] = {} /\ exclusive[op[t].node] = Nil
         /\ exclusive' = exclusive /\ HasPages(1) /\ free' = free + 1
         /\ ~HasFreeSpace(nodes[op[t].node]) /\ HasFreeSpace(nodes[op[t].parent])
         /\ nodes' = [nodes EXCEPT ![op[t].node] = Halves(op[t].node).old,
                                   ![free] = Halves(op[t].node).new,
                                   ![op[t].parent] = InnerInsert(nodes[op[t].parent],
                                                       Halves(op[t].node).splitter, free)]
<1>1. op \in [Threads -> Ops] /\ pc \in [Threads -> Labels]
  BY DEF IInv, TypeOK, OpsOK
<1>2. PICK old \in Ops : old = op[t]
  BY <1>1
<1>3. PICK page : page = old.node
  OBVIOUS
<1>4. PICK parent : parent = old.parent
  OBVIOUS
<1>5. /\ pc[t] = "lockChild" /\ shared[page] = {} /\ exclusive[page] = Nil
      /\ ~HasFreeSpace(nodes[page]) /\ HasPages(1) /\ exclusive' = exclusive
  BY <1>2, <1>3 DEF SplitChild, MayLock, lockVars
<1>6. PICK lo, hi, level, up : /\ Tree(nodes, Allocated, lo, hi, level, up)
                               /\ \A u \in Threads : ThreadOK(u, lo, hi)
  BY DEF KInv, TreeOK
<1>7. HasFreeSpace(nodes[parent]) /\ old.kind = "insert"
  BY <1>2, <1>4, <1>5, <1>6 DEF ThreadOK, LockingOK, DescentOK
<1>8. PICK grown : grown = InnerInsert(nodes[parent], Halves(page).splitter, free)
  OBVIOUS
<1>9. /\ nodes' = [nodes EXCEPT ![page] = Halves(page).old, ![free] = Halves(page).new,
                                ![parent] = grown]
      /\ free' = free + 1 /\ pc' = [pc EXCEPT ![t] = "lockHalf"] /\ status' = status
      /\ op' = [op EXCEPT ![t] = [old EXCEPT !.dirtyParent = TRUE,
                                             !.node = InnerLookup(grown, old.key)]]
  BY <1>2, <1>3, <1>4, <1>7, <1>8 DEF SplitChild, NewPage, Halves, Goto
<1>10. /\ pc'[t] = "lockHalf" /\ \A u \in Threads \ {t} : op'[u] = op[u] /\ pc'[u] = pc[u]
       /\ op'[t].kind = old.kind /\ op'[t].key = old.key /\ op'[t].parent = parent
       /\ op'[t].node = InnerLookup(grown, old.key) /\ old.key \in Nat
  BY <1>1, <1>4, <1>9 DEF Ops
<1>11. \A u \in Threads : /\ op'[u].kind = op[u].kind /\ op'[u].key = op[u].key
                          /\ Inserting(u)' => Inserting(u)
  BY <1>2, <1>5, <1>10 DEF Inserting
<1>12. nodes'[parent] = grown
  <2>1. parent \in Pages
    BY <1>2, <1>4, <1>5, LockIsThere
  <2> QED
    BY <1>9, <2>1 DEF IInv, TypeOK
<1> QED
  BY <1>2, <1>3, <1>4, <1>5, <1>7, <1>8, <1>9, <1>10, <1>11, <1>12

\* One of the halves is the one for a key of the page, and the parent says which.
LEMMA HalfForKey ==
  ASSUME NEW ns2, NEW A, NEW f, NodesIn(ns2, A \cup {f}),
         NEW lo2, NEW hi2, NEW level2, NEW up2, Tree(ns2, A \cup {f}, lo2, hi2, level2, up2),
         NEW c \in A, c # Root, f # Root, NEW q, up2[c] = q, up2[f] = q,
         NEW low \in Nat \cup {-1}, NEW high \in Nat \cup {-1}, NEW s \in Nat,
         lo2[c] = low, hi2[c] = s, lo2[f] = s, hi2[f] = high,
         NEW key \in Nat, Within(key, low, high)
  PROVE  InnerLookup(ns2[q], key) \in {c, f}
<1> DEFINE B == A \cup {f}
<1>1. c \in B /\ f \in B
  OBVIOUS
<1>2. NodesIn(ns2, B) /\ Tree(ns2, B, lo2, hi2, level2, up2)
  OBVIOUS
<1> HIDE DEF B
<1>3. CASE key <= s
  <2>1. Within(key, lo2[c], hi2[c])
    BY <1>3 DEF Within
  <2> QED
    BY <1>1, <1>2, <2>1, LookupFromAbove
<1>4. CASE ~(key <= s)
  <2>1. Within(key, lo2[f], hi2[f])
    BY <1>4 DEF Within
  <2> QED
    BY <1>1, <1>2, <2>1, LookupFromAbove
<1> QED
  BY <1>3, <1>4

LEMMA SplitChildKeeps ==
  ASSUME IInv, KInv, NEW t \in Threads, SplitChild(t)
  PROVE  KeptBy(t)
<1>1. PICK lo, hi, level, up : /\ Tree(nodes, Allocated, lo, hi, level, up)
                               /\ \A u \in Threads : ThreadOK(u, lo, hi)
  BY DEF KInv, TreeOK
<1>2. PICK c : c = op[t].node
  OBVIOUS
<1>3. PICK q : q = op[t].parent
  OBVIOUS
<1>4. PICK f : f = free
  OBVIOUS
<1>5. PICK A \in {Allocated} : TRUE
  OBVIOUS
<1>6. PICK ns \in {nodes} : TRUE
  OBVIOUS
<1>7. PICK ns2 \in {nodes'} : TRUE
  OBVIOUS
<1>8. PICK h : h = Halves(c)
  OBVIOUS
<1>9. PICK key : key = op[t].key
  OBVIOUS
<1>10. /\ pc[t] = "lockChild" /\ key \in Nat /\ pc'[t] = "lockHalf" /\ status' = status
       /\ \A u \in Threads \ {t} : op'[u] = op[u] /\ pc'[u] = pc[u]
       /\ op'[t].kind = "insert" /\ op'[t].key = key /\ op'[t].parent = q
       /\ op'[t].node = InnerLookup(ns2[q], key)
       /\ shared[c] = {} /\ exclusive[c] = Nil /\ exclusive' = exclusive
       /\ ~HasFreeSpace(ns[c]) /\ HasFreeSpace(ns[q])
  BY <1>2, <1>3, <1>6, <1>7, <1>9, ChildTaken
<1>11. /\ HasPages(1) /\ free' = free + 1
       /\ nodes' = [nodes EXCEPT ![c] = h.old, ![f] = h.new, ![q] = InnerInsert(ns[q], h.splitter, f)]
  BY <1>2, <1>3, <1>4, <1>6, <1>8, ChildTaken
<1>12. /\ c \in A /\ c # Root /\ up[c] = q /\ q \in A /\ exclusive[q] = t /\ shared[q] = {}
       /\ Within(key, lo[c], hi[c]) /\ Within(key, lo[q], hi[q])
  <2>1. ThreadOK(t, lo, hi)
    BY <1>1
  <2> QED
    BY <1>1, <1>2, <1>3, <1>5, <1>9, <1>10, <2>1, LockedWay DEF ThreadOK, LockingOK
<1>13. IInv'
  BY SplitChildStep
<1>14. Allocated' = A \cup {f} /\ f \in Pages /\ f \notin A /\ A \subseteq Pages /\ f # Root
  <2>1. free \in Nat
    BY DEF IInv, TypeOK
  <2>2. /\ Allocated' = Allocated \cup (free .. free + 1 - 1)
        /\ free .. free + 1 - 1 \subseteq Pages \ Allocated
        /\ Allocated \subseteq Pages /\ Root \in Allocated
    BY <1>11, PagesGrow DEF InnerPages
  <2>3. free .. free + 1 - 1 = {free}
    BY <2>1
  <2> QED
    BY <1>4, <1>5, <2>2, <2>3
<1>15. NodesIn(ns, A) /\ Tree(ns, A, lo, hi, level, up)
  BY <1>1, <1>5, <1>6, TreeIn
<1>16. NodesIn(ns2, A \cup {f})
  <2>1. NodesIn(nodes', Allocated')
    BY <1>13, NodesNext
  <2> QED
    BY <1>7, <1>14, <2>1
<1>17. c # q /\ IsInner(ns[q]) /\ c # f /\ q # f
  BY <1>12, <1>14, <1>15, Above
<1>18. PICK s : s = h.splitter
  OBVIOUS
<1>19. /\ ns2[c] = h.old /\ ns2[f] = h.new /\ ns2[q] = InnerInsert(ns[q], s, f)
       /\ \A p \in A \ {c, q} : ns2[p] = ns[p]
  <2>1. nodes \in [Pages -> InnerNodes \cup LeafNodes \cup {Nil}]
    BY DEF IInv, TypeOK
  <2>2. c \in Pages /\ q \in Pages
    BY <1>12, <1>14
  <2> QED
    BY <1>6, <1>7, <1>11, <1>14, <1>17, <1>18, <2>1, <2>2
<1>20. PICK low \in Nat \cup {-1} : low = lo[c]
  BY <1>12, <1>14, <1>15, TreeTypes
<1>21. PICK high \in Nat \cup {-1} : high = hi[c]
  BY <1>12, <1>14, <1>15, TreeTypes
<1>22. HalvesOK(ns[c], ns2[c], ns2[f], s, low, high, f)
  <2>1. PICK n : n = ns[c]
    OBVIOUS
  <2>2. (IsInner(n) /\ n \in InnerIn(A)) \/ (IsLeaf(n) /\ n \in LeafIn(A))
    BY <1>12, <1>15, <2>1 DEF NodesIn
  <2>3. KeysOK(n, low, high)
    BY <1>12, <1>15, <1>20, <1>21, <2>1 DEF Tree
  <2>4. h = IF n.leaf THEN LeafSplit(n, f) ELSE InnerSplit(n)
    BY <1>4, <1>6, <1>8, <2>1 DEF Halves
  <2>5. HalvesOK(n, h.old, h.new, h.splitter, low, high, f)
    BY <1>10, <2>1, <2>2, <2>3, <2>4, HalvesAre
  <2> QED
    BY <1>18, <1>19, <2>1, <2>5
<1>23. Grafted(ns2, A, lo, hi, c, f, s, q)
  <2>1. KeysSplit(ns2[c], ns2[f], s, lo[c], hi[c])
    BY <1>20, <1>21, <1>22 DEF HalvesOK
  <2>2. IsInner(ns[c]) => /\ IsInner(ns2[c]) /\ IsInner(ns2[f])
                          /\ ChildrenSplit(ns[c], ns2[c], ns2[f], s)
    BY <1>22 DEF HalvesOK
  <2>3. IsLeaf(ns[c]) => /\ IsLeaf(ns2[c]) /\ IsLeaf(ns2[f])
                         /\ ns2[c].next = f /\ ns2[f].next = ns[c].next
    BY <1>22 DEF HalvesOK
  <2> QED
    BY <1>12, <1>14, <1>15, <1>16, <1>19, <2>1, <2>2, <2>3, SplitTree
<1>24. PICK lo2, hi2, level2, up2 :
         /\ Tree(ns2, A \cup {f}, lo2, hi2, level2, up2)
         /\ \A p \in A : lo2[p] = lo[p] /\ (p # c => hi2[p] = hi[p])
         /\ hi2[c] = s /\ lo2[f] = s /\ hi2[f] = hi[c] /\ up2[c] = q /\ up2[f] = q
  BY <1>23 DEF Grafted
<1>25. InnerLookup(ns2[q], key) \in {c, f}
  <2>1. s \in Nat
    BY <1>22 DEF HalvesOK, KeysSplit
  <2>2. lo2[c] = low /\ hi2[f] = high /\ Within(key, low, high)
    BY <1>12, <1>20, <1>21, <1>24
  <2>3. NodesIn(ns2, A \cup {f}) /\ Tree(ns2, A \cup {f}, lo2, hi2, level2, up2)
    BY <1>16, <1>24
  <2> QED
    BY <1>10, <1>12, <1>14, <1>24, <2>1, <2>2, <2>3, HalfForKey
<1>26. ThreadOK(t, lo2, hi2)'
  <2>1. HasFreeSpace(ns2[c]) /\ HasFreeSpace(ns2[f])
    BY <1>22 DEF HalvesOK
  <2>2. exclusive[f] = Nil
    BY <1>5, <1>14 DEF KInv, LockedOK
  <2>3. lo2[q] = lo[q] /\ hi2[q] = hi[q]
    BY <1>12, <1>17, <1>24
  <2>4. ASSUME NEW u \in Threads, pc'[u] = "descend"
        PROVE  op'[u].node # c /\ op'[u].node # f
    <3>1. pc[u] = "descend" /\ op'[u] = op[u]
      BY <1>10, <2>4
    <3>2. op[u].node \in A /\ shared[op[u].node] # {}
      BY <1>5, <3>1 DEF IInv, PlacesOK, PlaceOK
    <3> QED
      BY <1>10, <1>14, <3>1, <3>2
  <2>5. /\ HasFreeSpace(nodes'[op'[t].node]) /\ exclusive'[op'[t].node] = Nil
        /\ \A u \in Threads : pc'[u] = "descend" => op'[u].node # op'[t].node
    BY <1>7, <1>10, <1>25, <2>1, <2>2, <2>4
  <2> QED
    BY <1>7, <1>10, <1>12, <2>3, <2>5 DEF ThreadOK, DescentOK, LockingOK
<1>27. DistinctOK'
  <2>1. \A u \in Threads : /\ op'[u].kind = op[u].kind /\ op'[u].key = op[u].key
                           /\ Inserting(u)' => Inserting(u)
    BY ChildTaken
  <2>2. ASSUME NEW p \in Leaves'
        PROVE  \E x \in Leaves : KeysFrom(nodes'[p], nodes[x], {})
    <3>1. p \in A \cup {f} /\ IsLeaf(ns2[p])
      BY <1>7, <1>13, <1>14, NodesNext DEF Leaves
    <3>2. ~IsLeaf(ns2[q])
      BY <1>19 DEF IsLeaf, InnerInsert, InnerNode
    <3>3. CASE p \in {c, f}
      <4>1. IsLeaf(ns[c])
        <5>1. IsInner(ns[c]) => IsInner(ns2[p])
          BY <1>22, <3>3 DEF HalvesOK
        <5>2. IsInner(ns[c]) \/ IsLeaf(ns[c])
          BY <1>12, <1>15 DEF NodesIn
        <5> QED
          BY <3>1, <5>1, <5>2 DEF IsInner, IsLeaf
      <4>2. KeysFrom(ns2[p], ns[c], {})
        BY <1>22, <3>3, <4>1 DEF HalvesOK
      <4>3. c \in Leaves
        BY <1>5, <1>6, <1>12, <4>1, TreeIn
      <4> QED
        BY <1>6, <1>7, <4>2, <4>3
    <3>4. CASE p \notin {c, f}
      <4>1. p \in A /\ ns2[p] = ns[p]
        BY <1>19, <3>1, <3>2, <3>4
      <4>2. p \in Leaves
        BY <1>5, <1>6, <3>1, <4>1, TreeIn
      <4>3. KeysFrom(nodes'[p], nodes[p], {})
        BY <1>6, <1>7, <4>1 DEF KeysFrom
      <4> QED
        BY <4>2, <4>3
    <3> QED
      BY <3>3, <3>4
  <2>3. TreeKeys' \subseteq TreeKeys
    BY <1>13, <2>2, KeysSpread
  <2> QED
    BY <2>1, <2>3, DistinctKept DEF KInv
<1>28. LockedOK'
  <2>1. \A p \in Pages : exclusive'[p] # Nil => p \in Allocated'
    BY <1>5, <1>10, <1>14 DEF KInv, LockedOK
  <2> QED
    BY <2>1 DEF LockedOK, Pages
<1>29. ASSUME NEW u \in Threads \ {t}, NEW p \in Allocated
       PROVE  /\ u \in shared[p] \/ exclusive[p] = u => lo2[p] = lo[p] /\ hi2[p] = hi[p]
              /\ exclusive[p] = u => nodes'[p] = nodes[p]
  <2>1. u \in shared[p] \/ exclusive[p] = u => p # c
    BY <1>10, NilAssumption
  <2>2. exclusive[p] = u => p # q
    BY <1>12
  <2> QED
    BY <1>5, <1>6, <1>7, <1>19, <1>24, <2>1, <2>2
<1>30. ASSUME NEW u \in Threads \ {t}, pc[u] = "lockHalf"
       PROVE  nodes'[op[u].node] = nodes[op[u].node] /\ exclusive'[op[u].node] = Nil
  <2>1. /\ u \in Threads /\ u # t /\ ThreadOK(u, lo, hi)
        /\ pc[u] \in {"lockChild", "lockHalf"} /\ pc[t] \in {"lockChild", "lockHalf"}
    BY <1>1, <1>10, <1>30
  <2>2. Tree(nodes, Allocated, lo, hi, level, up) /\ \A v \in Threads : ThreadOK(v, lo, hi)
    BY <1>1
  <2>3. op[u].node \in Allocated
    BY <2>1, <2>2, LockedWay
  <2>4. op[u].node # c
    BY <1>2, <2>1, <2>2, WaysApart
  <2>5. exclusive[op[u].node] = Nil
    BY <1>30, <2>1 DEF ThreadOK, LockingOK
  <2>6. op[u].node # q
    BY <1>12, <2>5, NilAssumption
  <2> QED
    BY <1>5, <1>6, <1>7, <1>10, <1>19, <2>3, <2>4, <2>5, <2>6
<1>31. Tree(nodes', Allocated', lo2, hi2, level2, up2)
  BY <1>7, <1>14, <1>24
<1>32. pc'[t] # "descend" /\ status' = status
       /\ \A u \in Threads \ {t} : op'[u] = op[u] /\ pc'[u] = pc[u]
  BY <1>10
<1>33. Leaves \subseteq Leaves'
  <2>1. SUFFICES ASSUME NEW p \in Leaves PROVE p \in Leaves'
    OBVIOUS
  <2>2. p \in A /\ IsLeaf(ns[p])
    BY <1>5, <1>6, <2>1 DEF Leaves, IsLeaf
  <2>3. IsLeaf(ns2[p])
    <3>1. CASE p = c
      BY <1>22, <2>2, <3>1 DEF HalvesOK
    <3>2. CASE p # c
      <4>1. p # q
        BY <1>17, <2>2 DEF IsInner, IsLeaf
      <4> QED
        BY <1>19, <2>2, <3>2, <4>1
    <3> QED
      BY <3>1, <3>2
  <2> QED
    BY <1>7, <1>14, <2>2, <2>3 DEF Leaves, IsLeaf
<1>34. Tree(nodes, Allocated, lo, hi, level, up) /\ \A u \in Threads : ThreadOK(u, lo, hi)
  BY <1>1
<1> QED
  BY <1>26, <1>27, <1>28, <1>29, <1>30, <1>31, <1>32, <1>33, <1>34, SplitStep

---------------------------------------------------------------------------
(* The invariant is inductive *)

LEMMA KeysInit ==
  ASSUME Init
  PROVE  KInv
<1> DEFINE lo == [p \in Pages |-> -1]
           level == [p \in Pages |-> IF p = Root THEN 1 ELSE 0]
           up == [p \in Pages |-> Root]
           root == InnerNode(<<>>, <<FirstLeaf>>)
<1>1. IInv
  BY InitOK
<1>2. Root \in Pages /\ FirstLeaf \in Pages /\ Root # FirstLeaf
  BY UsersAssumption DEF Root, FirstLeaf, Pages
<1>3. nodes[Root] = root /\ nodes[FirstLeaf] = EmptyLeaf
  BY <1>2 DEF Init
<1>4. Allocated = {Root, FirstLeaf}
  <2>1. free = 3 /\ MaxPages \in Nat /\ MaxPages >= 3 /\ Root = 1 /\ FirstLeaf = 2
    BY UsersAssumption DEF Init, Root, FirstLeaf
  <2>2. \A p \in Allocated : p \in {Root, FirstLeaf}
    BY <2>1 DEF Allocated, Pages
  <2>3. Root \in Allocated /\ FirstLeaf \in Allocated
    BY <1>2, <2>1 DEF Allocated
  <2> QED
    BY <2>2, <2>3
<1>5. /\ IsInner(root) /\ ~IsLeaf(root) /\ root.keys = <<>> /\ root.children = <<FirstLeaf>>
      /\ IsLeaf(EmptyLeaf) /\ ~IsInner(EmptyLeaf) /\ EmptyLeaf.keys = <<>> /\ EmptyLeaf.next = NoPage
  BY DEF InnerNode, EmptyLeaf, LeafNode, IsInner, IsLeaf
<1>6. Len(<<>>) = 0 /\ <<FirstLeaf>>[1] = FirstLeaf
  OBVIOUS
<1> HIDE DEF root
<1>7. \A p \in Allocated : KeysOK(nodes[p], lo[p], lo[p])
  <2>1. \A p \in Allocated : Len(nodes[p].keys) = 0
    BY <1>3, <1>4, <1>5, <1>6
  <2> QED
    BY <2>1 DEF KeysOK, SortedKeys
<1>8. ChildrenOK(root, Root, lo, lo, level, up)
  <2>1. SUFFICES ASSUME NEW i \in Places(root)
                 PROVE  ChildOK(root, Root, i, root.children[i], lo, lo, level, up)
    BY DEF ChildrenOK
  <2>2. i = 1 /\ root.children[i] = FirstLeaf /\ Len(root.keys) = 0
    BY <1>5, <1>6 DEF Places
  <2>3. LowOf(root, i, -1) = -1 /\ HighOf(root, i, -1) = -1
    BY <2>2 DEF LowOf, HighOf
  <2>4. /\ lo[Root] = -1 /\ lo[FirstLeaf] = -1 /\ level[Root] = 1 /\ level[FirstLeaf] = 0
        /\ up[FirstLeaf] = Root
    BY <1>2
  <2> QED
    BY <1>2, <2>2, <2>3, <2>4 DEF ChildOK
<1>9. \A p \in Allocated : IsLeaf(nodes[p]) => level[p] = 0 /\ LinkOK(nodes[p], p, lo, lo)
  BY <1>2, <1>3, <1>4, <1>5 DEF LinkOK
<1>10. HasChild(root, FirstLeaf)
  <2>1. 1 \in Places(root)
    BY <1>5, <1>6 DEF Places
  <2> QED
    BY <1>5, <1>6, <2>1 DEF HasChild
<1>11. \A p \in Allocated \ {Root} : up[p] \in Allocated /\ IsInner(nodes[up[p]]) /\ HasChild(nodes[up[p]], p)
  BY <1>2, <1>3, <1>4, <1>5, <1>10
<1>12. /\ lo \in [Pages -> Nat \cup {-1}] /\ level \in [Pages -> Nat] /\ up \in [Pages -> Pages]
       /\ lo[Root] = -1 /\ FirstLeaf \in Allocated /\ lo[FirstLeaf] = -1 /\ level[FirstLeaf] = 0
       /\ \A p \in Allocated : lo[p] = -1
  BY <1>2, <1>4
<1>13. \A p \in Allocated : IsInner(nodes[p]) => ChildrenOK(nodes[p], p, lo, lo, level, up)
  BY <1>3, <1>4, <1>5, <1>8
<1> HIDE DEF lo, level, up
<1>14. Tree(nodes, Allocated, lo, lo, level, up)
  BY <1>7, <1>9, <1>11, <1>12, <1>13 DEF Tree
<1>15. \A t \in Threads : pc[t] = "idle" /\ op[t].kind = "none"
  BY DEF Init, NoOp
<1>16. \A t \in Threads : ThreadOK(t, lo, lo)
  BY <1>15 DEF ThreadOK, DescentOK, LockingOK
<1>17. TreeOK
  BY <1>14, <1>16 DEF TreeOK
<1>18. DistinctOK
  BY <1>15 DEF DistinctOK, Inserting
<1>19. LockedOK /\ status # "failed"
  BY DEF Init, LockedOK
<1> QED
  BY <1>17, <1>18, <1>19 DEF KInv

LEMMA InsertKeeps ==
  ASSUME IInv, KInv, NEW t \in Threads, Insert(t)
  PROVE  KInv'
BY InsertHereKeeps, InsertFullKeeps, LockRootKeeps, SplitRootKeeps, SplitChildKeeps,
   LockChildKeeps, InsertExclusiveKeeps DEF Insert, KeptBy

LEMMA ContinueKeeps ==
  ASSUME IInv, KInv, NEW t \in Threads, Continue(t)
  PROVE  KInv'
<1>1. CASE Scan(t)
  BY <1>1, BeginScanKeeps, ScanNextKeeps, NextLeafKeeps, EndScanKeeps DEF Scan
<1>2. CASE ~Scan(t)
  BY <1>2, FixRootKeeps, DescendKeeps, LookupKeeps, EraseKeeps, InsertKeeps, RaceKeeps, ReturnKeeps
     DEF Continue, KeptBy
<1> QED
  BY <1>1, <1>2

LEMMA NextKeeps ==
  ASSUME IInv, KInv, [Next]_vars
  PROVE  KInv'
<1>1. CASE Load
  <2>1. load \in Seq(Nat) /\ load # <<>> /\ Begin(Loader, "insert", Head(load))
    BY <1>1 DEF Load, IInv, OpsOK
  <2>2. Head(load) \in Nat /\ Loader \in Threads
    BY <2>1, UsersAssumption
  <2> QED
    BY <2>1, <2>2, BeginKeeps DEF Kinds
<1>2. ASSUME NEW t \in Threads, Call(t, "size", 0)
      PROVE  KInv'
  BY <1>2, BeginKeeps DEF Kinds, Call
<1>3. ASSUME NEW t \in Threads, NEW kind \in Kinds \ {"size"}, NEW key \in Keys, Call(t, kind, key)
      PROVE  KInv'
  <2>1. kind \in Kinds /\ key \in Nat
    BY UsersAssumption
  <2> QED
    BY <1>3, <2>1, BeginKeeps DEF Call
<1>4. ASSUME NEW t \in Threads, Continue(t)
      PROVE  KInv'
  BY <1>4, ContinueKeeps
<1>5. ASSUME NEW t \in Threads, DropScan(t)
      PROVE  KInv'
  BY <1>5, DropScanKeeps
<1>6. CASE UNCHANGED vars
  <2>1. status' # "failed" /\ UNCHANGED <<nodes, free, exclusive, pc, op>>
    BY <1>6 DEF vars, KInv
  <2> QED
    BY <2>1, StatusKeeps
<1> QED
  BY <1>1, <1>2, <1>3, <1>4, <1>5, <1>6 DEF Next

\* The inductive invariant: the pages that newPage has given away are a tree whose nodes have
\* their keys in order and within the bounds of their place, a thread on its way down is at the
\* page for its key, and an insertion has room in the parent of a page that it may split.
THEOREM TreeIsInductive == Spec => [](IInv /\ KInv)
<1>1. Init => IInv /\ KInv
  BY InitOK, KeysInit
<1>2. IInv /\ KInv /\ [Next]_vars => (IInv /\ KInv)'
  BY NextOK, NextKeeps
<1> QED
  BY <1>1, <1>2, PTL DEF Spec

\* The assertions of insert (a node into which an entry is inserted has room) hold whatever
\* other threads insert, erase and split between the steps of an insertion: a full root is
\* split before its child can be, a child is split while its parent is fixed, and nobody comes
\* to a half of it before the insertion that has split it does.
THEOREM InsertAssertionsHold == Spec => []AssertionsHold
<1>1. KInv => AssertionsHold
  BY DEF KInv, AssertionsHold
<1> QED
  BY <1>1, TreeIsInductive, PTL

---------------------------------------------------------------------------
(* What look-ups find *)

\* Every key of every leaf is found from the root, at every moment, between any two steps of
\* lookupPage, insert, the splits and erase in any number of threads.
THEOREM KeysAreFound == Spec => []EveryKeyIsFound
<1>1. IInv /\ KInv => EveryKeyIsFound
  <2>1. SUFFICES ASSUME IInv, KInv, NEW p \in LeafPages, NEW key \in Range(nodes[p].keys)
                 PROVE  LeafOf(key) = p
    BY DEF EveryKeyIsFound
  <2>2. p \in Leaves /\ p \in Allocated
    BY <2>1, TreeIn DEF Leaves
  <2>3. PICK lo, hi, level, up : Tree(nodes, Allocated, lo, hi, level, up)
    BY <2>1 DEF KInv, TreeOK
  <2>4. nodes[p].keys \in Seq(Nat)
    BY <2>1, <2>2, TreeIn, NodeFields
  <2>5. PICK keys \in Seq(Nat) : keys = nodes[p].keys
    BY <2>4
  <2>6. PICK i \in 1 .. Len(keys) : key = keys[i]
    <3>1. key \in Range(keys)
      BY <2>1, <2>5
    <3> QED
      BY <3>1 DEF Range
  <2>7. key \in Nat
    BY <2>6
  <2>8. KeysOK(nodes[p], lo[p], hi[p])
    BY <2>2, <2>3 DEF Tree
  <2>9. Within(key, lo[p], hi[p])
    BY <2>5, <2>6, <2>8 DEF KeysOK
  <2> QED
    BY <2>1, <2>2, <2>3, <2>7, <2>9, LeafForKey
<1> QED
  BY <1>1, TreeIsInductive, PTL

---------------------------------------------------------------------------
(* Balance *)

\* The depth of a page is its level.
LEMMA DepthIsLevel ==
  ASSUME IInv, NEW lo, NEW hi, NEW level, NEW up, Tree(nodes, Allocated, lo, hi, level, up)
  PROVE  \A p \in Allocated : Depth(p) = level[p]
<1> DEFINE D == {q \in Pages : nodes[q] # Nil}
           depth == CHOOSE f : f = [p \in D |-> IF nodes[p].leaf THEN 0
                                                ELSE 1 + f[Leftmost(nodes[p])]]
<1>1. \A p \in Allocated : Depth(p) = depth[p]
  BY DEF Depth
<1>2. D = Allocated
  BY PagesWithNodes
<1>3. NodesIn(nodes, Allocated) /\ \A p \in Allocated : nodes[p].leaf <=> IsLeaf(nodes[p])
  BY TreeIn
<1>4. \A p \in Allocated : level[p] \in Nat
  BY TreeTypes DEF Allocated
<1>5. \A p \in Allocated : nodes[p].leaf => level[p] = 0
  BY <1>3 DEF Tree
<1>6. ASSUME NEW p \in Allocated, ~nodes[p].leaf
      PROVE  /\ Leftmost(nodes[p]) \in Allocated /\ level[p] = level[Leftmost(nodes[p])] + 1
  <2>1. IsInner(nodes[p])
    BY <1>6, TreeIn
  <2>2. PICK c : c = Leftmost(nodes[p])
    OBVIOUS
  <2>3. c \in Allocated /\ level[p] = level[c] + 1
    BY <1>3, <2>1, <2>2, LeftmostChild
  <2> QED
    BY <2>2, <2>3
<1>7. PICK g : g = [p \in D |-> level[p]]
  OBVIOUS
<1>8. ASSUME NEW p \in Allocated
      PROVE  g[p] = IF nodes[p].leaf THEN 0 ELSE 1 + g[Leftmost(nodes[p])]
  <2>1. CASE nodes[p].leaf
    BY <1>2, <1>5, <1>7, <2>1
  <2>2. CASE ~nodes[p].leaf
    <3>1. PICK c \in Allocated : c = Leftmost(nodes[p]) /\ level[p] = level[c] + 1
      BY <1>6, <2>2
    <3>2. g[p] = level[p] /\ g[c] = level[c] /\ level[c] \in Nat
      BY <1>2, <1>4, <1>7
    <3> QED
      BY <2>2, <3>1, <3>2
  <2> QED
    BY <2>1, <2>2
<1>9. g = [p \in D |-> IF nodes[p].leaf THEN 0 ELSE 1 + g[Leftmost(nodes[p])]]
  BY <1>2, <1>7, <1>8
<1>10. depth = [p \in D |-> IF nodes[p].leaf THEN 0 ELSE 1 + depth[Leftmost(nodes[p])]]
  BY <1>9
<1> HIDE DEF depth
<1>11. \A p \in Allocated : depth[p] = IF nodes[p].leaf THEN 0 ELSE 1 + depth[Leftmost(nodes[p])]
  BY <1>2, <1>10
<1> DEFINE T == {n \in Nat : \E p \in Allocated : n = level[p] /\ depth[p] # level[p]}
<1>12. SUFFICES ASSUME T # {} PROVE FALSE
  BY <1>1, <1>4
<1>13. PICK n \in T : \A m \in T : n <= m
  <2>1. T \subseteq Nat /\ T # {}
    BY <1>12
  <2> HIDE DEF T
  <2> QED
    BY <2>1, LeastNatural
<1>14. PICK p \in Allocated : n = level[p] /\ depth[p] # level[p]
  OBVIOUS
<1>15. ~nodes[p].leaf
  BY <1>5, <1>11, <1>14
<1>16. PICK c \in Allocated : c = Leftmost(nodes[p]) /\ level[p] = level[c] + 1
  BY <1>6, <1>15
<1>17. depth[c] = level[c]
  <2>1. SUFFICES ASSUME depth[c] # level[c] PROVE FALSE
    OBVIOUS
  <2>2. level[c] \in T
    BY <1>4, <2>1
  <2>3. n <= level[c]
    BY <1>13, <2>2
  <2> QED
    BY <1>4, <1>14, <1>16, <2>3
<1>18. depth[p] = 1 + depth[c]
  BY <1>11, <1>15, <1>16
<1> QED
  BY <1>4, <1>14, <1>16, <1>17, <1>18

\* All leaves are equally deep: a split puts a page beside another one, and only the split of
\* the root makes the tree higher, everywhere.
THEOREM TreeStaysBalanced == Spec => []TreeIsBalanced
<1>1. IInv /\ KInv => TreeIsBalanced
  <2>1. SUFFICES ASSUME IInv, KInv, NEW p \in Pages, nodes[p] # Nil, ~nodes[p].leaf,
                        NEW i \in DOMAIN nodes[p].children
                 PROVE  Depth(nodes[p].children[i]) = Depth(nodes[p].children[1])
    BY DEF TreeIsBalanced
  <2>2. p \in Allocated
    BY <2>1, PagesWithNodes
  <2>3. PICK lo, hi, level, up : Tree(nodes, Allocated, lo, hi, level, up)
    BY <2>1 DEF KInv, TreeOK
  <2>4. NodesIn(nodes, Allocated) /\ IsInner(nodes[p])
    BY <2>1, <2>2, TreeIn
  <2>5. i \in Places(nodes[p]) /\ 1 \in Places(nodes[p])
    <3>1. /\ nodes[p].children \in Seq(Allocated) /\ Len(nodes[p].keys) \in Nat
          /\ Len(nodes[p].children) = Len(nodes[p].keys) + 1
      BY <2>2, <2>4, NodeFields
    <3> QED
      BY <2>1, <3>1 DEF Places
  <2>6. ASSUME NEW j \in Places(nodes[p])
        PROVE  Depth(nodes[p].children[j]) + 1 = level[p] /\ Depth(nodes[p].children[j]) \in Nat
    <3>1. PICK c : c = nodes[p].children[j]
      OBVIOUS
    <3>2. c \in Allocated /\ c \in Pages /\ ChildOK(nodes[p], p, j, c, lo, hi, level, up)
      BY <2>2, <2>3, <2>4, <3>1, TreeChild
    <3>3. level[p] = level[c] + 1 /\ level[c] \in Nat
      BY <2>3, <3>2, TreeTypes DEF ChildOK
    <3>4. Depth(c) = level[c]
      BY <2>1, <2>3, <3>2, DepthIsLevel
    <3> QED
      BY <3>1, <3>3, <3>4
  <2> QED
    BY <2>5, <2>6
<1> QED
  BY <1>1, TreeIsInductive, PTL

---------------------------------------------------------------------------
(* The chain of the leaves *)

\* There is the function that puts a page before what follows it until it is at a page in L.
GoesOn(D, L, next) == \E g : g = [p \in D |-> IF p \in L THEN <<p>> ELSE <<p>> \o g[next[p]]]

\* A way from page to page along which a rank sinks comes to an end.
LEMMA GoingOn ==
  ASSUME NEW D, NEW L, NEW rank, \A p \in D : rank[p] \in Nat,
         NEW b \in Nat, \A p \in D : rank[p] < b,
         NEW next, \A p \in D : p \notin L => next[p] \in D /\ rank[next[p]] < rank[p]
  PROVE  GoesOn(D, L, next)
<1> DEFINE After(g) == [p \in D |-> IF p \in L THEN <<p>> ELSE <<p>> \o g[next[p]]]
           Right(g, n) == \A p \in D : rank[p] < n => g[p] = After(g)[p]
           T == {n \in Nat : ~\E g : g = [p \in D |-> g[p]] /\ Right(g, n)}
<1>1. SUFFICES b \notin T
  <2>1. PICK g : g = [p \in D |-> g[p]] /\ Right(g, b)
    BY <1>1
  <2>2. g = After(g)
    BY <2>1
  <2> QED
    BY <2>2 DEF GoesOn
<1>2. SUFFICES ASSUME T # {} PROVE FALSE
  OBVIOUS
<1>3. PICK n \in T : \A m \in T : n <= m
  <2>1. T \subseteq Nat /\ T # {}
    BY <1>2
  <2> HIDE DEF T
  <2> QED
    BY <2>1, LeastNatural
<1>4. n \in Nat
  OBVIOUS
<1>5. n # 0
  <2>1. SUFFICES ASSUME n = 0 PROVE FALSE
    OBVIOUS
  <2>2. PICK g : g = [p \in D |-> p]
    OBVIOUS
  <2>3. g = [p \in D |-> g[p]] /\ Right(g, n)
    BY <2>1, <2>2
  <2> QED
    BY <2>3
<1>6. n - 1 \notin T /\ n - 1 \in Nat
  <2>1. n - 1 \in Nat /\ ~(n <= n - 1)
    BY <1>4, <1>5
  <2> HIDE DEF T
  <2> QED
    BY <1>3, <2>1
<1>7. PICK g : g = [p \in D |-> g[p]] /\ Right(g, n - 1)
  BY <1>6
<1>8. PICK h : h = After(g)
  OBVIOUS
<1>9. h = [p \in D |-> h[p]]
  BY <1>8
<1>10. ASSUME NEW p \in D, rank[p] < n
       PROVE  h[p] = After(h)[p]
  <2>1. CASE p \in L
    BY <1>8, <2>1
  <2>2. CASE p \notin L
    <3>1. PICK c \in D : c = next[p]
      BY <2>2
    <3>2. rank[c] < n - 1
      <4>1. rank[c] \in Nat /\ rank[p] \in Nat /\ rank[c] < rank[p]
        BY <2>2, <3>1
      <4> QED
        BY <1>4, <1>10, <4>1
    <3>3. g[c] = After(g)[c]
      BY <1>7, <3>2
    <3>4. h[p] = <<p>> \o g[c] /\ After(h)[p] = <<p>> \o h[c]
      BY <1>8, <2>2, <3>1
    <3> QED
      BY <1>8, <3>3, <3>4
  <2> QED
    BY <2>1, <2>2
<1>11. Right(h, n)
  BY <1>10
<1> QED
  BY <1>9, <1>11

\* s is the leaves that begin at low or above it, in the order of their bounds.
InOrder(s, low, lo, hi) ==
  /\ s \in Seq(Leaves)
  /\ \A q \in Leaves : low <= lo[q] <=> \E i \in 1 .. Len(s) : s[i] = q
  /\ \A i, j \in 1 .. Len(s) : i < j => hi[s[i]] # -1 /\ hi[s[i]] <= lo[s[j]]

LEMMA LastInOrder ==
  ASSUME IInv, NEW lo, NEW hi, NEW level, NEW up, Tree(nodes, Allocated, lo, hi, level, up),
         NEW p \in Leaves, nodes[p].next = NoPage
  PROVE  InOrder(<<p>>, lo[p], lo, hi)
<1> DEFINE s == <<p>>
<1>1. s \in Seq(Leaves) /\ Len(s) = 1 /\ s[1] = p
  OBVIOUS
<1>2. hi[p] = -1 /\ lo[p] \in Int
  BY LeafAndNext
<1> HIDE DEF s
<1>3. \A q \in Leaves : lo[p] <= lo[q] => q = p
  BY <1>2, LeavesApart
<1>4. \A q \in Leaves : lo[p] <= lo[q] <=> \E i \in 1 .. Len(s) : s[i] = q
  BY <1>1, <1>2, <1>3
<1>5. \A i, j \in 1 .. Len(s) : ~(i < j)
  BY <1>1
<1>6. InOrder(s, lo[p], lo, hi)
  BY <1>1, <1>4, <1>5 DEF InOrder
<1> QED
  BY <1>6 DEF s

LEMMA MoreInOrder ==
  ASSUME IInv, NEW lo, NEW hi, NEW level, NEW up, Tree(nodes, Allocated, lo, hi, level, up),
         NEW p \in Leaves, nodes[p].next # NoPage, NEW s, InOrder(s, lo[nodes[p].next], lo, hi)
  PROVE  InOrder(<<p>> \o s, lo[p], lo, hi)
<1> DEFINE r == <<p>> \o s
<1>1. /\ lo[p] \in Nat \cup {-1} /\ lo[p] \in Int /\ hi[p] \in Nat /\ lo[p] < hi[p]
      /\ lo[nodes[p].next] = hi[p]
  BY LeafAndNext
<1>2. PICK low \in Nat : low = hi[p]
  BY <1>1
<1>3. InOrder(s, low, lo, hi)
  BY <1>1, <1>2
<1>4. \A q \in Leaves : lo[q] \in Int /\ hi[q] \in Int
  BY LeafAndNext
<1>5. s \in Seq(Leaves) /\ Len(s) \in Nat
  BY <1>3 DEF InOrder
<1>6. /\ r \in Seq(Leaves) /\ Len(r) = Len(s) + 1 /\ r[1] = p
      /\ \A i \in 1 .. Len(s) : r[i + 1] = s[i]
  BY <1>5
<1> HIDE DEF r
<1>7. \A i \in 1 .. Len(s) : s[i] \in Leaves
  BY <1>5
<1>8. \A i \in 1 .. Len(s) : low <= lo[s[i]]
  BY <1>3, <1>7 DEF InOrder
<1>9. ASSUME NEW q \in Leaves
      PROVE  lo[p] <= lo[q] <=> \E i \in 1 .. Len(r) : r[i] = q
  <2>1. CASE q = p
    <3>1. 1 \in 1 .. Len(r)
      BY <1>5, <1>6
    <3> QED
      BY <1>1, <1>6, <2>1, <3>1
  <2>2. CASE q # p
    <3>1. lo[p] <= lo[q] <=> low <= lo[q]
      <4>1. lo[p] <= lo[q] => ~(lo[q] < hi[p])
        BY <2>2, LeavesApart
      <4> QED
        BY <1>1, <1>2, <1>4, <4>1
    <3>2. low <= lo[q] <=> \E i \in 1 .. Len(s) : s[i] = q
      BY <1>3 DEF InOrder
    <3>3. (\E i \in 1 .. Len(s) : s[i] = q) => \E i \in 1 .. Len(r) : r[i] = q
      <4>1. \A i \in 1 .. Len(s) : i + 1 \in 1 .. Len(r)
        BY <1>5, <1>6
      <4> QED
        BY <1>6, <4>1
    <3>4. (\E i \in 1 .. Len(r) : r[i] = q) => \E i \in 1 .. Len(s) : s[i] = q
      <4>1. SUFFICES ASSUME NEW i \in 1 .. Len(r), r[i] = q PROVE \E j \in 1 .. Len(s) : s[j] = q
        OBVIOUS
      <4>2. i # 1
        BY <1>6, <2>2, <4>1
      <4>3. PICK j \in 1 .. Len(s) : i = j + 1
        <5>1. i - 1 \in 1 .. Len(s) /\ i = (i - 1) + 1
          BY <1>5, <1>6, <4>2
        <5> QED
          BY <5>1
      <4> QED
        BY <1>6, <4>1, <4>3
    <3> QED
      BY <3>1, <3>2, <3>3, <3>4
  <2> QED
    BY <2>1, <2>2
<1>10. ASSUME NEW i \in 1 .. Len(r), NEW j \in 1 .. Len(r), i < j
       PROVE  hi[r[i]] # -1 /\ hi[r[i]] <= lo[r[j]]
  <2>1. PICK l \in 1 .. Len(s) : j = l + 1
    <3>1. j - 1 \in 1 .. Len(s) /\ j = (j - 1) + 1
      BY <1>5, <1>6, <1>10
    <3> QED
      BY <3>1
  <2>2. r[j] = s[l]
    BY <1>6, <2>1
  <2>3. CASE i = 1
    BY <1>2, <1>6, <1>8, <2>2, <2>3
  <2>4. CASE i # 1
    <3>1. PICK k \in 1 .. Len(s) : i = k + 1
      <4>1. i - 1 \in 1 .. Len(s) /\ i = (i - 1) + 1
        BY <1>5, <1>6, <2>4
      <4> QED
        BY <4>1
    <3>2. r[i] = s[k] /\ k < l
      BY <1>6, <1>10, <2>1, <3>1
    <3>3. hi[s[k]] # -1 /\ hi[s[k]] <= lo[s[l]]
      BY <1>3, <3>2 DEF InOrder
    <3> QED
      BY <2>2, <3>2, <3>3
  <2> QED
    BY <2>3, <2>4
<1>11. InOrder(r, lo[p], lo, hi)
  BY <1>6, <1>9, <1>10 DEF InOrder
<1> QED
  BY <1>11 DEF r

\* A function with the leaves from each leaf on.
LEMMA ChainOf ==
  ASSUME IInv, NEW lo, NEW hi, NEW level, NEW up, Tree(nodes, Allocated, lo, hi, level, up)
  PROVE  \E chain : /\ ChainFrom(FirstLeaf) = chain[FirstLeaf]
                    /\ \A p \in Leaves :
                         chain[p] = IF nodes[p].next = NoPage THEN <<p>>
                                    ELSE <<p>> \o chain[nodes[p].next]
<1> DEFINE chain == CHOOSE f : f = [q \in LeafPages |-> IF nodes[q].next = NoPage THEN <<q>>
                                                       ELSE <<q>> \o f[nodes[q].next]]
           next == [p \in Leaves |-> nodes[p].next]
           ends == {p \in Leaves : nodes[p].next = NoPage}
           begin == [p \in Pages |-> lo[p] + 1]
<1>1. ChainFrom(FirstLeaf) = chain[FirstLeaf]
  BY DEF ChainFrom
<1>2. LeafPages = Leaves
  BY TreeIn
<1>3. \A p \in Leaves :
        /\ p \in Pages /\ lo[p] \in Nat \cup {-1} /\ (hi[p] = -1 \/ lo[p] < hi[p])
        /\ nodes[p].next # NoPage =>
             nodes[p].next \in Leaves /\ hi[p] \in Nat /\ lo[nodes[p].next] = hi[p]
  BY LeafAndNext
<1>4. begin \in [Pages -> Nat]
  BY TreeTypes
<1>5. PICK b \in Nat : \A p \in Pages : begin[p] < b
  <2> HIDE DEF begin
  <2> QED
    BY <1>4, LevelsBounded
<1>6. PICK left : left = [p \in Leaves |-> b - (lo[p] + 1)]
  OBVIOUS
<1>7. \A p \in Leaves : left[p] \in Nat /\ left[p] < b + 1
  <2>1. SUFFICES ASSUME NEW p \in Leaves PROVE left[p] \in Nat /\ left[p] < b + 1
    OBVIOUS
  <2>2. begin[p] < b /\ begin[p] = lo[p] + 1 /\ lo[p] + 1 \in Nat
    BY <1>3, <1>5
  <2>3. left[p] = b - (lo[p] + 1)
    BY <1>6
  <2> HIDE DEF begin
  <2> QED
    BY <2>2, <2>3
<1>8. ASSUME NEW p \in Leaves, p \notin ends
      PROVE  next[p] \in Leaves /\ left[next[p]] < left[p]
  <2>1. PICK n \in Leaves : n = next[p] /\ hi[p] \in Nat /\ lo[n] = hi[p]
    BY <1>3, <1>8
  <2>2. lo[p] < lo[n] /\ lo[p] \in Int /\ lo[n] \in Int
    BY <1>3, <2>1
  <2>3. left[p] = b - (lo[p] + 1) /\ left[n] = b - (lo[n] + 1)
    BY <1>6
  <2> HIDE DEF next
  <2> QED
    BY <2>1, <2>2, <2>3
<1>9. GoesOn(Leaves, ends, next)
  <2>1. PICK D1 : D1 = Leaves
    OBVIOUS
  <2>2. PICK L1 : L1 = ends
    OBVIOUS
  <2>3. PICK next1 : next1 = next
    OBVIOUS
  <2> HIDE DEF ends, next, begin
  <2>4. \A p \in D1 : left[p] \in Nat
    BY <1>7, <2>1
  <2>5. \A p \in D1 : left[p] < b + 1
    BY <1>7, <2>1
  <2>6. \A p \in D1 : p \notin L1 => next1[p] \in D1 /\ left[next1[p]] < left[p]
    BY <1>8, <2>1, <2>2, <2>3
  <2>7. PICK b1 \in Nat : b1 = b + 1
    OBVIOUS
  <2>8. GoesOn(D1, L1, next1)
    BY <2>4, <2>5, <2>6, <2>7, GoingOn
  <2> QED
    BY <2>1, <2>2, <2>3, <2>8
<1>10. PICK g : g = [p \in Leaves |-> IF p \in ends THEN <<p>> ELSE <<p>> \o g[next[p]]]
  <2> HIDE DEF ends, next
  <2> QED
    BY <1>9 DEF GoesOn
<1>11. /\ \A p \in Leaves : next[p] = nodes[p].next
       /\ \A p \in Leaves : p \in ends <=> nodes[p].next = NoPage
  OBVIOUS
<1> HIDE DEF next, ends, begin
<1>12. g = [q \in LeafPages |-> IF nodes[q].next = NoPage THEN <<q>>
                                ELSE <<q>> \o g[nodes[q].next]]
  BY <1>2, <1>10, <1>11
<1>13. chain = [q \in LeafPages |-> IF nodes[q].next = NoPage THEN <<q>>
                                    ELSE <<q>> \o chain[nodes[q].next]]
  BY <1>12
<1> HIDE DEF chain
<1>14. \A p \in Leaves : chain[p] = IF nodes[p].next = NoPage THEN <<p>>
                                    ELSE <<p>> \o chain[nodes[p].next]
  BY <1>2, <1>13
<1> QED
  BY <1>1, <1>14

\* The chain has all leaves, in the order of their bounds.
LEMMA ChainInOrder ==
  ASSUME IInv, NEW lo, NEW hi, NEW level, NEW up, Tree(nodes, Allocated, lo, hi, level, up)
  PROVE  InOrder(ChainFrom(FirstLeaf), -1, lo, hi)
<1>1. PICK chain : /\ ChainFrom(FirstLeaf) = chain[FirstLeaf]
                   /\ \A p \in Leaves :
                        chain[p] = IF nodes[p].next = NoPage THEN <<p>>
                                   ELSE <<p>> \o chain[nodes[p].next]
  BY ChainOf
<1> DEFINE begin == [p \in Pages |-> lo[p] + 1]
           Bad(p) == ~InOrder(chain[p], lo[p], lo, hi)
<1>2. begin \in [Pages -> Nat]
  BY TreeTypes
<1>3. PICK b \in Nat : \A p \in Pages : begin[p] < b
  <2> HIDE DEF begin
  <2> QED
    BY <1>2, LevelsBounded
<1>4. \A p \in Leaves : lo[p] \in Nat \cup {-1} /\ b - lo[p] \in Nat
  <2>1. SUFFICES ASSUME NEW p \in Leaves PROVE lo[p] \in Nat \cup {-1} /\ b - lo[p] \in Nat
    OBVIOUS
  <2>2. p \in Pages /\ lo[p] \in Nat \cup {-1}
    BY LeafAndNext
  <2>3. begin[p] < b /\ begin[p] = lo[p] + 1
    BY <1>3, <2>2
  <2> HIDE DEF begin
  <2> QED
    BY <2>2, <2>3
<1> HIDE DEF begin
<1> DEFINE T == {n \in Nat : \E p \in Leaves : Bad(p) /\ n = b - lo[p]}
<1>5. ASSUME NEW q \in Leaves, Bad(q) PROVE FALSE
  <2>1. T # {}
    <3> HIDE DEF Bad
    <3> QED
      BY <1>4, <1>5
  <2>2. PICK n \in T : \A m \in T : n <= m
    <3>1. T \subseteq Nat
      OBVIOUS
    <3> HIDE DEF T
    <3> QED
      BY <2>1, <3>1, LeastNatural
  <2>3. PICK p \in Leaves : Bad(p) /\ n = b - lo[p]
    <3> HIDE DEF Bad
    <3> QED
      OBVIOUS
  <2>4. nodes[p].next # NoPage
    <3>1. SUFFICES ASSUME nodes[p].next = NoPage PROVE FALSE
      OBVIOUS
    <3>2. chain[p] = <<p>>
      BY <1>1, <3>1
    <3>3. InOrder(<<p>>, lo[p], lo, hi)
      BY <3>1, LastInOrder
    <3> QED
      BY <2>3, <3>2, <3>3
  <2>5. PICK c \in Leaves : c = nodes[p].next /\ lo[p] < lo[c]
    BY <2>4, LeafAndNext
  <2>6. ~Bad(c)
    <3>1. SUFFICES ASSUME Bad(c) PROVE FALSE
      OBVIOUS
    <3>2. b - lo[c] \in T
      <4> HIDE DEF Bad
      <4> QED
        BY <1>4, <3>1
    <3>3. n <= b - lo[c]
      BY <2>2, <3>2
    <3>4. lo[c] \in Int /\ lo[p] \in Int
      BY <1>4
    <3> QED
      BY <2>3, <2>5, <3>3, <3>4
  <2>7. PICK s : s = chain[c]
    OBVIOUS
  <2>8. InOrder(s, lo[nodes[p].next], lo, hi)
    BY <2>5, <2>6, <2>7
  <2>9. InOrder(<<p>> \o s, lo[p], lo, hi)
    BY <2>4, <2>8, MoreInOrder
  <2>10. chain[p] = <<p>> \o s
    BY <1>1, <2>4, <2>5, <2>7
  <2> QED
    BY <2>3, <2>9, <2>10
<1>6. FirstLeaf \in Leaves /\ lo[FirstLeaf] = -1
  <2>1. FirstLeaf \in Allocated /\ lo[FirstLeaf] = -1 /\ level[FirstLeaf] = 0
    BY DEF Tree
  <2>2. ~IsInner(nodes[FirstLeaf])
    <3>1. SUFFICES ASSUME IsInner(nodes[FirstLeaf]) PROVE FALSE
      OBVIOUS
    <3>2. PICK p \in Allocated : p = FirstLeaf
      BY <2>1
    <3>3. PICK c : c = Leftmost(nodes[p])
      OBVIOUS
    <3>4. c \in Allocated /\ level[p] = level[c] + 1
      BY <3>1, <3>2, <3>3, TreeIn, LeftmostChild
    <3>5. level[c] \in Nat
      BY <3>4, TreeTypes DEF Allocated
    <3> QED
      BY <2>1, <3>2, <3>4, <3>5
  <2> QED
    BY <2>1, <2>2, TreeIn
<1>7. InOrder(chain[FirstLeaf], -1, lo, hi)
  BY <1>5, <1>6
<1> QED
  BY <1>1, <1>7

\* The chain of the leaves has every leaf once and the keys in ascending order, also between
\* the steps of insertions that split leaves and while scans go along it.
THEOREM ChainStaysSorted == Spec => []ChainIsSorted
<1>1. IInv /\ KInv => ChainIsSorted
  <2>1. SUFFICES ASSUME IInv, KInv PROVE ChainIsSorted
    OBVIOUS
  <2>2. PICK lo, hi, level, up : Tree(nodes, Allocated, lo, hi, level, up)
    BY <2>1 DEF KInv, TreeOK
  <2>3. PICK chain : chain = ChainFrom(FirstLeaf)
    OBVIOUS
  <2>4. InOrder(chain, -1, lo, hi)
    BY <2>1, <2>2, <2>3, ChainInOrder
  <2>5. chain \in Seq(Leaves) /\ DOMAIN chain = 1 .. Len(chain)
    BY <2>4 DEF InOrder
  <2>6. \A i \in DOMAIN chain : chain[i] \in Leaves
    BY <2>5
  <2>7. \A p \in Leaves : lo[p] \in Nat \cup {-1} /\ hi[p] \in Nat \cup {-1}
                          /\ (hi[p] = -1 \/ lo[p] < hi[p])
    BY <2>1, <2>2, LeafAndNext
  <2>8. LeafPages = Leaves
    BY <2>1, TreeIn
  <2>9. Range(chain) = LeafPages
    <3>1. \A q \in Leaves : \E i \in DOMAIN chain : chain[i] = q
      BY <2>4, <2>5, <2>7 DEF InOrder
    <3> QED
      BY <2>6, <2>8, <3>1 DEF Range
  <2>10. ASSUME NEW i \in DOMAIN chain, NEW j \in DOMAIN chain, i < j
         PROVE  hi[chain[i]] \in Nat /\ hi[chain[i]] <= lo[chain[j]]
    BY <2>4, <2>5, <2>6, <2>7, <2>10 DEF InOrder
  <2>11. IsInjective(chain)
    <3>1. ASSUME NEW i \in DOMAIN chain, NEW j \in DOMAIN chain, i < j
          PROVE  chain[i] # chain[j]
      BY <2>6, <2>7, <2>10, <3>1
    <3>2. \A i, j \in DOMAIN chain : i = j \/ i < j \/ j < i
      BY <2>5
    <3> QED
      BY <3>1, <3>2 DEF IsInjective
  <2>12. ASSUME NEW p \in Leaves
         PROVE  /\ nodes[p].keys \in Seq(Nat) /\ SortedKeys(nodes[p].keys)
                /\ \A key \in Range(nodes[p].keys) : key \in Nat /\ Within(key, lo[p], hi[p])
    <3>1. p \in Allocated
      BY DEF Leaves
    <3>2. PICK keys : keys = nodes[p].keys
      OBVIOUS
    <3>3. keys \in Seq(Nat)
      BY <2>1, <3>1, <3>2, TreeIn, NodeFields
    <3>4. KeysOK(nodes[p], lo[p], hi[p])
      BY <2>2, <3>1 DEF Tree
    <3>5. \A i \in 1 .. Len(keys) : keys[i] \in Nat /\ Within(keys[i], lo[p], hi[p])
      BY <3>2, <3>3, <3>4 DEF KeysOK
    <3>6. \A key \in Range(keys) : key \in Nat /\ Within(key, lo[p], hi[p])
      BY <3>3, <3>5 DEF Range
    <3> QED
      BY <3>2, <3>3, <3>4, <3>6 DEF KeysOK
  <2>13. ASSUME NEW i \in DOMAIN chain PROVE Ascending(nodes[chain[i]].keys)
    <3>1. PICK keys \in Seq(Nat) : keys = nodes[chain[i]].keys /\ SortedKeys(keys)
      BY <2>6, <2>12
    <3> QED
      BY <3>1 DEF Ascending, SortedKeys
  <2>14. ASSUME NEW i \in DOMAIN chain, NEW j \in DOMAIN chain, i < j,
                NEW key \in Range(nodes[chain[i]].keys), NEW later \in Range(nodes[chain[j]].keys)
         PROVE  key < later
    <3>1. PICK p \in Leaves, q \in Leaves : p = chain[i] /\ q = chain[j]
      BY <2>6
    <3>2. /\ key \in Nat /\ Within(key, lo[p], hi[p])
          /\ later \in Nat /\ Within(later, lo[q], hi[q])
      BY <2>12, <2>14, <3>1
    <3>3. hi[p] \in Nat /\ hi[p] <= lo[q] /\ lo[q] \in Int
      BY <2>7, <2>10, <2>14, <3>1
    <3> QED
      BY <3>2, <3>3 DEF Within
  <2> QED
    BY <2>3, <2>9, <2>11, <2>13, <2>14 DEF ChainIsSorted
<1> QED
  BY <1>1, TreeIsInductive, PTL
=============================================================================
