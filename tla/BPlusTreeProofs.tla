--------------------------- MODULE BPlusTreeProofs --------------------------
(***************************************************************************)
(* Proofs about BPlusTree, for any number of threads, pages and calls, any *)
(* degrees and any load: its type invariant, and that changed pages are    *)
(* marked before they are unfixed.                                         *)
(***************************************************************************)
EXTENDS BPlusTree, FiniteSetTheorems, SequenceTheorems, TLAPS

---------------------------------------------------------------------------
(* Sequences *)

\* The index that a node looks for a key at is one of its entries or behind the last one.
LEMMA LowerBoundType ==
  ASSUME NEW keys \in Seq(Nat), NEW key \in Nat
  PROVE  LowerBound(keys, key) \in 0 .. Len(keys)
<1> DEFINE less == {i \in DOMAIN keys : keys[i] < key}
           n == Len(keys)
<1>1. less \in SUBSET (1 .. n) /\ n \in Nat /\ n \in Int /\ 1 \in Int
  OBVIOUS
<1>2. LowerBound(keys, key) = Cardinality(less)
  BY DEF LowerBound
<1> HIDE DEF less, n
<1>3. IsFiniteSet(1 .. n) /\ Cardinality(1 .. n) = IF 1 > n THEN 0 ELSE n - 1 + 1
  BY <1>1, FS_Interval
<1>4. Cardinality(1 .. n) = n
  BY <1>1, <1>3
<1>5. IsFiniteSet(less) /\ Cardinality(less) <= Cardinality(1 .. n)
  BY <1>1, <1>3, FS_Subset
<1>6. Cardinality(less) \in Nat
  BY <1>5, FS_CardinalityType
<1>7. Cardinality(less) \in 0 .. n
  BY <1>1, <1>4, <1>5, <1>6
<1> QED
  BY <1>2, <1>7 DEF n

\* A part of a sequence.
LEMMA SubSeqType ==
  ASSUME NEW S, NEW s \in Seq(S), NEW m \in Nat, NEW n \in Nat, 1 <= m, n <= Len(s), m <= n + 1
  PROVE  /\ SubSeq(s, m, n) \in Seq(S)
         /\ Len(SubSeq(s, m, n)) = n - m + 1
OBVIOUS

LEMMA InsertAtType ==
  ASSUME NEW S, NEW s \in Seq(S), NEW i \in 1 .. Len(s) + 1, NEW e \in S
  PROVE  /\ InsertAt(s, i, e) \in Seq(S)
         /\ Len(InsertAt(s, i, e)) = Len(s) + 1
<1>1. Len(s) \in Nat /\ i \in Nat /\ i - 1 \in Nat
  OBVIOUS
<1>2. SubSeq(s, 1, i - 1) \in Seq(S) /\ Len(SubSeq(s, 1, i - 1)) = i - 1
  BY <1>1, SubSeqType
<1>3. SubSeq(s, i, Len(s)) \in Seq(S) /\ Len(SubSeq(s, i, Len(s))) = Len(s) - i + 1
  BY <1>1, SubSeqType
<1>4. <<e>> \in Seq(S) /\ Len(<<e>>) = 1
  OBVIOUS
<1> DEFINE front == SubSeq(s, 1, i - 1) \o <<e>>
<1>5. front \in Seq(S) /\ Len(front) = i
  BY <1>1, <1>2, <1>4, ConcatProperties
<1> HIDE DEF front
<1>6. /\ front \o SubSeq(s, i, Len(s)) \in Seq(S)
      /\ Len(front \o SubSeq(s, i, Len(s))) = Len(s) + 1
  BY <1>1, <1>3, <1>5, ConcatProperties
<1> QED
  BY <1>6 DEF InsertAt, front

LEMMA RemoveAtType ==
  ASSUME NEW S, NEW s \in Seq(S), NEW i \in 1 .. Len(s)
  PROVE  /\ RemoveAt(s, i) \in Seq(S)
         /\ Len(RemoveAt(s, i)) = Len(s) - 1
<1> DEFINE front == SubSeq(s, 1, i - 1)
           back == SubSeq(s, i + 1, Len(s))
<1>1. Len(s) \in Nat /\ i \in Nat /\ i - 1 \in Nat
  OBVIOUS
<1>2. front \in Seq(S) /\ Len(front) = i - 1
  BY <1>1, SubSeqType
<1>3. back \in Seq(S) /\ Len(back) = Len(s) - i
  BY <1>1, SubSeqType
<1>4. RemoveAt(s, i) = front \o back
  BY DEF RemoveAt
<1> HIDE DEF front, back
<1>5. front \o back \in Seq(S) /\ Len(front \o back) = Len(front) + Len(back)
  BY <1>2, <1>3, ConcatProperties
<1>6. i - 1 + (Len(s) - i) = Len(s) - 1
  BY <1>1
<1> QED
  BY <1>2, <1>3, <1>4, <1>5, <1>6

---------------------------------------------------------------------------
(* Nodes whose pages are in a set A *)

InnerIn(A) ==
  {n \in [leaf : {FALSE}, keys : Seq(Nat), children : Seq(A)] :
     Size(n) < 2 * InnerDegree /\ Len(n.children) = Size(n) + 1}

LeafIn(A) ==
  {n \in [leaf : {TRUE}, keys : Seq(Nat), values : Seq(Values), next : A \cup {NoPage}] :
     Size(n) < 2 * LeafDegree /\ Len(n.values) = Size(n)}

TreeNodes(A) == InnerIn(A) \cup LeafIn(A)

LEMMA Degrees == /\ InnerDegree \in Nat /\ InnerDegree >= 2 /\ 2 * InnerDegree \in Nat
                 /\ LeafDegree \in Nat /\ LeafDegree >= 2 /\ 2 * LeafDegree \in Nat
BY DegreesAssumption

LEMMA InnerFields ==
  ASSUME NEW A, NEW n \in InnerIn(A)
  PROVE  /\ n.leaf = FALSE /\ n.keys \in Seq(Nat) /\ n.children \in Seq(A)
         /\ Len(n.keys) \in Nat /\ Size(n) = Len(n.keys)
         /\ Len(n.keys) < 2 * InnerDegree
         /\ Len(n.children) = Len(n.keys) + 1
         /\ HasFreeSpace(n) <=> Len(n.keys) + 1 < 2 * InnerDegree
<1>1. n \in [leaf : {FALSE}, keys : Seq(Nat), children : Seq(A)]
  BY DEF InnerIn
<1>2. n.leaf = FALSE /\ n.keys \in Seq(Nat) /\ n.children \in Seq(A)
  BY <1>1
<1>3. Len(n.keys) \in Nat
  BY <1>2
<1>4. Len(n.keys) < 2 * InnerDegree /\ Len(n.children) = Len(n.keys) + 1
  BY DEF InnerIn, Size
<1> QED
  BY <1>2, <1>3, <1>4 DEF HasFreeSpace, Size

LEMMA LeafFields ==
  ASSUME NEW A, NEW n \in LeafIn(A)
  PROVE  /\ n.leaf = TRUE /\ n.keys \in Seq(Nat) /\ n.values \in Seq(Values)
         /\ n.next \in A \cup {NoPage}
         /\ Len(n.keys) \in Nat /\ Size(n) = Len(n.keys)
         /\ Len(n.keys) < 2 * LeafDegree
         /\ Len(n.values) = Len(n.keys)
         /\ HasFreeSpace(n) <=> Len(n.keys) + 1 < 2 * LeafDegree
<1>1. n \in [leaf : {TRUE}, keys : Seq(Nat), values : Seq(Values), next : A \cup {NoPage}]
  BY DEF LeafIn
<1>2. /\ n.leaf = TRUE /\ n.keys \in Seq(Nat) /\ n.values \in Seq(Values)
      /\ n.next \in A \cup {NoPage}
  BY <1>1
<1>3. Len(n.keys) \in Nat
  BY <1>2
<1>4. Len(n.keys) < 2 * LeafDegree /\ Len(n.values) = Len(n.keys)
  BY DEF LeafIn, Size
<1> QED
  BY <1>2, <1>3, <1>4 DEF HasFreeSpace, Size

LEMMA InnerMade ==
  ASSUME NEW A, NEW keys \in Seq(Nat), NEW children \in Seq(A),
         Len(keys) < 2 * InnerDegree, Len(children) = Len(keys) + 1
  PROVE  InnerNode(keys, children) \in InnerIn(A)
<1> DEFINE n == [leaf |-> FALSE, keys |-> keys, children |-> children]
<1>1. n \in [leaf : {FALSE}, keys : Seq(Nat), children : Seq(A)]
  OBVIOUS
<1>2. n.keys = keys /\ n.children = children
  OBVIOUS
<1> HIDE DEF n
<1>3. n \in InnerIn(A)
  BY <1>1, <1>2 DEF InnerIn, Size
<1> QED
  BY <1>3 DEF InnerNode, n

LEMMA LeafMade ==
  ASSUME NEW A, NEW keys \in Seq(Nat), NEW values \in Seq(Values), NEW next \in A \cup {NoPage},
         Len(keys) < 2 * LeafDegree, Len(values) = Len(keys)
  PROVE  LeafNode(keys, values, next) \in LeafIn(A)
<1> DEFINE n == [leaf |-> TRUE, keys |-> keys, values |-> values, next |-> next]
<1>1. n \in [leaf : {TRUE}, keys : Seq(Nat), values : Seq(Values), next : A \cup {NoPage}]
  OBVIOUS
<1>2. n.keys = keys /\ n.values = values
  OBVIOUS
<1> HIDE DEF n
<1>3. n \in LeafIn(A)
  BY <1>1, <1>2 DEF LeafIn, Size
<1> QED
  BY <1>3 DEF LeafNode, n

LEMMA LargerIn ==
  ASSUME NEW A, NEW B, A \subseteq B
  PROVE  /\ InnerIn(A) \subseteq InnerIn(B)
         /\ LeafIn(A) \subseteq LeafIn(B)
         /\ TreeNodes(A) \subseteq TreeNodes(B)
<1>1. Seq(A) \subseteq Seq(B)
  OBVIOUS
<1>2. InnerIn(A) \subseteq InnerIn(B)
  BY <1>1 DEF InnerIn
<1>3. LeafIn(A) \subseteq LeafIn(B)
  BY DEF LeafIn
<1> QED
  BY <1>2, <1>3 DEF TreeNodes

\* lookup in an inner node gives one of its children.
LEMMA InnerLookupType ==
  ASSUME NEW A, NEW n \in InnerIn(A), NEW key \in Nat
  PROVE  InnerLookup(n, key) \in A /\ Leftmost(n) \in A
<1>1. /\ n.keys \in Seq(Nat) /\ n.children \in Seq(A) /\ Len(n.keys) \in Nat
      /\ Len(n.children) = Len(n.keys) + 1
  BY InnerFields
<1>2. LowerBound(n.keys, key) \in 0 .. Len(n.keys)
  BY <1>1, LowerBoundType
<1>3. 1 \in 1 .. Len(n.children) /\ LowerBound(n.keys, key) + 1 \in 1 .. Len(n.children)
  BY <1>1, <1>2
<1> QED
  BY <1>1, <1>3, ElementOfSeq DEF InnerLookup, Leftmost

LEMMA InnerInsertType ==
  ASSUME NEW A, NEW n \in InnerIn(A), HasFreeSpace(n), NEW key \in Nat, NEW page \in A
  PROVE  InnerInsert(n, key, page) \in InnerIn(A)
<1> DEFINE k == LowerBound(n.keys, key)
           keys == InsertAt(n.keys, k + 1, key)
           children == InsertAt(n.children, k + 2, page)
<1>1. /\ n.keys \in Seq(Nat) /\ n.children \in Seq(A) /\ Len(n.children) = Len(n.keys) + 1
      /\ Len(n.keys) \in Nat /\ Len(n.keys) + 1 < 2 * InnerDegree
  BY InnerFields
<1>2. k \in 0 .. Len(n.keys)
  BY <1>1, LowerBoundType
<1> HIDE DEF k
<1>3. k + 1 \in 1 .. Len(n.keys) + 1 /\ k + 2 \in 1 .. Len(n.children) + 1
  BY <1>1, <1>2
<1>4. keys \in Seq(Nat) /\ Len(keys) = Len(n.keys) + 1
  BY <1>1, <1>3, InsertAtType
<1>5. children \in Seq(A) /\ Len(children) = Len(n.children) + 1
  BY <1>1, <1>3, InsertAtType
<1>6. InnerInsert(n, key, page) = InnerNode(keys, children)
  BY DEF InnerInsert, k
<1> HIDE DEF keys, children
<1> QED
  BY <1>1, <1>4, <1>5, <1>6, InnerMade

\* A full inner node is split into two that have room, with a key between them.
LEMMA InnerSplitType ==
  ASSUME NEW A, NEW n \in InnerIn(A), ~HasFreeSpace(n)
  PROVE  /\ InnerSplit(n).old \in InnerIn(A)
         /\ InnerSplit(n).new \in InnerIn(A)
         /\ InnerSplit(n).splitter \in Nat
<1> DEFINE m == Len(n.keys)
           k == m \div 2
<1>1. /\ n.keys \in Seq(Nat) /\ n.children \in Seq(A) /\ Len(n.children) = m + 1
      /\ m \in Nat /\ Size(n) = m /\ m < 2 * InnerDegree /\ ~(m + 1 < 2 * InnerDegree)
  BY InnerFields
<1>2. /\ InnerSplit(n).old = InnerNode(SubSeq(n.keys, 1, k), SubSeq(n.children, 1, k + 1))
      /\ InnerSplit(n).new = InnerNode(SubSeq(n.keys, k + 2, m), SubSeq(n.children, k + 2, m + 1))
      /\ InnerSplit(n).splitter = n.keys[k + 1]
  BY <1>1 DEF InnerSplit
<1>3. m = Len(n.keys)
  OBVIOUS
<1> HIDE DEF m
<1>4. m >= 3
  BY <1>1, Degrees
<1>5. k \in Nat /\ 1 <= k /\ k + 1 <= m
  BY <1>1, <1>4
<1> HIDE DEF k
<1>6. SubSeq(n.keys, 1, k) \in Seq(Nat) /\ Len(SubSeq(n.keys, 1, k)) = k
  BY <1>1, <1>3, <1>5, SubSeqType
<1>7. SubSeq(n.children, 1, k + 1) \in Seq(A) /\ Len(SubSeq(n.children, 1, k + 1)) = k + 1
  BY <1>1, <1>5, SubSeqType
<1>8. SubSeq(n.keys, k + 2, m) \in Seq(Nat) /\ Len(SubSeq(n.keys, k + 2, m)) = m - k - 1
  BY <1>1, <1>3, <1>5, SubSeqType
<1>9. SubSeq(n.children, k + 2, m + 1) \in Seq(A) /\ Len(SubSeq(n.children, k + 2, m + 1)) = m - k
  BY <1>1, <1>5, SubSeqType
<1>10. k < 2 * InnerDegree /\ m - k - 1 < 2 * InnerDegree /\ m - k = m - k - 1 + 1
  BY <1>1, <1>5, Degrees
<1>11. InnerSplit(n).old \in InnerIn(A)
  BY <1>2, <1>6, <1>7, <1>10, InnerMade
<1>12. InnerSplit(n).new \in InnerIn(A)
  BY <1>2, <1>8, <1>9, <1>10, InnerMade
<1>13. n.keys[k + 1] \in Nat
  BY <1>1, <1>3, <1>5, ElementOfSeq
<1> QED
  BY <1>2, <1>11, <1>12, <1>13

LEMMA SplitRootType ==
  ASSUME NEW A, NEW n \in InnerIn(A), ~HasFreeSpace(n), NEW left \in A, NEW right \in A
  PROVE  SplitRoot(n, left, right) \in InnerIn(A)
<1> DEFINE keys == <<InnerSplit(n).splitter>>
           children == <<left, right>>
<1>1. InnerSplit(n).splitter \in Nat
  BY InnerSplitType
<1>2. SplitRoot(n, left, right) = InnerNode(keys, children)
  BY DEF SplitRoot
<1>3. children \in Seq(A) /\ Len(children) = 2
  OBVIOUS
<1>4. keys \in Seq(Nat) /\ Len(keys) = 1
  BY <1>1
<1>5. 1 < 2 * InnerDegree /\ 2 = 1 + 1
  BY Degrees
<1> HIDE DEF keys, children
<1> QED
  BY <1>2, <1>3, <1>4, <1>5, InnerMade

LEMMA LeafInsertType ==
  ASSUME NEW A, NEW n \in LeafIn(A), HasFreeSpace(n), NEW key \in Nat, NEW value \in Values
  PROVE  LeafInsert(n, key, value) \in LeafIn(A)
<1> DEFINE k == LowerBound(n.keys, key)
           keys == InsertAt(n.keys, k + 1, key)
           values == InsertAt(n.values, k + 1, value)
<1>1. /\ n.keys \in Seq(Nat) /\ n.values \in Seq(Values) /\ Len(n.values) = Len(n.keys)
      /\ n.next \in A \cup {NoPage}
      /\ Len(n.keys) \in Nat /\ Len(n.keys) + 1 < 2 * LeafDegree
  BY LeafFields
<1>2. k \in 0 .. Len(n.keys)
  BY <1>1, LowerBoundType
<1> HIDE DEF k
<1>3. k + 1 \in 1 .. Len(n.keys) + 1 /\ k + 1 \in 1 .. Len(n.values) + 1
  BY <1>1, <1>2
<1>4. keys \in Seq(Nat) /\ Len(keys) = Len(n.keys) + 1
  BY <1>1, <1>3, InsertAtType
<1>5. values \in Seq(Values) /\ Len(values) = Len(n.keys) + 1
  BY <1>1, <1>3, InsertAtType
<1>6. LeafInsert(n, key, value) = LeafNode(keys, values, n.next)
  BY DEF LeafInsert, k
<1> HIDE DEF keys, values
<1> QED
  BY <1>1, <1>4, <1>5, <1>6, LeafMade

\* What lookup and erase do at an index at which the key is.
LEMMA IsAtIndex ==
  ASSUME NEW A, NEW n \in LeafIn(A), NEW key \in Nat, IsAt(n, LowerBound(n.keys, key), key)
  PROVE  /\ LowerBound(n.keys, key) + 1 \in 1 .. Len(n.keys)
         /\ LowerBound(n.keys, key) + 1 \in 1 .. Len(n.values)
<1>1. n.keys \in Seq(Nat) /\ Len(n.values) = Len(n.keys) /\ Len(n.keys) \in Nat
      /\ Size(n) = Len(n.keys)
  BY LeafFields
<1>2. LowerBound(n.keys, key) \in 0 .. Len(n.keys)
  BY <1>1, LowerBoundType
<1>3. LowerBound(n.keys, key) < Len(n.keys)
  BY <1>1 DEF IsAt
<1> QED
  BY <1>1, <1>2, <1>3

LEMMA LeafLookupType ==
  ASSUME NEW A, NEW n \in LeafIn(A), NEW key \in Nat
  PROVE  LeafLookup(n, key) \in Values \cup {Default}
<1>1. n.values \in Seq(Values)
  BY LeafFields
<1>2. CASE IsAt(n, LowerBound(n.keys, key), key)
  <2>1. LowerBound(n.keys, key) + 1 \in 1 .. Len(n.values)
    BY <1>2, IsAtIndex
  <2> QED
    BY <1>1, <1>2, <2>1, ElementOfSeq DEF LeafLookup
<1>3. CASE ~IsAt(n, LowerBound(n.keys, key), key)
  BY <1>3 DEF LeafLookup
<1> QED
  BY <1>2, <1>3

LEMMA LeafEraseType ==
  ASSUME NEW A, NEW n \in LeafIn(A), NEW key \in Nat
  PROVE  LeafErase(n, key) \in LeafIn(A)
<1> DEFINE k == LowerBound(n.keys, key)
           keys == RemoveAt(n.keys, k + 1)
           values == RemoveAt(n.values, k + 1)
<1>1. CASE ~IsAt(n, k, key)
  BY <1>1 DEF LeafErase
<1>2. CASE IsAt(n, k, key)
  <2>1. /\ n.keys \in Seq(Nat) /\ n.values \in Seq(Values) /\ Len(n.values) = Len(n.keys)
        /\ n.next \in A \cup {NoPage}
        /\ Len(n.keys) \in Nat /\ Len(n.keys) < 2 * LeafDegree
    BY LeafFields
  <2>2. k + 1 \in 1 .. Len(n.keys) /\ k + 1 \in 1 .. Len(n.values)
    BY <1>2, IsAtIndex
  <2>3. LeafErase(n, key) = LeafNode(keys, values, n.next)
    BY <1>2 DEF LeafErase
  <2> HIDE DEF k
  <2>4. keys \in Seq(Nat) /\ Len(keys) = Len(n.keys) - 1
    BY <2>1, <2>2, RemoveAtType
  <2>5. values \in Seq(Values) /\ Len(values) = Len(n.keys) - 1
    BY <2>1, <2>2, RemoveAtType
  <2>6. Len(n.keys) - 1 < 2 * LeafDegree
    BY <2>1, Degrees
  <2> HIDE DEF keys, values
  <2> QED
    BY <2>1, <2>3, <2>4, <2>5, <2>6, LeafMade
<1> QED
  BY <1>1, <1>2

\* A full leaf is split into two that have room; the first one leads to the second.
LEMMA LeafSplitType ==
  ASSUME NEW A, NEW n \in LeafIn(A), ~HasFreeSpace(n), NEW page \in A
  PROVE  /\ LeafSplit(n, page).old \in LeafIn(A)
         /\ LeafSplit(n, page).new \in LeafIn(A)
         /\ LeafSplit(n, page).splitter \in Nat
<1> DEFINE m == Len(n.keys)
           k == (m + 1) \div 2
<1>1. /\ n.keys \in Seq(Nat) /\ n.values \in Seq(Values) /\ Len(n.values) = m
      /\ n.next \in A \cup {NoPage} /\ page \in A \cup {NoPage}
      /\ m \in Nat /\ Size(n) = m /\ m < 2 * LeafDegree /\ ~(m + 1 < 2 * LeafDegree)
  BY LeafFields
<1>2. /\ LeafSplit(n, page).old = LeafNode(SubSeq(n.keys, 1, k), SubSeq(n.values, 1, k), page)
      /\ LeafSplit(n, page).new = LeafNode(SubSeq(n.keys, k + 1, m), SubSeq(n.values, k + 1, m), n.next)
      /\ LeafSplit(n, page).splitter = n.keys[k]
  BY <1>1 DEF LeafSplit
<1>3. m = Len(n.keys)
  OBVIOUS
<1> HIDE DEF m
<1>4. m >= 3
  BY <1>1, Degrees
<1>5. k \in Nat /\ 1 <= k /\ k <= m
  BY <1>1, <1>4
<1> HIDE DEF k
<1>6. SubSeq(n.keys, 1, k) \in Seq(Nat) /\ Len(SubSeq(n.keys, 1, k)) = k
  BY <1>1, <1>3, <1>5, SubSeqType
<1>7. SubSeq(n.values, 1, k) \in Seq(Values) /\ Len(SubSeq(n.values, 1, k)) = k
  BY <1>1, <1>5, SubSeqType
<1>8. SubSeq(n.keys, k + 1, m) \in Seq(Nat) /\ Len(SubSeq(n.keys, k + 1, m)) = m - k
  BY <1>1, <1>3, <1>5, SubSeqType
<1>9. SubSeq(n.values, k + 1, m) \in Seq(Values) /\ Len(SubSeq(n.values, k + 1, m)) = m - k
  BY <1>1, <1>5, SubSeqType
<1>10. k < 2 * LeafDegree /\ m - k < 2 * LeafDegree
  BY <1>1, <1>5, Degrees
<1>11. LeafSplit(n, page).old \in LeafIn(A)
  BY <1>1, <1>2, <1>6, <1>7, <1>10, LeafMade
<1>12. LeafSplit(n, page).new \in LeafIn(A)
  BY <1>1, <1>2, <1>8, <1>9, <1>10, LeafMade
<1>13. n.keys[k] \in Nat
  BY <1>1, <1>3, <1>5, ElementOfSeq
<1> QED
  BY <1>2, <1>11, <1>12, <1>13

---------------------------------------------------------------------------
(* The inductive invariant *)

\* The pages of the tree, by what is in them.
Allocated == {p \in Pages : p < free}
InnerPages == {p \in Allocated : nodes[p].leaf = FALSE}
Leaves == {p \in Allocated : nodes[p].leaf = TRUE}

\* Children are in the tree, and a leaf leads to a leaf.
NodesOK ==
  /\ Allocated = InnerPages \cup Leaves
  /\ \A p \in InnerPages : nodes[p] \in InnerIn(Allocated)
  /\ \A p \in Leaves : nodes[p] \in LeafIn(Leaves)
  /\ \A p \in Pages \ Allocated : nodes[p] = Nil
  /\ Root \in InnerPages

Ops == [kind : Kinds \cup {"none"}, key : Nat, parent : Pages \cup {NoPage},
        node : Pages \cup {NoPage}, dirtyParent : BOOLEAN, index : 0 .. 2 * LeafDegree,
        last : Entries \cup {Nil}, count : Nat, result : Results]

OpsOK == op \in [Threads -> Ops] /\ load \in Seq(Nat)

LocksExclude == \A p \in Pages : exclusive[p] # Nil => shared[p] = {}

\* The pages that a thread has fixed at its place in the operation.
PlaceOK(t) ==
  /\ pc[t] \in {"descend", "scan", "next"} =>
       op[t].node \in Allocated /\ t \in shared[op[t].node]
  /\ pc[t] \in {"scan", "next"} => op[t].node \in Leaves
  /\ pc[t] = "scan" => op[t].index < Size(nodes[op[t].node])
  /\ pc[t] \in {"lockChild", "lockHalf"} =>
       op[t].node \in Allocated /\ op[t].parent \in InnerPages /\ exclusive[op[t].parent] = t
  /\ pc[t] = "place" => op[t].node \in Leaves /\ exclusive[op[t].node] = t

PlacesOK == \A t \in Threads : PlaceOK(t)

\* A page that has changed is the parent of the thread that has it fixed, and marked.
MarkOK(p) ==
  /\ exclusive[p] \in Threads
  /\ op[exclusive[p]].parent = p
  /\ op[exclusive[p]].dirtyParent = TRUE
  /\ pc[exclusive[p]] \in {"lockChild", "lockHalf"}

MarksOK == \A p \in unsaved : MarkOK(p)

IInv == TypeOK /\ OpsOK /\ NodesOK /\ LocksExclude /\ PlacesOK /\ MarksOK

---------------------------------------------------------------------------
(* What a step leaves alone *)

KindsKept == /\ Allocated \subseteq Allocated'
             /\ InnerPages \subseteq InnerPages'
             /\ Leaves \subseteq Leaves'

\* Thread u is where it was, with the pages it had; those it reads are what they were.
Undisturbed(u) ==
  /\ op'[u] = op[u] /\ pc'[u] = pc[u]
  /\ \A p \in Pages : /\ u \in shared[p] => u \in shared'[p]
                      /\ u \in shared[p] /\ p \in Allocated => nodes'[p] = nodes[p]
                      /\ exclusive[p] = u => exclusive'[p] = u

LEMMA NodeSets == InnerNodes = InnerIn(Pages) /\ LeafNodes = LeafIn(Pages)
BY DEF InnerNodes, LeafNodes, InnerIn, LeafIn

\* A thread that is undisturbed keeps its place, and the marks of its pages.
LEMMA Others ==
  ASSUME IInv, NEW u \in Threads, Undisturbed(u), KindsKept
  PROVE  /\ PlaceOK(u)'
         /\ \A p \in unsaved : exclusive[p] = u => MarkOK(p)'
<1>1. PlaceOK(u) /\ op'[u] = op[u] /\ pc'[u] = pc[u]
  BY DEF IInv, PlacesOK, Undisturbed
<1>2. /\ InnerPages \subseteq Pages /\ Leaves \subseteq Pages /\ Allocated \subseteq Pages
      /\ Leaves \subseteq Allocated
  BY DEF InnerPages, Leaves, Allocated
<1>3. PlaceOK(u)'
  <2>1. (pc[u] \in {"descend", "scan", "next"} =>
          op[u].node \in Allocated /\ u \in shared[op[u].node])'
    BY <1>1, <1>2 DEF PlaceOK, Undisturbed, KindsKept
  <2>2. (pc[u] \in {"scan", "next"} => op[u].node \in Leaves)'
    BY <1>1 DEF PlaceOK, KindsKept
  <2>3. (pc[u] = "scan" => op[u].index < Size(nodes[op[u].node]))'
    BY <1>1, <1>2 DEF PlaceOK, Undisturbed, Size
  <2>4. (pc[u] \in {"lockChild", "lockHalf"} =>
          op[u].node \in Allocated /\ op[u].parent \in InnerPages /\ exclusive[op[u].parent] = u)'
    BY <1>1, <1>2 DEF PlaceOK, Undisturbed, KindsKept
  <2>5. (pc[u] = "place" => op[u].node \in Leaves /\ exclusive[op[u].node] = u)'
    BY <1>1, <1>2 DEF PlaceOK, Undisturbed, KindsKept
  <2> QED
    BY <2>1, <2>2, <2>3, <2>4, <2>5 DEF PlaceOK
<1>4. ASSUME NEW p \in unsaved, exclusive[p] = u
      PROVE  MarkOK(p)'
  <2>1. p \in Pages /\ MarkOK(p)
    BY DEF IInv, TypeOK, MarksOK
  <2>2. exclusive'[p] = u
    BY <1>4, <2>1 DEF Undisturbed
  <2> QED
    BY <1>1, <1>4, <2>1, <2>2 DEF MarkOK
<1> QED
  BY <1>3, <1>4

\* A step after which the pages in L are leaves and the others of A are inner nodes.
LEMMA NodesStep ==
  ASSUME NEW A, NEW L, L \subseteq A, A = Allocated', Allocated \subseteq A,
         nodes' = [p \in Pages |-> nodes'[p]],
         \A p \in A \ L : nodes'[p] \in InnerIn(A),
         \A p \in L : nodes'[p] \in LeafIn(L),
         \A p \in Pages \ A : nodes'[p] = Nil,
         Root \in A \ L, InnerPages \subseteq A \ L, Leaves \subseteq L
  PROVE  /\ NodesOK' /\ KindsKept
         /\ nodes' \in [Pages -> InnerNodes \cup LeafNodes \cup {Nil}]
<1>1. A \subseteq Pages
  BY DEF Allocated, Pages
<1>2. \A p \in A \ L : nodes'[p].leaf = FALSE
  BY InnerFields
<1>3. \A p \in L : nodes'[p].leaf = TRUE
  BY LeafFields
<1>4. Leaves' = L /\ InnerPages' = A \ L
  BY <1>2, <1>3 DEF Leaves, InnerPages
<1>5. NodesOK'
  BY <1>4 DEF NodesOK, Pages
<1>6. KindsKept
  BY <1>4 DEF KindsKept
<1>7. InnerIn(A) \subseteq InnerNodes /\ LeafIn(L) \subseteq LeafNodes
  BY <1>1, LargerIn, NodeSets
<1> QED
  BY <1>5, <1>6, <1>7

\* A step by which only thread t goes on and only its own pages are fixed for reading.
LEMMA QuietStep ==
  ASSUME IInv, NEW t \in Threads, pc[t] \notin {"lockChild", "lockHalf"},
         UNCHANGED <<nodes, free, exclusive, unsaved>>, status' = status,
         shared' \in [Pages -> SUBSET Threads],
         \A p \in Pages : \A u \in Threads \ {t} : u \in shared'[p] <=> u \in shared[p],
         LocksExclude',
         NEW o \in Ops, op' = [op EXCEPT ![t] = o],
         NEW label \in Labels, pc' = [pc EXCEPT ![t] = label],
         owed' \in [Threads -> SUBSET Nat], load' \in Seq(Nat),
         PlaceOK(t)'
  PROVE  IInv'
<1>1. \A u \in Threads : op'[u] = (IF u = t THEN o ELSE op[u])
                         /\ pc'[u] = (IF u = t THEN label ELSE pc[u])
  BY DEF IInv, TypeOK, OpsOK
<1>2. OpsOK'
  BY <1>1 DEF IInv, OpsOK
<1>3. TypeOK'
  <2>1. pc' \in [Threads -> Labels]
    BY DEF IInv, TypeOK
  <2>2. \A u \in Threads : op'[u] \in Ops
    BY <1>2 DEF OpsOK
  <2>3. \A u \in Threads : /\ op'[u].kind \in Kinds \cup {"none"}
                           /\ op'[u].node \in Pages \cup {NoPage}
                           /\ op'[u].index \in 0 .. 2 * LeafDegree
    BY <2>2 DEF Ops
  <2> QED
    BY <2>1, <2>3 DEF IInv, TypeOK, Pages
<1>4. NodesOK' /\ KindsKept
  BY DEF IInv, NodesOK, KindsKept, Allocated, InnerPages, Leaves, Pages
<1>5. \A u \in Threads \ {t} : Undisturbed(u)
  BY <1>1 DEF Undisturbed
<1>6. PlacesOK'
  BY <1>4, <1>5, Others DEF PlacesOK
<1>7. MarksOK'
  <2>1. SUFFICES ASSUME NEW p \in unsaved PROVE MarkOK(p)'
    BY DEF MarksOK
  <2>2. exclusive[p] \in Threads \ {t}
    BY DEF IInv, MarksOK, MarkOK
  <2> QED
    BY <1>4, <1>5, <2>2, Others
<1> QED
  BY <1>2, <1>3, <1>4, <1>6, <1>7 DEF IInv

---------------------------------------------------------------------------
(* Steps that change no node *)

\* What is in a page of the tree.
LEMMA NodeKind ==
  ASSUME IInv, NEW p \in Allocated
  PROVE  /\ p \in Pages
         /\ nodes[p].leaf => p \in Leaves /\ nodes[p] \in LeafIn(Leaves)
         /\ ~nodes[p].leaf => p \in InnerPages /\ nodes[p] \in InnerIn(Allocated)
<1>1. p \in Pages /\ p \in InnerPages \cup Leaves
  BY DEF IInv, NodesOK, Allocated
<1>2. CASE p \in InnerPages
  <2>1. nodes[p].leaf = FALSE
    BY <1>2 DEF InnerPages
  <2> QED
    BY <1>1, <1>2, <2>1 DEF IInv, NodesOK
<1>3. CASE p \in Leaves
  <2>1. nodes[p].leaf = TRUE
    BY <1>3 DEF Leaves
  <2> QED
    BY <1>1, <1>3, <2>1 DEF IInv, NodesOK
<1> QED
  BY <1>1, <1>2, <1>3

\* lookupPage has come to a leaf that the thread has fixed.
LEMMA AtLeafIsThere ==
  ASSUME IInv, NEW t \in Threads, NEW kind, AtLeaf(t, kind)
  PROVE  /\ pc[t] = "descend" /\ op[t].kind = kind
         /\ op[t] \in Ops /\ op[t].node \in Leaves /\ op[t].node \in Pages
         /\ t \in shared[op[t].node]
         /\ Node(t) \in LeafIn(Leaves)
<1>1. pc[t] = "descend" /\ op[t].kind = kind /\ nodes[op[t].node].leaf
  BY DEF AtLeaf, Node
<1>2. op[t].node \in Allocated /\ t \in shared[op[t].node]
  BY <1>1 DEF IInv, PlacesOK, PlaceOK
<1>3. op[t].node \in Leaves /\ op[t].node \in Pages /\ nodes[op[t].node] \in LeafIn(Leaves)
  BY <1>1, <1>2, NodeKind
<1> QED
  BY <1>1, <1>2, <1>3 DEF IInv, OpsOK, Node

\* At these labels a thread has no page fixed.
LEMMA NowhereIsOK ==
  ASSUME IInv, NEW t \in Threads, NEW label \in {"idle", "start", "lockRoot", "done"},
         pc' = [pc EXCEPT ![t] = label]
  PROVE  PlaceOK(t)'
<1>1. pc'[t] = label
  BY DEF IInv, TypeOK
<1> QED
  BY <1>1 DEF PlaceOK

LEMMA Unshared ==
  ASSUME IInv, NEW t \in Threads, Unshare(t), op[t].node \in Pages
  PROVE  /\ shared' \in [Pages -> SUBSET Threads] /\ exclusive' = exclusive
         /\ \A p \in Pages : \A u \in Threads \ {t} : u \in shared'[p] <=> u \in shared[p]
         /\ LocksExclude'
<1>1. shared \in [Pages -> SUBSET Threads]
  BY DEF IInv, TypeOK
<1>2. /\ shared' = [shared EXCEPT ![op[t].node] = shared[op[t].node] \ {t}]
      /\ exclusive' = exclusive
  BY DEF Unshare
<1>3. shared' \in [Pages -> SUBSET Threads]
  BY <1>1, <1>2
<1>4. \A p \in Pages : shared'[p] = IF p = op[t].node THEN shared[p] \ {t} ELSE shared[p]
  BY <1>1, <1>2
<1>5. LocksExclude'
  BY <1>2, <1>4 DEF IInv, LocksExclude, Pages
<1> QED
  BY <1>2, <1>3, <1>4, <1>5

LEMMA Stepped ==
  ASSUME IInv, NEW t \in Threads, NEW from \in Pages, NEW to \in Pages, Step(t, from, to)
  PROVE  /\ shared' \in [Pages -> SUBSET Threads] /\ exclusive' = exclusive
         /\ \A p \in Pages : \A u \in Threads \ {t} : u \in shared'[p] <=> u \in shared[p]
         /\ LocksExclude' /\ t \in shared'[to]
<1>1. shared \in [Pages -> SUBSET Threads]
  BY DEF IInv, TypeOK
<1>2. /\ shared' = [shared EXCEPT ![from] = @ \ {t}, ![to] = @ \cup {t}]
      /\ exclusive' = exclusive /\ exclusive[to] = Nil
  BY DEF Step
<1>3. shared' \in [Pages -> SUBSET Threads]
  BY <1>1, <1>2
<1>4. \A p \in Pages : shared'[p] = IF p = to THEN shared[p] \cup {t}
                                    ELSE IF p = from THEN shared[p] \ {t} ELSE shared[p]
  <2>1. CASE from = to
    BY <1>1, <1>2, <2>1
  <2>2. CASE from # to
    BY <1>1, <1>2, <2>2
  <2> QED
    BY <2>1, <2>2
<1>5. LocksExclude'
  <2>1. SUFFICES ASSUME NEW p \in Pages, exclusive[p] # Nil PROVE shared'[p] = {}
    BY <1>2 DEF LocksExclude, Pages
  <2>2. shared[p] = {} /\ p # to
    BY <1>2, <2>1 DEF IInv, LocksExclude
  <2> QED
    BY <1>4, <2>2
<1> QED
  BY <1>2, <1>3, <1>4, <1>5

LEMMA Finished ==
  ASSUME IInv, NEW t \in Threads, NEW result \in Results, Finish(t, result)
  PROVE  /\ \E o \in Ops : op' = [op EXCEPT ![t] = o]
         /\ pc' = [pc EXCEPT ![t] = "done"]
         /\ "done" \in Labels
         /\ PlaceOK(t)'
<1> DEFINE o == [op[t] EXCEPT !.parent = NoPage, !.node = NoPage, !.index = 0,
                             !.dirtyParent = FALSE, !.result = result]
<1>1. op[t] \in Ops /\ 0 \in 0 .. 2 * LeafDegree
  BY Degrees DEF IInv, OpsOK
<1>2. o \in Ops
  BY <1>1 DEF Ops
<1>3. op' = [op EXCEPT ![t] = o] /\ pc' = [pc EXCEPT ![t] = "done"]
  BY DEF Finish, Goto
<1>4. PlaceOK(t)'
  BY <1>3, NowhereIsOK
<1> QED
  BY <1>2, <1>3, <1>4 DEF Labels

LEMMA TreeKeysAreNumbers ==
  ASSUME IInv
  PROVE  TreeKeys \subseteq Nat
<1>1. SUFFICES ASSUME NEW p \in LeafPages, NEW key \in Range(nodes[p].keys) PROVE key \in Nat
  BY DEF TreeKeys
<1>2. p \in Allocated
  BY DEF IInv, NodesOK, LeafPages
<1>3. nodes[p] \in LeafIn(Leaves)
  BY <1>2, NodeKind DEF LeafPages
<1>4. nodes[p].keys \in Seq(Nat)
  BY <1>3, LeafFields
<1> QED
  BY <1>4 DEF Range

LEMMA BeginStep ==
  ASSUME IInv, NEW t \in Threads, NEW kind \in Kinds, NEW key \in Nat, Begin(t, kind, key),
         load' \in Seq(Nat)
  PROVE  IInv'
<1> DEFINE o == [NoOp EXCEPT !.kind = kind, !.key = key]
<1>1. 0 \in 0 .. 2 * LeafDegree
  BY Degrees
<1>2. o \in Ops
  BY <1>1 DEF NoOp, Ops, Results
<1>3. /\ op' = [op EXCEPT ![t] = o] /\ pc' = [pc EXCEPT ![t] = "start"] /\ pc[t] = "idle"
      /\ UNCHANGED <<status, nodes, free, shared, exclusive, unsaved>>
  BY DEF Begin, lockVars
<1>4. owed' \in [Threads -> SUBSET Nat]
  BY TreeKeysAreNumbers DEF Begin, IInv, TypeOK
<1>5. PlaceOK(t)'
  BY <1>3, NowhereIsOK
<1>6. shared' \in [Pages -> SUBSET Threads] /\ LocksExclude'
  BY <1>3 DEF IInv, TypeOK, LocksExclude, Pages
<1>7. "start" \in Labels
  BY DEF Labels
<1> HIDE DEF o
<1> QED
  BY <1>2, <1>3, <1>4, <1>5, <1>6, <1>7, QuietStep

LEMMA LoadStep ==
  ASSUME IInv, Load
  PROVE  IInv'
<1>1. load \in Seq(Nat) /\ load # <<>>
  BY DEF IInv, OpsOK, Load
<1>2. Head(load) \in Nat /\ Tail(load) \in Seq(Nat)
  BY <1>1, HeadTailProperties
<1>3. Begin(Loader, "insert", Head(load)) /\ load' = Tail(load)
  BY DEF Load
<1>4. Loader \in Threads /\ "insert" \in Kinds
  BY UsersAssumption DEF Kinds
<1> QED
  BY <1>2, <1>3, <1>4, BeginStep

LEMMA CallStep ==
  ASSUME IInv, NEW t \in Threads, NEW kind \in Kinds, NEW key \in Nat, Call(t, kind, key)
  PROVE  IInv'
<1>1. Begin(t, kind, key) /\ load' = load
  BY DEF Call
<1>2. load' \in Seq(Nat)
  BY <1>1 DEF IInv, OpsOK
<1> QED
  BY <1>1, <1>2, BeginStep

LEMMA ReturnStep ==
  ASSUME IInv, NEW t \in Threads, Return(t)
  PROVE  IInv'
<1>1. 0 \in 0 .. 2 * LeafDegree
  BY Degrees
<1>2. NoOp \in Ops
  BY <1>1 DEF NoOp, Ops, Results
<1>3. /\ op' = [op EXCEPT ![t] = NoOp] /\ pc' = [pc EXCEPT ![t] = "idle"] /\ pc[t] = "done"
      /\ UNCHANGED <<status, nodes, free, shared, exclusive, unsaved, owed, load>>
  BY DEF Return, Goto, lockVars, userVars
<1>4. PlaceOK(t)'
  BY <1>3, NowhereIsOK
<1>5. /\ shared' \in [Pages -> SUBSET Threads] /\ LocksExclude'
      /\ owed' \in [Threads -> SUBSET Nat] /\ load' \in Seq(Nat)
  BY <1>3 DEF IInv, TypeOK, OpsOK, LocksExclude, Pages
<1>6. "idle" \in Labels
  BY DEF Labels
<1> QED
  BY <1>2, <1>3, <1>4, <1>5, <1>6, QuietStep

LEMMA FixRootStep ==
  ASSUME IInv, NEW t \in Threads, FixRoot(t)
  PROVE  IInv'
<1> DEFINE o == [op[t] EXCEPT !.node = Root]
<1>1. Root \in InnerPages /\ Root \in Allocated /\ Root \in Pages
  BY DEF IInv, NodesOK, InnerPages, Allocated
<1>2. op[t] \in Ops
  BY DEF IInv, OpsOK
<1>3. o \in Ops /\ o.node = Root
  BY <1>1, <1>2 DEF Ops
<1>4. /\ op' = [op EXCEPT ![t] = o] /\ pc' = [pc EXCEPT ![t] = "descend"] /\ pc[t] = "start"
      /\ shared' = [shared EXCEPT ![Root] = shared[Root] \cup {t}] /\ exclusive[Root] = Nil
      /\ UNCHANGED <<status, nodes, free, exclusive, unsaved, owed, load>>
  BY DEF FixRoot, Goto, userVars
<1> HIDE DEF o
<1>5. /\ shared' \in [Pages -> SUBSET Threads]
      /\ \A p \in Pages : shared'[p] = IF p = Root THEN shared[p] \cup {t} ELSE shared[p]
  BY <1>1, <1>4 DEF IInv, TypeOK
<1>6. LocksExclude'
  BY <1>4, <1>5 DEF IInv, LocksExclude, Pages
<1>7. op'[t] = o /\ pc'[t] = "descend" /\ Allocated' = Allocated
  BY <1>4 DEF IInv, TypeOK, OpsOK, Allocated, Pages
<1>8. PlaceOK(t)'
  BY <1>1, <1>3, <1>5, <1>7 DEF PlaceOK
<1>9. owed' \in [Threads -> SUBSET Nat] /\ load' \in Seq(Nat) /\ "descend" \in Labels
  BY <1>4 DEF IInv, TypeOK, OpsOK, Labels
<1> QED
  BY <1>3, <1>4, <1>5, <1>6, <1>8, <1>9, QuietStep

LEMMA DescendStep ==
  ASSUME IInv, NEW t \in Threads, Descend(t)
  PROVE  IInv'
<1> DEFINE child == IF op[t].kind = "size" THEN Leftmost(Node(t)) ELSE InnerLookup(Node(t), op[t].key)
           o == [op[t] EXCEPT !.node = child]
<1>1. /\ pc[t] = "descend" /\ ~nodes[op[t].node].leaf
      /\ Step(t, op[t].node, child) /\ op' = [op EXCEPT ![t] = o]
      /\ UNCHANGED <<status, nodes, free, unsaved, pc, owed, load>>
  BY DEF Descend, Node, userVars
<1>2. op[t] \in Ops /\ op[t].key \in Nat /\ op[t].node \in Allocated
  BY <1>1 DEF IInv, OpsOK, Ops, PlacesOK, PlaceOK
<1>3. op[t].node \in Pages /\ Node(t) \in InnerIn(Allocated)
  BY <1>1, <1>2, NodeKind DEF Node
<1>4. child \in Allocated
  BY <1>2, <1>3, InnerLookupType
<1> HIDE DEF child
<1>5. child \in Pages
  BY <1>4 DEF Allocated
<1>6. o \in Ops /\ o.node = child
  BY <1>2, <1>5 DEF Ops
<1> HIDE DEF o
<1>7. /\ shared' \in [Pages -> SUBSET Threads] /\ exclusive' = exclusive
      /\ \A p \in Pages : \A u \in Threads \ {t} : u \in shared'[p] <=> u \in shared[p]
      /\ LocksExclude' /\ t \in shared'[child]
  BY <1>1, <1>3, <1>5, Stepped
<1>8. pc' = [pc EXCEPT ![t] = "descend"] /\ pc'[t] = "descend" /\ "descend" \in Labels
  BY <1>1 DEF IInv, TypeOK, Labels
<1>9. op'[t] = o /\ Allocated' = Allocated
  BY <1>1 DEF IInv, OpsOK, Allocated, Pages
<1>10. PlaceOK(t)'
  BY <1>4, <1>6, <1>7, <1>8, <1>9 DEF PlaceOK
<1>11. owed' \in [Threads -> SUBSET Nat] /\ load' \in Seq(Nat)
  BY <1>1 DEF IInv, TypeOK, OpsOK
<1> QED
  BY <1>1, <1>6, <1>7, <1>8, <1>10, <1>11, QuietStep

---------------------------------------------------------------------------
(* The end of a call, and scans *)

\* The page is unfixed and the call has its result.
LEMMA ReadingEnds ==
  ASSUME IInv, NEW t \in Threads, pc[t] \in {"descend", "scan", "next"}, op[t].node \in Pages,
         Unshare(t), NEW result \in Results, Finish(t, result),
         UNCHANGED <<status, nodes, free, unsaved>>,
         owed' \in [Threads -> SUBSET Nat], load' = load
  PROVE  IInv'
<1>1. /\ shared' \in [Pages -> SUBSET Threads] /\ exclusive' = exclusive
      /\ \A p \in Pages : \A u \in Threads \ {t} : u \in shared'[p] <=> u \in shared[p]
      /\ LocksExclude'
  BY Unshared
<1>2. PICK o \in Ops : op' = [op EXCEPT ![t] = o]
  BY Finished
<1>3. pc' = [pc EXCEPT ![t] = "done"] /\ "done" \in Labels /\ PlaceOK(t)'
  BY Finished
<1>4. load' \in Seq(Nat)
  BY DEF IInv, OpsOK
<1> QED
  BY <1>1, <1>2, <1>3, <1>4, QuietStep

LEMMA LookupStep ==
  ASSUME IInv, NEW t \in Threads, Lookup(t)
  PROVE  IInv'
<1> DEFINE result == LeafLookup(Node(t), op[t].key)
<1>1. /\ AtLeaf(t, "lookup") /\ Unshare(t) /\ Finish(t, result)
      /\ UNCHANGED <<status, nodes, free, unsaved, owed, load>>
  BY DEF Lookup, userVars
<1>2. /\ pc[t] = "descend" /\ op[t].node \in Pages /\ Node(t) \in LeafIn(Leaves)
      /\ op[t].key \in Nat
  BY <1>1, AtLeafIsThere DEF Ops
<1>3. result \in Results
  BY <1>2, LeafLookupType DEF Results
<1> HIDE DEF result
<1>4. owed' \in [Threads -> SUBSET Nat]
  BY <1>1 DEF IInv, TypeOK
<1> QED
  BY <1>1, <1>2, <1>3, <1>4, ReadingEnds

LEMMA InsertFullStep ==
  ASSUME IInv, NEW t \in Threads, InsertFull(t)
  PROVE  IInv'
<1> DEFINE o == [op[t] EXCEPT !.node = NoPage]
<1>1. /\ AtLeaf(t, "insert") /\ Unshare(t)
      /\ op' = [op EXCEPT ![t] = o] /\ pc' = [pc EXCEPT ![t] = "lockRoot"]
      /\ UNCHANGED <<status, nodes, free, unsaved, owed, load>>
  BY DEF InsertFull, Goto, userVars
<1>2. pc[t] = "descend" /\ op[t] \in Ops /\ op[t].node \in Pages
  BY <1>1, AtLeafIsThere
<1>3. o \in Ops
  BY <1>2 DEF Ops
<1> HIDE DEF o
<1>4. /\ shared' \in [Pages -> SUBSET Threads] /\ exclusive' = exclusive
      /\ \A p \in Pages : \A u \in Threads \ {t} : u \in shared'[p] <=> u \in shared[p]
      /\ LocksExclude'
  BY <1>1, <1>2, Unshared
<1>5. PlaceOK(t)' /\ "lockRoot" \in Labels
  BY <1>1, NowhereIsOK DEF Labels
<1>6. owed' \in [Threads -> SUBSET Nat] /\ load' \in Seq(Nat)
  BY <1>1 DEF IInv, TypeOK, OpsOK
<1> QED
  BY <1>1, <1>2, <1>3, <1>4, <1>5, <1>6, QuietStep

\* An iterator on a leaf is at an entry or goes on.
LEMMA AtEntryIsOK ==
  ASSUME IInv, NEW t \in Threads, NEW page \in Leaves, NEW index \in Nat,
         index <= Size(nodes[page]), AtEntry(t, page, index),
         t \in shared'[page], nodes' = nodes, free' = free
  PROVE  /\ \E o \in Ops : op' = [op EXCEPT ![t] = o]
         /\ \E label \in Labels : pc' = [pc EXCEPT ![t] = label]
         /\ PlaceOK(t)'
<1> DEFINE o == [op[t] EXCEPT !.node = page, !.index = index]
           label == IF index < Size(nodes[page]) THEN "scan" ELSE "next"
<1>1. op' = [op EXCEPT ![t] = o] /\ pc' = [pc EXCEPT ![t] = label]
  BY DEF AtEntry, Goto
<1>2. page \in Pages /\ page \in Allocated /\ nodes[page] \in LeafIn(Leaves)
  BY DEF IInv, NodesOK, Leaves, Allocated
<1>3. index \in 0 .. 2 * LeafDegree
  <2>1. Size(nodes[page]) \in Nat /\ Size(nodes[page]) < 2 * LeafDegree
    BY <1>2, LeafFields
  <2> QED
    BY <2>1, Degrees
<1>4. op[t] \in Ops
  BY DEF IInv, OpsOK
<1>5. o \in Ops /\ o.node = page /\ o.index = index
  BY <1>2, <1>3, <1>4 DEF Ops
<1>6. label \in {"scan", "next"} /\ label \in Labels /\ (label = "scan" => index < Size(nodes[page]))
  BY DEF Labels
<1> HIDE DEF o, label
<1>7. op'[t] = o /\ pc'[t] = label
  BY <1>1 DEF IInv, TypeOK, OpsOK
<1>8. Allocated' = Allocated /\ Leaves' = Leaves
  BY DEF Allocated, Leaves, Pages
<1>9. Size(nodes[page])' = Size(nodes[page])
  BY DEF Size
<1>10. PlaceOK(t)'
  BY <1>2, <1>5, <1>6, <1>7, <1>8, <1>9 DEF PlaceOK, Size
<1> QED
  BY <1>1, <1>5, <1>6, <1>10

LEMMA BeginScanStep ==
  ASSUME IInv, NEW t \in Threads, BeginScan(t)
  PROVE  IInv'
<1>1. UNCHANGED <<status, nodes, free, shared, exclusive, unsaved, owed, load>>
  BY DEF BeginScan, lockVars, userVars
<1>2. PICK kind \in {"range", "size"} :
        /\ AtLeaf(t, kind)
        /\ AtEntry(t, op[t].node, IF kind = "range" THEN LowerBound(Node(t).keys, op[t].key) ELSE 0)
  BY DEF BeginScan
<1>3. /\ pc[t] = "descend" /\ op[t] \in Ops /\ op[t].node \in Leaves /\ op[t].node \in Pages
      /\ t \in shared[op[t].node] /\ Node(t) \in LeafIn(Leaves)
  BY <1>2, AtLeafIsThere
<1> DEFINE index == IF kind = "range" THEN LowerBound(Node(t).keys, op[t].key) ELSE 0
<1>4. index \in Nat /\ index <= Size(nodes[op[t].node])
  <2>1. Node(t).keys \in Seq(Nat) /\ Size(Node(t)) = Len(Node(t).keys) /\ Len(Node(t).keys) \in Nat
    BY <1>3, LeafFields
  <2>2. op[t].key \in Nat
    BY <1>3 DEF Ops
  <2>3. LowerBound(Node(t).keys, op[t].key) \in 0 .. Len(Node(t).keys)
    BY <2>1, <2>2, LowerBoundType
  <2> QED
    BY <2>1, <2>3 DEF Node
<1>5. AtEntry(t, op[t].node, index)
  BY <1>2
<1> HIDE DEF index
<1>6. t \in shared'[op[t].node] /\ nodes' = nodes /\ free' = free
  BY <1>1, <1>3
<1>7. PICK o \in Ops : op' = [op EXCEPT ![t] = o]
  BY <1>3, <1>4, <1>5, <1>6, AtEntryIsOK
<1>8. PICK label \in Labels : pc' = [pc EXCEPT ![t] = label]
  BY <1>3, <1>4, <1>5, <1>6, AtEntryIsOK
<1>9. PlaceOK(t)'
  BY <1>3, <1>4, <1>5, <1>6, AtEntryIsOK
<1>10. /\ shared' \in [Pages -> SUBSET Threads] /\ LocksExclude'
       /\ owed' \in [Threads -> SUBSET Nat] /\ load' \in Seq(Nat)
  BY <1>1 DEF IInv, TypeOK, OpsOK, LocksExclude, Pages
<1> QED
  BY <1>1, <1>3, <1>7, <1>8, <1>9, <1>10, QuietStep

\* Where a thread in a scan is.
LEMMA ScanIsThere ==
  ASSUME IInv, NEW t \in Threads, pc[t] \in {"scan", "next"}
  PROVE  /\ op[t] \in Ops /\ op[t].node \in Leaves /\ op[t].node \in Pages
         /\ op[t].node \in Allocated
         /\ t \in shared[op[t].node]
         /\ Node(t) \in LeafIn(Leaves)
         /\ pc[t] = "scan" => op[t].index < Size(Node(t))
<1>1. PlaceOK(t) /\ op[t] \in Ops
  BY DEF IInv, PlacesOK, OpsOK
<1>2. op[t].node \in Leaves /\ t \in shared[op[t].node]
  BY <1>1 DEF PlaceOK
<1>3. nodes[op[t].node] \in LeafIn(Leaves)
  BY <1>2 DEF IInv, NodesOK
<1> QED
  BY <1>1, <1>2, <1>3 DEF PlaceOK, Node, Leaves, Allocated

LEMMA ScanNextStep ==
  ASSUME IInv, NEW t \in Threads, ScanNext(t)
  PROVE  IInv'
<1> DEFINE n == Node(t)
           next == op[t].index + 1
           entry == [key |-> n.keys[next], value |-> n.values[next]]
           o == [op[t] EXCEPT !.index = next, !.count = op[t].count + 1, !.last = entry]
           label == IF next < Size(n) THEN "scan" ELSE "next"
<1>1. /\ pc[t] = "scan" /\ op' = [op EXCEPT ![t] = o] /\ pc' = [pc EXCEPT ![t] = label]
      /\ owed' = [owed EXCEPT ![t] = owed[t] \ {n.keys[next]}]
      /\ UNCHANGED <<status, nodes, free, shared, exclusive, unsaved, load>>
  <2>1. pc[t] = "scan" /\ pc' = [pc EXCEPT ![t] = label]
    BY DEF ScanNext, Goto
  <2>2. op' = [op EXCEPT ![t] = o]
    BY DEF ScanNext
  <2>3. owed' = [owed EXCEPT ![t] = owed[t] \ {n.keys[next]}]
    BY DEF ScanNext
  <2>4. UNCHANGED <<status, nodes, free, shared, exclusive, unsaved, load>>
    BY DEF ScanNext, lockVars, userVars
  <2> QED
    BY <2>1, <2>2, <2>3, <2>4
<1>2. /\ op[t] \in Ops /\ op[t].node \in Leaves /\ op[t].node \in Pages /\ op[t].node \in Allocated
      /\ t \in shared[op[t].node] /\ n \in LeafIn(Leaves) /\ op[t].index < Size(n)
  BY <1>1, ScanIsThere
<1>3. /\ n.keys \in Seq(Nat) /\ n.values \in Seq(Values) /\ Len(n.values) = Len(n.keys)
      /\ Len(n.keys) \in Nat /\ Size(n) = Len(n.keys) /\ Len(n.keys) < 2 * LeafDegree
  BY <1>2, LeafFields
<1>4. op[t].index \in Nat /\ op[t].count \in Nat
  BY <1>2, Degrees DEF Ops
<1>5. next \in 1 .. Len(n.keys) /\ next \in 0 .. 2 * LeafDegree
  BY <1>2, <1>3, <1>4, Degrees
<1>6. n.keys[next] \in Nat /\ n.values[next] \in Values
  BY <1>3, <1>5, ElementOfSeq
<1>7. entry \in Entries
  BY <1>6 DEF Entries
<1>8. label \in {"scan", "next"} /\ label \in Labels /\ (label = "scan" => next < Size(nodes[op[t].node]))
  BY DEF Labels, Node
<1> HIDE DEF n, next, entry
<1>9. o \in Ops /\ o.node = op[t].node /\ o.index = next
  <2>1. op[t].count + 1 \in Nat
    BY <1>4
  <2> DEFINE count == op[t].count + 1
             index == next
  <2> HIDE DEF count, index
  <2>2. [op[t] EXCEPT !.index = index, !.count = count, !.last = entry] \in Ops
    BY <1>2, <1>5, <1>7, <2>1 DEF Ops, count, index
  <2> QED
    BY <1>2, <2>2 DEF Ops, count, index
<1> HIDE DEF o, label
<1>10. op'[t] = o /\ pc'[t] = label
  BY <1>1 DEF IInv, TypeOK, OpsOK
<1>11. Allocated' = Allocated /\ Leaves' = Leaves
  BY <1>1 DEF Allocated, Leaves, Pages
<1>12. PlaceOK(t)'
  BY <1>1, <1>2, <1>8, <1>9, <1>10, <1>11 DEF PlaceOK, Size
<1>13. /\ shared' \in [Pages -> SUBSET Threads] /\ LocksExclude'
       /\ owed' \in [Threads -> SUBSET Nat] /\ load' \in Seq(Nat)
  BY <1>1 DEF IInv, TypeOK, OpsOK, LocksExclude, Pages
<1> QED
  BY <1>1, <1>8, <1>9, <1>12, <1>13, QuietStep

LEMMA NextLeafStep ==
  ASSUME IInv, NEW t \in Threads, NextLeaf(t)
  PROVE  IInv'
<1> DEFINE page == Node(t).next
<1>1. /\ pc[t] = "next" /\ page # NoPage /\ Step(t, op[t].node, page) /\ AtEntry(t, page, 0)
      /\ UNCHANGED <<status, nodes, free, unsaved, owed, load>>
  BY DEF NextLeaf, userVars
<1>2. op[t].node \in Pages /\ Node(t) \in LeafIn(Leaves)
  BY <1>1, ScanIsThere
<1>3. page \in Leaves
  BY <1>1, <1>2, LeafFields
<1> HIDE DEF page
<1>4. page \in Pages /\ nodes[page] \in LeafIn(Leaves)
  BY <1>3 DEF IInv, NodesOK, Leaves, Allocated
<1>5. 0 \in Nat /\ 0 <= Size(nodes[page])
  <2>1. Size(nodes[page]) \in Nat
    BY <1>4, LeafFields
  <2> QED
    BY <2>1
<1>6. /\ shared' \in [Pages -> SUBSET Threads] /\ exclusive' = exclusive
      /\ \A p \in Pages : \A u \in Threads \ {t} : u \in shared'[p] <=> u \in shared[p]
      /\ LocksExclude' /\ t \in shared'[page]
  BY <1>1, <1>2, <1>4, Stepped
<1>7. nodes' = nodes /\ free' = free
  BY <1>1
<1>8. PICK o \in Ops : op' = [op EXCEPT ![t] = o]
  BY <1>1, <1>3, <1>5, <1>6, <1>7, AtEntryIsOK
<1>9. PICK label \in Labels : pc' = [pc EXCEPT ![t] = label]
  BY <1>1, <1>3, <1>5, <1>6, <1>7, AtEntryIsOK
<1>10. PlaceOK(t)'
  BY <1>1, <1>3, <1>5, <1>6, <1>7, AtEntryIsOK
<1>11. owed' \in [Threads -> SUBSET Nat] /\ load' \in Seq(Nat)
  BY <1>1 DEF IInv, TypeOK, OpsOK
<1> QED
  BY <1>1, <1>6, <1>8, <1>9, <1>10, <1>11, QuietStep

LEMMA EndScanStep ==
  ASSUME IInv, NEW t \in Threads, EndScan(t)
  PROVE  IInv'
<1>1. /\ pc[t] = "next" /\ Unshare(t) /\ Finish(t, op[t].count)
      /\ owed' = [owed EXCEPT ![t] = {}]
      /\ UNCHANGED <<status, nodes, free, unsaved, load>>
  BY DEF EndScan, userVars
<1>2. op[t] \in Ops /\ op[t].node \in Pages
  BY <1>1, ScanIsThere
<1>3. op[t].count \in Results
  BY <1>2 DEF Ops, Results
<1>4. owed' \in [Threads -> SUBSET Nat]
  BY <1>1 DEF IInv, TypeOK
<1> QED
  BY <1>1, <1>2, <1>3, <1>4, ReadingEnds

LEMMA DropScanStep ==
  ASSUME IInv, NEW t \in Threads, DropScan(t)
  PROVE  IInv'
<1>1. /\ pc[t] = "scan" /\ Unshare(t) /\ Finish(t, Nil)
      /\ owed' = [owed EXCEPT ![t] = {}]
      /\ UNCHANGED <<status, nodes, free, unsaved, load>>
  BY DEF DropScan, userVars
<1>2. op[t].node \in Pages
  BY <1>1, ScanIsThere
<1>3. Nil \in Results
  BY DEF Results
<1>4. owed' \in [Threads -> SUBSET Nat]
  BY <1>1 DEF IInv, TypeOK
<1> QED
  BY <1>1, <1>2, <1>3, <1>4, ReadingEnds

---------------------------------------------------------------------------
(* Steps that change nodes or exclusive locks *)

\* A step by which thread t goes on and the others keep what they have.
LEMMA ChangingStep ==
  ASSUME IInv, NEW t \in Threads, status' = status,
         NodesOK', KindsKept,
         nodes' \in [Pages -> InnerNodes \cup LeafNodes \cup {Nil}], free' \in 3 .. MaxPages,
         shared' \in [Pages -> SUBSET Threads], exclusive' \in [Pages -> Threads \cup {Nil}],
         LocksExclude',
         NEW o \in Ops, op' = [op EXCEPT ![t] = o],
         NEW label \in Labels, pc' = [pc EXCEPT ![t] = label],
         \A u \in Threads \ {t} : \A p \in Pages :
           /\ u \in shared[p] => u \in shared'[p]
           /\ u \in shared[p] /\ p \in Allocated => nodes'[p] = nodes[p]
           /\ exclusive[p] = u => exclusive'[p] = u,
         owed' \in [Threads -> SUBSET Nat], load' \in Seq(Nat),
         PlaceOK(t)',
         unsaved' \subseteq Pages,
         \A p \in unsaved' : (p \in unsaved /\ exclusive[p] # t) \/ MarkOK(p)'
  PROVE  IInv'
<1>1. \A u \in Threads : op'[u] = (IF u = t THEN o ELSE op[u])
                         /\ pc'[u] = (IF u = t THEN label ELSE pc[u])
  BY DEF IInv, TypeOK, OpsOK
<1>2. OpsOK'
  BY <1>1 DEF IInv, OpsOK
<1>3. TypeOK'
  <2>1. pc' \in [Threads -> Labels]
    BY DEF IInv, TypeOK
  <2>2. \A u \in Threads : op'[u] \in Ops
    BY <1>2 DEF OpsOK
  <2>3. \A u \in Threads : /\ op'[u].kind \in Kinds \cup {"none"}
                           /\ op'[u].node \in Pages \cup {NoPage}
                           /\ op'[u].index \in 0 .. 2 * LeafDegree
    BY <2>2 DEF Ops
  <2> QED
    BY <2>1, <2>3 DEF IInv, TypeOK, Pages
<1>4. \A u \in Threads \ {t} : Undisturbed(u)
  BY <1>1 DEF Undisturbed
<1>5. PlacesOK'
  BY <1>4, Others DEF PlacesOK
<1>6. MarksOK'
  <2>1. SUFFICES ASSUME NEW p \in unsaved', p \in unsaved, exclusive[p] # t PROVE MarkOK(p)'
    BY DEF MarksOK
  <2>2. exclusive[p] \in Threads \ {t}
    BY <2>1 DEF IInv, MarksOK, MarkOK
  <2> QED
    BY <1>4, <2>1, <2>2, Others
<1> QED
  BY <1>2, <1>3, <1>5, <1>6 DEF IInv

\* After a failed assertion or a data race nothing else has changed.
LEMMA StatusStep ==
  ASSUME IInv, status' \in {"running", "failed", "raced"},
         UNCHANGED <<nodes, free, shared, exclusive, unsaved, pc, op, owed, load>>
  PROVE  IInv'
<1>1. TypeOK' /\ OpsOK' /\ LocksExclude'
  BY DEF IInv, TypeOK, OpsOK, LocksExclude, Pages
<1>2. NodesOK' /\ KindsKept
  BY DEF IInv, NodesOK, KindsKept, Allocated, InnerPages, Leaves, Pages
<1>3. \A u \in Threads : Undisturbed(u)
  BY DEF Undisturbed
<1>4. PlacesOK'
  BY <1>2, <1>3, Others DEF PlacesOK
<1>5. MarksOK'
  BY DEF IInv, MarksOK, MarkOK
<1> QED
  BY <1>1, <1>2, <1>4, <1>5 DEF IInv

LEMMA RaceStep ==
  ASSUME IInv, NEW t \in Threads, Race(t)
  PROVE  IInv'
<1>1. status' = "raced"
      /\ UNCHANGED <<nodes, free, shared, exclusive, unsaved, pc, op, owed, load>>
  BY DEF Race, lockVars, userVars
<1> QED
  BY <1>1, StatusStep

\* A leaf changes.
LEMMA LeafChanges ==
  ASSUME IInv, NEW page \in Leaves, NEW new \in LeafIn(Leaves),
         nodes' = [nodes EXCEPT ![page] = new], free' = free
  PROVE  /\ NodesOK' /\ KindsKept
         /\ nodes' \in [Pages -> InnerNodes \cup LeafNodes \cup {Nil}]
         /\ \A p \in Pages : p # page => nodes'[p] = nodes[p]
<1>1. /\ Leaves \subseteq Allocated /\ Allocated' = Allocated
      /\ InnerPages = Allocated \ Leaves /\ Allocated \subseteq Pages
  BY DEF IInv, NodesOK, Allocated, Leaves, InnerPages, Pages
<1>2. /\ nodes' = [p \in Pages |-> nodes'[p]]
      /\ \A p \in Pages : nodes'[p] = IF p = page THEN new ELSE nodes[p]
  BY DEF IInv, TypeOK
<1>3. \A p \in Allocated \ Leaves : nodes'[p] \in InnerIn(Allocated)
  BY <1>1, <1>2 DEF IInv, NodesOK
<1>4. \A p \in Leaves : nodes'[p] \in LeafIn(Leaves)
  BY <1>1, <1>2 DEF IInv, NodesOK
<1>5. \A p \in Pages \ Allocated : nodes'[p] = Nil
  BY <1>1, <1>2 DEF IInv, NodesOK
<1>6. Root \in Allocated \ Leaves
  BY <1>1 DEF IInv, NodesOK
<1> QED
  BY <1>1, <1>2, <1>3, <1>4, <1>5, <1>6, NodesStep

\* erase, and insert into a leaf that has room: the leaf changes while it is fixed for
\* reading, by no other thread.
LEMMA ChangeHere ==
  ASSUME IInv, NEW t \in Threads, pc[t] = "descend", op[t].node \in Leaves,
         NEW new \in LeafIn(Leaves), nodes' = [nodes EXCEPT ![op[t].node] = new],
         new # nodes[op[t].node] => Alone(t),
         Unshare(t), NEW result \in Results, Finish(t, result),
         UNCHANGED <<status, free, unsaved>>,
         owed' \in [Threads -> SUBSET Nat], load' = load
  PROVE  IInv'
<1>1. op[t].node \in Pages
  BY DEF Leaves, Allocated
<1>2. /\ NodesOK' /\ KindsKept
      /\ nodes' \in [Pages -> InnerNodes \cup LeafNodes \cup {Nil}]
      /\ \A p \in Pages : p # op[t].node => nodes'[p] = nodes[p]
  BY LeafChanges
<1>3. /\ shared' \in [Pages -> SUBSET Threads] /\ exclusive' = exclusive
      /\ \A p \in Pages : \A u \in Threads \ {t} : u \in shared'[p] <=> u \in shared[p]
      /\ LocksExclude'
  BY <1>1, Unshared
<1>4. PICK o \in Ops : op' = [op EXCEPT ![t] = o]
  BY Finished
<1>5. pc' = [pc EXCEPT ![t] = "done"] /\ "done" \in Labels /\ PlaceOK(t)'
  BY Finished
<1>6. ASSUME NEW u \in Threads \ {t}, NEW p \in Pages
      PROVE  /\ u \in shared[p] => u \in shared'[p]
             /\ u \in shared[p] /\ p \in Allocated => nodes'[p] = nodes[p]
             /\ exclusive[p] = u => exclusive'[p] = u
  <2>1. nodes'[op[t].node] = new
    BY <1>1 DEF IInv, TypeOK
  <2>2. CASE p = op[t].node
    BY <1>3, <2>1, <2>2 DEF Alone
  <2>3. CASE p # op[t].node
    BY <1>2, <1>3, <2>3
  <2> QED
    BY <2>2, <2>3
<1>7. \A p \in unsaved' : p \in unsaved /\ exclusive[p] # t
  BY DEF IInv, MarksOK, MarkOK
<1>8. /\ free' \in 3 .. MaxPages /\ unsaved' \subseteq Pages /\ load' \in Seq(Nat)
      /\ exclusive' \in [Pages -> Threads \cup {Nil}]
  BY <1>3 DEF IInv, TypeOK, OpsOK
<1> QED
  BY <1>2, <1>3, <1>4, <1>5, <1>6, <1>7, <1>8, ChangingStep

LEMMA EraseStep ==
  ASSUME IInv, NEW t \in Threads, Erase(t)
  PROVE  IInv'
<1> DEFINE new == LeafErase(Node(t), op[t].key)
           result == new # Node(t)
<1>1. /\ AtLeaf(t, "erase") /\ (new # Node(t) => Alone(t))
      /\ nodes' = [nodes EXCEPT ![op[t].node] = new]
      /\ Unshare(t)
      /\ UNCHANGED <<status, free, unsaved, load>>
  BY DEF Erase, userVars
<1>2. Finish(t, result)
  BY DEF Erase
<1>3. /\ pc[t] = "descend" /\ op[t].node \in Leaves /\ Node(t) \in LeafIn(Leaves)
      /\ op[t].key \in Nat
  BY <1>1, AtLeafIsThere DEF Ops
<1>4. new \in LeafIn(Leaves)
  BY <1>3, LeafEraseType
<1>5. result \in Results
  BY DEF Results
<1>6. owed' \in [Threads -> SUBSET Nat]
  BY DEF Erase, IInv, TypeOK
<1>7. new # nodes[op[t].node] => Alone(t)
  BY <1>1 DEF Node
<1> HIDE DEF new, result
<1> QED
  BY <1>1, <1>2, <1>3, <1>4, <1>5, <1>6, <1>7, ChangeHere

LEMMA ValueIsValue ==
  ASSUME NEW t \in Threads, NEW key \in Nat
  PROVE  Value(t, key) \in Values
BY DEF Value, Values

LEMMA InsertHereStep ==
  ASSUME IInv, NEW t \in Threads, InsertHere(t)
  PROVE  IInv'
<1> DEFINE new == LeafInsert(nodes[op[t].node], op[t].key, Value(t, op[t].key))
<1>1. /\ AtLeaf(t, "insert") /\ HasFreeSpace(Node(t)) /\ Alone(t)
      /\ nodes' = [nodes EXCEPT ![op[t].node] = new]
      /\ Unshare(t) /\ Finish(t, Nil)
      /\ UNCHANGED <<status, free, unsaved, owed, load>>
  BY DEF InsertHere, userVars
<1>2. /\ pc[t] = "descend" /\ op[t].node \in Leaves /\ nodes[op[t].node] \in LeafIn(Leaves)
      /\ op[t].key \in Nat
  BY <1>1, AtLeafIsThere DEF Ops, Node
<1>3. new \in LeafIn(Leaves)
  BY <1>1, <1>2, LeafInsertType, ValueIsValue DEF Node
<1> HIDE DEF new
<1>4. Nil \in Results /\ owed' \in [Threads -> SUBSET Nat]
  BY <1>1 DEF Results, IInv, TypeOK
<1> QED
  BY <1>1, <1>2, <1>3, <1>4, ChangeHere

LEMMA InsertExclusiveStep ==
  ASSUME IInv, NEW t \in Threads, InsertExclusive(t)
  PROVE  IInv'
<1> DEFINE page == op[t].node
           new == LeafInsert(nodes[page], op[t].key, Value(t, op[t].key))
<1>1. CASE HasFreeSpace(nodes[page])
  <2>1. /\ pc[t] = "place"
        /\ nodes' = [nodes EXCEPT ![page] = new]
        /\ exclusive' = [exclusive EXCEPT ![page] = Nil]
        /\ Finish(t, Nil)
        /\ UNCHANGED <<status, free, shared, unsaved, owed, load>>
    BY <1>1 DEF InsertExclusive, userVars
  <2>2. page \in Leaves /\ exclusive[page] = t /\ op[t] \in Ops
    BY <2>1 DEF IInv, PlacesOK, PlaceOK, OpsOK
  <2>3. page \in Pages /\ nodes[page] \in LeafIn(Leaves) /\ op[t].key \in Nat
    BY <2>2 DEF IInv, NodesOK, Leaves, Allocated, Ops
  <2>4. new \in LeafIn(Leaves)
    BY <1>1, <2>3, LeafInsertType, ValueIsValue
  <2> HIDE DEF page, new
  <2>5. /\ NodesOK' /\ KindsKept
        /\ nodes' \in [Pages -> InnerNodes \cup LeafNodes \cup {Nil}]
        /\ \A p \in Pages : p # page => nodes'[p] = nodes[p]
    BY <2>1, <2>2, <2>4, LeafChanges
  <2>6. PICK o \in Ops : op' = [op EXCEPT ![t] = o]
    BY <2>1, Finished DEF Results
  <2>7. pc' = [pc EXCEPT ![t] = "done"] /\ "done" \in Labels /\ PlaceOK(t)'
    BY <2>1, Finished DEF Results
  <2>8. /\ exclusive' \in [Pages -> Threads \cup {Nil}]
        /\ \A p \in Pages : exclusive'[p] = IF p = page THEN Nil ELSE exclusive[p]
    BY <2>1, <2>3 DEF IInv, TypeOK
  <2>9. LocksExclude'
    BY <2>1, <2>8 DEF IInv, LocksExclude, Pages
  <2>10. Nil \notin Threads
    BY NilAssumption
  <2>11. shared[page] = {}
    BY <2>2, <2>3, <2>10 DEF IInv, LocksExclude
  <2>12. \A u \in Threads \ {t} : \A p \in Pages :
           /\ u \in shared[p] => u \in shared'[p]
           /\ u \in shared[p] /\ p \in Allocated => nodes'[p] = nodes[p]
           /\ exclusive[p] = u => exclusive'[p] = u
    BY <2>1, <2>2, <2>5, <2>8, <2>11
  <2>13. \A p \in unsaved' : p \in unsaved /\ exclusive[p] # t
    BY <2>1 DEF IInv, MarksOK, MarkOK
  <2>14. /\ free' \in 3 .. MaxPages /\ unsaved' \subseteq Pages /\ load' \in Seq(Nat)
         /\ owed' \in [Threads -> SUBSET Nat] /\ shared' \in [Pages -> SUBSET Threads]
    BY <2>1 DEF IInv, TypeOK, OpsOK
  <2> QED
    BY <2>1, <2>5, <2>6, <2>7, <2>8, <2>9, <2>12, <2>13, <2>14, ChangingStep
<1>2. CASE ~HasFreeSpace(nodes[page])
  <2>1. /\ status' = "failed"
        /\ UNCHANGED <<nodes, free, shared, exclusive, unsaved, pc, op, owed, load>>
    BY <1>2 DEF InsertExclusive, userVars
  <2> QED
    BY <2>1, StatusStep
<1> QED
  BY <1>1, <1>2

---------------------------------------------------------------------------
(* Steps of insert with preventive splitting *)

\* What a thread on the way down has fixed.
LEMMA LockIsThere ==
  ASSUME IInv, NEW t \in Threads, pc[t] \in {"lockChild", "lockHalf"}
  PROVE  /\ op[t] \in Ops /\ op[t].key \in Nat
         /\ op[t].node \in Allocated /\ op[t].node \in Pages
         /\ op[t].parent \in InnerPages /\ op[t].parent \in Allocated /\ op[t].parent \in Pages
         /\ nodes[op[t].parent] \in InnerIn(Allocated)
         /\ exclusive[op[t].parent] = t /\ t # Nil
         /\ shared[op[t].parent] = {}
         /\ \A p \in unsaved : exclusive[p] = t => p = op[t].parent /\ op[t].dirtyParent = TRUE
<1>1. PlaceOK(t) /\ op[t] \in Ops /\ t # Nil
  BY NilAssumption DEF IInv, PlacesOK, OpsOK
<1>2. /\ op[t].node \in Allocated /\ op[t].parent \in InnerPages
      /\ exclusive[op[t].parent] = t
  BY <1>1 DEF PlaceOK
<1>3. op[t].node \in Pages /\ op[t].parent \in Allocated /\ op[t].parent \in Pages
  BY <1>2 DEF InnerPages, Allocated
<1>4. nodes[op[t].parent] \in InnerIn(Allocated)
  BY <1>2 DEF IInv, NodesOK
<1>5. shared[op[t].parent] = {}
  BY <1>1, <1>2, <1>3 DEF IInv, LocksExclude
<1>6. \A p \in unsaved : exclusive[p] = t => p = op[t].parent /\ op[t].dirtyParent = TRUE
  BY DEF IInv, MarksOK, MarkOK
<1> QED
  BY <1>1, <1>2, <1>3, <1>4, <1>5, <1>6 DEF Ops

LEMMA LockChildStep ==
  ASSUME IInv, NEW t \in Threads, LockChild(t)
  PROVE  IInv'
<1> DEFINE page == op[t].node
           parent == op[t].parent
           leaf == nodes[page].leaf
           o == IF leaf THEN [op[t] EXCEPT !.parent = NoPage, !.dirtyParent = FALSE]
                ELSE [op[t] EXCEPT !.parent = page, !.dirtyParent = FALSE,
                                   !.node = InnerLookup(nodes[page], op[t].key)]
           label == IF leaf THEN "place" ELSE "lockChild"
<1>1. /\ pc[t] \in {"lockChild", "lockHalf"} /\ shared[page] = {} /\ exclusive[page] = Nil
      /\ exclusive' = [exclusive EXCEPT ![parent] = Nil, ![page] = t]
      /\ unsaved' = IF op[t].dirtyParent THEN unsaved \ {parent} ELSE unsaved
      /\ UNCHANGED <<status, nodes, free, shared, owed, load>>
  BY DEF LockChild, MayLock, userVars
<1>2. op' = [op EXCEPT ![t] = o] /\ pc' = [pc EXCEPT ![t] = label]
  BY DEF LockChild, Goto
<1>3. /\ op[t] \in Ops /\ op[t].key \in Nat
      /\ page \in Allocated /\ page \in Pages /\ parent \in Pages
      /\ exclusive[parent] = t /\ t # Nil
      /\ \A p \in unsaved : exclusive[p] = t => p = parent /\ op[t].dirtyParent = TRUE
  BY <1>1, LockIsThere
<1>4. /\ leaf => page \in Leaves
      /\ ~leaf => page \in InnerPages /\ nodes[page] \in InnerIn(Allocated)
  BY <1>3, NodeKind
<1>5. ~leaf => InnerLookup(nodes[page], op[t].key) \in Allocated
  BY <1>3, <1>4, InnerLookupType
<1>6. ~leaf => InnerLookup(nodes[page], op[t].key) \in Pages
  BY <1>5 DEF Allocated
<1>7. /\ o \in Ops
      /\ leaf => o.node = page
      /\ ~leaf => o.parent = page /\ o.node = InnerLookup(nodes[page], op[t].key)
  BY <1>3, <1>6 DEF Ops
<1>8. label \in Labels
  BY DEF Labels
<1>9. parent # page
  BY <1>1, <1>3
<1>10. /\ exclusive' \in [Pages -> Threads \cup {Nil}]
       /\ \A p \in Pages : exclusive'[p] = IF p = page THEN t ELSE IF p = parent THEN Nil
                                           ELSE exclusive[p]
  BY <1>1, <1>3, <1>9 DEF IInv, TypeOK
<1>11. op'[t] = o /\ pc'[t] = label
  BY <1>2 DEF IInv, TypeOK, OpsOK
<1>12. /\ Allocated' = Allocated /\ Leaves' = Leaves /\ InnerPages' = InnerPages
  BY <1>1 DEF Allocated, Leaves, InnerPages, Pages
<1>13. PlaceOK(t)'
  <2>1. CASE leaf
    BY <1>3, <1>4, <1>7, <1>10, <1>11, <1>12, <2>1 DEF PlaceOK
  <2>2. CASE ~leaf
    BY <1>3, <1>4, <1>5, <1>7, <1>10, <1>11, <1>12, <2>2 DEF PlaceOK
  <2> QED
    BY <2>1, <2>2
<1> HIDE DEF page, parent, leaf, o, label
<1>14. LocksExclude'
  BY <1>1, <1>10 DEF IInv, LocksExclude, Pages
<1>15. \A u \in Threads \ {t} : \A p \in Pages :
         /\ u \in shared[p] => u \in shared'[p]
         /\ u \in shared[p] /\ p \in Allocated => nodes'[p] = nodes[p]
         /\ exclusive[p] = u => exclusive'[p] = u
  <2>1. \A u \in Threads : u # Nil
    BY NilAssumption
  <2> QED
    BY <1>1, <1>3, <1>10, <2>1
<1>16. \A p \in unsaved' : p \in unsaved /\ exclusive[p] # t
  BY <1>1, <1>3
<1>17. NodesOK' /\ KindsKept
  BY <1>1, <1>12 DEF IInv, NodesOK, KindsKept, Pages
<1>18. /\ nodes' \in [Pages -> InnerNodes \cup LeafNodes \cup {Nil}] /\ free' \in 3 .. MaxPages
       /\ shared' \in [Pages -> SUBSET Threads] /\ unsaved' \subseteq Pages
       /\ owed' \in [Threads -> SUBSET Nat] /\ load' \in Seq(Nat)
  BY <1>1 DEF IInv, TypeOK, OpsOK
<1>19. exclusive' \in [Pages -> Threads \cup {Nil}] /\ status' = status /\ o \in Ops
  BY <1>1, <1>7, <1>10
<1>20. \A p \in unsaved' : (p \in unsaved /\ exclusive[p] # t) \/ MarkOK(p)'
  BY <1>16
<1> QED
  BY <1>2, <1>8, <1>13, <1>14, <1>15, <1>17, <1>18, <1>19, <1>20, ChangingStep

---------------------------------------------------------------------------
(* The root *)

\* New pages of the tree.
LEMMA PagesGrow ==
  ASSUME IInv, NEW n \in Nat, HasPages(n), free' = free + n
  PROVE  /\ free' \in 3 .. MaxPages
         /\ Allocated' = Allocated \cup (free .. free + n - 1)
         /\ free .. free + n - 1 \subseteq Pages \ Allocated
         /\ Allocated \subseteq Pages
         /\ InnerPages = Allocated \ Leaves /\ Leaves \subseteq Allocated
         /\ Root \in InnerPages
<1>1. free \in 3 .. MaxPages /\ MaxPages \in Nat /\ free + n <= MaxPages
  BY UsersAssumption DEF IInv, TypeOK, HasPages
<1>2. free' \in 3 .. MaxPages
  BY <1>1
<1>3. Allocated' = Allocated \cup (free .. free + n - 1)
  BY <1>1 DEF Allocated, Pages
<1>4. free .. free + n - 1 \subseteq Pages \ Allocated
  BY <1>1 DEF Allocated, Pages
<1>5. Allocated = InnerPages \cup Leaves /\ Root \in InnerPages
  BY DEF IInv, NodesOK
<1>6. InnerPages \cap Leaves = {} /\ Allocated \subseteq Pages
  BY DEF InnerPages, Leaves, Allocated
<1> QED
  BY <1>2, <1>3, <1>4, <1>5, <1>6

\* The root is split into two new nodes.
LEMMA RootIsSplit ==
  ASSUME IInv, ~HasFreeSpace(nodes[Root]), HasPages(2), free' = free + 2,
         nodes' = [nodes EXCEPT ![Root] = SplitRoot(nodes[Root], free, free + 1),
                                ![free] = InnerSplit(nodes[Root]).old,
                                ![free + 1] = InnerSplit(nodes[Root]).new]
  PROVE  /\ NodesOK' /\ KindsKept
         /\ nodes' \in [Pages -> InnerNodes \cup LeafNodes \cup {Nil}]
         /\ free' \in 3 .. MaxPages
         /\ \A p \in Allocated : p # Root => nodes'[p] = nodes[p]
         /\ nodes'[Root] = SplitRoot(nodes[Root], free, free + 1)
<1> DEFINE root == SplitRoot(nodes[Root], free, free + 1)
           halves == InnerSplit(nodes[Root])
           A == Allocated \cup {free, free + 1}
<1>1. /\ free' \in 3 .. MaxPages /\ free \in Nat
      /\ Allocated' = Allocated \cup (free .. free + 2 - 1)
      /\ free .. free + 2 - 1 \subseteq Pages \ Allocated
      /\ Allocated \subseteq Pages
      /\ InnerPages = Allocated \ Leaves /\ Leaves \subseteq Allocated
      /\ Root \in InnerPages
  BY PagesGrow DEF IInv, TypeOK
<1>2. free .. free + 2 - 1 = {free, free + 1}
  BY <1>1
<1>3. Allocated' = A /\ {free, free + 1} \subseteq Pages \ Allocated
  BY <1>1, <1>2
<1>4. nodes[Root] \in InnerIn(Allocated)
  BY <1>1 DEF IInv, NodesOK
<1>5. Allocated \subseteq A /\ free \in A /\ free + 1 \in A
  OBVIOUS
<1> HIDE DEF A
<1>6. InnerIn(Allocated) \subseteq InnerIn(A)
  BY <1>5, LargerIn
<1>7. root \in InnerIn(A) /\ halves.old \in InnerIn(A) /\ halves.new \in InnerIn(A)
  BY <1>4, <1>5, <1>6, SplitRootType, InnerSplitType
<1> HIDE DEF root, halves
<1>8. nodes' = [nodes EXCEPT ![Root] = root, ![free] = halves.old, ![free + 1] = halves.new]
  BY DEF root, halves
<1>9. Root # free /\ Root # free + 1 /\ free # free + 1 /\ Root \in Pages
  BY <1>1, <1>3
<1>10. /\ nodes' = [p \in Pages |-> nodes'[p]]
       /\ nodes'[Root] = root /\ nodes'[free] = halves.old /\ nodes'[free + 1] = halves.new
       /\ \A p \in Pages \ {Root, free, free + 1} : nodes'[p] = nodes[p]
  BY <1>1, <1>3, <1>8, <1>9 DEF IInv, TypeOK
<1>11. \A p \in A \ Leaves : nodes'[p] \in InnerIn(A)
  <2>1. \A p \in Allocated \ Leaves : nodes[p] \in InnerIn(A)
    BY <1>1, <1>6 DEF IInv, NodesOK
  <2> QED
    BY <1>1, <1>7, <1>10, <2>1 DEF A
<1>12. \A p \in Leaves : nodes'[p] \in LeafIn(Leaves)
  BY <1>1, <1>3, <1>10 DEF IInv, NodesOK
<1>13. \A p \in Pages \ A : nodes'[p] = Nil
  BY <1>1, <1>10 DEF IInv, NodesOK, A
<1>14. /\ Leaves \subseteq A /\ Root \in A \ Leaves /\ InnerPages \subseteq A \ Leaves
       /\ Leaves \subseteq Leaves
  BY <1>1 DEF A
<1>15. /\ NodesOK' /\ KindsKept
       /\ nodes' \in [Pages -> InnerNodes \cup LeafNodes \cup {Nil}]
  BY <1>3, <1>5, <1>10, <1>11, <1>12, <1>13, <1>14, NodesStep
<1>16. \A p \in Allocated : p # Root => nodes'[p] = nodes[p]
  BY <1>1, <1>3, <1>10
<1> QED
  BY <1>1, <1>10, <1>15, <1>16 DEF root

LEMMA LockRootStep ==
  ASSUME IInv, NEW t \in Threads, LockRoot(t)
  PROVE  IInv'
<1> DEFINE full == ~HasFreeSpace(nodes[Root])
           root == IF full THEN SplitRoot(nodes[Root], free, free + 1) ELSE nodes[Root]
           o == [op[t] EXCEPT !.parent = Root, !.dirtyParent = full,
                              !.node = InnerLookup(root, op[t].key)]
<1>1. /\ pc[t] = "lockRoot" /\ shared[Root] = {} /\ exclusive[Root] = Nil
      /\ exclusive' = [exclusive EXCEPT ![Root] = t]
      /\ pc' = [pc EXCEPT ![t] = "lockChild"]
      /\ UNCHANGED <<status, shared, owed, load>>
  BY DEF LockRoot, MayLock, Goto, userVars
<1>2. op' = [op EXCEPT ![t] = o]
  BY DEF LockRoot, NewPage
<1>3. /\ NodesOK' /\ KindsKept
      /\ nodes' \in [Pages -> InnerNodes \cup LeafNodes \cup {Nil}]
      /\ free' \in 3 .. MaxPages
      /\ \A p \in Allocated : p # Root => nodes'[p] = nodes[p]
      /\ nodes'[Root] = root
      /\ unsaved' = IF full THEN unsaved \cup {Root} ELSE unsaved
  <2>1. CASE full
    <3>1. /\ HasPages(2) /\ free' = free + 2
          /\ nodes' = [nodes EXCEPT ![Root] = SplitRoot(nodes[Root], free, free + 1),
                                    ![free] = InnerSplit(nodes[Root]).old,
                                    ![free + 1] = InnerSplit(nodes[Root]).new]
          /\ unsaved' = unsaved \cup {Root}
      BY <2>1 DEF LockRoot, NewPage
    <3> QED
      BY <2>1, <3>1, RootIsSplit
  <2>2. CASE ~full
    <3>1. UNCHANGED <<nodes, free, unsaved>>
      BY <2>2 DEF LockRoot
    <3>2. /\ NodesOK' /\ KindsKept
          /\ nodes' \in [Pages -> InnerNodes \cup LeafNodes \cup {Nil}] /\ free' \in 3 .. MaxPages
      BY <3>1 DEF IInv, TypeOK, NodesOK, KindsKept, Allocated, InnerPages, Leaves, Pages
    <3> QED
      BY <2>2, <3>1, <3>2
  <2> QED
    BY <2>1, <2>2
<1>4. op[t] \in Ops /\ op[t].key \in Nat /\ t # Nil /\ Root \in Pages /\ Root \in Allocated
  BY NilAssumption DEF IInv, OpsOK, Ops, NodesOK, InnerPages, Allocated
<1>5. Root \in InnerPages' /\ root \in InnerIn(Allocated')
  BY <1>3 DEF NodesOK
<1> HIDE DEF root
<1>6. InnerLookup(root, op[t].key) \in Allocated'
  BY <1>4, <1>5, InnerLookupType
<1>7. InnerLookup(root, op[t].key) \in Pages
  BY <1>6 DEF Allocated, Pages
<1>8. full \in BOOLEAN
  OBVIOUS
<1> HIDE DEF full
<1>9. /\ o \in Ops /\ o.parent = Root /\ o.dirtyParent = full
      /\ o.node = InnerLookup(root, op[t].key)
  BY <1>4, <1>7, <1>8 DEF Ops
<1> HIDE DEF o
<1>10. op'[t] = o /\ pc'[t] = "lockChild" /\ "lockChild" \in Labels
  BY <1>1, <1>2 DEF IInv, TypeOK, OpsOK, Labels
<1>11. /\ exclusive' \in [Pages -> Threads \cup {Nil}]
       /\ \A p \in Pages : exclusive'[p] = IF p = Root THEN t ELSE exclusive[p]
  BY <1>1, <1>4 DEF IInv, TypeOK
<1>12. PlaceOK(t)'
  BY <1>4, <1>5, <1>6, <1>9, <1>10, <1>11 DEF PlaceOK
<1>13. LocksExclude'
  BY <1>1, <1>11 DEF IInv, LocksExclude, Pages
<1>14. \A u \in Threads \ {t} : \A p \in Pages :
         /\ u \in shared[p] => u \in shared'[p]
         /\ u \in shared[p] /\ p \in Allocated => nodes'[p] = nodes[p]
         /\ exclusive[p] = u => exclusive'[p] = u
  <2>1. \A u \in Threads : u # Nil
    BY NilAssumption
  <2> QED
    BY <1>1, <1>3, <1>11, <2>1
<1>15. \A p \in unsaved' : (p \in unsaved /\ exclusive[p] # t) \/ MarkOK(p)'
  <2>1. \A p \in unsaved : exclusive[p] # t
    BY <1>1 DEF IInv, MarksOK, MarkOK
  <2>2. full => MarkOK(Root)'
    BY <1>4, <1>9, <1>10, <1>11 DEF MarkOK
  <2> QED
    BY <1>3, <2>1, <2>2
<1>16. /\ shared' \in [Pages -> SUBSET Threads] /\ unsaved' \subseteq Pages
       /\ owed' \in [Threads -> SUBSET Nat] /\ load' \in Seq(Nat) /\ status' = status
  BY <1>1, <1>3, <1>4 DEF IInv, TypeOK, OpsOK
<1>17. o \in Ops /\ exclusive' \in [Pages -> Threads \cup {Nil}]
  BY <1>9, <1>11
<1>18. /\ NodesOK' /\ KindsKept
       /\ nodes' \in [Pages -> InnerNodes \cup LeafNodes \cup {Nil}]
       /\ free' \in 3 .. MaxPages
  BY <1>3
<1> QED
  BY <1>1, <1>2, <1>10, <1>12, <1>13, <1>14, <1>15, <1>16, <1>17, <1>18, ChangingStep

---------------------------------------------------------------------------
(* A full child *)

\* The halves of a full node.
Halves(page) == IF nodes[page].leaf THEN LeafSplit(nodes[page], free) ELSE InnerSplit(nodes[page])

LEMMA ChildIsSplit ==
  ASSUME IInv, NEW page \in Allocated, NEW parent \in InnerPages, page # parent,
         ~HasFreeSpace(nodes[page]), HasFreeSpace(nodes[parent]),
         HasPages(1), free' = free + 1,
         nodes' = [nodes EXCEPT ![page] = Halves(page).old, ![free] = Halves(page).new,
                                ![parent] = InnerInsert(nodes[parent], Halves(page).splitter, free)]
  PROVE  /\ NodesOK' /\ KindsKept
         /\ nodes' \in [Pages -> InnerNodes \cup LeafNodes \cup {Nil}]
         /\ free' \in 3 .. MaxPages
         /\ \A p \in Allocated : p # parent /\ p # page => nodes'[p] = nodes[p]
         /\ nodes'[parent] = InnerInsert(nodes[parent], Halves(page).splitter, free)
<1> DEFINE leaf == nodes[page].leaf
           halves == Halves(page)
           new == InnerInsert(nodes[parent], halves.splitter, free)
           A == Allocated \cup {free}
           L == IF leaf THEN Leaves \cup {free} ELSE Leaves
<1>1. /\ free' \in 3 .. MaxPages /\ free \in Nat
      /\ Allocated' = Allocated \cup (free .. free + 1 - 1)
      /\ free .. free + 1 - 1 \subseteq Pages \ Allocated
      /\ Allocated \subseteq Pages
      /\ InnerPages = Allocated \ Leaves /\ Leaves \subseteq Allocated
      /\ Root \in InnerPages
  BY PagesGrow DEF IInv, TypeOK
<1>2. free .. free + 1 - 1 = {free}
  BY <1>1
<1>3. Allocated' = A /\ free \in Pages \ Allocated
  BY <1>1, <1>2
<1>4. /\ leaf => page \in Leaves /\ nodes[page] \in LeafIn(Leaves)
      /\ ~leaf => page \in InnerPages /\ nodes[page] \in InnerIn(Allocated)
  BY NodeKind
<1>5. /\ Allocated \subseteq A /\ free \in A /\ Leaves \subseteq L /\ L \subseteq A
      /\ leaf => free \in L
      /\ A \ L = IF leaf THEN InnerPages ELSE InnerPages \cup {free}
  BY <1>1, <1>3
<1>6. nodes[parent] \in InnerIn(Allocated)
  BY DEF IInv, NodesOK
<1> HIDE DEF A, L
<1>7. InnerIn(Allocated) \subseteq InnerIn(A) /\ LeafIn(Leaves) \subseteq LeafIn(L)
  BY <1>5, LargerIn
<1>8. /\ leaf => halves.old \in LeafIn(L) /\ halves.new \in LeafIn(L)
      /\ ~leaf => halves.old \in InnerIn(A) /\ halves.new \in InnerIn(A)
      /\ halves.splitter \in Nat
  <2>1. CASE leaf
    <3>1. halves = LeafSplit(nodes[page], free)
      BY <2>1 DEF Halves
    <3> QED
      BY <1>4, <1>5, <1>7, <2>1, <3>1, LeafSplitType
  <2>2. CASE ~leaf
    <3>1. halves = InnerSplit(nodes[page])
      BY <2>2 DEF Halves
    <3> QED
      BY <1>4, <1>7, <2>2, <3>1, InnerSplitType
  <2> QED
    BY <2>1, <2>2
<1> HIDE DEF halves
<1>9. new \in InnerIn(A)
  BY <1>5, <1>6, <1>7, <1>8, InnerInsertType
<1>10. nodes' = [nodes EXCEPT ![page] = halves.old, ![free] = halves.new, ![parent] = new]
  BY DEF halves
<1> HIDE DEF new, leaf
<1>11. page # free /\ parent # free /\ page \in Pages /\ parent \in Pages
  BY <1>1, <1>3
<1>12. /\ nodes' = [p \in Pages |-> nodes'[p]]
       /\ nodes'[page] = halves.old /\ nodes'[free] = halves.new /\ nodes'[parent] = new
       /\ \A p \in Pages \ {page, free, parent} : nodes'[p] = nodes[p]
  BY <1>3, <1>10, <1>11 DEF IInv, TypeOK
<1>13. \A p \in A \ L : nodes'[p] \in InnerIn(A)
  <2>1. \A p \in InnerPages : nodes[p] \in InnerIn(A) /\ p \in Pages
    BY <1>1, <1>7 DEF IInv, NodesOK
  <2>2. \A p \in InnerPages : p # page => nodes'[p] \in InnerIn(A)
    BY <1>3, <1>9, <1>11, <1>12, <2>1, <1>1
  <2>3. CASE leaf
    <3>1. page \notin InnerPages
      BY <1>1, <1>4, <2>3
    <3> QED
      BY <1>5, <2>2, <2>3, <3>1
  <2>4. CASE ~leaf
    BY <1>5, <1>8, <1>12, <2>2, <2>4
  <2> QED
    BY <2>3, <2>4
<1>14. \A p \in L : nodes'[p] \in LeafIn(L)
  <2>1. \A p \in Leaves : nodes[p] \in LeafIn(L) /\ p \in Pages /\ p # parent
    BY <1>1, <1>7 DEF IInv, NodesOK
  <2>2. ~leaf => page \notin Leaves
    BY <1>1, <1>4
  <2> QED
    BY <1>5, <1>8, <1>12, <2>1, <2>2 DEF L
<1>15. \A p \in Pages \ A : nodes'[p] = Nil
  BY <1>1, <1>12 DEF IInv, NodesOK, A
<1>16. Root \in A \ L /\ InnerPages \subseteq A \ L
  BY <1>1, <1>5
<1>17. /\ NodesOK' /\ KindsKept
       /\ nodes' \in [Pages -> InnerNodes \cup LeafNodes \cup {Nil}]
  BY <1>3, <1>5, <1>12, <1>13, <1>14, <1>15, <1>16, NodesStep
<1>18. \A p \in Allocated : p # parent /\ p # page => nodes'[p] = nodes[p]
  BY <1>1, <1>3, <1>12
<1> QED
  BY <1>1, <1>12, <1>17, <1>18 DEF new, halves

LEMMA SplitChildStep ==
  ASSUME IInv, NEW t \in Threads, SplitChild(t)
  PROVE  IInv'
<1> DEFINE page == op[t].node
           parent == op[t].parent
           newParent == InnerInsert(nodes[parent], Halves(page).splitter, free)
           child == InnerLookup(newParent, op[t].key)
           o == [op[t] EXCEPT !.dirtyParent = TRUE, !.node = child]
<1>1. /\ pc[t] = "lockChild" /\ shared[page] = {} /\ exclusive[page] = Nil
      /\ ~HasFreeSpace(nodes[page]) /\ HasPages(1)
      /\ UNCHANGED <<shared, exclusive, owed, load>>
  BY DEF SplitChild, MayLock, lockVars, userVars
<1>2. CASE ~HasFreeSpace(nodes[parent])
  <2>1. status' = "failed" /\ UNCHANGED <<nodes, free, unsaved, op, pc>>
    BY <1>2 DEF SplitChild
  <2> QED
    BY <1>1, <2>1, StatusStep
<1>3. CASE HasFreeSpace(nodes[parent])
  <2>1. /\ op[t] \in Ops /\ op[t].key \in Nat
        /\ page \in Allocated /\ page \in Pages /\ parent \in InnerPages /\ parent \in Pages
        /\ exclusive[parent] = t /\ t # Nil /\ shared[parent] = {}
        /\ \A p \in unsaved : exclusive[p] = t => p = parent
    BY <1>1, LockIsThere
  <2>2. /\ nodes' = [nodes EXCEPT ![page] = Halves(page).old, ![free] = Halves(page).new,
                                  ![parent] = newParent]
        /\ free' = free + 1 /\ unsaved' = unsaved \cup {parent}
        /\ pc' = [pc EXCEPT ![t] = "lockHalf"] /\ status' = status
    BY <1>3 DEF SplitChild, NewPage, Halves, Goto
  <2>3. op' = [op EXCEPT ![t] = o]
    BY <1>3 DEF SplitChild, NewPage, Halves
  <2>4. page # parent
    BY <1>1, <2>1
  <2>5. /\ NodesOK' /\ KindsKept
        /\ nodes' \in [Pages -> InnerNodes \cup LeafNodes \cup {Nil}]
        /\ free' \in 3 .. MaxPages
        /\ \A p \in Allocated : p # parent /\ p # page => nodes'[p] = nodes[p]
        /\ nodes'[parent] = newParent
    BY <1>1, <1>3, <2>1, <2>2, <2>4, ChildIsSplit
  <2>6. parent \in InnerPages' /\ newParent \in InnerIn(Allocated')
    BY <2>1, <2>5 DEF NodesOK, KindsKept
  <2> HIDE DEF page, parent, newParent
  <2>7. child \in Allocated'
    BY <2>1, <2>6, InnerLookupType
  <2>8. child \in Pages
    BY <2>7 DEF Allocated, Pages
  <2> HIDE DEF child
  <2>9. o \in Ops /\ o.parent = parent /\ o.dirtyParent = TRUE /\ o.node = child
    BY <2>1, <2>8 DEF Ops, parent
  <2> HIDE DEF o
  <2>10. op'[t] = o /\ pc'[t] = "lockHalf" /\ "lockHalf" \in Labels
    BY <2>2, <2>3 DEF IInv, TypeOK, OpsOK, Labels
  <2>11. exclusive'[parent] = t /\ exclusive' = exclusive
    BY <1>1, <2>1
  <2>12. PlaceOK(t)'
    BY <2>6, <2>7, <2>9, <2>10, <2>11 DEF PlaceOK
  <2>13. LocksExclude'
    BY <1>1 DEF IInv, LocksExclude, Pages
  <2>14. \A u \in Threads \ {t} : \A p \in Pages :
           /\ u \in shared[p] => u \in shared'[p]
           /\ u \in shared[p] /\ p \in Allocated => nodes'[p] = nodes[p]
           /\ exclusive[p] = u => exclusive'[p] = u
    BY <1>1, <2>1, <2>5
  <2>15. ASSUME NEW p \in Pages, p = parent PROVE MarkOK(p)'
    BY <2>1, <2>9, <2>10, <2>11, <2>15 DEF MarkOK
  <2>16. \A p \in unsaved' : (p \in unsaved /\ exclusive[p] # t) \/ MarkOK(p)'
    <3>1. SUFFICES ASSUME NEW p \in unsaved'
                   PROVE  (p \in unsaved /\ exclusive[p] # t) \/ MarkOK(p)'
      OBVIOUS
    <3>2. CASE p = parent
      BY <2>1, <2>15, <3>2
    <3>3. CASE p # parent
      BY <2>1, <2>2, <3>1, <3>3
    <3> QED
      BY <3>2, <3>3
  <2>17. /\ shared' \in [Pages -> SUBSET Threads] /\ unsaved' \subseteq Pages
         /\ owed' \in [Threads -> SUBSET Nat] /\ load' \in Seq(Nat)
         /\ exclusive' \in [Pages -> Threads \cup {Nil}]
    BY <1>1, <2>1, <2>2 DEF IInv, TypeOK, OpsOK
  <2>18. o \in Ops
    BY <2>9
  <2>19. /\ NodesOK' /\ KindsKept
         /\ nodes' \in [Pages -> InnerNodes \cup LeafNodes \cup {Nil}]
         /\ free' \in 3 .. MaxPages
    BY <2>5
  <2> QED
    BY <2>2, <2>3, <2>10, <2>12, <2>13, <2>14, <2>16, <2>17, <2>18, <2>19, ChangingStep
<1> QED
  BY <1>2, <1>3

---------------------------------------------------------------------------
(* Theorems *)

LEMMA InitOK ==
  ASSUME Init
  PROVE  IInv
<1> DEFINE root == InnerNode(<<>>, <<FirstLeaf>>)
           A == {Root, FirstLeaf}
           L == {FirstLeaf}
<1>1. MaxPages \in Nat /\ MaxPages >= 3 /\ Loads \subseteq Seq(Nat)
  BY UsersAssumption
<1>2. Root \in Pages /\ FirstLeaf \in Pages /\ Root # FirstLeaf /\ Root = 1 /\ FirstLeaf = 2
  BY <1>1 DEF Root, FirstLeaf, Pages
<1>3. free = 3 /\ nodes = [p \in Pages |-> IF p = Root THEN root
                                           ELSE IF p = FirstLeaf THEN EmptyLeaf ELSE Nil]
  BY DEF Init
<1>4. Allocated = A
  BY <1>1, <1>2, <1>3 DEF Allocated, Pages
<1>5. root \in InnerIn(A)
  <2>1. <<>> \in Seq(Nat) /\ Len(<<>>) = 0
    OBVIOUS
  <2>2. <<FirstLeaf>> \in Seq(A) /\ Len(<<FirstLeaf>>) = 0 + 1
    OBVIOUS
  <2>3. 0 < 2 * InnerDegree
    BY Degrees
  <2> HIDE DEF A
  <2> QED
    BY <2>1, <2>2, <2>3, InnerMade
<1>6. EmptyLeaf \in LeafIn(L)
  <2>1. /\ <<>> \in Seq(Nat) /\ <<>> \in Seq(Values) /\ Len(<<>>) = 0
        /\ NoPage \in L \cup {NoPage}
    OBVIOUS
  <2>2. 0 < 2 * LeafDegree
    BY Degrees
  <2> HIDE DEF L
  <2> QED
    BY <2>1, <2>2, LeafMade DEF EmptyLeaf
<1>7. root.leaf = FALSE /\ EmptyLeaf.leaf = TRUE
  BY DEF InnerNode, EmptyLeaf, LeafNode
<1> HIDE DEF root
<1>8. nodes[Root] = root /\ nodes[FirstLeaf] = EmptyLeaf
  BY <1>2, <1>3
<1>9. InnerPages = {Root} /\ Leaves = L
  BY <1>2, <1>4, <1>7, <1>8 DEF InnerPages, Leaves
<1>10. NodesOK
  BY <1>2, <1>3, <1>4, <1>5, <1>6, <1>8, <1>9 DEF NodesOK
<1>11. nodes \in [Pages -> InnerNodes \cup LeafNodes \cup {Nil}]
  <2>1. A \subseteq Pages /\ L \subseteq Pages
    BY <1>2
  <2>2. root \in InnerNodes /\ EmptyLeaf \in LeafNodes
    BY <1>5, <1>6, <2>1, LargerIn, NodeSets
  <2> QED
    BY <1>3, <2>2
<1>12. NoOp \in Ops /\ 0 \in 0 .. 2 * LeafDegree
  BY Degrees DEF NoOp, Ops, Results
<1>13. op \in [Threads -> Ops] /\ load \in Seq(Nat)
  BY <1>1, <1>12 DEF Init
<1>14. \A t \in Threads : /\ op[t].kind \in Kinds \cup {"none"}
                          /\ op[t].node \in Pages \cup {NoPage}
                          /\ op[t].index \in 0 .. 2 * LeafDegree
  BY <1>13 DEF Ops
<1>15. TypeOK
  BY <1>1, <1>11, <1>14 DEF Init, TypeOK, Labels
<1>16. LocksExclude /\ PlacesOK /\ MarksOK
  BY DEF Init, LocksExclude, PlacesOK, PlaceOK, MarksOK
<1> QED
  BY <1>10, <1>13, <1>15, <1>16 DEF IInv, OpsOK

LEMMA InsertStep ==
  ASSUME IInv, NEW t \in Threads, Insert(t)
  PROVE  IInv'
BY InsertHereStep, InsertFullStep, LockRootStep, SplitChildStep, LockChildStep,
   InsertExclusiveStep DEF Insert

LEMMA ScanStep ==
  ASSUME IInv, NEW t \in Threads, Scan(t)
  PROVE  IInv'
BY BeginScanStep, ScanNextStep, NextLeafStep, EndScanStep DEF Scan

LEMMA ContinueStep ==
  ASSUME IInv, NEW t \in Threads, Continue(t)
  PROVE  IInv'
BY FixRootStep, DescendStep, LookupStep, EraseStep, InsertStep, RaceStep, ScanStep, ReturnStep
   DEF Continue

LEMMA NextOK ==
  ASSUME IInv, [Next]_vars
  PROVE  IInv'
<1>1. CASE Load
  BY <1>1, LoadStep
<1>2. ASSUME NEW t \in Threads, Call(t, "size", 0)
      PROVE  IInv'
  BY <1>2, CallStep DEF Kinds
<1>3. ASSUME NEW t \in Threads, NEW kind \in Kinds \ {"size"}, NEW key \in Keys, Call(t, kind, key)
      PROVE  IInv'
  <2>1. kind \in Kinds /\ key \in Nat
    BY UsersAssumption
  <2> QED
    BY <1>3, <2>1, CallStep
<1>4. ASSUME NEW t \in Threads, Continue(t)
      PROVE  IInv'
  BY <1>4, ContinueStep
<1>5. ASSUME NEW t \in Threads, DropScan(t)
      PROVE  IInv'
  BY <1>5, DropScanStep
<1>6. CASE UNCHANGED vars
  <2>1. status' = status
        /\ UNCHANGED <<nodes, free, shared, exclusive, unsaved, pc, op, owed, load>>
    BY <1>6 DEF vars
  <2>2. status' \in {"running", "failed", "raced"}
    BY <2>1 DEF IInv, TypeOK
  <2> QED
    BY <2>1, <2>2, StatusStep
<1> QED
  BY <1>1, <1>2, <1>3, <1>4, <1>5, <1>6 DEF Next

\* The inductive invariant: what is in the pages of the tree, which pages a thread has fixed
\* at its place in lookupPage, insert and the iterator, and who unfixes a changed page.
THEOREM Inductive == Spec => []IInv
<1>1. Init => IInv
  BY InitOK
<1>2. IInv /\ [Next]_vars => IInv'
  BY NextOK
<1> QED
  BY <1>1, <1>2, PTL DEF Spec

\* Nodes are never filled up, children and the chain of the leaves stay among the pages that
\* newPage has given away, and iterators stay in bounds.
THEOREM TypeCorrect == Spec => []TypeOK
<1>1. IInv => TypeOK
  BY DEF IInv
<1> QED
  BY <1>1, Inductive, PTL

\* The parent that a split has changed stays fixed exclusively until insert unfixes it as
\* dirty, whatever the other threads do: no change is lost when the page is evicted.
THEOREM ChangesStayMarked == Spec => []ChangesAreMarked
<1>1. IInv => ChangesAreMarked
  <2>1. SUFFICES ASSUME IInv, NEW p \in unsaved PROVE exclusive[p] # Nil
    BY DEF ChangesAreMarked
  <2>2. exclusive[p] \in Threads
    BY <2>1 DEF IInv, MarksOK, MarkOK
  <2> QED
    BY <2>2, NilAssumption
<1> QED
  BY <1>1, Inductive, PTL
==============================================================================
