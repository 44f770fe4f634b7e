---------------------------- MODULE BPlusTreeNodes --------------------------
(***************************************************************************)
(* The nodes of the B+ tree (src/src/bplustree/InnerNode.tpp and           *)
(* LeafNode.tpp).  A node is a value; an operation that changes nodes      *)
(* gives the nodes after it.  Entries are numbered from 0 in the code:     *)
(* keys()[k] is keys[k + 1] here.                                          *)
(***************************************************************************)
EXTENDS Integers, FiniteSets, SequencesExt

CONSTANTS InnerDegree, LeafDegree,
          Default,  \* the default value V()
          NoPage    \* the invalid page id

ASSUME DegreesAssumption == InnerDegree \in Nat /\ InnerDegree >= 2
                         /\ LeafDegree \in Nat /\ LeafDegree >= 2

ASSUME NoPageAssumption == NoPage \notin Nat

InnerNode(keys, children) == [leaf |-> FALSE, keys |-> keys, children |-> children]

LeafNode(keys, values, next) == [leaf |-> TRUE, keys |-> keys, values |-> values, next |-> next]

Size(n) == Len(n.keys)

\* Mutant: a node may be filled up.
HasLastSpace(n) == Size(n) + 1 <= 2 * (IF n.leaf THEN LeafDegree ELSE InnerDegree)

\* The code leaves the last place of a node unused.
HasFreeSpace(n) == Size(n) + 1 < 2 * (IF n.leaf THEN LeafDegree ELSE InnerDegree)

\* Mutant: std::upper_bound.
UpperBound(keys, key) == Cardinality({i \in DOMAIN keys : keys[i] <= key})

\* std::lower_bound in sorted keys: the index behind those that are less than the key.
LowerBound(keys, key) == Cardinality({i \in DOMAIN keys : keys[i] < key})

---------------------------------------------------------------------------
(* Leaf nodes *)

EmptyLeaf == LeafNode(<<>>, <<>>, NoPage)

\* Is the key at index k of the leaf?  (If not, lookup and erase have not found it.)
IsAt(n, k, key) == k < Size(n) /\ n.keys[k + 1] = key

LeafInsert(n, key, value) ==
  LET k == LowerBound(n.keys, key) IN
  LeafNode(InsertAt(n.keys, k + 1, key), InsertAt(n.values, k + 1, value), n.next)

LeafLookup(n, key) ==
  LET k == LowerBound(n.keys, key) IN
  IF IsAt(n, k, key) THEN n.values[k + 1] ELSE Default

LeafErase(n, key) ==
  LET k == LowerBound(n.keys, key) IN
  IF IsAt(n, k, key) THEN LeafNode(RemoveAt(n.keys, k + 1), RemoveAt(n.values, k + 1), n.next)
                     ELSE n

\* Mutant: the new leaf is not linked into the chain behind the old one.
LeafSplitUnlinked(n, newPage) ==
  LET k == (Size(n) + 1) \div 2 IN
  [old      |-> LeafNode(SubSeq(n.keys, 1, k), SubSeq(n.values, 1, k), n.next),
   new      |-> LeafNode(SubSeq(n.keys, k + 1, Size(n)), SubSeq(n.values, k + 1, Size(n)), n.next),
   splitter |-> n.keys[k]]

\* The larger keys go to the new leaf; the splitter stays, the largest of those that do.
LeafSplit(n, newPage) ==
  LET k == (Size(n) + 1) \div 2 IN
  [old      |-> LeafNode(SubSeq(n.keys, 1, k), SubSeq(n.values, 1, k), newPage),
   new      |-> LeafNode(SubSeq(n.keys, k + 1, Size(n)), SubSeq(n.values, k + 1, Size(n)), n.next),
   splitter |-> n.keys[k]]

---------------------------------------------------------------------------
(* Inner nodes: child k has the keys between keys()[k-1] (excluded) and    *)
(* keys()[k] (included).                                                   *)

InnerLookup(n, key) == n.children[LowerBound(n.keys, key) + 1]

Leftmost(n) == n.children[1]

\* The page goes behind the child that has been split.
InnerInsert(n, key, page) ==
  LET k == LowerBound(n.keys, key) IN
  InnerNode(InsertAt(n.keys, k + 1, key), InsertAt(n.children, k + 2, page))

\* keys()[k] is in neither half: it goes up.
InnerSplit(n) ==
  LET k == Size(n) \div 2 IN
  [old      |-> InnerNode(SubSeq(n.keys, 1, k), SubSeq(n.children, 1, k + 1)),
   new      |-> InnerNode(SubSeq(n.keys, k + 2, Size(n)), SubSeq(n.children, k + 2, Size(n) + 1)),
   splitter |-> n.keys[k + 1]]

\* Mutant: the root keeps its last child beside the new left half.
SplitRootKeepingLast(n, left, right) ==
  InnerNode(<<InnerSplit(n).splitter>>, <<left, Last(n.children)>>)

\* splitRoot: both halves go to new pages, the root stays where it is.
SplitRoot(n, left, right) == InnerNode(<<InnerSplit(n).splitter>>, <<left, right>>)
=============================================================================
