------------------------------ MODULE BPlusTree -----------------------------
(***************************************************************************)
(* The B+ tree (src/src/bplustree/BPlusTree.tpp, BPlusTreeIterator.tpp and *)
(* MetaNode.cpp) and the threads that use it.  Its nodes are pages that    *)
(* the buffer manager fixes, as PageStore describes: by one thread         *)
(* exclusively or by any number of them shared.  One action is what a      *)
(* thread does from the moment a fixPage returns to the call of the next   *)
(* one, except where it unfixes a page first and comes back to it.         *)
(*                                                                         *)
(* Page 1 is the root, page 2 the first leaf.  Page 0 is the meta node,    *)
(* which newPage fixes exclusively and unfixes again: a counter here.      *)
(***************************************************************************)
EXTENDS BPlusTreeNodes

CONSTANTS Threads,
          Loader,    \* the thread that fills the tree before all of them use it
          Loads,     \* the sequences of keys it may fill it with
          Keys,      \* the keys used after that
          MaxCalls,  \* bound: calls after that
          MaxPages,  \* bound: pages of the tree
          Nil

LoadKeys == UNION {Range(load) : load \in Loads}

AllKeys == Keys \cup LoadKeys

ASSUME UsersAssumption ==
  /\ Loader \in Threads
  /\ Keys \subseteq Nat
  /\ Loads \subseteq Seq(Nat)
  /\ MaxPages \in Nat /\ MaxPages >= 3

VARIABLES
  status,     \* "running"; "failed" after an assertion has, "raced" after a data race
  nodes,      \* the node in each page, or Nil
  free,       \* the meta node: the next page that newPage gives away
  shared,     \* the threads that have a page fixed for reading
  exclusive,  \* the thread that has a page fixed for writing, or Nil
  unsaved,    \* pages that have changed since they were last unfixed as dirty
  pc,         \* where a thread is in an operation; "idle" outside
  op,         \* its arguments, locals and result
  owed,       \* the keys that a scan must still come to, there since it started
  load,       \* what is left of the load
  calls       \* the number of calls, after the load

vars == <<status, nodes, free, shared, exclusive, unsaved, pc, op, owed, load, calls>>
lockVars == <<shared, exclusive>>
userVars == <<load, calls>>

Pages == 1 .. MaxPages - 1
Root == 1
FirstLeaf == 2

Value(t, key) == <<key, t>>

Values == Nat \X Threads

InnerNodes ==
  {n \in [leaf : {FALSE}, keys : Seq(Nat), children : Seq(Pages)] :
     Size(n) < 2 * InnerDegree /\ Len(n.children) = Size(n) + 1}

LeafNodes ==
  {n \in [leaf : {TRUE}, keys : Seq(Nat), values : Seq(Values), next : Pages \cup {NoPage}] :
     Size(n) < 2 * LeafDegree /\ Len(n.values) = Size(n)}

Kinds == {"insert", "erase", "lookup", "range", "size"}

Entries == [key : Nat, value : Values]

Results == Values \cup Nat \cup BOOLEAN \cup {Default, Nil}

\* A call, as the users of the map know it.
MapCalls == [kind : Kinds, key : Nat, value : Values \cup {Nil}, returns : BOOLEAN,
             result : Results, last : Entries \cup {Nil}, count : Nat, owed : SUBSET Nat]

ASSUME NilAssumption ==
  Nil \notin Threads \cup InnerNodes \cup LeafNodes \cup Values \cup Entries \cup MapCalls

\* parent and node: the pages the thread has fixed or goes to; index: the iterator's place
\* on its page; last and count: what a scan has come to.
NoOp == [kind |-> "none", key |-> 0, parent |-> NoPage, node |-> NoPage,
         dirtyParent |-> FALSE, index |-> 0, last |-> Nil, count |-> 0, result |-> Nil]

Labels == {"idle", "start", "descend", "lockRoot", "lockChild", "lockHalf", "place", "scan",
           "next", "done"}

\* No node is ever filled up.
TypeOK ==
  /\ status \in {"running", "failed", "raced"}
  /\ nodes \in [Pages -> InnerNodes \cup LeafNodes \cup {Nil}]
  /\ free \in 3 .. MaxPages
  /\ shared \in [Pages -> SUBSET Threads]
  /\ exclusive \in [Pages -> Threads \cup {Nil}]
  /\ unsaved \subseteq Pages
  /\ pc \in [Threads -> Labels]
  /\ \A t \in Threads : /\ op[t].kind \in Kinds \cup {"none"}
                        /\ op[t].node \in Pages \cup {NoPage}
                        /\ op[t].index \in 0 .. 2 * LeafDegree
  /\ owed \in [Threads -> SUBSET Nat]

\* The constructor: allocate initialises the meta node, the root and the first leaf.
Init ==
  /\ status = "running"
  /\ nodes = [p \in Pages |-> IF p = Root THEN InnerNode(<<>>, <<FirstLeaf>>)
                              ELSE IF p = FirstLeaf THEN EmptyLeaf ELSE Nil]
  /\ free = 3
  /\ shared = [p \in Pages |-> {}]
  /\ exclusive = [p \in Pages |-> Nil]
  /\ unsaved = {}
  /\ pc = [t \in Threads |-> "idle"]
  /\ op = [t \in Threads |-> NoOp]
  /\ owed = [t \in Threads |-> {}]
  /\ load \in Loads
  /\ calls = 0

LeafPages == {p \in Pages : nodes[p] # Nil /\ nodes[p].leaf}

TreeKeys == UNION {Range(nodes[p].keys) : p \in LeafPages}

---------------------------------------------------------------------------
(* Calls *)

\* A key is inserted once: users keep keys distinct.
MayInsert(key) ==
  /\ key \notin TreeKeys
  /\ \A t \in Threads : op[t].kind = "insert" => op[t].key # key

Begin(t, kind, key) ==
  /\ status = "running" /\ pc[t] = "idle"
  /\ kind = "insert" => MayInsert(key)
  /\ pc' = [pc EXCEPT ![t] = "start"]
  /\ op' = [op EXCEPT ![t] = [NoOp EXCEPT !.kind = kind, !.key = key]]
  /\ owed' = [owed EXCEPT ![t] = {k \in TreeKeys : kind = "size" \/ (kind = "range" /\ k >= key)}]
  /\ UNCHANGED <<status, nodes, free, lockVars, unsaved>>

Load ==
  /\ load # <<>>
  /\ Begin(Loader, "insert", Head(load))
  /\ load' = Tail(load)
  /\ UNCHANGED calls

Call(t, kind, key) ==
  /\ load = <<>>
  /\ calls < MaxCalls
  /\ Begin(t, kind, key)
  /\ calls' = calls + 1
  /\ UNCHANGED load

---------------------------------------------------------------------------
(* fixPage and unfixPage *)

\* fixPage(to, false) returns and the page it was called from is unfixed.
Step(t, from, to) ==
  /\ exclusive[to] = Nil
  /\ shared' = [shared EXCEPT ![from] = @ \ {t}, ![to] = @ \cup {t}]
  /\ UNCHANGED exclusive

Unshare(t) ==
  /\ shared' = [shared EXCEPT ![op[t].node] = @ \ {t}]
  /\ UNCHANGED exclusive

\* fixPage(p, true) may return.
MayLock(p) == shared[p] = {} /\ exclusive[p] = Nil

Goto(t, label) == pc' = [pc EXCEPT ![t] = label]

\* The operation has taken effect; Return is what its caller sees.
Finish(t, result) ==
  /\ Goto(t, "done")
  /\ op' = [op EXCEPT ![t] = [@ EXCEPT !.parent = NoPage, !.node = NoPage, !.index = 0,
                                      !.dirtyParent = FALSE, !.result = result]]

Return(t) ==
  /\ status = "running" /\ pc[t] = "done"
  /\ Goto(t, "idle")
  /\ op' = [op EXCEPT ![t] = NoOp]
  /\ UNCHANGED <<status, nodes, free, lockVars, unsaved, owed, userVars>>

---------------------------------------------------------------------------
(* lookupPage *)

FixRoot(t) ==
  /\ status = "running" /\ pc[t] = "start"
  /\ exclusive[Root] = Nil
  /\ shared' = [shared EXCEPT ![Root] = @ \cup {t}]
  /\ op' = [op EXCEPT ![t].node = Root]
  /\ Goto(t, "descend")
  /\ UNCHANGED <<status, nodes, free, exclusive, unsaved, owed, userVars>>

Node(t) == nodes[op[t].node]

\* Mutant: the parent is unfixed before the child is fixed.
DescendUncoupled(t) ==
  /\ status = "running" /\ pc[t] = "descend"
  /\ ~Node(t).leaf
  /\ \/ /\ op[t].parent = NoPage
        /\ Unshare(t)
        /\ op' = [op EXCEPT ![t].parent = InnerLookup(Node(t), op[t].key)]
     \/ /\ op[t].parent # NoPage /\ exclusive[op[t].parent] = Nil
        /\ shared' = [shared EXCEPT ![op[t].parent] = @ \cup {t}]
        /\ op' = [op EXCEPT ![t].node = op[t].parent, ![t].parent = NoPage]
        /\ UNCHANGED exclusive
  /\ UNCHANGED <<status, nodes, free, unsaved, pc, owed, userVars>>

\* The child is fixed before its parent is unfixed.  The code asks the parent, not the
\* child, whether it is a leaf: it never fixes the child exclusively.
Descend(t) ==
  LET child == IF op[t].kind = "size" THEN Leftmost(Node(t)) ELSE InnerLookup(Node(t), op[t].key)
  IN
  /\ status = "running" /\ pc[t] = "descend"
  /\ ~Node(t).leaf
  /\ Step(t, op[t].node, child)
  /\ op' = [op EXCEPT ![t].node = child]
  /\ UNCHANGED <<status, nodes, free, unsaved, pc, owed, userVars>>

\* lookupPage has returned the leaf to an operation of this kind.
AtLeaf(t, kind) ==
  /\ status = "running" /\ pc[t] = "descend"
  /\ op[t].kind = kind
  /\ Node(t).leaf

---------------------------------------------------------------------------
(* lookup and erase, and insert into a leaf that has room *)

Alone(t) == shared[op[t].node] \subseteq {t}

\* The leaf is fixed for reading only: changing it while another thread has it fixed is a
\* data race, after which nothing is known.
Race(t) ==
  /\ \/ AtLeaf(t, "erase") /\ op[t].key \in Range(Node(t).keys)
     \/ AtLeaf(t, "insert") /\ HasFreeSpace(Node(t))
  /\ ~Alone(t)
  /\ status' = "raced"
  /\ UNCHANGED <<nodes, free, lockVars, unsaved, pc, op, owed, userVars>>

Lookup(t) ==
  /\ AtLeaf(t, "lookup")
  /\ Unshare(t)
  /\ Finish(t, LeafLookup(Node(t), op[t].key))
  /\ UNCHANGED <<status, nodes, free, unsaved, owed, userVars>>

Erase(t) ==
  LET new == LeafErase(Node(t), op[t].key) IN
  /\ AtLeaf(t, "erase")
  /\ new # Node(t) => Alone(t)
  /\ nodes' = [nodes EXCEPT ![op[t].node] = new]
  /\ Unshare(t)
  /\ Finish(t, new # Node(t))
  /\ owed' = [u \in Threads |-> owed[u] \ {op[t].key}]
  /\ UNCHANGED <<status, free, unsaved, userVars>>

InsertHere(t) ==
  /\ AtLeaf(t, "insert")
  /\ HasFreeSpace(Node(t))
  /\ Alone(t)
  /\ nodes' = [nodes EXCEPT ![op[t].node] = LeafInsert(@, op[t].key, Value(t, op[t].key))]
  /\ Unshare(t)
  /\ Finish(t, Nil)
  /\ UNCHANGED <<status, free, unsaved, owed, userVars>>

\* Mutant: the full leaf stays fixed.
InsertFullFixed(t) ==
  /\ AtLeaf(t, "insert")
  /\ ~HasFreeSpace(Node(t))
  /\ op' = [op EXCEPT ![t].node = NoPage]
  /\ Goto(t, "lockRoot")
  /\ UNCHANGED <<status, nodes, free, lockVars, unsaved, owed, userVars>>

\* The leaf is full: insert starts again from the root.
InsertFull(t) ==
  /\ AtLeaf(t, "insert")
  /\ ~HasFreeSpace(Node(t))
  /\ Unshare(t)
  /\ op' = [op EXCEPT ![t].node = NoPage]
  /\ Goto(t, "lockRoot")
  /\ UNCHANGED <<status, nodes, free, unsaved, owed, userVars>>

---------------------------------------------------------------------------
(* insert with preventive splitting: every node on the way down that is full is split   *)
(* while its parent is fixed exclusively, so that there is room in the parent of a node *)
(* that is split.                                                                       *)

\* newPage gives away the next page.  (MaxPages is a bound: the segment grows.)
NewPage == free

HasPages(n) == free + n <= MaxPages

\* Mutant: a full root is not split.
LockRootFull(t) ==
  /\ status = "running" /\ pc[t] = "lockRoot"
  /\ MayLock(Root)
  /\ exclusive' = [exclusive EXCEPT ![Root] = t]
  /\ op' = [op EXCEPT ![t] = [@ EXCEPT !.parent = Root,
                                      !.node = InnerLookup(nodes[Root], op[t].key)]]
  /\ Goto(t, "lockChild")
  /\ UNCHANGED <<status, nodes, free, shared, unsaved, owed, userVars>>

LockRoot(t) ==
  LET full == ~HasFreeSpace(nodes[Root])
      halves == InnerSplit(nodes[Root])
      root == IF full THEN SplitRoot(nodes[Root], NewPage, NewPage + 1) ELSE nodes[Root]
  IN
  /\ status = "running" /\ pc[t] = "lockRoot"
  /\ MayLock(Root)
  /\ exclusive' = [exclusive EXCEPT ![Root] = t]
  /\ full => HasPages(2)
  /\ IF full
       THEN /\ nodes' = [nodes EXCEPT ![Root] = root, ![NewPage] = halves.old,
                                     ![NewPage + 1] = halves.new]
            /\ free' = free + 2
            /\ unsaved' = unsaved \cup {Root}
       ELSE UNCHANGED <<nodes, free, unsaved>>
  /\ op' = [op EXCEPT ![t] = [@ EXCEPT !.parent = Root, !.dirtyParent = full,
                                      !.node = InnerLookup(root, op[t].key)]]
  /\ Goto(t, "lockChild")
  /\ UNCHANGED <<status, shared, owed, userVars>>

\* The node is fixed, it is full and is split; it and its new sibling are unfixed, and the
\* parent says which of the two is next.  The parent must have room.
SplitChild(t) ==
  LET page == op[t].node
      parent == op[t].parent
      halves == IF nodes[page].leaf THEN LeafSplit(nodes[page], NewPage)
                                    ELSE InnerSplit(nodes[page])
      newParent == InnerInsert(nodes[parent], halves.splitter, NewPage)
  IN
  /\ status = "running" /\ pc[t] = "lockChild"
  /\ MayLock(page)
  /\ ~HasFreeSpace(nodes[page]) /\ HasPages(1)
  /\ IF HasFreeSpace(nodes[parent])
       THEN /\ nodes' = [nodes EXCEPT ![page] = halves.old, ![NewPage] = halves.new,
                                     ![parent] = newParent]
            /\ free' = free + 1
            /\ unsaved' = unsaved \cup {parent}
            /\ op' = [op EXCEPT ![t] = [@ EXCEPT !.dirtyParent = TRUE,
                                                !.node = InnerLookup(newParent, op[t].key)]]
            /\ Goto(t, "lockHalf")
            /\ UNCHANGED status
       ELSE status' = "failed" /\ UNCHANGED <<nodes, free, unsaved, op, pc>>
  /\ UNCHANGED <<lockVars, owed, userVars>>

\* Mutant: the parent is unfixed without the flag.
LockChildClean(t) ==
  LET page == op[t].node IN
  /\ status = "running"
  /\ pc[t] = "lockHalf" \/ (pc[t] = "lockChild" /\ HasFreeSpace(nodes[page]))
  /\ MayLock(page)
  /\ exclusive' = [exclusive EXCEPT ![op[t].parent] = Nil, ![page] = t]
  /\ op' = [op EXCEPT ![t] = [@ EXCEPT !.parent = page, !.dirtyParent = FALSE,
                                      !.node = IF nodes[page].leaf THEN page
                                               ELSE InnerLookup(nodes[page], op[t].key)]]
  /\ Goto(t, IF nodes[page].leaf THEN "place" ELSE "lockChild")
  /\ UNCHANGED <<status, nodes, free, shared, unsaved, owed, userVars>>

\* The node is fixed and its parent unfixed; on the way down it is the next parent.
LockChild(t) ==
  LET page == op[t].node IN
  /\ status = "running"
  /\ pc[t] = "lockHalf" \/ (pc[t] = "lockChild" /\ HasFreeSpace(nodes[page]))
  /\ MayLock(page)
  /\ exclusive' = [exclusive EXCEPT ![op[t].parent] = Nil, ![page] = t]
  /\ unsaved' = IF op[t].dirtyParent THEN unsaved \ {op[t].parent} ELSE unsaved
  /\ IF nodes[page].leaf
       THEN /\ op' = [op EXCEPT ![t] = [@ EXCEPT !.parent = NoPage, !.dirtyParent = FALSE]]
            /\ Goto(t, "place")
       ELSE /\ op' = [op EXCEPT ![t] = [@ EXCEPT !.parent = page, !.dirtyParent = FALSE,
                                                !.node = InnerLookup(nodes[page], op[t].key)]]
            /\ Goto(t, "lockChild")
  /\ UNCHANGED <<status, nodes, free, shared, owed, userVars>>

InsertExclusive(t) ==
  LET page == op[t].node IN
  /\ status = "running" /\ pc[t] = "place"
  /\ IF HasFreeSpace(nodes[page])
       THEN /\ nodes' = [nodes EXCEPT ![page] = LeafInsert(@, op[t].key, Value(t, op[t].key))]
            /\ exclusive' = [exclusive EXCEPT ![page] = Nil]
            /\ Finish(t, Nil)
            /\ UNCHANGED status
       ELSE status' = "failed" /\ UNCHANGED <<nodes, exclusive, op, pc>>
  /\ UNCHANGED <<free, shared, unsaved, owed, userVars>>

---------------------------------------------------------------------------
(* lookupRange and size: an iterator that keeps its leaf fixed *)

\* The iterator is at an entry, or it goes on to the next leaf.
AtEntry(t, page, index) ==
  /\ op' = [op EXCEPT ![t] = [@ EXCEPT !.node = page, !.index = index]]
  /\ Goto(t, IF index < Size(nodes[page]) THEN "scan" ELSE "next")

BeginScan(t) ==
  /\ \/ AtLeaf(t, "range") /\ AtEntry(t, op[t].node, LowerBound(Node(t).keys, op[t].key))
     \/ AtLeaf(t, "size") /\ AtEntry(t, op[t].node, 0)
  /\ UNCHANGED <<status, nodes, free, lockVars, unsaved, owed, userVars>>

\* The user, or the loop in size, takes the entry and calls operator++.
ScanNext(t) ==
  LET n == Node(t)
      next == op[t].index + 1
      key == n.keys[next]
  IN
  /\ status = "running" /\ pc[t] = "scan"
  /\ op' = [op EXCEPT ![t] = [@ EXCEPT !.index = next, !.count = op[t].count + 1,
                                      !.last = [key |-> key, value |-> n.values[next]]]]
  /\ Goto(t, IF next < Size(n) THEN "scan" ELSE "next")
  /\ owed' = [owed EXCEPT ![t] = @ \ {key}]
  /\ UNCHANGED <<status, nodes, free, lockVars, unsaved, userVars>>

\* The next leaf is fixed before this one is unfixed; an empty one is passed over.
NextLeaf(t) ==
  /\ status = "running" /\ pc[t] = "next"
  /\ Node(t).next # NoPage
  /\ Step(t, op[t].node, Node(t).next)
  /\ AtEntry(t, Node(t).next, 0)
  /\ UNCHANGED <<status, nodes, free, unsaved, owed, userVars>>

\* The last leaf is unfixed and the iterator is not valid any more.
EndScan(t) ==
  /\ status = "running" /\ pc[t] = "next"
  /\ Node(t).next = NoPage
  /\ Unshare(t)
  /\ Finish(t, op[t].count)
  /\ owed' = [owed EXCEPT ![t] = {}]
  /\ UNCHANGED <<status, nodes, free, unsaved, userVars>>

\* The user destroys an iterator that is valid.
DropScan(t) ==
  /\ status = "running" /\ pc[t] = "scan"
  /\ op[t].kind = "range"
  /\ Unshare(t)
  /\ Finish(t, Nil)
  /\ owed' = [owed EXCEPT ![t] = {}]
  /\ UNCHANGED <<status, nodes, free, unsaved, userVars>>

---------------------------------------------------------------------------
Insert(t) == InsertHere(t) \/ InsertFull(t) \/ LockRoot(t) \/ SplitChild(t) \/ LockChild(t)
             \/ InsertExclusive(t)

Scan(t) == BeginScan(t) \/ ScanNext(t) \/ NextLeaf(t) \/ EndScan(t)

\* What a thread does in a call, and when the scan it is in goes on.
Continue(t) == FixRoot(t) \/ Descend(t) \/ Lookup(t) \/ Erase(t) \/ Insert(t) \/ Race(t)
               \/ Scan(t) \/ Return(t)

Next ==
  \/ Load
  \/ \E t \in Threads :
       \/ Call(t, "size", 0)
       \/ \E kind \in Kinds \ {"size"}, key \in Keys : Call(t, kind, key)
       \/ Continue(t)
       \/ DropScan(t)

\* Threads are scheduled, the buffer manager's locks are granted when they are free, and
\* the user of an iterator goes on with it or destroys it.
Fairness == \A t \in Threads : WF_vars(Continue(t))

Spec == Init /\ [][Next]_vars

LiveSpec == Spec /\ Fairness

---------------------------------------------------------------------------
(* Properties *)

\* The leaf to which lookupPage goes for a key.
LeafOf(key) ==
  LET below[p \in {q \in Pages : nodes[q] # Nil}] ==
        IF nodes[p].leaf THEN p ELSE below[InnerLookup(nodes[p], key)]
  IN below[Root]

\* Every key of every leaf is found from the root at every moment: no split leaves a key on
\* the side where lookup does not go, whatever the other threads do between its steps.
EveryKeyIsFound == \A p \in LeafPages : \A key \in Range(nodes[p].keys) : LeafOf(key) = p

\* The leaves from p on.
ChainFrom(p) ==
  LET chain[q \in LeafPages] ==
        IF nodes[q].next = NoPage THEN <<q>> ELSE <<q>> \o chain[nodes[q].next]
  IN chain[p]

Ascending(keys) == \A i, j \in DOMAIN keys : i < j => keys[i] < keys[j]

\* The chain of the leaves, along which scans go, has every leaf once, and the keys of the
\* tree in ascending order, in each leaf and from leaf to leaf.
ChainIsSorted ==
  LET chain == ChainFrom(FirstLeaf)
      keys == [i \in DOMAIN chain |-> nodes[chain[i]].keys]
  IN
  /\ Range(chain) = LeafPages /\ IsInjective(chain)
  /\ \A i \in DOMAIN chain : Ascending(keys[i])
  /\ \A i, j \in DOMAIN chain :
       i < j => \A key \in Range(keys[i]), later \in Range(keys[j]) : key < later

\* All leaves are equally deep.
Depth(p) ==
  LET depth[q \in {r \in Pages : nodes[r] # Nil}] ==
        IF nodes[q].leaf THEN 0 ELSE 1 + depth[Leftmost(nodes[q])]
  IN depth[p]

TreeIsBalanced ==
  \A p \in Pages : nodes[p] # Nil /\ ~nodes[p].leaf =>
    \A i \in DOMAIN nodes[p].children : Depth(nodes[p].children[i]) = Depth(nodes[p].children[1])

\* A page that has changed is fixed until it is unfixed as dirty: the buffer manager writes
\* every change back.
ChangesAreMarked == \A p \in unsaved : exclusive[p] # Nil

\* A node into which an entry is inserted has room: the parent of a node that is split,
\* because it was split before if it had none, and a half of a leaf after a split, although
\* it was unfixed in between.
AssertionsHold == status # "failed"

\* The tree is an ordered map, for lookups, changes and scans from several threads.
TreeMap ==
  [key \in AllKeys |->
     LET pages == {p \in LeafPages : key \in Range(nodes[p].keys)}
     IN IF pages = {} THEN Nil ELSE LeafLookup(nodes[CHOOSE p \in pages : TRUE], key)]

CallOf(t) ==
  IF op[t].kind = "none" THEN Nil
  ELSE [kind |-> op[t].kind, key |-> op[t].key,
        value |-> IF op[t].kind = "insert" THEN Value(t, op[t].key) ELSE Nil,
        returns |-> pc[t] = "done", result |-> op[t].result,
        last |-> op[t].last, count |-> op[t].count, owed |-> owed[t]]

Map == INSTANCE OrderedMap WITH Keys <- AllKeys, map <- TreeMap,
                                call <- [t \in Threads |-> CallOf(t)]

ImplementsOrderedMap == Map!Spec

\* Every call returns (unless a data race has happened): no two threads wait for pages that
\* the other one has fixed, and no page stays fixed.
CallsReturn ==
  \A t \in Threads : pc[t] # "idle" ~> (pc[t] = "idle" \/ status # "running")

\* No leaf is changed while another thread has it fixed, as the lock coupling of lookupPage
\* (BPlusTree.tpp:231-237) is meant to ensure.
LeafIsExclusive == status # "raced"
=============================================================================
