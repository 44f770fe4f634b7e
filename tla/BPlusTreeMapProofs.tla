-------------------------- MODULE BPlusTreeMapProofs ------------------------
(***************************************************************************)
(* Proof that BPlusTree implements OrderedMap: lookups, insertions and     *)
(* erasures take effect at one moment, and a scan comes to every entry     *)
(* that is there from its start to its end, in the order of the keys, for  *)
(* any number of threads, pages and calls, any degrees and any load.       *)
(***************************************************************************)
EXTENDS BPlusTreeKeyProofs

---------------------------------------------------------------------------
(* The entries of a leaf *)

Holds(n, k, v) == \E i \in 1 .. Len(n.keys) : n.keys[i] = k /\ n.values[i] = v

HasKey(n, k) == \E i \in 1 .. Len(n.keys) : n.keys[i] = k

\* The index of a key that is in the leaf.
LEMMA IndexOfKey ==
  ASSUME NEW A, NEW n \in LeafIn(A), SortedKeys(n.keys), NEW key \in Nat,
         NEW i \in 1 .. Len(n.keys), n.keys[i] = key
  PROVE  LowerBound(n.keys, key) = i - 1 /\ IsAt(n, LowerBound(n.keys, key), key)
<1>1. PICK keys \in Seq(Nat) : keys = n.keys /\ Size(n) = Len(keys) /\ Len(keys) \in Nat
  BY LeafFields
<1>2. PICK m \in 0 .. Len(keys) : m = i - 1
  BY <1>1
<1>3. \A j \in 1 .. Len(keys) : keys[j] < key <=> j <= m
  <2>1. SUFFICES ASSUME NEW j \in 1 .. Len(keys) PROVE keys[j] < key <=> j <= m
    OBVIOUS
  <2>2. /\ j < i => keys[j] < keys[i]
        /\ i < j => keys[i] < keys[j]
    BY <1>1, <2>1 DEF SortedKeys
  <2>3. keys[i] = key /\ keys[j] \in Nat /\ i \in 1 .. Len(keys)
    BY <1>1
  <2> QED
    BY <1>1, <1>2, <2>2, <2>3
<1>4. LowerBound(keys, key) = m
  BY <1>3, LowerBoundIs
<1> QED
  BY <1>1, <1>2, <1>4 DEF IsAt

\* lookup finds the value of a key that is in the leaf, and no other one.
LEMMA LookupFinds ==
  ASSUME NEW A, NEW n \in LeafIn(A), SortedKeys(n.keys), NEW key \in Nat
  PROVE  /\ \A v : Holds(n, key, v) => LeafLookup(n, key) = v
         /\ ~HasKey(n, key) => LeafLookup(n, key) = Default
         /\ IsAt(n, LowerBound(n.keys, key), key) <=> HasKey(n, key)
<1>1. ASSUME NEW v, Holds(n, key, v) PROVE LeafLookup(n, key) = v
  <2>1. PICK i \in 1 .. Len(n.keys) : n.keys[i] = key /\ n.values[i] = v
    BY <1>1 DEF Holds
  <2>2. LowerBound(n.keys, key) = i - 1 /\ IsAt(n, LowerBound(n.keys, key), key)
    BY <2>1, IndexOfKey
  <2>3. i \in Nat /\ i - 1 + 1 = i
    BY LeafFields
  <2> QED
    BY <2>1, <2>2, <2>3 DEF LeafLookup
<1>2. ASSUME HasKey(n, key) PROVE IsAt(n, LowerBound(n.keys, key), key)
  BY <1>2, IndexOfKey DEF HasKey
<1>3. ASSUME IsAt(n, LowerBound(n.keys, key), key) PROVE HasKey(n, key)
  <2>1. LowerBound(n.keys, key) + 1 \in 1 .. Len(n.keys)
    BY <1>3, IsAtIndex
  <2> QED
    BY <1>3, <2>1 DEF IsAt, HasKey
<1>4. ~IsAt(n, LowerBound(n.keys, key), key) => LeafLookup(n, key) = Default
  BY DEF LeafLookup
<1> QED
  BY <1>1, <1>2, <1>3, <1>4

\* An insertion adds one entry.
LEMMA InsertHolds ==
  ASSUME NEW A, NEW n \in LeafIn(A), NEW key \in Nat, NEW value \in Values, NEW k, NEW v
  PROVE  Holds(LeafInsert(n, key, value), k, v) <=> Holds(n, k, v) \/ (k = key /\ v = value)
<1>1. PICK keys \in Seq(Nat), values \in Seq(Values), m \in Nat :
        keys = n.keys /\ values = n.values /\ m = Len(keys) /\ Len(values) = m
  BY LeafFields
<1>2. PICK l \in 1 .. m + 1 : l = LowerBound(keys, key) + 1
  <2>1. LowerBound(keys, key) \in 0 .. Len(keys)
    BY <1>1, LowerBoundType
  <2>2. PICK b : b = LowerBound(keys, key)
    OBVIOUS
  <2>3. b \in 0 .. m /\ b + 1 \in 1 .. m + 1
    BY <1>1, <2>1, <2>2
  <2> QED
    BY <2>2, <2>3
<1>3. PICK new : new = LeafInsert(n, key, value)
  OBVIOUS
<1>4. new.keys = InsertAt(keys, l, key) /\ new.values = InsertAt(values, l, value)
  BY <1>1, <1>2, <1>3, LeafParts DEF LeafInsert
<1>5. Len(new.keys) = m + 1
  BY <1>1, <1>4, InsertAtType
<1>6. \A j \in 1 .. m + 1 : new.keys[j] = IF j < l THEN keys[j] ELSE IF j = l THEN key ELSE keys[j - 1]
  <2>1. l \in 1 .. Len(keys) + 1
    BY <1>1
  <2>2. \A j \in 1 .. Len(keys) + 1 :
          InsertAt(keys, l, key)[j] = IF j < l THEN keys[j] ELSE IF j = l THEN key ELSE keys[j - 1]
    BY <2>1, InsertAtValue
  <2> QED
    BY <1>1, <1>4, <2>2
<1>7. \A j \in 1 .. m + 1 : new.values[j] = IF j < l THEN values[j]
                                            ELSE IF j = l THEN value ELSE values[j - 1]
  <2>1. l \in 1 .. Len(values) + 1
    BY <1>1
  <2>2. \A j \in 1 .. Len(values) + 1 :
          InsertAt(values, l, value)[j] = IF j < l THEN values[j]
                                          ELSE IF j = l THEN value ELSE values[j - 1]
    BY <2>1, InsertAtValue
  <2> QED
    BY <1>1, <1>4, <2>2
<1>8. ASSUME Holds(new, k, v) PROVE Holds(n, k, v) \/ (k = key /\ v = value)
  <2>1. PICK j \in 1 .. m + 1 : new.keys[j] = k /\ new.values[j] = v
    BY <1>5, <1>8 DEF Holds
  <2>2. CASE j < l
    <3>1. j \in 1 .. m /\ keys[j] = k /\ values[j] = v
      BY <1>6, <1>7, <2>1, <2>2
    <3> QED
      BY <1>1, <3>1 DEF Holds
  <2>3. CASE j = l
    BY <1>6, <1>7, <2>1, <2>3
  <2>4. CASE j > l
    <3>1. j - 1 \in 1 .. m /\ keys[j - 1] = k /\ values[j - 1] = v
      BY <1>6, <1>7, <2>1, <2>4
    <3> QED
      BY <1>1, <3>1 DEF Holds
  <2> QED
    BY <2>2, <2>3, <2>4
<1>9. ASSUME Holds(n, k, v) PROVE Holds(new, k, v)
  <2>1. PICK j \in 1 .. m : keys[j] = k /\ values[j] = v
    BY <1>1, <1>9 DEF Holds
  <2>2. CASE j < l
    <3>1. j \in 1 .. m + 1 /\ new.keys[j] = k /\ new.values[j] = v
      BY <1>6, <1>7, <2>1, <2>2
    <3> QED
      BY <1>5, <3>1 DEF Holds
  <2>3. CASE j >= l
    <3>0. PICK i \in 1 .. m + 1 : i = j + 1 /\ i - 1 = j /\ ~(i < l) /\ i # l
      BY <2>3
    <3>1. new.keys[i] = k /\ new.values[i] = v
      BY <1>6, <1>7, <2>1, <3>0
    <3> QED
      BY <1>5, <3>1 DEF Holds
  <2> QED
    BY <2>2, <2>3
<1>10. Holds(new, key, value)
  <2>1. l \in 1 .. m + 1 /\ new.keys[l] = key /\ new.values[l] = value
    BY <1>6, <1>7
  <2> QED
    BY <1>5, <2>1 DEF Holds
<1> QED
  BY <1>3, <1>8, <1>9, <1>10

\* erase takes the entry of the key away, if there is one, and no other one.
LEMMA EraseHolds ==
  ASSUME NEW A, NEW n \in LeafIn(A), SortedKeys(n.keys), NEW key \in Nat, NEW k, NEW v
  PROVE  /\ Holds(LeafErase(n, key), k, v) <=> Holds(n, k, v) /\ k # key
         /\ LeafErase(n, key) # n <=> HasKey(n, key)
<1>1. PICK keys \in Seq(Nat), values \in Seq(Values), m \in Nat :
        keys = n.keys /\ values = n.values /\ m = Len(keys) /\ Len(values) = m
  BY LeafFields
<1>2. PICK new : new = LeafErase(n, key)
  OBVIOUS
<1>3. CASE ~HasKey(n, key)
  <2>1. new = n
    BY <1>2, <1>3, LookupFinds DEF LeafErase
  <2>2. Holds(n, k, v) => k # key
    BY <1>3 DEF Holds, HasKey
  <2> QED
    BY <1>2, <1>3, <2>1, <2>2
<1>4. CASE HasKey(n, key)
  <2>1. PICK l \in 1 .. m : keys[l] = key
    BY <1>1, <1>4 DEF HasKey
  <2>2. LowerBound(keys, key) = l - 1 /\ IsAt(n, LowerBound(keys, key), key)
    BY <1>1, <2>1, IndexOfKey
  <2>3. new.keys = RemoveAt(keys, l) /\ new.values = RemoveAt(values, l)
    <3>1. l - 1 + 1 = l
      OBVIOUS
    <3> QED
      BY <1>1, <1>2, <2>2, <3>1, LeafParts DEF LeafErase
  <2>4. Len(new.keys) = m - 1
    BY <1>1, <2>3, RemoveAtType
  <2>5. \A j \in 1 .. m - 1 : new.keys[j] = IF j < l THEN keys[j] ELSE keys[j + 1]
    BY <1>1, <2>3, RemoveAtValue
  <2>6. \A j \in 1 .. m - 1 : new.values[j] = IF j < l THEN values[j] ELSE values[j + 1]
    BY <1>1, <2>3, RemoveAtValue
  <2>7. \A i, j \in 1 .. m : i < j => keys[i] < keys[j]
    BY <1>1 DEF SortedKeys
  <2>8. \A j \in 1 .. m : keys[j] \in Nat /\ (keys[j] = key => j = l)
    BY <1>1, <2>1, <2>7
  <2>9. ASSUME Holds(new, k, v) PROVE Holds(n, k, v) /\ k # key
    <3>1. PICK j \in 1 .. m - 1 : new.keys[j] = k /\ new.values[j] = v
      BY <2>4, <2>9 DEF Holds
    <3>2. PICK i \in 1 .. m : i = IF j < l THEN j ELSE j + 1
      OBVIOUS
    <3>3. i # l /\ keys[i] = k /\ values[i] = v
      BY <2>5, <2>6, <3>1, <3>2
    <3> QED
      BY <1>1, <2>8, <3>3 DEF Holds
  <2>10. ASSUME Holds(n, k, v), k # key PROVE Holds(new, k, v)
    <3>1. PICK j \in 1 .. m : keys[j] = k /\ values[j] = v
      BY <1>1, <2>10 DEF Holds
    <3>2. j # l
      BY <2>1, <2>10, <3>1
    <3>3. PICK i \in 1 .. m - 1 : i = IF j < l THEN j ELSE j - 1
      BY <3>2
    <3>4. new.keys[i] = k /\ new.values[i] = v
      BY <2>5, <2>6, <3>1, <3>2, <3>3
    <3> QED
      BY <2>4, <3>4 DEF Holds
  <2>11. new # n
    <3>1. Len(new.keys) # Len(n.keys)
      BY <1>1, <2>4
    <3> QED
      BY <3>1
  <2> QED
    BY <1>2, <1>4, <2>9, <2>10, <2>11
<1> QED
  BY <1>3, <1>4

\* A split takes no entry away and adds none.
LEMMA SplitHolds ==
  ASSUME NEW n, NEW old, NEW new, Len(n.keys) \in Nat, EntriesSplit(n, old, new), NEW k, NEW v
  PROVE  Holds(n, k, v) <=> Holds(old, k, v) \/ Holds(new, k, v)
<1>1. PICK m \in Nat : m = Len(n.keys)
  OBVIOUS
<1>2. PICK l \in 1 .. m :
        /\ Len(old.keys) = l /\ Len(new.keys) = m - l
        /\ \A i \in 1 .. l : old.keys[i] = n.keys[i] /\ old.values[i] = n.values[i]
        /\ \A i \in 1 .. m - l : new.keys[i] = n.keys[l + i] /\ new.values[i] = n.values[l + i]
  BY <1>1 DEF EntriesSplit
<1>3. ASSUME Holds(n, k, v) PROVE Holds(old, k, v) \/ Holds(new, k, v)
  <2>1. PICK j \in 1 .. m : n.keys[j] = k /\ n.values[j] = v
    BY <1>1, <1>3 DEF Holds
  <2>2. CASE j <= l
    <3>1. j \in 1 .. l
      BY <2>2
    <3>2. Holds(old, k, v)
      BY <1>2, <2>1, <3>1 DEF Holds
    <3> QED
      BY <3>2
  <2>3. CASE j > l
    <3>1. PICK i \in 1 .. m - l : l + i = j
      <4>1. j - l \in 1 .. m - l /\ l + (j - l) = j
        BY <2>3
      <4> QED
        BY <4>1
    <3>2. Holds(new, k, v)
      BY <1>2, <2>1, <3>1 DEF Holds
    <3> QED
      BY <3>2
  <2> QED
    BY <2>2, <2>3
<1>4. ASSUME Holds(old, k, v) PROVE Holds(n, k, v)
  <2>1. PICK j \in 1 .. l : old.keys[j] = k /\ old.values[j] = v
    BY <1>2, <1>4 DEF Holds
  <2>2. j \in 1 .. m
    OBVIOUS
  <2> QED
    BY <1>1, <1>2, <2>1, <2>2 DEF Holds
<1>5. ASSUME Holds(new, k, v) PROVE Holds(n, k, v)
  <2>1. PICK j \in 1 .. m - l : new.keys[j] = k /\ new.values[j] = v
    BY <1>2, <1>5 DEF Holds
  <2>2. PICK i \in 1 .. m : i = l + j
    OBVIOUS
  <2> QED
    BY <1>1, <1>2, <2>1, <2>2 DEF Holds
<1> QED
  BY <1>3, <1>4, <1>5

---------------------------------------------------------------------------
(* The entries of the tree *)

Entry(k, v) == \E p \in Leaves : Holds(nodes[p], k, v)

\* Keys and values are what the leaves have.
MapHasEntries ==
  /\ \A k, v : Entry(k, v) => k \in TreeKeys /\ v \in Values
  /\ \A k \in TreeKeys : \E v : Entry(k, v)
  /\ \A k \in AllKeys : \A v : Entry(k, v) => TreeMap[k] = v
  /\ \A k \in AllKeys : k \notin TreeKeys => TreeMap[k] = Nil

LEMMA AllKeysAreNumbers == AllKeys \subseteq Nat
<1>1. \A s \in Seq(Nat) : Range(s) \subseteq Nat
  BY DEF Range
<1> QED
  BY <1>1, UsersAssumption DEF AllKeys, LoadKeys

\* What is known of a leaf.
LEMMA LeafIs ==
  ASSUME IInv, NEW lo, NEW hi, NEW level, NEW up, Tree(nodes, Allocated, lo, hi, level, up),
         NEW p \in Leaves
  PROVE  /\ p \in Allocated /\ p \in Pages
         /\ nodes[p] \in LeafIn(Leaves) /\ SortedKeys(nodes[p].keys)
         /\ nodes[p].keys \in Seq(Nat) /\ Len(nodes[p].keys) \in Nat
         /\ Size(nodes[p]) = Len(nodes[p].keys)
         /\ \A i \in 1 .. Len(nodes[p].keys) :
              nodes[p].keys[i] \in Nat /\ Within(nodes[p].keys[i], lo[p], hi[p])
<1>1. p \in Allocated /\ p \in Pages /\ nodes[p] \in LeafIn(Leaves)
  BY DEF IInv, NodesOK, Leaves, Allocated
<1>2. KeysOK(nodes[p], lo[p], hi[p])
  BY <1>1 DEF Tree
<1>3. nodes[p].keys \in Seq(Nat) /\ Len(nodes[p].keys) \in Nat /\ Size(nodes[p]) = Len(nodes[p].keys)
  BY <1>1, LeafFields
<1> QED
  BY <1>1, <1>2, <1>3 DEF KeysOK

LEMMA TreeMapIs ==
  ASSUME IInv, KInv
  PROVE  MapHasEntries
<1>1. PICK lo, hi, level, up : Tree(nodes, Allocated, lo, hi, level, up)
  BY DEF KInv, TreeOK
<1>2. ASSUME NEW k, NEW p \in Leaves
      PROVE  k \in Range(nodes[p].keys) <=> HasKey(nodes[p], k)
  <2>1. PICK keys \in Seq(Nat) : keys = nodes[p].keys
    BY <1>1, LeafIs
  <2>2. k \in Range(keys) <=> \E i \in 1 .. Len(keys) : keys[i] = k
    BY DEF Range
  <2> QED
    BY <2>1, <2>2 DEF HasKey
<1>3. ASSUME NEW k
      PROVE  k \in TreeKeys <=> \E p \in Leaves : HasKey(nodes[p], k)
  BY KeysOfTree DEF HasKey
<1>4. ASSUME NEW k, NEW v, Entry(k, v) PROVE k \in TreeKeys /\ v \in Values
  <2>1. PICK p \in Leaves : Holds(nodes[p], k, v)
    BY <1>4 DEF Entry
  <2>2. PICK i \in 1 .. Len(nodes[p].keys) : nodes[p].keys[i] = k /\ nodes[p].values[i] = v
    BY <2>1 DEF Holds
  <2>3. k \in TreeKeys
    BY <1>3, <2>2 DEF HasKey
  <2>4. PICK values \in Seq(Values) : values = nodes[p].values /\ Len(values) = Len(nodes[p].keys)
    BY <1>1, LeafIs, LeafFields
  <2>5. values[i] \in Values
    BY <2>2, <2>4
  <2> QED
    BY <2>2, <2>3, <2>4, <2>5
<1>5. ASSUME NEW k \in TreeKeys PROVE \E v : Entry(k, v)
  <2>1. PICK p \in Leaves : HasKey(nodes[p], k)
    BY <1>3
  <2>2. PICK i \in 1 .. Len(nodes[p].keys) : nodes[p].keys[i] = k
    BY <2>1 DEF HasKey
  <2>3. Holds(nodes[p], k, nodes[p].values[i])
    BY <2>2 DEF Holds
  <2> QED
    BY <2>3 DEF Entry
<1>6. ASSUME NEW k \in AllKeys, NEW v, Entry(k, v) PROVE TreeMap[k] = v
  <2>1. PICK p \in Leaves : Holds(nodes[p], k, v)
    BY <1>6 DEF Entry
  <2> DEFINE pages == {q \in LeafPages : k \in Range(nodes[q].keys)}
  <2>2. p \in pages
    BY <1>2, <2>1, TreeIn DEF Holds, HasKey
  <2>3. ASSUME NEW q \in pages PROVE q = p
    <3>1. k \in Nat
      BY AllKeysAreNumbers
    <3>2. q \in Leaves /\ HasKey(nodes[q], k)
      BY <1>2, TreeIn
    <3>3. Within(k, lo[q], hi[q])
      BY <1>1, <3>2, LeafIs DEF HasKey
    <3>4. Within(k, lo[p], hi[p])
      BY <1>1, <2>1, LeafIs DEF Holds
    <3> QED
      BY <1>1, <3>1, <3>2, <3>3, <3>4, OneLeaf
  <2>4. TreeMap[k] = IF pages = {} THEN Nil ELSE LeafLookup(nodes[CHOOSE q \in pages : TRUE], k)
    BY DEF TreeMap
  <2> HIDE DEF pages
  <2>5. pages # {} /\ (CHOOSE q \in pages : TRUE) = p
    BY <2>2, <2>3
  <2>6. LeafLookup(nodes[p], k) = v
    <3>1. k \in Nat
      BY AllKeysAreNumbers
    <3>2. nodes[p] \in LeafIn(Leaves) /\ SortedKeys(nodes[p].keys)
      BY <1>1, LeafIs
    <3> QED
      BY <2>1, <3>1, <3>2, LookupFinds
  <2> QED
    BY <2>4, <2>5, <2>6
<1>7. ASSUME NEW k \in AllKeys, k \notin TreeKeys PROVE TreeMap[k] = Nil
  <2>1. \A q \in LeafPages : k \notin Range(nodes[q].keys)
    BY <1>7 DEF TreeKeys
  <2> QED
    BY <2>1 DEF TreeMap
<1> QED
  BY <1>4, <1>5, <1>6, <1>7 DEF MapHasEntries

LEMMA TreeMapNext == (IInv /\ KInv => MapHasEntries)'
<1>1. IInv /\ KInv => MapHasEntries
  BY TreeMapIs
<1> QED
  BY <1>1, PTL

\* A key is in the map if it is in the tree.
LEMMA InTheMap ==
  ASSUME IInv, KInv, NEW k \in AllKeys
  PROVE  TreeMap[k] # Nil <=> k \in TreeKeys
<1>1. MapHasEntries
  BY TreeMapIs
<1>2. ASSUME k \in TreeKeys PROVE TreeMap[k] # Nil
  <2>1. PICK v : Entry(k, v)
    BY <1>1, <1>2 DEF MapHasEntries
  <2>2. TreeMap[k] = v /\ v \in Values
    BY <1>1, <2>1 DEF MapHasEntries
  <2> QED
    BY <2>2, NilAssumption
<1> QED
  BY <1>1, <1>2 DEF MapHasEntries

\* What a step does to the entries.
SameEntries == \A k, v : Entry(k, v)' <=> Entry(k, v)

GainsEntry(key, value) == \A k, v : Entry(k, v)' <=> Entry(k, v) \/ (k = key /\ v = value)

LosesEntry(key) == \A k, v : Entry(k, v)' <=> Entry(k, v) /\ k # key

LEMMA MapIsFunction == /\ TreeMap = [k \in AllKeys |-> TreeMap[k]]
                       /\ TreeMap' = [k \in AllKeys |-> TreeMap'[k]]
BY DEF TreeMap

LEMMA MapStays ==
  ASSUME IInv, KInv, IInv', KInv', SameEntries
  PROVE  TreeMap' = TreeMap /\ TreeKeys' = TreeKeys
<1>1. MapHasEntries /\ MapHasEntries'
  BY TreeMapIs, TreeMapNext
<1>2. ASSUME NEW k PROVE k \in TreeKeys' <=> k \in TreeKeys
  BY <1>1 DEF MapHasEntries, SameEntries
<1>3. ASSUME NEW k \in AllKeys PROVE TreeMap'[k] = TreeMap[k]
  <2>1. CASE k \in TreeKeys
    <3>1. PICK v : Entry(k, v)
      BY <1>1, <2>1 DEF MapHasEntries
    <3> QED
      BY <1>1, <3>1 DEF MapHasEntries, SameEntries
  <2>2. CASE k \notin TreeKeys
    BY <1>1, <1>2, <2>2 DEF MapHasEntries
  <2> QED
    BY <2>1, <2>2
<1> QED
  BY <1>2, <1>3, MapIsFunction

LEMMA MapGains ==
  ASSUME IInv, KInv, IInv', KInv', NEW key \in AllKeys, key \notin TreeKeys, NEW value,
         GainsEntry(key, value)
  PROVE  TreeMap' = [TreeMap EXCEPT ![key] = value] /\ TreeKeys' = TreeKeys \cup {key}
<1>1. MapHasEntries /\ MapHasEntries'
  BY TreeMapIs, TreeMapNext
<1>2. ASSUME NEW k PROVE k \in TreeKeys' <=> k \in TreeKeys \cup {key}
  BY <1>1 DEF MapHasEntries, GainsEntry
<1>3. ASSUME NEW k \in AllKeys PROVE TreeMap'[k] = IF k = key THEN value ELSE TreeMap[k]
  <2>1. CASE k = key
    BY <1>1, <2>1 DEF MapHasEntries, GainsEntry
  <2>2. CASE k # key /\ k \in TreeKeys
    <3>1. PICK v : Entry(k, v)
      BY <1>1, <2>2 DEF MapHasEntries
    <3> QED
      BY <1>1, <2>2, <3>1 DEF MapHasEntries, GainsEntry
  <2>3. CASE k # key /\ k \notin TreeKeys
    BY <1>1, <1>2, <2>3 DEF MapHasEntries
  <2> QED
    BY <2>1, <2>2, <2>3
<1> QED
  BY <1>2, <1>3, MapIsFunction

LEMMA MapLoses ==
  ASSUME IInv, KInv, IInv', KInv', NEW key \in AllKeys, LosesEntry(key)
  PROVE  TreeMap' = [TreeMap EXCEPT ![key] = Nil] /\ TreeKeys' = TreeKeys \ {key}
<1>1. MapHasEntries /\ MapHasEntries'
  BY TreeMapIs, TreeMapNext
<1>2. ASSUME NEW k PROVE k \in TreeKeys' <=> k \in TreeKeys \ {key}
  BY <1>1 DEF MapHasEntries, LosesEntry
<1>3. ASSUME NEW k \in AllKeys PROVE TreeMap'[k] = IF k = key THEN Nil ELSE TreeMap[k]
  <2>1. CASE k = key \/ k \notin TreeKeys
    BY <1>1, <1>2, <2>1 DEF MapHasEntries
  <2>2. CASE k # key /\ k \in TreeKeys
    <3>1. PICK v : Entry(k, v)
      BY <1>1, <2>2 DEF MapHasEntries
    <3> QED
      BY <1>1, <2>2, <3>1 DEF MapHasEntries, LosesEntry
  <2> QED
    BY <2>1, <2>2
<1> QED
  BY <1>2, <1>3, MapIsFunction

---------------------------------------------------------------------------
(* What the steps do to the entries, and to leaves that other threads have fixed *)

\* The threads other than t are where they were; the leaves that they have fixed for reading
\* are what they were, and look-ups go to them for the same keys.
OthersRead(t) ==
  /\ \A u \in Threads \ {t} : op'[u] = op[u] /\ pc'[u] = pc[u]
  /\ \A u \in Threads \ {t} : \A p \in Leaves : u \in shared[p] =>
       p \in Leaves' /\ nodes'[p] = nodes[p]
  /\ WaysKept(t)

\* A step that changes no node.
LEMMA EntriesStay ==
  ASSUME nodes' = nodes, free' = free
  PROVE  SameEntries /\ Leaves' = Leaves
<1>1. Leaves' = Leaves
  BY DEF Leaves, Allocated, Pages
<1> QED
  BY <1>1 DEF SameEntries, Entry

LEMMA QuietRead ==
  ASSUME NEW t \in Threads, nodes' = nodes, free' = free,
         \A u \in Threads \ {t} : op'[u] = op[u] /\ pc'[u] = pc[u]
  PROVE  OthersRead(t)
<1>1. Leaves' = Leaves
  BY EntriesStay
<1>2. \A key : LeafOf(key)' = LeafOf(key)
  BY DEF LeafOf, Pages
<1> QED
  BY <1>1, <1>2 DEF OthersRead, WaysKept

\* A step that changes one leaf.
LEMMA LeafChange ==
  ASSUME IInv, NEW page \in Leaves, NEW new \in LeafIn(Leaves),
         nodes' = [nodes EXCEPT ![page] = new], free' = free
  PROVE  /\ Leaves' = Leaves /\ nodes'[page] = new
         /\ \A p \in Leaves : p # page => nodes'[p] = nodes[p]
<1>1. nodes \in [Pages -> InnerNodes \cup LeafNodes \cup {Nil}] /\ page \in Pages
  BY DEF IInv, TypeOK, Leaves, Allocated
<1>2. nodes'[page] = new /\ \A p \in Pages : p # page => nodes'[p] = nodes[p]
  BY <1>1
<1>3. Allocated' = Allocated
  BY DEF Allocated, Pages
<1>4. new.leaf = TRUE
  BY LeafFields
<1>5. Leaves' = {p \in Allocated : nodes'[p].leaf = TRUE}
  BY <1>3 DEF Leaves
<1>6. \A p \in Allocated : p \in Pages /\ (nodes'[p].leaf = TRUE <=> p \in Leaves)
  BY <1>2, <1>4 DEF Leaves, Allocated
<1>7. Leaves' = Leaves
  BY <1>5, <1>6 DEF Leaves
<1> QED
  BY <1>2, <1>6, <1>7 DEF Leaves

\* An insertion into a leaf, whichever way it is fixed.
LEMMA InsertedEntry ==
  ASSUME IInv, NEW key \in Nat, NEW value \in Values, NEW page \in Leaves,
         HasFreeSpace(nodes[page]), free' = free,
         nodes' = [nodes EXCEPT ![page] = LeafInsert(@, key, value)]
  PROVE  /\ GainsEntry(key, value) /\ Leaves' = Leaves
         /\ \A p \in Leaves : p # page => nodes'[p] = nodes[p]
<1>1. PICK n \in LeafIn(Leaves) : n = nodes[page]
  BY DEF IInv, NodesOK
<1>2. PICK new \in LeafIn(Leaves) : new = LeafInsert(n, key, value)
  BY <1>1, LeafInsertType
<1>3. /\ Leaves' = Leaves /\ nodes'[page] = new
      /\ \A p \in Leaves : p # page => nodes'[p] = nodes[p]
  BY <1>1, <1>2, LeafChange
<1>4. ASSUME NEW k, NEW v
      PROVE  Entry(k, v)' <=> Entry(k, v) \/ (k = key /\ v = value)
  <2>1. Holds(new, k, v) <=> Holds(n, k, v) \/ (k = key /\ v = value)
    BY <1>2, InsertHolds
  <2>2. Entry(k, v)' <=> \E p \in Leaves : Holds(nodes'[p], k, v)
    BY <1>3 DEF Entry, Holds
  <2> QED
    BY <1>1, <1>3, <2>1, <2>2 DEF Entry
<1> QED
  BY <1>3, <1>4 DEF GainsEntry

LEMMA InsertHereEntry ==
  ASSUME IInv, KInv, IInv', NEW t \in Threads, InsertHere(t)
  PROVE  GainsEntry(op[t].key, Value(t, op[t].key)) /\ OthersRead(t)
<1>1. PICK page, key : page = op[t].node /\ key = op[t].key
  OBVIOUS
<1>2. /\ page \in Leaves /\ key \in Nat /\ Value(t, key) \in Values
  BY <1>1, AtLeafIsThere, ValueIsValue DEF InsertHere, Ops
<1>3. /\ HasFreeSpace(nodes[page]) /\ free' = free /\ shared[page] \subseteq {t} /\ Finish(t, Nil)
      /\ nodes' = [nodes EXCEPT ![page] = LeafInsert(@, key, Value(t, key))]
  BY <1>1 DEF InsertHere, Node, Alone
<1>4. /\ GainsEntry(key, Value(t, key)) /\ Leaves' = Leaves
      /\ \A p \in Leaves : p # page => nodes'[p] = nodes[p]
  BY <1>2, <1>3, InsertedEntry
<1>5. WaysKept(t)
  BY InsertHereKeeps DEF KeptBy
<1>6. \A u \in Threads \ {t} : op'[u] = op[u] /\ pc'[u] = pc[u]
  BY <1>3, FinishedAs
<1> QED
  BY <1>1, <1>3, <1>4, <1>5, <1>6 DEF OthersRead

LEMMA InsertExclusiveEntry ==
  ASSUME IInv, KInv, IInv', NEW t \in Threads, InsertExclusive(t)
  PROVE  GainsEntry(op[t].key, Value(t, op[t].key)) /\ OthersRead(t) /\ Finish(t, Nil)
<1>1. PICK page, key : page = op[t].node /\ key = op[t].key
  OBVIOUS
<1>2. /\ page \in Leaves /\ key \in Nat /\ Value(t, key) \in Values /\ exclusive[page] = t
  BY <1>1, ValueIsValue DEF InsertExclusive, Ops, OpsOK, IInv, PlacesOK, PlaceOK
<1>3. shared[page] = {}
  BY <1>2, NilAssumption DEF IInv, LocksExclude, Leaves, Allocated
<1>4. WaysKept(t) /\ KInv'
  BY InsertExclusiveKeeps DEF KeptBy
<1>5. /\ HasFreeSpace(nodes[page]) /\ free' = free /\ Finish(t, Nil)
      /\ nodes' = [nodes EXCEPT ![page] = LeafInsert(@, key, Value(t, key))]
  BY <1>1, <1>4 DEF InsertExclusive, KInv
<1>6. /\ GainsEntry(key, Value(t, key)) /\ Leaves' = Leaves
      /\ \A p \in Leaves : p # page => nodes'[p] = nodes[p]
  BY <1>2, <1>5, InsertedEntry
<1>7. \A u \in Threads \ {t} : op'[u] = op[u] /\ pc'[u] = pc[u]
  BY <1>5, FinishedAs
<1> QED
  BY <1>1, <1>3, <1>4, <1>5, <1>6, <1>7 DEF OthersRead

\* lookupPage has come to the only leaf that can have the key.
LEMMA KeyIsHere ==
  ASSUME IInv, KInv, NEW t \in Threads, NEW kind \in {"erase", "insert", "lookup"}, AtLeaf(t, kind)
  PROVE  /\ op[t].key \in Nat /\ op[t].node \in Leaves
         /\ Node(t) \in LeafIn(Leaves) /\ SortedKeys(Node(t).keys)
         /\ \A p \in Leaves : HasKey(nodes[p], op[t].key) => p = op[t].node
         /\ op[t].key \in TreeKeys <=> HasKey(Node(t), op[t].key)
<1>1. PICK lo, hi, level, up : /\ Tree(nodes, Allocated, lo, hi, level, up)
                               /\ \A u \in Threads : ThreadOK(u, lo, hi)
  BY DEF KInv, TreeOK
<1>2. PICK page, key : page = op[t].node /\ key = op[t].key
  OBVIOUS
<1>3. /\ pc[t] = "descend" /\ op[t].kind = kind /\ key \in Nat /\ page \in Leaves
      /\ Node(t) \in LeafIn(Leaves)
  BY <1>2, AtLeafIsThere DEF Ops
<1>4. Within(key, lo[page], hi[page])
  BY <1>1, <1>2, <1>3 DEF ThreadOK, DescentOK
<1>5. SortedKeys(nodes[page].keys)
  BY <1>1, <1>3, LeafIs
<1>6. ASSUME NEW p \in Leaves, HasKey(nodes[p], key) PROVE p = page
  <2>1. Within(key, lo[p], hi[p])
    BY <1>1, <1>6, LeafIs DEF HasKey
  <2> QED
    BY <1>1, <1>3, <1>4, <2>1, OneLeaf
<1>7. key \in TreeKeys <=> \E p \in Leaves : HasKey(nodes[p], key)
  BY KeysOfTree DEF HasKey
<1> QED
  BY <1>2, <1>3, <1>5, <1>6, <1>7 DEF Node

LEMMA ErasedEntry ==
  ASSUME IInv, KInv, IInv', NEW t \in Threads, Erase(t)
  PROVE  /\ LosesEntry(op[t].key) /\ OthersRead(t)
         /\ Finish(t, op[t].key \in TreeKeys)
         /\ owed' = [u \in Threads |-> owed[u] \ {op[t].key}]
<1>1. PICK page, key : page = op[t].node /\ key = op[t].key
  OBVIOUS
<1>2. PICK n, new : n = nodes[page] /\ new = LeafErase(n, key)
  OBVIOUS
<1>3. AtLeaf(t, "erase")
  BY DEF Erase
<1>4. /\ key \in Nat /\ page \in Leaves /\ n \in LeafIn(Leaves) /\ SortedKeys(n.keys)
      /\ \A p \in Leaves : HasKey(nodes[p], key) => p = page
      /\ key \in TreeKeys <=> HasKey(n, key)
  BY <1>1, <1>2, <1>3, KeyIsHere DEF Node
<1>5. /\ new # n => shared[page] \subseteq {t}
      /\ nodes' = [nodes EXCEPT ![page] = new] /\ free' = free
      /\ Finish(t, new # n) /\ owed' = [u \in Threads |-> owed[u] \ {op[t].key}]
  BY <1>1, <1>2 DEF Erase, Node, Alone
<1>6. new \in LeafIn(Leaves)
  BY <1>2, <1>4, LeafEraseType
<1>7. /\ Leaves' = Leaves /\ nodes'[page] = new
      /\ \A p \in Leaves : p # page => nodes'[p] = nodes[p]
  BY <1>4, <1>5, <1>6, LeafChange
<1>8. \A k, v : Holds(new, k, v) <=> Holds(n, k, v) /\ k # key
  BY <1>2, <1>4, EraseHolds
<1>9. (new # n) = (key \in TreeKeys)
  <2>1. new # n <=> HasKey(n, key)
    BY <1>2, <1>4, EraseHolds
  <2> QED
    BY <1>4, <2>1
<1>10. LosesEntry(key)
  <2>1. SUFFICES ASSUME NEW k, NEW v PROVE Entry(k, v)' <=> Entry(k, v) /\ k # key
    BY DEF LosesEntry
  <2>2. Entry(k, v)' <=> \E p \in Leaves : Holds(nodes'[p], k, v)
    BY <1>7 DEF Entry, Holds
  <2>3. ASSUME NEW p \in Leaves, Holds(nodes[p], key, v) PROVE p = page
    BY <1>4, <2>3 DEF Holds, HasKey
  <2> QED
    BY <1>2, <1>4, <1>7, <1>8, <2>2, <2>3 DEF Entry
<1>11. WaysKept(t)
  BY EraseKeeps DEF KeptBy
<1>12. \A u \in Threads \ {t} : op'[u] = op[u] /\ pc'[u] = pc[u]
  BY <1>5, FinishedAs
<1>13. \A u \in Threads \ {t} : \A p \in Leaves : u \in shared[p] =>
         p \in Leaves' /\ nodes'[p] = nodes[p]
  BY <1>2, <1>5, <1>7
<1> QED
  BY <1>1, <1>5, <1>9, <1>10, <1>11, <1>12, <1>13 DEF OthersRead

LEMMA LookedUp ==
  ASSUME IInv, KInv, NEW t \in Threads, Lookup(t), op[t].key \in AllKeys
  PROVE  Finish(t, IF TreeMap[op[t].key] = Nil THEN Default ELSE TreeMap[op[t].key])
<1>1. PICK key, n : key = op[t].key /\ n = Node(t)
  OBVIOUS
<1>2. AtLeaf(t, "lookup") /\ Finish(t, LeafLookup(n, key))
  BY <1>1 DEF Lookup
<1>3. /\ key \in Nat /\ op[t].node \in Leaves /\ n \in LeafIn(Leaves) /\ SortedKeys(n.keys)
      /\ key \in TreeKeys <=> HasKey(n, key)
  BY <1>1, <1>2, KeyIsHere
<1>4. MapHasEntries
  BY TreeMapIs
<1>5. CASE HasKey(n, key)
  <2>1. PICK v : Holds(n, key, v)
    BY <1>5 DEF HasKey, Holds
  <2>2. Entry(key, v)
    BY <1>1, <1>3, <2>1 DEF Entry, Node
  <2>3. TreeMap[key] = v /\ v \in Values
    BY <1>1, <1>4, <2>2 DEF MapHasEntries
  <2>4. LeafLookup(n, key) = v
    BY <1>3, <2>1, LookupFinds
  <2>5. v # Nil
    BY <2>3, NilAssumption
  <2> QED
    BY <1>1, <1>2, <2>3, <2>4, <2>5
<1>6. CASE ~HasKey(n, key)
  <2>1. TreeMap[key] = Nil
    BY <1>1, <1>3, <1>4, <1>6 DEF MapHasEntries
  <2>2. LeafLookup(n, key) = Default
    BY <1>3, <1>6, LookupFinds
  <2> QED
    BY <1>1, <1>2, <2>1, <2>2
<1> QED
  BY <1>5, <1>6

\* A split of the root moves no entry.
LEMMA RootSplitEntries ==
  ASSUME IInv, KInv, IInv', NEW t \in Threads, LockRoot(t), ~HasFreeSpace(nodes[Root])
  PROVE  SameEntries /\ OthersRead(t)
<1>1. /\ HasPages(2) /\ free' = free + 2
      /\ nodes' = [nodes EXCEPT ![Root] = SplitRoot(nodes[Root], free, free + 1),
                                ![free] = InnerSplit(nodes[Root]).old,
                                ![free + 1] = InnerSplit(nodes[Root]).new]
  BY DEF LockRoot, NewPage
<1>2. PICK f, g : f = free /\ g = free + 1
  OBVIOUS
<1>3. /\ Allocated' = Allocated \cup {f} \cup {g} /\ f \in Pages /\ g \in Pages /\ f # g
      /\ f \notin Allocated /\ g \notin Allocated /\ Allocated \subseteq Pages /\ Root \in Allocated
      /\ Leaves \subseteq Allocated /\ Root \notin Leaves
  <2>1. free \in Nat
    BY DEF IInv, TypeOK
  <2>2. /\ Allocated' = Allocated \cup (free .. free + 2 - 1)
        /\ free .. free + 2 - 1 \subseteq Pages \ Allocated
        /\ Allocated \subseteq Pages /\ Root \in InnerPages
        /\ InnerPages = Allocated \ Leaves /\ Leaves \subseteq Allocated
    BY <1>1, PagesGrow
  <2>3. free .. free + 2 - 1 = {free} \cup {free + 1} /\ free # free + 1
    BY <2>1
  <2> QED
    BY <1>2, <2>2, <2>3
<1>4. /\ nodes'[Root] = SplitRoot(nodes[Root], f, g)
      /\ nodes'[f] = InnerSplit(nodes[Root]).old /\ nodes'[g] = InnerSplit(nodes[Root]).new
      /\ \A p \in Allocated \ {Root} : nodes'[p] = nodes[p]
  <2>1. nodes \in [Pages -> InnerNodes \cup LeafNodes \cup {Nil}]
    BY DEF IInv, TypeOK
  <2> QED
    BY <1>1, <1>2, <1>3, <2>1
<1>5. ~IsLeaf(nodes'[Root]) /\ ~IsLeaf(nodes'[f]) /\ ~IsLeaf(nodes'[g])
  BY <1>4 DEF IsLeaf, SplitRoot, InnerSplit, InnerNode
<1>6. Leaves' = Leaves
  <2>1. Leaves' = {p \in Allocated' : IsLeaf(nodes'[p])}
    BY DEF Leaves, IsLeaf
  <2>2. Leaves = {p \in Allocated : IsLeaf(nodes[p])}
    BY DEF Leaves, IsLeaf
  <2> QED
    BY <1>3, <1>4, <1>5, <2>1, <2>2
<1>7. \A p \in Leaves : nodes'[p] = nodes[p]
  BY <1>3, <1>4
<1>8. SameEntries
  BY <1>6, <1>7 DEF SameEntries, Entry, Holds
<1>9. \A u \in Threads \ {t} : op'[u] = op[u] /\ pc'[u] = pc[u]
  BY RootLocked
<1>10. WaysKept(t)
  BY SplitRootKeeps DEF KeptBy
<1> QED
  BY <1>6, <1>7, <1>8, <1>9, <1>10 DEF OthersRead

\* A split of a child leaves every entry in one of the halves.
LEMMA ChildSplitEntries ==
  ASSUME IInv, KInv, IInv', NEW t \in Threads, SplitChild(t)
  PROVE  SameEntries /\ OthersRead(t)
<1>1. PICK lo, hi, level, up : /\ Tree(nodes, Allocated, lo, hi, level, up)
                               /\ \A u \in Threads : ThreadOK(u, lo, hi)
  BY DEF KInv, TreeOK
<1>2. PICK c, q, f : c = op[t].node /\ q = op[t].parent /\ f = free
  OBVIOUS
<1>3. PICK h : h = Halves(c)
  OBVIOUS
<1>4. /\ pc[t] = "lockChild" /\ shared[c] = {} /\ HasPages(1) /\ free' = free + 1
      /\ \A u \in Threads \ {t} : op'[u] = op[u] /\ pc'[u] = pc[u]
      /\ ~HasFreeSpace(nodes[c])
      /\ nodes' = [nodes EXCEPT ![c] = h.old, ![f] = h.new,
                                ![q] = InnerInsert(nodes[q], h.splitter, f)]
  BY <1>2, <1>3, ChildTaken
<1>5. /\ c \in Allocated /\ c # Root /\ up[c] = q /\ q \in Allocated /\ shared[q] = {}
  BY <1>1, <1>2, <1>4, LockedWay
<1>6. /\ Allocated' = Allocated \cup {f} /\ f \in Pages /\ f \notin Allocated
      /\ Allocated \subseteq Pages /\ Leaves \subseteq Allocated
  <2>1. free \in Nat
    BY DEF IInv, TypeOK
  <2>2. /\ Allocated' = Allocated \cup (free .. free + 1 - 1)
        /\ free .. free + 1 - 1 \subseteq Pages \ Allocated
        /\ Allocated \subseteq Pages /\ Leaves \subseteq Allocated
    BY <1>4, PagesGrow
  <2>3. free .. free + 1 - 1 = {free}
    BY <2>1
  <2> QED
    BY <1>2, <2>2, <2>3
<1>7. c # q /\ IsInner(nodes[q]) /\ c # f /\ q # f
  <2>1. NodesIn(nodes, Allocated)
    BY TreeIn
  <2> QED
    BY <1>1, <1>5, <1>6, <2>1, Above
<1>8. /\ nodes'[c] = h.old /\ nodes'[f] = h.new
      /\ nodes'[q] = InnerInsert(nodes[q], h.splitter, f)
      /\ \A p \in Allocated \ {c, q} : nodes'[p] = nodes[p]
  <2>1. nodes \in [Pages -> InnerNodes \cup LeafNodes \cup {Nil}]
    BY DEF IInv, TypeOK
  <2> QED
    BY <1>4, <1>5, <1>6, <1>7, <2>1
<1>9. q \notin Leaves /\ ~IsLeaf(nodes'[q])
  <2>1. q \notin Leaves
    BY <1>7 DEF IsInner, Leaves
  <2> QED
    BY <1>8, <2>1 DEF IsLeaf, InnerInsert, InnerNode
<1>10. /\ Leaves' = {p \in Allocated' : IsLeaf(nodes'[p])}
       /\ Leaves = {p \in Allocated : IsLeaf(nodes[p])}
  BY DEF Leaves, IsLeaf
<1>11. ASSUME c \notin Leaves PROVE SameEntries
  <2>1. ~IsLeaf(h.old) /\ ~IsLeaf(h.new)
    <3>1. IsInner(nodes[c]) /\ ~nodes[c].leaf
      BY <1>5, <1>11, TreeIn
    <3>2. h = InnerSplit(nodes[c])
      BY <1>3, <3>1 DEF Halves
    <3> QED
      BY <3>2 DEF IsLeaf, InnerSplit, InnerNode
  <2>2. Leaves' = Leaves
    BY <1>5, <1>6, <1>8, <1>9, <1>10, <1>11, <2>1
  <2>3. \A p \in Leaves : nodes'[p] = nodes[p]
    BY <1>6, <1>8, <1>9, <1>11
  <2> QED
    BY <2>2, <2>3 DEF SameEntries, Entry, Holds
<1>12. ASSUME c \in Leaves PROVE SameEntries
  <2>1. PICK n : n = nodes[c]
    OBVIOUS
  <2>2. n \in LeafIn(Leaves) /\ Len(n.keys) \in Nat /\ IsLeaf(n)
    BY <1>12, <2>1, LeafFields DEF IInv, NodesOK, IsLeaf
  <2>3. h = LeafSplit(n, f)
    <3>1. nodes[c].leaf
      BY <1>5, <1>12, TreeIn
    <3> QED
      BY <1>2, <1>3, <2>1, <3>1 DEF Halves
  <2>4. PICK low \in Nat \cup {-1}, high \in Nat \cup {-1} : low = lo[c] /\ high = hi[c]
    BY <1>1, <1>5, <1>6, TreeTypes
  <2>5. KeysOK(n, low, high)
    BY <1>1, <1>5, <2>1, <2>4 DEF Tree
  <2>6. PICK old, new, s : old = h.old /\ new = h.new /\ s = h.splitter
    OBVIOUS
  <2>7. IsLeaf(old) /\ IsLeaf(new) /\ EntriesSplit(n, old, new)
    BY <1>4, <2>1, <2>2, <2>3, <2>5, <2>6, LeafHalves
  <2>8. Leaves' = Leaves \cup {f}
    BY <1>5, <1>6, <1>8, <1>9, <1>10, <1>12, <2>6, <2>7
  <2>9. \A p \in Leaves : p # c => nodes'[p] = nodes[p]
    BY <1>6, <1>8, <1>9
  <2>10. \A k, v : Holds(n, k, v) <=> Holds(old, k, v) \/ Holds(new, k, v)
    BY <2>2, <2>7, SplitHolds
  <2>11. ASSUME NEW k, NEW v PROVE Entry(k, v)' <=> Entry(k, v)
    <3>1. Entry(k, v)' <=> \E p \in Leaves \cup {f} : Holds(nodes'[p], k, v)
      BY <2>8 DEF Entry, Holds
    <3>2. Entry(k, v) <=> \E p \in Leaves : Holds(nodes[p], k, v)
      BY DEF Entry
    <3>3. nodes'[c] = old /\ nodes'[f] = new
      BY <1>8, <2>6
    <3> QED
      BY <1>12, <2>1, <2>9, <2>10, <3>1, <3>2, <3>3
  <2> QED
    BY <2>11 DEF SameEntries
<1>13. WaysKept(t) /\ KInv'
  BY SplitChildKeeps DEF KeptBy
<1>14. ASSUME NEW u \in Threads \ {t}, NEW p \in Leaves, u \in shared[p]
       PROVE  p \in Leaves' /\ nodes'[p] = nodes[p]
  <2>1. p \in Allocated /\ p # c /\ p # q
    BY <1>4, <1>5, <1>6, <1>14
  <2>2. nodes'[p] = nodes[p] /\ p \in Allocated'
    BY <1>6, <1>8, <2>1
  <2> QED
    BY <1>10, <1>14, <2>2
<1> QED
  BY <1>4, <1>11, <1>12, <1>13, <1>14 DEF OthersRead

---------------------------------------------------------------------------
(* The invariant of the calls, on top of IInv and KInv *)

\* Page p is the one for some key up to k, or for some key from k on.
StartsBelow(p, k) == \E m \in Nat : m <= k /\ LeafOf(m) = p
ReachesTo(p, k) == \E m \in Nat : k <= m /\ LeafOf(m) = p

CallOK(t) ==
  /\ pc[t] = "idle" <=> op[t].kind = "none"
  /\ op[t].kind \notin {"none", "size"} => op[t].key \in AllKeys
  /\ pc[t] \in {"start", "descend"} => op[t].last = Nil
  /\ pc[t] \in {"scan", "next"} => op[t].kind \in {"range", "size"}

\* What a scan owes is in the tree and within its range.
OwedOK(t) ==
  /\ owed[t] \subseteq TreeKeys
  /\ op[t].kind \notin {"range", "size"} \/ pc[t] = "done" => owed[t] = {}
  /\ op[t].kind = "range" => \A k \in owed[t] : op[t].key <= k

\* What is owed is in front of the iterator, in its leaf or in one behind it; what the
\* iterator has come to, and the beginning of the range, are not.
Owes(t) ==
  \A k \in owed[t] :
    /\ StartsBelow(op[t].node, k)
    /\ \A i \in 1 .. op[t].index : nodes[op[t].node].keys[i] < k

Passed(t) ==
  op[t].last # Nil =>
    /\ ReachesTo(op[t].node, op[t].last.key)
    /\ \A i \in op[t].index + 1 .. Len(nodes[op[t].node].keys) :
         op[t].last.key < nodes[op[t].node].keys[i]

InRange(t) ==
  op[t].kind = "range" =>
    /\ ReachesTo(op[t].node, op[t].key)
    /\ \A i \in op[t].index + 1 .. Len(nodes[op[t].node].keys) :
         op[t].key <= nodes[op[t].node].keys[i]

ScanOK(t) ==
  pc[t] \in {"scan", "next"} =>
    /\ op[t].index <= Len(nodes[op[t].node].keys)
    /\ pc[t] = "next" => op[t].index = Len(nodes[op[t].node].keys)
    /\ Owes(t) /\ Passed(t) /\ InRange(t)

UserOK(t) == CallOK(t) /\ OwedOK(t) /\ ScanOK(t)

KeysKnown == TreeKeys \subseteq AllKeys /\ Range(load) \subseteq LoadKeys

MInv == KeysKnown /\ \A t \in Threads : UserOK(t)

MapInv == IInv /\ KInv /\ MInv

LEMMA StartsBelowIs ==
  ASSUME IInv, NEW lo, NEW hi, NEW level, NEW up, Tree(nodes, Allocated, lo, hi, level, up),
         NEW p \in Leaves, NEW k \in Nat
  PROVE  StartsBelow(p, k) <=> lo[p] < k
<1>1. /\ lo[p] \in Nat \cup {-1} /\ hi[p] \in Nat \cup {-1} /\ (hi[p] = -1 \/ lo[p] < hi[p])
  BY LeafAndNext
<1>2. ASSUME lo[p] < k PROVE StartsBelow(p, k)
  <2>1. PICK m \in Nat : m = lo[p] + 1 /\ m <= k
    BY <1>1, <1>2
  <2>2. Within(m, lo[p], hi[p])
    BY <1>1, <2>1 DEF Within
  <2>3. LeafOf(m) = p
    BY <2>2, LeafForKey
  <2> QED
    BY <2>1, <2>3 DEF StartsBelow
<1>3. ASSUME StartsBelow(p, k) PROVE lo[p] < k
  <2>1. PICK m \in Nat : m <= k /\ LeafOf(m) = p
    BY <1>3 DEF StartsBelow
  <2>2. Within(m, lo[p], hi[p])
    BY <2>1, LeafHasKey
  <2> QED
    BY <1>1, <2>1, <2>2 DEF Within
<1> QED
  BY <1>2, <1>3

LEMMA ReachesToIs ==
  ASSUME IInv, NEW lo, NEW hi, NEW level, NEW up, Tree(nodes, Allocated, lo, hi, level, up),
         NEW p \in Leaves, NEW k \in Nat
  PROVE  ReachesTo(p, k) <=> hi[p] = -1 \/ k <= hi[p]
<1>1. /\ lo[p] \in Nat \cup {-1} /\ hi[p] \in Nat \cup {-1} /\ (hi[p] = -1 \/ lo[p] < hi[p])
  BY LeafAndNext
<1>2. ASSUME hi[p] = -1 \/ k <= hi[p] PROVE ReachesTo(p, k)
  <2>1. PICK m \in Nat : k <= m /\ Within(m, lo[p], hi[p])
    <3>1. CASE hi[p] = -1
      <4>1. k + lo[p] + 1 \in Nat /\ k <= k + lo[p] + 1 /\ lo[p] < k + lo[p] + 1
        BY <1>1
      <4> QED
        BY <3>1, <4>1 DEF Within
    <3>2. CASE hi[p] # -1
      <4>1. hi[p] \in Nat /\ k <= hi[p] /\ lo[p] < hi[p] /\ hi[p] <= hi[p]
        BY <1>1, <1>2, <3>2
      <4> QED
        BY <4>1 DEF Within
    <3> QED
      BY <3>1, <3>2
  <2>2. LeafOf(m) = p
    BY <2>1, LeafForKey
  <2> QED
    BY <2>1, <2>2 DEF ReachesTo
<1>3. ASSUME ReachesTo(p, k) PROVE hi[p] = -1 \/ k <= hi[p]
  <2>1. PICK m \in Nat : k <= m /\ LeafOf(m) = p
    BY <1>3 DEF ReachesTo
  <2>2. Within(m, lo[p], hi[p])
    BY <2>1, LeafHasKey
  <2> QED
    BY <1>1, <2>1, <2>2 DEF Within
<1> QED
  BY <1>2, <1>3

\* A step of another thread.
LEMMA OthersOK ==
  ASSUME IInv, NEW t \in Threads, OthersRead(t), NEW u \in Threads, u # t, UserOK(u),
         owed'[u] \subseteq owed[u], owed'[u] \subseteq TreeKeys'
  PROVE  UserOK(u)'
<1>1. op'[u] = op[u] /\ pc'[u] = pc[u]
  BY DEF OthersRead
<1>2. CallOK(u)'
  BY <1>1 DEF UserOK, CallOK, AllKeys, LoadKeys
<1>3. OwedOK(u)'
  BY <1>1 DEF UserOK, OwedOK
<1>4. ScanOK(u)'
  <2>1. SUFFICES ASSUME pc[u] \in {"scan", "next"} PROVE ScanOK(u)'
    BY <1>1 DEF ScanOK
  <2>2. PICK p : p = op[u].node
    OBVIOUS
  <2>3. p \in Leaves /\ u \in shared[p] /\ op[u] \in Ops
    BY <2>1, <2>2, ScanIsThere
  <2>4. nodes'[p] = nodes[p] /\ \A m \in Nat : LeafOf(m) = p => LeafOf(m)' = p
    BY <2>3 DEF OthersRead, WaysKept
  <2>5. \A k : StartsBelow(p, k) => \E m \in Nat : m <= k /\ LeafOf(m)' = p
    BY <2>4 DEF StartsBelow
  <2>6. \A k : ReachesTo(p, k) => \E m \in Nat : k <= m /\ LeafOf(m)' = p
    BY <2>4 DEF ReachesTo
  <2>7. Owes(u) /\ Passed(u) /\ InRange(u)
    BY <2>1 DEF UserOK, ScanOK
  <2>8. Owes(u)'
    <3>1. SUFFICES ASSUME NEW k \in owed'[u]
                   PROVE  /\ \E m \in Nat : m <= k /\ LeafOf(m)' = p
                          /\ \A i \in 1 .. op[u].index : nodes[p].keys[i] < k
      BY <1>1, <2>2, <2>4 DEF Owes, StartsBelow
    <3> QED
      BY <2>2, <2>5, <2>7 DEF Owes
  <2>9. Passed(u)'
    <3>1. SUFFICES ASSUME op[u].last # Nil
                   PROVE  /\ \E m \in Nat : op[u].last.key <= m /\ LeafOf(m)' = p
                          /\ \A i \in op[u].index + 1 .. Len(nodes[p].keys) :
                               op[u].last.key < nodes[p].keys[i]
      BY <1>1, <2>2, <2>4 DEF Passed, ReachesTo
    <3> QED
      BY <2>2, <2>6, <2>7, <3>1 DEF Passed
  <2>10. InRange(u)'
    <3>1. SUFFICES ASSUME op[u].kind = "range"
                   PROVE  /\ \E m \in Nat : op[u].key <= m /\ LeafOf(m)' = p
                          /\ \A i \in op[u].index + 1 .. Len(nodes[p].keys) :
                               op[u].key <= nodes[p].keys[i]
      BY <1>1, <2>2, <2>4 DEF InRange, ReachesTo
    <3> QED
      BY <2>2, <2>6, <2>7, <3>1 DEF InRange
  <2> QED
    BY <1>1, <2>1, <2>2, <2>4, <2>8, <2>9, <2>10 DEF ScanOK, UserOK
<1> QED
  BY <1>2, <1>3, <1>4 DEF UserOK

\* The invariant after a step of thread t.
LEMMA StepOK ==
  ASSUME IInv, MInv, NEW t \in Threads, OthersRead(t), UserOK(t)',
         \A u \in Threads \ {t} : owed'[u] \subseteq owed[u] /\ owed'[u] \subseteq TreeKeys',
         TreeKeys' \subseteq AllKeys, Range(load') \subseteq LoadKeys
  PROVE  MInv'
<1>1. \A u \in Threads : u # t => UserOK(u)'
  BY OthersOK DEF MInv
<1> QED
  BY <1>1 DEF MInv, KeysKnown

\* After a step that changes no node.
LEMMA QuietOK ==
  ASSUME IInv, MInv, NEW t \in Threads, nodes' = nodes, free' = free,
         \A u \in Threads \ {t} : op'[u] = op[u] /\ pc'[u] = pc[u] /\ owed'[u] = owed[u],
         UserOK(t)', Range(load') \subseteq LoadKeys
  PROVE  MInv'
<1>1. OthersRead(t)
  BY QuietRead
<1>2. TreeKeys' = TreeKeys
  BY KeysStay
<1>3. \A u \in Threads \ {t} : owed'[u] \subseteq owed[u] /\ owed'[u] \subseteq TreeKeys'
  BY <1>2 DEF MInv, UserOK, OwedOK
<1> QED
  BY <1>1, <1>2, <1>3, StepOK DEF MInv, KeysKnown

---------------------------------------------------------------------------
(* Steps outside scans *)

\* A call begins.
LEMMA BeginOK ==
  ASSUME IInv, MInv, NEW t \in Threads, NEW kind \in Kinds, NEW key \in Nat,
         kind # "size" => key \in AllKeys, Begin(t, kind, key), Range(load') \subseteq LoadKeys
  PROVE  MInv'
<1>1. /\ op \in [Threads -> Ops] /\ pc \in [Threads -> Labels] /\ owed \in [Threads -> SUBSET Nat]
  BY DEF IInv, TypeOK, OpsOK
<1>2. /\ nodes' = nodes /\ free' = free /\ pc'[t] = "start"
      /\ op'[t] = [NoOp EXCEPT !.kind = kind, !.key = key]
      /\ owed'[t] = {k \in TreeKeys : kind = "size" \/ (kind = "range" /\ k >= key)}
      /\ \A u \in Threads \ {t} : op'[u] = op[u] /\ pc'[u] = pc[u] /\ owed'[u] = owed[u]
  BY <1>1 DEF Begin
<1>3. op'[t].kind = kind /\ op'[t].key = key /\ op'[t].last = Nil
  BY <1>2 DEF NoOp
<1>4. CallOK(t)'
  BY <1>2, <1>3 DEF CallOK, AllKeys, LoadKeys, Kinds
<1>5. OwedOK(t)'
  <2>1. TreeKeys' = TreeKeys /\ TreeKeys \subseteq Nat
    BY <1>2, KeysStay, TreeKeysAreNumbers
  <2>2. kind = "range" => \A k \in owed'[t] : key <= k
    BY <1>2, <2>1
  <2> QED
    BY <1>2, <1>3, <2>1, <2>2 DEF OwedOK
<1>6. ScanOK(t)'
  BY <1>2 DEF ScanOK
<1>7. UserOK(t)'
  BY <1>4, <1>5, <1>6 DEF UserOK
<1> QED
  BY <1>2, <1>7, QuietOK

\* A thread is on its way.
LEMMA OnTheWayOK ==
  ASSUME IInv, MInv, NEW t \in Threads, pc[t] # "idle", pc[t] # "done",
         pc'[t] \in {"descend", "lockRoot", "lockChild", "lockHalf", "place"},
         pc'[t] = "descend" => pc[t] \in {"start", "descend"},
         op'[t].kind = op[t].kind, op'[t].key = op[t].key, op'[t].last = op[t].last,
         owed'[t] = owed[t], TreeKeys' = TreeKeys
  PROVE  UserOK(t)'
<1>1. UserOK(t)
  BY DEF MInv
<1>2. CallOK(t)'
  BY <1>1 DEF UserOK, CallOK, AllKeys, LoadKeys
<1>3. OwedOK(t)'
  BY <1>1 DEF UserOK, OwedOK
<1>4. ScanOK(t)'
  BY DEF ScanOK
<1> QED
  BY <1>2, <1>3, <1>4 DEF UserOK

\* A call has taken effect.
LEMMA DoneOK ==
  ASSUME IInv, MInv, NEW t \in Threads, pc[t] # "idle", NEW result, Finish(t, result),
         owed'[t] = {}
  PROVE  UserOK(t)'
<1>1. UserOK(t)
  BY DEF MInv
<1>2. pc'[t] = "done" /\ op'[t].kind = op[t].kind /\ op'[t].key = op[t].key
  BY FinishedAs
<1>3. CallOK(t)'
  BY <1>1, <1>2 DEF UserOK, CallOK, AllKeys, LoadKeys
<1>4. OwedOK(t)'
  BY <1>2 DEF OwedOK
<1>5. ScanOK(t)'
  BY <1>2 DEF ScanOK
<1> QED
  BY <1>3, <1>4, <1>5 DEF UserOK

LEMMA ReturnOK ==
  ASSUME IInv, MInv, NEW t \in Threads, Return(t)
  PROVE  MInv'
<1>1. /\ op \in [Threads -> Ops] /\ pc \in [Threads -> Labels]
  BY DEF IInv, TypeOK, OpsOK
<1>2. /\ nodes' = nodes /\ free' = free /\ pc[t] = "done" /\ pc'[t] = "idle" /\ op'[t] = NoOp
      /\ owed' = owed /\ load' = load
      /\ \A u \in Threads \ {t} : op'[u] = op[u] /\ pc'[u] = pc[u]
  BY <1>1 DEF Return, Goto, userVars
<1>3. owed'[t] = {}
  BY <1>2 DEF MInv, UserOK, OwedOK
<1>4. op'[t].kind = "none"
  BY <1>2 DEF NoOp
<1>5. UserOK(t)'
  BY <1>2, <1>3, <1>4 DEF UserOK, CallOK, OwedOK, ScanOK
<1> QED
  BY <1>2, <1>5, QuietOK DEF MInv, KeysKnown

LEMMA FixRootOK ==
  ASSUME IInv, MInv, NEW t \in Threads, FixRoot(t)
  PROVE  MInv'
<1>1. /\ op \in [Threads -> Ops] /\ pc \in [Threads -> Labels]
  BY DEF IInv, TypeOK, OpsOK
<1>2. /\ nodes' = nodes /\ free' = free /\ pc[t] = "start" /\ pc'[t] = "descend"
      /\ op'[t] = [op[t] EXCEPT !.node = Root] /\ owed' = owed /\ load' = load
      /\ \A u \in Threads \ {t} : op'[u] = op[u] /\ pc'[u] = pc[u]
  BY <1>1 DEF FixRoot, Goto, userVars
<1>3. op'[t].kind = op[t].kind /\ op'[t].key = op[t].key /\ op'[t].last = op[t].last
  BY <1>1, <1>2 DEF Ops
<1>4. UserOK(t)'
  BY <1>2, <1>3, KeysStay, OnTheWayOK
<1> QED
  BY <1>2, <1>4, QuietOK DEF MInv, KeysKnown

LEMMA DescendOK ==
  ASSUME IInv, MInv, NEW t \in Threads, Descend(t)
  PROVE  MInv'
<1>1. /\ op \in [Threads -> Ops] /\ pc \in [Threads -> Labels]
  BY DEF IInv, TypeOK, OpsOK
<1>2. PICK child : op' = [op EXCEPT ![t].node = child]
  BY DEF Descend
<1>3. /\ nodes' = nodes /\ free' = free /\ pc[t] = "descend" /\ pc' = pc
      /\ owed' = owed /\ load' = load
  BY <1>1 DEF Descend, userVars
<1>4. /\ op'[t].kind = op[t].kind /\ op'[t].key = op[t].key /\ op'[t].last = op[t].last
      /\ \A u \in Threads \ {t} : op'[u] = op[u]
  BY <1>1, <1>2 DEF Ops
<1>5. UserOK(t)'
  BY <1>3, <1>4, KeysStay, OnTheWayOK
<1> QED
  BY <1>3, <1>4, <1>5, QuietOK DEF MInv, KeysKnown

LEMMA InsertFullOK ==
  ASSUME IInv, MInv, NEW t \in Threads, InsertFull(t)
  PROVE  MInv'
<1>1. /\ op \in [Threads -> Ops] /\ pc \in [Threads -> Labels]
  BY DEF IInv, TypeOK, OpsOK
<1>2. /\ nodes' = nodes /\ free' = free /\ pc[t] = "descend" /\ pc'[t] = "lockRoot"
      /\ op'[t] = [op[t] EXCEPT !.node = NoPage] /\ owed' = owed /\ load' = load
      /\ \A u \in Threads \ {t} : op'[u] = op[u] /\ pc'[u] = pc[u]
  BY <1>1 DEF InsertFull, AtLeaf, Goto, userVars
<1>3. op'[t].kind = op[t].kind /\ op'[t].key = op[t].key /\ op'[t].last = op[t].last
  BY <1>1, <1>2 DEF Ops
<1>4. UserOK(t)'
  BY <1>2, <1>3, KeysStay, OnTheWayOK
<1> QED
  BY <1>2, <1>4, QuietOK DEF MInv, KeysKnown

LEMMA LockChildOK ==
  ASSUME IInv, MInv, NEW t \in Threads, LockChild(t)
  PROVE  MInv'
<1>1. /\ op \in [Threads -> Ops] /\ pc \in [Threads -> Labels]
  BY DEF IInv, TypeOK, OpsOK
<1>2. /\ nodes' = nodes /\ free' = free /\ pc[t] \in {"lockChild", "lockHalf"}
      /\ pc'[t] \in {"lockChild", "place"} /\ owed' = owed /\ load' = load
      /\ \A u \in Threads \ {t} : pc'[u] = pc[u]
  BY <1>1 DEF LockChild, Goto, userVars
<1>3. /\ op'[t].kind = op[t].kind /\ op'[t].key = op[t].key /\ op'[t].last = op[t].last
      /\ \A u \in Threads \ {t} : op'[u] = op[u]
  <2>1. CASE nodes[op[t].node].leaf
    <3>1. op' = [op EXCEPT ![t] = [@ EXCEPT !.parent = NoPage, !.dirtyParent = FALSE]]
      BY <2>1 DEF LockChild
    <3> QED
      BY <1>1, <3>1 DEF Ops
  <2>2. CASE ~nodes[op[t].node].leaf
    <3>1. PICK page, node :
            op' = [op EXCEPT ![t] = [@ EXCEPT !.parent = page, !.dirtyParent = FALSE, !.node = node]]
      BY <2>2 DEF LockChild
    <3> QED
      BY <1>1, <3>1 DEF Ops
  <2> QED
    BY <2>1, <2>2
<1>4. UserOK(t)'
  BY <1>2, <1>3, KeysStay, OnTheWayOK
<1> QED
  BY <1>2, <1>3, <1>4, QuietOK DEF MInv, KeysKnown

LEMMA LookupOK ==
  ASSUME IInv, MInv, NEW t \in Threads, Lookup(t)
  PROVE  MInv'
<1>1. /\ AtLeaf(t, "lookup") /\ nodes' = nodes /\ free' = free /\ owed' = owed /\ load' = load
  BY DEF Lookup, userVars
<1>2. PICK result : Finish(t, result)
  BY DEF Lookup
<1>3. pc[t] = "descend" /\ op[t].kind = "lookup"
  BY <1>1 DEF AtLeaf
<1>4. owed'[t] = {}
  BY <1>1, <1>3 DEF MInv, UserOK, OwedOK
<1>5. UserOK(t)'
  BY <1>2, <1>3, <1>4, DoneOK
<1>6. \A u \in Threads \ {t} : op'[u] = op[u] /\ pc'[u] = pc[u]
  BY <1>2, FinishedAs
<1> QED
  BY <1>1, <1>5, <1>6, QuietOK DEF MInv, KeysKnown

\* A split moves entries only.
LEMMA SplitOK ==
  ASSUME IInv, KInv, MInv, IInv', KInv', NEW t \in Threads, SameEntries, OthersRead(t),
         pc[t] \in {"lockRoot", "lockChild"}, pc'[t] \in {"lockChild", "lockHalf"},
         op'[t].kind = op[t].kind, op'[t].key = op[t].key, op'[t].last = op[t].last,
         UNCHANGED <<owed, load>>
  PROVE  MInv'
<1>1. TreeKeys' = TreeKeys
  BY MapStays
<1>2. UserOK(t)'
  BY <1>1, OnTheWayOK
<1>3. \A u \in Threads \ {t} : owed'[u] \subseteq owed[u] /\ owed'[u] \subseteq TreeKeys'
  BY <1>1 DEF MInv, UserOK, OwedOK
<1> QED
  BY <1>1, <1>2, <1>3, StepOK DEF MInv, KeysKnown

LEMMA SplitChildOK ==
  ASSUME IInv, KInv, MInv, IInv', KInv', NEW t \in Threads, SplitChild(t)
  PROVE  MInv'
<1>1. /\ pc[t] = "lockChild" /\ pc'[t] = "lockHalf" /\ op'[t].kind = op[t].kind
      /\ op'[t].key = op[t].key /\ owed' = owed /\ load' = load
  BY ChildTaken DEF SplitChild, userVars
<1>2. op'[t].last = op[t].last
  <2>1. op \in [Threads -> Ops]
    BY DEF IInv, OpsOK
  <2>2. PICK node : op' = [op EXCEPT ![t] = [@ EXCEPT !.dirtyParent = TRUE, !.node = node]]
    BY DEF SplitChild, KInv
  <2> QED
    BY <2>1, <2>2 DEF Ops
<1>3. SameEntries /\ OthersRead(t)
  BY ChildSplitEntries
<1> QED
  BY <1>1, <1>2, <1>3, SplitOK

LEMMA LockRootOK ==
  ASSUME IInv, KInv, MInv, IInv', KInv', NEW t \in Threads, LockRoot(t)
  PROVE  MInv' /\ SameEntries
<1>1. /\ pc[t] = "lockRoot" /\ pc'[t] = "lockChild" /\ op'[t].kind = op[t].kind
      /\ op'[t].key = op[t].key /\ owed' = owed /\ load' = load
      /\ \A u \in Threads \ {t} : op'[u] = op[u] /\ pc'[u] = pc[u]
  BY RootLocked DEF LockRoot, userVars
<1>2. op'[t].last = op[t].last
  <2>1. op \in [Threads -> Ops]
    BY DEF IInv, OpsOK
  <2>2. PICK dirty, node :
          op' = [op EXCEPT ![t] = [@ EXCEPT !.parent = Root, !.dirtyParent = dirty, !.node = node]]
    BY DEF LockRoot
  <2> QED
    BY <2>1, <2>2 DEF Ops
<1>3. SameEntries /\ OthersRead(t)
  <2>1. CASE HasFreeSpace(nodes[Root])
    <3>1. nodes' = nodes /\ free' = free
      BY <2>1 DEF LockRoot
    <3> QED
      BY <1>1, <3>1, EntriesStay, QuietRead
  <2>2. CASE ~HasFreeSpace(nodes[Root])
    BY <2>2, RootSplitEntries
  <2> QED
    BY <2>1, <2>2
<1> QED
  BY <1>1, <1>2, <1>3, SplitOK

---------------------------------------------------------------------------
(* Insertions and erasures *)

\* An insertion has taken effect.
LEMMA InsertedOK ==
  ASSUME IInv, KInv, MInv, IInv', KInv', NEW t \in Threads,
         op[t].kind = "insert", pc[t] \notin {"idle", "done"}, Finish(t, Nil),
         GainsEntry(op[t].key, Value(t, op[t].key)), OthersRead(t), UNCHANGED <<owed, load>>
  PROVE  /\ MInv' /\ op[t].key \in AllKeys
         /\ TreeMap' = [TreeMap EXCEPT ![op[t].key] = Value(t, op[t].key)]
<1>1. PICK key : key = op[t].key
  OBVIOUS
<1>2. key \in AllKeys /\ owed[t] = {}
  BY <1>1 DEF MInv, UserOK, CallOK, OwedOK
<1>3. key \notin TreeKeys
  BY <1>1 DEF KInv, DistinctOK, Inserting
<1>4. /\ TreeMap' = [TreeMap EXCEPT ![key] = Value(t, key)]
      /\ TreeKeys' = TreeKeys \cup {key}
  BY <1>1, <1>2, <1>3, MapGains
<1>5. UserOK(t)'
  BY <1>2, DoneOK
<1>6. \A u \in Threads \ {t} : owed'[u] \subseteq owed[u] /\ owed'[u] \subseteq TreeKeys'
  BY <1>4 DEF MInv, UserOK, OwedOK
<1>7. TreeKeys' \subseteq AllKeys /\ Range(load') \subseteq LoadKeys
  BY <1>2, <1>4 DEF MInv, KeysKnown
<1>8. MInv'
  BY <1>5, <1>6, <1>7, StepOK
<1> QED
  BY <1>1, <1>2, <1>4, <1>8

LEMMA InsertHereOK ==
  ASSUME IInv, KInv, MInv, IInv', KInv', NEW t \in Threads, InsertHere(t)
  PROVE  /\ MInv' /\ op[t].key \in AllKeys
         /\ TreeMap' = [TreeMap EXCEPT ![op[t].key] = Value(t, op[t].key)]
<1>1. op[t].kind = "insert" /\ pc[t] = "descend" /\ Finish(t, Nil) /\ owed' = owed /\ load' = load
  BY DEF InsertHere, AtLeaf, userVars
<1>2. GainsEntry(op[t].key, Value(t, op[t].key)) /\ OthersRead(t)
  BY InsertHereEntry
<1> QED
  BY <1>1, <1>2, InsertedOK

LEMMA InsertExclusiveOK ==
  ASSUME IInv, KInv, MInv, IInv', KInv', NEW t \in Threads, InsertExclusive(t)
  PROVE  /\ MInv' /\ op[t].key \in AllKeys /\ op[t].kind = "insert"
         /\ TreeMap' = [TreeMap EXCEPT ![op[t].key] = Value(t, op[t].key)]
<1>1. pc[t] = "place" /\ owed' = owed /\ load' = load
  BY DEF InsertExclusive, userVars
<1>2. op[t].kind = "insert"
  BY <1>1 DEF KInv, TreeOK, ThreadOK, DescentOK
<1>3. GainsEntry(op[t].key, Value(t, op[t].key)) /\ OthersRead(t) /\ Finish(t, Nil)
  BY InsertExclusiveEntry
<1> QED
  BY <1>1, <1>2, <1>3, InsertedOK

LEMMA EraseOK ==
  ASSUME IInv, KInv, MInv, IInv', KInv', NEW t \in Threads, Erase(t)
  PROVE  /\ MInv' /\ op[t].key \in AllKeys /\ op[t].kind = "erase" /\ owed[t] = {}
         /\ TreeMap' = [TreeMap EXCEPT ![op[t].key] = Nil]
<1>1. PICK key : key = op[t].key
  OBVIOUS
<1>2. pc[t] = "descend" /\ op[t].kind = "erase" /\ load' = load
  BY DEF Erase, AtLeaf, userVars
<1>3. key \in AllKeys /\ owed[t] = {}
  BY <1>1, <1>2 DEF MInv, UserOK, CallOK, OwedOK
<1>4. PICK result : Finish(t, result)
  BY ErasedEntry
<1>5. LosesEntry(key) /\ OthersRead(t) /\ owed' = [u \in Threads |-> owed[u] \ {key}]
  BY <1>1, ErasedEntry
<1>6. TreeMap' = [TreeMap EXCEPT ![key] = Nil] /\ TreeKeys' = TreeKeys \ {key}
  BY <1>3, <1>5, MapLoses
<1>7. UserOK(t)'
  <2>1. owed'[t] = {}
    BY <1>3, <1>5
  <2> QED
    BY <1>2, <1>4, <2>1, DoneOK
<1>8. \A u \in Threads \ {t} : owed'[u] \subseteq owed[u] /\ owed'[u] \subseteq TreeKeys'
  BY <1>5, <1>6 DEF MInv, UserOK, OwedOK
<1>9. TreeKeys' \subseteq AllKeys /\ Range(load') \subseteq LoadKeys
  BY <1>2, <1>6 DEF MInv, KeysKnown
<1>10. MInv'
  BY <1>5, <1>7, <1>8, <1>9, StepOK
<1> QED
  BY <1>1, <1>2, <1>3, <1>6, <1>10

---------------------------------------------------------------------------
(* Scans *)

\* The iterator is at index on page, in front of what it owes and behind what it has passed.
PlacedAt(t, page, index) ==
  /\ page \in Leaves /\ index \in Nat /\ index <= Len(nodes[page].keys)
  /\ \A k \in owed[t] :
       /\ StartsBelow(page, k)
       /\ \A i \in 1 .. index : nodes[page].keys[i] < k
  /\ op[t].last # Nil =>
       /\ ReachesTo(page, op[t].last.key)
       /\ \A i \in index + 1 .. Len(nodes[page].keys) : op[t].last.key < nodes[page].keys[i]
  /\ op[t].kind = "range" =>
       /\ ReachesTo(page, op[t].key)
       /\ \A i \in index + 1 .. Len(nodes[page].keys) : op[t].key <= nodes[page].keys[i]

LEMMA PlacedOK ==
  ASSUME IInv, MInv, NEW t \in Threads, op[t].kind \in {"range", "size"},
         pc[t] \in {"descend", "next"}, NEW page, NEW index, PlacedAt(t, page, index),
         AtEntry(t, page, index), UNCHANGED <<nodes, free, owed, load>>
  PROVE  MInv'
<1>1. /\ op \in [Threads -> Ops] /\ pc \in [Threads -> Labels]
  BY DEF IInv, TypeOK, OpsOK
<1>2. /\ op' = [op EXCEPT ![t] = [@ EXCEPT !.node = page, !.index = index]]
      /\ pc' = [pc EXCEPT ![t] = IF index < Size(nodes[page]) THEN "scan" ELSE "next"]
  BY DEF AtEntry, Goto
<1>3. /\ op'[t].kind = op[t].kind /\ op'[t].key = op[t].key /\ op'[t].last = op[t].last
      /\ op'[t].node = page /\ op'[t].index = index
      /\ \A u \in Threads \ {t} : op'[u] = op[u]
  BY <1>1, <1>2 DEF Ops
<1>4. /\ pc'[t] = (IF index < Size(nodes[page]) THEN "scan" ELSE "next")
      /\ \A u \in Threads \ {t} : pc'[u] = pc[u]
  BY <1>1, <1>2
<1>5. /\ \A k : StartsBelow(page, k)' <=> StartsBelow(page, k)
      /\ \A k : ReachesTo(page, k)' <=> ReachesTo(page, k)
  <2>1. \A key : LeafOf(key)' = LeafOf(key)
    BY DEF LeafOf, Pages
  <2> QED
    BY <2>1 DEF StartsBelow, ReachesTo
<1>6. UserOK(t)
  BY DEF MInv
<1>7. CallOK(t)'
  BY <1>3, <1>4, <1>6 DEF UserOK, CallOK, AllKeys, LoadKeys
<1>8. OwedOK(t)'
  <2>1. TreeKeys' = TreeKeys
    BY KeysStay
  <2>2. pc'[t] # "done"
    BY <1>4
  <2> QED
    BY <1>3, <1>6, <2>1, <2>2 DEF UserOK, OwedOK
<1>9. ScanOK(t)'
  <2>1. Owes(t)'
    BY <1>3, <1>5 DEF PlacedAt, Owes
  <2>2. Passed(t)'
    BY <1>3, <1>5 DEF PlacedAt, Passed
  <2>3. InRange(t)'
    BY <1>3, <1>5 DEF PlacedAt, InRange
  <2>4. pc'[t] = "next" => index = Len(nodes[page].keys)
    <3>1. PICK m : m = Len(nodes[page].keys)
      OBVIOUS
    <3>2. index \in Nat /\ m \in Nat /\ index <= m /\ Size(nodes[page]) = m
      <4>1. nodes[page] \in LeafIn(Leaves)
        BY DEF PlacedAt, IInv, NodesOK
      <4> QED
        BY <3>1, <4>1, LeafFields DEF PlacedAt
    <3> QED
      BY <1>4, <3>1, <3>2
  <2> QED
    BY <1>3, <2>1, <2>2, <2>3, <2>4 DEF ScanOK, PlacedAt
<1>10. UserOK(t)'
  BY <1>7, <1>8, <1>9 DEF UserOK
<1> QED
  BY <1>3, <1>4, <1>10, QuietOK DEF MInv, KeysKnown

\* lookupPage has come to the first leaf for size, or to the leaf for the key.
LEMMA BeginScanOK ==
  ASSUME IInv, KInv, MInv, NEW t \in Threads, BeginScan(t)
  PROVE  MInv'
<1>1. PICK lo, hi, level, up : /\ Tree(nodes, Allocated, lo, hi, level, up)
                               /\ \A u \in Threads : ThreadOK(u, lo, hi)
  BY DEF KInv, TreeOK
<1>2. PICK page, key : page = op[t].node /\ key = op[t].key
  OBVIOUS
<1>3. UNCHANGED <<nodes, free, owed, load>>
  BY DEF BeginScan, userVars
<1>4. UserOK(t)
  BY DEF MInv
<1>5. CASE AtLeaf(t, "size") /\ AtEntry(t, page, 0)
  <2>1. pc[t] = "descend" /\ op[t].kind = "size" /\ page \in Leaves
    BY <1>2, <1>5, AtLeafIsThere
  <2>2. lo[page] = -1
    BY <1>1, <1>2, <2>1 DEF ThreadOK, DescentOK
  <2>3. ASSUME NEW k \in owed[t] PROVE StartsBelow(page, k)
    <3>1. k \in Nat /\ lo[page] < k
      BY <2>2, <2>3 DEF IInv, TypeOK
    <3> QED
      BY <1>1, <2>1, <3>1, StartsBelowIs
  <2>4. op[t].last = Nil
    BY <1>4, <2>1 DEF UserOK, CallOK
  <2>5. Len(nodes[page].keys) \in Nat
    BY <1>1, <2>1, LeafIs
  <2>6. PlacedAt(t, page, 0)
    BY <2>1, <2>3, <2>4, <2>5 DEF PlacedAt
  <2> QED
    BY <1>3, <1>5, <2>1, <2>6, PlacedOK
<1>6. CASE AtLeaf(t, "range") /\ AtEntry(t, page, LowerBound(nodes[page].keys, key))
  <2>1. pc[t] = "descend" /\ op[t].kind = "range" /\ page \in Leaves /\ key \in Nat
    BY <1>2, <1>6, AtLeafIsThere DEF Ops
  <2>2. Within(key, lo[page], hi[page])
    BY <1>1, <1>2, <2>1 DEF ThreadOK, DescentOK
  <2>3. PICK keys \in Seq(Nat) : keys = nodes[page].keys /\ SortedKeys(keys)
    BY <1>1, <2>1, LeafIs
  <2>4. PICK index \in 0 .. Len(keys) : index = LowerBound(keys, key)
    BY <2>1, LowerBoundType
  <2>5. \A i \in 1 .. Len(keys) : keys[i] < key <=> i <= index
    BY <2>1, <2>3, <2>4, LowerBoundSeparates
  <2>6. lo[page] \in Nat \cup {-1} /\ hi[page] \in Nat \cup {-1}
    BY <1>1, <2>1, LeafAndNext
  <2>7. ASSUME NEW k \in owed[t]
        PROVE  StartsBelow(page, k) /\ \A i \in 1 .. index : keys[i] < k
    <3>1. k \in Nat /\ key <= k
      BY <1>2, <1>4, <2>1, <2>7 DEF IInv, TypeOK, UserOK, OwedOK
    <3>2. lo[page] < k
      BY <2>1, <2>2, <2>6, <3>1 DEF Within
    <3>3. StartsBelow(page, k)
      BY <1>1, <2>1, <3>1, <3>2, StartsBelowIs
    <3>4. ASSUME NEW i \in 1 .. index PROVE keys[i] < k
      <4>1. i \in 1 .. Len(keys) /\ keys[i] \in Nat /\ keys[i] < key
        BY <2>5
      <4> QED
        BY <2>1, <3>1, <4>1
    <3> QED
      BY <3>3, <3>4
  <2>8. ReachesTo(page, key)
    <3>1. hi[page] = -1 \/ key <= hi[page]
      BY <2>2 DEF Within
    <3> QED
      BY <1>1, <2>1, <3>1, ReachesToIs
  <2>9. ASSUME NEW i \in index + 1 .. Len(keys) PROVE key <= keys[i]
    <3>1. i \in 1 .. Len(keys) /\ ~(i <= index) /\ keys[i] \in Nat
      OBVIOUS
    <3> QED
      BY <2>1, <2>5, <3>1
  <2>10. op[t].last = Nil
    BY <1>4, <2>1 DEF UserOK, CallOK
  <2>11. PlacedAt(t, page, index)
    BY <1>2, <2>1, <2>3, <2>4, <2>7, <2>8, <2>9, <2>10 DEF PlacedAt
  <2> QED
    BY <1>3, <1>6, <2>1, <2>3, <2>4, <2>11, PlacedOK
<1> QED
  BY <1>2, <1>5, <1>6 DEF BeginScan, Node

\* What is owed and belongs to the iterator's leaf is in front of the iterator.
LEMMA OwedAhead ==
  ASSUME IInv, MInv, NEW lo, NEW hi, NEW level, NEW up, Tree(nodes, Allocated, lo, hi, level, up),
         NEW t \in Threads, pc[t] \in {"scan", "next"}, NEW page, page = op[t].node,
         NEW k \in owed[t], hi[page] = -1 \/ k <= hi[page]
  PROVE  \E j \in 1 .. Len(nodes[page].keys) : nodes[page].keys[j] = k /\ ~(j <= op[t].index)
<1>1. page \in Leaves /\ op[t].index \in Nat
  BY ScanIsThere DEF Ops
<1>2. k \in Nat /\ k \in TreeKeys /\ Owes(t)
  BY DEF IInv, TypeOK, MInv, UserOK, OwedOK, ScanOK
<1>3. StartsBelow(page, k) /\ \A i \in 1 .. op[t].index : nodes[page].keys[i] < k
  BY <1>2 DEF Owes
<1>4. lo[page] < k
  BY <1>1, <1>2, <1>3, StartsBelowIs
<1>5. Within(k, lo[page], hi[page])
  BY <1>4 DEF Within
<1>6. PICK p \in Leaves : \E i \in 1 .. Len(nodes[p].keys) : nodes[p].keys[i] = k
  BY <1>2, KeysOfTree
<1>7. Within(k, lo[p], hi[p])
  BY <1>6, LeafIs
<1>8. p = page
  BY <1>1, <1>2, <1>5, <1>7, OneLeaf
<1>9. PICK j \in 1 .. Len(nodes[page].keys) : nodes[page].keys[j] = k
  BY <1>6, <1>8
<1>10. ~(j <= op[t].index)
  <2>1. SUFFICES ASSUME j <= op[t].index PROVE FALSE
    OBVIOUS
  <2>2. j \in 1 .. op[t].index
    BY <1>1, <2>1
  <2>3. k < k
    BY <1>3, <1>9, <2>2
  <2> QED
    BY <1>2, <2>3
<1> QED
  BY <1>9, <1>10

\* The entry that the iterator comes to is the next one in the map.
ComesTo(t, key, value) ==
  /\ key \in AllKeys /\ TreeMap[key] = value /\ value # Nil
  /\ op[t].last # Nil => op[t].last.key < key
  /\ op[t].kind = "range" => op[t].key <= key
  /\ \A k \in owed[t] : key <= k

LEMMA ScanComesTo ==
  ASSUME IInv, KInv, MInv, NEW t \in Threads, pc[t] = "scan",
         NEW page, page = op[t].node, NEW i, i = op[t].index + 1
  PROVE  /\ i \in 1 .. Len(nodes[page].keys)
         /\ ComesTo(t, nodes[page].keys[i], nodes[page].values[i])
<1>1. PICK lo, hi, level, up : Tree(nodes, Allocated, lo, hi, level, up)
  BY DEF KInv, TreeOK
<1>2. /\ page \in Leaves /\ op[t].index \in Nat /\ op[t].index < Size(nodes[page])
      /\ op[t] \in Ops
  BY ScanIsThere DEF Ops, Node
<1>3. PICK keys \in Seq(Nat) : keys = nodes[page].keys /\ Size(nodes[page]) = Len(keys)
                               /\ SortedKeys(keys)
  BY <1>1, <1>2, LeafIs
<1>4. i \in 1 .. Len(keys) /\ i \in op[t].index + 1 .. Len(keys)
  BY <1>2, <1>3
<1>5. PICK key \in Nat : key = keys[i]
  BY <1>4
<1>6. PICK value : value = nodes[page].values[i]
  OBVIOUS
<1>7. Entry(key, value)
  BY <1>2, <1>3, <1>4, <1>5, <1>6 DEF Entry, Holds
<1>8. key \in AllKeys /\ TreeMap[key] = value /\ value # Nil
  <2>1. MapHasEntries
    BY TreeMapIs
  <2>2. key \in AllKeys
    BY <1>7, <2>1 DEF MapHasEntries, MInv, KeysKnown
  <2>3. TreeMap[key] = value /\ value \in Values
    BY <1>7, <2>1, <2>2 DEF MapHasEntries
  <2> QED
    BY <2>2, <2>3, NilAssumption
<1>9. Passed(t) /\ InRange(t)
  BY DEF MInv, UserOK, ScanOK
<1>10. op[t].last # Nil => op[t].last.key < key
  BY <1>3, <1>4, <1>5, <1>9 DEF Passed
<1>11. op[t].kind = "range" => op[t].key <= key
  BY <1>3, <1>4, <1>5, <1>9 DEF InRange
<1>12. ASSUME NEW k \in owed[t] PROVE key <= k
  <2>1. SUFFICES ASSUME k < key PROVE FALSE
    BY <1>5 DEF IInv, TypeOK
  <2>2. k \in Nat
    BY DEF IInv, TypeOK
  <2>3. Within(key, lo[page], hi[page]) /\ hi[page] \in Nat \cup {-1}
    BY <1>1, <1>2, <1>3, <1>4, <1>5, LeafIs, LeafAndNext
  <2>4. hi[page] = -1 \/ k <= hi[page]
    BY <1>5, <2>1, <2>2, <2>3 DEF Within
  <2>5. PICK j \in 1 .. Len(nodes[page].keys) : nodes[page].keys[j] = k /\ ~(j <= op[t].index)
    BY <1>1, <2>4, OwedAhead
  <2>6. j \in 1 .. Len(keys) /\ keys[j] = k /\ (j = i \/ i < j)
    BY <1>2, <1>3, <2>5
  <2>7. i < j => keys[i] < keys[j]
    BY <1>3, <1>4, <2>6 DEF SortedKeys
  <2>8. key <= k
    BY <1>5, <2>2, <2>6, <2>7
  <2> QED
    BY <1>5, <2>1, <2>2, <2>8
<1> QED
  BY <1>3, <1>4, <1>5, <1>6, <1>8, <1>10, <1>11, <1>12 DEF ComesTo

LEMMA ScanNextOK ==
  ASSUME IInv, KInv, MInv, NEW t \in Threads, ScanNext(t)
  PROVE  MInv'
<1>1. PICK lo, hi, level, up : Tree(nodes, Allocated, lo, hi, level, up)
  BY DEF KInv, TreeOK
<1>2. PICK page, i : page = op[t].node /\ i = op[t].index + 1
  OBVIOUS
<1>3. /\ pc[t] = "scan" /\ nodes' = nodes /\ free' = free /\ load' = load
  BY DEF ScanNext, userVars
<1>4. page \in Leaves /\ op[t].index \in Nat /\ op[t] \in Ops
  BY <1>2, <1>3, ScanIsThere DEF Ops
<1>5. PICK keys \in Seq(Nat) : keys = nodes[page].keys /\ Size(nodes[page]) = Len(keys)
                               /\ SortedKeys(keys)
  BY <1>1, <1>4, LeafIs
<1>6. /\ i \in 1 .. Len(keys)
      /\ ComesTo(t, keys[i], nodes[page].values[i])
  BY <1>2, <1>3, <1>5, ScanComesTo
<1>7. PICK key \in Nat : key = keys[i]
  BY <1>6
<1>8. PICK entry : entry = [key |-> key, value |-> nodes[page].values[i]]
  OBVIOUS
<1>9. /\ op \in [Threads -> Ops] /\ pc \in [Threads -> Labels] /\ owed \in [Threads -> SUBSET Nat]
  BY DEF IInv, TypeOK, OpsOK
<1>10. /\ op' = [op EXCEPT ![t] = [@ EXCEPT !.index = i, !.count = op[t].count + 1, !.last = entry]]
       /\ pc' = [pc EXCEPT ![t] = IF i < Len(keys) THEN "scan" ELSE "next"]
       /\ owed' = [owed EXCEPT ![t] = @ \ {key}]
  BY <1>2, <1>5, <1>7, <1>8 DEF ScanNext, Node, Goto
<1>11. /\ op'[t].kind = op[t].kind /\ op'[t].key = op[t].key /\ op'[t].last = entry
       /\ op'[t].node = page /\ op'[t].index = i /\ entry.key = key
       /\ owed'[t] = owed[t] \ {key}
       /\ pc'[t] = IF i < Len(keys) THEN "scan" ELSE "next"
       /\ \A u \in Threads \ {t} : op'[u] = op[u] /\ pc'[u] = pc[u] /\ owed'[u] = owed[u]
  BY <1>2, <1>8, <1>9, <1>10 DEF Ops
<1>12. /\ \A k : StartsBelow(page, k)' <=> StartsBelow(page, k)
       /\ \A k : ReachesTo(page, k)' <=> ReachesTo(page, k)
  <2>1. \A x : LeafOf(x)' = LeafOf(x)
    BY <1>3 DEF LeafOf, Pages
  <2> QED
    BY <2>1 DEF StartsBelow, ReachesTo
<1>13. UserOK(t)
  BY DEF MInv
<1>14. CallOK(t)'
  <2>1. pc'[t] \in {"scan", "next"}
    BY <1>11
  <2> QED
    BY <1>3, <1>11, <1>13, <2>1 DEF UserOK, CallOK, AllKeys, LoadKeys
<1>15. OwedOK(t)'
  <2>1. TreeKeys' = TreeKeys
    BY <1>3, KeysStay
  <2>2. pc'[t] # "done"
    BY <1>11
  <2> QED
    BY <1>3, <1>11, <1>13, <2>1, <2>2 DEF UserOK, OwedOK
<1>16. Owes(t) /\ Passed(t) /\ InRange(t)
  BY <1>3, <1>13 DEF UserOK, ScanOK
<1>17. ASSUME NEW k \in owed'[t]
       PROVE  StartsBelow(page, k) /\ \A j \in 1 .. i : keys[j] < k
  <2>1. k \in owed[t] /\ k # key /\ k \in Nat
    BY <1>9, <1>11, <1>17
  <2>2. StartsBelow(page, k)
    BY <1>2, <1>16, <2>1 DEF Owes
  <2>3. key < k
    BY <1>6, <1>7, <2>1 DEF ComesTo
  <2>4. ASSUME NEW j \in 1 .. i PROVE keys[j] < k
    <3>1. j \in 1 .. Len(keys) /\ keys[j] \in Nat /\ (j = i \/ j < i)
      BY <1>6
    <3> QED
      BY <1>5, <1>6, <1>7, <2>1, <2>3, <3>1 DEF SortedKeys
  <2> QED
    BY <2>2, <2>4
<1>18. ReachesTo(page, key)
  <2>1. Within(key, lo[page], hi[page])
    BY <1>1, <1>4, <1>5, <1>6, <1>7, LeafIs
  <2>2. hi[page] = -1 \/ key <= hi[page]
    BY <2>1 DEF Within
  <2> QED
    BY <1>1, <1>4, <2>2, ReachesToIs
<1>19. ASSUME NEW j \in i + 1 .. Len(keys)
       PROVE  key < keys[j] /\ j \in op[t].index + 1 .. Len(keys)
  <2>1. j \in 1 .. Len(keys) /\ i < j /\ j \in op[t].index + 1 .. Len(keys)
    BY <1>2, <1>4, <1>6
  <2> QED
    BY <1>5, <1>6, <1>7, <2>1 DEF SortedKeys
<1>20. ScanOK(t)'
  <2>1. Owes(t)'
    BY <1>3, <1>5, <1>11, <1>12, <1>17 DEF Owes
  <2>2. Passed(t)'
    BY <1>3, <1>5, <1>11, <1>12, <1>18, <1>19 DEF Passed
  <2>3. InRange(t)'
    BY <1>2, <1>3, <1>5, <1>11, <1>12, <1>16, <1>19 DEF InRange
  <2>4. i <= Len(keys) /\ (pc'[t] = "next" => i = Len(keys))
    BY <1>6, <1>11
  <2> QED
    BY <1>3, <1>5, <1>11, <2>1, <2>2, <2>3, <2>4 DEF ScanOK
<1>21. UserOK(t)'
  BY <1>14, <1>15, <1>20 DEF UserOK
<1> QED
  BY <1>3, <1>11, <1>21, QuietOK DEF MInv, KeysKnown

LEMMA NextLeafOK ==
  ASSUME IInv, KInv, MInv, NEW t \in Threads, NextLeaf(t)
  PROVE  MInv'
<1>1. PICK lo, hi, level, up : Tree(nodes, Allocated, lo, hi, level, up)
  BY DEF KInv, TreeOK
<1>2. PICK page, next : page = op[t].node /\ next = nodes[page].next
  OBVIOUS
<1>3. /\ pc[t] = "next" /\ next # NoPage /\ AtEntry(t, next, 0)
      /\ UNCHANGED <<nodes, free, owed, load>>
  BY <1>2 DEF NextLeaf, Node, userVars
<1>4. page \in Leaves /\ op[t].index \in Nat /\ op[t] \in Ops
  BY <1>2, <1>3, ScanIsThere DEF Ops
<1>5. PICK high \in Nat : /\ high = hi[page] /\ high = lo[next] /\ high # -1
                          /\ next \in Leaves
  BY <1>1, <1>2, <1>3, <1>4, LeafAndNext
<1>6. /\ UserOK(t) /\ op[t].kind \in {"range", "size"}
      /\ op[t].index = Len(nodes[page].keys) /\ Owes(t) /\ Passed(t) /\ InRange(t)
  BY <1>2, <1>3 DEF MInv, UserOK, ScanOK, CallOK
<1>7. ASSUME NEW k \in owed[t] PROVE StartsBelow(next, k)
  <2>1. k \in Nat
    BY DEF IInv, TypeOK
  <2>2. ~(k <= high)
    <3>1. SUFFICES ASSUME k <= high PROVE FALSE
      OBVIOUS
    <3>2. hi[page] = -1 \/ k <= hi[page]
      BY <1>5, <3>1
    <3>3. PICK j \in 1 .. Len(nodes[page].keys) : ~(j <= op[t].index)
      BY <1>1, <1>2, <1>3, <3>2, OwedAhead
    <3> QED
      BY <1>6, <3>3
  <2>3. lo[next] < k
    BY <1>5, <2>1, <2>2
  <2> QED
    BY <1>1, <1>5, <2>1, <2>3, StartsBelowIs
<1>8. ASSUME NEW k \in Nat, ReachesTo(page, k)
      PROVE  /\ ReachesTo(next, k)
             /\ \A i \in 1 .. Len(nodes[next].keys) : k < nodes[next].keys[i]
  <2>1. k <= high
    BY <1>1, <1>4, <1>5, <1>8, ReachesToIs
  <2>2. /\ hi[next] \in Nat \cup {-1} /\ (hi[next] = -1 \/ lo[next] < hi[next])
    BY <1>1, <1>5, LeafAndNext
  <2>3. hi[next] = -1 \/ k <= hi[next]
    BY <1>5, <2>1, <2>2
  <2>4. ReachesTo(next, k)
    BY <1>1, <1>5, <2>3, ReachesToIs
  <2>5. ASSUME NEW i \in 1 .. Len(nodes[next].keys) PROVE k < nodes[next].keys[i]
    <3>1. PICK key \in Nat : key = nodes[next].keys[i] /\ Within(key, lo[next], hi[next])
      BY <1>1, <1>5, LeafIs
    <3> QED
      BY <1>5, <2>1, <3>1 DEF Within
  <2> QED
    BY <2>4, <2>5
<1>9. op[t].last # Nil =>
        /\ ReachesTo(next, op[t].last.key)
        /\ \A i \in 0 + 1 .. Len(nodes[next].keys) : op[t].last.key < nodes[next].keys[i]
  <2>1. SUFFICES ASSUME op[t].last # Nil
                 PROVE  /\ ReachesTo(next, op[t].last.key)
                        /\ \A i \in 1 .. Len(nodes[next].keys) : op[t].last.key < nodes[next].keys[i]
    OBVIOUS
  <2>2. PICK k \in Nat : k = op[t].last.key
    BY <1>4, <2>1 DEF Ops, Entries
  <2>3. ReachesTo(page, k)
    BY <1>2, <1>6, <2>1, <2>2 DEF Passed
  <2> QED
    BY <1>8, <2>2, <2>3
<1>10. op[t].kind = "range" =>
         /\ ReachesTo(next, op[t].key)
         /\ \A i \in 0 + 1 .. Len(nodes[next].keys) : op[t].key <= nodes[next].keys[i]
  <2>1. SUFFICES ASSUME op[t].kind = "range"
                 PROVE  /\ ReachesTo(next, op[t].key)
                        /\ \A i \in 1 .. Len(nodes[next].keys) : op[t].key <= nodes[next].keys[i]
    OBVIOUS
  <2>2. PICK k \in Nat : k = op[t].key
    BY <1>4 DEF Ops
  <2>3. ReachesTo(page, k)
    BY <1>2, <1>6, <2>1, <2>2 DEF InRange
  <2>4. /\ ReachesTo(next, k)
        /\ \A i \in 1 .. Len(nodes[next].keys) : k < nodes[next].keys[i]
    BY <1>8, <2>3
  <2>5. \A i \in 1 .. Len(nodes[next].keys) : nodes[next].keys[i] \in Nat
    BY <1>1, <1>5, LeafIs
  <2> QED
    BY <2>2, <2>4, <2>5
<1>11. Len(nodes[next].keys) \in Nat
  BY <1>1, <1>5, LeafIs
<1>12. PlacedAt(t, next, 0)
  BY <1>5, <1>7, <1>9, <1>10, <1>11 DEF PlacedAt
<1> QED
  BY <1>3, <1>6, <1>12, PlacedOK

\* At the end of the chain nothing is owed.
LEMMA NothingOwed ==
  ASSUME IInv, KInv, MInv, NEW t \in Threads, EndScan(t)
  PROVE  owed[t] = {}
<1>1. PICK lo, hi, level, up : Tree(nodes, Allocated, lo, hi, level, up)
  BY DEF KInv, TreeOK
<1>2. PICK page : page = op[t].node
  OBVIOUS
<1>3. pc[t] = "next" /\ nodes[page].next = NoPage
  BY <1>2 DEF EndScan, Node
<1>4. page \in Leaves
  BY <1>2, <1>3, ScanIsThere
<1>5. hi[page] = -1
  BY <1>1, <1>3, <1>4, LeafAndNext
<1>6. op[t].index = Len(nodes[page].keys)
  BY <1>2, <1>3 DEF MInv, UserOK, ScanOK
<1>7. SUFFICES ASSUME NEW k \in owed[t] PROVE FALSE
  OBVIOUS
<1>8. PICK j \in 1 .. Len(nodes[page].keys) : ~(j <= op[t].index)
  BY <1>1, <1>2, <1>3, <1>5, OwedAhead
<1> QED
  BY <1>6, <1>8

LEMMA ScanEndOK ==
  ASSUME IInv, MInv, NEW t \in Threads, EndScan(t) \/ DropScan(t)
  PROVE  MInv'
<1>1. /\ pc[t] # "idle" /\ nodes' = nodes /\ free' = free /\ load' = load
      /\ owed' = [owed EXCEPT ![t] = {}]
  BY DEF EndScan, DropScan, userVars
<1>2. PICK result : Finish(t, result)
  BY DEF EndScan, DropScan
<1>3. owed'[t] = {} /\ \A u \in Threads \ {t} : owed'[u] = owed[u]
  BY <1>1 DEF IInv, TypeOK
<1>4. UserOK(t)'
  BY <1>1, <1>2, <1>3, DoneOK
<1>5. \A u \in Threads \ {t} : op'[u] = op[u] /\ pc'[u] = pc[u]
  BY <1>2, FinishedAs
<1> QED
  BY <1>1, <1>3, <1>4, <1>5, QuietOK DEF MInv, KeysKnown

\* Nothing changes but the status or the number of calls.
LEMMA IdleOK ==
  ASSUME IInv, MInv, UNCHANGED <<nodes, free, pc, op, owed, load>>
  PROVE  MInv' /\ TreeMap' = TreeMap
<1>1. TreeKeys' = TreeKeys
  BY KeysStay
<1>2. \A key : LeafOf(key)' = LeafOf(key)
  BY DEF LeafOf, Pages
<1>3. /\ \A p, k : StartsBelow(p, k)' <=> StartsBelow(p, k)
      /\ \A p, k : ReachesTo(p, k)' <=> ReachesTo(p, k)
  BY <1>2 DEF StartsBelow, ReachesTo
<1>4. ASSUME NEW t \in Threads PROVE UserOK(t)'
  <2>1. UserOK(t)
    BY DEF MInv
  <2>2. CallOK(t)' /\ OwedOK(t)'
    BY <1>1, <2>1 DEF UserOK, CallOK, OwedOK, AllKeys, LoadKeys
  <2>3. ScanOK(t)'
    <3>1. Owes(t) => Owes(t)'
      BY <1>3 DEF Owes
    <3>2. Passed(t) => Passed(t)'
      BY <1>3 DEF Passed
    <3>3. InRange(t) => InRange(t)'
      BY <1>3 DEF InRange
    <3> QED
      BY <2>1, <3>1, <3>2, <3>3 DEF UserOK, ScanOK
  <2> QED
    BY <2>2, <2>3 DEF UserOK
<1>5. KeysKnown'
  BY <1>1 DEF MInv, KeysKnown, AllKeys, LoadKeys
<1>6. TreeMap' = TreeMap
  BY DEF TreeMap, LeafPages, Pages
<1> QED
  BY <1>4, <1>5, <1>6 DEF MInv

LEMMA MapInit ==
  ASSUME Init
  PROVE  MInv /\ TreeKeys = {}
<1>1. \A t \in Threads : pc[t] = "idle" /\ op[t] = NoOp /\ owed[t] = {}
  BY DEF Init
<1>2. ASSUME NEW t \in Threads PROVE UserOK(t)
  BY <1>1 DEF UserOK, CallOK, OwedOK, ScanOK, NoOp
<1>3. TreeKeys = {}
  <2>1. SUFFICES ASSUME NEW key \in TreeKeys PROVE FALSE
    OBVIOUS
  <2>2. PICK p \in Leaves : \E i \in 1 .. Len(nodes[p].keys) : nodes[p].keys[i] = key
    BY InitOK, KeysOfTree
  <2>3. p \in Pages /\ nodes[p].leaf = TRUE
    BY DEF Leaves, Allocated
  <2>4. p # Root
    BY InitOK, <2>2 DEF IInv, NodesOK, InnerPages, Leaves
  <2>5. p \in Allocated /\ free = 3
    BY <2>2 DEF Init, Leaves
  <2>6. p = FirstLeaf
    BY <2>3, <2>4, <2>5 DEF Allocated, Pages, Root, FirstLeaf
  <2>7. nodes[p] = EmptyLeaf
    BY <2>3, <2>4, <2>6 DEF Init
  <2>8. Len(nodes[p].keys) = 0
    BY <2>7 DEF EmptyLeaf, LeafNode
  <2> QED
    BY <2>2, <2>8
<1>4. Range(load) \subseteq LoadKeys
  BY DEF Init, LoadKeys
<1> QED
  BY <1>2, <1>3, <1>4 DEF MInv, KeysKnown

---------------------------------------------------------------------------
(* The invariant is inductive *)

LEMMA LoadOK ==
  ASSUME IInv, KInv, MInv, Load
  PROVE  /\ MInv'
         /\ Loader \in Threads /\ Head(load) \in AllKeys /\ Begin(Loader, "insert", Head(load))
<1>1. /\ load \in Seq(Nat) /\ load # <<>> /\ Begin(Loader, "insert", Head(load))
      /\ load' = Tail(load)
  BY DEF Load, IInv, OpsOK
<1>2. Loader \in Threads /\ Head(load) \in Nat
  BY <1>1, UsersAssumption
<1>3. Range(load) \subseteq LoadKeys
  BY DEF MInv, KeysKnown
<1>4. 1 \in DOMAIN load /\ Head(load) = load[1]
  BY <1>1
<1>5. Head(load) \in AllKeys
  BY <1>3, <1>4 DEF Range, AllKeys
<1>6. Range(load') \subseteq Range(load)
  <2>1. SUFFICES ASSUME NEW i \in DOMAIN load' PROVE load'[i] \in Range(load)
    BY DEF Range
  <2>2. i + 1 \in DOMAIN load /\ load'[i] = load[i + 1]
    BY <1>1
  <2> QED
    BY <2>2 DEF Range
<1>7. MInv'
  BY <1>1, <1>2, <1>3, <1>5, <1>6, BeginOK DEF Kinds
<1> QED
  BY <1>1, <1>2, <1>5, <1>7

LEMMA CallBeginsOK ==
  ASSUME IInv, KInv, MInv, NEW t \in Threads, NEW kind \in Kinds, NEW key \in Nat,
         kind # "size" => key \in AllKeys, Call(t, kind, key)
  PROVE  MInv'
<1>1. Begin(t, kind, key) /\ load' = load
  BY DEF Call
<1> QED
  BY <1>1, BeginOK DEF MInv, KeysKnown

LEMMA ContinueOK ==
  ASSUME IInv, KInv, MInv, IInv', KInv', NEW t \in Threads, Continue(t)
  PROVE  MInv'
<1>1. CASE Scan(t)
  BY <1>1, BeginScanOK, ScanNextOK, NextLeafOK, ScanEndOK DEF Scan
<1>2. CASE Insert(t)
  BY <1>2, InsertHereOK, InsertFullOK, LockRootOK, SplitChildOK, LockChildOK, InsertExclusiveOK
     DEF Insert
<1>3. CASE Race(t)
  <2>1. UNCHANGED <<nodes, free, pc, op, owed, load>>
    BY <1>3 DEF Race, userVars
  <2>2. MInv' /\ TreeMap' = TreeMap
    BY <2>1, IdleOK
  <2> QED
    BY <2>2
<1>4. CASE FixRoot(t) \/ Descend(t) \/ Lookup(t) \/ Erase(t) \/ Return(t)
  BY <1>4, FixRootOK, DescendOK, LookupOK, EraseOK, ReturnOK
<1> QED
  BY <1>1, <1>2, <1>3, <1>4 DEF Continue

LEMMA MapNext ==
  ASSUME MapInv, [Next]_vars
  PROVE  MapInv'
<1>1. IInv /\ KInv /\ MInv /\ IInv' /\ KInv'
  BY NextOK, NextKeeps DEF MapInv
<1>2. CASE Load
  BY <1>1, <1>2, LoadOK DEF MapInv
<1>3. ASSUME NEW t \in Threads, Call(t, "size", 0)
      PROVE  MInv'
  BY <1>1, <1>3, CallBeginsOK DEF Kinds
<1>4. ASSUME NEW t \in Threads, NEW kind \in Kinds \ {"size"}, NEW key \in Keys, Call(t, kind, key)
      PROVE  MInv'
  <2>1. key \in AllKeys /\ key \in Nat
    BY AllKeysAreNumbers DEF AllKeys
  <2> QED
    BY <1>1, <1>4, <2>1, CallBeginsOK
<1>5. ASSUME NEW t \in Threads, Continue(t)
      PROVE  MInv'
  BY <1>1, <1>5, ContinueOK
<1>6. ASSUME NEW t \in Threads, DropScan(t)
      PROVE  MInv'
  BY <1>1, <1>6, ScanEndOK
<1>7. CASE UNCHANGED vars
  <2>1. UNCHANGED <<nodes, free, pc, op, owed, load>>
    BY <1>7 DEF vars, userVars
  <2>2. MInv'
    BY <1>1, <2>1, IdleOK
  <2> QED
    BY <1>1, <2>2 DEF MapInv
<1> QED
  BY <1>1, <1>2, <1>3, <1>4, <1>5, <1>6, <1>7 DEF Next, MapInv

\* The inductive invariant of the calls: what a scan owes is in front of its iterator, in its
\* leaf or in a leaf behind it, whatever other threads insert, erase and split, and what the
\* iterator is at or behind is in the range and greater than what it has come to.
THEOREM CallsAreInductive == Spec => []MapInv
<1>1. Init => MapInv
  BY InitOK, KeysInit, MapInit DEF MapInv
<1>2. MapInv /\ [Next]_vars => MapInv'
  BY MapNext
<1> QED
  BY <1>1, <1>2, PTL DEF Spec

---------------------------------------------------------------------------
(* Calls, as the users of the map know them *)

CallsSeen == [t \in Threads |-> CallOf(t)]

\* A thread that is in a call.
LEMMA CallFields ==
  ASSUME IInv, NEW t \in Threads, op[t].kind # "none"
  PROVE  /\ CallsSeen[t] = CallOf(t) /\ CallOf(t) # Nil
         /\ CallOf(t) = [kind |-> op[t].kind, key |-> op[t].key,
                         value |-> IF op[t].kind = "insert" THEN Value(t, op[t].key) ELSE Nil,
                         returns |-> pc[t] = "done", result |-> op[t].result,
                         last |-> op[t].last, count |-> op[t].count, owed |-> owed[t]]
<1>1. op[t] \in Ops /\ owed[t] \in SUBSET Nat
  BY DEF IInv, TypeOK, OpsOK
<1>2. CallOf(t) = [kind |-> op[t].kind, key |-> op[t].key,
                   value |-> IF op[t].kind = "insert" THEN Value(t, op[t].key) ELSE Nil,
                   returns |-> pc[t] = "done", result |-> op[t].result,
                   last |-> op[t].last, count |-> op[t].count, owed |-> owed[t]]
  BY DEF CallOf
<1>3. Value(t, op[t].key) \in Values
  BY <1>1, ValueIsValue DEF Ops
<1>4. op[t].kind \in Kinds
  BY <1>1 DEF Ops
<1>5. CallOf(t) \in MapCalls
  BY <1>1, <1>2, <1>3, <1>4 DEF Ops, MapCalls
<1> QED
  BY <1>2, <1>5, NilAssumption DEF CallsSeen

\* A step in which only the call of thread t changes.
LEMMA OneCall ==
  ASSUME NEW t \in Threads, \A u \in Threads \ {t} : op'[u] = op[u] /\ pc'[u] = pc[u] /\ owed'[u] = owed[u]
  PROVE  CallsSeen' = [CallsSeen EXCEPT ![t] = CallOf(t)']
<1>1. \A u \in Threads \ {t} : CallOf(u)' = CallOf(u)
  BY DEF CallOf, Value
<1> QED
  BY <1>1 DEF CallsSeen

\* A call takes effect.
LEMMA CallCompletes ==
  ASSUME IInv, MInv, IInv', NEW t \in Threads, pc[t] \notin {"idle", "done"},
         NEW result, Finish(t, result), owed'[t] = {}
  PROVE  /\ CallOf(t)' = Map!Complete(CallOf(t), result)
         /\ op[t].kind # "none" /\ Map!Calls(t, op[t].kind)
<1>1. op \in [Threads -> Ops] /\ pc \in [Threads -> Labels]
  BY DEF IInv, TypeOK, OpsOK
<1>2. /\ pc'[t] = "done" /\ op'[t].kind = op[t].kind /\ op'[t].key = op[t].key
      /\ op'[t].last = op[t].last /\ op'[t].count = op[t].count /\ op'[t].result = result
  BY <1>1 DEF Finish, Goto, Ops
<1>3. op[t].kind # "none"
  BY DEF MInv, UserOK, CallOK
<1>4. /\ CallsSeen[t] = CallOf(t) /\ CallOf(t) # Nil
      /\ CallOf(t) = [kind |-> op[t].kind, key |-> op[t].key,
                      value |-> IF op[t].kind = "insert" THEN Value(t, op[t].key) ELSE Nil,
                      returns |-> pc[t] = "done", result |-> op[t].result,
                      last |-> op[t].last, count |-> op[t].count, owed |-> owed[t]]
  BY <1>3, CallFields
<1>5. CallOf(t)' = [kind |-> op[t].kind, key |-> op[t].key,
                    value |-> IF op[t].kind = "insert" THEN Value(t, op[t].key) ELSE Nil,
                    returns |-> TRUE, result |-> result,
                    last |-> op[t].last, count |-> op[t].count, owed |-> {}]
  BY <1>2, <1>3 DEF CallOf, Value
<1>6. CallOf(t)' = Map!Complete(CallOf(t), result)
  <2>1. PICK flag : flag = (pc[t] = "done")
    OBVIOUS
  <2>2. PICK c : c = CallOf(t)
    OBVIOUS
  <2>3. c = [kind |-> op[t].kind, key |-> op[t].key,
             value |-> IF op[t].kind = "insert" THEN Value(t, op[t].key) ELSE Nil,
             returns |-> flag, result |-> op[t].result,
             last |-> op[t].last, count |-> op[t].count, owed |-> owed[t]]
    BY <1>4, <2>1, <2>2, Zenon
  <2>4. Map!Complete(c, result) = [c EXCEPT !.returns = TRUE, !.result = result, !.owed = {}]
    BY DEF Map!Complete
  <2>5. CallOf(t)' = Map!Complete(c, result)
    BY <1>5, <2>3, <2>4
  <2> QED
    BY <2>2, <2>5
<1>7. Map!Calls(t, op[t].kind)
  <2>0. PICK flag : flag = (pc[t] = "done")
    OBVIOUS
  <2>1. CallOf(t).returns = flag /\ CallOf(t).kind = op[t].kind
    <3>1. CallOf(t) = [kind |-> op[t].kind, key |-> op[t].key,
                       value |-> IF op[t].kind = "insert" THEN Value(t, op[t].key) ELSE Nil,
                       returns |-> flag, result |-> op[t].result,
                       last |-> op[t].last, count |-> op[t].count, owed |-> owed[t]]
      BY <1>4, <2>0, Zenon
    <3> QED
      BY <3>1
  <2>2. CallsSeen[t] # Nil /\ ~CallsSeen[t].returns /\ CallsSeen[t].kind = op[t].kind
    BY <1>4, <2>0, <2>1
  <2>3. Map!Calls(t, op[t].kind)
          <=> (CallsSeen[t] # Nil /\ ~CallsSeen[t].returns /\ CallsSeen[t].kind = op[t].kind)
    BY DEF Map!Calls, CallsSeen
  <2> QED
    BY <2>2, <2>3
<1> QED
  BY <1>3, <1>6, <1>7

---------------------------------------------------------------------------
(* The steps that the users of the map do not see *)

\* What is the same in the call of a thread that goes on.
SameCall(t) ==
  /\ op'[t].kind = op[t].kind /\ op'[t].key = op[t].key /\ op'[t].last = op[t].last
  /\ op'[t].count = op[t].count /\ op'[t].result = op[t].result
  /\ pc[t] # "done" /\ pc'[t] # "done" /\ owed' = owed
  /\ \A u \in Threads \ {t} : op'[u] = op[u] /\ pc'[u] = pc[u]

LEMMA CallStays ==
  ASSUME NEW t \in Threads, SameCall(t)
  PROVE  CallsSeen' = CallsSeen
<1>1. CallOf(t)' = CallOf(t)
  BY DEF SameCall, CallOf, Value
<1>2. \A u \in Threads \ {t} : CallOf(u)' = CallOf(u)
  BY DEF SameCall, CallOf, Value
<1> QED
  BY <1>1, <1>2 DEF CallsSeen

Unseen == TreeMap' = TreeMap /\ CallsSeen' = CallsSeen

LEMMA DescentUnseen ==
  ASSUME IInv, KInv, IInv', KInv', NEW t \in Threads,
         FixRoot(t) \/ Descend(t) \/ InsertFull(t) \/ LockChild(t)
  PROVE  Unseen
<1>1. op \in [Threads -> Ops] /\ pc \in [Threads -> Labels]
  BY DEF IInv, TypeOK, OpsOK
<1>2. nodes' = nodes /\ free' = free
  BY DEF FixRoot, Descend, InsertFull, LockChild
<1>3. SameEntries
  BY <1>2, EntriesStay
<1>4. CASE FixRoot(t)
  <2>1. SameCall(t)
    BY <1>1, <1>4 DEF FixRoot, Goto, SameCall, Ops
  <2> QED
    BY <1>3, <2>1, CallStays, MapStays DEF Unseen
<1>5. CASE Descend(t)
  <2>1. PICK child : op' = [op EXCEPT ![t].node = child]
    BY <1>5 DEF Descend
  <2>2. SameCall(t)
    BY <1>1, <1>5, <2>1 DEF Descend, SameCall, Ops
  <2> QED
    BY <1>3, <2>2, CallStays, MapStays DEF Unseen
<1>6. CASE InsertFull(t)
  <2>1. SameCall(t)
    BY <1>1, <1>6 DEF InsertFull, AtLeaf, Goto, SameCall, Ops
  <2> QED
    BY <1>3, <2>1, CallStays, MapStays DEF Unseen
<1>7. CASE LockChild(t)
  <2>1. \E parent, node : op' = [op EXCEPT ![t] = [@ EXCEPT !.parent = parent, !.dirtyParent = FALSE,
                                                           !.node = node]]
    <3>1. CASE nodes[op[t].node].leaf
      <4>1. op' = [op EXCEPT ![t] = [@ EXCEPT !.parent = NoPage, !.dirtyParent = FALSE]]
        BY <1>7, <3>1 DEF LockChild
      <4>2. [op[t] EXCEPT !.parent = NoPage, !.dirtyParent = FALSE]
              = [op[t] EXCEPT !.parent = NoPage, !.dirtyParent = FALSE, !.node = op[t].node]
        BY <1>1 DEF Ops
      <4> QED
        BY <4>1, <4>2
    <3>2. CASE ~nodes[op[t].node].leaf
      BY <1>7, <3>2 DEF LockChild
    <3> QED
      BY <3>1, <3>2
  <2>2. /\ pc[t] \in {"lockChild", "lockHalf"} /\ pc'[t] \in {"lockChild", "place"} /\ owed' = owed
        /\ \A u \in Threads \ {t} : pc'[u] = pc[u]
    BY <1>1, <1>7 DEF LockChild, Goto
  <2>3. SameCall(t)
    BY <1>1, <2>1, <2>2 DEF SameCall, Ops
  <2> QED
    BY <1>3, <2>3, CallStays, MapStays DEF Unseen
<1> QED
  BY <1>4, <1>5, <1>6, <1>7

\* A split moves entries, and loses none.
LEMMA SplitUnseen ==
  ASSUME IInv, KInv, MInv, IInv', KInv', NEW t \in Threads, LockRoot(t) \/ SplitChild(t)
  PROVE  Unseen
<1>1. op \in [Threads -> Ops]
  BY DEF IInv, OpsOK
<1>2. CASE LockRoot(t)
  <2>1. SameEntries
    BY <1>2, LockRootOK
  <2>2. PICK dirty, node :
          op' = [op EXCEPT ![t] = [@ EXCEPT !.parent = Root, !.dirtyParent = dirty, !.node = node]]
    BY <1>2 DEF LockRoot
  <2>3. /\ pc[t] = "lockRoot" /\ pc'[t] = "lockChild" /\ owed' = owed
        /\ \A u \in Threads \ {t} : op'[u] = op[u] /\ pc'[u] = pc[u]
    BY <1>2, RootLocked DEF LockRoot
  <2>4. SameCall(t)
    BY <1>1, <2>2, <2>3 DEF SameCall, Ops
  <2> QED
    BY <2>1, <2>4, CallStays, MapStays DEF Unseen
<1>3. CASE SplitChild(t)
  <2>1. SameEntries
    BY <1>3, ChildSplitEntries
  <2>2. PICK node : op' = [op EXCEPT ![t] = [@ EXCEPT !.dirtyParent = TRUE, !.node = node]]
    BY <1>3 DEF SplitChild, KInv
  <2>3. /\ pc[t] = "lockChild" /\ pc'[t] = "lockHalf" /\ owed' = owed
        /\ \A u \in Threads \ {t} : op'[u] = op[u] /\ pc'[u] = pc[u]
    BY <1>3, ChildTaken DEF SplitChild
  <2>4. SameCall(t)
    BY <1>1, <2>2, <2>3 DEF SameCall, Ops
  <2> QED
    BY <2>1, <2>4, CallStays, MapStays DEF Unseen
<1> QED
  BY <1>2, <1>3

\* A scan goes to its first leaf or to the next one.
LEMMA LeafUnseen ==
  ASSUME IInv, KInv, IInv', KInv', NEW t \in Threads, BeginScan(t) \/ NextLeaf(t)
  PROVE  Unseen
<1>1. op \in [Threads -> Ops] /\ pc \in [Threads -> Labels]
  BY DEF IInv, TypeOK, OpsOK
<1>2. nodes' = nodes /\ free' = free /\ owed' = owed /\ pc[t] \in {"descend", "next"}
  BY DEF BeginScan, NextLeaf, AtLeaf
<1>3. PICK page, index : AtEntry(t, page, index)
  BY DEF BeginScan, NextLeaf
<1>4. /\ op' = [op EXCEPT ![t] = [@ EXCEPT !.node = page, !.index = index]]
      /\ \E label \in {"scan", "next"} : pc' = [pc EXCEPT ![t] = label]
  BY <1>3 DEF AtEntry, Goto
<1>5. SameCall(t)
  BY <1>1, <1>2, <1>4 DEF SameCall, Ops
<1> QED
  BY <1>2, <1>5, EntriesStay, CallStays, MapStays DEF Unseen

\* Nothing happens but a data race or the end of a run.
LEMMA IdleUnseen ==
  ASSUME IInv, MInv, UNCHANGED <<nodes, free, pc, op, owed, load>>
  PROVE  Unseen
<1>1. TreeMap' = TreeMap
  BY IdleOK
<1>2. \A t \in Threads : CallOf(t)' = CallOf(t)
  BY DEF CallOf, Value
<1> QED
  BY <1>1, <1>2 DEF Unseen, CallsSeen

---------------------------------------------------------------------------
(* The steps that the users see: each is one step of the map *)

\* The fields of a call.
LEMMA CallParts ==
  ASSUME IInv, NEW t \in Threads, op[t].kind # "none"
  PROVE  /\ CallsSeen[t] = CallOf(t) /\ CallOf(t) # Nil
         /\ CallOf(t).kind = op[t].kind /\ CallOf(t).key = op[t].key
         /\ CallOf(t).value = IF op[t].kind = "insert" THEN Value(t, op[t].key) ELSE Nil
         /\ CallOf(t).returns <=> pc[t] = "done"
         /\ CallOf(t).last = op[t].last /\ CallOf(t).count = op[t].count
         /\ CallOf(t).owed = owed[t]
<1>1. /\ CallsSeen[t] = CallOf(t) /\ CallOf(t) # Nil
      /\ CallOf(t) = [kind |-> op[t].kind, key |-> op[t].key,
                      value |-> IF op[t].kind = "insert" THEN Value(t, op[t].key) ELSE Nil,
                      returns |-> pc[t] = "done", result |-> op[t].result,
                      last |-> op[t].last, count |-> op[t].count, owed |-> owed[t]]
  BY CallFields
<1>2. PICK flag : flag = (pc[t] = "done")
  OBVIOUS
<1>3. PICK value : value = IF op[t].kind = "insert" THEN Value(t, op[t].key) ELSE Nil
  OBVIOUS
<1>4. CallOf(t) = [kind |-> op[t].kind, key |-> op[t].key, value |-> value,
                   returns |-> flag, result |-> op[t].result,
                   last |-> op[t].last, count |-> op[t].count, owed |-> owed[t]]
  BY <1>1, <1>2, <1>3, Zenon
<1>5. CallsSeen[t] = CallOf(t) /\ CallOf(t) # Nil
  BY CallFields
<1>6. /\ CallOf(t).kind = op[t].kind /\ CallOf(t).key = op[t].key
      /\ CallOf(t).value = value /\ CallOf(t).returns = flag
      /\ CallOf(t).last = op[t].last /\ CallOf(t).count = op[t].count
      /\ CallOf(t).owed = owed[t]
  BY <1>4
<1> QED
  BY <1>2, <1>3, <1>5, <1>6

LEMMA CallsAre ==
  ASSUME IInv, NEW t \in Threads, op[t].kind # "none", pc[t] # "done"
  PROVE  Map!Calls(t, op[t].kind)
<1>1. /\ CallsSeen[t] = CallOf(t) /\ CallOf(t) # Nil
      /\ CallOf(t).kind = op[t].kind /\ ~CallOf(t).returns
  BY CallParts
<1>2. Map!Calls(t, op[t].kind)
        <=> (CallsSeen[t] # Nil /\ ~CallsSeen[t].returns /\ CallsSeen[t].kind = op[t].kind)
  BY DEF Map!Calls, CallsSeen
<1> QED
  BY <1>1, <1>2

\* An insertion into the leaf, with or without a split before it, is the moment of insert.
LEMMA InsertSeen ==
  ASSUME IInv, KInv, MInv, IInv', KInv', NEW t \in Threads, InsertHere(t) \/ InsertExclusive(t)
  PROVE  Map!Insert(t)
<1>1. /\ pc[t] \in {"descend", "place"} /\ Finish(t, Nil) /\ owed' = owed /\ op[t].kind = "insert"
      /\ TreeMap' = [TreeMap EXCEPT ![op[t].key] = Value(t, op[t].key)]
  <2>1. CASE InsertHere(t)
    <3>1. pc[t] = "descend" /\ Finish(t, Nil) /\ owed' = owed /\ op[t].kind = "insert"
      BY <2>1 DEF InsertHere, AtLeaf
    <3> QED
      BY <2>1, <3>1, InsertHereOK
  <2>2. CASE InsertExclusive(t)
    <3>1. pc[t] = "place" /\ owed' = owed
      BY <2>2 DEF InsertExclusive
    <3> QED
      BY <2>2, <3>1, InsertExclusiveOK, InsertExclusiveEntry
  <2> QED
    BY <2>1, <2>2
<1>2. owed'[t] = {}
  BY <1>1 DEF MInv, UserOK, OwedOK
<1>3. CallOf(t)' = Map!Complete(CallOf(t), Nil) /\ Map!Calls(t, "insert")
  BY <1>1, <1>2, CallCompletes
<1>4. \A u \in Threads \ {t} : op'[u] = op[u] /\ pc'[u] = pc[u] /\ owed'[u] = owed[u]
  BY <1>1 DEF Finish, Goto, IInv, TypeOK, OpsOK
<1>5. CallsSeen' = [CallsSeen EXCEPT ![t] = CallOf(t)']
  BY <1>4, OneCall
<1>6. /\ CallsSeen[t] = CallOf(t) /\ CallOf(t).key = op[t].key
      /\ CallOf(t).value = Value(t, op[t].key)
  BY <1>1, CallParts
<1>7. Map!Insert(t)
        <=> /\ Map!Calls(t, "insert")
            /\ TreeMap' = [TreeMap EXCEPT ![CallsSeen[t].key] = CallsSeen[t].value]
            /\ CallsSeen' = [CallsSeen EXCEPT ![t] = Map!Complete(CallsSeen[t], Nil)]
  BY DEF Map!Insert, CallsSeen
<1> QED
  BY <1>1, <1>3, <1>5, <1>6, <1>7

\* A lookup returns what is in the map at the moment it is in the leaf.
LEMMA LookupSeen ==
  ASSUME IInv, KInv, MInv, IInv', KInv', NEW t \in Threads, Lookup(t)
  PROVE  Map!Lookup(t)
<1> DEFINE value == TreeMap[op[t].key]
<1>1. /\ pc[t] = "descend" /\ op[t].kind = "lookup" /\ owed' = owed
      /\ nodes' = nodes /\ free' = free
  BY DEF Lookup, AtLeaf
<1>2. op[t].key \in AllKeys /\ owed'[t] = {}
  BY <1>1 DEF MInv, UserOK, CallOK, OwedOK
<1>3. Finish(t, IF value = Nil THEN Default ELSE value)
  BY <1>2, LookedUp
<1>4. PICK result : result = IF value = Nil THEN Default ELSE value
  OBVIOUS
<1>5. Finish(t, result)
  BY <1>3, <1>4
<1>6. CallOf(t)' = Map!Complete(CallOf(t), result) /\ Map!Calls(t, "lookup")
  BY <1>1, <1>2, <1>5, CallCompletes
<1>7. \A u \in Threads \ {t} : op'[u] = op[u] /\ pc'[u] = pc[u] /\ owed'[u] = owed[u]
  BY <1>1, <1>5 DEF Finish, Goto, IInv, TypeOK, OpsOK
<1>8. CallsSeen' = [CallsSeen EXCEPT ![t] = CallOf(t)']
  BY <1>7, OneCall
<1>9. CallsSeen[t] = CallOf(t) /\ CallOf(t).key = op[t].key
  BY <1>1, CallParts
<1>10. TreeMap' = TreeMap
  BY <1>1, EntriesStay, MapStays
<1>11. Map!Lookup(t)
         <=> /\ Map!Calls(t, "lookup")
             /\ CallsSeen' = [CallsSeen EXCEPT ![t] =
                                Map!Complete(CallsSeen[t],
                                             IF TreeMap[CallsSeen[t].key] = Nil THEN Default
                                             ELSE TreeMap[CallsSeen[t].key])]
             /\ TreeMap' = TreeMap
  BY DEF Map!Lookup, CallsSeen
<1> QED
  BY <1>4, <1>6, <1>8, <1>9, <1>10, <1>11

\* The end of a scan: it has come to all that it owes, and returns what it has counted.
LEMMA EndScanSeen ==
  ASSUME IInv, KInv, MInv, IInv', KInv', NEW t \in Threads, EndScan(t)
  PROVE  Map!ScanEnd(t)
<1>1. /\ pc[t] = "next" /\ Finish(t, op[t].count) /\ owed' = [owed EXCEPT ![t] = {}]
      /\ nodes' = nodes /\ free' = free
  BY DEF EndScan
<1>2. op[t].kind \in {"range", "size"} /\ owed[t] = {}
  BY <1>1, NothingOwed DEF MInv, UserOK, CallOK
<1>3. owed'[t] = {} /\ \A u \in Threads \ {t} : owed'[u] = owed[u]
  BY <1>1 DEF IInv, TypeOK
<1>4. PICK result : result = op[t].count
  OBVIOUS
<1>5. Finish(t, result)
  BY <1>1, <1>4
<1>6. CallOf(t)' = Map!Complete(CallOf(t), result) /\ Map!Calls(t, op[t].kind)
  BY <1>1, <1>3, <1>5, CallCompletes
<1>7. \A u \in Threads \ {t} : op'[u] = op[u] /\ pc'[u] = pc[u]
  BY <1>5 DEF Finish, Goto, IInv, TypeOK, OpsOK
<1>8. CallsSeen' = [CallsSeen EXCEPT ![t] = CallOf(t)']
  BY <1>3, <1>7, OneCall
<1>9. CallsSeen[t] = CallOf(t) /\ CallOf(t).count = op[t].count /\ CallOf(t).owed = owed[t]
  BY <1>2, CallParts
<1>10. TreeMap' = TreeMap
  BY <1>1, EntriesStay, MapStays
<1>11. Map!ScanEnd(t)
         <=> /\ Map!Calls(t, "range") \/ Map!Calls(t, "size")
             /\ CallsSeen[t].owed = {}
             /\ CallsSeen' = [CallsSeen EXCEPT ![t] = Map!Complete(CallsSeen[t], CallsSeen[t].count)]
             /\ TreeMap' = TreeMap
  BY DEF Map!ScanEnd, Map!Scans, CallsSeen
<1> QED
  BY <1>2, <1>4, <1>6, <1>8, <1>9, <1>10, <1>11

LEMMA DropScanSeen ==
  ASSUME IInv, KInv, MInv, IInv', KInv', NEW t \in Threads, DropScan(t)
  PROVE  Map!ScanDrop(t)
<1>1. /\ pc[t] = "scan" /\ op[t].kind = "range" /\ Finish(t, Nil)
      /\ owed' = [owed EXCEPT ![t] = {}] /\ nodes' = nodes /\ free' = free
  BY DEF DropScan
<1>2. owed'[t] = {} /\ \A u \in Threads \ {t} : owed'[u] = owed[u]
  BY <1>1 DEF IInv, TypeOK
<1>3. CallOf(t)' = Map!Complete(CallOf(t), Nil) /\ Map!Calls(t, "range")
  BY <1>1, <1>2, CallCompletes
<1>4. \A u \in Threads \ {t} : op'[u] = op[u] /\ pc'[u] = pc[u]
  BY <1>1 DEF Finish, Goto, IInv, TypeOK, OpsOK
<1>5. CallsSeen' = [CallsSeen EXCEPT ![t] = CallOf(t)']
  BY <1>2, <1>4, OneCall
<1>6. CallsSeen[t] = CallOf(t)
  BY <1>1, CallParts
<1>7. TreeMap' = TreeMap
  BY <1>1, EntriesStay, MapStays
<1>8. Map!ScanDrop(t)
        <=> /\ Map!Calls(t, "range")
            /\ CallsSeen' = [CallsSeen EXCEPT ![t] = Map!Complete(CallsSeen[t], Nil)]
            /\ TreeMap' = TreeMap
  BY DEF Map!ScanDrop, CallsSeen
<1> QED
  BY <1>3, <1>5, <1>6, <1>7, <1>8

\* An erasure: the other threads' scans do not owe the key any more.
LEMMA EraseSeen ==
  ASSUME IInv, KInv, MInv, IInv', KInv', NEW t \in Threads, Erase(t)
  PROVE  Map!Erase(t)
<1>1. PICK key : key = op[t].key
  OBVIOUS
<1>2. /\ pc[t] = "descend" /\ op[t].kind = "erase" /\ key \in AllKeys /\ owed[t] = {}
      /\ TreeMap' = [TreeMap EXCEPT ![key] = Nil]
  BY <1>1, EraseOK DEF Erase, AtLeaf
<1>3. Finish(t, key \in TreeKeys) /\ owed' = [u \in Threads |-> owed[u] \ {key}]
  BY <1>1, ErasedEntry
<1>4. (key \in TreeKeys) = (TreeMap[key] # Nil)
  BY <1>2, InTheMap
<1>5. PICK result : result = (TreeMap[key] # Nil)
  OBVIOUS
<1>6. Finish(t, result) /\ owed'[t] = {}
  <2>1. result = (key \in TreeKeys)
    BY <1>4, <1>5, Zenon
  <2>2. Finish(t, result)
    BY <1>3, <2>1, Zenon
  <2> QED
    BY <1>2, <1>3, <2>2
<1>7. CallOf(t)' = Map!Complete(CallOf(t), result) /\ Map!Calls(t, "erase")
  BY <1>2, <1>6, CallCompletes
<1>8. CallsSeen[t] = CallOf(t) /\ CallOf(t).key = key
  BY <1>1, <1>2, CallParts
<1>9. ASSUME NEW u \in Threads \ {t}
      PROVE  CallsSeen'[u] = IF CallsSeen[u] = Nil THEN Nil
                             ELSE [CallsSeen[u] EXCEPT !.owed = CallsSeen[u].owed \ {key}]
  <2>1. op'[u] = op[u] /\ pc'[u] = pc[u] /\ owed'[u] = owed[u] \ {key}
    BY <1>3, <1>6 DEF Finish, Goto, IInv, TypeOK, OpsOK
  <2>2. CASE op[u].kind = "none"
    BY <2>1, <2>2 DEF CallsSeen, CallOf
  <2>3. CASE op[u].kind # "none"
    <3>1. PICK flag : flag = (pc[u] = "done")
      OBVIOUS
    <3>2. PICK value : value = IF op[u].kind = "insert" THEN Value(u, op[u].key) ELSE Nil
      OBVIOUS
    <3>3. CallOf(u) = [kind |-> op[u].kind, key |-> op[u].key, value |-> value,
                       returns |-> flag, result |-> op[u].result,
                       last |-> op[u].last, count |-> op[u].count, owed |-> owed[u]]
      BY <2>3, <3>1, <3>2, Zenon DEF CallOf
    <3>4. flag = (pc'[u] = "done")
      BY <2>1, <3>1
    <3>5. value = IF op'[u].kind = "insert" THEN Value(u, op'[u].key) ELSE Nil
      BY <2>1, <3>2
    <3>6. op'[u].kind # "none"
      BY <2>1, <2>3
    <3>7. CallOf(u)' = [kind |-> op'[u].kind, key |-> op'[u].key, value |-> value,
                        returns |-> flag, result |-> op'[u].result,
                        last |-> op'[u].last, count |-> op'[u].count, owed |-> owed'[u]]
      BY <3>4, <3>5, <3>6, Zenon DEF CallOf, Value
    <3>8. CallOf(u)' = [CallOf(u) EXCEPT !.owed = owed[u] \ {key}] /\ CallOf(u).owed = owed[u]
      BY <2>1, <3>3, <3>7
    <3>9. CallsSeen[u] = CallOf(u) /\ CallOf(u) # Nil /\ CallsSeen'[u] = CallOf(u)'
      BY <2>3, CallParts DEF CallsSeen
    <3> QED
      BY <3>8, <3>9
  <2> QED
    BY <2>2, <2>3
<1>10. CallsSeen'[t] = Map!Complete(CallsSeen[t], TreeMap[CallsSeen[t].key] # Nil)
  <2>1. CallsSeen'[t] = CallOf(t)'
    BY DEF CallsSeen
  <2>2. CallsSeen'[t] = Map!Complete(CallsSeen[t], result)
    BY <1>7, <1>8, <2>1
  <2>3. result = (TreeMap[CallsSeen[t].key] # Nil)
    BY <1>5, <1>8
  <2> QED
    BY <2>2, <2>3, Zenon
<1>11. CallsSeen' = [u \in Threads |->
                       IF u = t THEN Map!Complete(CallsSeen[t], TreeMap[CallsSeen[t].key] # Nil)
                       ELSE IF CallsSeen[u] = Nil THEN Nil
                            ELSE [CallsSeen[u] EXCEPT !.owed = @ \ {CallsSeen[t].key}]]
  <2>1. CallsSeen' = [u \in Threads |-> CallsSeen'[u]]
    BY DEF CallsSeen
  <2>2. PICK c : c = Map!Complete(CallsSeen[t], TreeMap[CallsSeen[t].key] # Nil)
    OBVIOUS
  <2>3. CallsSeen'[t] = c /\ CallsSeen[t].key = key
    BY <1>8, <1>10, <2>2, Zenon
  <2>4. CallsSeen' = [u \in Threads |->
                       IF u = t THEN c
                       ELSE IF CallsSeen[u] = Nil THEN Nil
                            ELSE [CallsSeen[u] EXCEPT !.owed = @ \ {CallsSeen[t].key}]]
    BY <1>9, <2>1, <2>3
  <2> QED
    BY <2>2, <2>4, Zenon
<1>12. Map!Erase(t)
         <=> /\ Map!Calls(t, "erase")
             /\ TreeMap' = [TreeMap EXCEPT ![CallsSeen[t].key] = Nil]
             /\ CallsSeen' = [u \in Threads |->
                  IF u = t THEN Map!Complete(CallsSeen[t], TreeMap[CallsSeen[t].key] # Nil)
                  ELSE IF CallsSeen[u] = Nil THEN Nil
                       ELSE [CallsSeen[u] EXCEPT !.owed = @ \ {CallsSeen[t].key}]]
  BY DEF Map!Erase, CallsSeen
<1> QED
  BY <1>2, <1>7, <1>8, <1>11, <1>12

\* A scan comes to its next entry.
LEMMA ScanNextSeen ==
  ASSUME IInv, KInv, MInv, IInv', KInv', NEW t \in Threads, ScanNext(t)
  PROVE  \E k \in AllKeys : Map!ScanNext(t, k)
<1>1. /\ pc[t] = "scan" /\ nodes' = nodes /\ free' = free
  BY DEF ScanNext
<1>2. PICK page, i : page = op[t].node /\ i = op[t].index + 1
  OBVIOUS
<1>3. PICK key, value : key = nodes[page].keys[i] /\ value = nodes[page].values[i]
  OBVIOUS
<1>4. ComesTo(t, key, value)
  BY <1>1, <1>2, <1>3, ScanComesTo
<1>5. /\ key \in AllKeys /\ TreeMap[key] = value /\ value # Nil
      /\ op[t].last # Nil => op[t].last.key < key
      /\ op[t].kind = "range" => op[t].key <= key
      /\ \A k \in owed[t] : key <= k
  BY <1>4 DEF ComesTo
<1>6. /\ op \in [Threads -> Ops] /\ pc \in [Threads -> Labels] /\ owed \in [Threads -> SUBSET Nat]
  BY DEF IInv, TypeOK, OpsOK
<1>7. PICK entry : entry = [key |-> key, value |-> value]
  OBVIOUS
<1>8. /\ op' = [op EXCEPT ![t] = [@ EXCEPT !.index = i, !.count = op[t].count + 1, !.last = entry]]
      /\ \E label \in {"scan", "next"} : pc' = [pc EXCEPT ![t] = label]
      /\ owed' = [owed EXCEPT ![t] = @ \ {key}]
  BY <1>2, <1>3, <1>7 DEF ScanNext, Node, Goto
<1>9. /\ op'[t].kind = op[t].kind /\ op'[t].key = op[t].key /\ op'[t].last = entry
      /\ op'[t].count = op[t].count + 1 /\ op'[t].result = op[t].result
      /\ owed'[t] = owed[t] \ {key} /\ pc'[t] # "done"
      /\ \A u \in Threads \ {t} : op'[u] = op[u] /\ pc'[u] = pc[u] /\ owed'[u] = owed[u]
  BY <1>6, <1>8 DEF Ops
<1>10. op[t].kind \in {"range", "size"}
  BY <1>1 DEF MInv, UserOK, CallOK
<1>11. /\ CallsSeen[t] = CallOf(t) /\ CallOf(t) # Nil
       /\ CallOf(t).kind = op[t].kind /\ CallOf(t).key = op[t].key
       /\ CallOf(t).last = op[t].last /\ CallOf(t).count = op[t].count
       /\ CallOf(t).owed = owed[t]
  BY <1>10, CallParts
<1>12. Map!Calls(t, op[t].kind)
  BY <1>1, <1>10, CallsAre
<1>13. CallOf(t)' = [CallOf(t) EXCEPT !.last = entry, !.count = op[t].count + 1,
                                      !.owed = owed[t] \ {key}]
  <2>1. PICK flag : flag = FALSE
    OBVIOUS
  <2>2. PICK c, count, rest : c = CallOf(t) /\ count = op[t].count + 1 /\ rest = owed[t] \ {key}
    OBVIOUS
  <2>3. (pc[t] = "done") = flag /\ (pc'[t] = "done") = flag
    BY <1>1, <1>9, <2>1
  <2>4. CallOf(t) = [kind |-> op[t].kind, key |-> op[t].key, value |-> Nil,
                     returns |-> flag, result |-> op[t].result,
                     last |-> op[t].last, count |-> op[t].count, owed |-> owed[t]]
    <3>1. op[t].kind # "none" /\ op[t].kind # "insert"
      BY <1>10
    <3> QED
      BY <2>3, <3>1, Zenon DEF CallOf
  <2>5. CallOf(t)' = [kind |-> op[t].kind, key |-> op[t].key, value |-> Nil,
                      returns |-> flag, result |-> op[t].result,
                      last |-> entry, count |-> count, owed |-> rest]
    <3>1. op'[t].kind # "none" /\ op'[t].kind # "insert"
      BY <1>9, <1>10
    <3>2. CallOf(t)' = [kind |-> op'[t].kind, key |-> op'[t].key, value |-> Nil,
                        returns |-> flag, result |-> op'[t].result,
                        last |-> op'[t].last, count |-> op'[t].count, owed |-> owed'[t]]
      BY <2>3, <3>1, Zenon DEF CallOf
    <3> QED
      BY <1>9, <2>2, <3>2
  <2>6. CallOf(t)' = [c EXCEPT !.last = entry, !.count = count, !.owed = rest]
    <3>1. c = [kind |-> op[t].kind, key |-> op[t].key, value |-> Nil,
               returns |-> flag, result |-> op[t].result,
               last |-> op[t].last, count |-> op[t].count, owed |-> owed[t]]
      BY <2>2, <2>4
    <3>2. PICK d : d = [c EXCEPT !.last = entry, !.count = count, !.owed = rest]
      OBVIOUS
    <3>3. d = [kind |-> op[t].kind, key |-> op[t].key, value |-> Nil,
               returns |-> flag, result |-> op[t].result,
               last |-> entry, count |-> count, owed |-> rest]
      BY <3>1, <3>2
    <3> QED
      BY <2>5, <3>2, <3>3
  <2> QED
    BY <2>2, <2>6
<1>14. CallsSeen' = [CallsSeen EXCEPT ![t] = CallOf(t)']
  BY <1>9, OneCall
<1>15. TreeMap' = TreeMap
  BY <1>1, EntriesStay, MapStays
<1>16. CallsSeen' = [CallsSeen EXCEPT ![t] =
                       [CallsSeen[t] EXCEPT !.last = [key |-> key, value |-> TreeMap[key]],
                                            !.count = CallsSeen[t].count + 1,
                                            !.owed = CallsSeen[t].owed \ {key}]]
  BY <1>5, <1>7, <1>11, <1>13, <1>14
<1>17. Map!ScanNext(t, key)
         <=> /\ Map!Calls(t, "range") \/ Map!Calls(t, "size")
             /\ CallsSeen[t].kind = "range" => key >= CallsSeen[t].key
             /\ TreeMap[key] # Nil
             /\ CallsSeen[t].last # Nil => key > CallsSeen[t].last.key
             /\ \A k \in CallsSeen[t].owed : k >= key
             /\ CallsSeen' = [CallsSeen EXCEPT ![t].last = [key |-> key, value |-> TreeMap[key]],
                                               ![t].count = @ + 1, ![t].owed = @ \ {key}]
             /\ TreeMap' = TreeMap
  BY DEF Map!ScanNext, Map!Scans, CallsSeen
<1>18. [CallsSeen EXCEPT ![t].last = [key |-> key, value |-> TreeMap[key]],
                         ![t].count = @ + 1, ![t].owed = @ \ {key}]
         = [CallsSeen EXCEPT ![t] =
              [CallsSeen[t] EXCEPT !.last = [key |-> key, value |-> TreeMap[key]],
                                   !.count = CallsSeen[t].count + 1,
                                   !.owed = CallsSeen[t].owed \ {key}]]
  BY DEF CallsSeen
<1>19. /\ Map!Calls(t, "range") \/ Map!Calls(t, "size")
       /\ CallsSeen[t].kind = "range" => key >= CallsSeen[t].key
       /\ TreeMap[key] # Nil
       /\ CallsSeen[t].last # Nil => key > CallsSeen[t].last.key
       /\ \A k \in CallsSeen[t].owed : k >= key
  BY <1>5, <1>10, <1>11, <1>12
<1>20. Map!ScanNext(t, key)
  BY <1>15, <1>16, <1>17, <1>18, <1>19
<1> QED
  BY <1>5, <1>20

\* A call: a scan owes what is in the map now.
LEMMA BeginSeen ==
  ASSUME IInv, KInv, MInv, IInv', KInv', NEW t \in Threads, NEW kind \in Kinds, NEW key \in Nat,
         Begin(t, kind, key), NEW value, value = IF kind = "insert" THEN <<key, t>> ELSE Nil
  PROVE  Map!Call(t, kind, key, value)
<1> DEFINE ahead == {k \in AllKeys : /\ TreeMap[k] # Nil
                                     /\ kind = "size" \/ (kind = "range" /\ k >= key)}
<1>1. op \in [Threads -> Ops] /\ pc \in [Threads -> Labels] /\ owed \in [Threads -> SUBSET Nat]
  BY DEF IInv, TypeOK, OpsOK
<1>2. /\ nodes' = nodes /\ free' = free /\ pc[t] = "idle" /\ pc'[t] = "start"
      /\ op'[t] = [NoOp EXCEPT !.kind = kind, !.key = key]
      /\ owed'[t] = {k \in TreeKeys : kind = "size" \/ (kind = "range" /\ k >= key)}
      /\ \A u \in Threads \ {t} : op'[u] = op[u] /\ pc'[u] = pc[u] /\ owed'[u] = owed[u]
  BY <1>1 DEF Begin
<1>3. owed'[t] = ahead
  BY <1>2, InTheMap DEF MInv, KeysKnown
<1>4. /\ op'[t].kind = kind /\ op'[t].key = key /\ op'[t].last = Nil
      /\ op'[t].count = 0 /\ op'[t].result = Nil
  BY <1>2 DEF NoOp
<1>5. CallsSeen[t] = Nil
  BY <1>2 DEF MInv, UserOK, CallOK, CallsSeen, CallOf
<1>6. CallsSeen' = [CallsSeen EXCEPT ![t] = CallOf(t)']
  BY <1>2, OneCall
<1>7. PICK flag : flag = FALSE
  OBVIOUS
<1>8. CallOf(t)' = [kind |-> kind, key |-> key, value |-> value, returns |-> flag, result |-> Nil,
                    last |-> Nil, count |-> 0, owed |-> owed'[t]]
  <2>1. kind # "none" /\ (pc'[t] = "done") = flag
    BY <1>2, <1>7 DEF Kinds
  <2>2. value = IF op'[t].kind = "insert" THEN Value(t, op'[t].key) ELSE Nil
    BY <1>4 DEF Value
  <2>3. CallOf(t)' = [kind |-> op'[t].kind, key |-> op'[t].key, value |-> value,
                      returns |-> flag, result |-> op'[t].result,
                      last |-> op'[t].last, count |-> op'[t].count, owed |-> owed'[t]]
    BY <1>4, <2>1, <2>2, Zenon DEF CallOf, Value
  <2> QED
    BY <1>4, <2>3
<1>9. Map!NewCall(kind, key, value)
        = [kind |-> kind, key |-> key, value |-> value, returns |-> flag, result |-> Nil,
           last |-> Nil, count |-> 0, owed |-> ahead]
  BY <1>7, Zenon DEF Map!NewCall
<1>10. CallOf(t)' = Map!NewCall(kind, key, value)
  <2> HIDE DEF ahead
  <2> QED
    BY <1>3, <1>8, <1>9
<1>11. TreeMap' = TreeMap
  BY <1>2, EntriesStay, MapStays
<1>12. Map!Call(t, kind, key, value)
         <=> /\ CallsSeen[t] = Nil
             /\ CallsSeen' = [CallsSeen EXCEPT ![t] = Map!NewCall(kind, key, value)]
             /\ TreeMap' = TreeMap
  BY DEF Map!Call, CallsSeen
<1> QED
  BY <1>5, <1>6, <1>10, <1>11, <1>12

LEMMA ReturnSeen ==
  ASSUME IInv, KInv, MInv, IInv', KInv', NEW t \in Threads, Return(t)
  PROVE  Map!Return(t)
<1>1. /\ op \in [Threads -> Ops] /\ pc \in [Threads -> Labels]
  BY DEF IInv, TypeOK, OpsOK
<1>2. /\ nodes' = nodes /\ free' = free /\ pc[t] = "done" /\ op'[t] = NoOp /\ owed' = owed
      /\ \A u \in Threads \ {t} : op'[u] = op[u] /\ pc'[u] = pc[u]
  BY <1>1 DEF Return, Goto
<1>3. op[t].kind # "none"
  BY <1>2 DEF MInv, UserOK, CallOK
<1>4. CallsSeen[t] # Nil /\ CallsSeen[t].returns
  BY <1>2, <1>3, CallParts
<1>5. CallOf(t)' = Nil
  BY <1>2 DEF CallOf, NoOp
<1>6. CallsSeen' = [CallsSeen EXCEPT ![t] = CallOf(t)']
  BY <1>2, OneCall
<1>7. TreeMap' = TreeMap
  BY <1>2, EntriesStay, MapStays
<1>8. Map!Return(t)
        <=> /\ CallsSeen[t] # Nil /\ CallsSeen[t].returns
            /\ CallsSeen' = [CallsSeen EXCEPT ![t] = Nil]
            /\ TreeMap' = TreeMap
  BY DEF Map!Return, CallsSeen
<1> QED
  BY <1>4, <1>5, <1>6, <1>7, <1>8

\* A call of the users is one of the calls of the map.
LEMMA CallSeen ==
  ASSUME IInv, KInv, MInv, IInv', KInv', NEW t \in Threads, NEW kind \in Kinds, NEW key \in Nat,
         Begin(t, kind, key), IF kind = "size" THEN key = 0 ELSE key \in AllKeys
  PROVE  Map!Next
<1>1. PICK value : value = IF kind = "insert" THEN <<key, t>> ELSE Nil
  OBVIOUS
<1>2. Map!Call(t, kind, key, value)
  BY <1>1, BeginSeen
<1>3. CASE kind = "size"
  <2>1. Map!Call(t, "size", 0, Nil)
    BY <1>1, <1>2, <1>3
  <2> QED
    BY <2>1 DEF Map!Next
<1>4. CASE kind = "insert"
  <2>1. key \in AllKeys /\ Map!Call(t, "insert", key, <<key, t>>)
    BY <1>1, <1>2, <1>4
  <2> QED
    BY <2>1 DEF Map!Next
<1>5. CASE kind \in {"erase", "lookup", "range"}
  <2>1. key \in AllKeys /\ Map!Call(t, kind, key, Nil)
    BY <1>1, <1>2, <1>5
  <2> QED
    BY <1>5, <2>1 DEF Map!Next
<1> QED
  BY <1>3, <1>4, <1>5 DEF Kinds

LEMMA EmptyMap ==
  ASSUME Init
  PROVE  Map!Init
<1>1. IInv /\ KInv /\ TreeKeys = {}
  BY InitOK, KeysInit, MapInit
<1>2. \A k \in AllKeys : TreeMap[k] = Nil
  BY <1>1, InTheMap
<1>3. TreeMap = [k \in AllKeys |-> Nil]
  BY <1>2, MapIsFunction
<1>4. \A t \in Threads : CallOf(t) = Nil
  BY DEF Init, CallOf, NoOp
<1>5. [t \in Threads |-> CallOf(t)] = [t \in Threads |-> Nil]
  BY <1>4
<1> QED
  BY <1>3, <1>5 DEF Map!Init

LEMMA ContinueSeen ==
  ASSUME IInv, KInv, MInv, IInv', KInv', NEW t \in Threads, Continue(t)
  PROVE  Map!Next \/ Unseen
<1>1. CASE FixRoot(t) \/ Descend(t) \/ InsertFull(t) \/ LockChild(t)
  BY <1>1, DescentUnseen
<1>2. CASE LockRoot(t) \/ SplitChild(t)
  BY <1>2, SplitUnseen
<1>3. CASE BeginScan(t) \/ NextLeaf(t)
  BY <1>3, LeafUnseen
<1>4. CASE Race(t)
  <2>1. UNCHANGED <<nodes, free, pc, op, owed, load>>
    BY <1>4 DEF Race, userVars
  <2>2. Unseen
    BY <2>1, IdleUnseen
  <2> QED
    BY <2>2
<1>5. CASE InsertHere(t) \/ InsertExclusive(t)
  <2>1. Map!Insert(t)
    BY <1>5, InsertSeen
  <2> QED
    BY <2>1 DEF Map!Next
<1>6. CASE Erase(t)
  <2>1. Map!Erase(t)
    BY <1>6, EraseSeen
  <2> QED
    BY <2>1 DEF Map!Next
<1>7. CASE Lookup(t)
  <2>1. Map!Lookup(t)
    BY <1>7, LookupSeen
  <2> QED
    BY <2>1 DEF Map!Next
<1>8. CASE ScanNext(t)
  <2>1. \E k \in AllKeys : Map!ScanNext(t, k)
    BY <1>8, ScanNextSeen
  <2> QED
    BY <2>1 DEF Map!Next
<1>9. CASE EndScan(t)
  <2>1. Map!ScanEnd(t)
    BY <1>9, EndScanSeen
  <2> QED
    BY <2>1 DEF Map!Next
<1>10. CASE Return(t)
  <2>1. Map!Return(t)
    BY <1>10, ReturnSeen
  <2> QED
    BY <2>1 DEF Map!Next
<1> QED
  BY <1>1, <1>2, <1>3, <1>4, <1>5, <1>6, <1>7, <1>8, <1>9, <1>10 DEF Continue, Insert, Scan

\* The B+ tree is an ordered map (ImplementsOrderedMap), for lookups, changes and scans from
\* any number of threads, with any degrees: every insert, erase and lookup takes effect at one
\* moment between its call and its return, with the result that the map has for it then, and a
\* scan comes in order to every entry that is there from its beginning to its end, whatever
\* the other threads insert, erase and split meanwhile.
THEOREM TreeImplementsOrderedMap == Spec => ImplementsOrderedMap
<1>1. Init => Map!Init
  BY EmptyMap
<1>2. MapInv /\ [Next]_vars => [Map!Next]_(Map!mapVars)
  <2> SUFFICES ASSUME MapInv, [Next]_vars PROVE Map!Next \/ Unseen
    BY DEF Unseen, Map!mapVars, CallsSeen
  <2>1. IInv /\ KInv /\ MInv /\ IInv' /\ KInv'
    BY NextOK, NextKeeps DEF MapInv
  <2>2. CASE Load
    <3>1. /\ Loader \in Threads /\ Head(load) \in AllKeys
          /\ Begin(Loader, "insert", Head(load))
      BY <2>1, <2>2, LoadOK
    <3>2. Head(load) \in Nat /\ "insert" \in Kinds
      BY <3>1, AllKeysAreNumbers DEF Kinds
    <3> QED
      BY <2>1, <3>1, <3>2, CallSeen
  <2>3. ASSUME NEW t \in Threads, Call(t, "size", 0) PROVE Map!Next
    <3>1. Begin(t, "size", 0) /\ "size" \in Kinds
      BY <2>3 DEF Call, Kinds
    <3> QED
      BY <2>1, <3>1, CallSeen
  <2>4. ASSUME NEW t \in Threads, NEW kind \in Kinds \ {"size"}, NEW key \in Keys, Call(t, kind, key)
        PROVE  Map!Next
    <3>1. Begin(t, kind, key) /\ key \in AllKeys /\ key \in Nat
      BY <2>4, AllKeysAreNumbers DEF Call, AllKeys
    <3> QED
      BY <2>1, <3>1, CallSeen
  <2>5. ASSUME NEW t \in Threads, Continue(t) PROVE Map!Next \/ Unseen
    BY <2>1, <2>5, ContinueSeen
  <2>6. ASSUME NEW t \in Threads, DropScan(t) PROVE Map!Next
    <3>1. Map!ScanDrop(t)
      BY <2>1, <2>6, DropScanSeen
    <3> QED
      BY <3>1 DEF Map!Next
  <2>7. CASE UNCHANGED vars
    <3>1. UNCHANGED <<nodes, free, pc, op, owed, load>>
      BY <2>7 DEF vars, userVars
    <3>2. Unseen
      BY <2>1, <3>1, IdleUnseen
    <3> QED
      BY <3>2
  <2> QED
    BY <2>2, <2>3, <2>4, <2>5, <2>6, <2>7 DEF Next
<1> QED
  BY <1>1, <1>2, CallsAreInductive, PTL DEF Spec, Map!Spec, ImplementsOrderedMap
=============================================================================
