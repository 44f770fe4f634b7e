------------------------- MODULE BufferManagerProofs ------------------------
(***************************************************************************)
(* Proofs about BufferManager: its type invariant, and that a thread that  *)
(* has to evict a page always finds a node, whatever the numbers of        *)
(* threads, pages and slots, and however many pages a thread fixes.  As    *)
(* long as no thread evicts a page it has fixed for writing itself: the    *)
(* frames' locks do what fixPage relies on, pages stay while they are      *)
(* fixed, assertions hold, and the buffer manager implements PageStore.    *)
(***************************************************************************)
EXTENDS BufferManager, FiniteSetTheorems, TLAPS

---------------------------------------------------------------------------
(* The inductive invariant.  A thread at one of these labels ... *)

\* ... has a frame that it has not loaded its page into,
PreLoad == {"evict", "evictLookup", "evictLock", "clean", "evictDelete", "evictUnlock", "load"}

\* ... or has not queued,
Loading == PreLoad \cup {"newFrame"}

\* has taken a node,
HasNode == Loading \ {"evict"}

\* the frame of that node is in the table,
Evicting == {"evictLookup", "evictLock", "clean", "evictDelete"}

\* evictPage has looked it up.
HasVictim == {"evictLock", "clean", "evictDelete", "evictUnlock"}

LocalsOK ==
  \A t \in Threads :
    /\ pc[t] # "idle" => request[t] \in Requests
    /\ frame[t] \in IF pc[t] \in {"idle", "lookup"} THEN {Nil} ELSE Frames
    /\ pc[t] \in HasNode <=> node[t] # Nil
    /\ victim[t] = IF pc[t] \in HasVictim THEN node[t].frame ELSE Nil
    /\ pc[t] \in HasVictim \cup Evicting => node[t].frame \in Frames

\* A frame that is being loaded is in the table and in no queue; it has no slot until
\* its page is in the loader's, and one thread loads it.
LoadersOK ==
  \A t \in Threads : pc[t] \in Loading =>
    /\ table[PageOf(frame[t])] = frame[t]
    /\ queueState[frame[t]] = "none"
    /\ data[frame[t]] = IF pc[t] = "newFrame" THEN node[t].slot ELSE Nil
    /\ \A u \in Threads \ {t} : pc[u] \in Loading => frame[u] # frame[t]

\* A frame that is being evicted still is its page's frame.
EvictorsOK ==
  \A t \in Threads : pc[t] \in Evicting => NodeIsCurrent(node[t], "none")

SlotsOf(q) == {n.slot : n \in Range(q)}

Distinct(q) == \A i, j \in DOMAIN q : q[i].slot = q[j].slot => i = j

\* No slot is in two places ...
SlotsApart ==
  /\ Distinct(fifo)
  /\ Distinct(lru)
  /\ SlotsOf(fifo) \cap SlotsOf(lru) = {}
  /\ \A t \in Threads : node[t] # Nil =>
       /\ node[t].slot \notin SlotsOf(fifo) \cup SlotsOf(lru)
       /\ \A u \in Threads \ {t} : node[u] # Nil => node[u].slot # node[t].slot

\* ... and each is in one.
SlotsKept ==
  \A s \in Slots : \/ s \in SlotsOf(fifo)
                  \/ s \in SlotsOf(lru)
                  \/ \E t \in Threads : node[t] # Nil /\ node[t].slot = s

\* A frame somebody points to has a slot unless it is being loaded.
DataOK ==
  \A f \in Frames \cap Referenced :
    data[f] \in Slots \/ \E t \in Threads : pc[t] \in PreLoad /\ frame[t] = f

IInv ==
  /\ TypeOK
  /\ LocalsOK
  /\ LoadersOK
  /\ EvictorsOK
  /\ QueuedFramesAreCurrent
  /\ SlotsApart
  /\ SlotsKept
  /\ DataOK

---------------------------------------------------------------------------
(* Queues of nodes, and the slots they hold. *)

\* What a queue holds are nodes, and their slots.
LEMMA QueuedNodes ==
  ASSUME NEW q \in Seq(Nodes), NEW n \in Range(q)
  PROVE  n \in Nodes /\ n.slot \in SlotsOf(q)
BY DEF Range, SlotsOf

\* In a queue of distinct slots a node is known by its slot.
LEMMA NodeOfSlot ==
  ASSUME NEW q \in Seq(Nodes), Distinct(q), NEW m \in Range(q), NEW n \in Range(q),
         m.slot = n.slot
  PROVE  m = n
BY DEF Range, Distinct

\* evictFrame's pop_front: one node less, and its slot.
LEMMA PopFront ==
  ASSUME NEW q \in Seq(Nodes), q # <<>>, Distinct(q)
  PROVE  /\ Head(q) \in Range(q)
         /\ Tail(q) \in Seq(Nodes)
         /\ Distinct(Tail(q))
         /\ Range(Tail(q)) = Range(q) \ {Head(q)}
         /\ SlotsOf(Tail(q)) = SlotsOf(q) \ {Head(q).slot}
<1>1. Head(q) = q[1] /\ 1 \in DOMAIN q
  OBVIOUS
<1>2. /\ Tail(q) \in Seq(Nodes)
      /\ DOMAIN Tail(q) = 1 .. Len(q) - 1
      /\ \A i \in DOMAIN Tail(q) : i + 1 \in DOMAIN q /\ Tail(q)[i] = q[i + 1]
  OBVIOUS
<1>3. Distinct(Tail(q))
  BY <1>2 DEF Distinct
<1>4. Range(Tail(q)) = Range(q) \ {Head(q)}
  <2>1. ASSUME NEW n \in Range(Tail(q)) PROVE n \in Range(q) \ {Head(q)}
    BY <1>1, <1>2 DEF Range, Distinct
  <2>2. ASSUME NEW n \in Range(q) \ {Head(q)} PROVE n \in Range(Tail(q))
    <3>1. PICK i \in DOMAIN q : q[i] = n
      BY DEF Range
    <3>2. i - 1 \in DOMAIN Tail(q) /\ Tail(q)[i - 1] = n
      BY <1>1, <1>2, <3>1
    <3>3. QED
      BY <3>2 DEF Range
  <2>3. QED
    BY <2>1, <2>2
<1>5. Head(q) \in Range(q)
  BY <1>1 DEF Range
<1>6. SlotsOf(Tail(q)) = SlotsOf(q) \ {Head(q).slot}
  BY <1>4, <1>5, NodeOfSlot DEF SlotsOf
<1>7. QED
  BY <1>2, <1>3, <1>4, <1>5, <1>6

\* push_back of a node whose slot is not in the queue.
LEMMA PushBack ==
  ASSUME NEW q \in Seq(Nodes), NEW n \in Nodes, Distinct(q), n.slot \notin SlotsOf(q)
  PROVE  /\ Append(q, n) \in Seq(Nodes)
         /\ Distinct(Append(q, n))
         /\ Range(Append(q, n)) = Range(q) \cup {n}
         /\ SlotsOf(Append(q, n)) = SlotsOf(q) \cup {n.slot}
<1> DEFINE r == Append(q, n)
<1>1. /\ r \in Seq(Nodes)
      /\ DOMAIN r = 1 .. Len(q) + 1
      /\ DOMAIN q = 1 .. Len(q)
      /\ Len(q) \in Nat
      /\ r[Len(q) + 1] = n
      /\ \A i \in DOMAIN q : r[i] = q[i]
  OBVIOUS
<1> HIDE DEF r
<1>2. Range(r) = Range(q) \cup {n}
  <2>1. ASSUME NEW m \in Range(r) PROVE m \in Range(q) \cup {n}
    BY <1>1 DEF Range
  <2>2. ASSUME NEW m \in Range(q) PROVE m \in Range(r)
    BY <1>1 DEF Range
  <2>3. n \in Range(r)
    BY <1>1 DEF Range
  <2>4. QED
    BY <2>1, <2>2, <2>3
<1>3. ASSUME NEW i \in DOMAIN q PROVE q[i].slot # n.slot
  BY DEF SlotsOf, Range
<1>4. Distinct(r)
  BY <1>1, <1>3 DEF Distinct
<1>5. QED
  BY <1>1, <1>2, <1>4 DEF SlotsOf, r

\* The removal half of a splice.
LEMMA TakeOut ==
  ASSUME NEW q \in Seq(Nodes), NEW k \in DOMAIN q, Distinct(q)
  PROVE  /\ q[k] \in Range(q)
         /\ RemoveAt(q, k) \in Seq(Nodes)
         /\ Distinct(RemoveAt(q, k))
         /\ Range(RemoveAt(q, k)) = Range(q) \ {q[k]}
         /\ SlotsOf(RemoveAt(q, k)) = SlotsOf(q) \ {q[k].slot}
<1> DEFINE r == RemoveAt(q, k)
           before == SubSeq(q, 1, k - 1)
           after == SubSeq(q, k + 1, Len(q))
<1>1. /\ r \in Seq(Nodes)
      /\ Len(r) = Len(q) - 1
      /\ \A i \in 1 .. Len(q) - 1 : r[i] = IF i < k THEN q[i] ELSE q[i + 1]
  <2>1. /\ before \in Seq(Nodes)
        /\ Len(before) = k - 1
        /\ \A i \in 1 .. k - 1 : before[i] = q[i]
    OBVIOUS
  <2>2. /\ after \in Seq(Nodes)
        /\ Len(after) = Len(q) - k
        /\ \A i \in 1 .. Len(q) - k : after[i] = q[i + k]
    OBVIOUS
  <2>3. r = before \o after
    BY DEF RemoveAt
  <2> HIDE DEF before, after, r
  <2>4. QED
    BY <2>1, <2>2, <2>3
<1> HIDE DEF r
<1>2. /\ DOMAIN r = 1 .. Len(q) - 1
      /\ DOMAIN q = 1 .. Len(q)
      /\ Len(q) \in Nat
  BY <1>1
<1>3. Distinct(r)
  <2>1. ASSUME NEW i \in DOMAIN r, NEW j \in DOMAIN r, r[i].slot = r[j].slot PROVE i = j
    <3>1. PICK m, n : m = (IF i < k THEN i ELSE i + 1) /\ n = (IF j < k THEN j ELSE j + 1)
      OBVIOUS
    <3>2. /\ r[i] = q[m] /\ m \in DOMAIN q
          /\ r[j] = q[n] /\ n \in DOMAIN q
      BY <1>1, <1>2, <3>1
    <3>3. m = n
      BY <2>1, <3>2 DEF Distinct
    <3>4. QED
      BY <1>2, <3>1, <3>3
  <2>2. QED
    BY <2>1 DEF Distinct
<1>4. Range(r) = Range(q) \ {q[k]}
  <2>1. ASSUME NEW n \in Range(r) PROVE n \in Range(q) \ {q[k]}
    <3>1. PICK i \in DOMAIN r : r[i] = n
      BY DEF Range
    <3>2. CASE i < k
      BY <1>1, <1>2, <3>1, <3>2 DEF Range, Distinct
    <3>3. CASE i >= k
      <4>1. r[i] = q[i + 1] /\ i + 1 \in DOMAIN q /\ i + 1 # k
        BY <1>1, <1>2, <3>1, <3>3
      <4>2. q[i + 1] # q[k]
        BY <1>2, <4>1 DEF Distinct
      <4>3. QED
        BY <3>1, <4>1, <4>2 DEF Range
    <3>4. QED
      BY <1>2, <3>2, <3>3
  <2>2. ASSUME NEW n \in Range(q) \ {q[k]} PROVE n \in Range(r)
    <3>1. PICK i \in DOMAIN q : q[i] = n
      BY DEF Range
    <3>2. CASE i < k
      <4>1. i \in DOMAIN r /\ r[i] = n
        BY <1>1, <1>2, <3>1, <3>2
      <4>2. QED
        BY <4>1 DEF Range
    <3>3. CASE i > k
      <4>1. i - 1 \in DOMAIN r /\ r[i - 1] = n
        BY <1>1, <1>2, <3>1, <3>3
      <4>2. QED
        BY <4>1 DEF Range
    <3>4. QED
      BY <1>2, <3>1, <3>2, <3>3
  <2>3. QED
    BY <2>1, <2>2
<1>5. q[k] \in Range(q)
  BY DEF Range
<1>6. SlotsOf(r) = SlotsOf(q) \ {q[k].slot}
  BY <1>4, <1>5, NodeOfSlot DEF SlotsOf
<1>7. QED
  BY <1>1, <1>3, <1>4, <1>5, <1>6 DEF r

---------------------------------------------------------------------------
(* The operations of the replacement manager. *)

\* evictFrame takes one node out of the queues and changes nothing else in them.
LEMMA EvictFrameEffect ==
  ASSUME QueueTypeOK, QueuedFramesAreCurrent, SlotsApart, EvictFrame
  PROVE  /\ QueueTypeOK'
         /\ EvictionNode \in Range(fifo) \cup Range(lru)
         /\ EvictionNode \in Nodes
         /\ Range(fifo)' = Range(fifo) \ {EvictionNode}
         /\ Range(lru)' = Range(lru) \ {EvictionNode}
         /\ SlotsOf(fifo)' = SlotsOf(fifo) \ {EvictionNode.slot}
         /\ SlotsOf(lru)' = SlotsOf(lru) \ {EvictionNode.slot}
         /\ Distinct(fifo)' /\ Distinct(lru)'
<1> DEFINE n == EvictionNode
<1> USE DEF QueueTypeOK, SlotsApart
<1>1. CASE fifo = <<>>
  <2>1. lru # <<>> /\ n = Head(lru) /\ lru' = Tail(lru) /\ fifo' = fifo
    BY <1>1 DEF EvictFrame, EvictionQueue, EvictionNode
  <2>2. n \in Range(lru) /\ n \in Nodes /\ n.slot \in SlotsOf(lru)
    BY <2>1, PopFront, QueuedNodes
  <2>3. n.slot \notin SlotsOf(fifo) /\ n \notin Range(fifo)
    BY <2>2, QueuedNodes
  <2>4. queueState' \in [Frames -> {"none", "fifo", "lru"}]
    BY <2>2 DEF EvictFrame, InUse, Nodes
  <2>5. QED
    BY <2>1, <2>2, <2>3, <2>4, PopFront
<1>2. CASE fifo # <<>>
  <2>1. n = Head(fifo) /\ fifo' = Tail(fifo) /\ lru' = lru
    BY <1>2 DEF EvictFrame, EvictionQueue, EvictionNode
  <2>2. n \in Range(fifo) /\ n \in Nodes /\ n.slot \in SlotsOf(fifo)
    BY <1>2, <2>1, PopFront, QueuedNodes
  <2>3. n.slot \notin SlotsOf(lru) /\ n \notin Range(lru)
    BY <2>2, QueuedNodes
  <2>4. queueState' \in [Frames -> {"none", "fifo", "lru"}]
    BY <2>2 DEF EvictFrame, InUse, Nodes
  <2>5. QED
    BY <1>2, <2>1, <2>2, <2>3, <2>4, PopFront
<1>3. QED
  BY <1>1, <1>2

\* reprioritizeFrame moves one node from the queues to the back of lru: the queues
\* hold the same nodes, and a frame knows the queue of its node.
LEMMA ReprioritizeEffect ==
  ASSUME QueueTypeOK, QueuedFramesAreCurrent, SlotsApart,
         NEW f \in Frames, Reprioritize(f)
  PROVE  /\ QueueTypeOK'
         /\ Distinct(fifo)' /\ Distinct(lru)'
         /\ SlotsOf(fifo)' \cap SlotsOf(lru)' = {}
         /\ SlotsOf(fifo)' \cup SlotsOf(lru)' = SlotsOf(fifo) \cup SlotsOf(lru)
         /\ \A g \in Frames : queueState[g] = "none" => queueState'[g] = "none"
         /\ \A n \in Range(fifo)' :
              n \in Range(fifo) /\ (InUse(n) => queueState'[n.frame] = "fifo")
         /\ \A n \in Range(lru)' :
              /\ n \in Range(fifo) \cup Range(lru)
              /\ InUse(n) => queueState'[n.frame] = "lru"
<1> USE DEF QueueTypeOK, SlotsApart
<1>1. CASE queueState[f] = "fifo"
  <2>1. PICK i \in DOMAIN fifo : /\ fifo[i].frame = f
                                 /\ fifo' = RemoveAt(fifo, i)
                                 /\ lru' = Append(lru, fifo[i])
    BY <1>1 DEF Reprioritize
  <2> DEFINE m == fifo[i]
  <2>2. queueState' = [queueState EXCEPT ![f] = "lru"]
    BY <1>1 DEF Reprioritize
  <2>3. m \in Range(fifo) /\ m \in Nodes /\ m.slot \in SlotsOf(fifo) /\ m.frame = f
    BY <2>1, TakeOut, QueuedNodes
  <2>4. m.slot \notin SlotsOf(lru)
    BY <2>3
  <2>5. /\ fifo' \in Seq(Nodes)
        /\ Distinct(fifo')
        /\ Range(fifo') = Range(fifo) \ {m}
        /\ SlotsOf(fifo') = SlotsOf(fifo) \ {m.slot}
    BY <2>1, TakeOut
  <2>6. /\ lru' \in Seq(Nodes)
        /\ Distinct(lru')
        /\ Range(lru') = Range(lru) \cup {m}
        /\ SlotsOf(lru') = SlotsOf(lru) \cup {m.slot}
    BY <2>1, <2>3, <2>4, PushBack
  <2> HIDE DEF m
  <2>7. ASSUME NEW n \in Range(fifo'), InUse(n)
        PROVE  queueState'[n.frame] = "fifo"
    <3>1. n \in Range(fifo) /\ n # m /\ n \in Nodes
      BY <2>5, QueuedNodes
    <3>2. n.slot # m.slot
      BY <2>3, <3>1, NodeOfSlot
    <3>3. data[n.frame] = n.slot /\ data[f] = m.slot /\ queueState[n.frame] = "fifo"
      BY <2>3, <2>7, <3>1, NilAssumption DEF QueuedFramesAreCurrent, NodeIsCurrent, InUse
    <3>4. n.frame # f
      BY <3>2, <3>3
    <3>5. QED
      BY <2>2, <2>7, <3>1, <3>3, <3>4 DEF InUse, Nodes
  <2>8. ASSUME NEW n \in Range(lru'), InUse(n)
        PROVE  queueState'[n.frame] = "lru"
    <3>1. CASE n = m
      BY <2>2, <2>3, <3>1
    <3>2. CASE n \in Range(lru)
      <4>1. n \in Nodes /\ queueState[n.frame] = "lru"
        BY <2>8, <3>2, QueuedNodes DEF QueuedFramesAreCurrent, NodeIsCurrent
      <4>2. n.frame \in Frames /\ n.frame # f
        BY <1>1, <2>8, <4>1 DEF InUse, Nodes
      <4>3. QED
        BY <2>2, <4>1, <4>2
    <3>3. QED
      BY <2>6, <2>8, <3>1, <3>2
  <2>9. queueState' \in [Frames -> {"none", "fifo", "lru"}]
    BY <2>2
  <2>10. \A g \in Frames : queueState[g] = "none" => queueState'[g] = "none"
    BY <1>1, <2>2
  <2>11. QED
    BY <2>3, <2>4, <2>5, <2>6, <2>7, <2>8, <2>9, <2>10
<1>2. CASE queueState[f] = "lru"
  <2>1. PICK i \in DOMAIN lru : /\ lru[i].frame = f
                                /\ lru' = Append(RemoveAt(lru, i), lru[i])
    BY <1>2 DEF Reprioritize
  <2>2. fifo' = fifo /\ queueState' = queueState
    BY <1>2 DEF Reprioritize
  <2> DEFINE r == RemoveAt(lru, i)
             m == lru[i]
  <2>3. /\ m \in Range(lru) /\ m \in Nodes
        /\ r \in Seq(Nodes)
        /\ Distinct(r)
        /\ Range(r) = Range(lru) \ {m}
        /\ SlotsOf(r) = SlotsOf(lru) \ {m.slot}
        /\ m.slot \in SlotsOf(lru)
    BY TakeOut, QueuedNodes
  <2> HIDE DEF r, m
  <2>4. /\ lru' \in Seq(Nodes)
        /\ Distinct(lru')
        /\ Range(lru') = Range(lru)
        /\ SlotsOf(lru') = SlotsOf(lru)
    <3>1. lru' = Append(r, m)
      BY <2>1 DEF r, m
    <3>2. /\ Append(r, m) \in Seq(Nodes)
          /\ Distinct(Append(r, m))
          /\ Range(Append(r, m)) = Range(r) \cup {m}
          /\ SlotsOf(Append(r, m)) = SlotsOf(r) \cup {m.slot}
      BY <2>3, PushBack
    <3>3. QED
      BY <2>3, <3>1, <3>2
  <2>5. QED
    BY <2>2, <2>4 DEF QueuedFramesAreCurrent, NodeIsCurrent
<1>3. CASE queueState[f] = "none"
  <2>1. fifo' = fifo /\ lru' = lru /\ queueState' = queueState
    BY <1>3 DEF Reprioritize, queueVars
  <2>2. QED
    BY <2>1 DEF QueuedFramesAreCurrent, NodeIsCurrent
<1>4. QED
  BY <1>1, <1>2, <1>3

\* newFrame queues a node for a slot that no queue holds.
LEMMA NewFrameEffect ==
  ASSUME QueueTypeOK, SlotsApart, NEW f \in Frames, NewFrame(f),
         data[f] \in Slots, data[f] \notin SlotsOf(fifo)
  PROVE  /\ QueueTypeOK'
         /\ Distinct(fifo)'
         /\ Range(fifo)' = Range(fifo) \cup {[slot |-> data[f], frame |-> f]}
         /\ SlotsOf(fifo)' = SlotsOf(fifo) \cup {data[f]}
         /\ lru' = lru
         /\ queueState' = [queueState EXCEPT ![f] = "fifo"]
<1> DEFINE n == [slot |-> data[f], frame |-> f]
<1>1. n \in Nodes /\ n.slot = data[f]
  BY DEF Nodes
<1>2. fifo' = Append(fifo, n) /\ lru' = lru /\ queueState' = [queueState EXCEPT ![f] = "fifo"]
  BY DEF NewFrame
<1> HIDE DEF n
<1>3. QED
  BY <1>1, <1>2, PushBack DEF QueueTypeOK, SlotsApart, n

---------------------------------------------------------------------------
(* Every step keeps the invariant. *)

\* The slots stay where they are if queues and nodes do.
LEMMA SlotsUnmoved ==
  ASSUME SlotsApart, SlotsKept, UNCHANGED <<fifo, lru, node>>
  PROVE  SlotsApart' /\ SlotsKept'
BY DEF SlotsApart, SlotsKept

LEMMA ReferencedFrames ==
  ASSUME NEW f
  PROVE  f \in Referenced <=>
           \/ \E p \in Pages : table[p] = f
           \/ \E t \in Threads : f \in Fixed(t) \/ f = frame[t] \/ f = victim[t]
BY DEF Referenced

\* The frames pointed to keep their slots if no more of them are pointed to.
LEMMA DataKept ==
  ASSUME DataOK, Frames \cap Referenced' \subseteq Referenced,
         \A f \in Frames \cap Referenced' : data'[f] = data[f],
         \A t \in Threads : pc[t] \in PreLoad => pc'[t] \in PreLoad /\ frame'[t] = frame[t]
  PROVE  DataOK'
BY DEF DataOK

LEMMA FixPageStep ==
  ASSUME IInv, NEW t \in Threads, NEW p \in Pages, NEW ex \in BOOLEAN, FixPage(t, p, ex)
  PROVE  IInv'
<1> USE DEF IInv, FixPage, At, Goto, frameVars, lockVars, queueVars, storeVars, localVars, userVars
<1>1. TypeOK'
  BY DEF TypeOK, FrameTypeOK, QueueTypeOK, Labels, Requests
<1>2. LocalsOK'
  BY DEF LocalsOK, TypeOK, HasNode, HasVictim, Evicting, Loading, PreLoad, Requests
<1>3. LoadersOK' /\ EvictorsOK'
  BY DEF LoadersOK, EvictorsOK, NodeIsCurrent, InUse, TypeOK, Evicting, Loading, PreLoad
<1>4. QueuedFramesAreCurrent'
  BY DEF QueuedFramesAreCurrent, NodeIsCurrent, InUse
<1>5. SlotsApart' /\ SlotsKept'
  BY SlotsUnmoved
<1>6. DataOK'
  BY DEF DataOK, Referenced, Fixed, TypeOK, PreLoad
<1>7. QED
  BY <1>1, <1>2, <1>3, <1>4, <1>5, <1>6

LEMMA LookupHitStep ==
  ASSUME IInv, NEW t \in Threads, LookupHit(t)
  PROVE  IInv'
<1> USE DEF IInv, LookupHit, At, Goto, frameVars, lockVars, queueVars, storeVars, localVars, userVars
<1>1. table[request[t].page] \in Frames /\ request[t].page \in Pages
  BY DEF TypeOK, LocalsOK, Requests
<1>2. TypeOK'
  BY <1>1 DEF TypeOK, FrameTypeOK, QueueTypeOK, Labels
<1>3. LocalsOK'
  BY <1>1 DEF LocalsOK, TypeOK, HasNode, HasVictim, Evicting, Loading, PreLoad
<1>4. LoadersOK' /\ EvictorsOK'
  BY DEF LoadersOK, EvictorsOK, NodeIsCurrent, InUse, TypeOK, Evicting, Loading, PreLoad
<1>5. QueuedFramesAreCurrent'
  BY DEF QueuedFramesAreCurrent, NodeIsCurrent, InUse
<1>6. SlotsApart' /\ SlotsKept'
  BY SlotsUnmoved
<1>7. DataOK'
  <2>1. Referenced' \subseteq Referenced
    BY <1>1 DEF Referenced, Fixed, TypeOK
  <2>2. QED
    BY <2>1, DataKept DEF TypeOK, PreLoad
<1>8. QED
  BY <1>2, <1>3, <1>4, <1>5, <1>6, <1>7

LEMMA LookupMissStep ==
  ASSUME IInv, NEW t \in Threads, LookupMiss(t)
  PROVE  IInv'
<1> DEFINE p == request[t].page
           f == NewFrameOf(p)
<1> USE DEF IInv, At, Goto, frameVars, lockVars, queueVars, storeVars, localVars, userVars
<1>1. pc[t] = "lookup" /\ p \in Pages /\ table[p] = Nil
  BY DEF LookupMiss, TypeOK, LocalsOK, Requests
<1>2. f \in Frames /\ PageOf(f) = p /\ f \notin Referenced
  BY DEF LookupMiss, NewFrameOf, FreshFrames
<1>3. /\ state' = [state EXCEPT ![f] = "clean"]
      /\ data' = [data EXCEPT ![f] = Nil]
      /\ exclusive' = [exclusive EXCEPT ![f] = t]
      /\ sharers' = [sharers EXCEPT ![f] = {}]
      /\ queueState' = [queueState EXCEPT ![f] = "none"]
      /\ table' = [table EXCEPT ![p] = f]
      /\ frame' = [frame EXCEPT ![t] = f]
      /\ created' = [created EXCEPT ![t] = TRUE]
      /\ pc' = [pc EXCEPT ![t] = "evict"]
      /\ UNCHANGED <<fifo, lru, disk, mem, request, node, victim, readFix, writeFix, modified>>
  BY DEF LookupMiss, Construct, ConstructQueueState
<1> HIDE DEF p, f
<1>4. TypeOK'
  BY <1>1, <1>2, <1>3 DEF TypeOK, FrameTypeOK, QueueTypeOK, Labels
<1>5. LocalsOK'
  BY <1>1, <1>2, <1>3 DEF LocalsOK, TypeOK, HasNode, HasVictim, Evicting, Loading, PreLoad
<1>6. ASSUME NEW g \in Frames, table[PageOf(g)] = g
      PROVE  /\ g # f /\ PageOf(g) # p /\ table'[PageOf(g)] = g
             /\ data'[g] = data[g] /\ queueState'[g] = queueState[g]
  <2>1. PageOf(g) \in Pages
    BY DEF Frames, PageOf
  <2>2. g \in Referenced
    BY <1>6, <2>1 DEF Referenced
  <2>3. PageOf(g) # p
    BY <1>1, <1>6, NilAssumption
  <2>4. QED
    BY <1>2, <1>3, <1>6, <2>1, <2>2, <2>3 DEF TypeOK, FrameTypeOK, QueueTypeOK
<1>7. LoadersOK'
  <2>1. ASSUME NEW u \in Threads \ {t}, pc[u] \in Loading
        PROVE  frame[u] \in Frames /\ table[PageOf(frame[u])] = frame[u]
    BY <2>1 DEF LoadersOK, LocalsOK, Loading, PreLoad
  <2>2. ASSUME NEW u \in Threads \ {t}, pc[u] \in Loading
        PROVE  frame[u] # f
    BY <1>6, <2>1, <2>2
  <2>3. QED
    BY <1>1, <1>2, <1>3, <1>6, <2>1, <2>2
    DEF LoadersOK, TypeOK, FrameTypeOK, QueueTypeOK, Loading, PreLoad
<1>8. EvictorsOK'
  BY <1>1, <1>3, <1>6 DEF EvictorsOK, LocalsOK, NodeIsCurrent, InUse, TypeOK, Evicting
<1>9. QueuedFramesAreCurrent'
  <2>1. ASSUME NEW n \in Range(fifo) \cup Range(lru), InUse(n)
        PROVE  n.frame \in Frames /\ table[PageOf(n.frame)] = n.frame
    BY <2>1, QueuedNodes
    DEF QueuedFramesAreCurrent, NodeIsCurrent, InUse, TypeOK, QueueTypeOK, Nodes
  <2>2. ASSUME NEW n \in Range(fifo) \cup Range(lru), InUse(n)
        PROVE  /\ table'[PageOf(n.frame)] = table[PageOf(n.frame)]
               /\ data'[n.frame] = data[n.frame]
               /\ queueState'[n.frame] = queueState[n.frame]
    BY <1>6, <2>1, <2>2
  <2>3. QED
    BY <1>3, <2>2 DEF QueuedFramesAreCurrent, NodeIsCurrent, InUse
<1>10. SlotsApart' /\ SlotsKept'
  BY <1>3, SlotsUnmoved
<1>11. DataOK'
  <2>1. Referenced' \subseteq Referenced \cup {f}
    BY <1>1, <1>3 DEF Referenced, Fixed, TypeOK
  <2>2. \A u \in Threads : pc[u] \in PreLoad => pc'[u] \in PreLoad /\ frame'[u] = frame[u]
    BY <1>1, <1>3 DEF TypeOK, PreLoad
  <2>3. pc'[t] \in PreLoad /\ frame'[t] = f
    BY <1>3 DEF TypeOK, PreLoad
  <2>4. QED
    BY <1>3, <2>1, <2>2, <2>3 DEF DataOK, TypeOK, FrameTypeOK
<1>12. QED
  BY <1>4, <1>5, <1>7, <1>8, <1>9, <1>10, <1>11

LEMMA LoadStep ==
  ASSUME IInv, NEW t \in Threads, Load(t)
  PROVE  IInv'
<1> DEFINE f == frame[t]
           s == node[t].slot
<1> USE DEF IInv, At, Goto, frameVars, lockVars, queueVars, storeVars, localVars, userVars
<1>1. /\ pc[t] = "load"
      /\ data' = [data EXCEPT ![f] = s]
      /\ mem' = [mem EXCEPT ![s] = disk[PageOf(f)]]
      /\ pc' = [pc EXCEPT ![t] = "newFrame"]
      /\ UNCHANGED <<state, lockVars, queueVars, disk, table, localVars, userVars>>
  BY DEF Load
<1>2. /\ f \in Frames /\ PageOf(f) \in Pages
      /\ node[t] \in Nodes /\ s \in Slots
      /\ data[f] = Nil
  BY <1>1 DEF TypeOK, LocalsOK, LoadersOK, HasNode, Loading, PreLoad, Nodes, Frames, PageOf
<1>3. TypeOK'
  BY <1>1, <1>2 DEF TypeOK, FrameTypeOK, QueueTypeOK, Labels
<1>4. LocalsOK'
  BY <1>1 DEF LocalsOK, TypeOK, HasNode, HasVictim, Evicting, Loading, PreLoad
<1>5. LoadersOK'
  BY <1>1, <1>2 DEF LoadersOK, TypeOK, FrameTypeOK, LocalsOK, Loading, PreLoad
<1>6. ASSUME NEW g \in Frames, data[g] \in Slots
      PROVE  data'[g] = data[g]
  BY <1>1, <1>2, <1>6, NilAssumption DEF TypeOK, FrameTypeOK
<1>7. EvictorsOK'
  BY <1>1, <1>6
  DEF EvictorsOK, LocalsOK, NodeIsCurrent, InUse, TypeOK, Evicting, HasNode, Loading, PreLoad, Nodes
<1>8. QueuedFramesAreCurrent'
  <2>1. ASSUME NEW m \in Nodes, NEW where, NodeIsCurrent(m, where)
        PROVE  NodeIsCurrent(m, where)'
    <3>1. InUse(m) => m.frame \in Frames /\ m.slot \in Slots
      BY DEF InUse, Nodes
    <3>2. QED
      BY <1>1, <1>6, <2>1, <3>1 DEF NodeIsCurrent, InUse
  <2>2. fifo' = fifo /\ lru' = lru /\ fifo \in Seq(Nodes) /\ lru \in Seq(Nodes)
    BY <1>1 DEF TypeOK, QueueTypeOK
  <2>3. QED
    BY <2>1, <2>2, QueuedNodes DEF QueuedFramesAreCurrent
<1>9. SlotsApart' /\ SlotsKept'
  BY <1>1, SlotsUnmoved
<1>10. DataOK'
  <2>1. Referenced' = Referenced
    BY <1>1 DEF Referenced, Fixed
  <2>2. ASSUME NEW g \in Frames \cap Referenced
        PROVE  \/ data'[g] \in Slots
               \/ \E u \in Threads : pc'[u] \in PreLoad /\ frame'[u] = g
    <3>1. CASE g = f
      BY <1>1, <1>2, <3>1 DEF TypeOK, FrameTypeOK
    <3>2. CASE g # f
      BY <1>1, <1>6, <3>2 DEF DataOK, TypeOK
    <3>3. QED
      BY <3>1, <3>2
  <2>3. QED
    BY <2>1, <2>2 DEF DataOK
<1>11. QED
  BY <1>3, <1>4, <1>5, <1>7, <1>8, <1>9, <1>10

LEMMA EnqueueFrameStep ==
  ASSUME IInv, NEW t \in Threads, EnqueueFrame(t)
  PROVE  IInv'
<1> DEFINE f == frame[t]
           s == node[t].slot
<1> USE DEF IInv, At, Goto, frameVars, lockVars, queueVars, storeVars, localVars, userVars
<1>1. /\ pc[t] = "newFrame"
      /\ NewFrame(f)
      /\ node' = [node EXCEPT ![t] = Nil]
      /\ pc' = [pc EXCEPT ![t] = "loadUnlock"]
      /\ UNCHANGED <<frameVars, lockVars, storeVars, table, request, frame, created, victim, userVars>>
  BY DEF EnqueueFrame
<1>2. /\ f \in Frames
      /\ table[PageOf(f)] = f
      /\ queueState[f] = "none"
      /\ node[t] \in Nodes /\ node[t] # Nil /\ s \in Slots
      /\ data[f] = s
  BY <1>1 DEF TypeOK, LocalsOK, LoadersOK, HasNode, Loading, PreLoad, Nodes
<1>3. s \notin SlotsOf(fifo) /\ s \notin SlotsOf(lru)
  BY <1>2 DEF SlotsApart
<1> DEFINE n == [slot |-> s, frame |-> f]
<1>4. /\ QueueTypeOK'
      /\ Distinct(fifo)'
      /\ Range(fifo)' = Range(fifo) \cup {n}
      /\ SlotsOf(fifo)' = SlotsOf(fifo) \cup {s}
      /\ lru' = lru
      /\ queueState' = [queueState EXCEPT ![f] = "fifo"]
  BY <1>1, <1>2, <1>3, NewFrameEffect DEF TypeOK
<1>5. n.slot = s /\ n.frame = f
  OBVIOUS
<1> HIDE DEF n
<1>6. TypeOK'
  BY <1>1, <1>2, <1>4 DEF TypeOK, FrameTypeOK, Labels
<1>7. LocalsOK'
  BY <1>1 DEF LocalsOK, TypeOK, HasNode, HasVictim, Evicting, Loading, PreLoad
<1>8. ASSUME NEW u \in Threads, node[u] # Nil, u # t
      PROVE  node[u].slot # s
  BY <1>2, <1>8 DEF SlotsApart
<1>9. LoadersOK'
  BY <1>1, <1>2, <1>4 DEF LoadersOK, LocalsOK, TypeOK, QueueTypeOK, Loading, PreLoad
<1>10. EvictorsOK'
  <2>1. ASSUME NEW u \in Threads \ {t}, pc[u] \in Evicting
        PROVE  NodeIsCurrent(node[u], "none")'
    <3>1. node[u] # Nil /\ NodeIsCurrent(node[u], "none") /\ node[u].frame \in Frames
      BY <2>1 DEF EvictorsOK, LocalsOK, HasNode, Evicting, Loading, PreLoad
    <3>2. node[u].frame # f
      BY <1>2, <1>8, <3>1, NilAssumption DEF NodeIsCurrent, InUse
    <3>3. QED
      BY <1>1, <1>2, <1>4, <3>1, <3>2 DEF NodeIsCurrent, InUse, TypeOK, QueueTypeOK
  <2>2. QED
    BY <1>1, <2>1 DEF EvictorsOK, TypeOK, Evicting
<1>11. QueuedFramesAreCurrent'
  <2>1. ASSUME NEW m \in Range(fifo) \cup Range(lru), InUse(m)
        PROVE  m.frame \in Frames /\ m.frame # f
    BY <1>2, <1>3, <2>1, QueuedNodes, NilAssumption
    DEF QueuedFramesAreCurrent, NodeIsCurrent, InUse, TypeOK, QueueTypeOK, Nodes
  <2>2. ASSUME NEW m \in Range(fifo) PROVE NodeIsCurrent(m, "fifo")'
    BY <1>1, <1>4, <2>1 DEF QueuedFramesAreCurrent, NodeIsCurrent, InUse, TypeOK, QueueTypeOK
  <2>3. ASSUME NEW m \in Range(lru) PROVE NodeIsCurrent(m, "lru")'
    BY <1>1, <1>4, <2>1 DEF QueuedFramesAreCurrent, NodeIsCurrent, InUse, TypeOK, QueueTypeOK
  <2>4. ASSUME NEW m, m = n PROVE NodeIsCurrent(m, "fifo")'
    <3>1. m.slot = s /\ m.frame = f
      BY <1>5, <2>4
    <3>2. table' = table /\ data' = data /\ queueState'[f] = "fifo"
      BY <1>1, <1>2, <1>4 DEF TypeOK, QueueTypeOK
    <3>3. QED
      BY <1>2, <3>1, <3>2 DEF NodeIsCurrent
  <2>5. ASSUME NEW m \in Range(fifo)' PROVE NodeIsCurrent(m, "fifo")'
    BY <1>4, <2>2, <2>4
  <2>6. QED
    BY <1>4, <2>3, <2>5 DEF QueuedFramesAreCurrent
<1>12. SlotsApart'
  BY <1>1, <1>2, <1>3, <1>4, <1>8 DEF SlotsApart, TypeOK
<1>13. SlotsKept'
  BY <1>1, <1>2, <1>4 DEF SlotsKept, TypeOK
<1>14. DataOK'
  <2>1. Referenced' = Referenced
    BY <1>1 DEF Referenced, Fixed
  <2>2. \A u \in Threads : pc[u] \in PreLoad => pc'[u] \in PreLoad /\ frame'[u] = frame[u]
    BY <1>1 DEF TypeOK, PreLoad
  <2>3. QED
    BY <1>1, <2>1, <2>2, DataKept
<1>15. QED
  BY <1>6, <1>7, <1>9, <1>10, <1>11, <1>12, <1>13, <1>14

LEMMA LoadUnlockStep ==
  ASSUME IInv, NEW t \in Threads, LoadUnlock(t)
  PROVE  IInv'
<1> USE DEF IInv, LoadUnlock, At, Goto, frameVars, lockVars, queueVars, storeVars, localVars, userVars
<1>1. TypeOK'
  BY DEF TypeOK, FrameTypeOK, QueueTypeOK, Labels, LocalsOK, Unlock
<1>2. LocalsOK'
  BY DEF LocalsOK, TypeOK, HasNode, HasVictim, Evicting, Loading, PreLoad
<1>3. LoadersOK' /\ EvictorsOK'
  BY DEF LoadersOK, EvictorsOK, NodeIsCurrent, InUse, TypeOK, Evicting, Loading, PreLoad
<1>4. QueuedFramesAreCurrent'
  BY DEF QueuedFramesAreCurrent, NodeIsCurrent, InUse
<1>5. SlotsApart' /\ SlotsKept'
  BY SlotsUnmoved
<1>6. DataOK'
  BY DataKept DEF Referenced, Fixed, TypeOK, PreLoad
<1>7. QED
  BY <1>1, <1>2, <1>3, <1>4, <1>5, <1>6

\* Taking a lock, for the user or for evictPage.
LEMMA LockTypeOK ==
  ASSUME FrameTypeOK, NEW t \in Threads, NEW f \in Frames, NEW ex \in BOOLEAN, Lock(t, f, ex)
  PROVE  /\ exclusive' \in [Frames -> Threads \cup {Nil}]
         /\ sharers' \in [Frames -> SUBSET Threads]
<1>1. CASE ex
  BY <1>1 DEF FrameTypeOK, Lock, LockExclusive
<1>2. CASE ~ex
  BY <1>2 DEF FrameTypeOK, Lock, LockShared
<1>3. QED
  BY <1>1, <1>2

LEMMA LockFrameStep ==
  ASSUME IInv, NEW t \in Threads, LockFrame(t)
  PROVE  IInv'
<1> USE DEF IInv, LockFrame, At, Goto, frameVars, lockVars, queueVars, storeVars, localVars, userVars
<1>1. TypeOK'
  <2>1. frame[t] \in Frames /\ request[t].exclusive \in BOOLEAN
    BY DEF LocalsOK, Requests
  <2>2. /\ exclusive' \in [Frames -> Threads \cup {Nil}]
        /\ sharers' \in [Frames -> SUBSET Threads]
    BY <2>1, LockTypeOK DEF TypeOK
  <2>3. QED
    BY <2>2 DEF TypeOK, FrameTypeOK, QueueTypeOK, Labels
<1>2. LocalsOK'
  BY DEF LocalsOK, TypeOK, HasNode, HasVictim, Evicting, Loading, PreLoad
<1>3. LoadersOK' /\ EvictorsOK'
  BY DEF LoadersOK, EvictorsOK, NodeIsCurrent, InUse, TypeOK, Evicting, Loading, PreLoad
<1>4. QueuedFramesAreCurrent'
  BY DEF QueuedFramesAreCurrent, NodeIsCurrent, InUse
<1>5. SlotsApart' /\ SlotsKept'
  BY SlotsUnmoved
<1>6. DataOK'
  BY DataKept DEF Referenced, Fixed, TypeOK, PreLoad
<1>7. QED
  BY <1>1, <1>2, <1>3, <1>4, <1>5, <1>6

LEMMA EvictLockStep ==
  ASSUME IInv, NEW t \in Threads, EvictLock(t)
  PROVE  IInv'
<1> USE DEF IInv, EvictLock, At, Goto, frameVars, lockVars, queueVars, storeVars, localVars, userVars
<1>1. TypeOK'
  <2>1. victim[t] \in Frames
    BY DEF LocalsOK, HasVictim
  <2>2. /\ exclusive' \in [Frames -> Threads \cup {Nil}]
        /\ sharers' \in [Frames -> SUBSET Threads]
    BY <2>1, LockTypeOK DEF TypeOK
  <2>3. QED
    BY <2>2 DEF TypeOK, FrameTypeOK, QueueTypeOK, Labels
<1>2. LocalsOK'
  BY DEF LocalsOK, TypeOK, HasNode, HasVictim, Evicting, Loading, PreLoad
<1>3. LoadersOK' /\ EvictorsOK'
  BY DEF LoadersOK, EvictorsOK, NodeIsCurrent, InUse, TypeOK, Evicting, Loading, PreLoad
<1>4. QueuedFramesAreCurrent'
  BY DEF QueuedFramesAreCurrent, NodeIsCurrent, InUse
<1>5. SlotsApart' /\ SlotsKept'
  BY SlotsUnmoved
<1>6. DataOK'
  BY DataKept DEF Referenced, Fixed, TypeOK, PreLoad
<1>7. QED
  BY <1>1, <1>2, <1>3, <1>4, <1>5, <1>6

LEMMA CleanVictimStep ==
  ASSUME IInv, NEW t \in Threads, CleanVictim(t)
  PROVE  IInv'
<1> USE DEF IInv, CleanVictim, At, Goto, frameVars, lockVars, queueVars, storeVars, localVars, userVars
<1>1. TypeOK'
  <2>1. /\ node[t] \in Nodes
        /\ victim[t] = node[t].frame
        /\ victim[t] \in Frames
    BY DEF TypeOK, LocalsOK, HasNode, HasVictim, Loading, PreLoad
  <2>2. /\ PageOf(victim[t]) \in Pages
        /\ data[victim[t]] \in Slots
    <3>1. NodeIsCurrent(node[t], "none") /\ node[t].frame # Nil
      BY <2>1, NilAssumption DEF EvictorsOK, Evicting
    <3>2. QED
      BY <2>1, <3>1 DEF NodeIsCurrent, InUse, Nodes, Frames, PageOf
  <2>3. disk' \in [Pages -> Values]
    BY <2>2 DEF CleanFrame, TypeOK
  <2>4. state' \in [Frames -> {"clean", "dirty", "deleted"}]
    BY DEF TypeOK, FrameTypeOK
  <2>5. QED
    BY <2>3, <2>4 DEF TypeOK, FrameTypeOK, QueueTypeOK, Labels
<1>2. LocalsOK'
  BY DEF LocalsOK, TypeOK, HasNode, HasVictim, Evicting, Loading, PreLoad
<1>3. LoadersOK' /\ EvictorsOK'
  BY DEF LoadersOK, EvictorsOK, NodeIsCurrent, InUse, TypeOK, Evicting, Loading, PreLoad
<1>4. QueuedFramesAreCurrent'
  BY DEF QueuedFramesAreCurrent, NodeIsCurrent, InUse
<1>5. SlotsApart' /\ SlotsKept'
  BY SlotsUnmoved
<1>6. DataOK'
  BY DataKept DEF Referenced, Fixed, TypeOK, PreLoad
<1>7. QED
  BY <1>1, <1>2, <1>3, <1>4, <1>5, <1>6

LEMMA WritePageStep ==
  ASSUME IInv, NEW t \in Threads, NEW f \in Frames, WritePage(t, f)
  PROVE  IInv'
<1> USE DEF IInv, WritePage, frameVars, lockVars, queueVars, storeVars, localVars, userVars
<1>1. TypeOK'
  <2>1. mem' \in [Slots -> Values]
    <3>1. CASE data[f] \in Slots
      <4>1. /\ mem[data[f]] \in Values
            /\ mem[data[f]][2] + 1 \in 0 .. MaxWrites
        BY <3>1, BoundsAssumption DEF TypeOK, Values
      <4>2. [mem[data[f]] EXCEPT ![2] = @ + 1] = <<mem[data[f]][1], mem[data[f]][2] + 1>>
        BY <4>1 DEF Values
      <4>3. QED
        BY <3>1, <4>1, <4>2 DEF TypeOK, Values
    <3>2. CASE data[f] \notin Slots
      BY <3>2 DEF TypeOK
    <3>3. QED
      BY <3>1, <3>2
  <2>2. modified' \in [Threads -> SUBSET Frames]
    BY DEF TypeOK
  <2>3. QED
    BY <2>1, <2>2 DEF TypeOK, FrameTypeOK, QueueTypeOK
<1>2. LocalsOK'
  BY DEF LocalsOK
<1>3. LoadersOK' /\ EvictorsOK'
  BY DEF LoadersOK, EvictorsOK, NodeIsCurrent, InUse
<1>4. QueuedFramesAreCurrent'
  BY DEF QueuedFramesAreCurrent, NodeIsCurrent, InUse
<1>5. SlotsApart' /\ SlotsKept'
  BY SlotsUnmoved
<1>6. DataOK'
  BY DataKept DEF Referenced, Fixed
<1>7. QED
  BY <1>1, <1>2, <1>3, <1>4, <1>5, <1>6

\* What is destroyed is what nobody points to.
LEMMA DestroyEffect ==
  ASSUME FrameTypeOK, DestroyUnreferenced
  PROVE  /\ data' \in [Frames -> Slots \cup {Nil}]
         /\ \A f \in Frames \cap Referenced' : data'[f] = data[f]
         /\ \A p \in Pages : table'[p] \in Frames => data'[table'[p]] = data[table'[p]]
BY DEF FrameTypeOK, DestroyUnreferenced, Referenced

\* unlock() by a thread.
LEMMA UnlockTypeOK ==
  ASSUME FrameTypeOK, NEW t \in Threads, NEW f \in Frames, Unlock(t, f)
  PROVE  /\ exclusive' \in [Frames -> Threads \cup {Nil}]
         /\ sharers' \in [Frames -> SUBSET Threads]
BY DEF FrameTypeOK, Unlock

\* Loaders, evictors and queues do not mind what happens to frames that are not in the
\* table.
LEMMA TableFramesKept ==
  ASSUME TypeOK, LocalsOK, LoadersOK, EvictorsOK,
         UNCHANGED <<table, node>>,
         \A p \in Pages : table[p] \in Frames => data'[table[p]] = data[table[p]],
         \A f \in Frames : queueState[f] = "none" => queueState'[f] = "none",
         \A u \in Threads : pc'[u] \in Loading =>
           /\ pc[u] \in Loading
           /\ frame'[u] = frame[u]
           /\ pc'[u] = "newFrame" <=> pc[u] = "newFrame",
         \A u \in Threads : pc'[u] \in Evicting => pc[u] \in Evicting
  PROVE  LoadersOK' /\ EvictorsOK'
<1>1. ASSUME NEW f \in Frames, table[PageOf(f)] = f
      PROVE  data'[f] = data[f]
  BY <1>1 DEF Frames, PageOf
<1>2. LoadersOK'
  <2>1. ASSUME NEW u \in Threads, pc[u] \in Loading
        PROVE  /\ frame[u] \in Frames
               /\ table[PageOf(frame[u])] = frame[u]
               /\ data'[frame[u]] = data[frame[u]]
               /\ queueState'[frame[u]] = "none"
    BY <1>1, <2>1 DEF LoadersOK, LocalsOK, Loading, PreLoad
  <2>2. QED
    BY <2>1 DEF LoadersOK
<1>3. EvictorsOK'
  <2>1. ASSUME NEW u \in Threads, pc[u] \in Evicting
        PROVE  NodeIsCurrent(node[u], "none")'
    BY <1>1, <2>1 DEF EvictorsOK, LocalsOK, NodeIsCurrent, InUse
  <2>2. QED
    BY <2>1 DEF EvictorsOK
<1>4. QED
  BY <1>2, <1>3

\* What fixPage does to the queues before it looks whether the frame was evicted.
LEMMA QueuesReprioritized ==
  ASSUME IInv, NEW t \in Threads, NEW f \in Frames, NEW c \in BOOLEAN,
         IF c THEN UNCHANGED queueVars ELSE Reprioritize(f),
         UNCHANGED <<table, node>>,
         \A p \in Pages : table[p] \in Frames => data'[table[p]] = data[table[p]]
  PROVE  /\ QueueTypeOK'
         /\ QueuedFramesAreCurrent'
         /\ SlotsApart' /\ SlotsKept'
         /\ \A g \in Frames : queueState[g] = "none" => queueState'[g] = "none"
<1> USE DEF IInv
<1>1. ASSUME NEW n \in Range(fifo) \cup Range(lru), InUse(n)
      PROVE  table[PageOf(n.frame)] = n.frame /\ data'[n.frame] = n.slot
  <2>1. n.frame \in Frames /\ table[PageOf(n.frame)] = n.frame /\ data[n.frame] = n.slot
    BY <1>1, QueuedNodes
    DEF QueuedFramesAreCurrent, NodeIsCurrent, InUse, TypeOK, QueueTypeOK, Nodes
  <2>2. QED
    BY <2>1 DEF Frames, PageOf
<1>2. CASE c
  <2>1. UNCHANGED <<fifo, lru, queueState>>
    BY <1>2 DEF queueVars
  <2>2. QueuedFramesAreCurrent'
    BY <1>1, <2>1 DEF QueuedFramesAreCurrent, NodeIsCurrent, InUse
  <2>3. QED
    BY <2>1, <2>2, SlotsUnmoved DEF TypeOK, QueueTypeOK
<1>3. CASE ~c
  <2>1. /\ QueueTypeOK'
        /\ Distinct(fifo)' /\ Distinct(lru)'
        /\ SlotsOf(fifo)' \cap SlotsOf(lru)' = {}
        /\ SlotsOf(fifo)' \cup SlotsOf(lru)' = SlotsOf(fifo) \cup SlotsOf(lru)
        /\ \A g \in Frames : queueState[g] = "none" => queueState'[g] = "none"
        /\ \A n \in Range(fifo)' :
             n \in Range(fifo) /\ (InUse(n) => queueState'[n.frame] = "fifo")
        /\ \A n \in Range(lru)' :
             /\ n \in Range(fifo) \cup Range(lru)
             /\ InUse(n) => queueState'[n.frame] = "lru"
    BY <1>3, ReprioritizeEffect DEF TypeOK
  <2>2. QueuedFramesAreCurrent'
    BY <1>1, <2>1 DEF QueuedFramesAreCurrent, NodeIsCurrent, InUse
  <2>3. SlotsApart'
    BY <2>1 DEF SlotsApart
  <2>4. SlotsKept'
    BY <2>1 DEF SlotsKept
  <2>5. QED
    BY <2>1, <2>2, <2>3, <2>4
<1>4. QED
  BY <1>2, <1>3

LEMMA ReturnFrameStep ==
  ASSUME IInv, NEW t \in Threads, ReturnFrame(t)
  PROVE  IInv'
<1> DEFINE f == frame[t]
<1> USE DEF IInv, At, Goto, frameVars, lockVars, storeVars, localVars, userVars
<1>1. /\ pc[t] = "check"
      /\ IF created[t] THEN UNCHANGED queueVars ELSE Reprioritize(f)
      /\ pc' = [pc EXCEPT ![t] = "idle"]
      /\ request' = [request EXCEPT ![t] = Nil]
      /\ frame' = [frame EXCEPT ![t] = Nil]
      /\ created' = [created EXCEPT ![t] = FALSE]
      /\ IF request[t].exclusive
           THEN writeFix' = [writeFix EXCEPT ![t] = @ \cup {f}] /\ readFix' = readFix
           ELSE readFix' = [readFix EXCEPT ![t] = @ \cup {f}] /\ writeFix' = writeFix
      /\ UNCHANGED <<frameVars, lockVars, storeVars, table, node, victim, modified>>
  BY DEF ReturnFrame
<1>2. f \in Frames /\ created[t] \in BOOLEAN
  BY <1>1 DEF LocalsOK, TypeOK
<1>3. /\ QueueTypeOK'
      /\ QueuedFramesAreCurrent'
      /\ SlotsApart' /\ SlotsKept'
      /\ \A g \in Frames : queueState[g] = "none" => queueState'[g] = "none"
  BY <1>1, <1>2, QueuesReprioritized
<1>4. TypeOK'
  BY <1>1, <1>2, <1>3 DEF TypeOK, FrameTypeOK, Labels
<1>5. LocalsOK'
  BY <1>1 DEF LocalsOK, TypeOK, HasNode, HasVictim, Evicting, Loading, PreLoad
<1>6. LoadersOK' /\ EvictorsOK'
  BY <1>1, <1>3, TableFramesKept DEF TypeOK, Loading, PreLoad, Evicting
<1>7. DataOK'
  <2>1. Frames \cap Referenced' \subseteq Referenced
    <3>1. \A u \in Threads : Fixed(u)' \subseteq Fixed(u) \cup {frame[u]}
      BY <1>1 DEF Fixed, TypeOK
    <3>2. \A u \in Threads : frame'[u] \in {frame[u], Nil}
      BY <1>1 DEF TypeOK
    <3>3. QED
      BY <1>1, <3>1, <3>2, NilAssumption DEF Referenced
  <2>2. QED
    BY <1>1, <2>1, DataKept DEF TypeOK, PreLoad
<1>8. QED
  BY <1>3, <1>4, <1>5, <1>6, <1>7

LEMMA RetryFixStep ==
  ASSUME IInv, NEW t \in Threads, RetryFix(t)
  PROVE  IInv'
<1> DEFINE f == frame[t]
<1> USE DEF IInv, At, Goto, frameVars, lockVars, storeVars, localVars, userVars
<1>1. /\ pc[t] = "check"
      /\ IF created[t] THEN UNCHANGED queueVars ELSE Reprioritize(f)
      /\ Unlock(t, f)
      /\ pc' = [pc EXCEPT ![t] = "lookup"]
      /\ frame' = [frame EXCEPT ![t] = Nil]
      /\ created' = [created EXCEPT ![t] = FALSE]
      /\ UNCHANGED <<state, storeVars, table, request, node, victim, userVars>>
      /\ DestroyUnreferenced
  BY DEF RetryFix
<1>2. f \in Frames /\ created[t] \in BOOLEAN
  BY <1>1 DEF LocalsOK, TypeOK
<1>3. /\ data' \in [Frames -> Slots \cup {Nil}]
      /\ \A g \in Frames \cap Referenced' : data'[g] = data[g]
      /\ \A p \in Pages : table[p] \in Frames => data'[table[p]] = data[table[p]]
  BY <1>1, DestroyEffect DEF TypeOK
<1>4. /\ QueueTypeOK'
      /\ QueuedFramesAreCurrent'
      /\ SlotsApart' /\ SlotsKept'
      /\ \A g \in Frames : queueState[g] = "none" => queueState'[g] = "none"
  BY <1>1, <1>2, <1>3, QueuesReprioritized
<1>5. TypeOK'
  BY <1>1, <1>2, <1>3, <1>4, UnlockTypeOK DEF TypeOK, FrameTypeOK, Labels
<1>6. LocalsOK'
  BY <1>1 DEF LocalsOK, TypeOK, HasNode, HasVictim, Evicting, Loading, PreLoad
<1>7. LoadersOK' /\ EvictorsOK'
  BY <1>1, <1>3, <1>4, TableFramesKept DEF TypeOK, Loading, PreLoad, Evicting
<1>8. DataOK'
  <2>1. Frames \cap Referenced' \subseteq Referenced
    BY <1>1, NilAssumption DEF Referenced, Fixed, TypeOK
  <2>2. QED
    BY <1>1, <1>3, <2>1, DataKept DEF TypeOK, PreLoad
<1>9. QED
  BY <1>4, <1>5, <1>6, <1>7, <1>8

LEMMA PopNodeStep ==
  ASSUME IInv, NEW t \in Threads, PopNode(t)
  PROVE  IInv'
<1> DEFINE n == EvictionNode
<1> USE DEF IInv, At, Goto, frameVars, lockVars, storeVars, localVars, userVars
<1>1. /\ pc[t] = "evict"
      /\ EvictFrame
      /\ node' = [node EXCEPT ![t] = n]
      /\ pc' = [pc EXCEPT ![t] = IF InUse(n) THEN "evictLookup" ELSE "load"]
      /\ queueState' = IF InUse(n) THEN [queueState EXCEPT ![n.frame] = "none"] ELSE queueState
      /\ UNCHANGED <<frameVars, lockVars, storeVars, table, request, frame, created, victim, userVars>>
  BY DEF PopNode, EvictFrame
<1>2. /\ QueueTypeOK'
      /\ n \in Range(fifo) \cup Range(lru)
      /\ n \in Nodes
      /\ Range(fifo)' = Range(fifo) \ {n}
      /\ Range(lru)' = Range(lru) \ {n}
      /\ SlotsOf(fifo)' = SlotsOf(fifo) \ {n.slot}
      /\ SlotsOf(lru)' = SlotsOf(lru) \ {n.slot}
      /\ Distinct(fifo)' /\ Distinct(lru)'
  BY <1>1, EvictFrameEffect DEF TypeOK
<1> HIDE DEF n
<1>3. /\ n.slot \in SlotsOf(fifo) \cup SlotsOf(lru)
      /\ n.slot \in Slots
      /\ n # Nil
      /\ InUse(n) => n.frame \in Frames
  <2>1. n.slot \in SlotsOf(fifo) \cup SlotsOf(lru)
    BY <1>2, QueuedNodes DEF TypeOK, QueueTypeOK
  <2>2. QED
    BY <2>1, <1>2, NoNodeAssumption DEF Nodes, InUse
<1>4. node[t] = Nil
  BY <1>1 DEF LocalsOK, HasNode, Loading, PreLoad
<1>5. InUse(n) => /\ table[PageOf(n.frame)] = n.frame
                  /\ data[n.frame] = n.slot
  BY <1>2 DEF QueuedFramesAreCurrent, NodeIsCurrent
<1>6. TypeOK'
  BY <1>1, <1>2 DEF TypeOK, FrameTypeOK, Labels
<1>7. LocalsOK'
  <2>1. ASSUME NEW u \in Threads, u # t
        PROVE  pc'[u] = pc[u] /\ node'[u] = node[u]
    BY <1>1, <2>1 DEF TypeOK
  <2>2. /\ node'[t] = n
        /\ pc'[t] = IF InUse(n) THEN "evictLookup" ELSE "load"
    BY <1>1 DEF TypeOK
  <2>3. UNCHANGED <<request, frame, victim>>
    BY <1>1
  <2>4. QED
    BY <1>1, <1>3, <2>1, <2>2, <2>3 DEF LocalsOK, HasNode, HasVictim, Evicting, Loading, PreLoad
<1>8. \A g \in Frames : queueState[g] = "none" => queueState'[g] = "none"
  BY <1>1 DEF TypeOK, QueueTypeOK
<1>9. LoadersOK'
  BY <1>1, <1>8 DEF LoadersOK, LocalsOK, TypeOK, Loading, PreLoad
<1>10. EvictorsOK'
  <2>1. ASSUME NEW u \in Threads, u # t, pc'[u] \in Evicting
        PROVE  NodeIsCurrent(node[u], "none")'
    BY <1>1, <1>8, <2>1 DEF EvictorsOK, LocalsOK, NodeIsCurrent, TypeOK
  <2>2. ASSUME pc'[t] \in Evicting
        PROVE  NodeIsCurrent(node[t], "none")'
    <3>1. InUse(n) /\ node'[t] = n
      BY <1>1, <2>2 DEF Evicting, TypeOK
    <3>2. queueState'[n.frame] = "none"
      BY <1>1, <1>3, <3>1 DEF TypeOK, QueueTypeOK
    <3>3. QED
      BY <1>1, <1>5, <3>1, <3>2 DEF NodeIsCurrent
  <2>3. QED
    BY <2>1, <2>2 DEF EvictorsOK
<1>11. QueuedFramesAreCurrent'
  <2>1. ASSUME NEW m \in Range(fifo) \cup Range(lru), m # n, InUse(m)
        PROVE  m.frame \in Frames /\ queueState'[m.frame] = queueState[m.frame]
    <3>1. m.frame \in Frames /\ data[m.frame] = m.slot
      BY <2>1, QueuedNodes
      DEF QueuedFramesAreCurrent, NodeIsCurrent, InUse, TypeOK, QueueTypeOK, Nodes
    <3>2. m.slot # n.slot
      BY <1>2, <2>1, NodeOfSlot, QueuedNodes DEF SlotsApart, TypeOK, QueueTypeOK
    <3>3. QED
      BY <1>1, <1>5, <3>1, <3>2 DEF TypeOK, QueueTypeOK
  <2>2. ASSUME NEW m \in Range(fifo)' PROVE NodeIsCurrent(m, "fifo")'
    BY <1>1, <1>2, <2>1, <2>2 DEF QueuedFramesAreCurrent, NodeIsCurrent
  <2>3. ASSUME NEW m \in Range(lru)' PROVE NodeIsCurrent(m, "lru")'
    BY <1>1, <1>2, <2>1, <2>3 DEF QueuedFramesAreCurrent, NodeIsCurrent
  <2>4. QED
    BY <2>2, <2>3 DEF QueuedFramesAreCurrent
<1>12. SlotsApart'
  BY <1>1, <1>2, <1>3, <1>4 DEF SlotsApart, TypeOK
<1>13. SlotsKept'
  <2>1. \A u \in Threads : node[u] # Nil => node'[u] = node[u]
    BY <1>1, <1>4 DEF TypeOK
  <2>2. node'[t] = n /\ n # Nil
    BY <1>1, <1>3 DEF TypeOK
  <2>3. ASSUME NEW s \in Slots
        PROVE  \/ s \in SlotsOf(fifo)'
               \/ s \in SlotsOf(lru)'
               \/ \E u \in Threads : node'[u] # Nil /\ node'[u].slot = s
    <3>1. CASE s = n.slot
      BY <2>2, <3>1
    <3>2. CASE s # n.slot
      BY <1>2, <2>1, <3>2 DEF SlotsKept
    <3>3. QED
      BY <3>1, <3>2
  <2>4. QED
    BY <2>3 DEF SlotsKept
<1>14. DataOK'
  BY <1>1, DataKept DEF Referenced, Fixed, TypeOK, PreLoad
<1>15. QED
  BY <1>6, <1>7, <1>9, <1>10, <1>11, <1>12, <1>13, <1>14

LEMMA EvictLookupStep ==
  ASSUME IInv, NEW t \in Threads, EvictLookup(t)
  PROVE  IInv'
<1> DEFINE f == node[t].frame
<1> USE DEF IInv, At, Goto, frameVars, lockVars, queueVars, storeVars, localVars, userVars
<1>1. /\ pc[t] = "evictLookup"
      /\ victim' = [victim EXCEPT ![t] = table[PageOf(f)]]
      /\ pc' = [pc EXCEPT ![t] = "evictLock"]
      /\ UNCHANGED <<frameVars, lockVars, queueVars, storeVars, table, request, frame, created, node,
                     userVars>>
  BY DEF EvictLookup
<1>2. f \in Frames /\ PageOf(f) \in Pages /\ table[PageOf(f)] = f
  <2>1. f \in Frames
    BY <1>1 DEF LocalsOK, Evicting
  <2>2. QED
    BY <1>1, <2>1, NilAssumption DEF EvictorsOK, NodeIsCurrent, InUse, Evicting, Frames, PageOf
<1>3. TypeOK'
  BY <1>1, <1>2 DEF TypeOK, FrameTypeOK, QueueTypeOK, Labels
<1>4. LocalsOK'
  BY <1>1, <1>2 DEF LocalsOK, TypeOK, HasNode, HasVictim, Evicting, Loading, PreLoad
<1>5. LoadersOK' /\ EvictorsOK'
  BY <1>1 DEF LoadersOK, EvictorsOK, NodeIsCurrent, InUse, TypeOK, Evicting, Loading, PreLoad
<1>6. QueuedFramesAreCurrent'
  BY <1>1 DEF QueuedFramesAreCurrent, NodeIsCurrent, InUse
<1>7. SlotsApart' /\ SlotsKept'
  BY <1>1, SlotsUnmoved
<1>8. DataOK'
  <2>1. Frames \cap Referenced' \subseteq Referenced
    BY <1>1, <1>2 DEF Referenced, Fixed, TypeOK
  <2>2. QED
    BY <1>1, <2>1, DataKept DEF TypeOK, PreLoad
<1>9. QED
  BY <1>3, <1>4, <1>5, <1>6, <1>7, <1>8

LEMMA EvictDeleteStep ==
  ASSUME IInv, NEW t \in Threads, EvictDelete(t)
  PROVE  IInv'
<1> DEFINE f == node[t].frame
           s == node[t].slot
<1> USE DEF IInv, At, Goto, frameVars, lockVars, queueVars, storeVars, localVars, userVars
<1>1. /\ pc[t] = "evictDelete"
      /\ table' = [table EXCEPT ![PageOf(f)] = Nil]
      /\ pc' = [pc EXCEPT ![t] = "evictUnlock"]
      /\ UNCHANGED <<frameVars, lockVars, queueVars, storeVars, localVars, userVars>>
  BY DEF EvictDelete
<1>2. /\ f \in Frames /\ PageOf(f) \in Pages
      /\ node[t] \in Nodes /\ node[t] # Nil /\ s \in Slots
      /\ table[PageOf(f)] = f
      /\ data[f] = s
  <2>1. f \in Frames /\ node[t] # Nil
    BY <1>1 DEF LocalsOK, Evicting, HasNode, Loading, PreLoad
  <2>2. node[t] \in Nodes /\ s \in Slots
    BY <2>1 DEF TypeOK, Nodes
  <2>3. NodeIsCurrent(node[t], "none") /\ InUse(node[t])
    BY <1>1, <2>1, NilAssumption DEF EvictorsOK, Evicting, InUse
  <2>4. QED
    BY <2>1, <2>2, <2>3 DEF NodeIsCurrent, Frames, PageOf
<1>3. ASSUME NEW g \in Frames, table[PageOf(g)] = g, data[g] # s
      PROVE  table'[PageOf(g)] = g
  BY <1>1, <1>2, <1>3 DEF TypeOK
<1>4. ASSUME NEW u \in Threads, u # t, node[u] # Nil
      PROVE  node[u].slot # s
  BY <1>2, <1>4 DEF SlotsApart
<1>5. TypeOK'
  BY <1>1 DEF TypeOK, FrameTypeOK, QueueTypeOK, Labels
<1>6. LocalsOK'
  BY <1>1, <1>2 DEF LocalsOK, TypeOK, HasNode, HasVictim, Evicting, Loading, PreLoad
<1>7. LoadersOK'
  <2>1. ASSUME NEW u \in Threads, pc[u] \in Loading
        PROVE  table'[PageOf(frame[u])] = frame[u]
    <3>1. /\ frame[u] \in Frames
          /\ table[PageOf(frame[u])] = frame[u]
          /\ data[frame[u]] = IF pc[u] = "newFrame" THEN node[u].slot ELSE Nil
          /\ pc[u] = "newFrame" => node[u] # Nil /\ u # t
      BY <1>1, <2>1 DEF LoadersOK, LocalsOK, HasNode, Loading, PreLoad
    <3>2. data[frame[u]] # s
      BY <1>2, <1>4, <3>1, NilAssumption
    <3>3. QED
      BY <1>3, <3>1, <3>2
  <2>2. QED
    BY <1>1, <2>1 DEF LoadersOK, TypeOK, Loading, PreLoad
<1>8. EvictorsOK'
  <2>1. ASSUME NEW u \in Threads, u # t, pc[u] \in Evicting
        PROVE  NodeIsCurrent(node[u], "none")'
    <3>1. node[u] # Nil /\ NodeIsCurrent(node[u], "none") /\ node[u].frame \in Frames
      BY <2>1 DEF EvictorsOK, LocalsOK, HasNode, Evicting, Loading, PreLoad
    <3>2. QED
      BY <1>1, <1>3, <1>4, <2>1, <3>1 DEF NodeIsCurrent, InUse
  <2>2. QED
    BY <1>1, <2>1 DEF EvictorsOK, TypeOK, Evicting
<1>9. QueuedFramesAreCurrent'
  <2>1. ASSUME NEW n \in Range(fifo) \cup Range(lru), InUse(n)
        PROVE  table'[PageOf(n.frame)] = n.frame
    <3>1. /\ n.frame \in Frames
          /\ table[PageOf(n.frame)] = n.frame
          /\ data[n.frame] = n.slot
          /\ n.slot \in SlotsOf(fifo) \cup SlotsOf(lru)
      BY <2>1, QueuedNodes
      DEF QueuedFramesAreCurrent, NodeIsCurrent, InUse, TypeOK, QueueTypeOK, Nodes
    <3>2. n.slot # s
      BY <1>2, <3>1 DEF SlotsApart
    <3>3. QED
      BY <1>3, <3>1, <3>2
  <2>2. QED
    BY <1>1, <2>1 DEF QueuedFramesAreCurrent, NodeIsCurrent, InUse
<1>10. SlotsApart' /\ SlotsKept'
  BY <1>1, SlotsUnmoved
<1>11. DataOK'
  <2>1. Frames \cap Referenced' \subseteq Referenced
    BY <1>1, <1>2, NilAssumption DEF Referenced, Fixed, TypeOK
  <2>2. QED
    BY <1>1, <2>1, DataKept DEF TypeOK, PreLoad
<1>12. QED
  BY <1>5, <1>6, <1>7, <1>8, <1>9, <1>10, <1>11

LEMMA EvictUnlockStep ==
  ASSUME IInv, NEW t \in Threads, EvictUnlock(t)
  PROVE  IInv'
<1> USE DEF IInv, At, Goto, lockVars, queueVars, storeVars, localVars, userVars
<1>1. /\ pc[t] = "evictUnlock"
      /\ Unlock(t, victim[t])
      /\ victim' = [victim EXCEPT ![t] = Nil]
      /\ pc' = [pc EXCEPT ![t] = "load"]
      /\ UNCHANGED <<state, queueVars, storeVars, table, request, frame, created, node, userVars>>
      /\ DestroyUnreferenced
  BY DEF EvictUnlock
<1>2. victim[t] \in Frames
  BY <1>1 DEF LocalsOK, HasVictim
<1>3. /\ data' \in [Frames -> Slots \cup {Nil}]
      /\ \A g \in Frames \cap Referenced' : data'[g] = data[g]
      /\ \A p \in Pages : table[p] \in Frames => data'[table[p]] = data[table[p]]
  BY <1>1, DestroyEffect DEF TypeOK
<1>4. /\ QueueTypeOK'
      /\ QueuedFramesAreCurrent'
      /\ SlotsApart' /\ SlotsKept'
  BY <1>1, <1>2, <1>3, QueuesReprioritized
<1>5. TypeOK'
  BY <1>1, <1>2, <1>3, <1>4, UnlockTypeOK DEF TypeOK, FrameTypeOK, Labels
<1>6. LocalsOK'
  BY <1>1 DEF LocalsOK, TypeOK, HasNode, HasVictim, Evicting, Loading, PreLoad
<1>7. LoadersOK' /\ EvictorsOK'
  BY <1>1, <1>3, TableFramesKept DEF TypeOK, Loading, PreLoad, Evicting
<1>8. DataOK'
  <2>1. Frames \cap Referenced' \subseteq Referenced
    BY <1>1, NilAssumption DEF Referenced, Fixed, TypeOK
  <2>2. QED
    BY <1>1, <1>3, <2>1, DataKept DEF TypeOK, PreLoad
<1>9. QED
  BY <1>4, <1>5, <1>6, <1>7, <1>8

LEMMA UnfixPageStep ==
  ASSUME IInv, NEW t \in Threads, NEW f \in Frames, NEW isDirty \in BOOLEAN,
         UnfixPage(t, f, isDirty)
  PROVE  IInv'
<1> USE DEF IInv, queueVars, storeVars, localVars
<1>1. /\ state' = IF isDirty THEN [state EXCEPT ![f] = "dirty"] ELSE state
      /\ Unlock(t, f)
      /\ readFix' = [readFix EXCEPT ![t] = @ \ {f}]
      /\ writeFix' = [writeFix EXCEPT ![t] = @ \ {f}]
      /\ modified' = [modified EXCEPT ![t] = @ \ {f}]
      /\ UNCHANGED <<queueVars, storeVars, table, pc, localVars>>
      /\ DestroyUnreferenced
  BY DEF UnfixPage
<1>2. /\ data' \in [Frames -> Slots \cup {Nil}]
      /\ \A g \in Frames \cap Referenced' : data'[g] = data[g]
      /\ \A p \in Pages : table[p] \in Frames => data'[table[p]] = data[table[p]]
  BY <1>1, DestroyEffect DEF TypeOK
<1>3. /\ QueueTypeOK'
      /\ QueuedFramesAreCurrent'
      /\ SlotsApart' /\ SlotsKept'
  BY <1>1, <1>2, QueuesReprioritized
<1>4. TypeOK'
  <2>1. /\ exclusive' \in [Frames -> Threads \cup {Nil}]
        /\ sharers' \in [Frames -> SUBSET Threads]
    BY <1>1, UnlockTypeOK DEF TypeOK
  <2>2. state' \in [Frames -> {"clean", "dirty", "deleted"}]
    BY <1>1 DEF TypeOK, FrameTypeOK
  <2>3. /\ readFix' \in [Threads -> SUBSET Frames]
        /\ writeFix' \in [Threads -> SUBSET Frames]
        /\ modified' \in [Threads -> SUBSET Frames]
    BY <1>1 DEF TypeOK
  <2>4. QED
    BY <1>1, <1>2, <1>3, <2>1, <2>2, <2>3 DEF TypeOK, FrameTypeOK
<1>5. LocalsOK'
  BY <1>1 DEF LocalsOK
<1>6. LoadersOK' /\ EvictorsOK'
  BY <1>1, <1>2, TableFramesKept
<1>7. DataOK'
  <2>1. Frames \cap Referenced' \subseteq Referenced
    <3>1. \A u \in Threads : Fixed(u)' \subseteq Fixed(u)
      BY <1>1 DEF Fixed, TypeOK
    <3>2. QED
      BY <1>1, <3>1 DEF Referenced
  <2>2. QED
    BY <1>1, <1>2, <2>1, DataKept
<1>8. QED
  BY <1>3, <1>4, <1>5, <1>6, <1>7

---------------------------------------------------------------------------
(* A new manager. *)

\* The constructor's nodes are unused and have each slot once.
LEMMA UnusedNodesHoldSlots ==
  /\ UnusedNodes \in Seq(Nodes)
  /\ \A n \in Range(UnusedNodes) : ~InUse(n)
  /\ Distinct(UnusedNodes)
  /\ SlotsOf(UnusedNodes) = Slots
<1>1. DOMAIN UnusedNodes = 1 .. Size /\ Slots = 1 .. Size /\ Size \in Nat
  BY SizeAssumption DEF UnusedNodes, Slots
<1>2. \A s \in Slots : UnusedNodes[s].slot = s /\ UnusedNodes[s].frame = Nil
  BY DEF UnusedNodes
<1>3. UnusedNodes \in [1 .. Size -> Nodes]
  BY <1>1 DEF UnusedNodes, Nodes
<1>4. UnusedNodes \in Seq(Nodes)
  BY <1>1, <1>3
<1>5. \A n \in Range(UnusedNodes) : ~InUse(n)
  BY <1>1, <1>2 DEF Range, InUse
<1>6. Distinct(UnusedNodes)
  BY <1>1, <1>2 DEF Distinct
<1>7. SlotsOf(UnusedNodes) = Slots
  BY <1>1, <1>2 DEF SlotsOf, Range
<1>8. QED
  BY <1>4, <1>5, <1>6, <1>7

LEMMA EmptyQueue ==
  /\ <<>> \in Seq(Nodes)
  /\ Range(<<>>) = {}
  /\ Distinct(<<>>)
  /\ SlotsOf(<<>>) = {}
BY DEF Range, Distinct, SlotsOf

LEMMA InitIInv == Init => IInv
<1> SUFFICES ASSUME Init PROVE IInv
  OBVIOUS
<1> USE DEF Init, FrameInit
<1>1. QueueTypeOK /\ QueuedFramesAreCurrent /\ SlotsApart /\ SlotsKept
  BY UnusedNodesHoldSlots, EmptyQueue
  DEF QueueInit, QueueTypeOK, QueuedFramesAreCurrent, NodeIsCurrent, SlotsApart, SlotsKept
<1>2. Uninitialised \in Values /\ \A p \in Pages : <<p, 0>> \in Values
  BY BoundsAssumption DEF Uninitialised, Values
<1>3. TypeOK
  BY <1>1, <1>2 DEF TypeOK, FrameTypeOK, Labels
<1>4. LocalsOK /\ LoadersOK /\ EvictorsOK
  BY DEF LocalsOK, LoadersOK, EvictorsOK, HasNode, HasVictim, Evicting, Loading, PreLoad
<1>5. DataOK
  BY NilAssumption DEF DataOK, Referenced, Fixed
<1>6. QED
  BY <1>1, <1>3, <1>4, <1>5 DEF IInv

LEMMA RestartStep ==
  ASSUME IInv, Restart
  PROVE  IInv'
<1> USE DEF IInv, At, localVars, userVars
<1>1. /\ \A t \in Threads : pc[t] = "idle" /\ Fixed(t) = {}
      /\ FrameReset
      /\ QueueReset
      /\ mem' = [s \in Slots |-> Uninitialised]
      /\ table' = [p \in Pages |-> Nil]
      /\ UNCHANGED <<pc, localVars, userVars>>
      /\ disk' = [p \in Pages |->
                    IF table[p] # Nil /\ state[table[p]] = "dirty" THEN mem[data[table[p]]]
                                                                  ELSE disk[p]]
  BY DEF Restart
<1>2. \A t \in Threads : frame[t] = Nil /\ victim[t] = Nil /\ node[t] = Nil
  BY <1>1 DEF LocalsOK, HasNode, HasVictim, Loading, PreLoad
<1>3. QueueTypeOK' /\ QueuedFramesAreCurrent' /\ SlotsApart' /\ SlotsKept'
  <2>1. /\ fifo' = UnusedNodes /\ lru' = <<>> /\ queueState' = [f \in Frames |-> "none"]
        /\ \A t \in Threads : node'[t] = Nil
    BY <1>1, <1>2 DEF QueueReset
  <2>2. QED
    BY <2>1, UnusedNodesHoldSlots, EmptyQueue
    DEF QueueTypeOK, QueuedFramesAreCurrent, NodeIsCurrent, SlotsApart, SlotsKept
<1>4. disk' \in [Pages -> Values]
  <2>1. ASSUME NEW p \in Pages, table[p] # Nil PROVE data[table[p]] \in Slots
    BY <1>1, <2>1 DEF DataOK, Referenced, TypeOK, PreLoad
  <2>2. QED
    BY <1>1, <2>1 DEF TypeOK
<1>5. Uninitialised \in Values
  BY BoundsAssumption DEF Uninitialised, Values
<1>6. TypeOK'
  BY <1>1, <1>3, <1>4, <1>5 DEF TypeOK, FrameTypeOK, FrameReset
<1>7. LocalsOK' /\ LoadersOK' /\ EvictorsOK'
  BY <1>1 DEF LocalsOK, LoadersOK, EvictorsOK, Evicting, Loading, PreLoad
<1>8. DataOK'
  BY <1>1, <1>2, NilAssumption DEF DataOK, Referenced, Fixed
<1>9. QED
  BY <1>3, <1>6, <1>7, <1>8

LEMMA StutterStep ==
  ASSUME IInv, UNCHANGED vars
  PROVE  IInv'
<1> USE DEF IInv, vars, frameVars, lockVars, queueVars, storeVars, localVars, userVars
<1>1. TypeOK'
  BY DEF TypeOK, FrameTypeOK, QueueTypeOK
<1>2. LocalsOK' /\ LoadersOK' /\ EvictorsOK' /\ QueuedFramesAreCurrent'
  BY DEF LocalsOK, LoadersOK, EvictorsOK, QueuedFramesAreCurrent, NodeIsCurrent
<1>3. SlotsApart' /\ SlotsKept'
  BY SlotsUnmoved
<1>4. DataOK'
  BY DEF DataOK, Referenced, Fixed
<1>5. QED
  BY <1>1, <1>2, <1>3, <1>4

---------------------------------------------------------------------------
(* The theorems. *)

\* IInv is an inductive invariant of the buffer manager.
THEOREM Inductive == Spec => []IInv
<1>1. IInv /\ [Next]_vars => IInv'
  <2> SUFFICES ASSUME IInv, [Next]_vars PROVE IInv'
    OBVIOUS
  <2>1. CASE UNCHANGED vars
    BY <2>1, StutterStep
  <2>2. CASE Restart
    BY <2>2, RestartStep
  <2>3. ASSUME NEW t \in Threads,
               NEW p \in Pages, NEW ex \in BOOLEAN, FixPage(t, p, ex)
        PROVE  IInv'
    BY <2>3, FixPageStep
  <2>4. ASSUME NEW t \in Threads, Advance(t) PROVE IInv'
    BY <2>4, LookupHitStep, LookupMissStep, PopNodeStep, EvictLookupStep, CleanVictimStep,
       EvictDeleteStep, EvictUnlockStep, LoadStep, EnqueueFrameStep, LoadUnlockStep,
       ReturnFrameStep, RetryFixStep
    DEF Advance
  <2>5. ASSUME NEW t \in Threads, EvictLock(t) \/ LockFrame(t) PROVE IInv'
    BY <2>5, EvictLockStep, LockFrameStep
  <2>6. ASSUME NEW t \in Threads, NEW f \in Frames, WritePage(t, f) PROVE IInv'
    BY <2>6, WritePageStep
  <2>7. ASSUME NEW t \in Threads, Unfix(t) PROVE IInv'
    BY <2>7, UnfixPageStep DEF Unfix
  <2>8. QED
    BY <2>1, <2>2, <2>3, <2>4, <2>5, <2>6, <2>7 DEF Next
<1>2. QED
  BY <1>1, InitIInv, PTL DEF Spec

\* The variables keep their types: in particular the thread, frame and node pointers the
\* code dereferences are what the state of the thread says.
THEOREM TypeCorrect == Spec => []TypeOK
<1>1. IInv => TypeOK
  BY DEF IInv
<1>2. QED
  BY <1>1, Inductive, PTL

\* A node in a queue never points to a frame that was destroyed, or is not its page's
\* any more.
THEOREM QueuesAreCurrent == Spec => []QueuedFramesAreCurrent
<1>1. IInv => QueuedFramesAreCurrent
  BY DEF IInv
<1>2. QED
  BY <1>1, Inductive, PTL

\* When both queues are empty every slot is with a thread that loads a page into it; a
\* thread that has no node yet is not one of these, and so there are fewer of them than
\* slots.
LEMMA NodeLeft ==
  ASSUME IInv, NEW t \in Threads, At(t, "evict")
  PROVE  EvictionQueue # <<>>
<1> SUFFICES ASSUME fifo = <<>>, lru = <<>> PROVE FALSE
  BY DEF EvictionQueue
<1> DEFINE Others == Threads \ {t}
           holder == [s \in Slots |-> CHOOSE u \in Others : node[u] # Nil /\ node[u].slot = s]
<1>1. node[t] = Nil
  BY DEF IInv, LocalsOK, At, HasNode, Loading, PreLoad
<1>2. ASSUME NEW s \in Slots
      PROVE  \E u \in Others : node[u] # Nil /\ node[u].slot = s
  BY <1>1, EmptyQueue DEF IInv, SlotsKept
<1>3. holder \in [Slots -> Others]
      /\ \A s \in Slots : node[holder[s]] # Nil /\ node[holder[s]].slot = s
  BY <1>2
<1> HIDE DEF holder
<1>4. /\ IsFiniteSet(Others)
      /\ Cardinality(Others) = Cardinality(Threads) - 1
      /\ Cardinality(Threads) \in Nat
  BY ThreadsAssumption, FS_RemoveElement, FS_CardinalityType
<1>5. IsFiniteSet(Slots) /\ Cardinality(Slots) = Size
  BY FS_Interval, SizeAssumption DEF Slots
<1>6. Cardinality(Others) < Cardinality(Slots)
  BY <1>4, <1>5, ThreadsAssumption, SizeAssumption
<1>7. \E x, y \in Slots : x # y /\ holder[x] = holder[y]
  BY <1>3, <1>4, <1>5, <1>6, FS_PigeonHole
<1>8. QED
  BY <1>3, <1>7

\* evictFrame never finds both queues empty, with no more threads than slots: no thread
\* ever stops at the assertion of BufferReplacementManager.cpp:19.
THEOREM EvictionAlwaysFindsNode == Spec => []EvictionFindsNode
<1>1. IInv => EvictionFindsNode
  BY NodeLeft DEF EvictionFindsNode
<1>2. QED
  BY <1>1, Inductive, PTL

\* A slot of a queue is there once.
LEMMA PlaceInQueue ==
  ASSUME NEW q, Distinct(q), NEW s, s \in SlotsOf(q)
  PROVE  \E i : Places(q, s) = {i}
<1>1. PICK i \in DOMAIN q : q[i].slot = s
  BY DEF SlotsOf, Range
<1>2. Places(q, s) = {i}
  BY <1>1 DEF Distinct, Places
<1>3. QED
  BY <1>2

\* A slot that is not in a queue has no place there.
LEMMA NoPlaceInQueue ==
  ASSUME NEW q, NEW s, s \notin SlotsOf(q)
  PROVE  Places(q, s) = {}
BY DEF SlotsOf, Range, Places

LEMMA OneHolder ==
  ASSUME IInv, NEW s \in Slots
  PROVE  Cardinality(SlotHolders(s)) = 1
<1> DEFINE inNodes == {t \in Threads : node[t] # Nil /\ node[t].slot = s}
<1>1. SlotHolders(s) =
        ({"fifo"} \X Places(fifo, s)) \cup ({"lru"} \X Places(lru, s)) \cup ({"thread"} \X inNodes)
  BY DEF SlotHolders
<1>2. CASE s \in SlotsOf(fifo)
  <2>1. Places(lru, s) = {} /\ inNodes = {}
    BY <1>2, NoPlaceInQueue DEF IInv, SlotsApart
  <2>2. PICK i : Places(fifo, s) = {i}
    BY <1>2, PlaceInQueue DEF IInv, SlotsApart
  <2> HIDE DEF inNodes
  <2>3. SlotHolders(s) = {<<"fifo", i>>}
    BY <1>1, <2>1, <2>2
  <2>4. QED
    BY <2>3, FS_Singleton
<1>3. CASE s \in SlotsOf(lru)
  <2>1. Places(fifo, s) = {} /\ inNodes = {}
    BY <1>3, NoPlaceInQueue DEF IInv, SlotsApart
  <2>2. PICK i : Places(lru, s) = {i}
    BY <1>3, PlaceInQueue DEF IInv, SlotsApart
  <2> HIDE DEF inNodes
  <2>3. SlotHolders(s) = {<<"lru", i>>}
    BY <1>1, <2>1, <2>2
  <2>4. QED
    BY <2>3, FS_Singleton
<1>4. CASE s \notin SlotsOf(fifo) /\ s \notin SlotsOf(lru)
  <2>1. Places(fifo, s) = {} /\ Places(lru, s) = {}
    BY <1>4, NoPlaceInQueue
  <2>2. PICK t \in Threads : node[t] # Nil /\ node[t].slot = s
    BY <1>4 DEF IInv, SlotsKept
  <2>3. inNodes = {t}
    BY <2>2 DEF IInv, SlotsApart
  <2> HIDE DEF inNodes
  <2>4. SlotHolders(s) = {<<"thread", t>>}
    BY <1>1, <2>1, <2>3
  <2>5. QED
    BY <2>4, FS_Singleton
<1>5. QED
  BY <1>2, <1>3, <1>4

\* Eviction neither loses a slot of the buffer's memory nor gives it to two pages.
THEOREM SlotsKeepOneHolder == Spec => []SlotsHaveOneHolder
<1>1. IInv => SlotsHaveOneHolder
  BY OneHolder DEF SlotsHaveOneHolder
<1>2. QED
  BY <1>1, Inductive, PTL


---------------------------------------------------------------------------
(* No thread evicts a page it has fixed for writing itself: the inductive invariant, on    *)
(* top of IInv.                                                                            *)

\* The lock of a frame stops other threads, not its owner: one that evicts a page it has
\* fixed for writing itself gets the lock at once (BufferFrame.cpp:9-22) and deletes the
\* page under its user.  A thread that fixes one page at a time cannot meet it.
SparesOwn == \A t \in Threads : At(t, "evictLock") => victim[t] \notin writeFix[t]

\* Between these labels evictPage has the victim's lock.
HasVictimLock == {"clean", "evictDelete", "evictUnlock"}

\* and between these the victim is deleted.
HasDeleted == {"evictDelete", "evictUnlock"}

\* Thread t has locked frame f: it is loading it, evicting it, about to return it, or its
\* user has it.
OwnsExclusive(t, f) ==
  \/ pc[t] \in Loading \cup {"loadUnlock"} /\ frame[t] = f
  \/ pc[t] \in HasVictimLock /\ victim[t] = f
  \/ pc[t] = "check" /\ frame[t] = f /\ request[t].exclusive
  \/ f \in writeFix[t]

OwnsShared(t, f) ==
  \/ pc[t] = "check" /\ frame[t] = f /\ ~request[t].exclusive
  \/ f \in readFix[t]

\* The locks that are held are those that the threads' states say.
LocksOK ==
  \A t \in Threads, f \in Frames : /\ exclusive[f] = t <=> OwnsExclusive(t, f)
                                   /\ t \in sharers[f] <=> OwnsShared(t, f)

LocksApart == \A f \in Frames : exclusive[f] # Nil => sharers[f] = {}

\* A thread in fixPage asks for a page it has not fixed, and evicts none it has.
FixesOK ==
  \A t \in Threads :
    /\ pc[t] # "idle" => request[t].page \notin FixedPages(t)
    /\ frame[t] # Nil => PageOf(frame[t]) = request[t].page
    /\ pc[t] \in HasVictimLock => victim[t] \notin Fixed(t)
    /\ readFix[t] \cap writeFix[t] = {}
    /\ modified[t] \subseteq writeFix[t]

\* A frame that is not deleted is the frame of its page ...
LiveFramesInTable ==
  /\ \A p \in Pages : table[p] # Nil => PageOf(table[p]) = p
  /\ \A f \in Frames \cap Referenced : state[f] # "deleted" => table[PageOf(f)] = f

\* ... and a deleted one is so only until its evictor takes it out of the table.
DeletedFramesLeave ==
  /\ \A t \in Threads : pc[t] \in HasDeleted => state[victim[t]] = "deleted"
  /\ \A p \in Pages : table[p] # Nil /\ state[table[p]] = "deleted" =>
       \E t \in Threads : pc[t] = "evictDelete" /\ victim[t] = table[p]

FixedFramesLive == \A t \in Threads : \A f \in Fixed(t) : state[f] # "deleted"

\* The slot of a loaded frame is with the frame's node: in a queue, or with the thread
\* that evicts the frame or has just loaded it.
NodeOf(f) ==
  \/ \E n \in Range(fifo) \cup Range(lru) : n.frame = f /\ n.slot = data[f]
  \/ \E t \in Threads : /\ node[t] # Nil
                        /\ node[t].slot = data[f]
                        /\ \/ pc[t] \in Evicting /\ node[t].frame = f
                           \/ pc[t] = "newFrame" /\ frame[t] = f

LoadedFramesHaveNodes == \A p \in Pages : table[p] # Nil /\ data[table[p]] # Nil => NodeOf(table[p])

\* A frame that is in a queue has a node there.
QueuedFramesHaveNodes ==
  \A f \in Frames : queueState[f] # "none" => \E n \in Range(fifo) \cup Range(lru) : n.frame = f

\* A page in memory that is not dirty is as in its file, unless its user has written to it.
CleanFramesAreSaved ==
  \A p \in Pages : table[p] # Nil /\ data[table[p]] # Nil /\ state[table[p]] # "dirty" =>
    \/ mem[data[table[p]]] = disk[p]
    \/ \E t \in Threads : table[p] \in modified[t]

SInv ==
  /\ LocksOK
  /\ LocksApart
  /\ FixesOK
  /\ LiveFramesInTable
  /\ DeletedFramesLeave
  /\ FixedFramesLive
  /\ LoadedFramesHaveNodes
  /\ QueuedFramesHaveNodes
  /\ CleanFramesAreSaved

---------------------------------------------------------------------------
(* Who owns a lock. *)

\* A frame locked exclusively is locked by one thread.
LEMMA OneOwner ==
  ASSUME LocksOK, NEW f \in Frames, NEW t \in Threads, NEW u \in Threads,
         OwnsExclusive(t, f), OwnsExclusive(u, f)
  PROVE  t = u
BY DEF LocksOK

LEMMA OwnerAlone ==
  ASSUME LocksOK, LocksApart, NEW f \in Frames, NEW t \in Threads, NEW u \in Threads,
         OwnsExclusive(t, f)
  PROVE  ~OwnsShared(u, f)
<1>1. exclusive[f] = t /\ t # Nil
  BY NilAssumption DEF LocksOK
<1>2. QED
  BY <1>1 DEF LocksOK, LocksApart

\* Steps that neither lock nor unlock.
LEMMA OwnershipKept ==
  ASSUME LocksOK, LocksApart, UNCHANGED lockVars,
         \A u \in Threads, g \in Frames : /\ OwnsExclusive(u, g)' <=> OwnsExclusive(u, g)
                                          /\ OwnsShared(u, g)' <=> OwnsShared(u, g)
  PROVE  LocksOK' /\ LocksApart'
BY DEF LocksOK, LocksApart, lockVars

\* unlock().
LEMMA OwnershipGivenUp ==
  ASSUME FrameTypeOK, LocksOK, LocksApart, NEW t \in Threads, NEW f \in Frames, Unlock(t, f),
         \A u \in Threads, g \in Frames :
           /\ OwnsExclusive(u, g)' <=> OwnsExclusive(u, g) /\ ~(u = t /\ g = f)
           /\ OwnsShared(u, g)' <=> OwnsShared(u, g) /\ ~(u = t /\ g = f)
  PROVE  LocksOK' /\ LocksApart'
<1>1. LocksOK'
  BY NilAssumption DEF LocksOK, Unlock, FrameTypeOK
<1>2. LocksApart'
  BY DEF LocksApart, Unlock, FrameTypeOK
<1>3. QED
  BY <1>1, <1>2

\* lock(true).
LEMMA ExclusiveTaken ==
  ASSUME FrameTypeOK, LocksOK, LocksApart, NEW t \in Threads, NEW f \in Frames,
         LockExclusive(t, f),
         \A u \in Threads, g \in Frames :
           /\ OwnsExclusive(u, g)' <=> OwnsExclusive(u, g) \/ (u = t /\ g = f)
           /\ OwnsShared(u, g)' <=> OwnsShared(u, g)
  PROVE  LocksOK' /\ LocksApart'
<1>1. LocksOK'
  BY NilAssumption DEF LocksOK, LockExclusive, FrameTypeOK
<1>2. LocksApart'
  BY NilAssumption DEF LocksApart, LockExclusive, FrameTypeOK
<1>3. QED
  BY <1>1, <1>2

\* lock(false).
LEMMA SharedTaken ==
  ASSUME FrameTypeOK, LocksOK, LocksApart, NEW t \in Threads, NEW f \in Frames,
         LockShared(t, f),
         \A u \in Threads, g \in Frames :
           /\ OwnsExclusive(u, g)' <=> OwnsExclusive(u, g)
           /\ OwnsShared(u, g)' <=> OwnsShared(u, g) \/ (u = t /\ g = f)
  PROVE  LocksOK' /\ LocksApart'
<1>1. LocksOK'
  BY DEF LocksOK, LockShared, FrameTypeOK
<1>2. LocksApart'
  BY DEF LocksApart, LockShared, FrameTypeOK
<1>3. QED
  BY <1>1, <1>2

---------------------------------------------------------------------------
(* What steps that change little have in common. *)

\* What threads have fixed, and ask for.
LEMMA FixesKept ==
  ASSUME FixesOK, FixedFramesLive, UNCHANGED <<request, readFix, writeFix, modified>>,
         \A u \in Threads : \A f \in Fixed(u) : state'[f] = state[f],
         \A u \in Threads : /\ pc'[u] # "idle" => pc[u] # "idle"
                            /\ frame'[u] \in {frame[u], Nil}
                            /\ pc'[u] \in HasVictimLock =>
                                 pc[u] \in HasVictimLock /\ victim'[u] = victim[u]
  PROVE  FixesOK' /\ FixedFramesLive'
<1>1. \A u \in Threads : Fixed(u)' = Fixed(u) /\ FixedPages(u)' = FixedPages(u)
  BY DEF Fixed, FixedPages
<1>2. FixesOK'
  BY <1>1 DEF FixesOK
<1>3. FixedFramesLive'
  BY <1>1 DEF FixedFramesLive
<1>4. QED
  BY <1>2, <1>3

\* The frame of a thread in fixPage is not one it has fixed.
LEMMA OwnFrame ==
  ASSUME FixesOK, NEW t \in Threads, pc[t] # "idle", frame[t] # Nil
  PROVE  frame[t] \notin Fixed(t)
BY DEF FixesOK, FixedPages

\* Frames that are neither cleaned nor taken out of the table.
LEMMA FramesKept ==
  ASSUME TypeOK, LiveFramesInTable, DeletedFramesLeave, UNCHANGED <<state, table>>,
         Frames \cap Referenced' \subseteq Referenced,
         \A u \in Threads : /\ pc[u] = "evictDelete" => pc'[u] = "evictDelete"
                            /\ pc'[u] \in HasDeleted =>
                                 pc[u] \in HasDeleted /\ victim'[u] = victim[u]
  PROVE  LiveFramesInTable' /\ DeletedFramesLeave'
<1>1. LiveFramesInTable'
  BY DEF LiveFramesInTable
<1>2. DeletedFramesLeave'
  BY DEF DeletedFramesLeave, HasDeleted
<1>3. QED
  BY <1>1, <1>2

\* The contents of the frames in the table.
LEMMA ContentsKept ==
  ASSUME TypeOK, CleanFramesAreSaved, UNCHANGED <<state, table, mem, disk, modified>>,
         \A p \in Pages : table[p] \in Frames => data'[table[p]] = data[table[p]]
  PROVE  CleanFramesAreSaved'
BY DEF CleanFramesAreSaved, TypeOK

\* Their nodes.
LEMMA NodesKept ==
  ASSUME TypeOK, LoadedFramesHaveNodes, UNCHANGED <<table, node>>,
         \A p \in Pages : table[p] \in Frames => data'[table[p]] = data[table[p]],
         Range(fifo)' \cup Range(lru)' = Range(fifo) \cup Range(lru),
         \A u \in Threads : /\ pc[u] \in Evicting => pc'[u] \in Evicting
                            /\ pc[u] = "newFrame" => pc'[u] = "newFrame" /\ frame'[u] = frame[u]
  PROVE  LoadedFramesHaveNodes'
<1> SUFFICES ASSUME NEW p \in Pages, table[p] # Nil, data[table[p]] # Nil
             PROVE  NodeOf(table[p])'
  BY DEF LoadedFramesHaveNodes, TypeOK
<1>1. NodeOf(table[p]) /\ data'[table[p]] = data[table[p]]
  BY DEF LoadedFramesHaveNodes, TypeOK
<1>2. QED
  BY <1>1 DEF NodeOf

\* Moving nodes between the queues loses none and adds none.
LEMMA SameNodes ==
  ASSUME IInv, QueuedFramesHaveNodes,
         NEW f \in Frames, NEW c \in BOOLEAN,
         IF c THEN UNCHANGED queueVars ELSE Reprioritize(f)
  PROVE  /\ Range(fifo)' \cup Range(lru)' = Range(fifo) \cup Range(lru)
         /\ QueuedFramesHaveNodes'
<1> USE DEF IInv
<1>1. CASE c
  BY <1>1 DEF queueVars, QueuedFramesHaveNodes
<1>2. CASE ~c
  <2>1. /\ QueueTypeOK'
        /\ SlotsOf(fifo)' \cup SlotsOf(lru)' = SlotsOf(fifo) \cup SlotsOf(lru)
        /\ \A g \in Frames : queueState[g] = "none" => queueState'[g] = "none"
        /\ Range(fifo)' \cup Range(lru)' \subseteq Range(fifo) \cup Range(lru)
    BY <1>2, ReprioritizeEffect DEF TypeOK
  <2>2. ASSUME NEW n \in Range(fifo) \cup Range(lru)
        PROVE  n \in Range(fifo)' \cup Range(lru)'
    <3>1. n.slot \in SlotsOf(fifo)' \cup SlotsOf(lru)'
      BY <2>1, QueuedNodes DEF TypeOK, QueueTypeOK
    <3>2. PICK m \in Range(fifo)' \cup Range(lru)' : m.slot = n.slot
      BY <3>1 DEF SlotsOf
    <3>3. m \in Range(fifo) \cup Range(lru)
      BY <2>1
    <3>4. m = n
      BY <3>2, <3>3, NodeOfSlot, QueuedNodes DEF SlotsApart, TypeOK, QueueTypeOK
    <3>5. QED
      BY <3>4
  <2>3. Range(fifo)' \cup Range(lru)' = Range(fifo) \cup Range(lru)
    BY <2>1, <2>2
  <2>4. QueuedFramesHaveNodes'
    <3>1. ASSUME NEW g \in Frames, queueState'[g] # "none"
          PROVE  \E n \in Range(fifo)' \cup Range(lru)' : n.frame = g
      BY <2>1, <2>3, <3>1 DEF QueuedFramesHaveNodes
    <3>2. QED
      BY <3>1 DEF QueuedFramesHaveNodes
  <2>5. QED
    BY <2>3, <2>4
<1>3. QED
  BY <1>1, <1>2
---------------------------------------------------------------------------
(* Every step keeps the invariant: fixPage. *)

LEMMA FixPageKeeps ==
  ASSUME IInv, SInv, NEW t \in Threads, NEW p \in Pages, NEW ex \in BOOLEAN,
         FixPage(t, p, ex)
  PROVE  SInv'
<1> USE DEF SInv, FixPage, At, Goto, frameVars, queueVars, storeVars, localVars, userVars
<1> USE DEF IInv
<1>1. LocksOK' /\ LocksApart'
  BY OwnershipKept DEF TypeOK, OwnsExclusive, OwnsShared, Loading, PreLoad, HasVictimLock
<1>2. FixesOK'
  <2>1. frame[t] = Nil
    BY DEF LocalsOK
  <2>2. \A u \in Threads : Fixed(u)' = Fixed(u) /\ FixedPages(u)' = FixedPages(u)
    BY DEF Fixed, FixedPages
  <2>3. ASSUME NEW u \in Threads
        PROVE  /\ pc'[u] # "idle" => request'[u].page \notin FixedPages(u)
               /\ frame[u] # Nil => PageOf(frame[u]) = request'[u].page
               /\ pc'[u] \in HasVictimLock => victim[u] \notin Fixed(u)
    <3>1. CASE u = t
      BY <2>1, <3>1 DEF TypeOK, HasVictimLock
    <3>2. CASE u # t
      BY <3>2 DEF FixesOK, TypeOK
    <3>3. QED
      BY <3>1, <3>2
  <2>4. QED
    BY <2>2, <2>3 DEF FixesOK
<1>3. FixedFramesLive'
  BY DEF FixedFramesLive, Fixed
<1>4. LiveFramesInTable' /\ DeletedFramesLeave'
  BY FramesKept DEF Referenced, Fixed, TypeOK, HasDeleted
<1>5. CleanFramesAreSaved'
  BY ContentsKept
<1>6. LoadedFramesHaveNodes'
  BY NodesKept DEF TypeOK, Evicting
<1>7. QueuedFramesHaveNodes'
  BY DEF QueuedFramesHaveNodes
<1>8. QED
  BY <1>1, <1>2, <1>3, <1>4, <1>5, <1>6, <1>7

LEMMA LookupHitKeeps ==
  ASSUME IInv, SInv, NEW t \in Threads, LookupHit(t)
  PROVE  SInv'
<1> USE DEF SInv, LookupHit, At, Goto, frameVars, queueVars, storeVars, localVars, userVars
<1> USE DEF IInv
<1>1. LocksOK' /\ LocksApart'
  BY OwnershipKept DEF TypeOK, OwnsExclusive, OwnsShared, Loading, PreLoad, HasVictimLock
<1>2. FixesOK' /\ FixedFramesLive'
  <2>1. \A u \in Threads : Fixed(u)' = Fixed(u) /\ FixedPages(u)' = FixedPages(u)
    BY DEF Fixed, FixedPages
  <2>2. PageOf(frame'[t]) = request[t].page
    BY DEF TypeOK, LocalsOK, Requests, LiveFramesInTable
  <2>3. FixesOK'
    BY <2>1, <2>2 DEF FixesOK, TypeOK, HasVictimLock
  <2>4. FixedFramesLive'
    BY <2>1 DEF FixedFramesLive
  <2>5. QED
    BY <2>3, <2>4
<1>3. LiveFramesInTable' /\ DeletedFramesLeave'
  <2>1. request[t].page \in Pages
    BY DEF LocalsOK, Requests
  <2>2. Referenced' \subseteq Referenced
    BY <2>1 DEF Referenced, Fixed, TypeOK
  <2>3. QED
    BY <2>2, FramesKept DEF TypeOK, HasDeleted
<1>4. CleanFramesAreSaved'
  BY ContentsKept
<1>5. LoadedFramesHaveNodes'
  BY NodesKept DEF TypeOK, Evicting
<1>6. QueuedFramesHaveNodes'
  BY DEF QueuedFramesHaveNodes
<1>7. QED
  BY <1>1, <1>2, <1>3, <1>4, <1>5, <1>6

\* A new frame is nobody's, and nobody owns a lock of it.
LEMMA LookupMissKeeps ==
  ASSUME IInv, SInv, NEW t \in Threads, LookupMiss(t)
  PROVE  SInv'
<1> DEFINE p == request[t].page
           f == NewFrameOf(p)
<1> USE DEF IInv, SInv, At, Goto, frameVars, lockVars, queueVars, storeVars, localVars, userVars
<1>1. pc[t] = "lookup" /\ p \in Pages /\ table[p] = Nil
  BY DEF LookupMiss, TypeOK, LocalsOK, Requests
<1>2. f \in Frames /\ PageOf(f) = p /\ f \notin Referenced
  BY DEF LookupMiss, NewFrameOf, FreshFrames
<1>3. /\ state' = [state EXCEPT ![f] = "clean"]
      /\ data' = [data EXCEPT ![f] = Nil]
      /\ exclusive' = [exclusive EXCEPT ![f] = t]
      /\ sharers' = [sharers EXCEPT ![f] = {}]
      /\ queueState' = [queueState EXCEPT ![f] = "none"]
      /\ table' = [table EXCEPT ![p] = f]
      /\ frame' = [frame EXCEPT ![t] = f]
      /\ created' = [created EXCEPT ![t] = TRUE]
      /\ pc' = [pc EXCEPT ![t] = "evict"]
      /\ UNCHANGED <<fifo, lru, disk, mem, request, node, victim, readFix, writeFix, modified>>
  BY DEF LookupMiss, Construct, ConstructQueueState
<1> HIDE DEF p, f
<1>4. \A u \in Threads : f # frame[u] /\ f # victim[u] /\ f \notin Fixed(u)
  BY <1>2, ReferencedFrames
<1>5. \A q \in Pages : table[q] # f
  BY <1>2, ReferencedFrames
<1>6. LocksOK' /\ LocksApart'
  <2>1. \A u \in Threads : ~OwnsExclusive(u, f) /\ ~OwnsShared(u, f)
    BY <1>4 DEF OwnsExclusive, OwnsShared, Fixed
  <2>2. \A u \in Threads, g \in Frames :
          /\ OwnsExclusive(u, g)' <=> OwnsExclusive(u, g) \/ (u = t /\ g = f)
          /\ OwnsShared(u, g)' <=> OwnsShared(u, g)
    BY <1>1, <1>3 DEF TypeOK, OwnsExclusive, OwnsShared, Loading, PreLoad, HasVictimLock, LocalsOK
  <2>3. exclusive[f] = Nil /\ sharers[f] = {}
    BY <1>2, <2>1 DEF LocksOK, TypeOK, FrameTypeOK
  <2>4. LockExclusive(t, f)
    BY <1>2, <1>3, <2>3 DEF LockExclusive, TypeOK, FrameTypeOK
  <2>5. QED
    BY <1>2, <2>2, <2>4, ExclusiveTaken DEF TypeOK
<1>7. FixesOK' /\ FixedFramesLive'
  <2>1. \A u \in Threads : Fixed(u)' = Fixed(u) /\ FixedPages(u)' = FixedPages(u)
    BY <1>3 DEF Fixed, FixedPages
  <2>2. PageOf(frame'[t]) = request[t].page
    BY <1>2, <1>3 DEF TypeOK, p
  <2>3. FixesOK'
    BY <1>1, <1>3, <2>1, <2>2 DEF FixesOK, TypeOK, HasVictimLock
  <2>4. FixedFramesLive'
    BY <1>3, <1>4, <2>1 DEF FixedFramesLive, Fixed, TypeOK, FrameTypeOK
  <2>5. QED
    BY <2>3, <2>4
<1>8. LiveFramesInTable'
  <2>1. Referenced' \subseteq Referenced \cup {f}
    BY <1>1, <1>3 DEF Referenced, Fixed, TypeOK
  <2>2. ASSUME NEW g \in Frames \cap Referenced', state'[g] # "deleted"
        PROVE  table'[PageOf(g)] = g
    <3>1. CASE g = f
      BY <1>1, <1>2, <1>3, <3>1 DEF TypeOK
    <3>2. CASE g # f
      <4>1. table[PageOf(g)] = g
        BY <1>3, <2>1, <2>2, <3>2 DEF LiveFramesInTable, TypeOK, FrameTypeOK
      <4>2. PageOf(g) # p
        BY <1>1, <4>1, NilAssumption
      <4>3. QED
        BY <1>3, <4>1, <4>2 DEF TypeOK
    <3>3. QED
      BY <3>1, <3>2
  <2>3. \A q \in Pages : table'[q] # Nil => PageOf(table'[q]) = q
    BY <1>1, <1>2, <1>3 DEF LiveFramesInTable, TypeOK
  <2>4. QED
    BY <2>2, <2>3 DEF LiveFramesInTable
<1>9. DeletedFramesLeave'
  BY <1>1, <1>2, <1>3, <1>4, <1>5 DEF DeletedFramesLeave, HasDeleted, TypeOK, FrameTypeOK, LocalsOK, HasVictim
<1>10. CleanFramesAreSaved'
  BY <1>1, <1>2, <1>3, <1>5 DEF CleanFramesAreSaved, TypeOK, FrameTypeOK
<1>11. LoadedFramesHaveNodes'
  <2>1. ASSUME NEW q \in Pages, table'[q] # Nil, data'[table'[q]] # Nil
        PROVE  NodeOf(table[q])'
    <3>1. /\ q # p /\ table'[q] = table[q] /\ table[q] # f /\ table[q] \in Frames
          /\ data'[table[q]] = data[table[q]]
      BY <1>1, <1>2, <1>3, <1>5, <2>1 DEF TypeOK, FrameTypeOK
    <3>2. NodeOf(table[q])
      BY <2>1, <3>1 DEF LoadedFramesHaveNodes
    <3>3. QED
      BY <1>1, <1>3, <3>1, <3>2 DEF NodeOf, Evicting, TypeOK
  <2>2. QED
    BY <2>1 DEF LoadedFramesHaveNodes
<1>12. QueuedFramesHaveNodes'
  BY <1>2, <1>3 DEF QueuedFramesHaveNodes, TypeOK, QueueTypeOK
<1>13. QED
  BY <1>6, <1>7, <1>8, <1>9, <1>10, <1>11, <1>12
---------------------------------------------------------------------------
(* evictPage. *)

LEMMA PopNodeKeeps ==
  ASSUME IInv, SInv, NEW t \in Threads, PopNode(t)
  PROVE  SInv'
<1> DEFINE n == EvictionNode
<1> USE DEF IInv, SInv, At, Goto, frameVars, lockVars, storeVars, localVars, userVars
<1>1. /\ pc[t] = "evict"
      /\ EvictFrame
      /\ node' = [node EXCEPT ![t] = n]
      /\ pc' = [pc EXCEPT ![t] = IF InUse(n) THEN "evictLookup" ELSE "load"]
      /\ UNCHANGED <<frameVars, lockVars, storeVars, table, request, frame, created, victim, userVars>>
  BY DEF PopNode
<1>2. /\ n \in Range(fifo) \cup Range(lru) /\ n \in Nodes
      /\ Range(fifo)' = Range(fifo) \ {n}
      /\ Range(lru)' = Range(lru) \ {n}
      /\ queueState' = IF InUse(n) THEN [queueState EXCEPT ![n.frame] = "none"] ELSE queueState
  BY <1>1, EvictFrameEffect DEF TypeOK, EvictFrame
<1> HIDE DEF n
<1>3. LocksOK' /\ LocksApart'
  BY <1>1, OwnershipKept
  DEF TypeOK, OwnsExclusive, OwnsShared, Loading, PreLoad, HasVictimLock
<1>4. FixesOK' /\ FixedFramesLive'
  BY <1>1, FixesKept DEF TypeOK, HasVictimLock
<1>5. LiveFramesInTable' /\ DeletedFramesLeave'
  <2>1. Referenced' = Referenced
    BY <1>1 DEF Referenced, Fixed
  <2>2. QED
    BY <1>1, <2>1, FramesKept DEF TypeOK, HasDeleted
<1>6. CleanFramesAreSaved'
  BY <1>1, ContentsKept
<1>7. LoadedFramesHaveNodes'
  <2>1. ASSUME NEW p \in Pages, table[p] # Nil, data[table[p]] # Nil
        PROVE  NodeOf(table[p])'
    <3>1. NodeOf(table[p])
      BY <2>1 DEF LoadedFramesHaveNodes
    <3>2. ASSUME NEW m \in Range(fifo) \cup Range(lru), m.frame = table[p], m.slot = data[table[p]]
          PROVE  NodeOf(table[p])'
      <4>1. CASE m = n
        <5>1. InUse(n) /\ pc'[t] = "evictLookup" /\ node'[t] = n
          BY <1>1, <2>1, <3>2, <4>1 DEF InUse, TypeOK
        <5>2. node'[t] # Nil
          BY <1>2, <5>1, NoNodeAssumption
        <5>3. node'[t].frame = table[p] /\ node'[t].slot = data[table[p]]
          BY <3>2, <4>1, <5>1
        <5>4. data' = data /\ table' = table
          BY <1>1
        <5>5. QED
          BY <5>1, <5>2, <5>3, <5>4 DEF NodeOf, Evicting
      <4>2. CASE m # n
        BY <1>1, <1>2, <3>2, <4>2 DEF NodeOf
      <4>3. QED
        BY <4>1, <4>2
    <3>3. ASSUME NEW u \in Threads,
                 node[u] # Nil, node[u].slot = data[table[p]],
                 \/ pc[u] \in Evicting /\ node[u].frame = table[p]
                 \/ pc[u] = "newFrame" /\ frame[u] = table[p]
          PROVE  NodeOf(table[p])'
      <4>1. u # t
        BY <1>1, <3>3 DEF Evicting
      <4>2. node'[u] = node[u] /\ pc'[u] = pc[u] /\ frame'[u] = frame[u]
        BY <1>1, <4>1 DEF TypeOK
      <4>3. QED
        BY <1>1, <3>3, <4>2 DEF NodeOf
    <3>4. QED
      BY <3>1, <3>2, <3>3 DEF NodeOf
  <2>2. QED
    BY <1>1, <2>1 DEF LoadedFramesHaveNodes
<1>8. QueuedFramesHaveNodes'
  <2>1. ASSUME NEW f \in Frames, queueState'[f] # "none"
        PROVE  \E m \in Range(fifo)' \cup Range(lru)' : m.frame = f
    <3>1. queueState[f] # "none" /\ f # n.frame
      BY <1>2, <2>1, NilAssumption DEF InUse, TypeOK, QueueTypeOK, Nodes
    <3>2. QED
      BY <1>2, <3>1 DEF QueuedFramesHaveNodes
  <2>2. QED
    BY <2>1 DEF QueuedFramesHaveNodes
<1>9. QED
  BY <1>3, <1>4, <1>5, <1>6, <1>7, <1>8

LEMMA EvictLookupKeeps ==
  ASSUME IInv, SInv, NEW t \in Threads, EvictLookup(t)
  PROVE  SInv'
<1> USE DEF IInv, SInv, EvictLookup, At, Goto, frameVars, queueVars, storeVars, localVars, userVars
<1>1. LocksOK' /\ LocksApart'
  BY OwnershipKept DEF TypeOK, OwnsExclusive, OwnsShared, Loading, PreLoad, HasVictimLock
<1>2. FixesOK' /\ FixedFramesLive'
  BY FixesKept DEF TypeOK, HasVictimLock
<1>3. LiveFramesInTable' /\ DeletedFramesLeave'
  <2>1. PageOf(node[t].frame) \in Pages
    BY DEF LocalsOK, Evicting, Frames, PageOf
  <2>2. Referenced' \subseteq Referenced
    BY <2>1 DEF Referenced, Fixed, TypeOK
  <2>3. QED
    BY <2>2, FramesKept DEF TypeOK, HasDeleted
<1>4. CleanFramesAreSaved'
  BY ContentsKept
<1>5. LoadedFramesHaveNodes'
  BY NodesKept DEF TypeOK, Evicting
<1>6. QueuedFramesHaveNodes'
  BY DEF QueuedFramesHaveNodes
<1>7. QED
  BY <1>1, <1>2, <1>3, <1>4, <1>5, <1>6

LEMMA EvictLockKeeps ==
  ASSUME IInv, SInv, SparesOwn, NEW t \in Threads, EvictLock(t)
  PROVE  SInv'
<1> USE DEF IInv, SInv, EvictLock, At, Goto, frameVars, queueVars, storeVars, localVars, userVars
<1>1. LocksOK' /\ LocksApart'
  <2>1. victim[t] \in Frames
    BY DEF LocalsOK, HasVictim
  <2>2. LockExclusive(t, victim[t])
    BY DEF Lock
  <2>3. \A u \in Threads, g \in Frames :
          /\ OwnsExclusive(u, g)' <=> OwnsExclusive(u, g) \/ (u = t /\ g = victim[t])
          /\ OwnsShared(u, g)' <=> OwnsShared(u, g)
    BY DEF TypeOK, OwnsExclusive, OwnsShared, Loading, PreLoad, HasVictimLock
  <2>4. QED
    BY <2>1, <2>2, <2>3, ExclusiveTaken DEF TypeOK
<1>2. FixesOK' /\ FixedFramesLive'
  <2>1. \A u \in Threads : Fixed(u)' = Fixed(u) /\ FixedPages(u)' = FixedPages(u)
    BY DEF Fixed, FixedPages
  <2>2. victim[t] \in Frames /\ LockExclusive(t, victim[t])
    BY DEF LocalsOK, HasVictim, Lock
  <2>3. victim[t] \notin writeFix[t]
    BY DEF SparesOwn
\* It would wait for itself if it had the page fixed for reading.
  <2>4. ASSUME victim[t] \in readFix[t] PROVE FALSE
    <3>1. t \in sharers[victim[t]]
      BY <2>2, <2>4 DEF LocksOK, OwnsShared
    <3>2. QED
      BY <2>2, <3>1, NilAssumption DEF LockExclusive, LocksApart
  <2>5. victim[t] \notin Fixed(t)
    BY <2>3, <2>4 DEF Fixed
  <2>6. FixesOK'
    BY <2>1, <2>5 DEF FixesOK, TypeOK, HasVictimLock
  <2>7. FixedFramesLive'
    BY <2>1 DEF FixedFramesLive
  <2>8. QED
    BY <2>6, <2>7
<1>3. LiveFramesInTable' /\ DeletedFramesLeave'
  <2>1. Referenced' = Referenced
    BY DEF Referenced, Fixed
  <2>2. QED
    BY <2>1, FramesKept DEF TypeOK, HasDeleted
<1>4. CleanFramesAreSaved'
  BY ContentsKept
<1>5. LoadedFramesHaveNodes'
  BY NodesKept DEF TypeOK, Evicting
<1>6. QueuedFramesHaveNodes'
  BY DEF QueuedFramesHaveNodes
<1>7. QED
  BY <1>1, <1>2, <1>3, <1>4, <1>5, <1>6

\* What is known of a frame that is being evicted: it is in the table, with its node's
\* slot, and no other thread evicts it.
LEMMA Victim ==
  ASSUME IInv, NEW t \in Threads, pc[t] \in Evicting \cap HasVictim
  PROVE  /\ victim[t] \in Frames /\ PageOf(victim[t]) \in Pages
         /\ node[t] # Nil /\ node[t] \in Nodes
         /\ victim[t] = node[t].frame
         /\ table[PageOf(victim[t])] = victim[t]
         /\ data[victim[t]] = node[t].slot /\ node[t].slot \in Slots
         /\ frame[t] \in Frames /\ frame[t] # victim[t]
         /\ \A u \in Threads : pc[u] \in Evicting \cap HasVictim /\ victim[u] = victim[t] => u = t
<1> USE DEF IInv
<1>1. ASSUME NEW u \in Threads, pc[u] \in Evicting \cap HasVictim
      PROVE  /\ victim[u] \in Frames /\ PageOf(victim[u]) \in Pages
             /\ node[u] # Nil /\ node[u] \in Nodes
             /\ victim[u] = node[u].frame
             /\ table[PageOf(victim[u])] = victim[u]
             /\ data[victim[u]] = node[u].slot /\ node[u].slot \in Slots
  <2>1. victim[u] \in Frames /\ victim[u] = node[u].frame /\ node[u] # Nil
    BY <1>1 DEF LocalsOK, HasVictim, Evicting, HasNode, Loading, PreLoad
  <2>2. node[u] \in Nodes /\ InUse(node[u])
    BY <2>1, NilAssumption DEF TypeOK, InUse
  <2>3. NodeIsCurrent(node[u], "none")
    BY <1>1 DEF EvictorsOK
  <2>4. QED
    BY <2>1, <2>2, <2>3 DEF NodeIsCurrent, Nodes, Frames, PageOf
<1>2. ASSUME NEW u \in Threads, pc[u] \in Evicting \cap HasVictim, victim[u] = victim[t]
      PROVE  u = t
  BY <1>1, <1>2 DEF SlotsApart
<1>3. frame[t] \in Frames /\ data[frame[t]] = Nil
  BY DEF LocalsOK, LoadersOK, Evicting, HasVictim, Loading, PreLoad
<1>4. frame[t] # victim[t]
  BY <1>1, <1>3, NilAssumption
<1>5. QED
  BY <1>1, <1>2, <1>3, <1>4

LEMMA CleanVictimKeeps ==
  ASSUME IInv, SInv, NEW t \in Threads, CleanVictim(t)
  PROVE  SInv'
<1> DEFINE f == victim[t]
           p == PageOf(f)
<1> USE DEF IInv, SInv, At, Goto, frameVars, lockVars, queueVars, storeVars, localVars, userVars
<1>1. /\ pc[t] = "clean"
      /\ state[f] # "deleted"
      /\ disk' = IF state[f] = "dirty" THEN [disk EXCEPT ![p] = mem[data[f]]] ELSE disk
      /\ state' = [state EXCEPT ![f] = "deleted"]
      /\ pc' = [pc EXCEPT ![t] = "evictDelete"]
      /\ UNCHANGED <<data, lockVars, queueVars, mem, table, localVars, userVars>>
  BY DEF CleanVictim, CleanFrame
<1>2. /\ f \in Frames /\ p \in Pages /\ table[p] = f
      /\ data[f] \in Slots /\ data[f] # Nil
  BY <1>1, Victim, NilAssumption DEF Evicting, HasVictim
<1> HIDE DEF f, p
<1>3. \A u \in Threads : f \notin Fixed(u)
  <2>1. OwnsExclusive(t, f)
    BY <1>1 DEF OwnsExclusive, HasVictimLock, f
  <2>2. ASSUME NEW u \in Threads, f \in writeFix[u] PROVE FALSE
    <3>1. OwnsExclusive(u, f)
      BY <2>2 DEF OwnsExclusive
    <3>2. u = t
      BY <1>2, <2>1, <3>1, OneOwner
    <3>3. QED
      BY <1>1, <2>2, <3>2 DEF FixesOK, Fixed, HasVictimLock, f
  <2>3. ASSUME NEW u \in Threads, f \in readFix[u] PROVE FALSE
    BY <1>2, <2>1, <2>3, OwnerAlone DEF OwnsShared
  <2>4. QED
    BY <2>2, <2>3 DEF Fixed
<1>4. LocksOK' /\ LocksApart'
  BY <1>1, OwnershipKept
  DEF TypeOK, OwnsExclusive, OwnsShared, Loading, PreLoad, HasVictimLock
<1>5. \A u \in Threads : \A g \in Fixed(u) : state'[g] = state[g]
  BY <1>1, <1>3 DEF Fixed, TypeOK, FrameTypeOK
<1>6. FixesOK' /\ FixedFramesLive'
  BY <1>1, <1>5, FixesKept DEF TypeOK, HasVictimLock
<1>7. LiveFramesInTable'
  <2>1. Referenced' = Referenced
    BY <1>1 DEF Referenced, Fixed
  <2>2. QED
    BY <1>1, <1>2, <2>1 DEF LiveFramesInTable, TypeOK, FrameTypeOK
<1>8. DeletedFramesLeave'
  <2>1. ASSUME NEW u \in Threads, pc'[u] \in HasDeleted PROVE state'[victim[u]] = "deleted"
    <3>1. CASE u = t
      BY <1>1, <1>2, <3>1 DEF TypeOK, FrameTypeOK, f
    <3>2. CASE u # t
      BY <1>1, <2>1, <3>2 DEF DeletedFramesLeave, HasDeleted, TypeOK, FrameTypeOK, LocalsOK, HasVictim
    <3>3. QED
      BY <3>1, <3>2
  <2>2. ASSUME NEW q \in Pages, table[q] # Nil, state'[table[q]] = "deleted"
        PROVE  \E u \in Threads : pc'[u] = "evictDelete" /\ victim[u] = table[q]
    <3>1. CASE table[q] = f
      BY <1>1, <3>1 DEF TypeOK, f
    <3>2. CASE table[q] # f
      <4>1. state[table[q]] = "deleted"
        BY <1>1, <1>2, <2>2, <3>2 DEF TypeOK, FrameTypeOK
      <4>2. PICK u \in Threads : pc[u] = "evictDelete" /\ victim[u] = table[q]
        BY <2>2, <4>1 DEF DeletedFramesLeave
      <4>3. QED
        BY <1>1, <4>2 DEF TypeOK
    <3>3. QED
      BY <3>1, <3>2
  <2>3. QED
    BY <1>1, <2>1, <2>2 DEF DeletedFramesLeave
<1>9. CleanFramesAreSaved'
  <2>1. ASSUME NEW q \in Pages, table[q] # Nil, data[table[q]] # Nil, state'[table[q]] # "dirty"
        PROVE  \/ mem[data[table[q]]] = disk'[q]
               \/ \E u \in Threads : table[q] \in modified[u]
    <3>1. CASE q = p
      <4>1. table[q] = f /\ \A u \in Threads : f \notin modified[u]
        BY <1>2, <1>3, <3>1 DEF FixesOK, Fixed
      <4>2. CASE state[f] = "dirty"
        BY <1>1, <1>2, <3>1, <4>1, <4>2 DEF TypeOK
      <4>3. CASE state[f] # "dirty"
        BY <1>1, <1>2, <2>1, <3>1, <4>1, <4>3 DEF CleanFramesAreSaved
      <4>4. QED
        BY <4>2, <4>3
    <3>2. CASE q # p
      <4>1. table[q] # f
        <5>1. ASSUME table[q] = f PROVE FALSE
          BY <2>1, <3>2, <5>1 DEF LiveFramesInTable, p
        <5>2. QED
          BY <5>1
      <4>2. state'[table[q]] = state[table[q]] /\ disk'[q] = disk[q]
        BY <1>1, <1>2, <2>1, <3>2, <4>1 DEF TypeOK, FrameTypeOK
      <4>3. QED
        BY <2>1, <4>2 DEF CleanFramesAreSaved
    <3>3. QED
      BY <3>1, <3>2
  <2>2. QED
    BY <1>1, <2>1 DEF CleanFramesAreSaved
<1>10. LoadedFramesHaveNodes'
  BY <1>1, NodesKept DEF TypeOK, Evicting
<1>11. QueuedFramesHaveNodes'
  BY <1>1 DEF QueuedFramesHaveNodes
<1>12. QED
  BY <1>4, <1>6, <1>7, <1>8, <1>9, <1>10, <1>11
LEMMA EvictDeleteKeeps ==
  ASSUME IInv, SInv, NEW t \in Threads, EvictDelete(t)
  PROVE  SInv'
<1> DEFINE f == victim[t]
           p == PageOf(f)
<1> USE DEF IInv, SInv, At, Goto, frameVars, lockVars, queueVars, storeVars, localVars, userVars
<1>1. /\ pc[t] = "evictDelete"
      /\ table' = [table EXCEPT ![p] = Nil]
      /\ pc' = [pc EXCEPT ![t] = "evictUnlock"]
      /\ UNCHANGED <<frameVars, lockVars, queueVars, storeVars, localVars, userVars>>
  <2>1. pc[t] = "evictDelete"
    BY DEF EvictDelete
  <2>2. f = node[t].frame
    BY <2>1, Victim DEF Evicting, HasVictim
  <2>3. QED
    BY <2>1, <2>2 DEF EvictDelete
<1>2. /\ f \in Frames /\ p \in Pages /\ table[p] = f
      /\ data[f] = node[t].slot
      /\ node[t] # Nil
      /\ \A u \in Threads : pc[u] \in Evicting \cap HasVictim /\ victim[u] = f => u = t
  BY <1>1, Victim DEF Evicting, HasVictim
<1>3. state[f] = "deleted"
  BY <1>1 DEF DeletedFramesLeave, HasDeleted
<1> HIDE DEF f, p
<1>4. LocksOK' /\ LocksApart'
  BY <1>1, OwnershipKept
  DEF TypeOK, OwnsExclusive, OwnsShared, Loading, PreLoad, HasVictimLock
<1>5. FixesOK' /\ FixedFramesLive'
  BY <1>1, FixesKept DEF TypeOK, HasVictimLock
<1>6. LiveFramesInTable'
  <2>1. Frames \cap Referenced' \subseteq Referenced
    BY <1>1, <1>2, NilAssumption DEF Referenced, Fixed, TypeOK
  <2>2. ASSUME NEW g \in Frames \cap Referenced, state[g] # "deleted"
        PROVE  table'[PageOf(g)] = g
    <3>1. table[PageOf(g)] = g
      BY <2>2 DEF LiveFramesInTable
    <3>2. PageOf(g) # p
      BY <1>2, <1>3, <2>2, <3>1
    <3>3. QED
      BY <1>1, <3>1, <3>2 DEF TypeOK
  <2>3. \A q \in Pages : table'[q] # Nil => PageOf(table'[q]) = q
    BY <1>1, <1>2 DEF LiveFramesInTable, TypeOK
  <2>4. QED
    BY <1>1, <2>1, <2>2, <2>3 DEF LiveFramesInTable
<1>7. DeletedFramesLeave'
  <2>1. ASSUME NEW q \in Pages, table'[q] # Nil, state[table'[q]] = "deleted"
        PROVE  \E u \in Threads : pc'[u] = "evictDelete" /\ victim[u] = table'[q]
    <3>1. q # p /\ table'[q] = table[q]
      BY <1>1, <1>2, <2>1 DEF TypeOK
    <3>2. PICK u \in Threads : pc[u] = "evictDelete" /\ victim[u] = table[q]
      BY <2>1, <3>1 DEF DeletedFramesLeave
    <3>3. u # t
      BY <2>1, <3>1, <3>2 DEF LiveFramesInTable, p, f
    <3>4. QED
      BY <1>1, <3>1, <3>2, <3>3 DEF TypeOK
  <2>2. QED
    BY <1>1, <2>1 DEF DeletedFramesLeave, HasDeleted, TypeOK
<1>8. CleanFramesAreSaved'
  BY <1>1, <1>2 DEF CleanFramesAreSaved, TypeOK
<1>9. LoadedFramesHaveNodes'
  <2>1. ASSUME NEW q \in Pages, q # p, table[q] # Nil, data[table[q]] # Nil
        PROVE  NodeOf(table[q])'
    <3>1. NodeOf(table[q]) /\ table'[q] = table[q] /\ data' = data
      BY <1>1, <2>1 DEF LoadedFramesHaveNodes, TypeOK
    <3>2. table[q] # f
      BY <2>1 DEF LiveFramesInTable, p
    <3>3. node[t].frame # table[q]
      BY <1>1, <3>2, Victim DEF f, Evicting, HasVictim
    <3>4. ASSUME NEW u \in Threads,
                 node[u] # Nil, node[u].slot = data[table[q]],
                 \/ pc[u] \in Evicting /\ node[u].frame = table[q]
                 \/ pc[u] = "newFrame" /\ frame[u] = table[q]
          PROVE  NodeOf(table[q])'
      <4>1. u # t
        BY <1>1, <3>3, <3>4
      <4>2. node'[u] = node[u] /\ pc'[u] = pc[u] /\ frame'[u] = frame[u]
        BY <1>1, <4>1 DEF TypeOK
      <4>3. QED
        BY <3>1, <3>4, <4>2 DEF NodeOf
    <3>5. ASSUME NEW n \in Range(fifo) \cup Range(lru), n.frame = table[q], n.slot = data[table[q]]
          PROVE  NodeOf(table[q])'
      BY <1>1, <3>1, <3>5 DEF NodeOf
    <3>6. QED
      BY <3>1, <3>4, <3>5 DEF NodeOf
  <2>2. QED
    BY <1>1, <1>2, <2>1 DEF LoadedFramesHaveNodes, TypeOK
<1>10. QueuedFramesHaveNodes'
  BY <1>1 DEF QueuedFramesHaveNodes
<1>11. QED
  BY <1>4, <1>5, <1>6, <1>7, <1>8, <1>9, <1>10
LEMMA EvictUnlockKeeps ==
  ASSUME IInv, SInv, NEW t \in Threads, EvictUnlock(t)
  PROVE  SInv'
<1> USE DEF IInv, SInv, At, Goto, queueVars, storeVars, localVars, userVars
<1>1. /\ pc[t] = "evictUnlock"
      /\ Unlock(t, victim[t])
      /\ victim' = [victim EXCEPT ![t] = Nil]
      /\ pc' = [pc EXCEPT ![t] = "load"]
      /\ UNCHANGED <<state, queueVars, storeVars, table, request, frame, created, node, userVars>>
      /\ DestroyUnreferenced
  BY DEF EvictUnlock
<1>2. \A p \in Pages : table[p] \in Frames => data'[table[p]] = data[table[p]]
  BY <1>1, DestroyEffect DEF TypeOK
<1>3. victim[t] \in Frames /\ victim[t] \notin Fixed(t)
  BY <1>1 DEF LocalsOK, HasVictim, FixesOK, HasVictimLock
\* The frame that is being loaded is in the table; the victim is not any more.
<1>4. frame[t] # victim[t]
  <2>1. frame[t] \in Frames /\ table[PageOf(frame[t])] = frame[t]
    BY <1>1 DEF LocalsOK, LoadersOK, Loading, PreLoad
  <2>2. PageOf(frame[t]) \in Pages /\ frame[t] # Nil
    BY <2>1, NilAssumption DEF Frames, PageOf
  <2>3. ASSUME frame[t] = victim[t] PROVE FALSE
    <3>1. state[frame[t]] = "deleted"
      BY <1>1, <2>3 DEF DeletedFramesLeave, HasDeleted
    <3>2. PICK u \in Threads : pc[u] = "evictDelete" /\ victim[u] = frame[t]
      BY <2>1, <2>2, <3>1 DEF DeletedFramesLeave
    <3>3. OwnsExclusive(u, frame[t]) /\ OwnsExclusive(t, frame[t])
      BY <1>1, <2>3, <3>2 DEF OwnsExclusive, HasVictimLock
    <3>4. QED
      BY <1>1, <2>1, <3>2, <3>3, OneOwner
  <2>4. QED
    BY <2>3
<1>5. LocksOK' /\ LocksApart'
  <2>1. \A u \in Threads, g \in Frames :
          /\ OwnsExclusive(u, g)' <=> OwnsExclusive(u, g) /\ ~(u = t /\ g = victim[t])
          /\ OwnsShared(u, g)' <=> OwnsShared(u, g) /\ ~(u = t /\ g = victim[t])
    BY <1>1, <1>3, <1>4, NilAssumption
    DEF TypeOK, OwnsExclusive, OwnsShared, Fixed, Loading, PreLoad, HasVictimLock
  <2>2. QED
    BY <1>1, <1>3, <2>1, OwnershipGivenUp DEF TypeOK
<1>6. FixesOK' /\ FixedFramesLive'
  BY <1>1, FixesKept DEF TypeOK, HasVictimLock
<1>7. LiveFramesInTable' /\ DeletedFramesLeave'
  <2>1. Frames \cap Referenced' \subseteq Referenced
    BY <1>1, NilAssumption DEF Referenced, Fixed, TypeOK
  <2>2. QED
    BY <1>1, <2>1, FramesKept DEF TypeOK, HasDeleted
<1>8. CleanFramesAreSaved'
  BY <1>1, <1>2, ContentsKept
<1>9. LoadedFramesHaveNodes'
  BY <1>1, <1>2, NodesKept DEF TypeOK, Evicting
<1>10. QueuedFramesHaveNodes'
  BY <1>1 DEF QueuedFramesHaveNodes
<1>11. QED
  BY <1>5, <1>6, <1>7, <1>8, <1>9, <1>10

---------------------------------------------------------------------------
(* Loading the page. *)

\* No two pages are in one slot.
LEMMA OnePagePerSlot ==
  ASSUME IInv, SInv, NEW p \in Pages, NEW q \in Pages,
         table[p] # Nil, table[q] # Nil, data[table[p]] # Nil, data[table[p]] = data[table[q]]
  PROVE  p = q
<1> USE DEF IInv, SInv
<1>1. NodeOf(table[p]) /\ NodeOf(table[q])
  BY DEF LoadedFramesHaveNodes
<1>2. ASSUME NEW m \in Range(fifo) \cup Range(lru), m.frame = table[p], m.slot = data[table[p]]
      PROVE  table[p] = table[q]
  <2>1. m.slot \in SlotsOf(fifo) \cup SlotsOf(lru)
    BY <1>2, QueuedNodes DEF TypeOK, QueueTypeOK
  <2>2. PICK n \in Range(fifo) \cup Range(lru) : n.frame = table[q] /\ n.slot = data[table[q]]
    BY <1>1, <1>2, <2>1 DEF NodeOf, SlotsApart
  <2>3. m = n
    BY <1>2, <2>2, NodeOfSlot, QueuedNodes DEF SlotsApart, TypeOK, QueueTypeOK
  <2>4. QED
    BY <1>2, <2>2, <2>3
<1>3. ASSUME NEW u \in Threads,
             node[u] # Nil, node[u].slot = data[table[p]],
             \/ pc[u] \in Evicting /\ node[u].frame = table[p]
             \/ pc[u] = "newFrame" /\ frame[u] = table[p]
      PROVE  table[p] = table[q]
  <2>1. node[u].slot \notin SlotsOf(fifo) \cup SlotsOf(lru)
    BY <1>3 DEF SlotsApart
  <2>2. \A n \in Range(fifo) \cup Range(lru) : n.slot # data[table[q]]
    BY <1>3, <2>1, QueuedNodes DEF TypeOK, QueueTypeOK
  <2>3. PICK v \in Threads : /\ node[v] # Nil /\ node[v].slot = data[table[q]]
                             /\ \/ pc[v] \in Evicting /\ node[v].frame = table[q]
                                \/ pc[v] = "newFrame" /\ frame[v] = table[q]
    BY <1>1, <2>2 DEF NodeOf
  <2>4. u = v
    BY <1>3, <2>3 DEF SlotsApart
  <2>5. QED
    BY <1>3, <2>3, <2>4 DEF Evicting
<1>4. table[p] = table[q]
  BY <1>1, <1>2, <1>3 DEF NodeOf
<1>5. QED
  BY <1>4 DEF LiveFramesInTable

\* The slot that evictPage returned is no page's.
LEMMA SlotIsFree ==
  ASSUME IInv, SInv, NEW t \in Threads, pc[t] = "load", NEW p \in Pages, table[p] # Nil
  PROVE  data[table[p]] # node[t].slot
<1> USE DEF IInv, SInv
<1> SUFFICES ASSUME data[table[p]] = node[t].slot PROVE FALSE
  OBVIOUS
<1>1. node[t] # Nil /\ node[t].slot \in Slots
  BY DEF LocalsOK, HasNode, Loading, PreLoad, TypeOK, Nodes
<1>2. NodeOf(table[p])
  BY <1>1, NilAssumption DEF LoadedFramesHaveNodes
<1>3. \A n \in Range(fifo) \cup Range(lru) : n.slot # node[t].slot
  BY <1>1, QueuedNodes DEF SlotsApart, TypeOK, QueueTypeOK
<1>4. PICK u \in Threads : /\ node[u] # Nil /\ node[u].slot = node[t].slot
                           /\ pc[u] \in Evicting \cup {"newFrame"}
  BY <1>2, <1>3 DEF NodeOf
<1>5. u = t
  BY <1>1, <1>4 DEF SlotsApart
<1>6. QED
  BY <1>4, <1>5 DEF Evicting

LEMMA LoadKeeps ==
  ASSUME IInv, SInv, NEW t \in Threads, Load(t)
  PROVE  SInv'
<1> DEFINE f == frame[t]
           s == node[t].slot
           p == PageOf(f)
<1> USE DEF IInv, SInv, At, Goto, frameVars, lockVars, queueVars, storeVars, localVars, userVars
<1>1. /\ pc[t] = "load"
      /\ data' = [data EXCEPT ![f] = s]
      /\ mem' = [mem EXCEPT ![s] = disk[p]]
      /\ pc' = [pc EXCEPT ![t] = "newFrame"]
      /\ UNCHANGED <<state, lockVars, queueVars, disk, table, localVars, userVars>>
  BY DEF Load
<1>2. /\ f \in Frames /\ p \in Pages /\ table[p] = f
      /\ node[t] \in Nodes /\ node[t] # Nil /\ s \in Slots
      /\ data[f] = Nil
  BY <1>1 DEF TypeOK, LocalsOK, LoadersOK, HasNode, Loading, PreLoad, Nodes, Frames, PageOf
<1>3. \A q \in Pages : table[q] # Nil => data[table[q]] # s
  BY <1>1, SlotIsFree
<1>4. \A q \in Pages : table[q] = f => q = p
  BY <1>2, NilAssumption DEF LiveFramesInTable
<1> HIDE DEF f, p, s
<1>5. LocksOK' /\ LocksApart'
  BY <1>1, OwnershipKept
  DEF TypeOK, OwnsExclusive, OwnsShared, Loading, PreLoad, HasVictimLock
<1>6. FixesOK' /\ FixedFramesLive'
  BY <1>1, FixesKept DEF TypeOK, HasVictimLock
<1>7. LiveFramesInTable' /\ DeletedFramesLeave'
  <2>1. Referenced' = Referenced
    BY <1>1 DEF Referenced, Fixed
  <2>2. QED
    BY <1>1, <2>1, FramesKept DEF TypeOK, HasDeleted
<1>8. CleanFramesAreSaved'
  <2>1. ASSUME NEW q \in Pages, table[q] # Nil, data'[table[q]] # Nil, state[table[q]] # "dirty"
        PROVE  \/ mem'[data'[table[q]]] = disk[q]
               \/ \E u \in Threads : table[q] \in modified[u]
    <3>1. CASE q = p
      BY <1>1, <1>2, <3>1 DEF TypeOK, FrameTypeOK
    <3>2. CASE q # p
      <4>1. data'[table[q]] = data[table[q]]
        BY <1>1, <1>4, <2>1, <3>2 DEF TypeOK, FrameTypeOK
      <4>2. mem'[data[table[q]]] = mem[data[table[q]]]
        BY <1>1, <1>3, <2>1, <4>1 DEF TypeOK, FrameTypeOK
      <4>3. QED
        BY <2>1, <4>1, <4>2 DEF CleanFramesAreSaved
    <3>3. QED
      BY <3>1, <3>2
  <2>2. QED
    BY <1>1, <2>1 DEF CleanFramesAreSaved
<1>9. LoadedFramesHaveNodes'
  <2>1. ASSUME NEW q \in Pages, table[q] # Nil, data'[table[q]] # Nil
        PROVE  NodeOf(table[q])'
    <3>1. CASE q = p
      <4>1. /\ node'[t] # Nil /\ node'[t].slot = s /\ data'[f] = s
            /\ pc'[t] = "newFrame" /\ frame'[t] = f /\ table'[q] = f
        BY <1>1, <1>2, <3>1 DEF TypeOK, FrameTypeOK, f, s
      <4>2. QED
        BY <1>1, <4>1 DEF NodeOf
    <3>2. CASE q # p
      <4>1. data'[table[q]] = data[table[q]]
        BY <1>1, <1>4, <2>1, <3>2 DEF TypeOK, FrameTypeOK
      <4>2. NodeOf(table[q])
        BY <2>1, <4>1 DEF LoadedFramesHaveNodes
      <4>3. ASSUME NEW u \in Threads,
                   node[u] # Nil, node[u].slot = data[table[q]],
                   \/ pc[u] \in Evicting /\ node[u].frame = table[q]
                   \/ pc[u] = "newFrame" /\ frame[u] = table[q]
            PROVE  NodeOf(table[q])'
        <5>1. u # t
          BY <1>1, <4>3 DEF Evicting
        <5>2. node'[u] = node[u] /\ pc'[u] = pc[u] /\ frame'[u] = frame[u]
          BY <1>1, <5>1 DEF TypeOK
        <5>3. QED
          BY <1>1, <4>1, <4>3, <5>2 DEF NodeOf
      <4>4. ASSUME NEW n \in Range(fifo) \cup Range(lru),
                   n.frame = table[q], n.slot = data[table[q]]
            PROVE  NodeOf(table[q])'
        BY <1>1, <4>1, <4>4 DEF NodeOf
      <4>5. QED
        BY <4>2, <4>3, <4>4 DEF NodeOf
    <3>3. QED
      BY <3>1, <3>2
  <2>2. QED
    BY <1>1, <2>1 DEF LoadedFramesHaveNodes
<1>10. QueuedFramesHaveNodes'
  BY <1>1 DEF QueuedFramesHaveNodes
<1>11. QED
  BY <1>5, <1>6, <1>7, <1>8, <1>9, <1>10

LEMMA EnqueueFrameKeeps ==
  ASSUME IInv, SInv, NEW t \in Threads, EnqueueFrame(t)
  PROVE  SInv'
<1> DEFINE f == frame[t]
           s == node[t].slot
           n == [slot |-> s, frame |-> f]
<1> USE DEF IInv, SInv, At, Goto, frameVars, lockVars, queueVars, storeVars, localVars, userVars
<1>1. /\ pc[t] = "newFrame"
      /\ NewFrame(f)
      /\ node' = [node EXCEPT ![t] = Nil]
      /\ pc' = [pc EXCEPT ![t] = "loadUnlock"]
      /\ UNCHANGED <<frameVars, lockVars, storeVars, table, request, frame, created, victim, userVars>>
  BY DEF EnqueueFrame
<1>2. /\ f \in Frames
      /\ node[t] # Nil /\ s \in Slots
      /\ data[f] = s
      /\ s \notin SlotsOf(fifo)
  BY <1>1 DEF TypeOK, LocalsOK, LoadersOK, HasNode, Loading, PreLoad, Nodes, SlotsApart
<1>3. /\ Range(fifo)' = Range(fifo) \cup {n}
      /\ lru' = lru
      /\ queueState' = [queueState EXCEPT ![f] = "fifo"]
  BY <1>1, <1>2, NewFrameEffect DEF TypeOK
<1>4. n.slot = s /\ n.frame = f
  OBVIOUS
<1> HIDE DEF f, s, n
<1>5. LocksOK' /\ LocksApart'
  BY <1>1, OwnershipKept
  DEF TypeOK, OwnsExclusive, OwnsShared, Loading, PreLoad, HasVictimLock
<1>6. FixesOK' /\ FixedFramesLive'
  BY <1>1, FixesKept DEF TypeOK, HasVictimLock
<1>7. LiveFramesInTable' /\ DeletedFramesLeave'
  <2>1. Referenced' = Referenced
    BY <1>1 DEF Referenced, Fixed
  <2>2. QED
    BY <1>1, <2>1, FramesKept DEF TypeOK, HasDeleted
<1>8. CleanFramesAreSaved'
  BY <1>1, ContentsKept
<1>9. LoadedFramesHaveNodes'
  <2>1. ASSUME NEW q \in Pages, table[q] # Nil, data[table[q]] # Nil
        PROVE  NodeOf(table[q])'
    <3>1. NodeOf(table[q])
      BY <2>1 DEF LoadedFramesHaveNodes
    <3>2. ASSUME NEW m \in Range(fifo) \cup Range(lru), m.frame = table[q], m.slot = data[table[q]]
          PROVE  NodeOf(table[q])'
      BY <1>1, <1>3, <3>2 DEF NodeOf
    <3>3. ASSUME NEW u \in Threads,
                 node[u] # Nil, node[u].slot = data[table[q]],
                 \/ pc[u] \in Evicting /\ node[u].frame = table[q]
                 \/ pc[u] = "newFrame" /\ frame[u] = table[q]
          PROVE  NodeOf(table[q])'
      <4>1. CASE u = t
        <5>1. f = table[q] /\ data[f] = s
          BY <1>1, <1>2, <3>3, <4>1 DEF Evicting, f
        <5>2. n \in Range(fifo)' /\ data' = data /\ table' = table
          BY <1>1, <1>3
        <5>3. QED
          BY <1>4, <5>1, <5>2 DEF NodeOf
      <4>2. CASE u # t
        <5>1. node'[u] = node[u] /\ pc'[u] = pc[u] /\ frame'[u] = frame[u]
          BY <1>1, <4>2 DEF TypeOK
        <5>2. QED
          BY <1>1, <3>3, <5>1 DEF NodeOf
      <4>3. QED
        BY <4>1, <4>2
    <3>4. QED
      BY <3>1, <3>2, <3>3 DEF NodeOf
  <2>2. QED
    BY <1>1, <2>1 DEF LoadedFramesHaveNodes
<1>10. QueuedFramesHaveNodes'
  <2>1. ASSUME NEW g \in Frames, queueState'[g] # "none"
        PROVE  \E m \in Range(fifo)' \cup Range(lru)' : m.frame = g
    <3>1. CASE g = f
      BY <1>3, <1>4, <3>1
    <3>2. CASE g # f
      BY <1>3, <2>1, <3>2 DEF QueuedFramesHaveNodes, TypeOK, QueueTypeOK
    <3>3. QED
      BY <3>1, <3>2
  <2>2. QED
    BY <2>1 DEF QueuedFramesHaveNodes
<1>11. QED
  BY <1>5, <1>6, <1>7, <1>8, <1>9, <1>10

LEMMA LoadUnlockKeeps ==
  ASSUME IInv, SInv, NEW t \in Threads, LoadUnlock(t)
  PROVE  SInv'
<1> USE DEF IInv, SInv, LoadUnlock, At, Goto, frameVars, queueVars, storeVars, localVars, userVars
<1>1. LocksOK' /\ LocksApart'
  <2>1. frame[t] \in Frames /\ frame[t] \notin Fixed(t)
    BY OwnFrame, NilAssumption DEF LocalsOK
  <2>2. \A u \in Threads, g \in Frames :
          /\ OwnsExclusive(u, g)' <=> OwnsExclusive(u, g) /\ ~(u = t /\ g = frame[t])
          /\ OwnsShared(u, g)' <=> OwnsShared(u, g) /\ ~(u = t /\ g = frame[t])
    BY <2>1 DEF TypeOK, OwnsExclusive, OwnsShared, Fixed, Loading, PreLoad, HasVictimLock
  <2>3. QED
    BY <2>1, <2>2, OwnershipGivenUp DEF TypeOK
<1>2. FixesOK' /\ FixedFramesLive'
  BY FixesKept DEF TypeOK, HasVictimLock
<1>3. LiveFramesInTable' /\ DeletedFramesLeave'
  <2>1. Referenced' = Referenced
    BY DEF Referenced, Fixed
  <2>2. QED
    BY <2>1, FramesKept DEF TypeOK, HasDeleted
<1>4. CleanFramesAreSaved'
  BY ContentsKept
<1>5. LoadedFramesHaveNodes'
  BY NodesKept DEF TypeOK, Evicting
<1>6. QueuedFramesHaveNodes'
  BY DEF QueuedFramesHaveNodes
<1>7. QED
  BY <1>1, <1>2, <1>3, <1>4, <1>5, <1>6

LEMMA LockFrameKeeps ==
  ASSUME IInv, SInv, NEW t \in Threads, LockFrame(t)
  PROVE  SInv'
<1> USE DEF IInv, SInv, LockFrame, At, Goto, frameVars, queueVars, storeVars, localVars, userVars
<1>1. LocksOK' /\ LocksApart'
  <2>1. frame[t] \in Frames /\ request[t].exclusive \in BOOLEAN
    BY DEF LocalsOK, Requests
  <2>2. CASE request[t].exclusive
    <3>1. LockExclusive(t, frame[t])
      BY <2>2 DEF Lock
    <3>2. \A u \in Threads, g \in Frames :
            /\ OwnsExclusive(u, g)' <=> OwnsExclusive(u, g) \/ (u = t /\ g = frame[t])
            /\ OwnsShared(u, g)' <=> OwnsShared(u, g)
      BY <2>2 DEF TypeOK, OwnsExclusive, OwnsShared, Loading, PreLoad, HasVictimLock
    <3>3. QED
      BY <2>1, <3>1, <3>2, ExclusiveTaken DEF TypeOK
  <2>3. CASE ~request[t].exclusive
    <3>1. LockShared(t, frame[t])
      BY <2>3 DEF Lock
    <3>2. \A u \in Threads, g \in Frames :
            /\ OwnsExclusive(u, g)' <=> OwnsExclusive(u, g)
            /\ OwnsShared(u, g)' <=> OwnsShared(u, g) \/ (u = t /\ g = frame[t])
      BY <2>3 DEF TypeOK, OwnsExclusive, OwnsShared, Loading, PreLoad, HasVictimLock
    <3>3. QED
      BY <2>1, <3>1, <3>2, SharedTaken DEF TypeOK
  <2>4. QED
    BY <2>1, <2>2, <2>3
<1>2. FixesOK' /\ FixedFramesLive'
  BY FixesKept DEF TypeOK, HasVictimLock
<1>3. LiveFramesInTable' /\ DeletedFramesLeave'
  <2>1. Referenced' = Referenced
    BY DEF Referenced, Fixed
  <2>2. QED
    BY <2>1, FramesKept DEF TypeOK, HasDeleted
<1>4. CleanFramesAreSaved'
  BY ContentsKept
<1>5. LoadedFramesHaveNodes'
  BY NodesKept DEF TypeOK, Evicting
<1>6. QueuedFramesHaveNodes'
  BY DEF QueuedFramesHaveNodes
<1>7. QED
  BY <1>1, <1>2, <1>3, <1>4, <1>5, <1>6
---------------------------------------------------------------------------
(* fixPage returns, or tries again. *)

LEMMA ReturnFrameKeeps ==
  ASSUME IInv, SInv, NEW t \in Threads, ReturnFrame(t)
  PROVE  SInv'
<1> DEFINE f == frame[t]
<1> USE DEF IInv, SInv, At, Goto, frameVars, lockVars, storeVars, localVars, userVars
<1>1. /\ pc[t] = "check"
      /\ IF created[t] THEN UNCHANGED queueVars ELSE Reprioritize(f)
      /\ state[f] # "deleted"
      /\ pc' = [pc EXCEPT ![t] = "idle"]
      /\ request' = [request EXCEPT ![t] = Nil]
      /\ frame' = [frame EXCEPT ![t] = Nil]
      /\ IF request[t].exclusive
           THEN writeFix' = [writeFix EXCEPT ![t] = @ \cup {f}] /\ readFix' = readFix
           ELSE readFix' = [readFix EXCEPT ![t] = @ \cup {f}] /\ writeFix' = writeFix
      /\ UNCHANGED <<frameVars, lockVars, storeVars, table, node, victim, modified>>
  BY DEF ReturnFrame
<1>2. f \in Frames /\ f # Nil /\ created[t] \in BOOLEAN /\ f \notin Fixed(t)
  BY <1>1, OwnFrame, NilAssumption DEF LocalsOK, TypeOK
<1>3. request[t].exclusive \in BOOLEAN
  BY <1>1 DEF LocalsOK, Requests
<1>4. LocksOK' /\ LocksApart'
  <2>1. ASSUME NEW u \in Threads, NEW g \in Frames
        PROVE  /\ OwnsExclusive(u, g)' <=> OwnsExclusive(u, g)
               /\ OwnsShared(u, g)' <=> OwnsShared(u, g)
    <3>1. CASE u = t
      BY <1>1, <1>2, <1>3, <3>1
      DEF TypeOK, OwnsExclusive, OwnsShared, Fixed, Loading, PreLoad, HasVictimLock
    <3>2. CASE u # t
      BY <1>1, <1>3, <3>2 DEF TypeOK, OwnsExclusive, OwnsShared
    <3>3. QED
      BY <3>1, <3>2
  <2>2. QED
    BY <1>1, <2>1, OwnershipKept
<1>5. FixesOK' /\ FixedFramesLive'
  <2>1. ASSUME NEW u \in Threads, u # t
        PROVE  /\ readFix'[u] = readFix[u] /\ writeFix'[u] = writeFix[u]
               /\ Fixed(u)' = Fixed(u) /\ FixedPages(u)' = FixedPages(u)
               /\ pc'[u] = pc[u] /\ frame'[u] = frame[u] /\ request'[u] = request[u]
    BY <1>1, <2>1 DEF TypeOK, Fixed, FixedPages
  <2>2. /\ pc'[t] = "idle" /\ frame'[t] = Nil
        /\ \/ readFix'[t] = readFix[t] /\ writeFix'[t] = writeFix[t] \cup {f}
           \/ readFix'[t] = readFix[t] \cup {f} /\ writeFix'[t] = writeFix[t]
    BY <1>1, <1>3 DEF TypeOK
  <2>3. modified' = modified /\ victim' = victim /\ state' = state
    BY <1>1
  <2>4. FixesOK'
    <3>1. /\ readFix'[t] \cap writeFix'[t] = {}
          /\ modified'[t] \subseteq writeFix'[t]
      BY <1>2, <2>2, <2>3 DEF FixesOK, Fixed
    <3>2. QED
      BY <2>1, <2>2, <2>3, <3>1 DEF FixesOK, HasVictimLock
  <2>5. FixedFramesLive'
    <3>1. Fixed(t)' \subseteq Fixed(t) \cup {f}
      BY <2>2 DEF Fixed
    <3>2. QED
      BY <1>1, <2>1, <2>3, <3>1 DEF FixedFramesLive
  <2>6. QED
    BY <2>4, <2>5
<1>6. LiveFramesInTable' /\ DeletedFramesLeave'
  <2>1. Frames \cap Referenced' \subseteq Referenced
    <3>1. \A u \in Threads : Fixed(u)' \subseteq Fixed(u) \cup {frame[u]}
      BY <1>1 DEF Fixed, TypeOK
    <3>2. \A u \in Threads : frame'[u] \in {frame[u], Nil}
      BY <1>1 DEF TypeOK
    <3>3. QED
      BY <1>1, <3>1, <3>2, NilAssumption DEF Referenced
  <2>2. QED
    BY <1>1, <2>1, FramesKept DEF TypeOK, HasDeleted
<1>7. CleanFramesAreSaved'
  BY <1>1, ContentsKept
<1>8. LoadedFramesHaveNodes' /\ QueuedFramesHaveNodes'
  <2>1. /\ Range(fifo)' \cup Range(lru)' = Range(fifo) \cup Range(lru)
        /\ QueuedFramesHaveNodes'
    BY <1>1, <1>2, SameNodes
  <2>2. QED
    BY <1>1, <2>1, NodesKept DEF TypeOK, Evicting
<1>9. QED
  BY <1>4, <1>5, <1>6, <1>7, <1>8

LEMMA RetryFixKeeps ==
  ASSUME IInv, SInv, NEW t \in Threads, RetryFix(t)
  PROVE  SInv'
<1> DEFINE f == frame[t]
<1> USE DEF IInv, SInv, At, Goto, storeVars, localVars, userVars
<1>1. /\ pc[t] = "check"
      /\ IF created[t] THEN UNCHANGED queueVars ELSE Reprioritize(f)
      /\ Unlock(t, f)
      /\ pc' = [pc EXCEPT ![t] = "lookup"]
      /\ frame' = [frame EXCEPT ![t] = Nil]
      /\ UNCHANGED <<state, storeVars, table, request, node, victim, userVars>>
      /\ DestroyUnreferenced
  BY DEF RetryFix
<1>2. f \in Frames /\ created[t] \in BOOLEAN /\ f \notin Fixed(t)
  BY <1>1, OwnFrame, NilAssumption DEF LocalsOK, TypeOK
<1>3. \A p \in Pages : table[p] \in Frames => data'[table[p]] = data[table[p]]
  BY <1>1, DestroyEffect DEF TypeOK
<1>4. LocksOK' /\ LocksApart'
  <2>1. \A u \in Threads, g \in Frames :
          /\ OwnsExclusive(u, g)' <=> OwnsExclusive(u, g) /\ ~(u = t /\ g = f)
          /\ OwnsShared(u, g)' <=> OwnsShared(u, g) /\ ~(u = t /\ g = f)
    BY <1>1, <1>2, NilAssumption
    DEF TypeOK, OwnsExclusive, OwnsShared, Fixed, Loading, PreLoad, HasVictimLock
  <2>2. QED
    BY <1>1, <1>2, <2>1, OwnershipGivenUp DEF TypeOK
<1>5. FixesOK' /\ FixedFramesLive'
  BY <1>1, FixesKept DEF TypeOK, HasVictimLock
<1>6. LiveFramesInTable' /\ DeletedFramesLeave'
  <2>1. Frames \cap Referenced' \subseteq Referenced
    BY <1>1, NilAssumption DEF Referenced, Fixed, TypeOK
  <2>2. QED
    BY <1>1, <2>1, FramesKept DEF TypeOK, HasDeleted
<1>7. CleanFramesAreSaved'
  BY <1>1, <1>3, ContentsKept
<1>8. LoadedFramesHaveNodes' /\ QueuedFramesHaveNodes'
  <2>1. /\ Range(fifo)' \cup Range(lru)' = Range(fifo) \cup Range(lru)
        /\ QueuedFramesHaveNodes'
    BY <1>1, <1>2, SameNodes
  <2>2. QED
    BY <1>1, <1>3, <2>1, NodesKept DEF TypeOK, Evicting
<1>9. QED
  BY <1>4, <1>5, <1>6, <1>7, <1>8

---------------------------------------------------------------------------
(* The users, and a new manager. *)

\* A fixed frame is its page's and is loaded; one fixed for writing is nobody else's.
LEMMA FixedFrame ==
  ASSUME IInv, SInv, NEW t \in Threads, NEW f \in Fixed(t)
  PROVE  /\ f \in Frames /\ PageOf(f) \in Pages
         /\ table[PageOf(f)] = f /\ state[f] # "deleted"
         /\ data[f] \in Slots
         /\ f \in writeFix[t] => \A u \in Threads : f \in Fixed(u) => u = t
<1> USE DEF IInv, SInv
<1>1. f \in Frames /\ PageOf(f) \in Pages /\ f \in Referenced
  BY ReferencedFrames DEF Fixed, TypeOK, Frames, PageOf
<1>2. state[f] # "deleted"
  BY DEF FixedFramesLive
<1>3. table[PageOf(f)] = f
  BY <1>1, <1>2 DEF LiveFramesInTable
<1>4. OwnsExclusive(t, f) \/ OwnsShared(t, f)
  BY DEF OwnsExclusive, OwnsShared, Fixed
<1>5. data[f] \in Slots
  <2>1. ASSUME NEW u \in Threads, pc[u] \in PreLoad, frame[u] = f PROVE FALSE
    <3>1. OwnsExclusive(u, f)
      BY <2>1 DEF OwnsExclusive, Loading
    <3>2. u = t
      BY <1>1, <1>4, <3>1, OneOwner, OwnerAlone
    <3>3. QED
      BY <1>1, <2>1, <3>2, OwnFrame, NilAssumption DEF PreLoad
  <2>2. QED
    BY <1>1, <2>1 DEF DataOK
<1>6. ASSUME f \in writeFix[t], NEW u \in Threads, f \in Fixed(u) PROVE u = t
  <2>1. OwnsExclusive(t, f)
    BY <1>6 DEF OwnsExclusive
  <2>2. OwnsExclusive(u, f) \/ OwnsShared(u, f)
    BY <1>6 DEF OwnsExclusive, OwnsShared, Fixed
  <2>3. QED
    BY <1>1, <2>1, <2>2, OneOwner, OwnerAlone
<1>7. QED
  BY <1>1, <1>2, <1>3, <1>5, <1>6

LEMMA WritePageKeeps ==
  ASSUME IInv, SInv, NEW t \in Threads, NEW f \in Frames, WritePage(t, f)
  PROVE  SInv'
<1> USE DEF IInv, SInv, WritePage, At, frameVars, lockVars, queueVars, storeVars, localVars
<1>1. f \in Fixed(t)
  BY DEF Fixed
<1>2. f \in Frames /\ PageOf(f) \in Pages /\ table[PageOf(f)] = f /\ data[f] \in Slots
  BY <1>1, FixedFrame
<1>3. LocksOK' /\ LocksApart'
  BY OwnershipKept DEF OwnsExclusive, OwnsShared
<1>4. FixesOK'
  BY DEF FixesOK, Fixed, FixedPages, TypeOK
<1>5. FixedFramesLive'
  BY DEF FixedFramesLive, Fixed
<1>6. LiveFramesInTable' /\ DeletedFramesLeave'
  <2>1. Referenced' = Referenced
    BY DEF Referenced, Fixed
  <2>2. QED
    BY <2>1, FramesKept
<1>7. CleanFramesAreSaved'
  <2>1. ASSUME NEW q \in Pages, table[q] # Nil, data[table[q]] # Nil, state[table[q]] # "dirty"
        PROVE  \/ mem'[data[table[q]]] = disk[q]
               \/ \E u \in Threads : table[q] \in modified'[u]
    <3>1. CASE q = PageOf(f)
      <4>1. f \in modified'[t]
        BY DEF TypeOK
      <4>2. QED
        BY <1>2, <3>1, <4>1
    <3>2. CASE q # PageOf(f)
      <4>1. data[table[q]] # data[f]
        BY <1>2, <2>1, <3>2, OnePagePerSlot, NilAssumption
      <4>2. mem'[data[table[q]]] = mem[data[table[q]]]
        BY <2>1, <4>1 DEF TypeOK, FrameTypeOK
      <4>3. \A u \in Threads : modified[u] \subseteq modified'[u]
        BY DEF TypeOK
      <4>4. QED
        BY <2>1, <4>2, <4>3 DEF CleanFramesAreSaved
    <3>3. QED
      BY <3>1, <3>2
  <2>2. QED
    BY <2>1 DEF CleanFramesAreSaved
<1>8. LoadedFramesHaveNodes'
  BY NodesKept
<1>9. QueuedFramesHaveNodes'
  BY DEF QueuedFramesHaveNodes
<1>10. QED
  BY <1>3, <1>4, <1>5, <1>6, <1>7, <1>8, <1>9

LEMMA UnfixPageKeeps ==
  ASSUME IInv, SInv, NEW t \in Threads, NEW f \in Frames, NEW isDirty \in BOOLEAN,
         UnfixPage(t, f, isDirty)
  PROVE  SInv'
<1> USE DEF IInv, SInv, At, queueVars, storeVars, localVars
<1>1. /\ pc[t] = "idle"
      /\ f \in Fixed(t)
      /\ f \in modified[t] => isDirty
      /\ state' = IF isDirty THEN [state EXCEPT ![f] = "dirty"] ELSE state
      /\ Unlock(t, f)
      /\ readFix' = [readFix EXCEPT ![t] = @ \ {f}]
      /\ writeFix' = [writeFix EXCEPT ![t] = @ \ {f}]
      /\ modified' = [modified EXCEPT ![t] = @ \ {f}]
      /\ UNCHANGED <<queueVars, storeVars, table, pc, localVars>>
      /\ DestroyUnreferenced
  BY DEF UnfixPage
<1>2. \A p \in Pages : table[p] \in Frames => data'[table[p]] = data[table[p]]
  BY <1>1, DestroyEffect DEF TypeOK
<1>3. PageOf(f) \in Pages /\ table[PageOf(f)] = f /\ state[f] # "deleted"
  BY <1>1, FixedFrame
<1>4. LocksOK' /\ LocksApart'
  <2>1. \A u \in Threads, g \in Frames :
          /\ OwnsExclusive(u, g)' <=> OwnsExclusive(u, g) /\ ~(u = t /\ g = f)
          /\ OwnsShared(u, g)' <=> OwnsShared(u, g) /\ ~(u = t /\ g = f)
    BY <1>1 DEF TypeOK, OwnsExclusive, OwnsShared, Loading, PreLoad, HasVictimLock
  <2>2. QED
    BY <1>1, <2>1, OwnershipGivenUp DEF TypeOK
<1>5. \A u \in Threads : Fixed(u)' \subseteq Fixed(u)
  BY <1>1 DEF Fixed, TypeOK
<1>6. FixesOK'
  <2>1. \A u \in Threads : FixedPages(u)' \subseteq FixedPages(u)
    BY <1>5 DEF FixedPages
  <2>2. \A u \in Threads : /\ readFix'[u] \cap writeFix'[u] = {}
                           /\ modified'[u] \subseteq writeFix'[u]
    BY <1>1 DEF FixesOK, TypeOK
  <2>3. QED
    BY <1>1, <1>5, <2>1, <2>2 DEF FixesOK
<1>7. FixedFramesLive'
  <2>1. ASSUME NEW u \in Threads, NEW g \in Fixed(u)' PROVE state'[g] # "deleted"
    <3>1. g \in Fixed(u) /\ g \in Frames
      BY <1>5 DEF Fixed, TypeOK
    <3>2. QED
      BY <1>1, <3>1 DEF FixedFramesLive, TypeOK, FrameTypeOK
  <2>2. QED
    BY <2>1 DEF FixedFramesLive
<1>8. LiveFramesInTable'
  <2>1. Frames \cap Referenced' \subseteq Referenced
    BY <1>1, <1>5 DEF Referenced
  <2>2. \A g \in Frames : state'[g] # "deleted" => state[g] # "deleted"
    BY <1>1, <1>3 DEF TypeOK, FrameTypeOK
  <2>3. QED
    BY <1>1, <2>1, <2>2 DEF LiveFramesInTable
<1>9. DeletedFramesLeave'
  <2>1. \A g \in Frames : state'[g] = "deleted" <=> state[g] = "deleted"
    BY <1>1, <1>3 DEF TypeOK, FrameTypeOK
  <2>2. \A u \in Threads : pc[u] \in HasDeleted => victim[u] \in Frames
    BY DEF LocalsOK, HasDeleted, HasVictim
  <2>3. QED
    BY <1>1, <2>1, <2>2 DEF DeletedFramesLeave, TypeOK
<1>10. CleanFramesAreSaved'
  <2>1. ASSUME NEW q \in Pages, table[q] # Nil, data'[table[q]] # Nil, state'[table[q]] # "dirty"
        PROVE  \/ mem[data'[table[q]]] = disk[q]
               \/ \E u \in Threads : table[q] \in modified'[u]
    <3>1. table[q] \in Frames /\ data'[table[q]] = data[table[q]]
      BY <1>2, <2>1 DEF TypeOK
    <3>2. CASE table[q] = f
      <4>1. ~isDirty /\ f \notin modified[t] /\ state' = state
        BY <1>1, <2>1, <3>2 DEF TypeOK, FrameTypeOK
      <4>2. modified' = modified
        BY <1>1, <4>1 DEF TypeOK
      <4>3. QED
        BY <2>1, <3>1, <4>1, <4>2 DEF CleanFramesAreSaved
    <3>3. CASE table[q] # f
      <4>1. state'[table[q]] = state[table[q]]
        BY <1>1, <3>1, <3>3 DEF TypeOK, FrameTypeOK
      <4>2. \A u \in Threads : table[q] \in modified[u] => table[q] \in modified'[u]
        BY <1>1, <3>3 DEF TypeOK
      <4>3. QED
        BY <2>1, <3>1, <4>1, <4>2 DEF CleanFramesAreSaved
    <3>4. QED
      BY <3>2, <3>3
  <2>2. QED
    BY <1>1, <2>1 DEF CleanFramesAreSaved
<1>11. LoadedFramesHaveNodes'
  BY <1>1, <1>2, NodesKept
<1>12. QueuedFramesHaveNodes'
  BY <1>1 DEF QueuedFramesHaveNodes
<1>13. QED
  BY <1>4, <1>6, <1>7, <1>8, <1>9, <1>10, <1>11, <1>12

\* No thread is in fixPage or has a page fixed, and no page is in memory.
IsNew ==
  /\ FrameInit
  /\ queueState = [f \in Frames |-> "none"]
  /\ table = [p \in Pages |-> Nil]
  /\ \A t \in Threads : /\ pc[t] = "idle" /\ Fixed(t) = {}
                        /\ frame[t] = Nil /\ victim[t] = Nil /\ modified[t] = {}

LEMMA NewManager == IsNew => SInv
<1> SUFFICES ASSUME IsNew PROVE SInv
  OBVIOUS
<1> USE DEF IsNew
<1>1. LocksOK /\ LocksApart
  BY NilAssumption
  DEF FrameInit, LocksOK, LocksApart, OwnsExclusive, OwnsShared, Fixed, Loading, PreLoad,
      HasVictimLock
<1>2. FixesOK /\ FixedFramesLive
  BY DEF FixesOK, FixedFramesLive, Fixed, HasVictimLock
<1>3. LiveFramesInTable /\ DeletedFramesLeave
  BY DEF FrameInit, LiveFramesInTable, DeletedFramesLeave, HasDeleted
<1>4. LoadedFramesHaveNodes /\ QueuedFramesHaveNodes /\ CleanFramesAreSaved
  BY DEF LoadedFramesHaveNodes, QueuedFramesHaveNodes, CleanFramesAreSaved
<1>5. QED
  BY <1>1, <1>2, <1>3, <1>4 DEF SInv

LEMMA RestartKeeps ==
  ASSUME IInv, SInv, Restart
  PROVE  SInv'
<1>1. \A t \in Threads : At(t, "idle") /\ Fixed(t) = {}
  BY DEF Restart
<1>2. \A t \in Threads : frame[t] = Nil /\ victim[t] = Nil /\ modified[t] = {}
  BY <1>1 DEF IInv, SInv, LocalsOK, At, HasVictim, FixesOK, Fixed
<1>3. /\ FrameInit'
      /\ queueState' = [f \in Frames |-> "none"]
      /\ table' = [p \in Pages |-> Nil]
      /\ UNCHANGED <<pc, localVars, userVars>>
  BY DEF Restart, FrameReset, QueueReset, FrameInit
<1>4. IsNew'
  BY <1>1, <1>2, <1>3 DEF IsNew, At, Fixed, localVars, userVars
<1>5. (IsNew => SInv)'
  BY NewManager, PTL
<1>6. QED
  BY <1>4, <1>5

LEMMA InitSInv == Init => SInv
<1>1. Init => IsNew
  BY DEF Init, QueueInit, IsNew, Fixed
<1>2. QED
  BY <1>1, NewManager

LEMMA StutterKeeps ==
  ASSUME IInv, SInv, UNCHANGED vars
  PROVE  SInv'
<1> USE DEF IInv, SInv, vars, frameVars, lockVars, queueVars, storeVars, localVars, userVars
<1>1. LocksOK' /\ LocksApart'
  BY OwnershipKept DEF OwnsExclusive, OwnsShared
<1>2. FixesOK' /\ FixedFramesLive'
  BY FixesKept
<1>3. LiveFramesInTable' /\ DeletedFramesLeave'
  BY FramesKept DEF Referenced, Fixed
<1>4. CleanFramesAreSaved'
  BY ContentsKept
<1>5. LoadedFramesHaveNodes'
  BY NodesKept
<1>6. QueuedFramesHaveNodes'
  BY DEF QueuedFramesHaveNodes
<1>7. QED
  BY <1>1, <1>2, <1>3, <1>4, <1>5, <1>6
---------------------------------------------------------------------------
(* The theorems about the buffer manager's state. *)

\* The locks are as the threads' states say, fixed frames stay and slots, files and dirty
\* flags agree, as long as no thread evicts a page it has fixed for writing itself.
THEOREM StoreInductive == Spec /\ []SparesOwn => [](IInv /\ SInv)
<1>1. IInv /\ SInv /\ SparesOwn /\ [Next]_vars => SInv'
  <2> SUFFICES ASSUME IInv, SInv, SparesOwn, [Next]_vars PROVE SInv'
    OBVIOUS
  <2>1. CASE UNCHANGED vars
    BY <2>1, StutterKeeps
  <2>2. CASE Restart
    BY <2>2, RestartKeeps
  <2>3. ASSUME NEW t \in Threads,
               NEW p \in Pages, NEW ex \in BOOLEAN, FixPage(t, p, ex)
        PROVE  SInv'
    BY <2>3, FixPageKeeps
  <2>4. ASSUME NEW t \in Threads, Advance(t) PROVE SInv'
    BY <2>4, LookupHitKeeps, LookupMissKeeps, PopNodeKeeps, EvictLookupKeeps, CleanVictimKeeps,
       EvictDeleteKeeps, EvictUnlockKeeps, LoadKeeps, EnqueueFrameKeeps, LoadUnlockKeeps,
       ReturnFrameKeeps, RetryFixKeeps
    DEF Advance
  <2>5. ASSUME NEW t \in Threads, EvictLock(t) \/ LockFrame(t) PROVE SInv'
    BY <2>5, EvictLockKeeps, LockFrameKeeps
  <2>6. ASSUME NEW t \in Threads, NEW f \in Frames, WritePage(t, f) PROVE SInv'
    BY <2>6, WritePageKeeps
  <2>7. ASSUME NEW t \in Threads, Unfix(t) PROVE SInv'
    BY <2>7, UnfixPageKeeps DEF Unfix
  <2>8. QED
    BY <2>1, <2>2, <2>3, <2>4, <2>5, <2>6, <2>7 DEF Next
<1>2. QED
  BY <1>1, Inductive, InitSInv, PTL DEF Spec

LEMMA FixedStay ==
  ASSUME IInv, SInv
  PROVE  FixedPagesStay
BY FixedFrame DEF FixedPagesStay

\* No eviction takes a page away from a user between fixPage and unfixPage, if none takes it
\* from the thread that evicts.
THEOREM FixedPagesAlwaysStay == Spec /\ []SparesOwn => []FixedPagesStay
<1>1. IInv /\ SInv => FixedPagesStay
  BY FixedStay
<1>2. QED
  BY <1>1, StoreInductive, PTL

\* A page that a thread is about to read or write back is the page of a frame in the table,
\* and no other thread has that frame.
LEMMA OneIO ==
  ASSUME IInv
  PROVE  OneIOPerPage
<1> USE DEF IInv
<1> DEFINE Busy(t, f) == \/ pc[t] = "load" /\ f = frame[t]
                         \/ pc[t] = "clean" /\ f = victim[t]
<1>1. ASSUME NEW t \in Threads, NEW p \in PageIO(t)
      PROVE  \E f \in Frames : Busy(t, f) /\ p = PageOf(f) /\ table[p] = f
  <2>1. CASE pc[t] = "load"
    <3>1. p = PageOf(frame[t])
      BY <2>1 DEF PageIO, At
    <3>2. frame[t] \in Frames /\ table[PageOf(frame[t])] = frame[t]
      BY <2>1 DEF LocalsOK, LoadersOK, Loading, PreLoad
    <3>3. QED
      BY <2>1, <3>1, <3>2
  <2>2. CASE pc[t] = "clean"
    <3>1. p = PageOf(victim[t])
      BY <2>2 DEF PageIO, At
    <3>2. QED
      BY <2>2, <3>1, Victim DEF Evicting, HasVictim
  <2>3. CASE pc[t] # "load" /\ pc[t] # "clean"
    BY <2>3 DEF PageIO, At
  <2>4. QED
    BY <2>1, <2>2, <2>3
<1>2. ASSUME NEW t \in Threads, NEW u \in Threads, t # u, NEW f \in Frames, Busy(t, f), Busy(u, f)
      PROVE  FALSE
  <2>1. ASSUME NEW v \in Threads, pc[v] = "load" PROVE data[frame[v]] = Nil
    BY <2>1 DEF LoadersOK, Loading, PreLoad
  <2>2. ASSUME NEW v \in Threads, pc[v] = "clean" PROVE data[victim[v]] # Nil
    BY <2>2, Victim, NilAssumption DEF Evicting, HasVictim
  <2>3. CASE pc[t] = "load" /\ pc[u] = "load"
    BY <1>2, <2>3 DEF LoadersOK, Loading, PreLoad
  <2>4. CASE pc[t] = "clean" /\ pc[u] = "clean"
    BY <1>2, <2>4, Victim DEF Evicting, HasVictim
  <2>5. QED
    BY <1>2, <2>1, <2>2, <2>3, <2>4
<1> HIDE DEF Busy
<1>3. QED
  BY <1>1, <1>2 DEF OneIOPerPage

\* No page of a file is read while it is written back, or written back twice at a time,
\* however many pages users fix.
THEOREM OneIOPerPageAlways == Spec => []OneIOPerPage
<1>1. IInv => OneIOPerPage
  BY OneIO
<1>2. QED
  BY <1>1, Inductive, PTL

---------------------------------------------------------------------------
(* The assertions in the code. *)

\* evictPage's frame is in the table, and not deleted when it gets its lock.
LEMMA EvictionAssertions ==
  ASSUME IInv, SInv, NEW t \in Threads
  PROVE  /\ pc[t] = "evictLookup" => table[PageOf(node[t].frame)] # Nil
         /\ pc[t] = "clean" => state[victim[t]] # "deleted"
<1> USE DEF IInv, SInv
<1>1. ASSUME pc[t] = "evictLookup" PROVE table[PageOf(node[t].frame)] # Nil
  <2>1. node[t].frame \in Frames /\ NodeIsCurrent(node[t], "none")
    BY <1>1 DEF LocalsOK, EvictorsOK, Evicting
  <2>2. QED
    BY <2>1, NilAssumption DEF NodeIsCurrent, InUse
<1>2. ASSUME pc[t] = "clean", state[victim[t]] = "deleted" PROVE FALSE
  <2>1. victim[t] \in Frames /\ PageOf(victim[t]) \in Pages /\ table[PageOf(victim[t])] = victim[t]
    BY <1>2, Victim DEF Evicting, HasVictim
  <2>2. PICK u \in Threads : pc[u] = "evictDelete" /\ victim[u] = victim[t]
    BY <1>2, <2>1, NilAssumption DEF DeletedFramesLeave
  <2>3. u = t
    BY <1>2, <2>2, Victim DEF Evicting, HasVictim
  <2>4. QED
    BY <1>2, <2>2, <2>3
<1>3. QED
  BY <1>1, <1>2

\* queueNode() of a frame that is in a queue points to a node there.
LEMMA NodeIsInQueue ==
  ASSUME IInv, SInv, NEW f \in Frames
  PROVE  /\ queueState[f] = "fifo" => \E i \in DOMAIN fifo : fifo[i].frame = f
         /\ queueState[f] = "lru" => \E i \in DOMAIN lru : lru[i].frame = f
<1> USE DEF IInv, SInv
<1>1. ASSUME NEW n \in Range(fifo), n.frame = f PROVE queueState[f] = "fifo"
  BY <1>1, NilAssumption DEF QueuedFramesAreCurrent, NodeIsCurrent, InUse
<1>2. ASSUME NEW n \in Range(lru), n.frame = f PROVE queueState[f] = "lru"
  BY <1>2, NilAssumption DEF QueuedFramesAreCurrent, NodeIsCurrent, InUse
<1>3. ASSUME queueState[f] = "fifo" PROVE \E i \in DOMAIN fifo : fifo[i].frame = f
  <2>1. PICK n \in Range(fifo) : n.frame = f
    BY <1>2, <1>3 DEF QueuedFramesHaveNodes
  <2>2. QED
    BY <2>1 DEF Range
<1>4. ASSUME queueState[f] = "lru" PROVE \E i \in DOMAIN lru : lru[i].frame = f
  <2>1. PICK n \in Range(lru) : n.frame = f
    BY <1>1, <1>4 DEF QueuedFramesHaveNodes
  <2>2. QED
    BY <2>1 DEF Range
<1>5. QED
  BY <1>3, <1>4

\* Only other threads point to frames of a page that is not in the table, each to one.
LEMMA FrameToSpare ==
  ASSUME IInv, SInv, Cardinality(Threads) <= MaxGeneration + 1,
         NEW t \in Threads, pc[t] = "lookup", NEW p \in Pages, table[p] = Nil
  PROVE  FreshFrames(p) # {}
<1> USE DEF IInv, SInv
<1> SUFFICES ASSUME FreshFrames(p) = {} PROVE FALSE
  OBVIOUS
<1> DEFINE Others == Threads \ {t}
           Generations == 0 .. MaxGeneration
           f(g) == <<p, g>>
           holder == [g \in Generations |-> CHOOSE u \in Others : f(g) \in {frame[u], victim[u]}]
<1>1. ASSUME NEW g \in Generations
      PROVE  \E u \in Others : f(g) \in {frame[u], victim[u]}
  <2>1. f(g) \in Frames /\ PageOf(f(g)) = p
    BY DEF Frames, PageOf
  <2>2. f(g) \in Referenced
    BY <2>1 DEF FreshFrames
  <2>3. ASSUME NEW q \in Pages, table[q] = f(g) PROVE FALSE
    BY <2>1, <2>3, NilAssumption DEF LiveFramesInTable
  <2>4. ASSUME NEW u \in Threads, f(g) \in Fixed(u) PROVE FALSE
    BY <2>1, <2>4, FixedFrame, NilAssumption
  <2>5. PICK u \in Threads : f(g) = frame[u] \/ f(g) = victim[u]
    BY <2>2, <2>3, <2>4, ReferencedFrames
  <2>6. u # t
    BY <2>1, <2>5, NilAssumption DEF LocalsOK, HasVictim
  <2>7. QED
    BY <2>5, <2>6
<1>2. /\ holder \in [Generations -> Others]
      /\ \A g \in Generations : f(g) \in {frame[holder[g]], victim[holder[g]]}
  <2> HIDE DEF f, Others, Generations
  <2>1. QED
    BY <1>1
<1> HIDE DEF holder
<1>3. ASSUME NEW g \in Generations, NEW h \in Generations, holder[g] = holder[h]
      PROVE  g = h
  <2> DEFINE u == holder[g]
  <2>1. u \in Threads /\ f(g) \in {frame[u], victim[u]} /\ f(h) \in {frame[u], victim[u]}
    BY <1>2, <1>3
  <2> HIDE DEF u
  <2>2. ASSUME f(g) # f(h) PROVE FALSE
    <3>1. \/ frame[u] = f(g) /\ victim[u] = f(h)
          \/ frame[u] = f(h) /\ victim[u] = f(g)
      <4> HIDE DEF f
      <4>1. QED
        BY <2>1, <2>2
    <3>2. victim[u] # Nil /\ frame[u] # Nil /\ PageOf(frame[u]) = p
      BY <3>1, NilAssumption DEF Frames, PageOf
    <3>3. pc[u] \in HasVictim
      BY <2>1, <3>2 DEF LocalsOK
    <3>4. table[PageOf(frame[u])] = frame[u]
      BY <2>1, <3>3 DEF LoadersOK, HasVictim, Loading, PreLoad
    <3>5. QED
      BY <3>2, <3>4
  <2>3. QED
    BY <2>2
<1>4. /\ IsFiniteSet(Others)
      /\ Cardinality(Others) = Cardinality(Threads) - 1
      /\ Cardinality(Threads) \in Nat
  BY ThreadsAssumption, FS_RemoveElement, FS_CardinalityType
<1>5. IsFiniteSet(Generations) /\ Cardinality(Generations) = MaxGeneration + 1
  BY FS_Interval, GenerationAssumption
<1>6. Cardinality(Others) < Cardinality(Generations)
  BY <1>4, <1>5, GenerationAssumption
<1>7. \E g, h \in Generations : g # h /\ holder[g] = holder[h]
  <2> HIDE DEF f, Others, Generations
  <2>1. QED
    BY <1>2, <1>4, <1>5, <1>6, FS_PigeonHole
<1>8. QED
  BY <1>3, <1>7

LEMMA Assertions ==
  ASSUME IInv, SInv, Cardinality(Threads) <= MaxGeneration + 1
  PROVE  AssertionsHold
<1>1. SetDirtyAssertion
  BY DEF SetDirtyAssertion, SInv, FixedFramesLive, FixesOK, Fixed
<1>2. ASSUME NEW t \in Threads, pc[t] = "check"
      PROVE  /\ queueState[frame[t]] = "fifo" => \E i \in DOMAIN fifo : fifo[i].frame = frame[t]
             /\ queueState[frame[t]] = "lru" => \E i \in DOMAIN lru : lru[i].frame = frame[t]
  <2>1. frame[t] \in Frames
    BY <1>2 DEF IInv, LocalsOK
  <2>2. QED
    BY <2>1, NodeIsInQueue
<1>3. ASSUME NEW t \in Threads, pc[t] = "lookup", table[request[t].page] = Nil
      PROVE  FreshFrames(request[t].page) # {}
  <2>1. request[t].page \in Pages
    BY <1>3 DEF IInv, LocalsOK, Requests
  <2>2. QED
    BY <1>3, <2>1, FrameToSpare
<1>4. QED
  BY <1>1, <1>2, <1>3, EvictionAssertions DEF AssertionsHold, At

\* The assertions in fixPage, evictPage, unfixPage and setDirty hold if no thread evicts a
\* page it has fixed for writing itself, and a page that is not in the table always gets a
\* frame, if a frame object can exist for every thread.
THEOREM AssertionsAlwaysHold ==
  ASSUME Cardinality(Threads) <= MaxGeneration + 1
  PROVE  Spec /\ []SparesOwn => []AssertionsHold
<1>1. IInv /\ SInv => AssertionsHold
  BY Assertions
<1>2. QED
  BY <1>1, StoreInductive, PTL
---------------------------------------------------------------------------
(* Users that have a page fixed for writing. *)

\* A step writes back the frame of the thread that does it, or everything at a restart.
LEMMA WritesBack ==
  ASSUME IInv, SInv, [Next]_vars, NEW t \in Threads, NEW f \in writeFix[t]
  PROVE  disk'[PageOf(f)] = disk[PageOf(f)]
<1> USE DEF IInv, SInv
<1>1. f \in Fixed(t)
  BY DEF Fixed
<1>2. f \in Frames /\ PageOf(f) \in Pages /\ table[PageOf(f)] = f
  BY <1>1, FixedFrame
<1>3. CASE Restart
  BY <1>1, <1>3 DEF Restart
<1>4. ASSUME NEW u \in Threads, CleanVictim(u)
      PROVE  disk'[PageOf(f)] = disk[PageOf(f)]
  <2>1. pc[u] = "clean"
    BY <1>4 DEF CleanVictim, At
  <2>2. victim[u] \in Frames /\ table[PageOf(victim[u])] = victim[u]
    BY <2>1, Victim DEF Evicting, HasVictim
  <2>3. OwnsExclusive(u, victim[u]) /\ OwnsExclusive(t, f)
    BY <2>1 DEF OwnsExclusive, HasVictimLock
  <2>4. victim[u] # f
    BY <1>1, <1>2, <2>1, <2>3, OneOwner DEF FixesOK, HasVictimLock
  <2>5. PageOf(victim[u]) # PageOf(f)
    BY <1>2, <2>2, <2>4
  <2>6. QED
    BY <1>2, <1>4, <2>5 DEF CleanVictim, CleanFrame, TypeOK
<1>5. CASE \E u \in Threads : /\ Advance(u) \/ EvictLock(u) \/ LockFrame(u) \/ Unfix(u)
                              /\ ~CleanVictim(u)
  <2>1. ASSUME NEW u \in Threads, Advance(u), ~CleanVictim(u)
        PROVE  UNCHANGED disk
    BY <2>1
    DEF Advance, LookupHit, LookupMiss, PopNode, EvictLookup, EvictDelete, EvictUnlock, Load,
        EnqueueFrame, LoadUnlock, ReturnFrame, RetryFix, storeVars
  <2>2. ASSUME NEW u \in Threads, EvictLock(u) \/ LockFrame(u) \/ Unfix(u)
        PROVE  UNCHANGED disk
    BY <2>2 DEF EvictLock, LockFrame, Unfix, UnfixPage, storeVars
  <2>3. QED
    BY <1>5, <2>1, <2>2
<1>6. CASE \E u \in Threads :
             \/ \E p \in Pages, ex \in BOOLEAN : FixPage(u, p, ex)
             \/ \E g \in Frames : WritePage(u, g)
  BY <1>6 DEF FixPage, WritePage, storeVars
<1>7. CASE UNCHANGED vars
  BY <1>7 DEF vars, storeVars
<1>8. QED
  BY <1>3, <1>4, <1>5, <1>6, <1>7 DEF Next

\* "Must not write it back before unfixPage is called" (BufferManager.hpp:55-56): no other
\* thread does; one that fixes two pages can evict one for the other itself, which the run
\* buffer_write_back shows.
THEOREM NoWriteBackOfFixedPages == Spec /\ []SparesOwn => NoWriteBackWhileFixed
<1>1. IInv /\ SInv /\ [Next]_vars =>
        [\A t \in Threads : \A f \in writeFix[t] : disk'[PageOf(f)] = disk[PageOf(f)]]_vars
  BY WritesBack
<1>2. QED
  BY <1>1, StoreInductive, PTL DEF Spec, NoWriteBackWhileFixed
---------------------------------------------------------------------------
(* The buffer manager implements PageStore. *)

ReadersOf(p) == {t \in Threads : \E f \in readFix[t] : PageOf(f) = p}

WritersOf(p) == {t \in Threads : \E f \in writeFix[t] : PageOf(f) = p}

\* Steps that users do not see.
LEMMA ContentsUnseen ==
  ASSUME \A p \in Pages : Content(p)' = Content(p),
         UNCHANGED <<readFix, writeFix>>
  PROVE  UNCHANGED Store!storeVars
BY DEF Store!storeVars

\* Pages are worth the same if the frames in the table keep their slots.
LEMMA SlotsKeepContents ==
  ASSUME TypeOK, UNCHANGED <<table, mem, disk>>,
         \A p \in Pages : table[p] \in Frames => data'[table[p]] = data[table[p]]
  PROVE  \A p \in Pages : Content(p)' = Content(p)
BY DEF Content, TypeOK

\* The readers and the writer of a page are the threads that own its frame's lock.
LEMMA PageUsers ==
  ASSUME IInv, SInv, NEW f \in Frames, table[PageOf(f)] = f, NEW u \in Threads
  PROVE  /\ u \in ReadersOf(PageOf(f)) <=> f \in readFix[u]
         /\ u \in WritersOf(PageOf(f)) <=> f \in writeFix[u]
<1>1. \A g \in Fixed(u) : PageOf(g) = PageOf(f) => g = f
  BY FixedFrame
<1>2. QED
  BY <1>1 DEF ReadersOf, WritersOf, Fixed

LEMMA LookupMissUnseen ==
  ASSUME IInv, SInv, NEW t \in Threads, LookupMiss(t)
  PROVE  UNCHANGED Store!storeVars
<1> DEFINE p == request[t].page
           f == NewFrameOf(p)
<1> USE DEF IInv, SInv
<1>1. p \in Pages /\ table[p] = Nil
  BY DEF LookupMiss, At, TypeOK, LocalsOK, Requests
<1>2. f \in Frames /\ f # Nil /\ f \notin Referenced
  BY NilAssumption DEF LookupMiss, NewFrameOf, FreshFrames
<1>3. /\ data' = [data EXCEPT ![f] = Nil]
      /\ table' = [table EXCEPT ![p] = f]
      /\ UNCHANGED <<disk, mem, readFix, writeFix>>
  BY DEF LookupMiss, Construct, storeVars, userVars
<1> HIDE DEF p, f
<1>4. \A q \in Pages : table[q] # f
  BY <1>2, ReferencedFrames
<1>5. ASSUME NEW q \in Pages PROVE Content(q)' = Content(q)
  <2>1. CASE q = p
    BY <1>1, <1>2, <1>3, <2>1 DEF Content, TypeOK, FrameTypeOK
  <2>2. CASE q # p
    BY <1>1, <1>2, <1>3, <1>4, <2>2 DEF Content, TypeOK, FrameTypeOK
  <2>3. QED
    BY <2>1, <2>2
<1>6. QED
  BY <1>3, <1>5, ContentsUnseen

\* The slot takes what the file holds.
LEMMA LoadUnseen ==
  ASSUME IInv, SInv, NEW t \in Threads, Load(t)
  PROVE  UNCHANGED Store!storeVars
<1> DEFINE f == frame[t]
           s == node[t].slot
           p == PageOf(f)
<1> USE DEF IInv, SInv
<1>1. /\ pc[t] = "load"
      /\ data' = [data EXCEPT ![f] = s]
      /\ mem' = [mem EXCEPT ![s] = disk[p]]
      /\ UNCHANGED <<disk, table, readFix, writeFix>>
  BY DEF Load, At, userVars
<1>2. /\ f \in Frames /\ p \in Pages /\ table[p] = f /\ f # Nil
      /\ s \in Slots /\ s # Nil
      /\ data[f] = Nil
  BY <1>1, NilAssumption
  DEF TypeOK, LocalsOK, LoadersOK, HasNode, Loading, PreLoad, Nodes, Frames, PageOf
<1>3. \A q \in Pages : table[q] # Nil => data[table[q]] # s
  BY <1>1, SlotIsFree
<1>4. \A q \in Pages : table[q] = f => q = p
  BY <1>2 DEF LiveFramesInTable
<1> HIDE DEF f, p, s
<1>5. ASSUME NEW q \in Pages PROVE Content(q)' = Content(q)
  <2>1. CASE q = p
    BY <1>1, <1>2, <2>1 DEF Content, TypeOK, FrameTypeOK
  <2>2. CASE q # p
    BY <1>1, <1>2, <1>3, <1>4, <2>2 DEF Content, TypeOK, FrameTypeOK
  <2>3. QED
    BY <2>1, <2>2
<1>6. QED
  BY <1>1, <1>5, ContentsUnseen

\* A page is written back while it is in memory ...
LEMMA CleanVictimUnseen ==
  ASSUME IInv, SInv, NEW t \in Threads, CleanVictim(t)
  PROVE  UNCHANGED Store!storeVars
<1> DEFINE f == victim[t]
           p == PageOf(f)
<1> USE DEF IInv, SInv
<1>1. /\ pc[t] = "clean"
      /\ disk' = IF state[f] = "dirty" THEN [disk EXCEPT ![p] = mem[data[f]]] ELSE disk
      /\ UNCHANGED <<data, mem, table, readFix, writeFix>>
  BY DEF CleanVictim, CleanFrame, At, userVars
<1>2. /\ f \in Frames /\ p \in Pages /\ table[p] = f
      /\ data[f] # Nil /\ f # Nil
  BY <1>1, Victim, NilAssumption DEF Evicting, HasVictim
<1> HIDE DEF f, p
<1>3. ASSUME NEW q \in Pages PROVE Content(q)' = Content(q)
  <2>1. CASE q = p
    BY <1>1, <1>2, <2>1 DEF Content
  <2>2. CASE q # p
    BY <1>1, <1>2, <2>2 DEF Content, TypeOK
  <2>3. QED
    BY <2>1, <2>2
<1>4. QED
  BY <1>1, <1>3, ContentsUnseen

\* ... so that its file has what it is worth when it leaves: nobody writes to a page whose
\* frame the evictor has locked.
LEMMA EvictDeleteUnseen ==
  ASSUME IInv, SInv, NEW t \in Threads, EvictDelete(t)
  PROVE  UNCHANGED Store!storeVars
<1> DEFINE f == victim[t]
           p == PageOf(f)
<1> USE DEF IInv, SInv
<1>1. pc[t] = "evictDelete"
  BY DEF EvictDelete, At
<1>2. /\ f \in Frames /\ p \in Pages /\ table[p] = f
      /\ data[f] # Nil /\ f # Nil
      /\ f = node[t].frame
  BY <1>1, Victim, NilAssumption DEF Evicting, HasVictim
<1>3. table' = [table EXCEPT ![p] = Nil]
      /\ UNCHANGED <<data, mem, disk, readFix, writeFix>>
  BY <1>2 DEF EvictDelete, frameVars, storeVars, userVars
<1>4. state[f] = "deleted"
  BY <1>1 DEF DeletedFramesLeave, HasDeleted
<1>5. \A u \in Threads : f \notin modified[u]
  BY <1>4 DEF FixedFramesLive, FixesOK, Fixed
<1>6. mem[data[f]] = disk[p]
  BY <1>2, <1>4, <1>5 DEF CleanFramesAreSaved
<1> HIDE DEF f, p
<1>7. ASSUME NEW q \in Pages PROVE Content(q)' = Content(q)
  <2>1. CASE q = p
    BY <1>2, <1>3, <1>6, <2>1 DEF Content, TypeOK
  <2>2. CASE q # p
    BY <1>2, <1>3, <2>2 DEF Content, TypeOK
  <2>3. QED
    BY <2>1, <2>2
<1>8. QED
  BY <1>3, <1>7, ContentsUnseen
---------------------------------------------------------------------------
(* The steps that users see. *)

LEMMA ReturnFrameFixes ==
  ASSUME IInv, SInv, NEW t \in Threads, ReturnFrame(t)
  PROVE  Store!Next
<1> DEFINE f == frame[t]
<1> USE DEF IInv, SInv
<1>1. /\ pc[t] = "check"
      /\ state[f] # "deleted"
      /\ IF request[t].exclusive
           THEN writeFix' = [writeFix EXCEPT ![t] = writeFix[t] \cup {f}] /\ UNCHANGED readFix
           ELSE readFix' = [readFix EXCEPT ![t] = readFix[t] \cup {f}] /\ UNCHANGED writeFix
      /\ UNCHANGED <<data, table, mem, disk>>
  BY DEF ReturnFrame, At, frameVars, storeVars
<1>2. f \in Frames /\ f \in Referenced /\ PageOf(f) \in Pages
  BY <1>1, ReferencedFrames DEF LocalsOK, Frames, PageOf
<1> PICK p \in Pages : p = PageOf(f)
  BY <1>2
<1>3. table[p] = f
  BY <1>1, <1>2 DEF LiveFramesInTable
<1>4. OwnsExclusive(t, f) \/ OwnsShared(t, f)
  BY <1>1 DEF OwnsExclusive, OwnsShared
<1>5. f \notin Fixed(t)
  BY <1>1, <1>2, OwnFrame, NilAssumption
<1> HIDE DEF f
<1>6. \A q \in Pages : Content(q)' = Content(q)
  BY <1>1, SlotsKeepContents
\* Whoever has the page fixed owns the frame's lock too.
<1>7. WritersOf(p) = {}
  <2>1. ASSUME NEW u \in Threads, f \in writeFix[u] PROVE FALSE
    <3>1. OwnsExclusive(u, f)
      BY <2>1 DEF OwnsExclusive
    <3>2. u = t
      BY <1>2, <1>4, <3>1, OneOwner, OwnerAlone
    <3>3. QED
      BY <1>5, <2>1, <3>2 DEF Fixed
  <2>2. QED
    BY <1>2, <1>3, <2>1, PageUsers DEF WritersOf
<1>8. CASE request[t].exclusive
  <2>1. OwnsExclusive(t, f)
    BY <1>1, <1>8 DEF OwnsExclusive, f
  <2>2. ReadersOf(p) = {}
    <3>1. ASSUME NEW u \in Threads, f \in readFix[u] PROVE FALSE
      BY <1>2, <2>1, <3>1, OwnerAlone DEF OwnsShared
    <3>2. QED
      BY <1>2, <1>3, <3>1, PageUsers DEF ReadersOf
  <2>3. writeFix' = [writeFix EXCEPT ![t] = writeFix[t] \cup {f}] /\ UNCHANGED readFix
    BY <1>1, <1>8
  <2>4. \A q \in Pages : WritersOf(q)' = IF q = p THEN {t} ELSE WritersOf(q)
    BY <1>7, <2>3 DEF WritersOf, TypeOK
  <2>5. Store!FixExclusive(t, p)
    BY <1>2, <1>6, <1>7, <2>2, <2>3, <2>4 DEF Store!FixExclusive, ReadersOf, WritersOf
  <2>6. QED
    BY <1>2, <2>5 DEF Store!Next
<1>9. CASE ~request[t].exclusive
  <2>1. readFix' = [readFix EXCEPT ![t] = readFix[t] \cup {f}] /\ UNCHANGED writeFix
    BY <1>1, <1>9
  <2>2. \A q \in Pages :
          ReadersOf(q)' = IF q = p THEN ReadersOf(q) \cup {t} ELSE ReadersOf(q)
    BY <2>1 DEF ReadersOf, TypeOK
  <2>3. [q \in Pages |-> ReadersOf(q)]' =
          [[q \in Pages |-> ReadersOf(q)] EXCEPT ![p] = ReadersOf(p) \cup {t}]
    BY <1>2, <2>2
  <2>4. Store!FixShared(t, p)
    BY <1>2, <1>6, <1>7, <2>1, <2>3 DEF Store!FixShared, ReadersOf, WritersOf
  <2>5. QED
    BY <1>2, <2>4 DEF Store!Next
<1>10. QED
  BY <1>8, <1>9

\* A write changes the page in the slot, and no other page is in the slot.
LEMMA WritePageWrites ==
  ASSUME IInv, SInv, NEW t \in Threads, NEW f \in Frames, WritePage(t, f)
  PROVE  Store!Next
<1> DEFINE p == PageOf(f)
           s == data[f]
<1> USE DEF IInv, SInv
<1>1. /\ f \in writeFix[t]
      /\ mem[s][2] < MaxWrites
      /\ mem' = [mem EXCEPT ![s] = [mem[s] EXCEPT ![2] = mem[s][2] + 1]]
      /\ UNCHANGED <<data, disk, table, readFix, writeFix>>
  BY DEF WritePage, frameVars
<1>2. /\ p \in Pages /\ table[p] = f /\ f # Nil
      /\ s \in Slots /\ s # Nil
      /\ \A u \in Threads : f \in Fixed(u) => u = t
  BY <1>1, FixedFrame, NilAssumption DEF Fixed
<1>3. Content(p) = mem[s]
  BY <1>2 DEF Content
<1>4. \A q \in Pages : table[q] # Nil /\ data[table[q]] = s => q = p
  BY <1>2, OnePagePerSlot
<1> HIDE DEF p, s
<1>5. Content(p)' = [Content(p) EXCEPT ![2] = Content(p)[2] + 1]
  BY <1>1, <1>2, <1>3 DEF Content, TypeOK, p, s
<1>6. ASSUME NEW q \in Pages, q # p PROVE Content(q)' = Content(q)
  BY <1>1, <1>2, <1>4, <1>6 DEF Content, TypeOK
<1>7. WritersOf(p) = {t}
  <2>1. \A u \in Threads : u \in WritersOf(p) <=> f \in writeFix[u]
    BY <1>2, PageUsers DEF p
  <2>2. QED
    BY <1>1, <1>2, <2>1 DEF WritersOf, Fixed
<1>8. Store!Write(t, p)
  <2>1. [q \in Pages |-> Content(q)]' =
          [[q \in Pages |-> Content(q)] EXCEPT ![p] = [Content(p) EXCEPT ![2] = Content(p)[2] + 1]]
    BY <1>5, <1>6
  <2>2. Content(p)[2] < MaxWrites
    BY <1>1, <1>3
  <2>3. QED
    BY <1>1, <1>2, <1>7, <2>1, <2>2 DEF Store!Write, WritersOf
<1>9. QED
  BY <1>2, <1>8 DEF Store!Next

LEMMA UnfixPageUnfixes ==
  ASSUME IInv, SInv, NEW t \in Threads, NEW f \in Frames, NEW isDirty \in BOOLEAN,
         UnfixPage(t, f, isDirty)
  PROVE  Store!Next
<1> DEFINE p == PageOf(f)
<1> USE DEF IInv, SInv
<1>1. /\ f \in Fixed(t)
      /\ readFix' = [readFix EXCEPT ![t] = readFix[t] \ {f}]
      /\ writeFix' = [writeFix EXCEPT ![t] = writeFix[t] \ {f}]
      /\ UNCHANGED <<table, mem, disk>>
      /\ DestroyUnreferenced
  BY DEF UnfixPage, storeVars
<1>2. p \in Pages /\ table[p] = f
  BY <1>1, FixedFrame
<1>3. \A q \in Pages : Content(q)' = Content(q)
  BY <1>1, DestroyEffect, SlotsKeepContents DEF TypeOK
<1>4. \A g \in Fixed(t) : PageOf(g) = p => g = f
  BY <1>2, FixedFrame
<1>5. \A q \in Pages :
        /\ ReadersOf(q)' = IF q = p THEN ReadersOf(q) \ {t} ELSE ReadersOf(q)
        /\ WritersOf(q)' = IF q = p THEN WritersOf(q) \ {t} ELSE WritersOf(q)
  BY <1>1, <1>4 DEF ReadersOf, WritersOf, Fixed, TypeOK
<1>6. t \in ReadersOf(p) \cup WritersOf(p)
  BY <1>1 DEF ReadersOf, WritersOf, Fixed
<1> HIDE DEF p
<1>7. Store!Unfix(t, p)
  <2>1. /\ [q \in Pages |-> ReadersOf(q)]' =
             [[q \in Pages |-> ReadersOf(q)] EXCEPT ![p] = ReadersOf(p) \ {t}]
        /\ [q \in Pages |-> WritersOf(q)]' =
             [[q \in Pages |-> WritersOf(q)] EXCEPT ![p] = WritersOf(p) \ {t}]
    BY <1>2, <1>5
  <2>2. QED
    BY <1>2, <1>3, <1>6, <2>1 DEF Store!Unfix, ReadersOf, WritersOf
<1>8. QED
  BY <1>2, <1>7 DEF Store!Next

\* A page in memory that is not written back is as in its file: nobody has it fixed.
LEMMA RestartUnseen ==
  ASSUME IInv, SInv, Restart
  PROVE  UNCHANGED Store!storeVars
<1> USE DEF IInv, SInv
<1>1. /\ disk' = [p \in Pages |->
                    IF table[p] # Nil /\ state[table[p]] = "dirty" THEN mem[data[table[p]]]
                                                                  ELSE disk[p]]
      /\ table' = [p \in Pages |-> Nil]
      /\ UNCHANGED <<readFix, writeFix>>
      /\ \A t \in Threads : pc[t] = "idle" /\ Fixed(t) = {}
  BY DEF Restart, userVars, At
<1>2. \A t \in Threads : modified[t] = {}
  BY <1>1 DEF FixesOK, Fixed
<1>3. ASSUME NEW p \in Pages PROVE Content(p)' = Content(p)
  <2>1. CASE table[p] = Nil
    BY <1>1, <2>1 DEF Content
  <2>2. CASE table[p] # Nil
    <3>1. table[p] \in Frames /\ table[p] \in Referenced
      BY <2>2, ReferencedFrames DEF TypeOK
    <3>2. data[table[p]] \in Slots
      BY <1>1, <3>1 DEF DataOK, PreLoad
    <3>3. data[table[p]] # Nil
      BY <3>2, NilAssumption
    <3>4. state[table[p]] # "dirty" => mem[data[table[p]]] = disk[p]
      BY <1>2, <2>2, <3>3 DEF CleanFramesAreSaved
    <3>5. QED
      BY <1>1, <2>2, <3>3, <3>4 DEF Content
  <2>3. QED
    BY <2>1, <2>2
<1>4. QED
  BY <1>1, <1>3, ContentsUnseen
---------------------------------------------------------------------------
(* The other steps of fixPage and evictPage, and the refinement. *)

LEMMA OthersUnseen ==
  ASSUME IInv, NEW t \in Threads,
         \/ \E p \in Pages, ex \in BOOLEAN : FixPage(t, p, ex)
         \/ LookupHit(t) \/ PopNode(t) \/ EvictLookup(t) \/ EvictLock(t) \/ EvictUnlock(t)
         \/ EnqueueFrame(t) \/ LoadUnlock(t) \/ LockFrame(t) \/ RetryFix(t)
  PROVE  UNCHANGED Store!storeVars
<1>1. UNCHANGED <<table, mem, disk, readFix, writeFix>>
  BY DEF FixPage, LookupHit, PopNode, EvictLookup, EvictLock, EvictUnlock, EnqueueFrame,
         LoadUnlock, LockFrame, RetryFix, storeVars, userVars
<1>2. \/ UNCHANGED data
      \/ DestroyUnreferenced
  BY DEF FixPage, LookupHit, PopNode, EvictLookup, EvictLock, EvictUnlock, EnqueueFrame,
         LoadUnlock, LockFrame, RetryFix, frameVars
<1>3. \A p \in Pages : table[p] \in Frames => data'[table[p]] = data[table[p]]
  BY <1>1, <1>2, DestroyEffect DEF IInv, TypeOK
<1>4. QED
  BY <1>1, <1>3, SlotsKeepContents, ContentsUnseen DEF IInv

\* Readers and one writer of a page exclude each other, who fixes a page sees the last value
\* written to it, and evictions and restarts lose no value and show no other page's:
\* whatever the numbers of threads, pages and slots and however many pages a thread fixes,
\* as long as no thread evicts a page it has fixed for writing itself.
THEOREM BufferImplementsPageStore == Spec /\ []SparesOwn => ImplementsPageStore
<1>1. Init => Store!Init
  BY NilAssumption DEF Init, Store!Init, Content
<1>2. IInv /\ SInv /\ [Next]_vars => [Store!Next]_(Store!storeVars)
  <2> SUFFICES ASSUME IInv, SInv, [Next]_vars PROVE Store!Next \/ UNCHANGED Store!storeVars
    OBVIOUS
  <2>1. CASE UNCHANGED vars
    <3>1. UNCHANGED <<table, mem, disk, data, readFix, writeFix>>
      BY <2>1 DEF vars, frameVars, storeVars, userVars
    <3>2. QED
      BY <3>1, SlotsKeepContents, ContentsUnseen DEF IInv
  <2>2. CASE Restart
    BY <2>2, RestartUnseen
  <2>3. ASSUME NEW t \in Threads,
               (\E p \in Pages, ex \in BOOLEAN : FixPage(t, p, ex)) \/ EvictLock(t) \/ LockFrame(t)
        PROVE  UNCHANGED Store!storeVars
    BY <2>3, OthersUnseen
  <2>4. ASSUME NEW t \in Threads, Advance(t) PROVE Store!Next \/ UNCHANGED Store!storeVars
    <3>1. CASE ReturnFrame(t)
      BY <3>1, ReturnFrameFixes
    <3>2. CASE LookupMiss(t) \/ Load(t) \/ CleanVictim(t) \/ EvictDelete(t)
      BY <3>2, LookupMissUnseen, LoadUnseen, CleanVictimUnseen, EvictDeleteUnseen
    <3>3. CASE \/ LookupHit(t) \/ PopNode(t) \/ EvictLookup(t) \/ EvictUnlock(t)
               \/ EnqueueFrame(t) \/ LoadUnlock(t) \/ RetryFix(t)
      BY <3>3, OthersUnseen
    <3>4. QED
      BY <2>4, <3>1, <3>2, <3>3 DEF Advance
  <2>5. ASSUME NEW t \in Threads, NEW f \in Frames, WritePage(t, f) PROVE Store!Next
    BY <2>5, WritePageWrites
  <2>6. ASSUME NEW t \in Threads, Unfix(t) PROVE Store!Next
    BY <2>6, UnfixPageUnfixes DEF Unfix
  <2>7. QED
    BY <2>1, <2>2, <2>3, <2>4, <2>5, <2>6 DEF Next
<1>3. QED
  BY <1>1, <1>2, StoreInductive, PTL DEF Spec, Store!Spec, ImplementsPageStore
---------------------------------------------------------------------------
(* Users that fix one page at a time. *)

\* A thread in fixPage has nothing fixed; one that has, has one page fixed.
FixesOne ==
  \A t \in Threads : /\ pc[t] # "idle" => Fixed(t) = {}
                     /\ \A f, g \in Fixed(t) : f = g

\* A thread that may fix a page has none.
LEMMA MayFix ==
  ASSUME MaxFix = 1, FixesOne, NEW t \in Threads, Cardinality(Fixed(t)) < MaxFix
  PROVE  Fixed(t) = {}
<1> SUFFICES ASSUME Fixed(t) # {} PROVE FALSE
  OBVIOUS
<1>1. PICK f : f \in Fixed(t)
  OBVIOUS
<1>2. Fixed(t) = {f}
  BY <1>1 DEF FixesOne
<1>3. Cardinality(Fixed(t)) = 1
  BY <1>2, FS_Singleton
<1>4. QED
  BY <1>3

LEMMA FixesOneKept ==
  ASSUME MaxFix = 1, TypeOK, FixesOne, [Next]_vars
  PROVE  FixesOne'
<1>1. CASE UNCHANGED vars
  BY <1>1 DEF FixesOne, Fixed, vars, userVars
<1>2. CASE Restart
  BY <1>2 DEF Restart, FixesOne, Fixed, userVars
<1>3. ASSUME NEW t \in Threads, NEW p \in Pages, NEW ex \in BOOLEAN, FixPage(t, p, ex)
      PROVE  FixesOne'
  <2>1. Fixed(t) = {}
    BY <1>3, MayFix DEF FixPage
  <2>2. QED
    BY <1>3, <2>1 DEF FixPage, Goto, FixesOne, Fixed, userVars, TypeOK
<1>4. ASSUME NEW t \in Threads, pc[t] # "idle", UNCHANGED userVars,
             \E l \in Labels : pc' = [pc EXCEPT ![t] = l]
      PROVE  FixesOne'
  BY <1>4 DEF FixesOne, Fixed, userVars, TypeOK
<1>5. ASSUME NEW t \in Threads, ReturnFrame(t)
      PROVE  FixesOne'
  <2>1. Fixed(t) = {} /\ pc' = [pc EXCEPT ![t] = "idle"]
    BY <1>5 DEF ReturnFrame, At, Goto, FixesOne
  <2>2. /\ readFix[t] = {} /\ writeFix[t] = {}
        /\ \A u \in Threads \ {t} : readFix'[u] = readFix[u] /\ writeFix'[u] = writeFix[u]
        /\ readFix'[t] \cup writeFix'[t] \subseteq {frame[t]}
    BY <1>5, <2>1 DEF ReturnFrame, Fixed, TypeOK
  <2>3. QED
    BY <2>1, <2>2 DEF FixesOne, Fixed, TypeOK
<1>6. ASSUME NEW t \in Threads, Advance(t) \/ EvictLock(t) \/ LockFrame(t), ~ReturnFrame(t)
      PROVE  FixesOne'
  BY <1>4, <1>6
  DEF Advance, LookupHit, LookupMiss, PopNode, EvictLookup, EvictLock, CleanVictim, EvictDelete,
      EvictUnlock, Load, EnqueueFrame, LoadUnlock, LockFrame, RetryFix, At, Goto, Labels, localVars
<1>7. ASSUME NEW t \in Threads, NEW f \in Frames, WritePage(t, f)
      PROVE  FixesOne'
  BY <1>7 DEF WritePage, FixesOne, Fixed
<1>8. ASSUME NEW t \in Threads, Unfix(t)
      PROVE  FixesOne'
  <2>1. \A u \in Threads : Fixed(u)' \subseteq Fixed(u)
    BY <1>8 DEF Unfix, UnfixPage, Fixed, TypeOK
  <2>2. QED
    BY <1>8, <2>1 DEF Unfix, UnfixPage, FixesOne
<1>9. QED
  BY <1>1, <1>2, <1>3, <1>5, <1>6, <1>7, <1>8 DEF Next

\* A thread that fixes one page at a time has none to evict.
THEOREM OneAtATimeSparesOwn ==
  ASSUME MaxFix = 1
  PROVE  Spec => []SparesOwn
<1>1. Init => FixesOne
  BY DEF Init, FixesOne, Fixed
<1>2. IInv /\ FixesOne /\ [Next]_vars => FixesOne'
  BY FixesOneKept DEF IInv
<1>3. FixesOne => SparesOwn
  BY DEF FixesOne, SparesOwn, Fixed, At
<1>4. QED
  BY <1>1, <1>2, <1>3, Inductive, PTL DEF Spec
=============================================================================
