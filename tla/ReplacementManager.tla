-------------------------- MODULE ReplacementManager ------------------------
(***************************************************************************)
(* The 2Q replacement strategy (src/src/buffer/BufferReplacementManager).  *)
(* A node carries a memory slot and, when the slot is in use, the frame    *)
(* that uses it; a new page enters the fifo queue and moves to the lru     *)
(* queue when it is fixed again.  Nodes of fixed pages stay in the queues. *)
(* Every operation runs under the manager's mutex: one step each.          *)
(***************************************************************************)
EXTENDS BufferFrame, SequencesExt

VARIABLES fifo,       \* _fifoQueue
          lru,        \* _lruQueue
          queueState  \* QueueState of each frame: the queue its node is in

queueVars == <<fifo, lru, queueState>>

\* BufferFrameNode: page is the frame's page.
Nodes == [slot : Slots, frame : Frames \cup {Nil}]

ASSUME NoNodeAssumption == Nil \notin Nodes

InUse(n) == n.frame # Nil

QueueTypeOK ==
  /\ fifo \in Seq(Nodes)
  /\ lru \in Seq(Nodes)
  /\ queueState \in [Frames -> {"none", "fifo", "lru"}]

\* The constructor queues one unused node per slot, in address order.
UnusedNodes == [s \in Slots |-> [slot |-> s, frame |-> Nil]]

QueueInit ==
  /\ fifo = UnusedNodes
  /\ lru = <<>>
  /\ queueState = [f \in Frames |-> "none"]

\* A new manager.
QueueReset ==
  /\ fifo' = UnusedNodes
  /\ lru' = <<>>
  /\ queueState' = [f \in Frames |-> "none"]

\* A frame just constructed is in no queue.
ConstructQueueState(f) == queueState' = [queueState EXCEPT ![f] = "none"]

\* The queue evictFrame takes from: fifo unless it is empty.
EvictionQueue == IF fifo = <<>> THEN lru ELSE fifo

\* The node evictFrame returns.
EvictionNode == Head(EvictionQueue)

\* Mutant: the node stays in its queue.
EvictFrameWithoutPop ==
  /\ EvictionQueue # <<>>
  /\ UNCHANGED <<fifo, lru>>
  /\ queueState' = IF InUse(EvictionNode)
                     THEN [queueState EXCEPT ![EvictionNode.frame] = "none"]
                     ELSE queueState

\* Mutant: no setNoQueue.
EvictFrameKeepingState ==
  /\ EvictionQueue # <<>>
  /\ IF fifo = <<>> THEN lru' = Tail(lru) /\ UNCHANGED fifo
                    ELSE fifo' = Tail(fifo) /\ UNCHANGED lru
  /\ UNCHANGED queueState

\* evictFrame(): pops that node.  There is no step from empty queues, which the code
\* asserts not to happen: EvictionFindsNode in BufferManager.
EvictFrame ==
  /\ EvictionQueue # <<>>
  /\ IF fifo = <<>> THEN lru' = Tail(lru) /\ UNCHANGED fifo
                    ELSE fifo' = Tail(fifo) /\ UNCHANGED lru
  /\ queueState' = IF InUse(EvictionNode)
                     THEN [queueState EXCEPT ![EvictionNode.frame] = "none"]
                     ELSE queueState

\* newFrame(frame): a page just loaded enters at the back of fifo.
NewFrame(f) ==
  /\ fifo' = Append(fifo, [slot |-> data[f], frame |-> f])
  /\ queueState' = [queueState EXCEPT ![f] = "fifo"]
  /\ UNCHANGED lru

\* Mutant: the node is erased from fifo, not spliced.
ReprioritizeErasing(f) ==
  \/ /\ queueState[f] = "fifo"
     /\ \E i \in DOMAIN fifo : fifo[i].frame = f /\ fifo' = RemoveAt(fifo, i)
     /\ queueState' = [queueState EXCEPT ![f] = "lru"]
     /\ UNCHANGED lru
  \/ queueState[f] # "fifo" /\ UNCHANGED queueVars

\* reprioritizeFrame(frame): its node, which queueNode() points to, goes to the
\* back of lru; a frame that is in no queue is left alone.
Reprioritize(f) ==
  \/ /\ queueState[f] = "fifo"
     /\ \E i \in DOMAIN fifo : /\ fifo[i].frame = f
                               /\ fifo' = RemoveAt(fifo, i)
                               /\ lru' = Append(lru, fifo[i])
     /\ queueState' = [queueState EXCEPT ![f] = "lru"]
  \/ /\ queueState[f] = "lru"
     /\ \E i \in DOMAIN lru : /\ lru[i].frame = f
                              /\ lru' = Append(RemoveAt(lru, i), lru[i])
     /\ UNCHANGED <<fifo, queueState>>
  \/ /\ queueState[f] = "none"
     /\ UNCHANGED queueVars
=============================================================================
