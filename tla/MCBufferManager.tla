--------------------------- MODULE MCBufferManager --------------------------
(* Instances of BufferManager for TLC. *)
EXTENDS BufferManager

\* Threads and pages are interchangeable; slots are not, they are queued in order.
Symmetry == Permutations(Threads) \cup Permutations(Pages)

\* For liveness, users that only fix for writing and never leave a page dirty.  It
\* takes the state of the readers, of the files and of memory out of the graph and
\* leaves every step of fixPage and evictPage, every lock and the most contention.
ExclusiveAndClean ==
  /\ \A t \in Threads : request'[t] # Nil => request'[t].exclusive
  /\ \A f \in Frames : state'[f] # "dirty"

LiveSpec == Init /\ [][Next /\ ExclusiveAndClean]_vars /\ Fairness
=============================================================================
