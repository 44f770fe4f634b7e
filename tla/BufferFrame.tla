---------------------------- MODULE BufferFrame ----------------------------
(***************************************************************************)
(* Buffer frames (src/src/buffer/BufferFrame.{hpp,cpp}): the object that   *)
(* stands for one page in memory, with its clean/dirty/deleted state, the  *)
(* memory slot it points to and a shared mutex.                            *)
(*                                                                         *)
(* A frame object is identified by its page and a generation: several      *)
(* objects for one page exist at a time when a thread still points to an   *)
(* evicted one.  A generation is used again once nobody points to it.      *)
(***************************************************************************)
EXTENDS Naturals

CONSTANTS Threads,        \* the threads that share the buffer manager
          Pages,          \* PageId: (segment, page) pairs
          Size,           \* number of page-sized slots of the buffer memory
          MaxGeneration,  \* bound: frame objects of one page alive at once, less one
          Nil             \* null pointer

Slots == 1 .. Size

Frames == Pages \X (0 .. MaxGeneration)

PageOf(f) == f[1]

ASSUME SizeAssumption == Size \in Nat \ {0}
ASSUME GenerationAssumption == MaxGeneration \in Nat
ASSUME NilAssumption == Nil \notin Threads \cup Frames \cup Slots

VARIABLES state,      \* FrameState of each frame
          data,       \* the slot a frame points to, Nil before setData
          exclusive,  \* the thread whose _uniqueLock holds the frame's mutex, or Nil
          sharers     \* the threads whose _sharedLock holds it

frameVars == <<state, data>>
lockVars == <<exclusive, sharers>>

FrameTypeOK ==
  /\ state \in [Frames -> {"clean", "dirty", "deleted"}]
  /\ data \in [Frames -> Slots \cup {Nil}]
  /\ exclusive \in [Frames -> Threads \cup {Nil}]
  /\ sharers \in [Frames -> SUBSET Threads]

\* No frame exists yet; the values of an object that does not exist are unused.
FrameInit ==
  /\ state = [f \in Frames |-> "deleted"]
  /\ data = [f \in Frames |-> Nil]
  /\ exclusive = [f \in Frames |-> Nil]
  /\ sharers = [f \in Frames |-> {}]

\* The manager that owned the frames is gone.
FrameReset ==
  /\ state' = [f \in Frames |-> "deleted"]
  /\ data' = [f \in Frames |-> Nil]
  /\ exclusive' = [f \in Frames |-> Nil]
  /\ sharers' = [f \in Frames |-> {}]

\* The constructor, and the exclusive lock its creator t takes at once.
Construct(t, f) ==
  /\ state' = [state EXCEPT ![f] = "clean"]
  /\ data' = [data EXCEPT ![f] = Nil]
  /\ exclusive' = [exclusive EXCEPT ![f] = t]
  /\ sharers' = [sharers EXCEPT ![f] = {}]

---------------------------------------------------------------------------
(* lock(exclusive).  The lock objects are thread specific: a thread that   *)
(* already owns a lock of the kind it asks for returns at once, and no     *)
(* count is kept.  A thread that owns the other kind waits for itself.     *)

LockExclusive(t, f) ==
  /\ exclusive[f] = t \/ (exclusive[f] = Nil /\ sharers[f] = {})
  /\ exclusive' = [exclusive EXCEPT ![f] = t]
  /\ UNCHANGED sharers

LockShared(t, f) ==
  /\ t \in sharers[f] \/ exclusive[f] = Nil
  /\ sharers' = [sharers EXCEPT ![f] = @ \cup {t}]
  /\ UNCHANGED exclusive

Lock(t, f, ex) == IF ex THEN LockExclusive(t, f) ELSE LockShared(t, f)

\* unlock(): releases what the thread holds, whatever the number of lock calls.
Unlock(t, f) ==
  /\ exclusive' = [exclusive EXCEPT ![f] = IF @ = t THEN Nil ELSE @]
  /\ sharers' = [sharers EXCEPT ![f] = @ \ {t}]
=============================================================================
