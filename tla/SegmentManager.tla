--------------------------- MODULE SegmentManager ---------------------------
(***************************************************************************)
(* The segment manager (src/src/segment/SegmentManager.cpp): which         *)
(* segments exist and how many pages each has, in memory and in the file   *)
(* "segments", over the files that FileManager models.                     *)
(*                                                                         *)
(* The class has no lock.  One action is the code between two calls into   *)
(* the file manager or into the system, where the process can crash.  What *)
(* the class does is modelled for one administrator: two that are in       *)
(* create at the same time find the same free id.                          *)
(***************************************************************************)
EXTENDS FileManager, Sequences

CONSTANTS Administrators,  \* the threads that create, allocate and remove
          Sizes,           \* bound: the numbers of pages asked for
          MaxRestarts      \* bound: crashes of the process

ASSUME AdministratorsAssumption == Administrators \subseteq Threads
ASSUME BoundsAssumption == Sizes \subseteq Nat \ {0} /\ MaxRestarts \in Nat

VARIABLES
  segments,  \* _segments: entry i of the vector at position i + 1
  stored,    \* the content of the file "segments"; Nil when it has been truncated
  newSize,   \* local of allocate
  restarts   \* crashes so far

vars == <<running, fileVars, pc, target, segments, stored, newSize, restarts>>

Entries == [id : {0} \cup Segments, size : Nat]

\* A SegmentMetadata with an invalid id and no pages.
Unused == [id |-> 0, size |-> 0]

IOLabels == {"isOpen", "open", "insert", "at"}

AdminLabels == {"create", "record", "truncate", "setSize", "erase", "persist", "write"}

TypeOK ==
  /\ FileTypeOK
  /\ pc \in [Threads -> {"idle"} \cup IOLabels \cup AdminLabels]
  /\ segments \in Seq(Entries)
  /\ Len(segments) \in 1 .. MaxSegments + 1 + restarts
  /\ stored = Nil \/ stored \in Seq(Entries)
  /\ newSize \in [Threads -> Nat]
  /\ restarts \in 0 .. MaxRestarts

\* checkExists(s)
Exists(entries, s) == Len(entries) > s /\ entries[s + 1].id = s

SizeOf(s) == segments[s + 1].size

\* The constructor has run for the first time: there was no file "segments".
Init ==
  /\ FileInit
  /\ segments = <<Unused>>
  /\ stored = <<Unused>>
  /\ newSize = [t \in Threads |-> 0]
  /\ restarts = 0

---------------------------------------------------------------------------
(* create *)

\* The first entry after the one of segment 0 that has no id, else one more.
FreeId ==
  LET free == {i \in 1 .. Len(segments) - 1 : segments[i + 1].id = 0} IN
  IF free = {} THEN Len(segments) ELSE Min(free)

Create(t) ==
  /\ running /\ pc[t] = "idle"
  /\ FreeId \in Segments
  /\ target' = [target EXCEPT ![t] = FreeId]
  /\ Goto(t, "create")
  /\ UNCHANGED <<running, fileVars, segments, stored, newSize, restarts>>

\* _fileManager->create(), which asserts that the file is not open.
CreateSegmentFile(t) ==
  /\ running /\ pc[t] = "create"
  /\ \/ /\ CreateFile(target[t])
        /\ Goto(t, "record")
        /\ UNCHANGED <<running, target>>
     \/ /\ IsOpen("segments", target[t])
        /\ Stop
        /\ UNCHANGED fileVars
  /\ UNCHANGED <<segments, stored, newSize, restarts>>

\* Mutant: the entry is always a new one.
RecordAppending(t) ==
  /\ running /\ pc[t] = "record"
  /\ segments' = Append(segments, [id |-> target[t], size |-> 0])
  /\ Goto(t, "persist")
  /\ UNCHANGED <<running, target, fileVars, stored, newSize, restarts>>

RecordSegment(t) ==
  LET s == target[t]
      entry == [id |-> s, size |-> 0]
  IN
  /\ running /\ pc[t] = "record"
  /\ segments' = IF s < Len(segments) THEN [segments EXCEPT ![s + 1] = entry]
                                      ELSE Append(segments, entry)
  /\ Goto(t, "persist")
  /\ UNCHANGED <<running, target, fileVars, stored, newSize, restarts>>

---------------------------------------------------------------------------
(* allocate *)

\* Mutant: another growth factor.
GrowTwice(n) == 2 * n + 1

\* One turn of the growth loop.
Grow(n) == LET m == (5 * n) \div 4 IN IF m > n THEN m ELSE n + 1

\* What the loop ends with, from size n.
GrowTo(min) ==
  LET loop[n \in 0 .. 2 * min] == IF n < min THEN loop[Grow(n)] ELSE n IN loop

\* Nothing happens when the segment is large enough.
Allocate(t, s, min) ==
  /\ running /\ pc[t] = "idle"
  /\ Exists(segments, s)
  /\ SizeOf(s) < min
  /\ target' = [target EXCEPT ![t] = s]
  /\ newSize' = [newSize EXCEPT ![t] = GrowTo(min)[SizeOf(s)]]
  /\ Goto(t, "truncate")
  /\ UNCHANGED <<running, fileVars, segments, stored, restarts>>

\* Mutant: the file is not enlarged.
EnlargeNothing(t) ==
  /\ running /\ pc[t] = "truncate"
  /\ Goto(t, "setSize")
  /\ UNCHANGED <<running, target, fileVars, segments, stored, newSize, restarts>>

EnlargeFile(t) ==
  /\ running /\ pc[t] = "truncate"
  /\ TruncateFile(target[t], newSize[t])
  /\ Goto(t, "setSize")
  /\ UNCHANGED <<running, target, segments, stored, newSize, restarts>>

\* Mutant: the change is not persisted.
SetSizeOnly(t) ==
  /\ running /\ pc[t] = "setSize"
  /\ segments' = [segments EXCEPT ![target[t] + 1].size = newSize[t]]
  /\ target' = [target EXCEPT ![t] = Nil]
  /\ newSize' = [newSize EXCEPT ![t] = 0]
  /\ Goto(t, "idle")
  /\ UNCHANGED <<running, fileVars, stored, restarts>>

SetSize(t) ==
  /\ running /\ pc[t] = "setSize"
  /\ segments' = [segments EXCEPT ![target[t] + 1].size = newSize[t]]
  /\ newSize' = [newSize EXCEPT ![t] = 0]
  /\ Goto(t, "persist")
  /\ UNCHANGED <<running, target, fileVars, stored, restarts>>

---------------------------------------------------------------------------
(* remove *)

Remove(t, s) ==
  /\ running /\ pc[t] = "idle"
  /\ Exists(segments, s)
  /\ RemoveFile(s)
  /\ target' = [target EXCEPT ![t] = s]
  /\ Goto(t, "erase")
  /\ UNCHANGED <<running, segments, stored, newSize, restarts>>

\* Mutant: the removal is not persisted.
EraseInMemory(t) ==
  /\ running /\ pc[t] = "erase"
  /\ segments' = [segments EXCEPT ![target[t] + 1] = Unused]
  /\ target' = [target EXCEPT ![t] = Nil]
  /\ Goto(t, "idle")
  /\ UNCHANGED <<running, fileVars, stored, newSize, restarts>>

EraseSegment(t) ==
  /\ running /\ pc[t] = "erase"
  /\ segments' = [segments EXCEPT ![target[t] + 1] = Unused]
  /\ Goto(t, "persist")
  /\ UNCHANGED <<running, target, fileVars, stored, newSize, restarts>>

---------------------------------------------------------------------------
(* persist *)

\* The file is opened with trunc ...
PersistTruncate(t) ==
  /\ running /\ pc[t] = "persist"
  /\ stored' = Nil
  /\ Goto(t, "write")
  /\ UNCHANGED <<running, target, fileVars, segments, newSize, restarts>>

\* ... and written.  One step stands for the loop over the vector and the flush when the
\* stream is destroyed: with several administrators the vector could change in between.
PersistWrite(t) ==
  /\ running /\ pc[t] = "write"
  /\ stored' = segments
  /\ target' = [target EXCEPT ![t] = Nil]
  /\ Goto(t, "idle")
  /\ UNCHANGED <<running, fileVars, segments, newSize, restarts>>

---------------------------------------------------------------------------
(* Crash, and the constructor of the next process *)

Crash ==
  /\ running
  /\ restarts < MaxRestarts
  /\ Stop
  /\ UNCHANGED <<fileVars, segments, stored, newSize, restarts>>

\* The vector has an entry for segment 0 before the file's entries, one of which is
\* segment 0's, are appended.
Restart ==
  /\ ~running
  /\ restarts < MaxRestarts
  /\ restarts' = restarts + 1
  /\ running' = TRUE
  /\ FileReset
  /\ newSize' = [t \in Threads |-> 0]
  /\ \/ /\ stored # Nil
        /\ segments' = <<Unused>> \o stored
     \* The number of entries is not read and keeps the value its memory had; the entries
     \* are not read either.  A large number ends the process again.
     \/ /\ stored = Nil
        /\ \E n \in 0 .. MaxSegments :
             segments' = <<Unused>> \o [i \in 1 .. n |-> Unused]
  /\ UNCHANGED <<length, pc, target, stored>>

---------------------------------------------------------------------------
Administrate(t) ==
  \/ Create(t) \/ CreateSegmentFile(t) \/ RecordSegment(t)
  \/ \E s \in Segments, min \in Sizes : Allocate(t, s, min)
  \/ EnlargeFile(t) \/ SetSize(t)
  \/ \E s \in Segments : Remove(t, s)
  \/ EraseSegment(t)
  \/ PersistTruncate(t) \/ PersistWrite(t)

\* A page of a segment that exists is read or written.
PageIO(t) ==
  /\ \/ \E s \in Segments : Exists(segments, s) /\ BeginIO(t, s)
     \/ FileNext(t)
  /\ UNCHANGED <<segments, stored, newSize, restarts>>

Next ==
  \/ \E t \in Administrators : Administrate(t)
  \/ \E t \in Threads : PageIO(t)
  \/ Crash
  \/ Restart

Spec == Init /\ [][Next]_vars

---------------------------------------------------------------------------
(* Properties *)

\* No operation closes another segment's file or writes to it, under the wrong key: the
\* descriptor of a segment that exists is open on its file; the buffer manager's may be
\* on a removed file of the segment but on no other segment's.
HandlesAreOpen ==
  running => \A s \in Segments :
    /\ Exists(segments, s) /\ (\A t \in Threads : pc[t] = "erase" => target[t] # s)
         /\ IsOpen("segments", s)
       => opened[handles["segments"][s]] = s
    /\ IsOpen("buffer", s) => opened[handles["buffer"][s]] \in {s, Unlinked}

\* remove(s) has deleted the file; the entry of s, or what is stored of it, is still there.
Removing(s) == \E t \in Threads : /\ target[t] = s
                                 /\ \/ pc[t] = "erase"
                                    \/ pc[t] = "persist" /\ ~Exists(segments, s)

Backed(entries, s) == length[s] # Nil /\ entries[s + 1].size <= length[s]

\* The pages a segment has are in its file, by the metadata in memory and by the file
\* "segments", which is what the first crash leaves behind, at whatever step it comes.  Only
\* a crash in remove leaves the entry of a segment without a file.  (A later process loses
\* the entries of the first one anyway, see SegmentsSurviveRestart.)
SizesAreBacked ==
  running => \A s \in Segments : ~Removing(s) =>
    /\ Exists(segments, s) => Backed(segments, s)
    /\ restarts = 0 /\ stored # Nil /\ Exists(stored, s) => Backed(stored, s)

\* What create, allocate and remove changed is in the file "segments" when they return.
ChangesArePersisted ==
  [][\A t \in Administrators : pc[t] \in AdminLabels /\ pc'[t] = "idle" /\ running'
       => stored' = segments']_vars

\* As long as the process lives the segments are what SegmentStore promises: a segment
\* grows to the size asked for and no more than the growth factor beyond it, and no
\* operation, not even one on an entry used again, changes another segment.
SizeMap == [s \in Segments |-> IF Exists(segments, s) THEN SizeOf(s) ELSE Nil]

Store == INSTANCE SegmentStore WITH size <- SizeMap

ImplementsSegmentStore ==
  /\ Store!Init
  /\ [][running /\ running' => [Store!Next]_SizeMap]_vars
  /\ [][running /\ running' => \A s \in Segments :
          SizeMap'[s] # SizeMap[s] => \E t \in Administrators : target[t] = s]_vars

\* "Persists all changes to the segment manager on disk" (SegmentManager.hpp:73): a
\* segment that no call is working on when the process ends is in the file, and the segments
\* in the file exist in the next process.  Neither is so: persist truncates the file before it
\* writes all segments again, and the constructor puts each one place after its id.
SegmentsSurviveRestart ==
  [][/\ running /\ ~running' =>
          \A s \in Segments : Exists(segments, s) /\ (\A t \in Threads : target[t] # s)
                                => stored # Nil /\ Exists(stored, s)
     /\ ~running /\ running' /\ stored # Nil =>
          \A s \in Segments : Exists(stored, s) => Exists(segments', s)]_vars
=============================================================================
