----------------------------- MODULE FileManager ----------------------------
(***************************************************************************)
(* File handles (src/src/file/FileManager.cpp).  Two FileManager objects   *)
(* work on the same directory of one process: the buffer manager's reads   *)
(* and writes pages and opens files when it needs them, the segment        *)
(* manager's creates, truncates and removes files.  Each keeps a map from  *)
(* segments to file descriptors.                                           *)
(*                                                                         *)
(* create, remove, truncate and the body of open run under the object's    *)
(* mutex; read and write look into the map without it.                     *)
(***************************************************************************)
EXTENDS Naturals, FiniteSetsExt

CONSTANTS Threads,
          MaxSegments,  \* bound: segments
          Descriptors,  \* the numbers the system gives to open files: 3 and more
          Nil

ASSUME SegmentsAssumption == MaxSegments \in Nat \ {0}
ASSUME DescriptorsAssumption ==
  IsFiniteSet(Descriptors) /\ \A fd \in Descriptors : fd \in Nat /\ fd > 2
ASSUME NilAssumption == Nil \notin Nat

\* Segment ids; 0 stands for no segment.
Segments == 1 .. MaxSegments

\* A descriptor's file that has been removed.
Unlinked == 0

Managers == {"buffer", "segments"}

VARIABLES
  running,  \* the process lives; FALSE after a crash or a failed assertion
  length,   \* the number of pages of a segment's file, Nil if there is no such file
  opened,   \* the segment whose file each descriptor is open on, Nil if it is closed
  handles,  \* _fileHandles of each of the two objects
  pc,       \* where a thread is
  target    \* the segment it works on

fileVars == <<length, opened, handles>>

IsOpen(m, s) == handles[m][s] # Nil

\* The system opens a file with the lowest free number.
FreeDescriptors == {fd \in Descriptors : opened[fd] = Nil}

OpenFile(m, s) ==
  /\ FreeDescriptors # {}
  /\ LET fd == Min(FreeDescriptors) IN
     /\ opened' = [opened EXCEPT ![fd] = s]
     /\ handles' = [handles EXCEPT ![m][s] = fd]

Goto(t, label) == pc' = [pc EXCEPT ![t] = label]

\* The process is gone, with its threads; files stay.
Stop ==
  /\ running' = FALSE
  /\ pc' = [t \in Threads |-> "idle"]
  /\ target' = [t \in Threads |-> Nil]

\* A new process: no file is open.
FileReset ==
  /\ opened' = [fd \in Descriptors |-> Nil]
  /\ handles' = [m \in Managers |-> [s \in Segments |-> Nil]]

FileInit ==
  /\ running = TRUE
  /\ length = [s \in Segments |-> Nil]
  /\ opened = [fd \in Descriptors |-> Nil]
  /\ handles = [m \in Managers |-> [s \in Segments |-> Nil]]
  /\ pc = [t \in Threads |-> "idle"]
  /\ target = [t \in Threads |-> Nil]

FileTypeOK ==
  /\ running \in BOOLEAN
  /\ length \in [Segments -> Nat \cup {Nil}]
  /\ opened \in [Descriptors -> Segments \cup {Unlinked, Nil}]
  /\ handles \in [Managers -> [Segments -> Descriptors \cup {Nil}]]
  /\ target \in [Threads -> Segments \cup {Nil}]

---------------------------------------------------------------------------
(* create, truncate and remove of the segment manager's object.            *)

\* create(s): without O_TRUNC, so a file that is there keeps its pages.
CreateFile(s) ==
  /\ ~IsOpen("segments", s)
  /\ OpenFile("segments", s)
  /\ length' = [length EXCEPT ![s] = IF @ = Nil THEN 0 ELSE @]

\* truncate(s, size), by descriptor or by name.
TruncateFile(s, size) ==
  /\ length' = [length EXCEPT ![IF IsOpen("segments", s) THEN opened[handles["segments"][s]]
                                                         ELSE s] = size]
  /\ UNCHANGED <<opened, handles>>

\* Mutant: closes the descriptor that has the segment's number.
ClosedWrongly(s) == IF IsOpen("segments", s) THEN {s} ELSE {}

\* The descriptor that closeUnsyncronized(s) closes, if the segment is open.
Closed(s) == IF IsOpen("segments", s) THEN {handles["segments"][s]} ELSE {}

\* It erases the entry of the segment whose number is that of the descriptor: the closed
\* descriptor stays in the map.
EraseHandle(s) ==
  handles' = [handles EXCEPT !["segments"] =
                [u \in Segments |-> IF u \in Closed(s) THEN Nil ELSE handles["segments"][u]]]

\* remove(s): who else has the file open has a file without a name.
RemoveFile(s) ==
  /\ EraseHandle(s)
  /\ opened' = [fd \in Descriptors |->
                  IF fd \in Closed(s) THEN Nil
                  ELSE IF opened[fd] = s THEN Unlinked ELSE opened[fd]]
  /\ length' = [length EXCEPT ![s] = Nil]

---------------------------------------------------------------------------
(* read and write of the buffer manager's object.                          *)

BeginIO(t, s) ==
  /\ running /\ pc[t] = "idle"
  /\ target' = [target EXCEPT ![t] = s]
  /\ Goto(t, "isOpen")
  /\ UNCHANGED <<running, fileVars>>

\* if (!isOpen(segment)) without the mutex.
CheckOpen(t) ==
  /\ running /\ pc[t] = "isOpen"
  /\ Goto(t, IF IsOpen("buffer", target[t]) THEN "at" ELSE "open")
  /\ UNCHANGED <<running, target, fileVars>>

\* The mutex: it is taken by a thread that is about to insert into the map.
MutexFree == \A t \in Threads : pc[t] # "insert"

\* Mutant: open does not look again.
OpenWithoutCheck(t) ==
  /\ running /\ pc[t] = "open"
  /\ MutexFree
  /\ Goto(t, "insert")
  /\ UNCHANGED <<running, target, fileVars>>

\* open(segment) takes the mutex and looks again.
OpenLock(t) ==
  /\ running /\ pc[t] = "open"
  /\ MutexFree
  /\ Goto(t, IF IsOpen("buffer", target[t]) THEN "at" ELSE "insert")
  /\ UNCHANGED <<running, target, fileVars>>

\* It opens the file, which exists, or the assertion that it could fails.
OpenInsert(t) ==
  /\ running /\ pc[t] = "insert"
  /\ \/ /\ length[target[t]] # Nil
        /\ OpenFile("buffer", target[t])
        /\ Goto(t, "at")
        /\ UNCHANGED <<running, target, length>>
     \/ /\ length[target[t]] = Nil
        /\ Stop
        /\ UNCHANGED fileVars

\* pread or pwrite with the descriptor found in the map, again without the mutex.
Transfer(t) ==
  /\ running /\ pc[t] = "at"
  /\ target' = [target EXCEPT ![t] = Nil]
  /\ Goto(t, "idle")
  /\ UNCHANGED <<running, fileVars>>

FileNext(t) == CheckOpen(t) \/ OpenLock(t) \/ OpenInsert(t) \/ Transfer(t)

---------------------------------------------------------------------------
\* The buffer manager's object opens a file once: a thread that found it closed at the same
\* time as another one does not replace the descriptor, which the other may be using and
\* nobody would close any more.
BufferOpensOnce ==
  [][running /\ running' => \A s \in Segments :
       IsOpen("buffer", s) => handles'["buffer"][s] = handles["buffer"][s]]_<<running, handles>>
=============================================================================
