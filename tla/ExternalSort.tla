----------------------------- MODULE ExternalSort ---------------------------
(***************************************************************************)
(* The external merge sort (src/src/extsort/main.cpp) of a file of         *)
(* numbers: sorted runs are formed in a temporary file, then K runs at a   *)
(* time are merged from one temporary file to the other, until one run is  *)
(* left.  Positions count from 0 as in the code: the number at position p  *)
(* of a file is file[p + 1].                                               *)
(***************************************************************************)
EXTENDS Integers, SequencesExt, FiniteSets

CONSTANTS K,        \* how many runs are merged at a time
          RunSize,  \* run_size, how many numbers there are in memory
          Inputs,   \* the files that may be sorted
          Nil       \* nullptr, or no component

ASSUME SortAssumption ==
  /\ K \in Nat /\ K >= 2 /\ RunSize \in Nat \ {0}
  /\ Inputs \subseteq Seq(Nat)
  /\ Nil \notin Nat /\ Nil \notin Seq(Nat)

VARIABLES
  input,      \* the input file
  inMemory,   \* the file that internalSort has written, or Nil
  tmp,        \* the two temporary files
  inPos,      \* run formation: start of the current run
  phase,      \* which temporary file is read: the phase's number modulo 2
  runMult,    \* the length of the runs of the phase, in runs of the first one
  mergeStart, \* start of the first run of the current merge
  nextRunValue,  \* the next position in each run
  queue,      \* the priority queue: [run, value]
  mergeOut,   \* the next position that is written
  output,     \* the output file
  sortPc

sortVars == <<input, inMemory, tmp, inPos, phase, runMult, mergeStart, nextRunValue, queue,
              mergeOut, output, sortPc>>

Size == Len(input)

\* Where the number at position j of a file is when the file is sorted; equal ones stay in order.
Rank(file, j) ==
  Cardinality({k \in DOMAIN file : file[k] < file[j] \/ (file[k] = file[j] /\ k <= j)})

\* std::sort
Sorted(file) == [i \in DOMAIN file |-> file[CHOOSE j \in DOMAIN file : Rank(file, j) = i]]

\* Reading the file that holds the runs of a phase, and writing the other one.
MergeIn == tmp[phase]

Write(file, pos, value) == [tmp EXCEPT ![file][pos + 1] = value]

\* The length of the runs of a phase.
RunLength == RunSize * runMult

SortInit ==
  /\ input \in Inputs
  /\ inMemory = Nil
  /\ tmp = [file \in 0 .. 1 |-> [i \in 1 .. Len(input) |-> 0]]
  /\ inPos = 0
  /\ phase = 0 /\ runMult = 1
  /\ mergeStart = 0
  /\ nextRunValue = [i \in 0 .. K - 1 |-> Nil]
  /\ queue = {}
  /\ mergeOut = 0
  /\ output = <<>>
  /\ sortPc \in {"internal", "form"}

\* If a fourth argument is given.
InternalSort ==
  /\ sortPc = "internal"
  /\ inMemory' = Sorted(input)
  /\ sortPc' = "form"
  /\ UNCHANGED <<input, tmp, inPos, phase, runMult, mergeStart, nextRunValue, queue, mergeOut, output>>

\* The last run is cut off at the end of the file.
FormRun ==
  LET end == Min({inPos + RunSize, Size})
      run == Sorted(SubSeq(input, inPos + 1, end))
  IN
  /\ sortPc = "form"
  /\ inPos < Size
  /\ tmp' = [tmp EXCEPT ![0] = SubSeq(@, 1, inPos) \o run \o SubSeq(@, end + 1, Size)]
  /\ inPos' = end
  /\ UNCHANGED <<input, inMemory, phase, runMult, mergeStart, nextRunValue, queue, mergeOut, output, sortPc>>

RunsAreFormed ==
  /\ sortPc = "form"
  /\ inPos >= Size
  /\ sortPc' = "phase"
  /\ UNCHANGED <<input, inMemory, tmp, inPos, phase, runMult, mergeStart, nextRunValue, queue, mergeOut, output>>

\* Mutant: the last phase is left out when the run misses one number.
MoreThanOneRunLate == RunLength + 1 < Size

\* Is there more than one run left?
MoreThanOneRun == RunLength < Size

StartPhase ==
  /\ sortPc = "phase"
  /\ MoreThanOneRun
  /\ mergeStart' = 0
  /\ mergeOut' = 0
  /\ sortPc' = "start"
  /\ UNCHANGED <<input, inMemory, tmp, inPos, phase, runMult, nextRunValue, queue, output>>

\* The first number of each of the next K runs is put into the queue.
StartMerge ==
  LET first(i) == mergeStart + i * RunLength
      runs == {i \in 0 .. K - 1 : first(i) < Size}
  IN
  /\ sortPc = "start"
  /\ mergeStart < Size
  /\ nextRunValue' = [i \in 0 .. K - 1 |-> IF i \in runs THEN first(i) + 1 ELSE Nil]
  /\ queue' = {[run |-> i, value |-> MergeIn[first(i) + 1]] : i \in runs}
  /\ sortPc' = "merge"
  /\ UNCHANGED <<input, inMemory, tmp, inPos, phase, runMult, mergeStart, mergeOut, output>>

\* Mutant: a run is read on to the end of the file.
InRunToEnd(i) == nextRunValue[i] < Size

\* Has run i more numbers?
InRun(i) == /\ nextRunValue[i] < mergeStart + (i + 1) * RunLength
            /\ nextRunValue[i] < Size

\* Mutant: the queue gives the greatest number first.
IsTopReversed(elem) == \A other \in queue : elem.value >= other.value

\* Can elem be the top of the queue?
IsTop(elem) == \A other \in queue : elem.value <= other.value

\* The least number in the queue is written (which, of equal ones, the queue decides), and
\* the next one of its run takes its place.
MergeNext ==
  /\ sortPc = "merge"
  /\ \E elem \in queue :
       /\ IsTop(elem)
       /\ tmp' = Write(1 - phase, mergeOut, elem.value)
       /\ mergeOut' = mergeOut + 1
       /\ IF InRun(elem.run)
            THEN /\ queue' = (queue \ {elem}) \cup
                      {[run |-> elem.run, value |-> MergeIn[nextRunValue[elem.run] + 1]]}
                 /\ nextRunValue' = [nextRunValue EXCEPT ![elem.run] = @ + 1]
            ELSE /\ queue' = queue \ {elem}
                 /\ UNCHANGED nextRunValue
  /\ UNCHANGED <<input, inMemory, inPos, phase, runMult, mergeStart, output, sortPc>>

EndMerge ==
  /\ sortPc = "merge"
  /\ queue = {}
  /\ mergeStart' = mergeStart + K * RunLength
  /\ sortPc' = "start"
  /\ UNCHANGED <<input, inMemory, tmp, inPos, phase, runMult, nextRunValue, queue, mergeOut, output>>

\* Mutant: the runs of the next phase are taken to be as long as those of this one.
EndPhaseSameRuns ==
  /\ sortPc = "start"
  /\ mergeStart >= Size
  /\ phase' = 1 - phase
  /\ sortPc' = "phase"
  /\ UNCHANGED <<input, inMemory, tmp, inPos, runMult, mergeStart, nextRunValue, queue, mergeOut, output>>

EndPhase ==
  /\ sortPc = "start"
  /\ mergeStart >= Size
  /\ phase' = 1 - phase
  /\ runMult' = runMult * K
  /\ sortPc' = "phase"
  /\ UNCHANGED <<input, inMemory, tmp, inPos, mergeStart, nextRunValue, queue, mergeOut, output>>

CopyOutput ==
  /\ sortPc = "phase"
  /\ ~MoreThanOneRun
  /\ output' = MergeIn
  /\ sortPc' = IF inMemory = Nil THEN "done" ELSE "compare"
  /\ UNCHANGED <<input, inMemory, tmp, inPos, phase, runMult, mergeStart, nextRunValue, queue, mergeOut>>

CompareFiles ==
  /\ sortPc = "compare"
  /\ sortPc' = IF output = inMemory THEN "correct" ELSE "incorrect"
  /\ UNCHANGED <<input, inMemory, tmp, inPos, phase, runMult, mergeStart, nextRunValue, queue, mergeOut, output>>

SortNext ==
  \/ InternalSort \/ FormRun \/ RunsAreFormed
  \/ StartPhase \/ StartMerge \/ MergeNext \/ EndMerge \/ EndPhase
  \/ CopyOutput \/ CompareFiles

SortSpec == SortInit /\ [][SortNext]_sortVars

---------------------------------------------------------------------------
(* Properties *)

\* The files hold the same numbers, each as often.
SameNumbers(file, other) ==
  \A value \in Range(file) \cup Range(other) :
    Cardinality({i \in DOMAIN file : file[i] = value})
      = Cardinality({i \in DOMAIN other : other[i] = value})

IsAscending(file, from, to) == \A i, j \in from + 1 .. to : i < j => file[i] <= file[j]

\* The output is the input, sorted; the program says so if it has something to compare with.
OutputIsSorted ==
  /\ sortPc \in {"done", "compare", "correct"} =>
       IsAscending(output, 0, Size) /\ SameNumbers(output, input)
  /\ sortPc # "incorrect"

\* Before each phase the file it reads consists of sorted runs of the length it expects, the
\* last one cut off at the end, and of all the numbers of the input.
RunsAreSorted ==
  sortPc \in {"phase", "start", "merge"} =>
    /\ \A run \in 0 .. Size :
         IsAscending(MergeIn, run * RunLength, Min({(run + 1) * RunLength, Size}))
    /\ SameNumbers(MergeIn, input)

\* In the middle of a merge the numbers written since its start are sorted and none is
\* greater than one that waits; nothing is written before the numbers read from its runs are.
MergeIsOrdered ==
  LET begun == {i \in 0 .. K - 1 : nextRunValue[i] # Nil}
      read == UNION {mergeStart + i * RunLength + 1 .. nextRunValue[i] : i \in begun}
  IN
  sortPc = "merge" =>
    /\ mergeOut + Cardinality(queue) = mergeStart + Cardinality(read)
    /\ IsAscending(tmp[1 - phase], mergeStart, mergeOut)
    /\ \A elem \in queue, i \in mergeStart + 1 .. mergeOut :
         tmp[1 - phase][i] <= elem.value

\* The sort ends.
SortTerminates == <>(sortPc \in {"done", "correct"})
=============================================================================
