------------------------ MODULE SegmentManagerProofs ------------------------
(***************************************************************************)
(* Proofs about SegmentManager: types, what allocate's growth loop ends    *)
(* with, that descriptors are open on their segments' files, that sizes    *)
(* are backed by files whenever the process crashes, and that the segment  *)
(* manager implements SegmentStore, for any number of segments, threads,   *)
(* descriptors and restarts.                                               *)
(***************************************************************************)
EXTENDS SegmentManager, WellFoundedInduction, TLAPS

---------------------------------------------------------------------------
(* The least element of a set of naturals. *)

LEMMA LeastNatural ==
  ASSUME NEW T, T \subseteq Nat, T # {}
  PROVE  \E x \in T : \A y \in T : x <= y
<1> DEFINE R == OpToRel(<, Nat)
<1>1. IsWellFoundedOn(R, Nat)
  BY NatLessThanWellFounded
<1>2. \A x, y \in Nat : <<y, x>> \in R <=> y < x
  BY DEF OpToRel
<1> HIDE DEF R
<1>3. PICK x \in T : \A y \in T : ~ (<<y, x>> \in R)
  BY <1>1, WFMin
<1>4. x \in Nat /\ \A y \in T : y \in Nat /\ ~(y < x)
  BY <1>2, <1>3, Zenon
<1>5. QED
  BY <1>4

LEMMA MinOfNaturals ==
  ASSUME NEW T, T \subseteq Nat, T # {}
  PROVE  Min(T) \in T /\ \A y \in T : Min(T) <= y
BY LeastNatural DEF Min

\* Induction, for a set of naturals.
LEMMA AllNaturals ==
  ASSUME NEW T, T \subseteq Nat, 0 \in T, \A n \in T : n + 1 \in T
  PROVE  T = Nat
<1> SUFFICES ASSUME Nat \ T # {} PROVE FALSE
  OBVIOUS
<1>1. PICK x \in Nat \ T : \A y \in Nat \ T : x <= y
  BY LeastNatural
<1>2. x # 0 /\ x - 1 \in T
  BY <1>1
<1>3. QED
  BY <1>1, <1>2

---------------------------------------------------------------------------
(* The growth loop of allocate. *)

\* One turn grows, and not far beyond min from below it.
LEMMA GrowBounds ==
  ASSUME NEW min \in Nat, NEW n \in 0 .. min - 1
  PROVE  Grow(n) \in n + 1 .. (5 * min) \div 4 /\ (5 * min) \div 4 <= 2 * min
BY DEF Grow

\* The loop from n on, as the recursive definition says it.
IsLoop(f, min, low) ==
  f = [n \in 0 .. 2 * min |-> IF n < min /\ n + low >= min THEN f[Grow(n)] ELSE n]

LEMMA LoopExists ==
  ASSUME NEW min \in Nat
  PROVE  \E f : IsLoop(f, min, min)
<1> DEFINE T == {k \in Nat : \E f : IsLoop(f, min, k)}
           D == 0 .. 2 * min
<1>1. 0 \in T
  <2>1. IsLoop([n \in D |-> n], min, 0)
    BY DEF IsLoop
  <2>2. QED
    BY <2>1
<1>2. ASSUME NEW k \in T PROVE k + 1 \in T
  <2>1. PICK f : IsLoop(f, min, k)
    OBVIOUS
  <2> DEFINE g == [n \in D |-> IF n < min /\ n + (k + 1) >= min THEN f[Grow(n)] ELSE n]
  <2>2. ASSUME NEW n \in D, n < min, n + (k + 1) >= min PROVE f[Grow(n)] = g[Grow(n)]
    <3>1. Grow(n) \in D /\ Grow(n) + k >= min
      BY <2>2, GrowBounds
    <3>2. f[Grow(n)] = IF Grow(n) < min /\ Grow(n) + k >= min THEN f[Grow(Grow(n))] ELSE Grow(n)
      BY <2>1, <3>1 DEF IsLoop
    <3>3. g[Grow(n)] =
            IF Grow(n) < min /\ Grow(n) + (k + 1) >= min THEN f[Grow(Grow(n))] ELSE Grow(n)
      BY <3>1
    <3>4. Grow(n) + (k + 1) >= min
      BY <3>1
    <3>5. QED
      BY <3>1, <3>2, <3>3, <3>4
  <2>3. g = [n \in D |-> IF n < min /\ n + (k + 1) >= min THEN g[Grow(n)] ELSE n]
    BY <2>2
  <2> HIDE DEF g
  <2>4. IsLoop(g, min, k + 1)
    BY <2>3 DEF IsLoop
  <2>5. QED
    BY <2>4
<1>3. min \in T
  BY <1>1, <1>2, AllNaturals
<1>4. QED
  BY <1>3

\* It ends, with a size that is large enough and no more than the growth factor larger.
LEMMA GrowToBounds ==
  ASSUME NEW min \in Nat, NEW n \in 0 .. min - 1
  PROVE  GrowTo(min)[n] \in min .. (5 * min) \div 4
<1> DEFINE loop == GrowTo(min)
<1>1. loop = [m \in 0 .. 2 * min |-> IF m < min THEN loop[Grow(m)] ELSE m]
  <2>1. PICK f : IsLoop(f, min, min)
    BY LoopExists
  <2>2. f = [m \in 0 .. 2 * min |-> IF m < min THEN f[Grow(m)] ELSE m]
    BY <2>1 DEF IsLoop
  <2>3. QED
    BY <2>2 DEF GrowTo
<1> HIDE DEF loop
<1> DEFINE T == {k \in Nat : \A m \in 0 .. min - 1 : m + k >= min => loop[m] \in min .. (5 * min) \div 4}
<1>2. 0 \in T
  OBVIOUS
<1>3. ASSUME NEW k \in T PROVE k + 1 \in T
  <2>1. ASSUME NEW m \in 0 .. min - 1, m + (k + 1) >= min
        PROVE  loop[m] \in min .. (5 * min) \div 4
    <3>1. Grow(m) \in m + 1 .. (5 * min) \div 4 /\ (5 * min) \div 4 <= 2 * min
      BY GrowBounds
    <3>2. loop[m] = loop[Grow(m)]
      BY <1>1
    <3>3. CASE Grow(m) < min
      BY <2>1, <3>1, <3>2, <3>3
    <3>4. CASE Grow(m) >= min
      <4>1. loop[Grow(m)] = Grow(m)
        BY <1>1, <3>1, <3>4
      <4>2. QED
        BY <3>1, <3>2, <3>4, <4>1
    <3>5. QED
      BY <3>1, <3>3, <3>4
  <2>2. QED
    BY <2>1
<1>4. min \in T
  BY <1>2, <1>3, AllNaturals
<1>5. QED
  BY <1>4 DEF loop
---------------------------------------------------------------------------
(* Types, whatever the number of administrators. *)

\* A thread in an operation has a segment; one that creates has an entry's place for it,
\* or the place behind the last entry; a dead process has no threads.
TargetsOK ==
  \A t \in Threads :
    /\ pc[t] # "idle" => target[t] \in Segments
    /\ pc[t] \in {"create", "record"} => target[t] <= Len(segments)
    /\ ~running => pc[t] = "idle"

\* Every restart makes the vector one entry longer.
StoredOK == stored # Nil => Len(stored) \in 1 .. MaxSegments + 1 + restarts

\* Under the mutex a thread opens what is not open.
OpenersOK ==
  \A t \in Threads : pc[t] = "insert" =>
    /\ ~IsOpen("buffer", target[t])
    /\ \A u \in Threads : pc[u] = "insert" => u = t

TInv == TypeOK /\ TargetsOK /\ StoredOK /\ OpenersOK

LEMMA SizesAreNaturals ==
  ASSUME TypeOK, NEW s \in Segments, Exists(segments, s)
  PROVE  /\ SizeOf(s) \in Nat
         /\ s \in Nat /\ s < Len(segments) /\ s + 1 \in 1 .. Len(segments)
         /\ segments[s + 1] \in Entries /\ segments[s + 1].id = s
<1>1. segments \in Seq(Entries) /\ Len(segments) \in Nat /\ s \in Nat
  BY DEF TypeOK, Segments
<1>2. s < Len(segments) /\ segments[s + 1].id = s
  BY <1>1 DEF Exists
<1>3. s + 1 \in 1 .. Len(segments)
  BY <1>1, <1>2
<1>4. segments[s + 1] \in Entries
  BY <1>1, <1>3
<1>5. segments[s + 1].size \in Nat
  BY <1>4 DEF Entries
<1>6. QED
  BY <1>1, <1>2, <1>3, <1>4, <1>5 DEF SizeOf

\* One entry of the vector is replaced.
LEMMA ReplaceEntry ==
  ASSUME NEW v, v \in Seq(Entries), NEW i \in 1 .. Len(v), NEW e \in Entries
  PROVE  /\ [v EXCEPT ![i] = e] \in Seq(Entries)
         /\ Len([v EXCEPT ![i] = e]) = Len(v)
OBVIOUS

LEMMA OpenFileEffect ==
  ASSUME FileTypeOK, NEW m \in Managers, NEW s \in Segments, OpenFile(m, s)
  PROVE  \E fd \in Descriptors :
           /\ opened[fd] = Nil
           /\ opened' = [opened EXCEPT ![fd] = s]
           /\ handles' = [handles EXCEPT ![m] = [handles[m] EXCEPT ![s] = fd]]
<1>1. FreeDescriptors \subseteq Nat
  BY DescriptorsAssumption DEF FreeDescriptors
<1>2. Min(FreeDescriptors) \in FreeDescriptors
  BY <1>1, MinOfNaturals DEF OpenFile
<1>3. QED
  BY <1>2 DEF OpenFile, FreeDescriptors

\* create takes an entry without an id, or the place behind the last one.
LEMMA FreeIdIsFree ==
  ASSUME TypeOK, FreeId \in Segments
  PROVE  /\ FreeId <= Len(segments)
         /\ ~Exists(segments, FreeId)
<1> DEFINE free == {i \in 1 .. Len(segments) - 1 : segments[i + 1].id = 0}
<1>1. Len(segments) \in Nat
  BY DEF TypeOK
<1>2. CASE free = {}
  BY <1>1, <1>2 DEF FreeId, Exists
<1>3. CASE free # {}
  <2>1. free \subseteq Nat
    OBVIOUS
  <2>2. Min(free) \in free /\ FreeId = Min(free)
    BY <1>3, <2>1, MinOfNaturals DEF FreeId
  <2>3. QED
    BY <1>1, <2>2 DEF Exists
<1>4. QED
  BY <1>2, <1>3

\* Steps of the page I/O.
LEMMA PageIOTypes ==
  ASSUME TInv, NEW t \in Threads, PageIO(t)
  PROVE  TInv'
<1> USE DEF TInv, PageIO, Goto, Stop, fileVars
<1>1. CASE \E s \in Segments : BeginIO(t, s)
  BY <1>1, NilAssumption
  DEF TypeOK, FileTypeOK, TargetsOK, StoredOK, OpenersOK, BeginIO, IOLabels, AdminLabels, IsOpen
<1>2. CASE CheckOpen(t)
  BY <1>2
  DEF TypeOK, FileTypeOK, TargetsOK, StoredOK, OpenersOK, CheckOpen, IOLabels, AdminLabels, IsOpen
<1>3. CASE OpenLock(t)
  BY <1>3
  DEF TypeOK, FileTypeOK, TargetsOK, StoredOK, OpenersOK, OpenLock, MutexFree, IOLabels,
      AdminLabels, IsOpen
<1>4. CASE OpenInsert(t)
  <2>1. target[t] \in Segments /\ running /\ pc[t] = "insert"
    BY <1>4 DEF TargetsOK, OpenInsert
  <2>2. CASE OpenFile("buffer", target[t]) /\ Goto(t, "at") /\ UNCHANGED <<running, target, length>>
    <3>1. PICK fd \in Descriptors :
            /\ opened' = [opened EXCEPT ![fd] = target[t]]
            /\ handles' = [handles EXCEPT !["buffer"] = [handles["buffer"] EXCEPT ![target[t]] = fd]]
      BY <2>1, <2>2, OpenFileEffect DEF TypeOK, Managers
    <3>2. TypeOK'
      BY <1>4, <2>1, <2>2, <3>1 DEF TypeOK, FileTypeOK, IOLabels, Managers
    <3>3. TargetsOK' /\ StoredOK'
      BY <1>4, <2>1, <2>2 DEF TargetsOK, StoredOK, TypeOK
    <3>4. OpenersOK'
      BY <1>4, <2>1, <2>2 DEF OpenersOK, TypeOK
    <3>5. QED
      BY <3>2, <3>3, <3>4
  <2>3. CASE Stop /\ UNCHANGED fileVars
    BY <1>4, <2>3 DEF TypeOK, FileTypeOK, TargetsOK, StoredOK, OpenersOK
  <2>4. QED
    BY <1>4, <2>2, <2>3 DEF OpenInsert
<1>5. CASE Transfer(t)
  BY <1>5
  DEF TypeOK, FileTypeOK, TargetsOK, StoredOK, OpenersOK, Transfer, IOLabels, AdminLabels, IsOpen
<1>6. QED
  BY <1>1, <1>2, <1>3, <1>4, <1>5 DEF FileNext

\* Threads that open files are not disturbed by another one's operation.
LEMMA OpenersKept ==
  ASSUME TypeOK, OpenersOK, NEW t \in Threads, NEW label, label # "insert",
         pc' = [pc EXCEPT ![t] = label],
         \A u \in Threads \ {t} : target'[u] = target[u],
         handles'["buffer"] = handles["buffer"]
  PROVE  OpenersOK'
BY DEF TypeOK, OpenersOK, IsOpen

LEMMA CreateTypes ==
  ASSUME TInv, NEW t \in Threads, Create(t) \/ CreateSegmentFile(t) \/ RecordSegment(t)
  PROVE  TInv'
<1> USE DEF TInv, Goto, fileVars, Stop
<1>1. CASE Create(t)
  <2>1. FreeId \in Segments /\ FreeId <= Len(segments)
    BY <1>1, FreeIdIsFree DEF Create
  <2>2. TypeOK' /\ TargetsOK' /\ StoredOK'
    BY <1>1, <2>1 DEF Create, TypeOK, FileTypeOK, TargetsOK, StoredOK, AdminLabels
  <2>3. OpenersOK'
    BY <1>1, OpenersKept DEF Create, TypeOK, FileTypeOK
  <2>4. QED
    BY <2>2, <2>3
<1>2. CASE CreateSegmentFile(t)
  <2>1. target[t] \in Segments /\ running /\ pc[t] = "create"
    BY <1>2 DEF CreateSegmentFile, TargetsOK
  <2>2. CASE CreateFile(target[t]) /\ Goto(t, "record") /\ UNCHANGED <<running, target>>
    <3>1. PICK fd \in Descriptors :
            /\ opened' = [opened EXCEPT ![fd] = target[t]]
            /\ handles' = [handles EXCEPT !["segments"] = [handles["segments"] EXCEPT ![target[t]] = fd]]
      BY <2>1, <2>2, OpenFileEffect DEF TypeOK, Managers, CreateFile
    <3>2. TypeOK'
      BY <1>2, <2>1, <2>2, <3>1
      DEF CreateSegmentFile, CreateFile, TypeOK, FileTypeOK, AdminLabels, Managers
    <3>3. TargetsOK' /\ StoredOK'
      BY <1>2, <2>1, <2>2 DEF CreateSegmentFile, TargetsOK, StoredOK, TypeOK
    <3>4. OpenersOK'
      BY <1>2, <2>1, <2>2, <3>1, OpenersKept DEF CreateSegmentFile, TypeOK, FileTypeOK, Managers
    <3>5. QED
      BY <3>2, <3>3, <3>4
  <2>3. CASE Stop /\ UNCHANGED fileVars
    BY <1>2, <2>3 DEF CreateSegmentFile, TypeOK, FileTypeOK, TargetsOK, StoredOK, OpenersOK
  <2>4. QED
    BY <1>2, <2>2, <2>3 DEF CreateSegmentFile
<1>3. CASE RecordSegment(t)
  <2> DEFINE s == target[t]
             entry == [id |-> s, size |-> 0]
  <2>1. s \in Segments /\ s <= Len(segments) /\ pc[t] = "record" /\ entry \in Entries
    BY <1>3 DEF RecordSegment, TargetsOK, Entries
  <2>2. /\ segments' = IF s < Len(segments) THEN [segments EXCEPT ![s + 1] = entry]
                                            ELSE Append(segments, entry)
        /\ pc' = [pc EXCEPT ![t] = "persist"]
        /\ UNCHANGED <<running, target, fileVars, stored, newSize, restarts>>
    BY <1>3 DEF RecordSegment
  <2>3. s \in Nat /\ s <= MaxSegments /\ MaxSegments \in Nat
    BY <2>1, SegmentsAssumption DEF Segments
  <2> HIDE DEF s, entry
  <2>4. /\ segments' \in Seq(Entries)
        /\ Len(segments') >= Len(segments)
        /\ Len(segments') \in 1 .. MaxSegments + 1 + restarts
    BY <2>1, <2>2, <2>3 DEF TypeOK
  <2>5. TypeOK'
    BY <2>2, <2>4 DEF TypeOK, FileTypeOK, AdminLabels
  <2>6. TargetsOK' /\ StoredOK'
    <3>1. Len(segments) \in Nat /\ Len(segments') \in Nat
      BY <2>4 DEF TypeOK
    <3>2. \A u \in Threads : target[u] \in Segments => target[u] \in Nat
      BY DEF Segments
    <3>3. QED
      BY <2>1, <2>2, <2>4, <3>1, <3>2 DEF TargetsOK, StoredOK, TypeOK
  <2>7. OpenersOK'
    BY <2>2, OpenersKept
  <2>8. QED
    BY <2>5, <2>6, <2>7
<1>4. QED
  BY <1>1, <1>2, <1>3
\* Steps that change no number of entries in the vector.
LEMMA AllocateTypes ==
  ASSUME TInv, NEW t \in Threads,
         \/ \E s \in Segments, min \in Sizes : Allocate(t, s, min)
         \/ EnlargeFile(t) \/ SetSize(t)
  PROVE  TInv'
<1> USE DEF TInv, Goto, fileVars
<1>1. ASSUME NEW s \in Segments, NEW min \in Sizes, Allocate(t, s, min) PROVE TInv'
  <2>1. SizeOf(s) \in Nat /\ SizeOf(s) < min /\ min \in Nat
    BY <1>1, SizesAreNaturals, BoundsAssumption DEF Allocate
  <2>2. GrowTo(min)[SizeOf(s)] \in Nat
    <3>1. SizeOf(s) \in 0 .. min - 1
      BY <2>1
    <3>2. GrowTo(min)[SizeOf(s)] \in min .. (5 * min) \div 4
      BY <2>1, <3>1, GrowToBounds
    <3>3. QED
      BY <2>1, <3>2
  <2> HIDE DEF SizeOf, GrowTo
  <2>3. TypeOK' /\ TargetsOK' /\ StoredOK'
    BY <1>1, <2>2 DEF Allocate, TypeOK, FileTypeOK, TargetsOK, StoredOK, AdminLabels
  <2>4. OpenersOK'
    BY <1>1, OpenersKept DEF Allocate, TypeOK, FileTypeOK
  <2>5. QED
    BY <2>3, <2>4
<1>2. CASE EnlargeFile(t)
  <2>1. TypeOK' /\ TargetsOK' /\ StoredOK'
    BY <1>2 DEF EnlargeFile, TruncateFile, TypeOK, FileTypeOK, TargetsOK, StoredOK, AdminLabels
  <2>2. OpenersOK'
    BY <1>2, OpenersKept DEF EnlargeFile, TruncateFile
  <2>3. QED
    BY <2>1, <2>2
<1>3. CASE SetSize(t)
  <2> DEFINE i == target[t] + 1
             e == [segments[i] EXCEPT !.size = newSize[t]]
  <2>1. newSize[t] \in Nat /\ i \in Int /\ segments \in Seq(Entries)
    BY <1>3 DEF SetSize, TargetsOK, TypeOK, Segments
  <2>2. segments' = [segments EXCEPT ![i] = e]
    BY <1>3 DEF SetSize
  <2> HIDE DEF i
  <2>3. segments' \in Seq(Entries) /\ Len(segments') = Len(segments)
    <3>1. CASE i \in 1 .. Len(segments)
      <4>1. segments[i] \in Entries
        BY <2>1, <3>1
      <4>2. e \in Entries
        BY <2>1, <4>1 DEF Entries
      <4> HIDE DEF e
      <4>3. QED
        BY <2>1, <2>2, <3>1, <4>2, ReplaceEntry
    <3>2. CASE i \notin 1 .. Len(segments)
      <4> HIDE DEF e
      <4>1. DOMAIN segments = 1 .. Len(segments)
        BY <2>1
      <4>2. segments' = segments
        BY <2>1, <2>2, <3>2, <4>1
      <4>3. QED
        BY <2>1, <4>2
    <3>3. QED
      BY <3>1, <3>2
  <2> HIDE DEF e
  <2>4. TypeOK' /\ TargetsOK' /\ StoredOK'
    BY <1>3, <2>3 DEF SetSize, TypeOK, FileTypeOK, TargetsOK, StoredOK, AdminLabels
  <2>5. OpenersOK'
    BY <1>3, OpenersKept DEF SetSize
  <2>6. QED
    BY <2>4, <2>5
<1>4. QED
  BY <1>1, <1>2, <1>3

LEMMA RemoveTypes ==
  ASSUME TInv, NEW t \in Threads,
         \/ \E s \in Segments : Remove(t, s)
         \/ EraseSegment(t)
  PROVE  TInv'
<1> USE DEF TInv, Goto, fileVars
<1>1. ASSUME NEW s \in Segments, Remove(t, s) PROVE TInv'
  <2>1. handles' \in [Managers -> [Segments -> Descriptors \cup {Nil}]]
        /\ handles'["buffer"] = handles["buffer"]
    BY <1>1 DEF Remove, RemoveFile, EraseHandle, TypeOK, FileTypeOK, Managers
  <2>2. opened' \in [Descriptors -> Segments \cup {Unlinked, Nil}]
        /\ length' \in [Segments -> Nat \cup {Nil}]
    BY <1>1 DEF Remove, RemoveFile, TypeOK, FileTypeOK
  <2>3. TypeOK' /\ TargetsOK' /\ StoredOK'
    BY <1>1, <2>1, <2>2 DEF Remove, TypeOK, FileTypeOK, TargetsOK, StoredOK, AdminLabels
  <2>4. OpenersOK'
    BY <1>1, <2>1, OpenersKept DEF Remove, TypeOK, FileTypeOK
  <2>5. QED
    BY <2>3, <2>4
<1>2. CASE EraseSegment(t)
  <2> DEFINE i == target[t] + 1
  <2>1. Unused \in Entries /\ i \in Int /\ segments \in Seq(Entries)
    BY <1>2 DEF EraseSegment, TargetsOK, TypeOK, Segments, Unused, Entries
  <2>2. segments' \in Seq(Entries) /\ Len(segments') = Len(segments)
    <3>1. segments' = [segments EXCEPT ![i] = Unused]
      BY <1>2 DEF EraseSegment
    <3> HIDE DEF i
    <3>2. CASE i \in 1 .. Len(segments)
      BY <2>1, <3>1, <3>2, ReplaceEntry
    <3>3. CASE i \notin 1 .. Len(segments)
      <4>1. DOMAIN segments = 1 .. Len(segments)
        BY <2>1
      <4>2. segments' = segments
        BY <2>1, <3>1, <3>3, <4>1
      <4>3. QED
        BY <2>1, <4>2
    <3>4. QED
      BY <3>2, <3>3
  <2>3. TypeOK' /\ TargetsOK' /\ StoredOK'
    BY <1>2, <2>2 DEF EraseSegment, TypeOK, FileTypeOK, TargetsOK, StoredOK, AdminLabels
  <2>4. OpenersOK'
    BY <1>2, OpenersKept DEF EraseSegment
  <2>5. QED
    BY <2>3, <2>4
<1>3. QED
  BY <1>1, <1>2

LEMMA PersistTypes ==
  ASSUME TInv, NEW t \in Threads, PersistTruncate(t) \/ PersistWrite(t)
  PROVE  TInv'
<1> USE DEF TInv, Goto, fileVars
<1>1. OpenersOK'
  BY OpenersKept DEF PersistTruncate, PersistWrite, TypeOK, FileTypeOK
<1>2. TypeOK' /\ TargetsOK' /\ StoredOK'
  BY DEF PersistTruncate, PersistWrite, TypeOK, FileTypeOK, TargetsOK, StoredOK, AdminLabels
<1>3. QED
  BY <1>1, <1>2

\* An entry more, and at least segment 0's.
LEMMA RestartEntries ==
  ASSUME TypeOK, StoredOK, Restart
  PROVE  /\ segments' \in Seq(Entries)
         /\ Len(segments') \in 1 .. MaxSegments + 2 + restarts
<1>1. MaxSegments \in Nat /\ restarts \in Nat /\ Unused \in Entries /\ <<Unused>> \in Seq(Entries)
  BY SegmentsAssumption DEF TypeOK, Unused, Entries
<1> HIDE DEF Unused
<1>2. CASE stored # Nil
  <2>1. stored \in Seq(Entries) /\ Len(stored) <= MaxSegments + 1 + restarts
    BY <1>2 DEF TypeOK, StoredOK
  <2>2. segments' = <<Unused>> \o stored
    BY <1>2 DEF Restart
  <2>3. QED
    BY <1>1, <2>1, <2>2
<1>3. CASE stored = Nil
  <2>1. PICK n \in 0 .. MaxSegments : segments' = <<Unused>> \o [i \in 1 .. n |-> Unused]
    BY <1>3 DEF Restart
  <2>2. [i \in 1 .. n |-> Unused] \in Seq(Entries) /\ Len([i \in 1 .. n |-> Unused]) = n
    BY <1>1
  <2> DEFINE unused == [i \in 1 .. n |-> Unused]
  <2> HIDE DEF unused
  <2>3. segments' = <<Unused>> \o unused /\ unused \in Seq(Entries) /\ Len(unused) = n
    BY <2>1, <2>2 DEF unused
  <2>4. QED
    BY <1>1, <2>3
<1>4. QED
  BY <1>2, <1>3

LEMMA RestartTypes ==
  ASSUME TInv, Restart
  PROVE  TInv'
<1> USE DEF TInv
<1>1. /\ ~running /\ restarts < MaxRestarts
      /\ restarts' = restarts + 1
      /\ running' = TRUE
      /\ FileReset
      /\ newSize' = [t \in Threads |-> 0]
      /\ UNCHANGED <<length, pc, target, stored>>
  BY DEF Restart
<1>2. restarts \in Nat /\ MaxRestarts \in Nat
  BY BoundsAssumption DEF TypeOK
<1>3. TypeOK'
  <2>1. restarts' \in 0 .. MaxRestarts
    BY <1>1, <1>2
  <2>2. Len(segments') \in 1 .. MaxSegments + 1 + restarts' /\ segments' \in Seq(Entries)
    BY <1>1, <1>2, RestartEntries, SegmentsAssumption
  <2>3. FileTypeOK'
    BY <1>1 DEF TypeOK, FileTypeOK, FileReset
  <2>4. newSize' \in [Threads -> Nat] /\ (stored' = Nil \/ stored' \in Seq(Entries))
    BY <1>1 DEF TypeOK
  <2>5. QED
    BY <1>1, <2>1, <2>2, <2>3, <2>4 DEF TypeOK
<1>4. TargetsOK' /\ OpenersOK'
  BY <1>1 DEF TargetsOK, OpenersOK
<1>5. StoredOK'
  BY <1>1, <1>2, SegmentsAssumption DEF StoredOK
<1>6. QED
  BY <1>3, <1>4, <1>5

\* Every variable keeps its type, whatever the number of administrators; no thread without a
\* segment is in an operation; and the buffer manager's object opens no file that is open.
THEOREM TypesInductive == Spec => []TInv
<1>1. Init => TInv
  BY SegmentsAssumption, BoundsAssumption
  DEF Init, FileInit, TInv, TypeOK, FileTypeOK, TargetsOK, StoredOK, OpenersOK, Unused, Entries
<1>2. TInv /\ [Next]_vars => TInv'
  <2> SUFFICES ASSUME TInv, [Next]_vars PROVE TInv'
    OBVIOUS
  <2>1. ASSUME NEW t \in Administrators, Administrate(t) PROVE TInv'
    <3>1. t \in Threads
      BY AdministratorsAssumption
    <3>2. QED
      BY <2>1, <3>1, CreateTypes, AllocateTypes, RemoveTypes, PersistTypes DEF Administrate
  <2>2. ASSUME NEW t \in Threads, PageIO(t) PROVE TInv'
    BY <2>2, PageIOTypes
  <2>3. CASE Crash
    BY <2>3
    DEF Crash, Stop, fileVars, TInv, TypeOK, FileTypeOK, TargetsOK, StoredOK, OpenersOK
  <2>4. CASE Restart
    BY <2>4, RestartTypes
  <2>5. CASE UNCHANGED vars
    BY <2>5
    DEF vars, fileVars, TInv, TypeOK, FileTypeOK, TargetsOK, StoredOK, OpenersOK, IsOpen
  <2>6. QED
    BY <2>1, <2>2, <2>3, <2>4, <2>5 DEF Next
<1>3. QED
  BY <1>1, <1>2, PTL DEF Spec

\* Every variable keeps its type.
THEOREM TypeCorrect == Spec => []TypeOK
<1>1. TInv => TypeOK
  BY DEF TInv
<1>2. QED
  BY <1>1, TypesInductive, PTL
---------------------------------------------------------------------------
(* What a step may never do, whatever the number of administrators. *)

LEMMA BufferHandleKept ==
  ASSUME TInv, [Next]_vars, running, running', NEW s \in Segments, IsOpen("buffer", s)
  PROVE  handles'["buffer"][s] = handles["buffer"][s]
<1> USE DEF TInv
<1>1. ASSUME NEW t \in Threads, OpenInsert(t) PROVE handles'["buffer"][s] = handles["buffer"][s]
  <2>1. target[t] \in Segments /\ target[t] # s
    BY <1>1 DEF OpenInsert, TargetsOK, OpenersOK
  <2>2. OpenFile("buffer", target[t])
    BY <1>1 DEF OpenInsert, Stop
  <2>3. PICK fd \in Descriptors :
          handles' = [handles EXCEPT !["buffer"] = [handles["buffer"] EXCEPT ![target[t]] = fd]]
    BY <2>1, <2>2, OpenFileEffect DEF TypeOK, Managers
  <2>4. QED
    BY <2>1, <2>3 DEF TypeOK, FileTypeOK, Managers
<1>2. ASSUME NEW t \in Threads, CreateSegmentFile(t) PROVE handles'["buffer"] = handles["buffer"]
  <2>1. target[t] \in Segments /\ OpenFile("segments", target[t])
    BY <1>2 DEF CreateSegmentFile, CreateFile, TargetsOK, Stop
  <2>2. PICK fd \in Descriptors :
          handles' = [handles EXCEPT !["segments"] = [handles["segments"] EXCEPT ![target[t]] = fd]]
    BY <2>1, OpenFileEffect DEF TypeOK, Managers
  <2>3. QED
    BY <2>2 DEF TypeOK, FileTypeOK, Managers
<1>3. ASSUME NEW t \in Threads, NEW u \in Segments, Remove(t, u)
      PROVE  handles'["buffer"] = handles["buffer"]
  BY <1>3 DEF Remove, RemoveFile, EraseHandle, TypeOK, FileTypeOK, Managers
<1>4. ASSUME NEW t \in Threads, PageIO(t), ~OpenInsert(t) PROVE UNCHANGED handles
  BY <1>4 DEF PageIO, BeginIO, FileNext, CheckOpen, OpenLock, Transfer, fileVars
<1>5. ASSUME NEW t \in Administrators, Administrate(t), ~CreateSegmentFile(t),
             \A u \in Segments : ~Remove(t, u)
      PROVE  UNCHANGED handles
  BY <1>5
  DEF Administrate, Create, RecordSegment, Allocate, EnlargeFile, TruncateFile, SetSize,
      EraseSegment, PersistTruncate, PersistWrite, fileVars
<1>6. CASE Crash \/ Restart \/ UNCHANGED vars
  BY <1>6 DEF Crash, Restart, Stop, vars, fileVars
<1>7. QED
  BY <1>1, <1>2, <1>3, <1>4, <1>5, <1>6, AdministratorsAssumption DEF Next

\* The buffer manager's object never replaces a descriptor: threads that find a file closed
\* at the same time open it once.
THEOREM BufferAlwaysOpensOnce == Spec => BufferOpensOnce
<1>1. TInv /\ [Next]_vars =>
        [running /\ running' => \A s \in Segments :
           IsOpen("buffer", s) => handles'["buffer"][s] = handles["buffer"][s]]_<<running, handles>>
  BY BufferHandleKept
<1>2. QED
  BY <1>1, TypesInductive, PTL DEF Spec, BufferOpensOnce

OneAdministrator == \A t, u \in Administrators : t = u

\* Only the last step of persist returns.
LEMMA ReturnsPersisted ==
  ASSUME TInv, [Next]_vars, running', NEW t \in Administrators,
         pc[t] \in AdminLabels, pc'[t] = "idle"
  PROVE  stored' = segments'
<1> USE DEF TInv, Goto, AdminLabels
<1>1. t \in Threads /\ pc[t] # "idle"
  BY AdministratorsAssumption
<1>2. ASSUME NEW u \in Threads, PersistWrite(u) PROVE stored' = segments'
  BY <1>2 DEF PersistWrite
<1>3. ASSUME NEW u \in Threads, PageIO(u) PROVE FALSE
  <2>1. u # t => pc'[t] = pc[t]
    BY <1>1, <1>3
    DEF PageIO, BeginIO, FileNext, CheckOpen, OpenLock, OpenInsert, Transfer, Stop, TypeOK
  <2>2. u = t => FALSE
    BY <1>1, <1>3
    DEF PageIO, BeginIO, FileNext, CheckOpen, OpenLock, OpenInsert, Transfer, Stop, TypeOK
  <2>3. QED
    BY <1>1, <2>1, <2>2
<1>4. ASSUME NEW u \in Administrators, Administrate(u), ~PersistWrite(u) PROVE FALSE
  <2>1. u \in Threads
    BY AdministratorsAssumption
  <2>2. \E label \in AdminLabels : pc' = [pc EXCEPT ![u] = label]
    BY <1>4
    DEF Administrate, Create, CreateSegmentFile, RecordSegment, Allocate, EnlargeFile, SetSize,
        Remove, EraseSegment, PersistTruncate, Stop
  <2>3. pc'[t] = pc[t] \/ pc'[t] \in AdminLabels
    BY <1>1, <2>1, <2>2 DEF TypeOK
  <2>4. QED
    BY <1>1, <2>3
<1>5. CASE Crash \/ Restart \/ UNCHANGED vars
  BY <1>1, <1>5 DEF Crash, Restart, Stop, vars
<1>6. QED
  BY <1>2, <1>3, <1>4, <1>5, AdministratorsAssumption DEF Next

\* What create, allocate and remove changed is in the file when they return, if there is one
\* administrator: with several persist would not be one step.
THEOREM ChangesAreAlwaysPersisted ==
  ASSUME OneAdministrator
  PROVE  Spec => ChangesArePersisted
<1>1. TInv /\ [Next]_vars =>
        [\A t \in Administrators : pc[t] \in AdminLabels /\ pc'[t] = "idle" /\ running'
           => stored' = segments']_vars
  BY ReturnsPersisted
<1>2. QED
  BY <1>1, TypesInductive, PTL DEF Spec, ChangesArePersisted
---------------------------------------------------------------------------
(* Files and sizes, with one administrator: the class has no lock. *)

Erasing(s) == \E t \in Threads : pc[t] = "erase" /\ target[t] = s

Live(s) == Exists(segments, s) /\ ~Erasing(s)

\* A segment that exists has a file, and one that is about to.
HasFile(s) == Live(s) \/ \E t \in Threads : pc[t] = "record" /\ target[t] = s

\* No entry is before the place where checkExists looks for its segment; a restart puts
\* every one of them behind it.
IdsBelow(entries) == \A i \in DOMAIN entries : entries[i].id < i

EntriesOK == IdsBelow(segments) /\ (stored # Nil => IdsBelow(stored))

\* The buffer manager's descriptors are open, on files of their segments.
BufferHandlesOK ==
  running => \A s \in Segments :
    IsOpen("buffer", s) => opened[handles["buffer"][s]] \in {s, Unlinked}

\* So are the segment manager's that it may close or truncate, and they are its own.
FilesOK ==
  running => \A s \in Segments : HasFile(s) =>
    /\ length[s] # Nil
    /\ IsOpen("segments", s) =>
         /\ opened[handles["segments"][s]] = s
         /\ \A u \in Segments : handles["buffer"][u] # handles["segments"][s]

SizesOK == running => \A s \in Segments : Live(s) => SizeOf(s) <= length[s]

\* What an administrator has found, and what it has computed, is still so.
AdministratorsOK ==
  \A t \in Threads :
    /\ pc[t] \in AdminLabels => t \in Administrators
    /\ pc[t] \in {"create", "record"} => ~Exists(segments, target[t])
    /\ pc[t] \in {"truncate", "setSize", "erase"} => Exists(segments, target[t])
    /\ pc[t] \in {"truncate", "setSize"} =>
         \E min \in Sizes : SizeOf(target[t]) < min /\ newSize[t] \in min .. (5 * min) \div 4
    /\ pc[t] = "setSize" => length[target[t]] = newSize[t]

FInv == EntriesOK /\ BufferHandlesOK /\ FilesOK /\ SizesOK /\ AdministratorsOK

\* Two threads are not in operations on segments at one time.
LEMMA OneOperation ==
  ASSUME OneAdministrator, AdministratorsOK, NEW t \in Administrators, NEW u \in Threads,
         pc[u] \in AdminLabels
  PROVE  u = t
BY DEF OneAdministrator, AdministratorsOK

---------------------------------------------------------------------------
(* The vector of entries. *)

\* One entry is replaced, or one is added.
LEMMA SetEntry ==
  ASSUME TypeOK, IdsBelow(segments), NEW s \in Segments, s <= Len(segments),
         NEW e \in Entries, e.id \in {0, s},
         segments' = IF s < Len(segments) THEN [segments EXCEPT ![s + 1] = e]
                                          ELSE Append(segments, e)
  PROVE  /\ IdsBelow(segments')
         /\ segments'[s + 1] = e
         /\ Exists(segments', s) <=> e.id = s
         /\ \A u \in Segments \ {s} :
              /\ Exists(segments', u) <=> Exists(segments, u)
              /\ Exists(segments, u) => segments'[u + 1] = segments[u + 1]
<1> DEFINE n == Len(segments)
           m == Len(segments')
<1>1. /\ segments \in Seq(Entries) /\ n \in Nat
      /\ s \in Nat /\ s > 0 /\ s <= n
      /\ \A u \in Segments : u \in Nat
  BY DEF TypeOK, Segments
<1>2. /\ m \in Nat /\ m >= n /\ m > s /\ m <= n + 1
      /\ m > n => s = n
      /\ DOMAIN segments' = 1 .. m
      /\ segments'[s + 1] = e
      /\ \A i \in 1 .. n : i # s + 1 => segments'[i] = segments[i]
  <2>1. CASE s < n
    <3>1. s + 1 \in 1 .. n
      BY <1>1, <2>1
    <3>2. segments' = [segments EXCEPT ![s + 1] = e]
      BY <2>1
    <3>3. segments' \in Seq(Entries) /\ m = n
      BY <1>1, <3>1, <3>2, ReplaceEntry
    <3>4. DOMAIN segments = 1 .. n /\ DOMAIN segments' = 1 .. m
      BY <1>1, <3>3
    <3>5. segments'[s + 1] = e /\ \A i \in 1 .. n : i # s + 1 => segments'[i] = segments[i]
      BY <3>1, <3>2, <3>4
    <3>6. QED
      BY <1>1, <2>1, <3>3, <3>4, <3>5
  <2>2. CASE s = n
    <3>1. segments' = Append(segments, e)
      BY <1>1, <2>2
    <3>2. m = n + 1 /\ DOMAIN segments' = 1 .. m
      BY <1>1, <3>1
    <3>3. segments'[n + 1] = e /\ \A i \in 1 .. n : segments'[i] = segments[i]
      BY <1>1, <3>1
    <3>4. QED
      BY <1>1, <2>2, <3>2, <3>3
  <2>3. s < n \/ s = n
    BY <1>1
  <2> HIDE DEF n, m
  <2>4. QED
    BY <2>1, <2>2, <2>3
<1>3. DOMAIN segments = 1 .. n
  BY <1>1
<1>4. \A u \in Segments : /\ Exists(segments', u) <=> m > u /\ segments'[u + 1].id = u
                          /\ Exists(segments, u) <=> n > u /\ segments[u + 1].id = u
  BY DEF Exists
<1> HIDE DEF n, m
<1>5. IdsBelow(segments')
  <2>1. ASSUME NEW i \in 1 .. m PROVE segments'[i].id < i
    <3>1. CASE i = s + 1
      BY <1>1, <1>2, <3>1
    <3>2. CASE i # s + 1
      <4>1. i \in 1 .. n
        BY <1>1, <1>2, <2>1, <3>2
      <4>2. QED
        BY <1>2, <1>3, <3>2, <4>1 DEF IdsBelow
    <3>3. QED
      BY <3>1, <3>2
  <2>2. QED
    BY <1>2, <2>1 DEF IdsBelow
<1>6. Exists(segments', s) <=> e.id = s
  BY <1>2, <1>4
<1>7. ASSUME NEW u \in Segments \ {s}
      PROVE  /\ Exists(segments', u) <=> Exists(segments, u)
             /\ Exists(segments, u) => segments'[u + 1] = segments[u + 1]
  <2>1. u \in Nat /\ u # s
    BY <1>1
  <2>2. m > u <=> n > u
    BY <1>1, <1>2, <2>1
  <2>3. n > u => segments'[u + 1] = segments[u + 1]
    <3>1. n > u => u + 1 \in 1 .. n /\ u + 1 # s + 1
      BY <1>1, <2>1
    <3>2. QED
      BY <1>2, <3>1
  <2>4. QED
    BY <1>4, <2>2, <2>3
<1>8. QED
  BY <1>2, <1>5, <1>6, <1>7

\* After a restart no segment exists.
LEMMA RestartLoses ==
  ASSUME TInv, EntriesOK, Restart
  PROVE  IdsBelow(segments') /\ \A s \in Segments : ~Exists(segments', s)
<1>1. Unused.id = 0 /\ Unused \in Entries
  BY DEF Unused, Entries
<1> HIDE DEF Unused
<1>2. PICK entries \in Seq(Entries) : /\ IdsBelow(entries)
                                    /\ segments' = <<Unused>> \o entries
  <2>1. CASE stored # Nil
    BY <2>1 DEF Restart, TInv, TypeOK, EntriesOK
  <2>2. CASE stored = Nil
    <3>1. PICK n \in 0 .. MaxSegments : segments' = <<Unused>> \o [i \in 1 .. n |-> Unused]
      BY <2>2 DEF Restart
    <3> DEFINE unused == [i \in 1 .. n |-> Unused]
    <3>2. n \in Nat
      BY SegmentsAssumption
    <3>3. unused \in Seq(Entries)
      BY <1>1, <3>2
    <3>4. IdsBelow(unused)
      BY <1>1 DEF IdsBelow
    <3> HIDE DEF unused
    <3>5. segments' = <<Unused>> \o unused
      BY <3>1 DEF unused
    <3>6. QED
      BY <3>3, <3>4, <3>5
  <2>3. QED
    BY <2>1, <2>2
<1> DEFINE n == Len(entries)
<1>3. /\ n \in Nat
      /\ Len(segments') = n + 1
      /\ DOMAIN entries = 1 .. n /\ DOMAIN segments' = 1 .. n + 1
      /\ segments'[1] = Unused
      /\ \A i \in 1 .. n : segments'[i + 1] = entries[i]
  <2>1. <<Unused>> \in Seq(Entries) /\ Len(<<Unused>>) = 1 /\ <<Unused>>[1] = Unused
    BY <1>1
  <2> DEFINE first == <<Unused>>
  <2> HIDE DEF first
  <2>2. segments' = first \o entries /\ first \in Seq(Entries) /\ Len(first) = 1 /\ first[1] = Unused
    BY <1>2, <2>1 DEF first
  <2>3. QED
    BY <1>2, <2>2
<1>4. \A i \in 1 .. n : entries[i].id < i /\ entries[i].id \in Nat
  <2>1. \A i \in 1 .. n : entries[i] \in Entries
    OBVIOUS
  <2>2. \A i \in 1 .. n : entries[i].id < i
    BY <1>2, <1>3 DEF IdsBelow
  <2>3. \A f \in Entries : f.id \in Nat
    BY SegmentsAssumption DEF Entries, Segments
  <2>4. QED
    BY <2>1, <2>2, <2>3
<1> HIDE DEF n
<1>5. ASSUME NEW i \in 1 .. n + 1 PROVE segments'[i].id < i
  <2>1. CASE i = 1
    BY <1>1, <1>3, <2>1
  <2>2. CASE i # 1
    <3>1. i - 1 \in 1 .. n
      BY <1>3, <2>2
    <3>2. segments'[(i - 1) + 1] = entries[i - 1]
      BY <1>3, <3>1
    <3>3. (i - 1) + 1 = i
      BY <1>3
    <3>4. segments'[i] = entries[i - 1]
      BY <3>2, <3>3
    <3>5. QED
      BY <1>3, <1>4, <3>1, <3>4
  <2>3. QED
    BY <2>1, <2>2
<1>6. ASSUME NEW s \in Segments, Exists(segments', s) PROVE FALSE
  <2>1. s \in 1 .. n /\ segments'[s + 1].id = s
    BY <1>3, <1>6 DEF Exists, Segments
  <2>2. QED
    BY <1>3, <1>4, <2>1
<1>7. QED
  BY <1>3, <1>5, <1>6 DEF IdsBelow
---------------------------------------------------------------------------
(* The steps. *)

\* A file that is opened gets a descriptor that no handle has.
LEMMA FreshDescriptor ==
  ASSUME TInv, BufferHandlesOK, FilesOK, running, NEW fd \in Descriptors, opened[fd] = Nil
  PROVE  /\ \A u \in Segments : handles["buffer"][u] # fd
         /\ \A u \in Segments : HasFile(u) => handles["segments"][u] # fd
<1>1. fd # Nil /\ Nil \notin Segments \cup {Unlinked}
  BY DescriptorsAssumption, NilAssumption DEF Segments, Unlinked
<1>2. QED
  BY <1>1 DEF BufferHandlesOK, FilesOK, IsOpen

LEMMA PageIOFiles ==
  ASSUME TInv, FInv, NEW t \in Threads, PageIO(t)
  PROVE  FInv'
<1> USE DEF TInv, FInv, PageIO, Goto
<1>1. UNCHANGED <<segments, stored, newSize, length>>
  BY DEF BeginIO, FileNext, CheckOpen, OpenLock, OpenInsert, OpenFile, Transfer, fileVars
<1>2. pc[t] \notin AdminLabels /\ pc'[t] \notin AdminLabels
  BY DEF BeginIO, FileNext, CheckOpen, OpenLock, OpenInsert, Transfer, Stop, TypeOK, AdminLabels
<1>3. CASE running'
  <2>1. \A u \in Threads \ {t} : pc'[u] = pc[u] /\ target'[u] = target[u]
    BY <1>3
    DEF BeginIO, FileNext, CheckOpen, OpenLock, OpenInsert, Transfer, Stop, TypeOK, FileTypeOK
  <2>2. EntriesOK'
    BY <1>1 DEF EntriesOK
  <2>3. \A u \in Threads : pc'[u] \in AdminLabels =>
          pc'[u] = pc[u] /\ target'[u] = target[u] /\ u # t
    BY <1>2, <2>1
  <2>4. AdministratorsOK'
    <3>1. ASSUME NEW u \in Threads, pc'[u] \in AdminLabels
          PROVE  /\ u \in Administrators
                 /\ pc'[u] \in {"create", "record"} => ~Exists(segments, target'[u])
                 /\ pc'[u] \in {"truncate", "setSize", "erase"} => Exists(segments, target'[u])
                 /\ pc'[u] \in {"truncate", "setSize"} =>
                      \E min \in Sizes : /\ segments[target'[u] + 1].size < min
                                         /\ newSize[u] \in min .. (5 * min) \div 4
                 /\ pc'[u] = "setSize" => length[target'[u]] = newSize[u]
      BY <2>3, <3>1 DEF AdministratorsOK, SizeOf
    <3>2. QED
      BY <1>1, <3>1 DEF AdministratorsOK, AdminLabels, SizeOf
  <2>5. \A s \in Segments : /\ Erasing(s)' <=> Erasing(s)
                            /\ Live(s)' <=> Live(s)
                            /\ HasFile(s)' <=> HasFile(s)
    <3>1. \A s \in Segments : Erasing(s)' <=> Erasing(s)
      BY <1>2, <2>1, <2>3 DEF Erasing, AdminLabels
    <3>2. QED
      BY <1>1, <1>2, <2>1, <2>3, <3>1 DEF Live, HasFile, AdminLabels
  <2>6. SizesOK'
    BY <1>1, <1>3, <2>5 DEF SizesOK, SizeOf, BeginIO, FileNext, CheckOpen, OpenLock, OpenInsert,
                            Transfer
  <2>7. running
    BY DEF BeginIO, FileNext, CheckOpen, OpenLock, OpenInsert, Transfer
  <2>8. BufferHandlesOK' /\ FilesOK'
    <3>1. CASE UNCHANGED <<opened, handles>>
      BY <1>1, <1>3, <2>5, <2>7, <3>1 DEF BufferHandlesOK, FilesOK, IsOpen
    <3>2. CASE pc[t] = "insert" /\ OpenFile("buffer", target[t])
      <4>1. target[t] \in Segments
        BY <3>2 DEF TargetsOK
      <4>2. PICK fd \in Descriptors :
              /\ opened[fd] = Nil
              /\ opened' = [opened EXCEPT ![fd] = target[t]]
              /\ handles' = [handles EXCEPT !["buffer"] =
                               [handles["buffer"] EXCEPT ![target[t]] = fd]]
        BY <3>2, <4>1, OpenFileEffect DEF TypeOK, Managers
      <4>3. /\ \A u \in Segments : handles["buffer"][u] # fd
            /\ \A u \in Segments : HasFile(u) => handles["segments"][u] # fd
        BY <2>7, <4>2, FreshDescriptor
      <4>4. /\ handles'["segments"] = handles["segments"]
            /\ \A u \in Segments :
                 handles'["buffer"][u] = IF u = target[t] THEN fd ELSE handles["buffer"][u]
        BY <4>1, <4>2 DEF TypeOK, FileTypeOK, Managers
      <4>5. \A gd \in Descriptors : opened'[gd] = IF gd = fd THEN target[t] ELSE opened[gd]
        BY <4>2 DEF TypeOK, FileTypeOK
      <4>6. \A m \in Managers, u \in Segments : handles[m][u] \in Descriptors \cup {Nil}
        BY DEF TypeOK, FileTypeOK
      <4>7. BufferHandlesOK'
        BY <2>7, <4>1, <4>3, <4>4, <4>5, <4>6 DEF BufferHandlesOK, IsOpen, Managers
      <4>8. FilesOK'
        BY <1>1, <2>5, <2>7, <4>1, <4>3, <4>4, <4>5, <4>6 DEF FilesOK, IsOpen, Managers
      <4>9. QED
        BY <4>7, <4>8
    <3>3. QED
      BY <1>3, <3>1, <3>2
      DEF BeginIO, FileNext, CheckOpen, OpenLock, OpenInsert, Transfer, fileVars, Stop
  <2>9. QED
    BY <2>2, <2>4, <2>6, <2>8
<1>4. CASE ~running'
  <2>1. \A u \in Threads : pc'[u] = "idle"
    BY <1>4 DEF BeginIO, FileNext, CheckOpen, OpenLock, OpenInsert, Transfer, Stop
  <2>2. QED
    BY <1>1, <1>4, <2>1
    DEF EntriesOK, BufferHandlesOK, FilesOK, SizesOK, AdministratorsOK, AdminLabels
<1>5. QED
  BY <1>3, <1>4
\* A step of one administrator that touches no entry: every segment stays as it is, and
\* whoever is in an operation was, but for the administrator.
LEMMA EntriesKept ==
  ASSUME TInv, AdministratorsOK, OneAdministrator, NEW t \in Administrators,
         pc[t] \in AdminLabels \cup {"idle"}, UNCHANGED segments,
         \A u \in Threads \ {t} : pc'[u] = pc[u] /\ target'[u] = target[u]
  PROVE  /\ \A u \in Threads \ {t} : pc[u] \notin AdminLabels /\ pc'[u] \notin AdminLabels
         /\ \A s \in Segments : Exists(segments, s)' <=> Exists(segments, s)
         /\ \A s \in Segments : Erasing(s)' <=> pc'[t] = "erase" /\ target'[t] = s
         /\ \A s \in Segments : Erasing(s) <=> pc[t] = "erase" /\ target[t] = s
         /\ \A s \in Segments : HasFile(s)' <=>
              Live(s)' \/ (pc'[t] = "record" /\ target'[t] = s)
         /\ \A s \in Segments : HasFile(s) <=>
              Live(s) \/ (pc[t] = "record" /\ target[t] = s)
<1>1. t \in Threads
  BY AdministratorsAssumption
<1>2. \A u \in Threads \ {t} : pc[u] \notin AdminLabels /\ pc'[u] \notin AdminLabels
  BY OneOperation
<1>3. QED
  BY <1>1, <1>2 DEF Erasing, HasFile, AdminLabels

LEMMA CreateFiles ==
  ASSUME TInv, FInv, OneAdministrator, NEW t \in Administrators, Create(t)
  PROVE  FInv'
<1> USE DEF TInv, FInv
<1>1. /\ running /\ pc[t] = "idle"
      /\ FreeId \in Segments
      /\ target' = [target EXCEPT ![t] = FreeId]
      /\ pc' = [pc EXCEPT ![t] = "create"]
      /\ UNCHANGED <<running, length, opened, handles, segments, stored, newSize, restarts>>
  BY DEF Create, Goto, fileVars
<1>2. t \in Threads
  BY AdministratorsAssumption
<1>3. ~Exists(segments, FreeId)
  BY <1>1, FreeIdIsFree
<1> HIDE DEF FreeId
<1>4. /\ pc'[t] = "create" /\ target'[t] = FreeId
      /\ \A u \in Threads \ {t} : pc'[u] = pc[u] /\ target'[u] = target[u]
  BY <1>1, <1>2 DEF TypeOK, FileTypeOK
<1>5. /\ \A u \in Threads \ {t} : pc'[u] \notin AdminLabels
      /\ \A s \in Segments : ~Erasing(s)' /\ ~Erasing(s)
      /\ \A s \in Segments : Live(s)' <=> Live(s)
      /\ \A s \in Segments : HasFile(s)' <=> Live(s)
      /\ \A s \in Segments : HasFile(s) <=> Live(s)
  BY <1>1, <1>4, EntriesKept DEF Live
<1>6. AdministratorsOK'
  BY <1>1, <1>2, <1>3, <1>4, <1>5 DEF AdministratorsOK, AdminLabels
<1>7. BufferHandlesOK' /\ FilesOK' /\ SizesOK' /\ EntriesOK'
  BY <1>1, <1>5 DEF BufferHandlesOK, FilesOK, SizesOK, EntriesOK, IsOpen, SizeOf
<1>8. QED
  BY <1>6, <1>7

LEMMA CreateSegmentFileFiles ==
  ASSUME TInv, FInv, OneAdministrator, NEW t \in Administrators, CreateSegmentFile(t)
  PROVE  FInv'
<1> USE DEF TInv, FInv
<1>1. running /\ pc[t] = "create" /\ UNCHANGED <<segments, stored, newSize, restarts>>
  BY DEF CreateSegmentFile
<1>2. t \in Threads
  BY AdministratorsAssumption
<1>3. CASE Stop /\ UNCHANGED fileVars
  BY <1>1, <1>3
  DEF Stop, EntriesOK, BufferHandlesOK, FilesOK, SizesOK, AdministratorsOK, AdminLabels
<1>4. CASE CreateFile(target[t]) /\ Goto(t, "record") /\ UNCHANGED <<running, target>>
  <2> DEFINE s == target[t]
  <2>1. s \in Segments /\ ~Exists(segments, s)
    BY <1>1, <1>2 DEF TargetsOK, AdministratorsOK
  <2>2. PICK fd \in Descriptors :
          /\ opened[fd] = Nil
          /\ opened' = [opened EXCEPT ![fd] = s]
          /\ handles' = [handles EXCEPT !["segments"] = [handles["segments"] EXCEPT ![s] = fd]]
    BY <1>4, <2>1, OpenFileEffect DEF TypeOK, Managers, CreateFile
  <2>3. length' = [length EXCEPT ![s] = IF length[s] = Nil THEN 0 ELSE length[s]]
    BY <1>4 DEF CreateFile
  <2>4. /\ pc'[t] = "record" /\ target'[t] = s
        /\ \A u \in Threads \ {t} : pc'[u] = pc[u] /\ target'[u] = target[u]
    BY <1>2, <1>4 DEF Goto, TypeOK
  <2>5. /\ \A u \in Segments : handles["buffer"][u] # fd
        /\ \A u \in Segments : HasFile(u) => handles["segments"][u] # fd
    BY <1>1, <2>2, FreshDescriptor
  <2>6. /\ handles'["buffer"] = handles["buffer"]
        /\ \A u \in Segments : handles'["segments"][u] = IF u = s THEN fd ELSE handles["segments"][u]
    BY <2>1, <2>2 DEF TypeOK, FileTypeOK, Managers
  <2>7. /\ \A gd \in Descriptors : opened'[gd] = IF gd = fd THEN s ELSE opened[gd]
        /\ \A m \in Managers, u \in Segments : handles[m][u] \in Descriptors \cup {Nil}
    BY <2>2 DEF TypeOK, FileTypeOK
  <2>8. /\ length'[s] # Nil
        /\ \A u \in Segments \ {s} : length'[u] = length[u]
    BY <2>1, <2>3, NilAssumption DEF TypeOK, FileTypeOK
  <2> HIDE DEF s
  <2>9. /\ \A u \in Threads \ {t} : pc'[u] \notin AdminLabels
        /\ \A u \in Segments : ~Erasing(u)' /\ ~Erasing(u)
        /\ \A u \in Segments : Live(u)' <=> Live(u)
        /\ \A u \in Segments : HasFile(u)' <=> Live(u) \/ u = s
        /\ \A u \in Segments : HasFile(u) <=> Live(u)
        /\ ~Live(s)
    BY <1>1, <2>1, <2>4, EntriesKept DEF Live, AdminLabels
  <2>10. AdministratorsOK'
    BY <1>1, <1>2, <2>1, <2>4, <2>9 DEF AdministratorsOK, AdminLabels
  <2>11. BufferHandlesOK'
    BY <1>1, <2>1, <2>5, <2>6, <2>7 DEF BufferHandlesOK, IsOpen, Managers
  <2>12. FilesOK'
    BY <1>1, <2>1, <2>5, <2>6, <2>7, <2>8, <2>9 DEF FilesOK, IsOpen, Managers
  <2>13. SizesOK' /\ EntriesOK'
    <3>1. \A u \in Segments : Live(u) => length'[u] = length[u]
      BY <2>8, <2>9
    <3>2. QED
      BY <1>1, <2>9, <3>1 DEF SizesOK, EntriesOK, SizeOf
  <2>14. QED
    BY <2>10, <2>11, <2>12, <2>13
<1>5. QED
  BY <1>3, <1>4 DEF CreateSegmentFile

LEMMA RecordSegmentFiles ==
  ASSUME TInv, FInv, OneAdministrator, NEW t \in Administrators, RecordSegment(t)
  PROVE  FInv'
<1> USE DEF TInv, FInv
<1> DEFINE s == target[t]
           e == [id |-> s, size |-> 0]
<1>1. /\ running /\ pc[t] = "record"
      /\ segments' = IF s < Len(segments) THEN [segments EXCEPT ![s + 1] = e]
                                          ELSE Append(segments, e)
      /\ pc' = [pc EXCEPT ![t] = "persist"]
      /\ UNCHANGED <<running, target, length, opened, handles, stored, newSize, restarts>>
  BY DEF RecordSegment, Goto, fileVars
<1>2. t \in Threads
  BY AdministratorsAssumption
<1>3. s \in Segments /\ s <= Len(segments) /\ e \in Entries
  BY <1>1, <1>2 DEF TargetsOK, Entries
<1>4. e.id = s /\ e.size = 0
  OBVIOUS
<1> HIDE DEF s, e
<1>5. /\ IdsBelow(segments')
      /\ segments'[s + 1] = e
      /\ Exists(segments', s)
      /\ \A u \in Segments \ {s} :
           /\ Exists(segments', u) <=> Exists(segments, u)
           /\ Exists(segments, u) => segments'[u + 1] = segments[u + 1]
  BY <1>1, <1>3, <1>4, SetEntry DEF EntriesOK
<1>6. /\ pc'[t] = "persist"
      /\ \A u \in Threads \ {t} : pc'[u] = pc[u] /\ pc[u] \notin AdminLabels
  BY <1>1, <1>2, OneOperation DEF TypeOK, AdminLabels
<1>7. \A u \in Segments : ~Erasing(u)' /\ ~Erasing(u)
  BY <1>1, <1>6 DEF Erasing, AdminLabels
<1>8. /\ \A u \in Segments : HasFile(u)' <=> HasFile(u)
      /\ \A u \in Segments \ {s} : Live(u)' <=> Live(u)
      /\ HasFile(s)
  BY <1>1, <1>2, <1>5, <1>6, <1>7 DEF HasFile, Live, AdminLabels, s
<1>9. AdministratorsOK'
  BY <1>1, <1>2, <1>6 DEF AdministratorsOK, AdminLabels
<1>10. BufferHandlesOK' /\ FilesOK' /\ EntriesOK'
  BY <1>1, <1>5, <1>8 DEF BufferHandlesOK, FilesOK, EntriesOK, IsOpen
<1>11. SizesOK'
  <2>1. length[s] \in Nat
    BY <1>1, <1>3, <1>8 DEF FilesOK, TypeOK, FileTypeOK
  <2>2. segments'[s + 1].size = 0
    BY <1>4, <1>5
  <2>3. \A u \in Segments \ {s} : Live(u)' => segments'[u + 1].size = SizeOf(u)
    BY <1>5, <1>8 DEF SizeOf, Live
  <2> HIDE DEF SizeOf
  <2>4. ASSUME NEW u \in Segments, Live(u)' PROVE segments'[u + 1].size <= length[u]
    <3>1. CASE u = s
      BY <2>1, <2>2, <3>1
    <3>2. CASE u # s
      BY <1>1, <1>8, <2>3, <2>4, <3>2 DEF SizesOK
    <3>3. QED
      BY <3>1, <3>2
  <2>5. QED
    BY <1>1, <2>4 DEF SizesOK, SizeOf
<1>12. QED
  BY <1>9, <1>10, <1>11
LEMMA AllocateFiles ==
  ASSUME TInv, FInv, OneAdministrator, NEW t \in Administrators,
         NEW s \in Segments, NEW min \in Sizes, Allocate(t, s, min)
  PROVE  FInv'
<1> USE DEF TInv, FInv
<1> DEFINE n == GrowTo(min)[SizeOf(s)]
<1>1. /\ running /\ pc[t] = "idle"
      /\ Exists(segments, s) /\ SizeOf(s) < min
      /\ target' = [target EXCEPT ![t] = s]
      /\ newSize' = [newSize EXCEPT ![t] = n]
      /\ pc' = [pc EXCEPT ![t] = "truncate"]
      /\ UNCHANGED <<running, length, opened, handles, segments, stored, restarts>>
  BY DEF Allocate, Goto, fileVars
<1>2. t \in Threads
  BY AdministratorsAssumption
<1>3. n \in min .. (5 * min) \div 4
  <2>1. min \in Nat /\ SizeOf(s) \in 0 .. min - 1
    BY <1>1, SizesAreNaturals, BoundsAssumption
  <2>2. QED
    BY <2>1, GrowToBounds
<1> HIDE DEF n
<1>4. /\ pc'[t] = "truncate" /\ target'[t] = s /\ newSize'[t] = n
      /\ \A u \in Threads \ {t} : pc'[u] = pc[u] /\ target'[u] = target[u]
  BY <1>1, <1>2 DEF TypeOK, FileTypeOK
<1>5. /\ \A u \in Threads \ {t} : pc'[u] \notin AdminLabels
      /\ \A u \in Segments : ~Erasing(u)' /\ ~Erasing(u)
      /\ \A u \in Segments : Live(u)' <=> Live(u)
      /\ \A u \in Segments : HasFile(u)' <=> Live(u)
      /\ \A u \in Segments : HasFile(u) <=> Live(u)
  BY <1>1, <1>4, EntriesKept DEF Live
<1>6. AdministratorsOK'
  <2>1. /\ Exists(segments', target'[t])
        /\ SizeOf(s)' = SizeOf(s)
        /\ segments'[target'[t] + 1].size < min
    BY <1>1, <1>4 DEF SizeOf
  <2>2. \E m \in Sizes : /\ segments'[target'[t] + 1].size < m
                         /\ newSize'[t] \in m .. (5 * m) \div 4
    BY <1>3, <1>4, <2>1
  <2>3. QED
    BY <1>2, <1>4, <1>5, <2>1, <2>2 DEF AdministratorsOK, AdminLabels, SizeOf
<1>7. BufferHandlesOK' /\ FilesOK' /\ SizesOK' /\ EntriesOK'
  BY <1>1, <1>5 DEF BufferHandlesOK, FilesOK, SizesOK, EntriesOK, IsOpen, SizeOf
<1>8. QED
  BY <1>6, <1>7

\* The file that is enlarged is the segment's.
LEMMA EnlargeFileFiles ==
  ASSUME TInv, FInv, OneAdministrator, NEW t \in Administrators, EnlargeFile(t)
  PROVE  FInv'
<1> USE DEF TInv, FInv
<1> DEFINE s == target[t]
<1>1. /\ running /\ pc[t] = "truncate"
      /\ TruncateFile(s, newSize[t])
      /\ pc' = [pc EXCEPT ![t] = "setSize"]
      /\ UNCHANGED <<running, target, opened, handles, segments, stored, newSize, restarts>>
  BY DEF EnlargeFile, TruncateFile, Goto
<1>2. t \in Threads
  BY AdministratorsAssumption
<1>3. s \in Segments /\ Exists(segments, s)
  BY <1>1, <1>2 DEF TargetsOK, AdministratorsOK
<1>4. PICK min \in Sizes : SizeOf(s) < min /\ newSize[t] \in min .. (5 * min) \div 4
  BY <1>1, <1>2 DEF AdministratorsOK
<1>5. newSize[t] \in Nat /\ SizeOf(s) <= newSize[t]
  <2>1. SizeOf(s) \in Nat /\ min \in Nat
    BY <1>3, SizesAreNaturals, BoundsAssumption
  <2> HIDE DEF SizeOf
  <2>2. QED
    BY <1>4, <2>1
<1>6. /\ pc'[t] = "setSize"
      /\ \A u \in Threads \ {t} : pc'[u] = pc[u] /\ target'[u] = target[u]
  BY <1>1, <1>2 DEF TypeOK, FileTypeOK
<1>7. /\ \A u \in Threads \ {t} : pc'[u] \notin AdminLabels
      /\ \A u \in Segments : ~Erasing(u)' /\ ~Erasing(u)
      /\ \A u \in Segments : Live(u)' <=> Live(u)
      /\ \A u \in Segments : HasFile(u)' <=> Live(u)
      /\ \A u \in Segments : HasFile(u) <=> Live(u)
  BY <1>1, <1>6, EntriesKept DEF Live, AdminLabels
<1>8. length' = [length EXCEPT ![s] = newSize[t]]
  <2>1. IsOpen("segments", s) => opened[handles["segments"][s]] = s
    BY <1>1, <1>3, <1>7 DEF FilesOK, Live
  <2>2. QED
    BY <1>1, <2>1 DEF TruncateFile
<1>9. \A u \in Segments : length'[u] = IF u = s THEN newSize[t] ELSE length[u]
  BY <1>8 DEF TypeOK, FileTypeOK
<1>10. AdministratorsOK'
  <2>1. /\ target'[t] = s /\ newSize'[t] = newSize[t]
        /\ length'[s] = newSize[t]
        /\ segments' = segments
    BY <1>1, <1>3, <1>9
  <2>2. QED
    BY <1>2, <1>3, <1>4, <1>6, <1>7, <2>1 DEF AdministratorsOK, AdminLabels, SizeOf
<1>11. BufferHandlesOK' /\ EntriesOK'
  BY <1>1 DEF BufferHandlesOK, EntriesOK, IsOpen
<1>12. FilesOK'
  BY <1>1, <1>5, <1>7, <1>9, NilAssumption DEF FilesOK, IsOpen
<1>13. SizesOK'
  <2>1. \A u \in Segments : SizeOf(u)' = SizeOf(u)
    BY <1>1 DEF SizeOf
  <2>2. ASSUME NEW u \in Segments, Live(u) PROVE SizeOf(u) <= length'[u]
    BY <1>1, <1>5, <1>9, <2>2 DEF SizesOK
  <2>3. QED
    BY <1>1, <1>7, <2>1, <2>2 DEF SizesOK
<1>14. QED
  BY <1>10, <1>11, <1>12, <1>13

LEMMA SetSizeFiles ==
  ASSUME TInv, FInv, OneAdministrator, NEW t \in Administrators, SetSize(t)
  PROVE  FInv'
<1> USE DEF TInv, FInv
<1> DEFINE s == target[t]
           e == [segments[s + 1] EXCEPT !.size = newSize[t]]
<1>1. /\ running /\ pc[t] = "setSize"
      /\ segments' = [segments EXCEPT ![s + 1] = e]
      /\ pc' = [pc EXCEPT ![t] = "persist"]
      /\ UNCHANGED <<running, target, length, opened, handles, stored, restarts>>
  BY DEF SetSize, Goto, fileVars
<1>2. t \in Threads
  BY AdministratorsAssumption
<1>3. /\ s \in Segments /\ Exists(segments, s)
      /\ length[s] = newSize[t]
  BY <1>1, <1>2 DEF TargetsOK, AdministratorsOK
<1>4. newSize[t] \in Nat /\ s < Len(segments) /\ s \in Nat /\ s + 1 \in 1 .. Len(segments)
  BY <1>2, <1>3, SizesAreNaturals DEF TypeOK
<1>5. e \in Entries /\ e.id = s /\ e.size = newSize[t]
  <2>1. segments[s + 1] \in Entries /\ segments[s + 1].id = s
    BY <1>3, <1>4 DEF TypeOK, Exists
  <2>2. QED
    BY <1>4, <2>1 DEF Entries
<1> HIDE DEF e
<1>6. /\ IdsBelow(segments')
      /\ segments'[s + 1] = e
      /\ Exists(segments', s)
      /\ \A u \in Segments \ {s} :
           /\ Exists(segments', u) <=> Exists(segments, u)
           /\ Exists(segments, u) => segments'[u + 1] = segments[u + 1]
  <2>1. segments' = IF s < Len(segments) THEN [segments EXCEPT ![s + 1] = e]
                                         ELSE Append(segments, e)
    BY <1>1, <1>4
  <2> HIDE DEF s
  <2>2. s <= Len(segments) /\ e.id \in {0, s}
    BY <1>4, <1>5 DEF TypeOK
  <2>3. QED
    BY <1>3, <1>5, <2>1, <2>2, SetEntry DEF EntriesOK
<1> HIDE DEF s
<1>7. /\ pc'[t] = "persist"
      /\ \A u \in Threads \ {t} : pc'[u] = pc[u] /\ pc[u] \notin AdminLabels
  BY <1>1, <1>2, OneOperation DEF TypeOK, AdminLabels
<1>8. /\ \A u \in Segments : ~Erasing(u)' /\ ~Erasing(u)
      /\ \A u \in Segments : Live(u)' <=> Live(u)
      /\ \A u \in Segments : HasFile(u)' <=> HasFile(u)
  BY <1>1, <1>2, <1>3, <1>6, <1>7 DEF Erasing, HasFile, Live, AdminLabels
<1>9. AdministratorsOK'
  BY <1>1, <1>2, <1>7 DEF AdministratorsOK, AdminLabels
<1>10. BufferHandlesOK' /\ FilesOK' /\ EntriesOK'
  BY <1>1, <1>6, <1>8 DEF BufferHandlesOK, FilesOK, EntriesOK, IsOpen
<1>11. SizesOK'
  BY <1>1, <1>3, <1>4, <1>5, <1>6, <1>8 DEF SizesOK, SizeOf
<1>12. QED
  BY <1>9, <1>10, <1>11
LEMMA RemoveFiles ==
  ASSUME TInv, FInv, OneAdministrator, NEW t \in Administrators,
         NEW s \in Segments, Remove(t, s)
  PROVE  FInv'
<1> USE DEF TInv, FInv
<1>1. /\ running /\ pc[t] = "idle"
      /\ Exists(segments, s)
      /\ EraseHandle(s)
      /\ opened' = [fd \in Descriptors |->
                      IF fd \in Closed(s) THEN Nil
                      ELSE IF opened[fd] = s THEN Unlinked ELSE opened[fd]]
      /\ length' = [length EXCEPT ![s] = Nil]
      /\ target' = [target EXCEPT ![t] = s]
      /\ pc' = [pc EXCEPT ![t] = "erase"]
      /\ UNCHANGED <<running, segments, stored, newSize, restarts>>
  BY DEF Remove, RemoveFile, Goto
<1>2. t \in Threads /\ s # Unlinked
  BY AdministratorsAssumption DEF Segments, Unlinked
<1>3. /\ pc'[t] = "erase" /\ target'[t] = s
      /\ \A u \in Threads \ {t} : pc'[u] = pc[u] /\ target'[u] = target[u]
  BY <1>1, <1>2 DEF TypeOK, FileTypeOK
<1>4. /\ \A u \in Threads \ {t} : pc'[u] \notin AdminLabels
      /\ \A u \in Segments : ~Erasing(u)
      /\ \A u \in Segments : Live(u)' <=> Live(u) /\ u # s
      /\ \A u \in Segments : HasFile(u)' <=> Live(u) /\ u # s
      /\ \A u \in Segments : HasFile(u) <=> Live(u)
      /\ Live(s)
  BY <1>1, <1>3, EntriesKept DEF Live
<1>5. /\ handles'["buffer"] = handles["buffer"]
      /\ \A u \in Segments :
           handles'["segments"][u] = IF u \in Closed(s) THEN Nil ELSE handles["segments"][u]
  BY <1>1 DEF EraseHandle, TypeOK, FileTypeOK, Managers
<1>6. \A m \in Managers, u \in Segments : handles[m][u] \in Descriptors \cup {Nil}
  BY DEF TypeOK, FileTypeOK
<1>7. /\ \A u \in Segments : handles["buffer"][u] # Nil => handles["buffer"][u] \notin Closed(s)
      /\ \A fd \in Closed(s) : opened[fd] = s
  BY <1>1, <1>4 DEF FilesOK, Closed, IsOpen
<1>8. \A u \in Segments \ {s} : length'[u] = length[u]
  BY <1>1 DEF TypeOK, FileTypeOK
<1>9. AdministratorsOK'
  BY <1>1, <1>2, <1>3, <1>4 DEF AdministratorsOK, AdminLabels
<1>10. BufferHandlesOK'
  <2>1. \A u \in Segments : IsOpen("buffer", u) =>
          /\ handles["buffer"][u] \in Descriptors \ Closed(s)
          /\ opened[handles["buffer"][u]] \in {u, Unlinked}
    BY <1>1, <1>6, <1>7 DEF BufferHandlesOK, IsOpen, Managers
  <2>2. QED
    BY <1>1, <1>2, <1>5, <2>1 DEF BufferHandlesOK, IsOpen
<1>11. FilesOK'
  <2>1. ASSUME NEW u \in Segments, Live(u), u # s, handles'["segments"][u] # Nil
        PROVE  /\ handles'["segments"][u] = handles["segments"][u]
               /\ opened'[handles["segments"][u]] = u
               /\ \A v \in Segments : handles["buffer"][v] # handles["segments"][u]
    <3>1. handles'["segments"][u] = handles["segments"][u]
      BY <1>5, <2>1
    <3>2. /\ handles["segments"][u] \in Descriptors
          /\ opened[handles["segments"][u]] = u
          /\ \A v \in Segments : handles["buffer"][v] # handles["segments"][u]
      BY <1>1, <1>4, <1>6, <2>1, <3>1 DEF FilesOK, IsOpen, Managers
    <3>3. QED
      BY <1>1, <1>7, <2>1, <3>1, <3>2
  <2>2. \A u \in Segments : Live(u) /\ u # s => length'[u] # Nil
    BY <1>1, <1>4, <1>8 DEF FilesOK
  <2>3. QED
    BY <1>1, <1>4, <1>5, <2>1, <2>2 DEF FilesOK, IsOpen
<1>12. SizesOK' /\ EntriesOK'
  <2>1. \A u \in Segments : Live(u)' => Live(u) /\ length'[u] = length[u]
    BY <1>4, <1>8
  <2>2. QED
    BY <1>1, <2>1 DEF SizesOK, EntriesOK, SizeOf
<1>13. QED
  BY <1>9, <1>10, <1>11, <1>12

LEMMA EraseSegmentFiles ==
  ASSUME TInv, FInv, OneAdministrator, NEW t \in Administrators, EraseSegment(t)
  PROVE  FInv'
<1> USE DEF TInv, FInv
<1> DEFINE s == target[t]
<1>1. /\ running /\ pc[t] = "erase"
      /\ segments' = [segments EXCEPT ![s + 1] = Unused]
      /\ pc' = [pc EXCEPT ![t] = "persist"]
      /\ UNCHANGED <<running, target, length, opened, handles, stored, newSize, restarts>>
  BY DEF EraseSegment, Goto, fileVars
<1>2. t \in Threads
  BY AdministratorsAssumption
<1>3. s \in Segments /\ Exists(segments, s)
  BY <1>1, <1>2 DEF TargetsOK, AdministratorsOK
<1>4. s < Len(segments) /\ Unused \in Entries /\ Unused.id = 0 /\ s # 0
  BY <1>3, SizesAreNaturals DEF Unused, Entries, Segments
<1> HIDE DEF s, Unused
<1>5. /\ IdsBelow(segments')
      /\ ~Exists(segments', s)
      /\ \A u \in Segments \ {s} :
           /\ Exists(segments', u) <=> Exists(segments, u)
           /\ Exists(segments, u) => segments'[u + 1] = segments[u + 1]
  <2>1. s <= Len(segments)
    BY <1>3, <1>4 DEF TypeOK, Segments
  <2>2. QED
    BY <1>1, <1>3, <1>4, <2>1, SetEntry DEF EntriesOK
<1>6. /\ pc'[t] = "persist"
      /\ \A u \in Threads \ {t} : pc'[u] = pc[u] /\ pc[u] \notin AdminLabels
  BY <1>1, <1>2, OneOperation DEF TypeOK, AdminLabels
<1>7. /\ \A u \in Segments : ~Erasing(u)'
      /\ \A u \in Segments : Erasing(u) <=> u = s
      /\ \A u \in Segments : Live(u)' <=> Live(u)
      /\ \A u \in Segments : Live(u) => u # s
      /\ \A u \in Segments : HasFile(u)' <=> HasFile(u)
  BY <1>1, <1>2, <1>5, <1>6 DEF Erasing, HasFile, Live, AdminLabels, s
<1>8. AdministratorsOK'
  BY <1>1, <1>2, <1>6 DEF AdministratorsOK, AdminLabels
<1>9. BufferHandlesOK' /\ FilesOK' /\ EntriesOK'
  BY <1>1, <1>5, <1>7 DEF BufferHandlesOK, FilesOK, EntriesOK, IsOpen
<1>10. SizesOK'
  <2>1. \A u \in Segments : Live(u)' => Live(u) /\ SizeOf(u)' = SizeOf(u)
    BY <1>5, <1>7 DEF SizeOf, Live
  <2> HIDE DEF SizeOf
  <2>2. QED
    BY <1>1, <2>1 DEF SizesOK
<1>11. QED
  BY <1>8, <1>9, <1>10

LEMMA PersistFiles ==
  ASSUME TInv, FInv, OneAdministrator, NEW t \in Administrators,
         PersistTruncate(t) \/ PersistWrite(t)
  PROVE  FInv'
<1> USE DEF TInv, FInv
<1>1. /\ running /\ pc[t] \in {"persist", "write"}
      /\ stored' \in {Nil, segments}
      /\ \E label \in {"write", "idle"} : pc' = [pc EXCEPT ![t] = label]
      /\ UNCHANGED <<running, length, opened, handles, segments, newSize, restarts>>
      /\ \A u \in Threads \ {t} : target'[u] = target[u]
  BY DEF PersistTruncate, PersistWrite, Goto, fileVars, TypeOK, FileTypeOK
<1>2. t \in Threads
  BY AdministratorsAssumption
<1>3. /\ pc'[t] \in {"write", "idle"}
      /\ \A u \in Threads \ {t} : pc'[u] = pc[u] /\ target'[u] = target[u]
  BY <1>1, <1>2 DEF TypeOK, FileTypeOK
<1>4. /\ \A u \in Threads \ {t} : pc'[u] \notin AdminLabels
      /\ \A u \in Segments : Live(u)' <=> Live(u)
      /\ \A u \in Segments : HasFile(u)' <=> HasFile(u)
  BY <1>1, <1>3, EntriesKept DEF Live, AdminLabels
<1>5. AdministratorsOK'
  BY <1>1, <1>2, <1>3, <1>4 DEF AdministratorsOK, AdminLabels
<1>6. BufferHandlesOK' /\ FilesOK' /\ EntriesOK' /\ SizesOK'
  BY <1>1, <1>4 DEF BufferHandlesOK, FilesOK, EntriesOK, SizesOK, SizeOf, IsOpen
<1>7. QED
  BY <1>5, <1>6

LEMMA RestartFiles ==
  ASSUME TInv, FInv, Restart
  PROVE  FInv'
<1> USE DEF TInv, FInv
<1>1. /\ ~running /\ running'
      /\ FileReset
      /\ UNCHANGED <<length, pc, target, stored>>
  BY DEF Restart
<1>2. /\ IdsBelow(segments')
      /\ \A s \in Segments : ~Exists(segments', s)
  BY RestartLoses
<1>3. \A t \in Threads : pc'[t] = "idle"
  BY <1>1 DEF TargetsOK
<1>4. \A s \in Segments : ~HasFile(s)' /\ ~Live(s)'
  BY <1>2, <1>3 DEF HasFile, Live
<1>5. \A s \in Segments : ~IsOpen("buffer", s)'
  BY <1>1 DEF FileReset, IsOpen, Managers
<1>6. QED
  BY <1>1, <1>2, <1>3, <1>4, <1>5
  DEF EntriesOK, BufferHandlesOK, FilesOK, SizesOK, AdministratorsOK, AdminLabels

LEMMA FilesStep ==
  ASSUME OneAdministrator, TInv, FInv, [Next]_vars
  PROVE  FInv'
<1>1. ASSUME NEW t \in Administrators, Administrate(t) PROVE FInv'
  BY <1>1, CreateFiles, CreateSegmentFileFiles, RecordSegmentFiles, AllocateFiles,
     EnlargeFileFiles, SetSizeFiles, RemoveFiles, EraseSegmentFiles, PersistFiles
  DEF Administrate
<1>2. ASSUME NEW t \in Threads, PageIO(t) PROVE FInv'
  BY <1>2, PageIOFiles
<1>3. CASE Crash
  BY <1>3
  DEF Crash, Stop, fileVars, FInv, EntriesOK, BufferHandlesOK, FilesOK, SizesOK,
      AdministratorsOK, AdminLabels
<1>4. CASE Restart
  BY <1>4, RestartFiles
<1>5. CASE UNCHANGED vars
  BY <1>5
  DEF vars, fileVars, FInv, EntriesOK, BufferHandlesOK, FilesOK, SizesOK, AdministratorsOK,
      HasFile, Live, Erasing, SizeOf, IsOpen
<1>6. QED
  BY <1>1, <1>2, <1>3, <1>4, <1>5 DEF Next

\* Descriptors, files, sizes and what the administrator remembers agree in every state.
THEOREM FilesInductive ==
  ASSUME OneAdministrator
  PROVE  Spec => [](TInv /\ FInv)
<1>1. Init => TInv /\ FInv
  <2> SUFFICES ASSUME Init PROVE TInv /\ FInv
    OBVIOUS
  <2>1. TInv
    BY SegmentsAssumption, BoundsAssumption
    DEF Init, FileInit, TInv, TypeOK, FileTypeOK, TargetsOK, StoredOK, OpenersOK, Unused, Entries
  <2>2. /\ segments = <<Unused>> /\ stored = <<Unused>> /\ Unused.id = 0
        /\ \A t \in Threads : pc[t] = "idle"
        /\ \A s \in Segments : ~IsOpen("buffer", s)
    BY DEF Init, FileInit, Unused, IsOpen, Managers
  <2>3. \A s \in Segments : ~HasFile(s) /\ ~Live(s)
    BY <2>2 DEF HasFile, Live, Exists, Segments
  <2>4. EntriesOK
    BY <2>2 DEF EntriesOK, IdsBelow
  <2>5. QED
    BY <2>1, <2>2, <2>3, <2>4
    DEF FInv, BufferHandlesOK, FilesOK, SizesOK, AdministratorsOK, AdminLabels
<1>2. TInv /\ TInv' /\ FInv /\ [Next]_vars => FInv'
  BY FilesStep
<1>3. QED
  BY <1>1, <1>2, TypesInductive, PTL DEF Spec

\* No operation closes or truncates another segment's file, though close erases the map
\* entry of the wrong segment.
THEOREM HandlesAlwaysOpen ==
  ASSUME OneAdministrator
  PROVE  Spec => []HandlesAreOpen
<1>1. TInv /\ FInv => HandlesAreOpen
  BY DEF FInv, BufferHandlesOK, FilesOK, HasFile, Live, Erasing, HandlesAreOpen
<1>2. QED
  BY <1>1, FilesInductive, PTL

\* In the first process a segment in the file "segments" exists in memory as well, with
\* as many pages or more, or is being removed.
DiskOK ==
  running /\ restarts = 0 /\ stored # Nil => \A s \in Segments : Exists(stored, s) =>
    Removing(s) \/ (Exists(segments, s) /\ stored[s + 1].size <= SizeOf(s))

\* A step that stores nothing keeps it for a segment that it leaves alone.
LEMMA DiskKept ==
  ASSUME DiskOK, running, restarts = 0, NEW s \in Segments, stored' = stored, stored' # Nil,
         Exists(stored', s), Removing(s) => Removing(s)',
         Exists(segments, s) =>
           /\ Exists(segments', s)
           /\ \/ SizeOf(s)' = SizeOf(s)
              \/ SizeOf(s) \in Nat /\ SizeOf(s)' \in Nat /\ SizeOf(s) <= SizeOf(s)',
         stored[s + 1].size \in Nat
  PROVE  Removing(s)' \/ (Exists(segments', s) /\ stored'[s + 1].size <= SizeOf(s)')
<1>1. CASE Removing(s)
  BY <1>1
<1>2. CASE Exists(segments, s) /\ stored[s + 1].size <= SizeOf(s)
  <2>1. stored'[s + 1].size = stored[s + 1].size
    OBVIOUS
  <2>2. stored'[s + 1].size <= SizeOf(s)'
    BY <1>2, <2>1
  <2> QED
    BY <1>2, <2>2
<1> QED
  BY <1>1, <1>2 DEF DiskOK

\* The sizes of segments in the file are numbers.
LEMMA SizesInFile ==
  ASSUME TypeOK, stored # Nil, NEW s \in Segments, Exists(stored, s)
  PROVE  stored[s + 1].size \in Nat
<1>1. s \in Nat /\ stored \in Seq(Entries)
  BY DEF Segments, TypeOK
<1>2. s + 1 \in 1 .. Len(stored)
  BY <1>1 DEF Exists
<1>3. stored[s + 1] \in Entries
  BY <1>1, <1>2
<1> QED
  BY <1>3 DEF Entries

\* An administrator's steps keep what is stored in agreement with the memory.
LEMMA DiskAdministrated ==
  ASSUME OneAdministrator, TInv, TInv', FInv, DiskOK, NEW t \in Administrators, Administrate(t)
  PROVE  DiskOK'
<1> USE DEF TInv, FInv
<1> SUFFICES ASSUME running', restarts' = 0, stored' # Nil, NEW s \in Segments,
                    Exists(stored', s)
             PROVE  Removing(s)' \/ (Exists(segments', s) /\ stored'[s + 1].size <= SizeOf(s)')
  BY DEF DiskOK, SizeOf
<1>1. t \in Threads
  BY AdministratorsAssumption
<1>2. running /\ restarts = 0
  BY DEF Administrate, Create, CreateSegmentFile, RecordSegment, Allocate, EnlargeFile, SetSize,
         Remove, EraseSegment, PersistTruncate, PersistWrite
<1>3. \A u \in Threads : pc[u] \in AdminLabels => u = t
  BY OneOperation
<1>4. stored' = stored => stored[s + 1].size \in Nat
  BY SizesInFile
<1>5. CASE pc[t] \notin {"erase", "persist"} /\ UNCHANGED <<segments, stored>>
  <2>1. ~Removing(s)
    BY <1>3, <1>5 DEF Removing, AdminLabels
  <2>2. Exists(segments, s) => Exists(segments', s) /\ SizeOf(s)' = SizeOf(s)
    BY <1>5 DEF SizeOf
  <2> QED
    BY <1>2, <1>4, <1>5, <2>1, <2>2, DiskKept
<1>6. CASE RecordSegment(t)
  <2> DEFINE e == [id |-> target[t], size |-> 0]
  <2>1. /\ pc[t] = "record" /\ stored' = stored
        /\ segments' = IF target[t] < Len(segments) THEN [segments EXCEPT ![target[t] + 1] = e]
                                                    ELSE Append(segments, e)
    BY <1>6 DEF RecordSegment
  <2>2. target[t] \in Segments /\ target[t] <= Len(segments) /\ e \in Entries
        /\ ~Exists(segments, target[t]) /\ e.id = target[t]
    BY <1>1, <2>1 DEF TargetsOK, Entries, AdministratorsOK
  <2> HIDE DEF e
  <2>3. \A u \in Segments \ {target[t]} :
          /\ Exists(segments', u) <=> Exists(segments, u)
          /\ Exists(segments, u) => segments'[u + 1] = segments[u + 1]
    BY <2>1, <2>2, SetEntry DEF EntriesOK
  <2>4. ~Removing(s)
    BY <1>3, <2>1 DEF Removing, AdminLabels
  <2>5. Exists(segments, s) => Exists(segments', s) /\ SizeOf(s)' = SizeOf(s)
    BY <2>2, <2>3 DEF SizeOf
  <2> QED
    BY <1>2, <1>4, <2>1, <2>4, <2>5, DiskKept
<1>7. CASE SetSize(t)
  <2> DEFINE u == target[t]
             e == [segments[u + 1] EXCEPT !.size = newSize[t]]
  <2>1. /\ pc[t] = "setSize" /\ stored' = stored
        /\ segments' = [segments EXCEPT ![u + 1] = e]
    BY <1>7 DEF SetSize
  <2>2. /\ u \in Segments /\ Exists(segments, u) /\ newSize[t] \in Nat
        /\ \E min \in Sizes : SizeOf(u) < min /\ newSize[t] \in min .. (5 * min) \div 4
    BY <1>1, <2>1 DEF TargetsOK, AdministratorsOK, TypeOK
  <2>3. u \in Nat /\ u < Len(segments) /\ u <= Len(segments) /\ u + 1 \in 1 .. Len(segments)
    BY <2>2, SizesAreNaturals DEF TypeOK, Exists, Segments
  <2>4. SizeOf(u) \in Nat /\ SizeOf(u) <= newSize[t]
    <3>1. SizeOf(u) \in Nat
      BY <2>2, SizesAreNaturals
    <3>2. PICK min \in Sizes : SizeOf(u) < min /\ newSize[t] \in min .. (5 * min) \div 4
      BY <2>2
    <3>3. min \in Nat /\ newSize[t] >= min
      BY <3>2, BoundsAssumption
    <3> QED
      BY <2>2, <3>1, <3>2, <3>3
  <2>5. e \in Entries /\ e.id = u /\ e.size = newSize[t]
    <3>1. segments[u + 1] \in Entries /\ segments[u + 1].id = u
      BY <2>2, <2>3 DEF TypeOK, Exists
    <3> QED
      BY <2>2, <3>1 DEF Entries
  <2>6. segments' = IF u < Len(segments) THEN [segments EXCEPT ![u + 1] = e]
                                         ELSE Append(segments, e)
    BY <2>1, <2>3
  <2> HIDE DEF e, u
  <2>7. /\ segments'[u + 1] = e /\ Exists(segments', u)
        /\ \A v \in Segments \ {u} :
             /\ Exists(segments', v) <=> Exists(segments, v)
             /\ Exists(segments, v) => segments'[v + 1] = segments[v + 1]
    BY <2>2, <2>3, <2>5, <2>6, SetEntry DEF EntriesOK
  <2>8. ~Removing(s)
    BY <1>3, <2>1 DEF Removing, AdminLabels
  <2>9. Exists(segments, s) =>
          /\ Exists(segments', s)
          /\ \/ SizeOf(s)' = SizeOf(s)
             \/ SizeOf(s) \in Nat /\ SizeOf(s)' \in Nat /\ SizeOf(s) <= SizeOf(s)'
    <3>1. CASE s = u
      <4>1. SizeOf(s)' = newSize[t]
        BY <2>5, <2>7, <3>1 DEF SizeOf
      <4> QED
        BY <2>2, <2>4, <2>7, <3>1, <4>1
    <3>2. CASE s # u /\ Exists(segments, s)
      BY <2>7, <3>2 DEF SizeOf
    <3> QED
      BY <3>1, <3>2
  <2> QED
    BY <1>2, <1>4, <2>1, <2>8, <2>9, DiskKept
<1>8. CASE EraseSegment(t)
  <2> DEFINE u == target[t]
  <2>1. /\ pc[t] = "erase" /\ stored' = stored /\ target' = target
        /\ pc' = [pc EXCEPT ![t] = "persist"]
        /\ segments' = [segments EXCEPT ![u + 1] = Unused]
    BY <1>8 DEF EraseSegment, Goto
  <2>2. u \in Segments /\ Exists(segments, u) /\ u < Len(segments)
        /\ Unused \in Entries /\ Unused.id = 0
    <3>1. u \in Segments /\ Exists(segments, u)
      BY <1>1, <2>1 DEF TargetsOK, AdministratorsOK
    <3> QED
      BY <3>1, SizesAreNaturals DEF Unused, Entries
  <2>3. u # 0 /\ u <= Len(segments)
    BY <2>2 DEF Segments, TypeOK
  <2> HIDE DEF u, Unused
  <2>4. /\ ~Exists(segments', u)
        /\ \A v \in Segments \ {u} :
             /\ Exists(segments', v) <=> Exists(segments, v)
             /\ Exists(segments, v) => segments'[v + 1] = segments[v + 1]
    BY <2>1, <2>2, <2>3, SetEntry DEF EntriesOK
  <2>5. CASE s = u
    <3>1. pc'[t] = "persist" /\ target'[t] = s
      BY <1>1, <2>1, <2>5 DEF TypeOK, u
    <3> QED
      BY <1>1, <2>4, <2>5, <3>1 DEF Removing
  <2>6. CASE s # u
    <3>1. ~Removing(s)
      BY <1>3, <2>6 DEF Removing, AdminLabels, u
    <3>2. Exists(segments, s) => Exists(segments', s) /\ SizeOf(s)' = SizeOf(s)
      BY <2>4, <2>6 DEF SizeOf
    <3> QED
      BY <1>2, <1>4, <2>1, <3>1, <3>2, DiskKept
  <2> QED
    BY <2>5, <2>6
<1>9. CASE PersistTruncate(t)
  BY <1>9 DEF PersistTruncate
<1>10. CASE PersistWrite(t)
  <2>1. stored' = segments /\ segments' = segments
    BY <1>10 DEF PersistWrite
  <2>2. Exists(segments', s) /\ stored'[s + 1].size = SizeOf(s)'
    BY <2>1 DEF SizeOf
  <2>3. SizeOf(s)' \in Nat
    BY <2>1, <2>2, SizesAreNaturals DEF SizeOf
  <2> QED
    BY <2>2, <2>3
<1> QED
  <2>1. CASE \/ Create(t) \/ CreateSegmentFile(t) \/ EnlargeFile(t)
             \/ \E u \in Segments, min \in Sizes : Allocate(t, u, min)
             \/ \E u \in Segments : Remove(t, u)
    <3>1. pc[t] \notin {"erase", "persist"} /\ UNCHANGED <<segments, stored>>
      BY <2>1 DEF Create, CreateSegmentFile, EnlargeFile, Allocate, Remove
    <3> QED
      BY <1>5, <3>1
  <2> QED
    BY <1>6, <1>7, <1>8, <1>9, <1>10, <2>1 DEF Administrate

\* All other steps leave memory and file alone, and a removal under way.
LEMMA DiskStep ==
  ASSUME OneAdministrator, TInv, TInv', FInv, DiskOK, [Next]_vars
  PROVE  DiskOK'
<1> USE DEF TInv, FInv
<1>1. ASSUME NEW t \in Threads, PageIO(t) PROVE DiskOK'
  <2> SUFFICES ASSUME running', restarts' = 0, stored' # Nil, NEW s \in Segments,
                      Exists(stored', s)
               PROVE  Removing(s)' \/ (Exists(segments', s) /\ stored'[s + 1].size <= SizeOf(s)')
    BY DEF DiskOK, SizeOf
  <2>1. UNCHANGED <<segments, stored, restarts>> /\ running
    BY <1>1 DEF PageIO, BeginIO, FileNext, CheckOpen, OpenLock, OpenInsert, Transfer
  <2>2. pc[t] \notin AdminLabels
    BY <1>1 DEF PageIO, BeginIO, FileNext, CheckOpen, OpenLock, OpenInsert, Transfer, AdminLabels
  <2>3. \A u \in Threads \ {t} : pc'[u] = pc[u] /\ target'[u] = target[u]
    BY <1>1
    DEF PageIO, BeginIO, FileNext, CheckOpen, OpenLock, OpenInsert, Transfer, Stop, Goto,
        TypeOK, FileTypeOK
  <2>4. Removing(s) => Removing(s)'
    BY <2>1, <2>2, <2>3 DEF Removing, AdminLabels
  <2>5. Exists(segments, s) => Exists(segments', s) /\ SizeOf(s)' = SizeOf(s)
    BY <2>1 DEF SizeOf
  <2>6. stored[s + 1].size \in Nat
    BY <2>1, SizesInFile
  <2> QED
    BY <2>1, <2>4, <2>5, <2>6, DiskKept
<1>2. CASE Crash
  BY <1>2 DEF Crash, Stop, DiskOK
<1>3. CASE Restart
  <2>1. restarts \in Nat /\ restarts' = restarts + 1
    BY <1>3, BoundsAssumption DEF Restart, TypeOK
  <2> QED
    BY <2>1 DEF DiskOK
<1>4. CASE UNCHANGED vars
  BY <1>4 DEF vars, fileVars, DiskOK, Removing, SizeOf
<1> QED
  BY <1>1, <1>2, <1>3, <1>4, DiskAdministrated DEF Next

\* At every step of the first process, and in memory in every process, the file of a
\* segment has the pages the segment has, unless it is being removed.
THEOREM SizesAlwaysBacked ==
  ASSUME OneAdministrator
  PROVE  Spec => []SizesAreBacked
<1>1. Init => DiskOK
  BY DEF Init, DiskOK, Exists, Segments
<1>2. TInv /\ TInv' /\ FInv /\ DiskOK /\ [Next]_vars => DiskOK'
  BY DiskStep
<1>3. TInv /\ FInv /\ DiskOK => SizesAreBacked
  <2> SUFFICES ASSUME TInv, FInv, DiskOK, running, NEW s \in Segments, ~Removing(s)
               PROVE  /\ Exists(segments, s) => Backed(segments, s)
                      /\ restarts = 0 /\ stored # Nil /\ Exists(stored, s) => Backed(stored, s)
    BY DEF SizesAreBacked
  <2>1. ~Erasing(s)
    BY DEF Removing, Erasing
  <2>2. Exists(segments, s) => length[s] \in Nat /\ SizeOf(s) <= length[s] /\ length[s] # Nil
    BY <2>1 DEF FInv, FilesOK, SizesOK, HasFile, Live, TInv, TypeOK, FileTypeOK
  <2>3. /\ Exists(segments, s) => SizeOf(s) \in Nat
        /\ stored # Nil /\ Exists(stored, s) => stored[s + 1].size \in Nat
    BY SizesAreNaturals, SizesInFile DEF TInv
  <2>4. restarts = 0 /\ stored # Nil /\ Exists(stored, s) =>
          Exists(segments, s) /\ stored[s + 1].size <= SizeOf(s)
    BY DEF DiskOK
  <2>5. Exists(segments, s) => Backed(segments, s)
    BY <2>2 DEF Backed, SizeOf
  <2>6. restarts = 0 /\ stored # Nil /\ Exists(stored, s) => Backed(stored, s)
    BY <2>2, <2>3, <2>4 DEF Backed
  <2> QED
    BY <2>5, <2>6
<1>4. QED
  BY <1>1, <1>2, <1>3, FilesInductive, PTL DEF Spec
---------------------------------------------------------------------------
(* The segment manager implements SegmentStore, with one administrator.  *)

\* An entry that is set changes the size of its segment only.
LEMMA OneSizeChanges ==
  ASSUME TypeOK, IdsBelow(segments), NEW s \in Segments, s <= Len(segments),
         NEW e \in Entries, e.id \in {0, s},
         segments' = IF s < Len(segments) THEN [segments EXCEPT ![s + 1] = e]
                                          ELSE Append(segments, e)
  PROVE  SizeMap' = [SizeMap EXCEPT ![s] = IF e.id = s THEN e.size ELSE Nil]
<1>0. PICK v : v = segments'
  OBVIOUS
<1>1. /\ v[s + 1] = e
      /\ Exists(v, s) <=> e.id = s
      /\ \A u \in Segments \ {s} :
           /\ Exists(v, u) <=> Exists(segments, u)
           /\ Exists(segments, u) => v[u + 1] = segments[u + 1]
  BY <1>0, SetEntry
<1> DEFINE value == IF e.id = s THEN e.size ELSE Nil
           sizeOf(u) == IF Exists(v, u) THEN v[u + 1].size ELSE Nil
<1>2. sizeOf(s) = value
  <2>1. CASE e.id = s
    BY <1>1, <2>1
  <2>2. CASE e.id # s
    BY <1>1, <2>2
  <2>3. QED
    BY <2>1, <2>2
<1>3. ASSUME NEW u \in Segments \ {s} PROVE sizeOf(u) = SizeMap[u]
  <2>1. CASE Exists(segments, u)
    BY <1>1, <2>1 DEF SizeMap, SizeOf
  <2>2. CASE ~Exists(segments, u)
    BY <1>1, <2>2 DEF SizeMap
  <2>3. QED
    BY <2>1, <2>2
<1>4. SizeMap' = [u \in Segments |-> sizeOf(u)]
  BY <1>0 DEF SizeMap, SizeOf
<1> HIDE DEF sizeOf, value
<1>5. [u \in Segments |-> sizeOf(u)] = [u \in Segments |-> IF u = s THEN value ELSE SizeMap[u]]
  BY <1>2, <1>3
<1>6. [SizeMap EXCEPT ![s] = value] = [u \in Segments |-> IF u = s THEN value ELSE SizeMap[u]]
  BY DEF SizeMap
<1>7. QED
  BY <1>4, <1>5, <1>6 DEF value

LEMMA RecordCreates ==
  ASSUME TInv, FInv, NEW t \in Administrators, RecordSegment(t)
  PROVE  \E s \in Segments : s = target[t] /\ Store!Create(s)
<1> USE DEF TInv, FInv
<1>1. t \in Threads /\ pc[t] = "record"
  BY AdministratorsAssumption DEF RecordSegment
<1> PICK s \in Segments : s = target[t]
  BY <1>1 DEF TargetsOK
<1> PICK e \in Entries : e = [id |-> s, size |-> 0]
  BY DEF Entries
<1>2. /\ s <= Len(segments)
      /\ segments' = IF s < Len(segments) THEN [segments EXCEPT ![s + 1] = e]
                                          ELSE Append(segments, e)
  BY <1>1 DEF RecordSegment, TargetsOK
<1>3. SizeMap[s] = Nil
  BY <1>1 DEF AdministratorsOK, SizeMap
<1>4. e.id = s /\ e.size = 0
  OBVIOUS
<1>5. SizeMap' = [SizeMap EXCEPT ![s] = 0]
  BY <1>2, <1>4, OneSizeChanges DEF EntriesOK
<1>6. QED
  BY <1>3, <1>5 DEF Store!Create

LEMMA SetSizeAllocates ==
  ASSUME TInv, FInv, NEW t \in Administrators, SetSize(t)
  PROVE  \E s \in Segments, min \in Sizes : s = target[t] /\ Store!Allocate(s, min)
<1> USE DEF TInv, FInv
<1>1. t \in Threads /\ pc[t] = "setSize"
  BY AdministratorsAssumption DEF SetSize
<1> PICK s \in Segments : s = target[t]
  BY <1>1 DEF TargetsOK
<1> PICK n \in Nat : n = newSize[t]
  BY <1>1 DEF TypeOK
<1>2. Exists(segments, s)
  BY <1>1 DEF AdministratorsOK
<1>3. /\ s \in Nat /\ s < Len(segments) /\ s + 1 \in 1 .. Len(segments)
      /\ segments[s + 1] \in Entries /\ segments[s + 1].id = s
      /\ SizeOf(s) \in Nat
  BY <1>2, SizesAreNaturals
<1> PICK e \in Entries : e = [segments[s + 1] EXCEPT !.size = n]
  BY <1>3 DEF Entries
<1>4. e.id = s /\ e.size = n
  BY <1>3 DEF Entries
<1>5. segments' = IF s < Len(segments) THEN [segments EXCEPT ![s + 1] = e]
                                       ELSE Append(segments, e)
  BY <1>3 DEF SetSize
<1>6. s <= Len(segments)
  BY <1>3 DEF TypeOK
<1>7. SizeMap' = [SizeMap EXCEPT ![s] = n]
  BY <1>4, <1>5, <1>6, OneSizeChanges DEF EntriesOK
<1> PICK min \in Sizes : SizeOf(s) < min /\ n \in min .. (5 * min) \div 4
  BY <1>1 DEF AdministratorsOK
<1>8. SizeMap[s] = SizeOf(s)
  BY <1>2 DEF SizeMap
<1>9. SizeMap[s] # Nil /\ SizeMap[s] < min
  BY <1>3, <1>8, NilAssumption
<1>10. Store!Allocate(s, min)
  BY <1>7, <1>9 DEF Store!Allocate
<1>11. QED
  BY <1>10

LEMMA EraseRemoves ==
  ASSUME TInv, FInv, NEW t \in Administrators, EraseSegment(t)
  PROVE  \E s \in Segments : s = target[t] /\ Store!Remove(s)
<1> USE DEF TInv, FInv
<1>1. t \in Threads /\ pc[t] = "erase"
  BY AdministratorsAssumption DEF EraseSegment
<1> PICK s \in Segments : s = target[t]
  BY <1>1 DEF TargetsOK
<1>2. Exists(segments, s)
  BY <1>1 DEF AdministratorsOK
<1>3. /\ s \in Nat /\ s < Len(segments) /\ SizeOf(s) \in Nat
  BY <1>2, SizesAreNaturals
<1>4. Unused \in Entries /\ Unused.id = 0 /\ s # 0
  BY DEF Unused, Entries, Segments
<1> HIDE DEF Unused
<1>5. segments' = IF s < Len(segments) THEN [segments EXCEPT ![s + 1] = Unused]
                                       ELSE Append(segments, Unused)
  BY <1>3 DEF EraseSegment
<1>6. s <= Len(segments)
  BY <1>3 DEF TypeOK
<1>7. SizeMap' = [SizeMap EXCEPT ![s] = Nil]
  BY <1>4, <1>5, <1>6, OneSizeChanges DEF EntriesOK
<1>8. SizeMap[s] # Nil
  BY <1>2, <1>3, NilAssumption DEF SizeMap
<1>9. QED
  BY <1>7, <1>8 DEF Store!Remove

LEMMA SegmentsStep ==
  ASSUME TInv, FInv, [Next]_vars, running, running'
  PROVE  /\ [Store!Next]_SizeMap
         /\ \A s \in Segments :
              SizeMap'[s] # SizeMap[s] => \E t \in Administrators : target[t] = s
<1>1. ASSUME UNCHANGED segments PROVE UNCHANGED SizeMap
  BY <1>1 DEF SizeMap, SizeOf
<1>2. ASSUME NEW t \in Administrators, RecordSegment(t) \/ SetSize(t) \/ EraseSegment(t)
      PROVE  /\ Store!Next
             /\ \A u \in Segments : SizeMap'[u] # SizeMap[u] => target[t] = u
  <2>1. PICK s \in Segments : /\ s = target[t]
                              /\ \/ Store!Create(s)
                                 \/ Store!Remove(s)
                                 \/ \E min \in Sizes : Store!Allocate(s, min)
    BY <1>2, RecordCreates, SetSizeAllocates, EraseRemoves
  <2>2. Store!Next
    BY <2>1 DEF Store!Next
  <2>3. \A u \in Segments : u # s => SizeMap'[u] = SizeMap[u]
    BY <2>1 DEF Store!Create, Store!Remove, Store!Allocate, SizeMap
  <2>4. QED
    BY <2>1, <2>2, <2>3
<1>3. ASSUME NEW t \in Administrators, Administrate(t),
             ~RecordSegment(t), ~SetSize(t), ~EraseSegment(t)
      PROVE  UNCHANGED segments
  BY <1>3
  DEF Administrate, Create, CreateSegmentFile, Allocate, EnlargeFile, Remove, PersistTruncate,
      PersistWrite
<1>4. CASE UNCHANGED vars \/ \E t \in Threads : PageIO(t)
  BY <1>1, <1>4 DEF vars, PageIO
<1>5. CASE Crash \/ Restart
  BY <1>5 DEF Crash, Restart, Stop
<1>6. ASSUME NEW t \in Administrators, Administrate(t)
      PROVE  /\ [Store!Next]_SizeMap
             /\ \A s \in Segments : SizeMap'[s] # SizeMap[s] => target[t] = s
  BY <1>1, <1>2, <1>3, <1>6
<1>7. QED
  BY <1>4, <1>5, <1>6 DEF Next

\* As long as the process lives the segment manager implements SegmentStore: a segment is
\* created empty, grows to what is asked for and no more than the growth factor beyond it,
\* whatever the sizes, and only the segment changes that an operation is about.
THEOREM SegmentsImplementStore ==
  ASSUME OneAdministrator
  PROVE  Spec => ImplementsSegmentStore
<1>1. Init => Store!Init
  <2> SUFFICES ASSUME Init PROVE Store!Init
    OBVIOUS
  <2>1. segments = <<Unused>>
    BY DEF Init
  <2>2. \A s \in Segments : ~Exists(segments, s)
    BY <2>1 DEF Exists, Segments
  <2>3. QED
    BY <2>2 DEF Store!Init, SizeMap
<1>2. TInv /\ FInv /\ [Next]_vars => [running /\ running' => [Store!Next]_SizeMap]_vars
  BY SegmentsStep
<1>3. TInv /\ FInv /\ [Next]_vars =>
        [running /\ running' => \A s \in Segments :
           SizeMap'[s] # SizeMap[s] => \E t \in Administrators : target[t] = s]_vars
  BY SegmentsStep
<1>4. QED
  BY <1>1, <1>2, <1>3, FilesInductive, PTL DEF Spec, ImplementsSegmentStore
=============================================================================
