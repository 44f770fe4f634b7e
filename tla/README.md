# A verification of smallDB in TLA+

smallDB is a small database system in C++: a buffer manager over segment files,
slotted pages and a B+ tree on top of it, iterators that compute queries, and a
program that sorts files.
This directory holds TLA+ modules that model it, TLC configurations that check
the models on small instances, and theorems that TLAPS checks for every size.
Paths below are relative to `src/src/`.

## The system

### Components, their state and their operations

| component | state | operations |
|---|---|---|
| buffer frame (`buffer/BufferFrame`) | clean/dirty/deleted, memory slot, shared mutex with thread-specific locks, queue it is in | `lock`, `unlock`, `setData`, `setDirty`, `setDeleted` |
| frame table (`buffer/BufferFrameTable*`) | page -> frame, in buckets with a mutex each | `lookup`, `insert`, `deletePage` |
| replacement manager (`buffer/BufferReplacementManager`) | fifo and lru queue of nodes (slot, raw pointer to frame), a mutex | `evictFrame`, `newFrame`, `reprioritizeFrame` |
| buffer manager (`buffer/BufferManager`) | memory slots; the three above | `fixPage`, `evictPage`, `unfixPage`, destructor |
| file manager (`file/FileManager`) | segment -> file descriptor, a mutex | `create`, `remove`, `truncate`, `open`, `read`, `write` |
| segment manager (`segment/SegmentManager`) | vector of segment metadata; the file `segments` | constructor, `create`, `retrieve`, `allocate`, `remove`, `persist` |
| slotted pages (`data/SPPage`, `data/SPSegment`) | page header, slots, records, redirections | `insert`, `remove`, `lookup`, `update`, `range` |
| B+ tree (`bplustree/`) | inner and leaf nodes, the next free page in a meta node | `insert`, `lookup`, `lookupRange` and its iterator, `erase`, `size` |
| operators (`operators/`) | an iterator per operator, hash table of a join | `open`, `next`, `getOutput`, `close` |
| schema (`schema/`) | relations with attributes and primary keys | `serialize`, `deserialize`, compare |
| external sort (`extsort/main.cpp`) | two files of runs, a priority queue | sort in chunks, k-way merge, compare |
| hash (`hash/`) | none | MurmurHash3, third-party |

### How they interact

Many threads call `fixPage` and `unfixPage` on one buffer manager. It shares
memory with them: a frame points into the buffer and is protected by its own
lock between the two calls. The buffer manager calls its own file manager from
any thread. The segment manager has a second file manager object on the same
directory, so the two know nothing of each other's descriptors. SP segments and
the B+ tree call the segment manager for their size and the buffer manager for
their pages; operators scan SP segments. Nothing calls back.

### What is hard, and what makes each component correct

* **Buffer**: five kinds of lock in one operation and none of them held from its
  start to its end. A page is deleted between being loaded and being locked, a
  frame outlives its page, a slot changes hands while threads wait for it.
  Correct: readers and writers of a page exclude each other, no write is lost
  (eviction, restart), slots are neither shared nor lost, raw pointers in the
  queues are valid, assertions hold, and `fixPage` returns.
* **Files and segments**: crashes between the steps of an operation, two handle
  maps, look-ups without the mutex. Correct: descriptors belong to their
  segments, sizes are backed by files, changes are stored when the operation
  returns, and segments are there after a restart.
* **Slotted pages**: an operation on a redirected record gives one page up
  before it takes the other. Correct: a TID gives its last record; accounting of
  space on a page never lets records overlap.
* **B+ tree**: lock coupling and preventive splits by several threads, iterators
  that keep a leaf between the calls of their user, and a parent that is unfixed
  as changed by a flag. Correct: it is a map whose calls take effect at one moment;
  a scan comes to every entry that stays; every key is found from the root at every
  moment; asserted space is there; changes are marked; calls return; a leaf is only
  changed under its exclusive lock.
* **Operators**: a protocol of calls that leave state behind (a hash table, an
  iterator into it, open scans). Correct: the rows of the query come out when a
  plan is opened, closed early, and opened again.
* **Schema**: a reader that must keep in step with a writer. Correct: what is read
  is what was written.
* **External sort**: runs, merges and phases that are cut off by the end of the file.
  Correct: the output is the input sorted, and the phases end.

`PROJECT.json` lists every hazard at its line with the properties that cover it.

## The modules

```
BufferFrame <- ReplacementManager <- BufferManager <- MCBufferManager
                                       |    ^--- BufferManagerProofs
                                       +-- implements --> PageStore
FileManager <- SegmentManager -- implements --> SegmentStore
                    ^--- SegmentManagerProofs
SPPage <- SPSegment -- implements --> RecordStore
             ^--------- SPSegmentProofs
BPlusTreeNodes <- BPlusTree <- MCBPlusTree
                    |    ^--- BPlusTreeProofs <- BPlusTreeKeyProofs <- BPlusTreeMapProofs
                    +-- implements --> OrderedMap
SchemaStream <- QueryPlan <--+   (QueryPlan <- QueryPlanProofs)
ExternalSort <---------------+-- MCSequential   (ExternalSort <- ExternalSortProofs)
```
(`<-`: is extended by.)

### Buffer manager

`BufferFrame` has the frame objects. A frame is `<<page, generation>>`: when a
page is evicted while a thread still points to its frame, and loaded again, two
objects for it exist. A generation is used again once nothing points to it
(`Referenced`, the shared pointers), so that the model is finite. `LockExclusive`
and `LockShared` are the thread-specific lock objects: a thread that holds the
lock of the kind it asks for returns at once; one that holds the other kind
waits for itself. A shared lock may be taken while a writer waits: boost may
stop readers then, so the model has more behaviours.

`ReplacementManager` has the two queues. `NewFrame`, `Reprioritize` and
`EvictFrame` each run under the manager's mutex and are steps.

`BufferManager` composes them. `pc` says where a thread is in `fixPage`:

| label | code (`buffer/BufferManager.cpp`) | action |
|---|---|---|
| `idle` | outside | `FixPage`, `WritePage`, `UnfixPage` |
| `lookup` | 30-45, under the bucket's mutex | `LookupHit`, `LookupMiss` |
| `evict` | 106, under the replacement manager's mutex | `PopNode` |
| `evictLookup` | 108-113 | `EvictLookup` |
| `evictLock` | 116 | `EvictLock` (waits) |
| `clean` | 118-119 | `CleanVictim` |
| `evictDelete`, `evictUnlock` | 121-126 | `EvictDelete`, `EvictUnlock` |
| `load`, `newFrame`, `loadUnlock` | 47-55 | `Load`, `EnqueueFrame`, `LoadUnlock` |
| `lock` | 64 | `LockFrame` (waits) |
| `check` | 66-80 | `ReturnFrame`, `RetryFix` |

Work done while the thread holds the frame exclusively and touches nothing else
is in one step with its neighbours. `WritePage` is a user, who counts up a word
on the page as `test/buffertest` does. `Restart` is the destructor followed by a
new buffer manager. A page's content is the page it came from and the number of
writes to it, so that a page that shows another one's bytes, a lost write and a
write that comes back all show.

`PageStore` is the promise of `BufferManager.hpp`: fix, write, unfix, for a
reader/writer lock and a value per page. The refinement maps the value of a page
to the slot of its frame once loaded, else to its file. The slotted pages and the tree
below are modelled on this promise. The slotted pages fix one page at a time. The tree
fixes two, and a third one while a node is split, so that the promise is its for as long
as no thread evicts a page it has fixed for writing itself (`SparesOwn` in
`BufferManagerProofs`): the buffer has to be large enough for that, which nothing in the
code asks for. Users may give a page back as dirty that they have fixed for reading, as
the tree does; that they write to it then is a data race and outside of this model.

### Files and segments

`FileManager` has both file manager objects (`handles`), the descriptors of the
process (`opened`), with the lowest free number given first as open(2) does, and
the files (`length`, in pages). `read` and `write` of the buffer manager's object
are a thread's steps `BeginIO`, `CheckOpen`, `OpenLock`, `OpenInsert`,
`Transfer`, because they look into the map without the mutex; the other
operations are called by one thread at a time.
A descriptor on a file that has been removed is open on `Unlinked`. `Closed` is the
descriptor that `closeUnsyncronized` closes and `EraseHandle` the entry it erases, the
one with that number. `BufferOpensOnce` is asked of the buffer manager's object only: the
other one leaks a descriptor when the entry it erases is a live segment's. Three calls
of `create` and `remove(1)` do: the descriptor 3 is closed and the entry of segment 3
erased. From then on `TruncateFile` goes by its file's name.

`SegmentManager` extends it with the vector `segments`, position i + 1 for entry
i, and the file `stored`. An action is the code between two calls to files, so
`Crash` falls between any two of them. `Restart` is the constructor of the next
process: it puts an unused entry first and appends all entries of the file. When
the crash came between the truncation of the file and its writing, the number of
entries is uninitialised memory and the model takes any value up to the bound.
`SizesAreBacked` is about the metadata in memory and about what a crash leaves in the
file. `persist` is two steps, the truncation and everything else: that its loop and the
flush at its end are one step is right for one administrator, for whom the run and the
theorems are.

`SegmentStore` is the promise: a segment is created empty, grows to at least the
size asked for and at most a quarter more, and is removed.

### Slotted pages

`SPPage` has the operations on one page as functions from page to page: the
header's `_dataStart` and `_freeSpace`, and the slots with their offsets. The
bytes of an item are kept with its slot, which is right as long as items share no
bytes: `ItemsApart`. `_firstFreeSlot` is the number of slots; `_slotCount` is
never read. Sizes are in units of eight bytes: a page header is 4, a slot 3, a
TID 3.

`SPSegment` has the operations. It fixes one page at a time, so that all it does
from a `fixPage` to its `unfixPage` is one action: the buffer manager's promise,
`PageStore`, makes it one. What comes between two actions of an operation is
where readers come in. Only the iterator keeps a page fixed from call to call;
the actions of others that fix that page for writing wait for it
(`FixExclusive`). `due`, `done` and `again` are not in the code: they say what a
scan has found and missed. An assertion that fails ends the program (`Abort`).
Operations on removed records return without a change and are no step.

| code (`data/SPSegment.cpp`) | actions |
|---|---|
| `insert` 10-23 | `Insert`, then `Search` |
| `searchFreeSpace`, `allocate` 214-257, and `page->insert` | `SearchMiss`, `SearchHit`, `AllocatePage`, `InitPage`, `PlaceOnNew` |
| `update` 113-127 | `UpdateHere` |
| `update` 129-152 | `UpdateAway`, `Search`, `Redirect` |
| `update` 155-207 | `UpdateFollow`, `UpdateMoved`, `Search`, `Redirect` |
| `remove` 25-60 | `RemoveRecord` |
| `lookup` 62-96 | `LookupFollow`, `LookupMoved` |
| `SPIterator` | `BeginScan`, `ScanNext`, `ScanUnfix`, `ScanFix`, `EndScan` |

`RecordStore` is the promise: a TID is given once and leads to its last record. It
knows which calls are in progress, so that an update that returns has taken
effect and a record is not gone unless someone removed it. While a record moves
again its value is that of the update in progress (`Moving`).

### B+ tree

`BPlusTreeNodes` has the nodes as values, and what `InnerNode.tpp` and
`LeafNode.tpp` do with them as functions from nodes to nodes: a split gives the old
node, the new one and the key between them. `HasFreeSpace` leaves the last place of
a node unused, as the code does. `LowerBound` is `std::lower_bound` on sorted keys.

`BPlusTree` has the threads. Page 1 is the root, page 2 the first leaf, `free` the
counter in the meta node that `newPage` fixes and unfixes again. An action is what
a thread does from the moment `fixPage` returns to its next call of `fixPage`, by
the promise of `PageStore`: others cannot see inside of it. `shared` and `exclusive`
say who has a page fixed; a thread waits where the guard of a step does not hold.
`unsaved` has the pages that have changed since they were unfixed as dirty.

| code (`bplustree/`) | label | actions |
|---|---|---|
| `BPlusTree.tpp`, `lookupPage` 212-249 | `start`, `descend` | `FixRoot`, `Descend` |
| `lookup`, `erase` | `descend` | `Lookup`, `Erase` |
| `insert` 9-22 | `descend` | `InsertHere`, `InsertFull` |
| `insert` 24-56, and `splitRoot` | `lockRoot` | `LockRoot` |
| `insert` 58-141, and `split` | `lockChild`, `lockHalf` | `SplitChild`, `LockChild` |
| `insert` 143-147 | `place` | `InsertExclusive` |
| `lookupRange`, `size`, `BPlusTreeIterator.tpp` | `scan`, `next` | `BeginScan`, `ScanNext`, `NextLeaf`, `EndScan`, `DropScan` |

In `SplitChild` the node and its new half are unfixed before the half that the key
belongs to is fixed (`lockHalf`): others come in between. `AssertionsHold` says that
there is room in that half, and in the parent of every node that is split.

`lookupPage` means to fix the leaf exclusively and does not: it asks the parent, not
the child, whether it is a leaf. `erase` and `insert` so change a leaf that is fixed
for reading only. If another thread has the leaf fixed then, that is a data race:
`Race` sets `status` and the model stops, because nothing is known after it. All
other properties speak of executions without a race; `LeafIsExclusive`, a finding,
speaks of the race. In a leaf that an iterator of another thread has fixed, an erasure or
an insertion is such a race: that an iterator then stays at an entry, which two assertions
of `LeafNode.tpp` (81, 87) ask for, is no property here. An erasure that goes ahead
between two of its calls can leave it behind the last one.

`OrderedMap` is the promise: insert, erase and lookup take effect at one moment
between call and return. A scan does not; it comes to entries in ascending order,
which are in the map when it does, and to all that have been there since it started
(`owed`). Users keep keys distinct: a thread inserts a key that is not in the tree and
that no other thread is inserting; what the tree does with equal keys is not said.

### Schema, operators, external sort

These run in one thread. `MCSequential` has their instances; they share a run, not a
behaviour: `component` says which of them a behaviour is one of.

`SchemaStream` reads, one action per record of the format, what `Serialize` wrote. A
field of the stream is one element of a sequence: names are values.

`QueryPlan` has the plan of `test/operatorstest`, a join of a selection of employees
with countries, on the schema that was read: the scan cuts records into registers by
the attributes' lengths. An action is one turn of a loop, or what one call of `next`
does around it: `Build` and `Built` are `HashJoinOperator::open`, `NextMatch`, `Probe`
and `Exhaust` are `next`. The hash table is a sequence of tuples and `matches` what is
left between the iterators `_tableIterator` and `_tableIteratorEnd`; equal keys come in
no particular order. `close` leaves the table filled, so that a plan that is opened
again prints rows twice: `TuplesAreJoined` says that each row comes once for each of its
pairs of tuples and each opening so far. The pairs are those of the tuples that `Cut` makes
of the records, in the property as in the plan, so how registers are cut out of a record
is not what it is about. `Project` copies the registers that `ProjectionOperator` moves
out, which is the same as long as none is named twice (`RegistersAssumption`).

`ExternalSort` has the positions and files of `extsort/main.cpp`: `FormRun` is a turn of
run formation, `StartMerge`, `MergeNext` and `EndMerge` one merge of `K` runs,
`StartPhase` and `EndPhase` one phase, after which the temporary files change roles. Which of
equal numbers the priority queue gives first is left open.

## The runs

| run | instance | shows |
|---|---|---|
| `buffer_concurrent` | 2 threads, 3 pages, 2 slots, 1 write a page, 1 page fixed at a time | all safety properties, and that the buffer manager implements `PageStore` |
| `buffer_live` | same, `LiveSpec` | `LoadCompletes`, `FixCompletesAlone` |
| `buffer_write_back` | 1 thread that fixes 2 pages | violates `NoWriteBackWhileFixed` |
| `segment_restart` | 1 administrator, 1 more reader, 3 segments, 1 crash | types, descriptors, sizes, persistence, implements `SegmentStore` while a process lives |
| `segment_lost` | smallest instance | violates `SegmentsSurviveRestart` |
| `sp_records` | 1 writer, 1 reader, 3 pages of 4 + 12 units, records of 3 and 6 | pages are sound and counted, scans and lookups are right, implements `RecordStore` |
| `sp_short` | 1 writer, 2 pages of 4 + 15, records of 1 to 4 | violates `PagesAreSound` |
| `sp_lookup`, `sp_remove` | 1 writer; a reader in `sp_lookup` | violate `LookupAssertion`, `RemoveAssertion` |
| `btree_threads` | 2 threads, both degrees 2, a load of 6 or 8 keys, then 3 calls, 13 pages | keys are found, the chain is sorted, the tree is balanced, changes are marked, assertions hold, calls return, implements `OrderedMap`: until a data race |
| `btree_leaf_lock` | same | violates `LeafIsExclusive` |
| `sequential` | sort: `K = 2`, runs of 2, up to 6 numbers of 3 values, 9 of 2 values; query: up to 3 employees, 2 countries, 2 openings; 8 schemas | the output is sorted, by sorted runs and ordered merges, and comes; the schema is restored; rows are those of the join, as often as it has been opened, iterators valid |

**Bounds.** `Size = 2` with three pages: both slots can be in use, with threads,
or in either queue, and every load of the third page evicts. Two threads are as
many as slots, the limit of `ThreadsAssumption`. `MaxGeneration = 1`: two objects
of one page; `AssertionsHold` also says that no thread ever waits for a third.
One write a page distinguishes a lost write from a kept one. `MaxFix = 1` is the
discipline of the buffer test and of the slotted pages; for users that fix more, see the
theorems: a thread that evicts a page it has fixed runs into the findings. `MaxSegments = 3` with six descriptors: descriptor 3 is
also the id of a segment, which is what the wrong key needs. `Sizes = {9}`: from
an empty segment the growth loop passes by every size up to 8 and ends with a
step of a quarter. Administrators are one thread: the class has no lock, and two
threads in `create` choose the same id at once. In `sp_records` a page holds two
short records, or one that has moved there; the third page is what a record needs
to move a second time (with two pages that never happens). Its records are as long as a
TID or longer: a shorter one that has not moved can be neither updated nor moved, because the
assertion of `updateInPlace` (`SPPage.cpp:93`) compares a TID's length with its own. Short records are
in `sp_short`, which has two lengths below a TID's, updates from the one to the other and a
page of which few units are left: that is what a moved record needs to be written over the
slots. That nothing else, of whatever length, makes records overlap is proved
(`PagesStaySound`).

In `btree_threads` one thread fills the tree in descending order, so that splits leave
the nodes on the left full: after 6 keys the next insertion splits a leaf and then the
root, after 8 an inner node that is not the root. Leaves with a single entry, which an
erasure empties and an iterator has to pass over, are there as well. The keys 1 and 8
of the calls are below and inside of those loaded; three calls are two concurrent
ones and one that finds what they left, or an insertion between two calls of one iterator.
No behaviour needs more than 13 pages. Degree 2 is the smallest for which both halves
of a node have an entry.

In `sequential` nine numbers are five runs: three phases, of which the first has a
merge of one run and the last a run cut off after one number. Three employees may
share a country, so that a right tuple has several matches, and two countries may be
equal. Schemas have relations with no attributes, no keys, and keys before attributes.

**Fairness.** A thread in `fixPage` keeps running (weak), users unfix what they
fixed (weak), and a thread that waits for a frame's lock gets it if the lock is
free again and again (strong): boost's shared mutex stops new readers while a
writer waits. No fairness is assumed for users starting to fix. `LiveSpec`
restricts users to exclusive fixes of pages they leave clean; this takes files
and readers out of the graph and keeps every step of `fixPage` and `evictPage`.

In `btree_threads` a thread in a call keeps running: its next step is taken if it is
enabled for ever (weak). For steps that wait in `fixPage` this says that a lock that
stays free is given. A user goes on with an iterator or destroys it, because a scan's
steps are part of `Continue`: one that holds it for ever would stop writers of that
leaf by right. No fairness is assumed for calls. In `sequential` the program runs on.

**Deadlock** is checked in `buffer_concurrent` and the liveness runs. The
segment, slotted page and tree runs and the single-thread runs stop when their bounds
are used up; in the tree `CallsReturn` says that no call is stopped.

## What is proved

`BufferManagerProofs` proves, for every number of threads, pages, slots and
generations under the assumptions of the modules (a slot exists; nil is no
object; there are at most as many threads as slots; bounds are naturals):

* `TypeCorrect`: `Spec => []TypeOK`
* `QueuesAreCurrent`: `Spec => []QueuedFramesAreCurrent`
* `EvictionAlwaysFindsNode`: `Spec => []EvictionFindsNode`
* `SlotsKeepOneHolder`: `Spec => []SlotsHaveOneHolder`

They follow from `Inductive`, `Spec => []IInv`. Why each part is needed:

* `LocalsOK`: which locals are set at which label. Without it types do not
  survive `Load` or `EvictDelete`, which take fields of them.
* `LoadersOK`: the frame of a thread that is loading is in the table, new, in no
  queue and not anybody else's; it is what `NewFrame` may enqueue.
* `EvictorsOK`: the frame of an evicted node stays in the table, out of the
  queues, until its evictor takes it out; two evictors have different frames.
* `SlotsApart`: no slot is at two places; `SlotsKept`: every slot is somewhere.
* `QueuedFramesAreCurrent` and `DataOK` tie the queues, the table and the frames'
  slots together.

`EvictionFindsNode` is counting: if the queues are empty every slot is with a
thread, the evicting thread has none, so there are fewer slots than threads. The
code's comment asks for fewer threads than slots; as many are enough.
The proof holds whatever `MaxFix` is, so also for users that the findings are about.

The second half of the module goes on from there to what a user of the buffer relies on:

* `FixedPagesAlwaysStay`: `Spec /\ []SparesOwn => []FixedPagesStay`
* `AssertionsAlwaysHold`: `Spec /\ []SparesOwn => []AssertionsHold`, where
  `MaxGeneration + 1` is at least the number of threads, so that the bound on frame
  objects stops nobody
* `NoWriteBackOfFixedPages`: `Spec /\ []SparesOwn => NoWriteBackWhileFixed`
* `BufferImplementsPageStore`: `Spec /\ []SparesOwn => ImplementsPageStore`
* `OneIOPerPageAlways`: `Spec => []OneIOPerPage`, from `IInv` alone

`SparesOwn` says that no thread evicts a page that it has fixed for writing itself. The
lock lets it, and `buffer_write_back` shows what happens then, so that nothing better
holds of threads that fix several pages. `OneAtATimeSparesOwn` proves it of those that
fix one (`MaxFix = 1`). `SInv`, on top of `IInv`, says who has which lock and what follows
from it:

* `LocksOK`, `LocksApart`: a lock is held by the threads whose label, fix or victim
  says so, and readers and a writer never hold it together.
* `FixesOK`: a thread asks for a page it has not fixed and evicts none it has, so that
  it never meets itself.
* `LiveFramesInTable`, `DeletedFramesLeave`, `FixedFramesLive`: a frame that is not
  deleted is the one in the table, whoever still points to it; a deleted one is in the
  table only until its evictor, who holds its lock, takes it out.
* `LoadedFramesHaveNodes`, `QueuedFramesHaveNodes`: the slot of a loaded page is with
  its node, so that no other page is loaded over it.
* `CleanFramesAreSaved`: a page that is not dirty is as in its file, unless its user has
  changed it and not yet unfixed it. This is why eviction may drop a clean page.

The refinement maps `WritePage`, `ReturnFrame`, `UnfixPage` to `PageStore`'s steps and
all others to stutters: `Load` and `CleanVictim` move a page's value between file and
slot and do not change it.

`SegmentManagerProofs` is about files and segments, for any number of segments,
descriptors, sizes and restarts:

* `TypeCorrect`, `BufferAlwaysOpensOnce`: for any number of
  administrators, from `TInv`. `OpenersOK` is the mutex of `open`: one thread is about to
  insert a handle, and the entry is empty when it does.
* `ChangesAreAlwaysPersisted`, `HandlesAlwaysOpen`, `SizesAlwaysBacked`,
  `SegmentsImplementStore`: for one administrator, because the class has no lock; the last
  three from `FInv`. `SizesAlwaysBacked` is about what a crash of the first process leaves
  as well: by `DiskOK` a segment in the file is in memory with as many pages or more, or
  is being removed. In later processes no segment of an earlier one is found again
  (`segment_lost`).
* `GrowToBounds`: the growth loop ends with at least the size asked for and at most a
  quarter more. The loop is a recursive function; the proof takes the largest size for
  which the claim would fail.

The heart of `FInv` is `IdsBelow`: an entry is behind its id, and one place further
behind after a restart, where `checkExists` does not find it; so no segment exists in a
new process before it is created again, and none has two entries that count. `FilesOK` says of the descriptors
of segments that exist that no one else has them, which is what makes the wrong key of
`closeUnsyncronized` harmless to other segments' files: what it leaves behind belongs
to a segment that is gone.

The first part of `SPSegmentProofs` proves the layout of a page, for every size of pages, slots and TIDs
and all lengths of records: `InsertKeepsItemsApart`, `RemoveKeepsItemsApart`,
`UpdateInPlaceKeepsItemsApart` and `UpdateOnPageKeepsItemsApart` say that the page
after the operation is a page of which no two items share bytes and none reaches the
slots or the end, given a page like that and what the code asserts (`insert`) or asks
before (`updateOnPage`), or that the new item has room in the old one (`updateInPlace`). `remove`, `updateInPlace` and
`updateOnPage` replace one slot (`ReplaceSlot`); new items go below all data
(`BelowIsApart`). `UpdateSpaceIsEnough` says when the question the callers of
`updateOnPage` ask is the right one: always, except for a moved record that is
shorter than a TID, which may then overwrite the end of the slots (`sp_short`).

The second part takes those lemmas to segments. `PInv` says, besides types:

* `PagesOK`: every page is sound, has a TID's room below its items for each slot, and is
  untouched beyond the size of the segment.
* `LinksOK`: an item in use is a record, or leads to a slot that a record has moved to.
* `WritersOK`, `ReadersOK`: what a thread's locals are at its label; the page a search
  or an iterator is at is within its bound, and that within the segment.

Slots are seen as one function `SlotOf` of the TIDs that have been taken; the effect
lemmas say of each operation which slot it sets (`Placed`, `Revised`, `Emptied`,
`Linked`), so that the proofs after them do not look into pages any more. Theorems:
`TypeCorrect` (`[]TypeOK`) and `PagesStaySound` (`[]PagesAreSound`).

The third part has the counter of free bytes. The space in use is counted as a set with
an element for each byte of each item (`SpaceInUse`), so that setting one slot changes it
by the difference of that slot's items (`ReplaceSpace`, `AppendSpace`); each operation of
a page changes its counter by the same (`RemoveSpace`, `InsertSpace`,
`UpdateInPlaceSpace`, `RedirectSpace`, `UpdateOnPageSpace`). Theorems:

* `FreeSpaceStaysRight` (`[]FreeSpaceIsRight`).
* `FreeSpaceNeverWraps`: the space in use is at most what the page has behind its header,
  so that the unsigned counter is never decreased below zero. Bytes in use have
  different addresses (`AddressesDiffer`) because items are apart, and fit behind the
  header (`SpaceFits`). No run checks it.

The last part has the records. `RInv` is about redirections:

* `BackOK`: a record that has moved knows its original TID, which leads to it, or will
  when the update in progress returns.
* `ForthOK`: a redirection leads to a record with that TID, unless an update has it.
* `MovesOK`: where an update is; the place it has taken a record to is led to by nobody
  before its last step, and the place it has taken it from is free.
* `LookupsOK`: a look-up that has left its page is on the way to the record, or to a
  place that is free by now.

From it, `LookupsAlwaysFind` (`[]LookupFindsRecord`: a look-up that has left its page comes
to the TID's record or, overtaken by a second move, to a free slot, where the code's
assertion fails: `sp_lookup`; never to another record) and `SegmentImplementsRecordStore`
(`ImplementsRecordStore`). An update of a record that stays at home takes effect in its
only step; one that moves the record away when it redirects the TID; one of a record that
has moved in the step that overwrites or frees its place there, from which on `Value` is the
record in hand. Steps of a search, insertions at a new place, and readers are stutters.

`ScansOK` adds the iterators: the place of a settled record is `Seat`, and what is due is
ahead of the iterator and within its bound, what is done is behind it (`Visited`). An
update takes only its own TID out of both. `ScansAlwaysExact` (`[]ScansAreExact`) follows.

All of these assume `OneWriter`, since the model has the enlargement of a segment in one
step, which it is for one writer only. They are of the form
`Spec /\ []NoneGrowsShort => []P`: `NoneGrowsShort` leaves out one step, the update that
makes a record longer that has moved and leaves it shorter than a TID. That one may
overwrite the slots (`UpdateSpaceIsEnough`, `sp_short`), and nothing is known of the page
after it. Records of all lengths are inserted, moved, shortened and removed otherwise. The
number of readers is free.
Two assumptions on `Nil` (`CallsAssumption`, `IteratorsAssumption`) say that it is none of
the records it stands beside.

`BPlusTreeProofs` proves, for all degrees from 2 on, any number of threads, pages and
calls and any load:

* `TypeCorrect`: `Spec => []TypeOK`: no node is ever filled up, children and the
  chain stay among the pages given away, iterators' indexes stay in a leaf's bounds
* `ChangesStayMarked`: `Spec => []ChangesAreMarked`

They follow from `Inductive`, `Spec => []IInv`. The parts of `IInv`:

* `NodesOK`: a page below `free` is a leaf or an inner node and stays what it is; the
  children of inner nodes are below `free`, and a leaf leads to a leaf. Without it a
  descent could go to a page with nothing in it.
* `PlacesOK`: at each label, which page the thread is at and how it has it fixed. An
  iterator keeps its entry, until a race, because its page is in `shared` for it, and who
  changes a page has it exclusively or alone.
* `LocksExclude`: a page fixed exclusively is fixed by no reader, so that a split
  disturbs no thread that is at the page or its parent.
* `MarksOK`: a changed page is the parent that its thread has fixed, under the flag.

`Others` is the argument that all steps share: a thread that keeps its pages keeps its
place, whatever another one does. `QuietStep` and `ChangingStep` use it, for steps
that change no node and for those that do; the lemmas before them say what the
operations on nodes return (`InnerSplitType`, `LeafSplitType`, ...).

Four assumptions: degrees are at least 2 (`DegreesAssumption`: a node that is split
has a key to give up), `NoPage` is no number (`NoPageAssumption`; the code's invalid page id is in
segment 0, and a page of the tree is in the tree's own segment), `NilAssumption` (`Nil` is
none of the threads, nodes, values, entries and calls it stands beside), and
`UsersAssumption`.

`BPlusTreeKeyProofs` adds the order of the keys, for the same constants:

* `KeysAreFound`: `Spec => []EveryKeyIsFound`
* `InsertAssertionsHold`: `Spec => []AssertionsHold`
* `TreeStaysBalanced`: `Spec => []TreeIsBalanced`
* `ChainStaysSorted`: `Spec => []ChainIsSorted`

They follow from `TreeIsInductive`, `Spec => [](IInv /\ KInv)`. No property of a single
leaf is inductive, because what a split of a node does to look-ups depends on the nodes
above it. So `KInv` says:

* `TreeOK`: each page has bounds `lo` and `hi`, a `level` and the page above it, `up`.
  `Tree` says that a node's keys ascend and are within its bounds, that its children
  have the parts of them between its keys and are one level below, that leaves are at
  level 0 and begin where the one before in the chain ends. The witnesses of the
  next state are given explicitly: a split gives the new page the upper part of the old
  one's bounds (`SplitTree`), a split of the root puts a page between the root and its
  children, and all other pages keep what they have (`SplitRootTree`).
* `ThreadOK`: a descent is at a page within whose bounds its key is; an insertion that
  is about to split a child has room in the parent, and one that has let go of both halves
  finds that nobody has come to its half, because whoever does comes through the parent,
  which it has fixed.
* `LockedOK`, `DistinctOK`: only pages of the tree are fixed exclusively, and users'
  keys are distinct.

The conjuncts were checked with TLC before they were proved. From `Tree`, look-ups follow by
going up from the leaf to the root (`LeafForKey`), balance from `DepthIsLevel`, and the chain by
going along it with rising bounds (`ChainInOrder`). `LeafOf`, `Depth` and `ChainFrom` are
recursive functions; that there are such functions is proved by taking the least number for
which there would be none (`GoingDown`, `GoingOn`).

`BPlusTreeMapProofs` proves `TreeImplementsOrderedMap`, `Spec => ImplementsOrderedMap`,
for the same constants. `Entry(k, v)` says that some leaf has the entry; `TreeMap` is the
map of the entries (`TreeMapIs`), so that a step is known by what it does to them: a split
none (`RootSplitEntries`, `ChildSplitEntries`), an insertion one more, an erasure one
less. The bounds of `KInv` say that the leaf a descent has come to is the only one that
can have its key (`KeyIsHere`), and so what a look-up returns is what the map has.

A scan has no such moment, and an invariant of its own, `MInv` (`CallsAreInductive`):

* `Owes`: what the scan owes is still in front of the iterator, in its leaf or in a later
  one of the chain. This is said by look-ups: the iterator's page is the one for some key
  up to the one owed (`StartsBelow`), and the entries behind it in its leaf are less. Splits and changes of others do not disturb that, since they leave alone
  the leaf it has fixed and the keys it is for (`OthersRead`).
* `Passed`, `InRange`: the last entry and the start of the range are before what is
  left of its leaf, so that the next entry is greater than both (`ScanComesTo`).
* `OwedOK`: what is owed is in the map and in the range: an erasure takes its key out.

At the last leaf of the chain nothing can be owed any more (`NothingOwed`). The steps
that users see map to one step of `OrderedMap` each (`InsertSeen`, `EraseSeen`,
`LookupSeen`, `ScanNextSeen`, `EndScanSeen`, `BeginSeen`, ...), all others to none
(`DescentUnseen`, `SplitUnseen`, `LeafUnseen`, `IdleUnseen`). The data race of `Race`
ends a behaviour: what is proved is about what comes before it.

`QueryPlanProofs` proves, for every set of schemas, every contents of the two tables, any
registers and any number of openings (`SchemasAssumption`, `TablesAssumption`; by
`RegistersAssumption` the registers that the plan names exist, since the code indexes with
them unchecked, and none is projected twice, since the projection moves them out):

* `ReadingRestores`: `SchemaSpec => []SchemaIsRestored`, and the same of `QuerySpec`
* `PlanClosesScans`: `QuerySpec => []ScansAreClosed`, that no input stays open; no run checks it
* `PlanFollowsMatches`: `QuerySpec => []JoinIteratorIsValid`
* `PlanJoins`: `QuerySpec => []TuplesAreJoined`

The stream is a flattened sequence of sequences. `FlattenIsLaid` says where the parts
of such a sequence are in the whole, and that the recursive function by which the
library defines it exists (by `UpTo`, induction for a set of numbers); `StreamParts` and
`RelationFields` apply it to the relations and to the fields of one. `SchemaInv` then
says where the reader is: behind so many relations, or behind so many attributes of
the last one, with what was read equal to what was written. Of the plan, `PlanInv` keeps
two witnesses: `Table` maps the entries of the hash table one to one to the left tuples and
the openings that put them there, and `Progress` each row to the entry and the right tuple
it is of, one to one, onto all pairs that agree up to the right tuple the scan has come to,
without the matches that are left. When the right scan is at its end the second map is onto
all pairs, and the first one onto all left tuples and openings: so a row comes as often as
the pairs it is of, times the openings.

`ExternalSortProofs` proves, for every file in `Inputs`, every `RunSize` from 1 and every
`K` from 2 on (`SortAssumption`, which also has that `Nil` is no number and no file):

* `SortSorts`: `SortSpec => []OutputIsSorted`
* `PhasesReadRuns`: `SortSpec => []RunsAreSorted`
* `MergesAreOrdered`: `SortSpec => []MergeIsOrdered`

They follow from `SortInv` (`SortIsInductive`). That a file holds the numbers of another is
`Holds`, a one-to-one correspondence of their positions. A run that is sorted in memory
is stated by ranks (`Rank`: how many numbers come before this one); that ranks are the
positions, each taken once, is a pigeonhole argument (`RanksArePositions`), and that
ranks ascend gives `SortedIsAscending`. The output is compared with the sorted input,
which is right because there is only one ascending order of the same numbers (`OneOrder`).
Inside a merge, what was written is in correspondence with what the windows have given
up (`Windows`, `Taken`, `Merged`) and no greater than what any of them has next
(`NextIsInRun`). Inside a phase, the merges that are done have left runs of the next length
(`MergesDone`, `Runs`), the last one cut off by the end of the file; a phase of one merge
leaves one run, which is the whole file.

What stays with TLC: liveness under fairness, which this prover cannot do (calls of the
buffer manager and of the tree return, the phases of the sort end).

## What disagrees with the code's own words

See `findings` in `PROJECT.json`, where each has the lines that disagree:

* Buffer: the eviction of a page its own thread has fixed.
* Segments: the segments lost at a restart, after which a new segment inherits an old one's
  file.
* Slotted pages: the moved record shorter than a TID that is written over the slots; the
  look-up that a second move overtakes; the record that cannot be removed after it has moved.
* B+ tree: the leaf that is changed under a lock for reading.

Others are in the models as well but have no run of their own:

* `fixPage` retries without a bound: between the unlock after a load
  (`BufferManager.cpp:55`) and the lock for the caller two threads can evict each other's
  new page, each time. `FixCompletesAlone` is what remains true.
* The handle map is erased by descriptor instead of by segment (`FileManager.cpp:97`): the
  next `create` of a removed id fails the assertion of `FileManager.cpp:36`
  (`CreateSegmentFile` ends the process).
* `SegmentManager.hpp:21` says that the class "Manages concurrent access to creation,
  deletion and growth of segments", but it has no lock: two threads in `create` choose the
  same id, and `persist` reads the vector while another call changes it. The models, runs
  and theorems are for one administrator.
* Between the truncation of the file of segments and its writing none of them is stored
  (`SegmentManager.cpp:98-112`); `SegmentsSurviveRestart` asks for it, but is violated
  sooner by the constructor.
* A record shorter than a TID that has not moved can be neither updated nor moved
  (`SPPage.cpp:93`): the assertion fails.

## What is not modelled, and the plan

Left out of the modelled components: contents of metadata other than sizes, bulk
reads, short reads past the end of a file, failures of the operating system's calls
(they end the program in assertions), the hash that chooses a bucket, a second
writer in a slotted pages segment (two that enlarge it at once initialise a page
twice, and nothing in the code says that they may).

In the B+ tree: `visualize`, which prints it; the iterator that fixes its leaf
exclusively, which no caller asks for; equal keys; and the segment that `newPage`
enlarges after it has unfixed the meta node, which `SegmentManager` has for one
administrator only. In the operators: types of registers other than by their words,
a projection that names a register twice, and what a call of `next` does after it has
returned false. In the schema: comparison,
which only the test uses, and streams that fail. In the sort: failing system calls,
which end the program, the mapping of files into memory, and the width of the counter
of the runs' length (`run_mult`, an `int`; with `k` at 32 it is passed
only by a file of more than 2^30 runs). `hash/MurmurHash3.cpp` is
third-party code and a pure function on whose values no property depends.

What could follow:

1. Buffer and segments composed: removal of a segment with pages in the buffer.
2. A second writer in `SPSegment`, for what two that enlarge the segment at once do.
