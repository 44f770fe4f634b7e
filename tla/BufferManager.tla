---------------------------- MODULE BufferManager ---------------------------
(***************************************************************************)
(* The buffer manager (src/src/buffer/BufferManager.cpp): threads fix and  *)
(* unfix pages, a fixed page is in a memory slot, and slots are reused by  *)
(* evicting pages.  It composes the frame table, the frames' locks         *)
(* (BufferFrame) and the replacement queues (ReplacementManager).          *)
(*                                                                         *)
(* One action is the code between two points where another thread can      *)
(* interfere: a section under a bucket's mutex or under the replacement    *)
(* manager's mutex, the acquisition of a frame's lock, or work done while  *)
(* holding a frame exclusively.                                            *)
(***************************************************************************)
EXTENDS ReplacementManager, FiniteSets

CONSTANTS MaxFix,    \* bound: pages a thread fixes at a time
          MaxWrites  \* bound: writes to a page

ASSUME BoundsAssumption == MaxFix \in Nat \ {0} /\ MaxWrites \in Nat

\* The code asks for fewer threads than slots (BufferReplacementManager.cpp:19); as many do.
ASSUME ThreadsAssumption == IsFiniteSet(Threads) /\ Cardinality(Threads) <= Size

VARIABLES
  disk,      \* the page files
  mem,       \* the content of each slot
  table,     \* BufferFrameTable: the frame of each page, or Nil
  pc,        \* where a thread is in fixPage; "idle" outside
  request,   \* the arguments of fixPage
  frame,     \* local of fixPage
  created,   \* local of fixPage: newlyCreated
  node,      \* local of evictPage, then its result `data`
  victim,    \* local of evictPage: the frame of node
  readFix,   \* frames a thread has fixed for reading
  writeFix,  \* frames a thread has fixed for writing
  modified   \* those of writeFix it has written to

storeVars == <<disk, mem>>
localVars == <<request, frame, created, node, victim>>
userVars == <<readFix, writeFix, modified>>
vars == <<frameVars, lockVars, queueVars, storeVars, table, pc, localVars, userVars>>

\* A page's content: the page it belongs to and the number of writes to it.  Memory that
\* was never written to belongs to no page.
Values == (Pages \cup {Nil}) \X (0 .. MaxWrites)

Uninitialised == <<Nil, 0>>

Requests == [page : Pages, exclusive : BOOLEAN]

Labels == {"idle", "lookup", "evict", "evictLookup", "evictLock", "clean", "evictDelete",
           "evictUnlock", "load", "newFrame", "loadUnlock", "lock", "check"}

TypeOK ==
  /\ FrameTypeOK
  /\ QueueTypeOK
  /\ disk \in [Pages -> Values]
  /\ mem \in [Slots -> Values]
  /\ table \in [Pages -> Frames \cup {Nil}]
  /\ pc \in [Threads -> Labels]
  /\ request \in [Threads -> Requests \cup {Nil}]
  /\ frame \in [Threads -> Frames \cup {Nil}]
  /\ created \in [Threads -> BOOLEAN]
  /\ node \in [Threads -> Nodes \cup {Nil}]
  /\ victim \in [Threads -> Frames \cup {Nil}]
  /\ readFix \in [Threads -> SUBSET Frames]
  /\ writeFix \in [Threads -> SUBSET Frames]
  /\ modified \in [Threads -> SUBSET Frames]

Fixed(t) == readFix[t] \cup writeFix[t]

FixedPages(t) == {PageOf(f) : f \in Fixed(t)}

\* The frames a shared_ptr points to: the table's, the users', fixPage's and evictPage's.
Referenced ==
  {table[p] : p \in Pages}
    \cup UNION {Fixed(t) \cup {frame[t], victim[t]} : t \in Threads}

FreshFrames(p) == {f \in Frames \ Referenced : PageOf(f) = p}

\* The object allocated for page p: which of them it is does not matter.
NewFrameOf(p) == CHOOSE f \in FreshFrames(p) : TRUE

\* Objects nobody points to any more are destroyed: their fields mean nothing.
DestroyUnreferenced ==
  data' = [f \in Frames |-> IF f \in Referenced' THEN data[f] ELSE Nil]

---------------------------------------------------------------------------
Init ==
  /\ disk = [p \in Pages |-> <<p, 0>>]
  /\ FrameInit
  /\ QueueInit
  /\ mem = [s \in Slots |-> Uninitialised]
  /\ table = [p \in Pages |-> Nil]
  /\ pc = [t \in Threads |-> "idle"]
  /\ request = [t \in Threads |-> Nil]
  /\ frame = [t \in Threads |-> Nil]
  /\ created = [t \in Threads |-> FALSE]
  /\ node = [t \in Threads |-> Nil]
  /\ victim = [t \in Threads |-> Nil]
  /\ readFix = [t \in Threads |-> {}]
  /\ writeFix = [t \in Threads |-> {}]
  /\ modified = [t \in Threads |-> {}]

At(t, label) == pc[t] = label

Goto(t, label) == pc' = [pc EXCEPT ![t] = label]

---------------------------------------------------------------------------
(* fixPage *)

FixPage(t, p, ex) ==
  /\ At(t, "idle")
  /\ Cardinality(Fixed(t)) < MaxFix
  /\ p \notin FixedPages(t)
  /\ request' = [request EXCEPT ![t] = [page |-> p, exclusive |-> ex]]
  /\ Goto(t, "lookup")
  /\ UNCHANGED <<frameVars, lockVars, queueVars, storeVars, table, frame, created, node, victim,
                 userVars>>

\* The page has a frame: leave the bucket and go for the frame's lock.
LookupHit(t) ==
  LET f == table[request[t].page] IN
  /\ At(t, "lookup")
  /\ f # Nil
  /\ frame' = [frame EXCEPT ![t] = f]
  /\ created' = [created EXCEPT ![t] = FALSE]
  /\ Goto(t, "lock")
  /\ UNCHANGED <<frameVars, lockVars, queueVars, storeVars, table, request, node, victim, userVars>>

\* The page has none: insert a frame that is locked until its page is loaded.
LookupMiss(t) ==
  LET p == request[t].page
      f == NewFrameOf(p)
  IN
  /\ At(t, "lookup")
  /\ table[p] = Nil
  /\ FreshFrames(p) # {}
  /\ Construct(t, f)
  /\ ConstructQueueState(f)
  /\ table' = [table EXCEPT ![p] = f]
  /\ frame' = [frame EXCEPT ![t] = f]
  /\ created' = [created EXCEPT ![t] = TRUE]
  /\ Goto(t, "evict")
  /\ UNCHANGED <<fifo, lru, storeVars, request, node, victim, userVars>>

\* Mutant: setData is forgotten.
LoadWithoutSetData(t) ==
  /\ At(t, "load")
  /\ mem' = [mem EXCEPT ![node[t].slot] = disk[PageOf(frame[t])]]
  /\ Goto(t, "newFrame")
  /\ UNCHANGED <<frameVars, lockVars, queueVars, disk, table, localVars, userVars>>

\* setData and the read of the page into the slot evictPage returned.
Load(t) ==
  LET s == node[t].slot IN
  /\ At(t, "load")
  /\ data' = [data EXCEPT ![frame[t]] = s]
  /\ mem' = [mem EXCEPT ![s] = disk[PageOf(frame[t])]]
  /\ Goto(t, "newFrame")
  /\ UNCHANGED <<state, lockVars, queueVars, disk, table, localVars, userVars>>

EnqueueFrame(t) ==
  /\ At(t, "newFrame")
  /\ NewFrame(frame[t])
  /\ node' = [node EXCEPT ![t] = Nil]
  /\ Goto(t, "loadUnlock")
  /\ UNCHANGED <<frameVars, lockVars, storeVars, table, request, frame, created, victim, userVars>>

\* The loader gives the new frame up before it asks for the lock the caller wants.
LoadUnlock(t) ==
  /\ At(t, "loadUnlock")
  /\ Unlock(t, frame[t])
  /\ Goto(t, "lock")
  /\ UNCHANGED <<frameVars, queueVars, storeVars, table, localVars, userVars>>

LockFrame(t) ==
  /\ At(t, "lock")
  /\ Lock(t, frame[t], request[t].exclusive)
  /\ Goto(t, "check")
  /\ UNCHANGED <<frameVars, queueVars, storeVars, table, localVars, userVars>>

\* Mutant: the frame is returned though it may have been evicted.
ReturnUnchecked(t) ==
  LET f == frame[t] IN
  /\ At(t, "check")
  /\ IF created[t] THEN UNCHANGED queueVars ELSE Reprioritize(f)
  /\ IF request[t].exclusive
       THEN writeFix' = [writeFix EXCEPT ![t] = @ \cup {f}] /\ UNCHANGED readFix
       ELSE readFix' = [readFix EXCEPT ![t] = @ \cup {f}] /\ UNCHANGED writeFix
  /\ Goto(t, "idle")
  /\ request' = [request EXCEPT ![t] = Nil]
  /\ frame' = [frame EXCEPT ![t] = Nil]
  /\ created' = [created EXCEPT ![t] = FALSE]
  /\ UNCHANGED <<frameVars, lockVars, storeVars, table, node, victim, modified>>

\* Reprioritize a frame that was found; fixPage returns it unless it was evicted.
ReturnFrame(t) ==
  LET f == frame[t] IN
  /\ At(t, "check")
  /\ IF created[t] THEN UNCHANGED queueVars ELSE Reprioritize(f)
  /\ state[f] # "deleted"
  /\ IF request[t].exclusive
       THEN writeFix' = [writeFix EXCEPT ![t] = @ \cup {f}] /\ UNCHANGED readFix
       ELSE readFix' = [readFix EXCEPT ![t] = @ \cup {f}] /\ UNCHANGED writeFix
  /\ Goto(t, "idle")
  /\ request' = [request EXCEPT ![t] = Nil]
  /\ frame' = [frame EXCEPT ![t] = Nil]
  /\ created' = [created EXCEPT ![t] = FALSE]
  /\ UNCHANGED <<frameVars, lockVars, storeVars, table, node, victim, modified>>

\* It was evicted meanwhile: start again.
RetryFix(t) ==
  LET f == frame[t] IN
  /\ At(t, "check")
  /\ IF created[t] THEN UNCHANGED queueVars ELSE Reprioritize(f)
  /\ state[f] = "deleted"
  /\ Unlock(t, f)
  /\ Goto(t, "lookup")
  /\ frame' = [frame EXCEPT ![t] = Nil]
  /\ created' = [created EXCEPT ![t] = FALSE]
  /\ UNCHANGED <<state, storeVars, table, request, node, victim, userVars>>
  /\ DestroyUnreferenced

---------------------------------------------------------------------------
(* evictPage *)

\* Take the next node; a slot that no page uses needs no more work.
PopNode(t) ==
  /\ At(t, "evict")
  /\ EvictFrame
  /\ node' = [node EXCEPT ![t] = EvictionNode]
  /\ Goto(t, IF InUse(EvictionNode) THEN "evictLookup" ELSE "load")
  /\ UNCHANGED <<frameVars, lockVars, storeVars, table, request, frame, created, victim, userVars>>

\* Mutant: the frame leaves the table before it is written back.
EvictLookupDeleting(t) ==
  LET p == PageOf(node[t].frame) IN
  /\ At(t, "evictLookup")
  /\ table[p] # Nil
  /\ victim' = [victim EXCEPT ![t] = table[p]]
  /\ table' = [table EXCEPT ![p] = Nil]
  /\ Goto(t, "evictLock")
  /\ UNCHANGED <<frameVars, lockVars, queueVars, storeVars, request, frame, created, node,
                 userVars>>

\* Mutant: a frame in use is spared, always, and goes to the back of the queue.
EvictLookupSparing(t) ==
  /\ At(t, "evictLookup")
  /\ fifo' = Append(fifo, node[t])
  /\ queueState' = [queueState EXCEPT ![node[t].frame] = "fifo"]
  /\ node' = [node EXCEPT ![t] = Nil]
  /\ Goto(t, "evict")
  /\ UNCHANGED <<frameVars, lockVars, lru, storeVars, table, request, frame, created, victim,
                 userVars>>

EvictLookup(t) ==
  LET f == table[PageOf(node[t].frame)] IN
  /\ At(t, "evictLookup")
  /\ f # Nil
  /\ victim' = [victim EXCEPT ![t] = f]
  /\ Goto(t, "evictLock")
  /\ UNCHANGED <<frameVars, lockVars, queueVars, storeVars, table, request, frame, created, node,
                 userVars>>

\* Mutant: a shared lock is enough.
EvictLockShared(t) ==
  /\ At(t, "evictLock")
  /\ Lock(t, victim[t], FALSE)
  /\ Goto(t, "clean")
  /\ UNCHANGED <<frameVars, queueVars, storeVars, table, localVars, userVars>>

\* Mutant: no lock.
EvictWithoutLock(t) ==
  /\ At(t, "evictLock")
  /\ Goto(t, "clean")
  /\ UNCHANGED <<lockVars, frameVars, queueVars, storeVars, table, localVars, userVars>>

EvictLock(t) ==
  /\ At(t, "evictLock")
  /\ Lock(t, victim[t], TRUE)
  /\ Goto(t, "clean")
  /\ UNCHANGED <<frameVars, queueVars, storeVars, table, localVars, userVars>>

\* cleanFrame(frame): a dirty page is written to its file.
CleanFrame(f) ==
  disk' = IF state[f] = "dirty" THEN [disk EXCEPT ![PageOf(f)] = mem[data[f]]] ELSE disk

CleanVictim(t) ==
  LET f == victim[t] IN
  /\ At(t, "clean")
  /\ state[f] # "deleted"
  /\ CleanFrame(f)
  /\ state' = [state EXCEPT ![f] = "deleted"]
  /\ Goto(t, "evictDelete")
  /\ UNCHANGED <<data, lockVars, queueVars, mem, table, localVars, userVars>>

\* Mutant: the frame deleted is the one of the page being loaded.
EvictDeleteOwn(t) ==
  /\ At(t, "evictDelete")
  /\ table' = [table EXCEPT ![PageOf(frame[t])] = Nil]
  /\ Goto(t, "evictUnlock")
  /\ UNCHANGED <<frameVars, lockVars, queueVars, storeVars, localVars, userVars>>

\* Mutant: the frame stays in the table.
EvictWithoutDelete(t) ==
  /\ At(t, "evictDelete")
  /\ Goto(t, "evictUnlock")
  /\ UNCHANGED <<table, frameVars, lockVars, queueVars, storeVars, localVars, userVars>>

EvictDelete(t) ==
  /\ At(t, "evictDelete")
  /\ table' = [table EXCEPT ![PageOf(node[t].frame)] = Nil]
  /\ Goto(t, "evictUnlock")
  /\ UNCHANGED <<frameVars, lockVars, queueVars, storeVars, localVars, userVars>>

EvictUnlock(t) ==
  /\ At(t, "evictUnlock")
  /\ Unlock(t, victim[t])
  /\ victim' = [victim EXCEPT ![t] = Nil]
  /\ Goto(t, "load")
  /\ UNCHANGED <<state, queueVars, storeVars, table, request, frame, created, node, userVars>>
  /\ DestroyUnreferenced

---------------------------------------------------------------------------
(* The users, between fixPage and unfixPage *)

WritePage(t, f) ==
  LET s == data[f] IN
  /\ At(t, "idle")
  /\ f \in writeFix[t]
  /\ mem[s][2] < MaxWrites
  /\ mem' = [mem EXCEPT ![s][2] = @ + 1]
  /\ modified' = [modified EXCEPT ![t] = @ \cup {f}]
  /\ UNCHANGED <<frameVars, lockVars, queueVars, disk, table, pc, localVars, readFix, writeFix>>

\* unfixPage(frame, isDirty); users say isDirty at least when they wrote, and the tree says
\* it of pages it has fixed for reading as well.
UnfixPage(t, f, isDirty) ==
  /\ At(t, "idle")
  /\ f \in Fixed(t)
  /\ f \in modified[t] => isDirty
  /\ isDirty => state[f] # "deleted"
  /\ state' = IF isDirty THEN [state EXCEPT ![f] = "dirty"] ELSE state
  /\ Unlock(t, f)
  /\ readFix' = [readFix EXCEPT ![t] = @ \ {f}]
  /\ writeFix' = [writeFix EXCEPT ![t] = @ \ {f}]
  /\ modified' = [modified EXCEPT ![t] = @ \ {f}]
  /\ UNCHANGED <<queueVars, storeVars, table, pc, localVars>>
  /\ DestroyUnreferenced

\* ~BufferManager writes the dirty pages; the next BufferManager starts on the files.
\* Nobody uses the manager while it is destroyed.
Restart ==
  /\ \A t \in Threads : At(t, "idle") /\ Fixed(t) = {}
  /\ disk' = [p \in Pages |->
                IF table[p] # Nil /\ state[table[p]] = "dirty" THEN mem[data[table[p]]]
                                                              ELSE disk[p]]
  /\ FrameReset
  /\ QueueReset
  /\ mem' = [s \in Slots |-> Uninitialised]
  /\ table' = [p \in Pages |-> Nil]
  /\ UNCHANGED <<pc, localVars, userVars>>

---------------------------------------------------------------------------
\* A step of fixPage or evictPage that waits for no lock.
Advance(t) ==
  \/ LookupHit(t) \/ LookupMiss(t)
  \/ PopNode(t) \/ EvictLookup(t) \/ CleanVictim(t) \/ EvictDelete(t) \/ EvictUnlock(t)
  \/ Load(t) \/ EnqueueFrame(t) \/ LoadUnlock(t)
  \/ ReturnFrame(t) \/ RetryFix(t)

Unfix(t) == \E f \in Frames, isDirty \in BOOLEAN : UnfixPage(t, f, isDirty)

Next ==
  \/ \E t \in Threads :
       \/ \E p \in Pages, ex \in BOOLEAN : FixPage(t, p, ex)
       \/ Advance(t)
       \/ EvictLock(t)
       \/ LockFrame(t)
       \/ \E f \in Frames : WritePage(t, f)
       \/ Unfix(t)
  \/ Restart

Spec == Init /\ [][Next]_vars

\* Threads keep running and users give back what they fixed.  A thread that waits for
\* a frame's lock gets it if the lock is free again and again: boost::shared_mutex
\* stops new readers while a writer waits.
Fairness ==
  \A t \in Threads :
    /\ WF_vars(Advance(t))
    /\ SF_vars(EvictLock(t))
    /\ SF_vars(LockFrame(t))
    /\ WF_vars(Unfix(t))

FairSpec == Spec /\ Fairness

---------------------------------------------------------------------------
(* Safety *)

\* The replacement manager has a node for every thread that wants to evict: its
\* comment says the queues are not empty if there are fewer threads than slots, and
\* as many suffice.  (BufferReplacementManager.cpp:18-21)
EvictionFindsNode == \A t \in Threads : At(t, "evict") => EvictionQueue # <<>>

\* Where a queue holds a slot.
Places(q, s) == {i \in DOMAIN q : q[i].slot = s}

\* A slot is in one queue, once, or with one thread that is loading a page into it:
\* eviction neither loses memory nor gives it to two pages.
SlotHolders(s) ==
  ({"fifo"} \X Places(fifo, s))
    \cup ({"lru"} \X Places(lru, s))
    \cup ({"thread"} \X {t \in Threads : node[t] # Nil /\ node[t].slot = s})

SlotsHaveOneHolder == \A s \in Slots : Cardinality(SlotHolders(s)) = 1

\* The frame a queued node points to is the frame of its page in the table, it points
\* back to the node's slot and knows its queue.  The nodes hold raw pointers: a frame
\* that leaves the table before its node leaves the queue would dangle.
NodeIsCurrent(n, queue) ==
  InUse(n) => /\ table[PageOf(n.frame)] = n.frame
              /\ data[n.frame] = n.slot
              /\ queueState[n.frame] = queue

QueuedFramesAreCurrent ==
  /\ \A n \in Range(fifo) : NodeIsCurrent(n, "fifo")
  /\ \A n \in Range(lru) : NodeIsCurrent(n, "lru")

\* A page that is fixed stays: no eviction, by whichever thread, takes the frame away
\* from a user between fixPage and unfixPage.
FixedPagesStay ==
  \A t \in Threads : \A f \in Fixed(t) : table[PageOf(f)] = f /\ state[f] # "deleted"

\* The page file a thread is about to read or write, if any.
PageIO(t) ==
  CASE At(t, "load") -> {PageOf(frame[t])}
    [] At(t, "clean") /\ state[victim[t]] = "dirty" -> {PageOf(victim[t])}
    [] OTHER -> {}

\* No two threads read and write one page of a file at a time: the page is reloaded
\* only after it is written back, and a frame is written back by one thread.
OneIOPerPage == \A t, u \in Threads : t # u => PageIO(t) \cap PageIO(u) = {}

\* A user can give a page back as dirty: setDirty asserts that the frame is not deleted
\* (BufferFrame.hpp:51).
SetDirtyAssertion ==
  \A t \in Threads : \A f \in Fixed(t) : At(t, "idle") => state[f] # "deleted"

\* The assertions in the code of fixPage, evictPage and unfixPage hold.
AssertionsHold ==
  /\ \A t \in Threads : At(t, "evictLookup") => table[PageOf(node[t].frame)] # Nil
  /\ \A t \in Threads : At(t, "clean") => state[victim[t]] # "deleted"
  /\ SetDirtyAssertion
  /\ \A t \in Threads : At(t, "check") /\ ~created[t] =>
       CASE queueState[frame[t]] = "fifo" -> \E i \in DOMAIN fifo : fifo[i].frame = frame[t]
         [] queueState[frame[t]] = "lru" -> \E i \in DOMAIN lru : lru[i].frame = frame[t]
         [] OTHER -> TRUE
  \* The bound on frame objects keeps no thread waiting.
  /\ \A t \in Threads : At(t, "lookup") /\ table[request[t].page] = Nil =>
       FreshFrames(request[t].page) # {}

\* A page is not written back while a user has it fixed for writing: "must not write
\* it back before unfixPage is called" (BufferManager.hpp:55-56).
NoWriteBackWhileFixed ==
  [][\A t \in Threads : \A f \in writeFix[t] :
       disk'[PageOf(f)] = disk[PageOf(f)]]_vars

---------------------------------------------------------------------------
(* The promise to the users: the buffer manager implements PageStore. *)

\* What a page is worth now: the slot of its frame once loaded, else its file.
Content(p) ==
  IF table[p] # Nil /\ data[table[p]] # Nil THEN mem[data[table[p]]] ELSE disk[p]

Store == INSTANCE PageStore WITH
  content <- [p \in Pages |-> Content(p)],
  readers <- [p \in Pages |-> {t \in Threads : \E f \in readFix[t] : PageOf(f) = p}],
  writers <- [p \in Pages |-> {t \in Threads : \E f \in writeFix[t] : PageOf(f) = p}]

\* Readers and one writer exclude each other, nobody's write is lost or undone by an
\* eviction or by a restart, and no page shows another page's content.
ImplementsPageStore == Store!Spec

---------------------------------------------------------------------------
(* Liveness *)

\* A thread that has to load a page gets a slot and loads it, whatever the others do
\* with the page it evicts.
LoadCompletes == \A t \in Threads : At(t, "evict") ~> At(t, "lock")

\* fixPage returns if from some time on no other thread is in fixPage: its retry, after
\* an eviction between loading a page and locking it, needs another thread each time.  (With
\* one it may go on: two threads can evict each other's new page each time.)
FixCompletesAlone ==
  \A t \in Threads : \/ []<>At(t, "idle")
                     \/ []<>(\E u \in Threads \ {t} : ~At(u, "idle"))
=============================================================================
