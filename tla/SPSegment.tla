------------------------------ MODULE SPSegment -----------------------------
(***************************************************************************)
(* A segment of slotted pages (src/src/data/SPSegment.cpp and              *)
(* SPIterator.cpp): records are inserted, looked up, updated, removed and  *)
(* scanned.  A record that does not fit on its page any more moves to      *)
(* another one and leaves the TID of its new place behind.                 *)
(*                                                                         *)
(* The segment works on pages that the buffer manager fixes for it, as     *)
(* PageStore describes.  It fixes one page at a time: one action is what   *)
(* happens from a fixPage to its unfixPage, except in a scan, which keeps  *)
(* its page fixed for reading from one call of the iterator to the next.   *)
(***************************************************************************)
EXTENDS SPPage

CONSTANTS Writers,  \* threads that insert, update and remove
          Readers   \* threads that look up and scan

ASSUME ThreadsAssumption == Writers \cap Readers = {}

Threads == Writers \cup Readers

VARIABLES
  running,  \* FALSE when an assertion has failed
  pages,    \* the pages of the segment
  size,     \* the number of pages, as the segment manager has it
  pc,       \* where a thread is in an operation; "idle" outside
  op,       \* its arguments and locals
  scan,     \* the iterator of a reader
  due,      \* TIDs a scan has still to come to: there from its start and left alone since
  done,     \* TIDs it has come to: the same
  again     \* those of them it has come to twice

vars == <<running, pages, size, pc, op, scan, due, done, again>>
ghostVars == <<due, done, again>>

\* A thread's locals: the argument tid (Nil in insert) and record, the page where a search
\* is, the pages it knows of, and the TID of the place a record was moved to.
Ops == [tid : TIDs \cup {Nil}, record : Records \cup {Nil}, page : 0 .. MaxPages,
        bound : 0 .. MaxPages, moved : BOOLEAN, target : TIDs \cup {Nil}]

NoOp == [tid |-> Nil, record |-> Nil, page |-> 0, bound |-> 0, moved |-> FALSE, target |-> Nil]

\* The arguments of a call are not Nil.
ASSUME CallsAssumption == Nil \notin [tid : TIDs \cup {Nil}, record : Records]

\* fixed: the iterator has its page fixed.
Iterators == [page : 0 .. MaxPages, slot : {-1} \cup SlotIds, bound : 0 .. MaxPages,
              fixed : BOOLEAN]

\* An iterator is not Nil either.
ASSUME IteratorsAssumption == Nil \notin Iterators

TypeOK ==
  /\ running \in BOOLEAN
  /\ pages \in [PageIds -> SPPages]
  /\ size \in 0 .. MaxPages
  /\ pc \in [Threads -> {"idle", "moved", "search", "init", "place", "redirect", "lookup"}]
  /\ op \in [Threads -> Ops]
  /\ scan \in [Readers -> Iterators \cup {Nil}]
  /\ due \in [Readers -> SUBSET TIDs]
  /\ done \in [Readers -> SUBSET TIDs]
  /\ again \in [Readers -> SUBSET TIDs]

Init ==
  /\ running = TRUE
  /\ pages = [p \in PageIds |-> ZeroPage]
  /\ size = 0
  /\ pc = [t \in Threads |-> "idle"]
  /\ op = [t \in Threads |-> NoOp]
  /\ scan = [t \in Readers |-> Nil]
  /\ due = [t \in Readers |-> {}]
  /\ done = [t \in Readers |-> {}]
  /\ again = [t \in Readers |-> {}]

Slot(tid) == pages[tid.page].slots[tid.slot + 1]

HasSlot(tid) == tid.slot < Len(pages[tid.page].slots)

\* The TIDs that insert has returned.
Given == {tid \in TIDs : HasSlot(tid) /\ ~Slot(tid).redirected}

Holds(t, p) == scan[t] # Nil /\ scan[t].fixed /\ scan[t].page = p

\* fixPage(p, true) returns, and the page is as `new` says when it is unfixed.
FixExclusive(p) == \A t \in Readers : ~Holds(t, p)

Change(p, new) == FixExclusive(p) /\ pages' = [pages EXCEPT ![p] = new]

Goto(t, label) == pc' = [pc EXCEPT ![t] = label]

Return(t) == Goto(t, "idle") /\ op' = [op EXCEPT ![t] = NoOp]

\* An assertion fails and the program ends.
Abort == running' = FALSE /\ UNCHANGED <<pages, pc, op>>

\* Scans do not have to come to tid any more.
Touch(tid) ==
  /\ due' = [t \in Readers |-> due[t] \ {tid}]
  /\ done' = [t \in Readers |-> done[t] \ {tid}]
  /\ UNCHANGED again

---------------------------------------------------------------------------
(* searchFreeSpace, and the page->insert of its callers *)

\* What the search is for: the record, with its original TID if it moves.
NeededSpace(t) == op[t].record.length + Prefix(op[t].tid # Nil)

BeginSearch(t, o) ==
  /\ op' = [op EXCEPT ![t] = [o EXCEPT !.page = 0, !.bound = size]]
  /\ Goto(t, "search")

\* insert asserts that there is room; the record is inserted and the page unfixed.
Place(t, p) ==
  LET moves == op[t].tid # Nil
      new == [page |-> p, slot |-> Len(pages[p].slots)]
  IN
  IF InsertAssertion(pages[p], op[t].record, moves)
    THEN /\ Change(p, InsertRecord(pages[p], op[t].record, moves, op[t].tid))
         /\ IF moves
              THEN op' = [op EXCEPT ![t].target = new] /\ Goto(t, "redirect")
              ELSE Return(t)
         /\ UNCHANGED running
    ELSE FixExclusive(p) /\ Abort

\* The page has room: the search ends with it fixed.
SearchHit(t) ==
  /\ running /\ pc[t] = "search"
  /\ op[t].page < op[t].bound
  /\ HasFreeSpace(pages[op[t].page], NeededSpace(t))
  /\ Place(t, op[t].page)
  /\ UNCHANGED <<size, scan, ghostVars>>

SearchMiss(t) ==
  /\ running /\ pc[t] = "search"
  /\ op[t].page < op[t].bound
  /\ FixExclusive(op[t].page)
  /\ ~HasFreeSpace(pages[op[t].page], NeededSpace(t))
  /\ op' = [op EXCEPT ![t].page = @ + 1]
  /\ UNCHANGED <<running, pages, size, pc, scan, ghostVars>>

\* No page has room: the segment manager makes the segment a page longer, if it has not
\* got longer meanwhile.  (A segment this short grows by one page.)
AllocatePage(t) ==
  LET min == op[t].bound + 1 IN
  /\ running /\ pc[t] = "search"
  /\ op[t].page = op[t].bound
  /\ op[t].page < MaxPages
  /\ size' = IF size < min THEN min ELSE size
  /\ Goto(t, IF size < min THEN "init" ELSE "place")
  /\ UNCHANGED <<running, pages, op, scan, ghostVars>>

InitPage(t) ==
  /\ running /\ pc[t] = "init"
  /\ Change(op[t].page, InitialPage)
  /\ Goto(t, "place")
  /\ UNCHANGED <<running, size, op, scan, ghostVars>>

\* The page is fixed again and not asked whether it has room.
PlaceOnNew(t) ==
  /\ running /\ pc[t] = "place"
  /\ Place(t, op[t].page)
  /\ UNCHANGED <<size, scan, ghostVars>>

---------------------------------------------------------------------------
(* insert and update *)

Insert(t, r) ==
  /\ running /\ pc[t] = "idle"
  /\ BeginSearch(t, [NoOp EXCEPT !.record = r])
  /\ UNCHANGED <<running, pages, size, scan, ghostVars>>

\* update of a record that is on its page and stays there, in its old place if it is not
\* longer than before.
UpdateHere(t, tid, r) ==
  LET p == pages[tid.page] IN
  /\ running /\ pc[t] = "idle"
  /\ FixExclusive(tid.page)
  /\ ~IsFree(Slot(tid)) /\ Slot(tid).onPage
  /\ \/ /\ r.length <= Slot(tid).length
        /\ IF UpdateInPlaceAssertion(Slot(tid), r.length)
             THEN /\ Change(tid.page, UpdateInPlace(p, tid.slot, r, r.length))
                  /\ UNCHANGED <<running, pc, op>>
             ELSE Abort
     \/ /\ r.length > Slot(tid).length
        /\ HasUpdateSpace(p, r.length)
        /\ Change(tid.page, UpdateOnPage(p, tid.slot, r))
        /\ UNCHANGED <<running, pc, op>>
  /\ Touch(tid)
  /\ UNCHANGED <<size, scan>>

\* update of a record that has to move away ...
UpdateAway(t, tid, r) ==
  /\ running /\ pc[t] = "idle"
  /\ FixExclusive(tid.page)
  /\ ~IsFree(Slot(tid)) /\ Slot(tid).onPage
  /\ r.length > Slot(tid).length
  /\ ~HasUpdateSpace(pages[tid.page], r.length)
  /\ BeginSearch(t, [NoOp EXCEPT !.tid = tid, !.record = r])
  /\ Touch(tid)
  /\ UNCHANGED <<running, pages, size, scan>>

\* ... and of one that has moved already.
UpdateFollow(t, tid, r) ==
  /\ running /\ pc[t] = "idle"
  /\ FixExclusive(tid.page)
  /\ ~IsFree(Slot(tid)) /\ ~Slot(tid).onPage
  /\ op' = [op EXCEPT ![t] = [NoOp EXCEPT !.tid = tid, !.record = r, !.moved = TRUE,
                                          !.target = Slot(tid).item]]
  /\ Goto(t, "moved")
  /\ Touch(tid)
  /\ UNCHANGED <<running, pages, size, scan>>

\* Redirected records are where a redirection leads.
RedirectAssertion(tid) == ~IsFree(Slot(tid)) /\ Slot(tid).onPage /\ Slot(tid).redirected

\* Mutant: a record that moves again is left at its old place too.
UpdateMovedLeaving(t) ==
  LET tid == op[t].target
      r == op[t].record
      p == pages[tid.page]
  IN
  /\ running /\ pc[t] = "moved"
  /\ IF r.length <= Slot(tid).length
       THEN Change(tid.page, UpdateInPlace(p, tid.slot, r, r.length)) /\ Return(t)
       ELSE BeginSearch(t, op[t]) /\ UNCHANGED pages
  /\ UNCHANGED <<running, size, scan, ghostVars>>

\* The record stays where it moved to, or moves again.
UpdateMoved(t) ==
  LET tid == op[t].target
      r == op[t].record
      p == pages[tid.page]
      inPlace == r.length <= Slot(tid).length
      onPage == HasUpdateSpace(p, r.length + TIDSize)
  IN
  /\ running /\ pc[t] = "moved"
  /\ FixExclusive(tid.page)
  /\ IF RedirectAssertion(tid) /\ (inPlace => UpdateInPlaceAssertion(Slot(tid), r.length))
       THEN /\ \/ /\ inPlace
                  /\ Change(tid.page, UpdateInPlace(p, tid.slot, r, r.length))
                  /\ Return(t)
               \/ /\ ~inPlace /\ onPage
                  /\ Change(tid.page, UpdateOnPage(p, tid.slot, r))
                  /\ Return(t)
               \/ /\ ~inPlace /\ ~onPage
                  /\ Change(tid.page, RemoveSlot(p, tid.slot))
                  /\ BeginSearch(t, op[t])
            /\ UNCHANGED running
       ELSE Abort
  /\ UNCHANGED <<size, scan, ghostVars>>

\* Mutant: the old redirection is kept.
RedirectFirstOnly(t) ==
  LET tid == op[t].tid
      new == UpdateInPlace(pages[tid.page], tid.slot, op[t].target, TIDSize)
  IN
  /\ running /\ pc[t] = "redirect"
  /\ IF op[t].moved THEN UNCHANGED pages
                    ELSE Change(tid.page, [new EXCEPT !.slots[tid.slot + 1].onPage = FALSE])
  /\ Return(t)
  /\ UNCHANGED <<running, size, scan, ghostVars>>

\* Back on the original page, the slot leads to the new place.
Redirect(t) ==
  LET tid == op[t].tid
      slot == [Slot(tid) EXCEPT !.onPage = @ \/ op[t].moved]
      new == UpdateInPlace(pages[tid.page], tid.slot, op[t].target, TIDSize)
  IN
  /\ running /\ pc[t] = "redirect"
  /\ FixExclusive(tid.page)
  /\ IF UpdateInPlaceAssertion(slot, TIDSize)
       THEN /\ Change(tid.page, [new EXCEPT !.slots[tid.slot + 1].onPage = FALSE])
            /\ Return(t) /\ UNCHANGED running
       ELSE Abort
  /\ UNCHANGED <<size, scan, ghostVars>>

---------------------------------------------------------------------------
(* remove *)

\* After page->remove the slot's length is 0: if the record has moved away,
\* getRedirectedTID finds that it is not that of a TID, and its assertion fails.
RemoveRecord(t, tid) ==
  LET p == RemoveSlot(pages[tid.page], tid.slot) IN
  /\ running /\ pc[t] = "idle"
  /\ ~IsFree(Slot(tid))
  /\ FixExclusive(tid.page)
  /\ \/ Slot(tid).onPage /\ Change(tid.page, p) /\ UNCHANGED <<running, pc, op>>
     \/ ~Slot(tid).onPage /\ p.slots[tid.slot + 1].length # TIDSize /\ Abort
  /\ Touch(tid)
  /\ UNCHANGED <<size, scan>>

---------------------------------------------------------------------------
(* lookup: it leaves the page if the record has moved away.  In the model a thread   *)
(* does not look records up in the middle of a scan.                                 *)

LookupFollow(t, tid) ==
  /\ running /\ pc[t] = "idle" /\ scan[t] = Nil
  /\ ~IsFree(Slot(tid)) /\ ~Slot(tid).onPage
  /\ op' = [op EXCEPT ![t] = [NoOp EXCEPT !.tid = tid, !.target = Slot(tid).item]]
  /\ Goto(t, "lookup")
  /\ UNCHANGED <<running, pages, size, scan, ghostVars>>

LookupMoved(t) ==
  /\ running /\ pc[t] = "lookup"
  /\ IF RedirectAssertion(op[t].target)
       THEN Return(t) /\ UNCHANGED <<running, pages>>
       ELSE Abort
  /\ UNCHANGED <<size, scan, ghostVars>>

---------------------------------------------------------------------------
(* The iterator *)

\* Records that no update has in hand.
Settled == {tid \in Given : ~IsFree(Slot(tid)) /\ \A t \in Writers : op[t].tid # tid}

BeginScan(t) ==
  /\ running /\ pc[t] = "idle"
  /\ scan[t] = Nil
  /\ size > 0
  /\ scan' = [scan EXCEPT ![t] = [page |-> 0, slot |-> -1, bound |-> size, fixed |-> TRUE]]
  /\ due' = [due EXCEPT ![t] = Settled]
  /\ UNCHANGED <<running, pages, size, pc, op, done, again>>

\* Mutant: redirected records are skipped.
AheadUnmoved(t) ==
  LET slots == pages[scan[t].page].slots IN
  {i \in SlotIds : /\ i > scan[t].slot /\ i < Len(slots)
                   /\ ~IsFree(slots[i + 1]) /\ slots[i + 1].onPage /\ ~slots[i + 1].redirected}

\* The slots of the page, after the current one, that have a record.
Ahead(t) ==
  LET slots == pages[scan[t].page].slots IN
  {i \in SlotIds : /\ i > scan[t].slot /\ i < Len(slots)
                   /\ ~IsFree(slots[i + 1]) /\ slots[i + 1].onPage}

ScanNext(t) ==
  /\ running /\ scan[t] # Nil /\ scan[t].fixed
  /\ Ahead(t) # {}
  /\ LET i == Min(Ahead(t))
         slot == pages[scan[t].page].slots[i + 1]
         tid == IF slot.redirected THEN slot.original ELSE [page |-> scan[t].page, slot |-> i]
     IN
     /\ scan' = [scan EXCEPT ![t].slot = i]
     /\ due' = [due EXCEPT ![t] = @ \ {tid}]
     /\ done' = [done EXCEPT ![t] = IF tid \in due[t] THEN @ \cup {tid} ELSE @]
     /\ again' = [again EXCEPT ![t] = IF tid \in done[t] THEN @ \cup {tid} ELSE @]
  /\ UNCHANGED <<running, pages, size, pc, op>>

\* No record is left on the page ...
ScanUnfix(t) ==
  /\ running /\ scan[t] # Nil /\ scan[t].fixed
  /\ Ahead(t) = {}
  /\ scan' = [scan EXCEPT ![t].page = @ + 1, ![t].slot = -1, ![t].fixed = FALSE]
  /\ UNCHANGED <<running, pages, size, pc, op, ghostVars>>

\* ... and the next one is fixed.
ScanFix(t) ==
  /\ running /\ scan[t] # Nil /\ ~scan[t].fixed
  /\ scan[t].page < scan[t].bound
  /\ scan' = [scan EXCEPT ![t].fixed = TRUE]
  /\ UNCHANGED <<running, pages, size, pc, op, ghostVars>>

\* The iterator is destroyed, at its end or before.
EndScan(t) ==
  /\ running /\ scan[t] # Nil
  /\ scan[t].fixed \/ scan[t].page = scan[t].bound
  /\ scan' = [scan EXCEPT ![t] = Nil]
  /\ due' = [due EXCEPT ![t] = {}]
  /\ done' = [done EXCEPT ![t] = {}]
  /\ again' = [again EXCEPT ![t] = {}]
  /\ UNCHANGED <<running, pages, size, pc, op>>

---------------------------------------------------------------------------
Search(t) == SearchHit(t) \/ SearchMiss(t) \/ AllocatePage(t) \/ InitPage(t) \/ PlaceOnNew(t)

Update(t, tid, r) == UpdateHere(t, tid, r) \/ UpdateAway(t, tid, r) \/ UpdateFollow(t, tid, r)

Scan(t) == BeginScan(t) \/ ScanNext(t) \/ ScanUnfix(t) \/ ScanFix(t) \/ EndScan(t)

Next ==
  \/ \E t \in Writers :
       \/ \E r \in Records : Insert(t, r) \/ \E tid \in Given : Update(t, tid, r)
       \/ \E tid \in Given : RemoveRecord(t, tid)
       \/ Search(t) \/ UpdateMoved(t) \/ Redirect(t)
  \/ \E t \in Readers :
       \/ \E tid \in Given : LookupFollow(t, tid)
       \/ LookupMoved(t)
       \/ Scan(t)

Spec == Init /\ [][Next]_vars

---------------------------------------------------------------------------
(* Properties *)

\* Records on a page do not overwrite each other, their original TIDs or the slots, after
\* any sequence of insertions, moves, updates and removals (SPPage.cpp).  It does not hold
\* when a record that has moved was shortened below a TID's length and grows again, still
\* below it: update asks for its length and a TID (SPSegment.cpp:173), and updateOnPage
\* takes two TIDs (SPPage.cpp:118-131).
PagesAreSound == \A p \in PageIds : pages[p] # ZeroPage => ItemsApart(pages[p])

\* The counter of free space is right on every page.
FreeSpaceIsRight == \A p \in PageIds : pages[p] # ZeroPage => SpaceIsAccounted(pages[p])

\* A record a scan finds from start to end unchanged is found once, and none is missed,
\* while other records grow, shrink, move and go.
ScansAreExact ==
  \A t \in Readers : /\ again[t] = {}
                     /\ scan[t] # Nil /\ scan[t].page = scan[t].bound => due[t] = {}

\* The thread that has taken tid's record away from where it had moved to.
Moving(tid) == {t \in Writers : op[t].tid = tid /\ op[t].moved /\ pc[t] # "moved"}

\* The record of a TID.
Value(tid) ==
  CASE tid \notin Given \/ IsFree(Slot(tid)) -> Nil
    [] OTHER -> IF Moving(tid) # {} THEN op[CHOOSE t \in Moving(tid) : TRUE].record
                ELSE IF Slot(tid).onPage THEN Slot(tid).item
                ELSE Slot(Slot(tid).item).item

Store == INSTANCE RecordStore WITH
  Threads <- Writers,
  record <- [tid \in TIDs |-> Value(tid)],
  given <- Given,
  call <- [t \in Writers |-> IF pc[t] = "idle" THEN Nil
                             ELSE [tid |-> op[t].tid, record |-> op[t].record]]

\* The segment implements RecordStore: a TID leads to its last record through any number
\* of moves, no operation changes another TID's record and no TID is given twice.
ImplementsRecordStore == Store!Spec

\* The record that t's lookup is on its way to has been taken away from there by an update.
Overtaken(t) == Moving(op[t].tid) # {} \/ Slot(op[t].tid).item # op[t].target

\* A lookup that has left the page of its TID (SPSegment.cpp:84) comes to that TID's record,
\* as it is now; if an update has overtaken it, it comes to a free slot, on which its
\* assertion fails, and never to another record that has got the place since.
LookupFindsRecord ==
  \A t \in Readers : pc[t] = "lookup" =>
    IF Overtaken(t) THEN IsFree(Slot(op[t].target))
                    ELSE /\ RedirectAssertion(op[t].target)
                         /\ Slot(op[t].target).item = Value(op[t].tid)

\* "assert(!slot->isFree() && slot->isOnPage() && slot->isRedirected())" (SPSegment.cpp:91):
\* there is a record where lookup follows a redirection to.  It does not hold if an update
\* moves the record again after lookup has given up the page of the redirection.
LookupAssertion == [][(\E t \in Readers : LookupMoved(t)) => running']_vars

\* "assert(slot->length() == sizeof (TID))" (SPPage.hpp:67): a record that exists can be
\* removed.  It does not hold for one that has moved.
RemoveAssertion ==
  [][(\E t \in Writers, tid \in Given : RemoveRecord(t, tid)) => running']_vars
=============================================================================
