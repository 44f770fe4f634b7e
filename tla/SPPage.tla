-------------------------------- MODULE SPPage ------------------------------
(***************************************************************************)
(* A slotted page (src/src/data/SPPage.cpp).  Slots grow from the header   *)
(* up, data grows from the end of the page down; a slot says where its     *)
(* item is.  An item is a record or, when the record was moved away, the   *)
(* TID of the place it moved to.  A record that was moved here has its     *)
(* original TID in front of it.                                            *)
(*                                                                         *)
(* A page is a value and an operation gives the page after it.  The bytes  *)
(* of an item are kept with its slot; ItemsApart says that no two items    *)
(* share bytes, without which that would be wrong.                         *)
(***************************************************************************)
EXTENDS Integers, SequencesExt, FiniteSets

CONSTANTS PageSize,
          HeaderSize,  \* sizeof(SPPage)
          SlotSize,    \* sizeof(SPSlot)
          TIDSize,     \* sizeof(TID), MINIMAL_RECORD_LENGTH too
          Lengths,     \* the lengths of records
          Tags,        \* what tells records of one length apart
          MaxPages,    \* bound: pages of a segment
          Nil          \* no record, no TID

ASSUME SizesAssumption ==
  /\ {PageSize, HeaderSize, SlotSize, TIDSize} \subseteq Nat \ {0}
  /\ PageSize > HeaderSize
\* An empty Record is none: lookup returns it when there is no record.
ASSUME LengthsAssumption == Lengths \subseteq Nat \ {0}
ASSUME PagesAssumption == MaxPages \in Nat \ {0}
ASSUME NilAssumption == Nil \notin [page : Nat, slot : Nat] \cup [length : Nat, tag : Tags]

PageIds == 0 .. MaxPages - 1

Records == [length : Lengths, tag : Tags]

\* Slots are numbered from 0; slot i is at position i + 1.  A page has no room for more.
SlotIds == 0 .. (PageSize - HeaderSize) \div (SlotSize + TIDSize) - 1

TIDs == [page : PageIds, slot : SlotIds]

SPSlots == [onPage : BOOLEAN, redirected : BOOLEAN, offset : Nat, length : Nat,
            item : Records \cup TIDs \cup {Nil}, original : TIDs \cup {Nil}]

SPPages == [slots : Seq(SPSlots), dataStart : Nat, freeSpace : Int]

\* A page of a file that has just been enlarged, before init: it has no free space.
ZeroPage == [slots |-> <<>>, dataStart |-> 0, freeSpace |-> 0]

\* init(pageSize)
InitialPage == [slots |-> <<>>, dataStart |-> PageSize, freeSpace |-> PageSize - HeaderSize]

IsFree(slot) == slot.offset = 0 /\ slot.length = 0

\* Every item has room for a TID.
Room(length) == IF length < TIDSize THEN TIDSize ELSE length

\* The room between the slots and the data.
Gap(p) == p.dataStart - HeaderSize - Len(p.slots) * SlotSize

HasFreeSpace(p, size) == p.freeSpace >= Room(size) + SlotSize /\ Gap(p) >= Room(size) + SlotSize

\* Mutant: the counter is asked, which knows nothing of the gaps between items.
HasUpdateSpaceCounted(p, size) == p.freeSpace >= Room(size)

HasUpdateSpace(p, size) == Gap(p) >= Room(size)

---------------------------------------------------------------------------
(* insert *)

Prefix(redirected) == IF redirected THEN TIDSize ELSE 0

InsertAssertion(p, record, redirected) ==
  HasFreeSpace(p, Room(record.length) + Prefix(redirected))

\* Mutant: the original TID takes no room.
InsertOverlapping(p, record, redirected, tid) ==
  LET offset == p.dataStart - Room(record.length) IN
  [slots |-> Append(p.slots, [onPage |-> TRUE, redirected |-> redirected, offset |-> offset,
                              length |-> record.length, item |-> record, original |-> tid]),
   dataStart |-> offset,
   freeSpace |-> p.freeSpace - SlotSize - Room(record.length) - Prefix(redirected)]

InsertRecord(p, record, redirected, tid) ==
  LET offset == p.dataStart - Room(record.length) IN
  [slots |-> Append(p.slots, [onPage |-> TRUE, redirected |-> redirected, offset |-> offset,
                              length |-> record.length, item |-> record, original |-> tid]),
   dataStart |-> offset - Prefix(redirected),
   freeSpace |-> p.freeSpace - SlotSize - Room(record.length) - Prefix(redirected)]

---------------------------------------------------------------------------
(* remove: the slot is free and stays, with its flags; nothing leads to its bytes. *)

Freed(slot) == [slot EXCEPT !.offset = 0, !.length = 0, !.item = Nil, !.original = Nil]

\* Mutant: the room of the original TID is not given back.
RemoveWithoutPrefix(p, i) ==
  LET slot == p.slots[i + 1] IN
  [slots |-> [p.slots EXCEPT ![i + 1] = Freed(slot)],
   dataStart |-> p.dataStart,
   freeSpace |-> p.freeSpace + SlotSize + Room(slot.length)]

RemoveSlot(p, i) ==
  LET slot == p.slots[i + 1] IN
  [slots |-> [p.slots EXCEPT ![i + 1] = Freed(slot)],
   dataStart |-> p.dataStart,
   freeSpace |-> p.freeSpace + SlotSize + Room(slot.length) + Prefix(slot.redirected)]

---------------------------------------------------------------------------
(* updateInPlace: the new item ends where the old one did. *)

UpdateInPlaceAssertion(slot, length) == slot.onPage /\ Room(length) <= slot.length

UpdateInPlace(p, i, item, length) ==
  LET slot == p.slots[i + 1]
      saved == slot.length - Room(length)
  IN
  [slots |-> [p.slots EXCEPT ![i + 1] =
                [slot EXCEPT !.offset = slot.offset + saved, !.length = length, !.item = item]],
   dataStart |-> p.dataStart,
   freeSpace |-> p.freeSpace + saved]

---------------------------------------------------------------------------
(* updateOnPage: the item, with its original TID, moves to the front of the data. *)

UpdateOnPage(p, i, record) ==
  LET slot == p.slots[i + 1]
      offset == p.dataStart - Room(record.length)
  IN
  [slots |-> [p.slots EXCEPT ![i + 1] =
                [slot EXCEPT !.offset = offset, !.length = record.length, !.item = record]],
   dataStart |-> offset - Prefix(slot.redirected),
   freeSpace |-> p.freeSpace + Room(slot.length) - Room(record.length)]

---------------------------------------------------------------------------
(* Properties of a page *)

LiveSlots(p) == {slot \in Range(p.slots) : ~IsFree(slot)}

\* Where the bytes of an item begin and end.
Begin(slot) == slot.offset - Prefix(slot.redirected)

End(slot) == slot.offset + Room(slot.length)

\* Items lie in the data area, which the slots do not reach, and share no bytes.
ItemsApart(p) ==
  /\ Gap(p) >= 0 /\ p.dataStart <= PageSize
  /\ \A slot \in LiveSlots(p) : p.dataStart <= Begin(slot) /\ End(slot) <= PageSize
  /\ \A i, j \in DOMAIN p.slots :
       i # j /\ ~IsFree(p.slots[i]) /\ ~IsFree(p.slots[j])
         => End(p.slots[i]) <= Begin(p.slots[j]) \/ End(p.slots[j]) <= Begin(p.slots[i])

\* What an item takes, with its slot.
ItemSpace(slot) == SlotSize + Room(slot.length) + Prefix(slot.redirected)

\* The bytes that slots and items in use take, by the positions of the slots.
SpaceInUse(p) ==
  UNION {{i} \X (1 .. ItemSpace(p.slots[i])) : i \in {j \in DOMAIN p.slots : ~IsFree(p.slots[j])}}

\* _freeSpace is what slots and items in use leave of the page, so that it never
\* wraps around below zero.
SpaceIsAccounted(p) == p.freeSpace = PageSize - HeaderSize - Cardinality(SpaceInUse(p))
=============================================================================
