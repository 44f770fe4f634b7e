--------------------------- MODULE SPSegmentProofs --------------------------
(***************************************************************************)
(* Proofs about SPPage and SPSegment.  The operations on a slotted page    *)
(* keep its items apart, for every page size and all lengths of records,   *)
(* as long as what they assert or what their callers ask before holds.     *)
(* In a segment with one writer, any number of readers and records no      *)
(* shorter than a TID, types are kept, pages stay sound and their free     *)
(* space counted; redirections lead to their records and back, look-ups    *)
(* and scans find what they should, and the segment implements             *)
(* RecordStore.                                                            *)
(***************************************************************************)
EXTENDS SPSegment, TLAPS, WellFoundedInduction, FiniteSetTheorems

---------------------------------------------------------------------------
(* Pages *)

\* ItemsApart, slot by slot: all slots begin below all data, and two items in use end
\* and begin apart.
InPage(p, slot) ==
  IsFree(slot) \/ (p.dataStart <= Begin(slot) /\ End(slot) <= PageSize)

Apart(s, u) == IsFree(s) \/ IsFree(u) \/ End(s) <= Begin(u) \/ End(u) <= Begin(s)

Sound(p) ==
  /\ Gap(p) >= 0 /\ p.dataStart <= PageSize
  /\ \A i \in DOMAIN p.slots : InPage(p, p.slots[i])
  /\ \A i, j \in DOMAIN p.slots : i # j => Apart(p.slots[i], p.slots[j])

\* The two forms are the same.
LEMMA SoundIsItemsApart ==
  ASSUME NEW p \in SPPages
  PROVE  Sound(p) <=> ItemsApart(p)
<1>1. Range(p.slots) = {p.slots[i] : i \in DOMAIN p.slots}
  BY DEF Range
<1>2. (\A slot \in LiveSlots(p) : p.dataStart <= Begin(slot) /\ End(slot) <= PageSize)
        <=> \A i \in DOMAIN p.slots : InPage(p, p.slots[i])
  BY <1>1 DEF LiveSlots, InPage
<1> QED
  BY <1>2 DEF Sound, ItemsApart, Apart

\* An item has a size: the minimum or more, and its bounds are integers.
LEMMA SlotNumbers ==
  ASSUME NEW slot \in SPSlots
  PROVE  /\ Room(slot.length) \in Nat /\ Room(slot.length) >= slot.length
         /\ Room(slot.length) >= TIDSize
         /\ Prefix(slot.redirected) \in Nat
         /\ Begin(slot) \in Int /\ End(slot) \in Int /\ Begin(slot) <= End(slot)
BY SizesAssumption DEF SPSlots, Room, Prefix, Begin, End

LEMMA RoomNumber ==
  ASSUME NEW n \in Nat
  PROVE  Room(n) \in Nat /\ Room(n) >= n /\ Room(n) >= TIDSize
BY SizesAssumption DEF Room

\* An item that fits between the slots and the data, next to them.
LEMMA RoomBelow ==
  ASSUME NEW dataStart \in Nat, NEW header \in Nat \ {0}, NEW taken \in Nat,
         NEW room \in Nat, NEW prefix \in Nat, room > 0,
         dataStart - header - taken >= room + prefix
  PROVE  /\ dataStart - room \in Nat /\ dataStart - room > 0
         /\ dataStart - room - prefix \in Nat
         /\ dataStart - room - prefix - header - taken >= 0
         /\ dataStart - room - prefix <= dataStart
         /\ dataStart - room + room = dataStart
OBVIOUS

\* A page of which slot k becomes `slot`, whose item lies in the data area and apart from
\* the others, is sound.
LEMMA ReplaceSlot ==
  ASSUME NEW p \in SPPages, Sound(p),
         NEW q \in SPPages,
         NEW k \in DOMAIN p.slots, NEW slot \in SPSlots,
         q.slots = [p.slots EXCEPT ![k] = slot],
         q.dataStart <= p.dataStart, Gap(q) >= 0,
         InPage(q, slot),
         \A i \in DOMAIN p.slots : i # k => Apart(p.slots[i], slot)
  PROVE  Sound(q)
<1>1. p.slots \in Seq(SPSlots) /\ DOMAIN q.slots = DOMAIN p.slots
  BY DEF SPPages
<1>2. ASSUME NEW i \in DOMAIN q.slots
      PROVE  InPage(q, q.slots[i])
  <2>1. CASE i = k
    BY <1>1, <2>1
  <2>2. CASE i # k
    <3>1. q.slots[i] = p.slots[i] /\ p.slots[i] \in SPSlots /\ InPage(p, p.slots[i])
      BY <1>1, <2>2 DEF Sound
    <3>2. Begin(p.slots[i]) \in Int
      BY <3>1, SlotNumbers
    <3>3. p.dataStart \in Int /\ q.dataStart \in Int
      BY DEF SPPages
    <3> QED
      BY <3>1, <3>2, <3>3 DEF InPage
  <2> QED
    BY <2>1, <2>2
<1>3. ASSUME NEW i \in DOMAIN q.slots, NEW j \in DOMAIN q.slots, i # j
      PROVE  Apart(q.slots[i], q.slots[j])
  <2>1. CASE i # k /\ j # k
    BY <1>1, <1>3, <2>1 DEF Sound
  <2>2. CASE i = k
    BY <1>1, <1>3, <2>2 DEF Apart
  <2>3. CASE j = k
    BY <1>1, <1>3, <2>3 DEF Apart
  <2> QED
    BY <2>1, <2>2, <2>3
<1>4. q.dataStart <= PageSize
  BY SizesAssumption DEF Sound, SPPages
<1> QED
  BY <1>2, <1>3, <1>4 DEF Sound

\* An item below all data is apart from every item of the page.
LEMMA BelowIsApart ==
  ASSUME NEW p \in SPPages, Sound(p), NEW i \in DOMAIN p.slots, NEW slot \in SPSlots,
         End(slot) <= p.dataStart
  PROVE  Apart(p.slots[i], slot)
<1>1. p.slots[i] \in SPSlots /\ p.dataStart \in Int /\ InPage(p, p.slots[i])
  BY DEF SPPages, Sound
<1>2. Begin(p.slots[i]) \in Int /\ End(slot) \in Int
  BY <1>1, SlotNumbers
<1> QED
  BY <1>1, <1>2 DEF Apart, InPage

---------------------------------------------------------------------------
\* init gives a page without items.
THEOREM InitialPageIsSound == InitialPage \in SPPages /\ ItemsApart(InitialPage)
<1>1. InitialPage \in SPPages
  BY SizesAssumption DEF InitialPage, SPPages
<1>2. Sound(InitialPage)
  BY SizesAssumption DEF InitialPage, Sound, Gap
<1> QED
  BY <1>1, <1>2, SoundIsItemsApart

\* insert, under its assertion, writes over no item, no slot and nothing outside of the
\* page.
THEOREM InsertKeepsItemsApart ==
  ASSUME NEW p \in SPPages, ItemsApart(p),
         NEW record \in Records, NEW redirected \in BOOLEAN, NEW tid \in TIDs \cup {Nil},
         InsertAssertion(p, record, redirected)
  PROVE  /\ InsertRecord(p, record, redirected, tid) \in SPPages
         /\ ItemsApart(InsertRecord(p, record, redirected, tid))
<1> DEFINE q == InsertRecord(p, record, redirected, tid)
           slot == [onPage |-> TRUE, redirected |-> redirected,
                    offset |-> p.dataStart - Room(record.length),
                    length |-> record.length, item |-> record, original |-> tid]
           n == Len(p.slots) + 1
<1>1. /\ p.slots \in Seq(SPSlots) /\ p.dataStart \in Nat /\ p.freeSpace \in Int
      /\ Len(p.slots) \in Nat
  BY DEF SPPages
<1>2. record.length \in Nat
  BY LengthsAssumption DEF Records
<1>3. Room(record.length) \in Nat /\ Prefix(redirected) \in Nat /\ Room(record.length) >= TIDSize
  BY <1>2, RoomNumber, SizesAssumption DEF Prefix
<1>4. Gap(p) >= Room(record.length) + Prefix(redirected) + SlotSize
  <2>1. Room(Room(record.length) + Prefix(redirected)) \in Nat
        /\ Room(Room(record.length) + Prefix(redirected)) >= Room(record.length) + Prefix(redirected)
    BY <1>3, RoomNumber
  <2>2. Gap(p) >= Room(Room(record.length) + Prefix(redirected)) + SlotSize
    BY DEF InsertAssertion, HasFreeSpace
  <2>3. Gap(p) \in Int /\ SlotSize \in Nat
    BY <1>1, SizesAssumption DEF Gap
  <2> QED
    BY <1>3, <2>1, <2>2, <2>3
<1>5. p.dataStart - HeaderSize - Len(p.slots) * SlotSize
        >= Room(record.length) + Prefix(redirected) + SlotSize
  BY <1>4 DEF Gap
<1>6. Len(p.slots) * SlotSize \in Nat /\ n * SlotSize = Len(p.slots) * SlotSize + SlotSize
  BY <1>1, SizesAssumption
<1> DEFINE room == Room(record.length)
           prefix == Prefix(redirected)
           taken == Len(p.slots) * SlotSize
           given == n * SlotSize
           data == p.dataStart
<1>a. /\ data \in Nat /\ room \in Nat /\ room > 0 /\ prefix \in Nat /\ taken \in Nat
      /\ given = taken + SlotSize /\ SlotSize \in Nat /\ HeaderSize \in Nat \ {0}
      /\ data - HeaderSize - taken >= room + prefix + SlotSize
  BY <1>1, <1>3, <1>5, <1>6, SizesAssumption
<1>7. /\ p.dataStart - room \in Nat
      /\ p.dataStart - room - prefix \in Nat
      /\ p.dataStart - room > 0
      /\ p.dataStart - room - prefix - HeaderSize - given >= 0
  <2>1. given \in Nat /\ data - HeaderSize - given >= room + prefix
    <3> HIDE DEF data, room, prefix, taken, given
    <3> QED
      BY <1>a
  <2> HIDE DEF data, room, prefix, taken, given
  <2>2. /\ data - room \in Nat /\ data - room > 0 /\ data - room - prefix \in Nat
        /\ data - room - prefix - HeaderSize - given >= 0
    BY <1>a, <2>1, RoomBelow
  <2> QED
    BY <2>2 DEF data
<1>8. slot \in SPSlots
  BY <1>2, <1>7 DEF SPSlots
<1>9. /\ q.slots = Append(p.slots, slot)
      /\ q.dataStart = p.dataStart - Room(record.length) - Prefix(redirected)
      /\ q.freeSpace = p.freeSpace - SlotSize - Room(record.length) - Prefix(redirected)
      /\ q = [slots |-> q.slots, dataStart |-> q.dataStart, freeSpace |-> q.freeSpace]
  BY DEF InsertRecord
<1>10. q \in SPPages
  <2>1. q.slots \in Seq(SPSlots)
    BY <1>1, <1>8, <1>9
  <2>2. q.freeSpace \in Int
    BY <1>1, <1>3, <1>9, SizesAssumption
  <2> HIDE DEF q
  <2> QED
    BY <1>7, <1>9, <2>1, <2>2 DEF SPPages
<1>11. /\ DOMAIN q.slots = 1 .. n /\ DOMAIN p.slots = 1 .. Len(p.slots) /\ Len(q.slots) = n
       /\ q.slots[n] = slot
       /\ \A i \in 1 .. Len(p.slots) : q.slots[i] = p.slots[i]
  BY <1>1, <1>8, <1>9
<1>12. Gap(q) >= 0
  BY <1>7, <1>9, <1>11 DEF Gap
<1>13. Sound(p)
  BY SoundIsItemsApart
<1>14. /\ Begin(slot) = q.dataStart /\ End(slot) = p.dataStart /\ ~IsFree(slot)
       /\ q.dataStart \in Nat /\ q.dataStart <= p.dataStart
  BY <1>1, <1>3, <1>7, <1>9 DEF Begin, End, IsFree
<1> HIDE DEF q, slot
<1>15. ASSUME NEW i \in 1 .. Len(p.slots)
       PROVE  InPage(q, p.slots[i]) /\ Apart(p.slots[i], slot)
  <2>1. p.slots[i] \in SPSlots /\ InPage(p, p.slots[i])
    BY <1>1, <1>11, <1>13 DEF Sound
  <2>2. Begin(p.slots[i]) \in Int
    BY <2>1, SlotNumbers
  <2>3. Apart(p.slots[i], slot)
    BY <1>1, <1>8, <1>11, <1>13, <1>14, BelowIsApart
  <2> QED
    BY <1>1, <1>14, <2>1, <2>2, <2>3 DEF InPage
<1>16. q.dataStart <= PageSize /\ InPage(q, slot)
  BY <1>1, <1>13, <1>14, SizesAssumption DEF InPage, Sound
<1>17. \A i \in 1 .. n : i = n \/ i \in 1 .. Len(p.slots)
  BY <1>1
<1>18. \A i \in DOMAIN q.slots : InPage(q, q.slots[i])
  BY <1>11, <1>15, <1>16, <1>17
<1>19. ASSUME NEW i \in DOMAIN q.slots, NEW j \in DOMAIN q.slots, i # j
       PROVE  Apart(q.slots[i], q.slots[j])
  <2>1. CASE i = n
    BY <1>11, <1>15, <1>17, <1>19, <2>1 DEF Apart
  <2>2. CASE j = n
    BY <1>11, <1>15, <1>17, <1>19, <2>2 DEF Apart
  <2>3. CASE i # n /\ j # n
    BY <1>11, <1>13, <1>17, <1>19, <2>3 DEF Sound
  <2> QED
    BY <2>1, <2>2, <2>3
<1>20. Sound(q)
  BY <1>12, <1>16, <1>18, <1>19 DEF Sound
<1>21. ItemsApart(q)
  BY <1>10, <1>20, SoundIsItemsApart
<1> QED
  BY <1>10, <1>21 DEF q

\* remove frees a slot and leaves the others.
THEOREM RemoveKeepsItemsApart ==
  ASSUME NEW p \in SPPages, ItemsApart(p), NEW i \in Nat, i < Len(p.slots)
  PROVE  RemoveSlot(p, i) \in SPPages /\ ItemsApart(RemoveSlot(p, i))
<1> DEFINE q == RemoveSlot(p, i)
           old == p.slots[i + 1]
           slot == Freed(old)
<1>1. /\ p.slots \in Seq(SPSlots) /\ p.dataStart \in Nat /\ p.freeSpace \in Int
      /\ i + 1 \in DOMAIN p.slots /\ old \in SPSlots
      /\ p = [slots |-> p.slots, dataStart |-> p.dataStart, freeSpace |-> p.freeSpace]
  BY DEF SPPages
<1>2. slot \in SPSlots /\ IsFree(slot)
  BY <1>1 DEF SPSlots, Freed, IsFree
<1>3. /\ q.slots = [p.slots EXCEPT ![i + 1] = slot]
      /\ q.dataStart = p.dataStart
      /\ q = [slots |-> q.slots, dataStart |-> q.dataStart, freeSpace |-> q.freeSpace]
      /\ q.freeSpace = p.freeSpace + SlotSize + Room(old.length) + Prefix(old.redirected)
  BY <1>1 DEF RemoveSlot
<1>4. q.freeSpace \in Int
  BY <1>1, <1>3, SlotNumbers, SizesAssumption
<1> HIDE DEF q, slot
<1>5. q.slots \in Seq(SPSlots) /\ Len(q.slots) = Len(p.slots)
  BY <1>1, <1>2, <1>3
<1>6. q \in SPPages
  BY <1>1, <1>3, <1>4, <1>5 DEF SPPages
<1>7. Sound(p)
  BY SoundIsItemsApart
<1>8. Gap(q) >= 0
  BY <1>3, <1>5, <1>7 DEF Gap, Sound
<1>9. Sound(q)
  BY <1>1, <1>2, <1>3, <1>6, <1>7, <1>8, ReplaceSlot DEF InPage, Apart
<1> QED
  BY <1>6, <1>9, SoundIsItemsApart DEF q

\* updateInPlace, when the new item has the room that its assertion asks for, writes where
\* the old item was.
THEOREM UpdateInPlaceKeepsItemsApart ==
  ASSUME NEW p \in SPPages, ItemsApart(p), NEW i \in Nat, i < Len(p.slots),
         NEW item \in Records \cup TIDs, NEW length \in Nat,
         Room(length) <= p.slots[i + 1].length
  PROVE  /\ UpdateInPlace(p, i, item, length) \in SPPages
         /\ ItemsApart(UpdateInPlace(p, i, item, length))
<1> DEFINE q == UpdateInPlace(p, i, item, length)
           old == p.slots[i + 1]
           saved == old.length - Room(length)
           slot == [old EXCEPT !.offset = old.offset + saved, !.length = length, !.item = item]
<1>1. /\ p.slots \in Seq(SPSlots) /\ p.dataStart \in Nat /\ p.freeSpace \in Int
      /\ i + 1 \in DOMAIN p.slots /\ old \in SPSlots
      /\ p = [slots |-> p.slots, dataStart |-> p.dataStart, freeSpace |-> p.freeSpace]
  BY DEF SPPages
<1>2. /\ old.length \in Nat /\ old.offset \in Nat /\ Room(length) \in Nat
      /\ Room(length) >= TIDSize /\ saved \in Nat /\ old.length > 0
  BY <1>1, RoomNumber, SizesAssumption DEF SPSlots
<1>3. /\ slot \in SPSlots /\ slot.offset = old.offset + saved /\ slot.length = length
      /\ slot.redirected = old.redirected
  <2>1. old.offset + saved \in Nat
    BY <1>2
  <2> HIDE DEF saved
  <2> QED
    BY <1>1, <1>2, <2>1 DEF SPSlots
<1>4. /\ q.slots = [p.slots EXCEPT ![i + 1] = slot]
      /\ q.dataStart = p.dataStart
      /\ q = [slots |-> q.slots, dataStart |-> q.dataStart, freeSpace |-> q.freeSpace]
      /\ q.freeSpace = p.freeSpace + saved
  BY <1>1 DEF UpdateInPlace
\* The new item lies inside of the old one.
<1>5. ~IsFree(old) /\ Begin(old) <= Begin(slot) /\ End(slot) <= End(old)
  <2>1. Room(old.length) >= old.length /\ Room(old.length) \in Nat
        /\ Prefix(old.redirected) \in Nat
    BY <1>1, SlotNumbers
  <2>2. Begin(slot) = (old.offset + saved) - Prefix(old.redirected)
        /\ Begin(old) = old.offset - Prefix(old.redirected)
    BY <1>3 DEF Begin
  <2>3. End(slot) = (old.offset + saved) + Room(length) /\ End(old) = old.offset + Room(old.length)
    BY <1>3 DEF End
  <2>4. ~IsFree(old)
    BY <1>2 DEF IsFree
  <2>5. saved + Room(length) = old.length
    BY <1>2
  <2> DEFINE offset == old.offset
             oldLength == old.length
             prefix == Prefix(old.redirected)
             room == Room(length)
             oldRoom == Room(old.length)
  <2>6. /\ offset \in Nat /\ saved \in Nat /\ prefix \in Nat /\ room \in Nat
        /\ oldRoom \in Nat /\ oldLength \in Nat
        /\ oldRoom >= oldLength /\ saved + room = oldLength
    BY <1>2, <2>1, <2>5
  <2> HIDE DEF saved, offset, oldLength, prefix, room, oldRoom
  <2>7. /\ offset - prefix <= (offset + saved) - prefix
        /\ (offset + saved) + room <= offset + oldRoom
    BY <2>6
  <2> HIDE DEF slot, old
  <2>8. Begin(old) <= Begin(slot) /\ End(slot) <= End(old)
    BY <2>2, <2>3, <2>7 DEF offset, prefix, room, oldRoom
  <2> QED
    BY <2>4, <2>8
<1>6. q.freeSpace \in Int
  BY <1>1, <1>2, <1>4
<1> HIDE DEF q, slot, saved
<1>7. q.slots \in Seq(SPSlots) /\ Len(q.slots) = Len(p.slots)
  BY <1>1, <1>3, <1>4
<1>8. q \in SPPages
  BY <1>1, <1>4, <1>6, <1>7 DEF SPPages
<1>9. Sound(p)
  BY SoundIsItemsApart
<1>10. Gap(q) >= 0 /\ q.dataStart <= p.dataStart
  BY <1>1, <1>4, <1>7, <1>9 DEF Gap, Sound
<1>11. /\ Begin(old) \in Int /\ End(old) \in Int /\ Begin(slot) \in Int /\ End(slot) \in Int
  BY <1>1, <1>3, SlotNumbers
<1>12. InPage(q, slot)
  BY <1>1, <1>4, <1>5, <1>9, <1>11, SizesAssumption DEF InPage, Sound
<1>13. ASSUME NEW j \in DOMAIN p.slots, j # i + 1
       PROVE  Apart(p.slots[j], slot)
  <2>1. Apart(p.slots[j], old) /\ p.slots[j] \in SPSlots
    BY <1>1, <1>9, <1>13 DEF Sound
  <2>2. Begin(p.slots[j]) \in Int /\ End(p.slots[j]) \in Int
    BY <2>1, SlotNumbers
  <2> QED
    BY <1>5, <1>11, <2>1, <2>2 DEF Apart
<1>14. Sound(q)
  BY <1>1, <1>3, <1>4, <1>8, <1>9, <1>10, <1>12, <1>13, ReplaceSlot
<1> QED
  BY <1>8, <1>14, SoundIsItemsApart DEF q

\* What the callers of updateOnPage ask for, the length and for a moved record a TID more,
\* is room enough, unless a moved record is shorter than a TID: it takes the minimal
\* length and a TID, and hasUpdateSpace was asked for less.
LEMMA UpdateSpaceIsEnough ==
  ASSUME NEW p \in SPPages, NEW length \in Nat, NEW redirected \in BOOLEAN,
         redirected => length >= TIDSize,
         HasUpdateSpace(p, length + Prefix(redirected))
  PROVE  Gap(p) >= Room(length) + Prefix(redirected)
<1>1. Gap(p) >= Room(length + Prefix(redirected))
  BY DEF HasUpdateSpace
<1>2. CASE redirected
  BY <1>1, <1>2, SizesAssumption DEF Room, Prefix
<1>3. CASE ~redirected
  BY <1>1, <1>3, SizesAssumption DEF Room, Prefix
<1> QED
  BY <1>2, <1>3

\* updateOnPage writes to the gap: room for the record and for the original TID that goes
\* with it is enough.
THEOREM UpdateOnPageKeepsItemsApart ==
  ASSUME NEW p \in SPPages, ItemsApart(p), NEW i \in Nat, i < Len(p.slots),
         NEW record \in Records,
         Gap(p) >= Room(record.length) + Prefix(p.slots[i + 1].redirected)
  PROVE  /\ UpdateOnPage(p, i, record) \in SPPages
         /\ ItemsApart(UpdateOnPage(p, i, record))
<1> DEFINE q == UpdateOnPage(p, i, record)
           old == p.slots[i + 1]
           room == Room(record.length)
           prefix == Prefix(old.redirected)
           taken == Len(p.slots) * SlotSize
           offset == p.dataStart - room
           slot == [old EXCEPT !.offset = offset, !.length = record.length, !.item = record]
<1>1. /\ p.slots \in Seq(SPSlots) /\ p.dataStart \in Nat /\ p.freeSpace \in Int
      /\ i + 1 \in DOMAIN p.slots /\ old \in SPSlots /\ Len(p.slots) \in Nat
  BY DEF SPPages
<1>2. record.length \in Nat /\ record \in Records
  BY LengthsAssumption DEF Records
<1>3. /\ room \in Nat /\ prefix \in Nat /\ Room(old.length) \in Nat /\ taken \in Nat
      /\ HeaderSize \in Nat \ {0} /\ room > 0
  <2>1. room \in Nat /\ room >= TIDSize
    BY <1>2, RoomNumber
  <2>2. prefix \in Nat /\ Room(old.length) \in Nat
    BY <1>1, SlotNumbers
  <2>3. SlotSize \in Nat /\ HeaderSize \in Nat \ {0} /\ TIDSize > 0 /\ TIDSize \in Nat
    BY SizesAssumption
  <2>4. taken \in Nat
    BY <1>1, <2>3
  <2> HIDE DEF room, prefix, taken
  <2> QED
    BY <2>1, <2>2, <2>3, <2>4
<1>4. p.dataStart - HeaderSize - taken >= room + prefix
  BY DEF Gap
<1>5. /\ offset \in Nat /\ offset > 0 /\ offset - prefix \in Nat
      /\ offset - prefix - HeaderSize - taken >= 0
  <2> DEFINE data == p.dataStart
  <2>1. data \in Nat /\ data - HeaderSize - taken >= room + prefix
    BY <1>1, <1>4
  <2> HIDE DEF data, room, prefix, taken
  <2>2. /\ data - room \in Nat /\ data - room > 0 /\ data - room - prefix \in Nat
        /\ data - room - prefix - HeaderSize - taken >= 0
    BY <1>3, <2>1, RoomBelow
  <2> QED
    BY <2>2 DEF data
<1>6. /\ slot \in SPSlots /\ slot.offset = offset /\ slot.length = record.length
      /\ slot.redirected = old.redirected
  BY <1>1, <1>2, <1>5 DEF SPSlots
<1>7. /\ q.slots = [p.slots EXCEPT ![i + 1] = slot]
      /\ q.dataStart = offset - prefix
      /\ q = [slots |-> q.slots, dataStart |-> q.dataStart, freeSpace |-> q.freeSpace]
      /\ q.freeSpace = p.freeSpace + Room(old.length) - room
  BY DEF UpdateOnPage
<1>8. q.freeSpace \in Int
  BY <1>1, <1>3, <1>7
<1>9. Begin(slot) = q.dataStart /\ End(slot) = p.dataStart /\ q.dataStart <= p.dataStart
  <2>1. Begin(slot) = offset - prefix
    BY <1>6 DEF Begin
  <2>2. End(slot) = p.dataStart - room + room
    BY <1>6 DEF End
  <2> HIDE DEF room, prefix, slot
  <2> QED
    BY <1>1, <1>3, <1>7, <2>1, <2>2
<1> HIDE DEF q, slot
<1>10. q.slots \in Seq(SPSlots) /\ Len(q.slots) = Len(p.slots)
  BY <1>1, <1>6, <1>7
<1>11. q \in SPPages
  BY <1>5, <1>7, <1>8, <1>10 DEF SPPages
<1>12. Sound(p)
  BY SoundIsItemsApart
<1>13. Gap(q) >= 0
  BY <1>5, <1>7, <1>10 DEF Gap
<1>14. InPage(q, slot)
  BY <1>5, <1>7, <1>9, <1>12 DEF InPage, Sound
<1>15. \A j \in DOMAIN p.slots : j # i + 1 => Apart(p.slots[j], slot)
  BY <1>1, <1>6, <1>9, <1>12, BelowIsApart
<1>16. Sound(q)
  BY <1>1, <1>6, <1>7, <1>9, <1>11, <1>12, <1>13, <1>14, <1>15, ReplaceSlot
<1> QED
  BY <1>11, <1>16, SoundIsItemsApart DEF q

---------------------------------------------------------------------------
(* Segments *)

\* No update makes a moved record longer and leaves it shorter than a TID: it would take
\* more than SPSegment.cpp:173 has asked for (UpdateSpaceIsEnough).
NoneGrowsShort ==
  \A t \in Writers :
    pc[t] = "moved" /\ op[t].record.length > Slot(op[t].target).length =>
      op[t].record.length >= TIDSize

---------------------------------------------------------------------------
(* Operations on a page: what they do to its slots. *)

\* Every slot has made the data area a TID longer, so that slots have the numbers SlotIds.
PageOK(p) ==
  p = ZeroPage \/ (ItemsApart(p) /\ p.dataStart + Len(p.slots) * TIDSize <= PageSize)

LEMMA DivBound ==
  ASSUME NEW n \in Nat, NEW k \in Nat, NEW d \in Nat \ {0}, k * d <= n
  PROVE  k <= n \div d
OBVIOUS

LEMMA Products ==
  ASSUME NEW n \in Nat, NEW a \in Nat, NEW b \in Nat
  PROVE  /\ (n + 1) * a = n * a + a
         /\ (n + 1) * (b + a) = n * a + n * b + b + a
         /\ n * a \in Nat /\ n * b \in Nat
OBVIOUS

LEMMA ZeroPageType == ZeroPage \in SPPages /\ PageOK(ZeroPage)
BY DEF ZeroPage, SPPages, PageOK

LEMMA InitialPageOK == InitialPage \in SPPages /\ PageOK(InitialPage)
<1>1. InitialPage.dataStart + Len(InitialPage.slots) * TIDSize <= PageSize
  BY SizesAssumption DEF InitialPage
<1>2. QED
  BY <1>1, InitialPageIsSound DEF PageOK

LEMMA InsertPage ==
  ASSUME NEW p \in SPPages, PageOK(p), NEW record \in Records, NEW redirected \in BOOLEAN,
         NEW tid \in TIDs \cup {Nil}, InsertAssertion(p, record, redirected)
  PROVE  /\ InsertRecord(p, record, redirected, tid) \in SPPages
         /\ PageOK(InsertRecord(p, record, redirected, tid))
         /\ Len(p.slots) \in SlotIds
         /\ \E slot \in SPSlots :
              /\ InsertRecord(p, record, redirected, tid).slots = Append(p.slots, slot)
              /\ ~IsFree(slot) /\ slot.onPage /\ slot.redirected = redirected
              /\ slot.item = record /\ slot.original = tid
<1> DEFINE q == InsertRecord(p, record, redirected, tid)
           n == Len(p.slots)
           room == Room(record.length)
           prefix == Prefix(redirected)
           slot == [onPage |-> TRUE, redirected |-> redirected, offset |-> p.dataStart - room,
                    length |-> record.length, item |-> record, original |-> tid]
<1>1. /\ p.slots \in Seq(SPSlots) /\ n \in Nat /\ p.dataStart \in Nat /\ p.freeSpace \in Int
      /\ SlotSize \in Nat \ {0} /\ TIDSize \in Nat \ {0} /\ HeaderSize \in Nat \ {0}
      /\ PageSize \in Nat /\ PageSize > HeaderSize
  BY SizesAssumption DEF SPPages
<1>2. record.length \in Nat /\ room \in Nat /\ room >= TIDSize /\ prefix \in Nat
  BY <1>1, LengthsAssumption, RoomNumber DEF Records, Prefix
<1> HIDE DEF room, prefix
<1>3. /\ p.freeSpace >= Room(room + prefix) + SlotSize
      /\ Gap(p) >= Room(room + prefix) + SlotSize
  BY DEF InsertAssertion, HasFreeSpace, room, prefix
<1>4. Room(room + prefix) \in Nat /\ Room(room + prefix) >= room + prefix
  BY <1>2, RoomNumber
<1>5. p # ZeroPage
  <2>1. p.freeSpace > 0
    BY <1>1, <1>2, <1>3, <1>4
  <2>2. QED
    BY <2>1 DEF ZeroPage
<1>6. ItemsApart(p) /\ p.dataStart + n * TIDSize <= PageSize
  BY <1>5 DEF PageOK
<1>7. q \in SPPages /\ ItemsApart(q)
  BY <1>6, InsertKeepsItemsApart
<1>8. /\ q.dataStart = p.dataStart - room - prefix
      /\ q.slots = Append(p.slots, slot)
  BY DEF InsertRecord, room, prefix
<1> HIDE DEF q
<1>9. p.dataStart - HeaderSize - n * SlotSize >= room + prefix + SlotSize
  <2>1. Gap(p) = p.dataStart - HeaderSize - n * SlotSize
    BY DEF Gap
  <2>2. n * SlotSize \in Int
    BY <1>1
  <2> HIDE DEF n
  <2>3. Gap(p) \in Int
    BY <1>1, <2>1, <2>2
  <2>4. QED
    BY <1>1, <1>2, <1>3, <1>4, <2>1, <2>3
<1>10. p.dataStart - room \in Nat \ {0}
  <2>1. n * SlotSize \in Nat
    BY <1>1
  <2> DEFINE taken == n * SlotSize
             data == p.dataStart
  <2>2. taken \in Nat /\ data \in Nat /\ data - HeaderSize - taken >= room + prefix + SlotSize
    BY <1>1, <1>9, <2>1
  <2> HIDE DEF taken, data
  <2>3. data - room \in Nat \ {0}
    BY <1>1, <1>2, <2>2
  <2>4. QED
    BY <2>3 DEF data
<1>11. slot \in SPSlots /\ ~IsFree(slot)
  <2>1. slot \in SPSlots
    BY <1>2, <1>10 DEF SPSlots
  <2>2. slot.offset # 0
    BY <1>10
  <2>3. QED
    BY <2>1, <2>2 DEF IsFree
<1>12. Len(q.slots) = n + 1
  BY <1>1, <1>8
<1>13. /\ (n + 1) * TIDSize = n * TIDSize + TIDSize
       /\ (n + 1) * (SlotSize + TIDSize) = n * TIDSize + n * SlotSize + SlotSize + TIDSize
       /\ n * TIDSize \in Nat /\ n * SlotSize \in Nat
  BY <1>1, Products
<1>14. q.dataStart + (n + 1) * TIDSize <= PageSize
  <2> DEFINE a == n * TIDSize
             data == p.dataStart
  <2>1. a \in Nat /\ data \in Nat /\ data + a <= PageSize
    BY <1>1, <1>6, <1>13
  <2> HIDE DEF a, data
  <2>2. (data - room - prefix) + (a + TIDSize) <= PageSize
    BY <1>1, <1>2, <2>1
  <2>3. QED
    BY <1>8, <1>13, <2>2 DEF a, data
<1>15. PageOK(q)
  BY <1>7, <1>12, <1>14 DEF PageOK
<1>16. (n + 1) * (SlotSize + TIDSize) <= PageSize - HeaderSize
  <2> DEFINE a == n * TIDSize
             b == n * SlotSize
             data == p.dataStart
  <2>1. /\ a \in Nat /\ b \in Nat /\ data \in Nat /\ data + a <= PageSize
        /\ data - HeaderSize - b >= room + prefix + SlotSize
    BY <1>1, <1>6, <1>9, <1>13
  <2> HIDE DEF a, b, data
  <2>2. a + b + SlotSize + TIDSize <= PageSize - HeaderSize
    BY <1>1, <1>2, <2>1
  <2>3. QED
    BY <1>13, <2>2 DEF a, b
<1>17. n + 1 <= (PageSize - HeaderSize) \div (SlotSize + TIDSize)
  <2>1. PageSize - HeaderSize \in Nat /\ SlotSize + TIDSize \in Nat \ {0} /\ n + 1 \in Nat
    BY <1>1
  <2> DEFINE m == PageSize - HeaderSize
             d == SlotSize + TIDSize
             k == n + 1
  <2>2. m \in Nat /\ d \in Nat \ {0} /\ k \in Nat /\ k * d <= m
    BY <1>16, <2>1
  <2> HIDE DEF m, d, k
  <2>3. k <= m \div d
    BY <2>2, DivBound
  <2>4. QED
    BY <2>3 DEF m, d, k
<1>18. n \in SlotIds
  <2> DEFINE most == (PageSize - HeaderSize) \div (SlotSize + TIDSize)
  <2>1. most \in Int
    BY <1>1
  <2> HIDE DEF most
  <2>2. n + 1 <= most
    BY <1>17 DEF most
  <2>3. n \in 0 .. most - 1
    BY <1>1, <2>1, <2>2
  <2>4. QED
    BY <2>3 DEF SlotIds, most
<1>19. /\ slot.onPage /\ slot.redirected = redirected
       /\ slot.item = record /\ slot.original = tid
  OBVIOUS
<1> HIDE DEF slot, n
<1>20. QED
  BY <1>7, <1>8, <1>11, <1>15, <1>18, <1>19 DEF q, n
\* An operation that replaces slot i of a page, and moves the data no further up, leaves
\* the page as it was in all other respects.
Replaces(p, q, i, slot) ==
  /\ slot \in SPSlots /\ q \in SPPages /\ PageOK(q)
  /\ q.slots = [p.slots EXCEPT ![i + 1] = slot]

LEMMA ReplacedPage ==
  ASSUME NEW p \in SPPages, PageOK(p), NEW i \in Nat, i < Len(p.slots),
         NEW q \in SPPages, ItemsApart(q), NEW slot \in SPSlots,
         q.slots = [p.slots EXCEPT ![i + 1] = slot], q.dataStart <= p.dataStart
  PROVE  Replaces(p, q, i, slot)
<1>1. /\ p.slots \in Seq(SPSlots) /\ p.dataStart \in Nat /\ q.dataStart \in Nat
      /\ Len(q.slots) = Len(p.slots) /\ Len(p.slots) \in Nat
  BY DEF SPPages
<1>2. p # ZeroPage
  BY <1>1 DEF ZeroPage
<1>3. p.dataStart + Len(p.slots) * TIDSize <= PageSize /\ Len(p.slots) * TIDSize \in Nat
  BY <1>1, <1>2, SizesAssumption DEF PageOK
<1>4. q.dataStart + Len(q.slots) * TIDSize <= PageSize
  <2> DEFINE n == Len(p.slots) * TIDSize
  <2>1. n \in Nat /\ p.dataStart + n <= PageSize
    BY <1>3
  <2> HIDE DEF n
  <2>2. q.dataStart + n <= PageSize
    BY <1>1, <2>1, SizesAssumption
  <2>3. QED
    BY <1>1, <2>2 DEF n
<1>5. QED
  BY <1>4 DEF Replaces, PageOK

\* A page with slots has been initialised.
LEMMA PageWithSlots ==
  ASSUME NEW p \in SPPages, PageOK(p), NEW i \in Nat, i < Len(p.slots)
  PROVE  /\ ItemsApart(p) /\ i + 1 \in DOMAIN p.slots /\ p.slots[i + 1] \in SPSlots
         /\ p.slots \in Seq(SPSlots) /\ p.dataStart \in Nat
<1>1. p # ZeroPage
  BY DEF ZeroPage
<1>2. QED
  BY <1>1 DEF PageOK, SPPages

LEMMA RemovePage ==
  ASSUME NEW p \in SPPages, PageOK(p), NEW i \in Nat, i < Len(p.slots)
  PROVE  /\ Replaces(p, RemoveSlot(p, i), i, Freed(p.slots[i + 1]))
         /\ IsFree(Freed(p.slots[i + 1]))
         /\ Freed(p.slots[i + 1]).redirected = p.slots[i + 1].redirected
         /\ Freed(p.slots[i + 1]).onPage = p.slots[i + 1].onPage
<1>1. ItemsApart(p) /\ p.slots[i + 1] \in SPSlots /\ p.dataStart \in Nat
  BY PageWithSlots
<1>2. RemoveSlot(p, i) \in SPPages /\ ItemsApart(RemoveSlot(p, i))
  BY <1>1, RemoveKeepsItemsApart
<1>3. /\ Freed(p.slots[i + 1]) \in SPSlots /\ IsFree(Freed(p.slots[i + 1]))
      /\ Freed(p.slots[i + 1]).redirected = p.slots[i + 1].redirected
      /\ Freed(p.slots[i + 1]).onPage = p.slots[i + 1].onPage
  BY <1>1 DEF SPSlots, Freed, IsFree
<1>4. /\ RemoveSlot(p, i).slots = [p.slots EXCEPT ![i + 1] = Freed(p.slots[i + 1])]
      /\ RemoveSlot(p, i).dataStart <= p.dataStart
  BY <1>1 DEF RemoveSlot
<1>5. QED
  BY <1>2, <1>3, <1>4, ReplacedPage

LEMMA UpdateInPlacePage ==
  ASSUME NEW p \in SPPages, PageOK(p), NEW i \in Nat, i < Len(p.slots),
         NEW item \in Records \cup TIDs, NEW length \in Nat,
         Room(length) <= p.slots[i + 1].length
  PROVE  \E slot \in SPSlots :
           /\ Replaces(p, UpdateInPlace(p, i, item, length), i, slot)
           /\ slot.length = length /\ slot.item = item
           /\ slot.onPage = p.slots[i + 1].onPage
           /\ slot.redirected = p.slots[i + 1].redirected
           /\ slot.original = p.slots[i + 1].original
<1> DEFINE old == p.slots[i + 1]
           saved == old.length - Room(length)
           slot == [old EXCEPT !.offset = old.offset + saved, !.length = length, !.item = item]
           q == UpdateInPlace(p, i, item, length)
<1>1. ItemsApart(p) /\ old \in SPSlots /\ p.dataStart \in Nat
  BY PageWithSlots
<1>2. q \in SPPages /\ ItemsApart(q)
  BY <1>1, UpdateInPlaceKeepsItemsApart
<1>3. old.offset + saved \in Nat
  <2>1. Room(length) \in Nat /\ old.length \in Nat /\ old.offset \in Nat
    BY <1>1, RoomNumber DEF SPSlots
  <2>2. QED
    BY <2>1
<1>4. slot \in SPSlots
  <2> HIDE DEF saved
  <2>1. QED
    BY <1>1, <1>3 DEF SPSlots
<1>5. q.slots = [p.slots EXCEPT ![i + 1] = slot] /\ q.dataStart <= p.dataStart
  BY <1>1 DEF UpdateInPlace
<1>6. /\ slot.length = length /\ slot.item = item /\ slot.onPage = old.onPage
      /\ slot.redirected = old.redirected /\ slot.original = old.original
  BY <1>1 DEF SPSlots
<1> HIDE DEF slot, q
<1>7. Replaces(p, q, i, slot)
  BY <1>2, <1>4, <1>5, ReplacedPage
<1>8. QED
  BY <1>4, <1>6, <1>7 DEF q

LEMMA UpdateOnPagePage ==
  ASSUME NEW p \in SPPages, PageOK(p), NEW i \in Nat, i < Len(p.slots),
         NEW record \in Records,
         p.slots[i + 1].redirected => record.length >= TIDSize,
         HasUpdateSpace(p, record.length + Prefix(p.slots[i + 1].redirected))
  PROVE  \E slot \in SPSlots :
           /\ Replaces(p, UpdateOnPage(p, i, record), i, slot)
           /\ slot.length = record.length /\ slot.item = record
           /\ slot.onPage = p.slots[i + 1].onPage
           /\ slot.redirected = p.slots[i + 1].redirected
           /\ slot.original = p.slots[i + 1].original
<1> DEFINE old == p.slots[i + 1]
           offset == p.dataStart - Room(record.length)
           prefix == Prefix(old.redirected)
           slot == [old EXCEPT !.offset = offset, !.length = record.length, !.item = record]
           q == UpdateOnPage(p, i, record)
<1>1. ItemsApart(p) /\ old \in SPSlots /\ p.dataStart \in Nat /\ p.slots \in Seq(SPSlots)
  BY PageWithSlots
<1>2. record.length \in Nat /\ old.redirected \in BOOLEAN
  BY <1>1, LengthsAssumption DEF Records, SPSlots
<1>3. Gap(p) >= Room(record.length) + prefix
  BY <1>2, UpdateSpaceIsEnough
<1>4. q \in SPPages /\ ItemsApart(q)
  BY <1>1, <1>3, UpdateOnPageKeepsItemsApart
<1>5. offset \in Nat /\ prefix \in Nat /\ offset - prefix <= p.dataStart
  <2> DEFINE room == Room(record.length)
             taken == Len(p.slots) * SlotSize
             data == p.dataStart
  <2>1. room \in Nat /\ room >= TIDSize /\ prefix \in Nat
    BY <1>1, <1>2, RoomNumber, SlotNumbers
  <2>2. taken \in Nat /\ HeaderSize \in Nat \ {0} /\ data \in Nat /\ TIDSize \in Nat \ {0}
    BY <1>1, SizesAssumption
  <2>3. data - HeaderSize - taken >= room + prefix
    BY <1>3 DEF Gap
  <2> HIDE DEF room, taken, data, prefix
  <2>4. data - room \in Nat /\ (data - room) - prefix <= data
    BY <2>1, <2>2, <2>3
  <2>5. QED
    BY <2>1, <2>4 DEF data, room
<1>6. slot \in SPSlots
  <2> HIDE DEF offset
  <2>1. QED
    BY <1>1, <1>2, <1>5 DEF SPSlots
<1>7. q.slots = [p.slots EXCEPT ![i + 1] = slot] /\ q.dataStart <= p.dataStart
  BY <1>1, <1>5 DEF UpdateOnPage
<1>8. /\ slot.length = record.length /\ slot.item = record /\ slot.onPage = old.onPage
      /\ slot.redirected = old.redirected /\ slot.original = old.original
  BY <1>1 DEF SPSlots
<1> HIDE DEF slot, q
<1>9. Replaces(p, q, i, slot)
  BY <1>4, <1>6, <1>7, ReplacedPage
<1>10. QED
  BY <1>6, <1>8, <1>9 DEF q

\* What Redirect leaves: the slot has the TID of the new place and is marked.
RedirectedPage(p, i, target) ==
  [UpdateInPlace(p, i, target, TIDSize) EXCEPT !.slots[i + 1].onPage = FALSE]

LEMMA RedirectPage ==
  ASSUME NEW p \in SPPages, PageOK(p), NEW i \in Nat, i < Len(p.slots),
         NEW target \in TIDs, TIDSize <= p.slots[i + 1].length
  PROVE  \E slot \in SPSlots :
           /\ Replaces(p, RedirectedPage(p, i, target), i, slot)
           /\ slot.length = TIDSize /\ slot.item = target /\ ~slot.onPage
           /\ slot.redirected = p.slots[i + 1].redirected
           /\ slot.original = p.slots[i + 1].original
<1> DEFINE q == UpdateInPlace(p, i, target, TIDSize)
           r == [q EXCEPT !.slots[i + 1].onPage = FALSE]
<1>1. /\ i + 1 \in DOMAIN p.slots /\ p.slots[i + 1] \in SPSlots
      /\ p.slots \in Seq(SPSlots) /\ TIDSize \in Nat /\ Room(TIDSize) = TIDSize
  BY PageWithSlots, SizesAssumption DEF Room
<1>2. PICK s \in SPSlots :
        /\ Replaces(p, q, i, s) /\ s.length = TIDSize /\ s.item = target
        /\ s.redirected = p.slots[i + 1].redirected /\ s.original = p.slots[i + 1].original
  BY <1>1, UpdateInPlacePage
<1> DEFINE slot == [s EXCEPT !.onPage = FALSE]
<1>3. /\ slot \in SPSlots /\ slot.length = TIDSize /\ slot.item = target /\ ~slot.onPage
      /\ slot.redirected = s.redirected /\ slot.original = s.original
      /\ slot.offset = s.offset
  BY <1>2 DEF SPSlots
<1> HIDE DEF q
<1>4. /\ q \in SPPages /\ PageOK(q) /\ q.slots = [p.slots EXCEPT ![i + 1] = s]
      /\ Len(q.slots) = Len(p.slots)
  BY <1>1, <1>2 DEF Replaces
<1>5. q.slots[i + 1] = s /\ DOMAIN q.slots = DOMAIN p.slots /\ ItemsApart(q)
      /\ q.slots \in Seq(SPSlots)
  BY <1>1, <1>4, PageWithSlots
<1>6. /\ r.slots = [q.slots EXCEPT ![i + 1] = slot]
      /\ r.dataStart = q.dataStart /\ r.freeSpace = q.freeSpace
      /\ r = [slots |-> r.slots, dataStart |-> r.dataStart, freeSpace |-> r.freeSpace]
  <2>1. q = [slots |-> q.slots, dataStart |-> q.dataStart, freeSpace |-> q.freeSpace]
    BY <1>4 DEF SPPages
  <2>2. r = [q EXCEPT !.slots = [q.slots EXCEPT ![i + 1] = [s EXCEPT !.onPage = FALSE]]]
    BY <1>5
  <2>3. QED
    BY <2>1, <2>2
<1> HIDE DEF r, slot
<1>7. r \in SPPages
  <2>1. r.slots \in Seq(SPSlots)
    BY <1>1, <1>3, <1>5, <1>6
  <2>2. QED
    BY <1>4, <1>6, <2>1 DEF SPPages
<1>8. Sound(q)
  BY <1>4, <1>5, SoundIsItemsApart
<1>9. Sound(r)
  <2>1. Gap(r) = Gap(q) /\ r.dataStart \in Nat
    BY <1>1, <1>4, <1>5, <1>6 DEF Gap, SPPages
  <2>2. Begin(slot) = Begin(s) /\ End(slot) = End(s) /\ (IsFree(slot) <=> IsFree(s))
    BY <1>2, <1>3 DEF Begin, End, IsFree
  <2>3. Gap(r) >= 0 /\ r.dataStart <= q.dataStart
    BY <1>4, <1>6, <1>8, <2>1 DEF Sound, SPPages
  <2>4. i + 1 \in DOMAIN q.slots /\ InPage(r, slot)
    BY <1>1, <1>5, <1>6, <1>8, <2>2 DEF Sound, InPage
  <2>5. \A j \in DOMAIN q.slots : j # i + 1 => Apart(q.slots[j], slot)
    BY <1>1, <1>5, <1>8, <2>2 DEF Sound, Apart
  <2>6. QED
    BY <1>3, <1>4, <1>6, <1>7, <1>8, <2>3, <2>4, <2>5, ReplaceSlot
<1>10. ItemsApart(r)
  BY <1>7, <1>9, SoundIsItemsApart
<1>11. r.slots = [p.slots EXCEPT ![i + 1] = slot]
  BY <1>1, <1>4, <1>6
<1>12. Replaces(p, r, i, slot)
  <2>1. i < Len(q.slots) /\ r.dataStart <= q.dataStart
    BY <1>4, <1>6 DEF SPPages
  <2>2. Replaces(q, r, i, slot)
    BY <1>3, <1>4, <1>6, <1>7, <1>10, <2>1, ReplacedPage
  <2>3. QED
    BY <1>11, <2>2 DEF Replaces
<1>13. QED
  BY <1>2, <1>3, <1>12 DEF q, r, RedirectedPage

---------------------------------------------------------------------------
(* The slots of the segment as a function of their TIDs. *)

Taken == {x \in TIDs : HasSlot(x)}

SlotOf == [x \in Taken |-> Slot(x)]

\* Where records have moved to.
Places == {x \in Taken : SlotOf[x].redirected}

Live(x) == x \in Taken /\ ~IsFree(SlotOf[x])

\* Slot x becomes `slot`, or is new; the others stay.
SetsSlot(x, slot) ==
  /\ slot \in SPSlots
  /\ Taken' = Taken \cup {x}
  /\ SlotOf' = [y \in Taken \cup {x} |-> IF y = x THEN slot ELSE SlotOf[y]]

SameSlots == Taken' = Taken /\ SlotOf' = SlotOf

LEMMA TIDFields ==
  ASSUME NEW x \in TIDs
  PROVE  /\ x.page \in PageIds /\ x.slot \in SlotIds /\ x.slot \in Nat /\ x.page \in Nat
         /\ x = [page |-> x.page, slot |-> x.slot]
BY DEF TIDs, SlotIds, PageIds

LEMMA TIDsDiffer ==
  ASSUME NEW x \in TIDs, NEW y \in TIDs, x.page = y.page, x.slot = y.slot
  PROVE  x = y
BY TIDFields

LEMMA GivenTaken == Given = {x \in Taken : ~SlotOf[x].redirected}
BY DEF Given, Taken, SlotOf

LEMMA GivenOrPlace == Given \cup Places = Taken /\ Given \cap Places = {} /\ Taken \subseteq TIDs
BY GivenTaken DEF Places, Taken

\* No TID is a record or Nil.
LEMMA NilIsNone ==
  Nil \notin TIDs /\ Nil \notin Records
<1>1. Nil \notin TIDs
  <2>1. TIDs \subseteq [page : Nat, slot : Nat]
    BY DEF TIDs, SlotIds, PageIds
  <2>2. QED
    BY <2>1, NilAssumption
<1>2. Nil \notin Records
  <2>1. Records \subseteq [length : Nat, tag : Tags]
    BY LengthsAssumption DEF Records
  <2>2. QED
    BY <2>1, NilAssumption
<1>3. QED
  BY <1>1, <1>2

LEMMA TakenSlots ==
  ASSUME pages \in [PageIds -> SPPages], NEW x \in Taken
  PROVE  /\ x \in TIDs /\ x.page \in PageIds /\ x.slot \in Nat
         /\ x.slot < Len(pages[x.page].slots) /\ pages[x.page] \in SPPages
         /\ SlotOf[x] = Slot(x) /\ SlotOf[x] = pages[x.page].slots[x.slot + 1]
         /\ SlotOf[x] \in SPSlots
<1>1. x \in TIDs /\ x.page \in PageIds /\ x.slot \in Nat
  BY TIDFields DEF Taken
<1>2. x.slot < Len(pages[x.page].slots) /\ SlotOf[x] = Slot(x) /\ pages[x.page] \in SPPages
  BY <1>1 DEF Taken, SlotOf, HasSlot
<1>3. SlotOf[x] = pages[x.page].slots[x.slot + 1]
  BY <1>2 DEF Slot
<1>4. pages[x.page].slots \in Seq(SPSlots)
  BY <1>2 DEF SPPages
<1>5. x.slot + 1 \in 1 .. Len(pages[x.page].slots)
  BY <1>1, <1>2, <1>4
<1>6. SlotOf[x] \in SPSlots
  BY <1>3, <1>4, <1>5
<1>7. QED
  BY <1>1, <1>2, <1>3, <1>6

LEMMA ReplaceSetsSlot ==
  ASSUME pages \in [PageIds -> SPPages], NEW x \in Taken, NEW q, NEW slot,
         Replaces(pages[x.page], q, x.slot, slot),
         pages' = [pages EXCEPT ![x.page] = q]
  PROVE  SetsSlot(x, slot)
<1>1. /\ x \in TIDs /\ x.page \in PageIds /\ x.slot \in Nat
      /\ x.slot < Len(pages[x.page].slots) /\ pages[x.page].slots \in Seq(SPSlots)
  BY TakenSlots DEF SPPages
<1>2. /\ q.slots = [pages[x.page].slots EXCEPT ![x.slot + 1] = slot] /\ slot \in SPSlots
      /\ Len(q.slots) = Len(pages[x.page].slots)
  BY <1>1 DEF Replaces
<1>3. ASSUME NEW y \in TIDs
      PROVE  (y.slot < Len(pages'[y.page].slots)) <=> (y.slot < Len(pages[y.page].slots))
  BY <1>1, <1>2, TIDFields
<1>4. Taken' = Taken
  BY <1>3 DEF Taken, HasSlot
<1>5. ASSUME NEW y \in Taken
      PROVE  pages'[y.page].slots[y.slot + 1]
               = IF y = x THEN slot ELSE pages[y.page].slots[y.slot + 1]
  <2>1. y \in TIDs /\ y.page \in PageIds /\ y.slot \in Nat /\ y.slot < Len(pages[y.page].slots)
    BY TakenSlots
  <2>2. CASE y.page # x.page
    BY <1>1, <2>1, <2>2
  <2>3. CASE y.page = x.page
    <3>1. pages'[y.page].slots = [pages[x.page].slots EXCEPT ![x.slot + 1] = slot]
      BY <1>1, <1>2, <2>3
    <3>2. y.slot + 1 \in DOMAIN pages[x.page].slots
      BY <1>1, <2>1, <2>3
    <3>3. y = x <=> y.slot + 1 = x.slot + 1
      BY <1>1, <2>1, <2>3, TIDsDiffer
    <3>4. QED
      BY <2>3, <3>1, <3>2, <3>3
  <2>4. QED
    BY <2>2, <2>3
<1>6. SlotOf' = [y \in Taken |-> pages'[y.page].slots[y.slot + 1]]
  BY <1>4 DEF SlotOf, Slot
<1>7. SlotOf = [y \in Taken |-> pages[y.page].slots[y.slot + 1]]
  BY DEF SlotOf, Slot
<1>8. SlotOf' = [y \in Taken |-> IF y = x THEN slot ELSE SlotOf[y]]
  BY <1>5, <1>6, <1>7
<1>9. Taken \cup {x} = Taken
  OBVIOUS
<1>10. QED
  BY <1>2, <1>4, <1>8, <1>9 DEF SetsSlot

LEMMA AppendSetsSlot ==
  ASSUME pages \in [PageIds -> SPPages], NEW p \in PageIds, NEW q \in SPPages,
         NEW slot \in SPSlots, Len(pages[p].slots) \in SlotIds,
         q.slots = Append(pages[p].slots, slot), pages' = [pages EXCEPT ![p] = q]
  PROVE  /\ [page |-> p, slot |-> Len(pages[p].slots)] \in TIDs \ Taken
         /\ SetsSlot([page |-> p, slot |-> Len(pages[p].slots)], slot)
<1> DEFINE n == Len(pages[p].slots)
           x == [page |-> p, slot |-> n]
<1>1. pages[p].slots \in Seq(SPSlots) /\ n \in Nat /\ x \in TIDs
  BY DEF SPPages, TIDs
<1>2. Len(q.slots) = n + 1 /\ q.slots[n + 1] = slot
      /\ \A i \in 1 .. n : q.slots[i] = pages[p].slots[i]
  BY <1>1
<1>3. x \notin Taken
  BY <1>1 DEF Taken, HasSlot
<1>4. x.page = p /\ x.slot = n
  OBVIOUS
<1> HIDE DEF x
<1>5. ASSUME NEW y \in TIDs
      PROVE  (y.slot < Len(pages'[y.page].slots))
               <=> (y.slot < Len(pages[y.page].slots) \/ y = x)
  <2>1. y.page \in PageIds /\ y.slot \in Nat
    BY TIDFields
  <2>2. CASE y.page # p
    BY <1>4, <2>1, <2>2
  <2>3. CASE y.page = p
    <3>1. Len(pages'[y.page].slots) = n + 1
      BY <1>2, <2>3
    <3>2. y = x <=> y.slot = n
      BY <1>1, <1>4, <2>3, TIDsDiffer
    <3>3. y.slot < n + 1 <=> (y.slot < n \/ y.slot = n)
      BY <1>1, <2>1
    <3>4. QED
      BY <2>3, <3>1, <3>2, <3>3
  <2>4. QED
    BY <2>2, <2>3
<1>6. Taken' = Taken \cup {x}
  BY <1>1, <1>5 DEF Taken, HasSlot
<1>7. ASSUME NEW y \in Taken \cup {x}
      PROVE  pages'[y.page].slots[y.slot + 1]
               = IF y = x THEN slot ELSE pages[y.page].slots[y.slot + 1]
  <2>1. CASE y = x
    BY <1>2, <1>4, <2>1
  <2>2. CASE y # x
    <3>1. y \in Taken /\ y.page \in PageIds /\ y.slot \in Nat
          /\ y.slot < Len(pages[y.page].slots)
      BY <2>2, TakenSlots
    <3>2. CASE y.page # p
      BY <2>2, <3>1, <3>2
    <3>3. CASE y.page = p
      <4>1. y.slot + 1 \in 1 .. n
        BY <1>1, <3>1, <3>3
      <4>2. QED
        BY <1>2, <2>2, <3>3, <4>1
    <3>4. QED
      BY <3>2, <3>3
  <2>3. QED
    BY <2>1, <2>2
<1>8. SlotOf' = [y \in Taken \cup {x} |-> pages'[y.page].slots[y.slot + 1]]
  BY <1>6 DEF SlotOf, Slot
<1>9. SlotOf = [y \in Taken |-> pages[y.page].slots[y.slot + 1]]
  BY DEF SlotOf, Slot
<1>10. SlotOf' = [y \in Taken \cup {x} |-> IF y = x THEN slot ELSE SlotOf[y]]
  BY <1>7, <1>8, <1>9
<1>11. QED
  BY <1>1, <1>3, <1>6, <1>10 DEF SetsSlot, x, n

LEMMA SamePagesSameSlots ==
  ASSUME pages' = pages
  PROVE  SameSlots
BY DEF SameSlots, Taken, SlotOf, HasSlot, Slot

---------------------------------------------------------------------------
(* Types, pages and the operations in progress. *)

\* allocate reads the size of the segment, enlarges it and initialises what is new without
\* a lock, which the model does in one step: that is the code if there is one writer.
OneWriter == \A t, u \in Writers : t = u

PagesOK ==
  \A p \in PageIds : PageOK(pages[p]) /\ (p >= size => pages[p] = ZeroPage)

\* An item in use that is on its page is a record; else it leads to a moved record's slot.
LinksOK ==
  \A x \in Taken : ~IsFree(SlotOf[x]) =>
    IF SlotOf[x].onPage THEN SlotOf[x].item \in Records
                        ELSE SlotOf[x].item \in Places /\ ~SlotOf[x].redirected

\* What a writer's locals are where it is.
LabelOK(label, o) ==
  /\ label # "lookup"
  /\ label = "idle" => o = NoOp
  /\ label # "idle" => o.record \in Records
  /\ o.tid # Nil => o.tid \in Given
  /\ label \in {"moved", "redirect"} => o.tid # Nil /\ o.target \in Places
  /\ label = "search" => o.page <= o.bound /\ o.bound <= size
  /\ label \in {"init", "place"} => o.page < size
  /\ label = "init" => pages[o.page] = ZeroPage

WriterOK(t) == LabelOK(pc[t], op[t])

ReaderOK(t) ==
  /\ pc[t] \in {"idle", "lookup"}
  /\ pc[t] = "idle" => op[t] = NoOp
  /\ pc[t] = "lookup" => op[t].tid \in Given /\ op[t].target \in Places
  /\ scan[t] # Nil => /\ scan[t].page <= scan[t].bound /\ scan[t].bound <= size
                      /\ scan[t].fixed => scan[t].page < scan[t].bound

WritersOK == \A t \in Writers : WriterOK(t)
ReadersOK == \A t \in Readers : ReaderOK(t)

PInv == TypeOK /\ PagesOK /\ LinksOK /\ WritersOK /\ ReadersOK

LEMMA PInvTypes ==
  ASSUME PInv
  PROVE  /\ pages \in [PageIds -> SPPages] /\ size \in 0 .. MaxPages
         /\ pc \in [Threads -> {"idle", "moved", "search", "init", "place", "redirect", "lookup"}]
         /\ op \in [Threads -> Ops] /\ scan \in [Readers -> Iterators \cup {Nil}]
         /\ due \in [Readers -> SUBSET TIDs] /\ done \in [Readers -> SUBSET TIDs]
         /\ again \in [Readers -> SUBSET TIDs] /\ running \in BOOLEAN
         /\ MaxPages \in Nat /\ size \in Nat
         /\ Writers \subseteq Threads /\ Readers \subseteq Threads
         /\ Writers \cap Readers = {}
         /\ \A p \in PageIds : pages[p] \in SPPages /\ PageOK(pages[p])
BY PagesAssumption, ThreadsAssumption DEF PInv, TypeOK, PagesOK, Threads

\* A step that sets one slot and leaves all pages sound, and those without slots as they
\* were.
SlotStep(x, slot) ==
  /\ SetsSlot(x, slot)
  /\ FixExclusive(x.page)
  /\ pages' \in [PageIds -> SPPages]
  /\ \A p \in PageIds : PageOK(pages'[p]) /\ (pages[p] = ZeroPage => pages'[p] = ZeroPage)

LEMMA ReplaceStep ==
  ASSUME PInv, NEW x \in Taken, NEW q, NEW slot,
         Replaces(pages[x.page], q, x.slot, slot), Change(x.page, q)
  PROVE  SlotStep(x, slot)
<1>1. pages \in [PageIds -> SPPages] /\ \A p \in PageIds : PageOK(pages[p])
  BY PInvTypes
<1>2. pages' = [pages EXCEPT ![x.page] = q] /\ FixExclusive(x.page)
  BY DEF Change
<1>3. SetsSlot(x, slot)
  BY <1>1, <1>2, ReplaceSetsSlot
<1>4. q \in SPPages /\ PageOK(q)
  BY DEF Replaces
<1>5. x.page \in PageIds /\ pages[x.page] # ZeroPage
  <2>1. x.page \in PageIds /\ x.slot \in Nat /\ x.slot < Len(pages[x.page].slots)
    BY <1>1, TakenSlots
  <2>2. QED
    BY <2>1 DEF ZeroPage
<1>6. pages' \in [PageIds -> SPPages]
  BY <1>1, <1>2, <1>4
<1>7. \A p \in PageIds : PageOK(pages'[p]) /\ (pages[p] = ZeroPage => pages'[p] = ZeroPage)
  BY <1>1, <1>2, <1>4, <1>5
<1>8. QED
  BY <1>2, <1>3, <1>6, <1>7 DEF SlotStep

LEMMA AppendStep ==
  ASSUME PInv, NEW p \in PageIds, NEW q \in SPPages, PageOK(q), NEW slot \in SPSlots,
         Len(pages[p].slots) \in SlotIds, pages[p] # ZeroPage,
         q.slots = Append(pages[p].slots, slot), Change(p, q)
  PROVE  /\ [page |-> p, slot |-> Len(pages[p].slots)] \in TIDs \ Taken
         /\ SlotStep([page |-> p, slot |-> Len(pages[p].slots)], slot)
<1>1. pages \in [PageIds -> SPPages] /\ \A i \in PageIds : PageOK(pages[i])
  BY PInvTypes
<1>2. pages' = [pages EXCEPT ![p] = q] /\ FixExclusive(p)
  BY DEF Change
<1> DEFINE x == [page |-> p, slot |-> Len(pages[p].slots)]
<1>3. x \in TIDs \ Taken /\ SetsSlot(x, slot)
  BY <1>1, <1>2, AppendSetsSlot
<1>4. pages' \in [PageIds -> SPPages]
  BY <1>1, <1>2
<1>5. \A i \in PageIds : PageOK(pages'[i]) /\ (pages[i] = ZeroPage => pages'[i] = ZeroPage)
  BY <1>1, <1>2
<1>6. x.page = p
  OBVIOUS
<1> HIDE DEF x
<1>7. QED
  BY <1>2, <1>3, <1>4, <1>5, <1>6 DEF SlotStep, x

\* What the operations do, in terms of slots.

\* The record r is inserted, as slot x.
Inserted(x, slot, r, redirected, tid) ==
  /\ x \in TIDs \ Taken /\ SlotStep(x, slot)
  /\ ~IsFree(slot) /\ slot.onPage /\ slot.redirected = redirected
  /\ slot.item = r /\ slot.original = tid

\* The record of slot x becomes r.
Revised(x, slot, r) ==
  /\ Live(x) /\ SlotOf[x].onPage /\ SlotStep(x, slot)
  /\ ~IsFree(slot) /\ slot.onPage /\ slot.item = r
  /\ slot.redirected = SlotOf[x].redirected /\ slot.original = SlotOf[x].original

\* Slot x is free.
Emptied(x, slot) ==
  /\ Live(x) /\ SlotOf[x].onPage /\ SlotStep(x, slot)
  /\ IsFree(slot) /\ slot.redirected = SlotOf[x].redirected

\* Slot x leads to target.
Linked(x, slot, target) ==
  /\ Live(x) /\ SlotStep(x, slot)
  /\ ~IsFree(slot) /\ ~slot.onPage /\ slot.item = target
  /\ slot.redirected = SlotOf[x].redirected

LEMMA TakenPage ==
  ASSUME PInv, NEW x \in Taken
  PROVE  /\ x.page \in PageIds /\ x.slot \in Nat /\ x.slot < Len(pages[x.page].slots)
         /\ pages[x.page] \in SPPages /\ PageOK(pages[x.page])
         /\ SlotOf[x] = Slot(x) /\ SlotOf[x] = pages[x.page].slots[x.slot + 1]
         /\ SlotOf[x] \in SPSlots /\ SlotOf[x].length \in Nat
         /\ SlotOf[x].onPage \in BOOLEAN /\ SlotOf[x].redirected \in BOOLEAN
<1>1. /\ x.page \in PageIds /\ x.slot \in Nat /\ x.slot < Len(pages[x.page].slots)
      /\ pages[x.page] \in SPPages /\ PageOK(pages[x.page])
      /\ SlotOf[x] = Slot(x) /\ SlotOf[x] = pages[x.page].slots[x.slot + 1]
      /\ SlotOf[x] \in SPSlots
  BY PInvTypes, TakenSlots
<1>2. QED
  BY <1>1 DEF SPSlots

LEMMA RecordLength ==
  ASSUME NEW r \in Records
  PROVE  r.length \in Nat /\ r.length > 0
<1>1. r.length \in Lengths
  BY DEF Records
<1>2. r.length \in Nat /\ r.length # 0
  BY <1>1, LengthsAssumption
<1>3. QED
  BY <1>2

LEMMA InsertStep ==
  ASSUME PInv, NEW p \in PageIds, NEW r \in Records, NEW redirected \in BOOLEAN,
         NEW tid \in TIDs \cup {Nil}, InsertAssertion(pages[p], r, redirected),
         Change(p, InsertRecord(pages[p], r, redirected, tid))
  PROVE  \E x \in TIDs, slot \in SPSlots :
           /\ x = [page |-> p, slot |-> Len(pages[p].slots)]
           /\ Inserted(x, slot, r, redirected, tid)
<1> DEFINE x == [page |-> p, slot |-> Len(pages[p].slots)]
           q == InsertRecord(pages[p], r, redirected, tid)
<1>1. pages[p] \in SPPages /\ PageOK(pages[p])
  BY PInvTypes
<1>2. /\ q \in SPPages /\ PageOK(q) /\ Len(pages[p].slots) \in SlotIds
      /\ \E slot \in SPSlots :
           /\ q.slots = Append(pages[p].slots, slot)
           /\ ~IsFree(slot) /\ slot.onPage /\ slot.redirected = redirected
           /\ slot.item = r /\ slot.original = tid
  BY <1>1, InsertPage
<1>3. PICK slot \in SPSlots :
           /\ q.slots = Append(pages[p].slots, slot)
           /\ ~IsFree(slot) /\ slot.onPage /\ slot.redirected = redirected
           /\ slot.item = r /\ slot.original = tid
  BY <1>2
<1>4. pages[p] # ZeroPage
  <2>1. Room(Room(r.length) + Prefix(redirected)) \in Nat
    <3>1. r.length \in Nat
      BY LengthsAssumption DEF Records
    <3>2. Room(r.length) \in Nat /\ Prefix(redirected) \in Nat
      BY <3>1, SizesAssumption, RoomNumber DEF Prefix
    <3>3. Room(r.length) + Prefix(redirected) \in Nat
      BY <3>2
    <3>4. QED
      BY <3>3, RoomNumber
  <2>2. pages[p].freeSpace >= Room(Room(r.length) + Prefix(redirected)) + SlotSize
    BY DEF InsertAssertion, HasFreeSpace
  <2>3. SlotSize \in Nat /\ SlotSize > 0
    BY SizesAssumption
  <2>4. pages[p].freeSpace # 0
    BY <2>1, <2>2, <2>3
  <2>5. QED
    BY <2>4 DEF ZeroPage
<1> HIDE DEF q
<1>5. x \in TIDs \ Taken /\ SlotStep(x, slot)
  BY <1>2, <1>3, <1>4, AppendStep DEF q
<1> HIDE DEF x
<1>6. Inserted(x, slot, r, redirected, tid)
  BY <1>3, <1>5 DEF Inserted
<1>7. QED
  BY <1>5, <1>6 DEF x

LEMMA ReviseInPlace ==
  ASSUME PInv, NEW x \in Taken, NEW r \in Records, Live(x), SlotOf[x].onPage,
         UpdateInPlaceAssertion(Slot(x), r.length),
         Change(x.page, UpdateInPlace(pages[x.page], x.slot, r, r.length))
  PROVE  \E slot \in SPSlots : Revised(x, slot, r)
<1> DEFINE p == pages[x.page]
<1>1. /\ x.slot \in Nat /\ x.slot < Len(p.slots) /\ p \in SPPages /\ PageOK(p)
      /\ SlotOf[x] = Slot(x) /\ SlotOf[x] = p.slots[x.slot + 1]
  BY TakenPage
<1>2. r.length \in Nat /\ r.length > 0
  BY RecordLength
<1>3. Room(r.length) <= p.slots[x.slot + 1].length
  BY <1>1 DEF UpdateInPlaceAssertion
<1>4. PICK slot \in SPSlots :
        /\ Replaces(p, UpdateInPlace(p, x.slot, r, r.length), x.slot, slot)
        /\ slot.length = r.length /\ slot.item = r
        /\ slot.onPage = p.slots[x.slot + 1].onPage
        /\ slot.redirected = p.slots[x.slot + 1].redirected
        /\ slot.original = p.slots[x.slot + 1].original
  BY <1>1, <1>2, <1>3, UpdateInPlacePage
<1>5. SlotStep(x, slot)
  BY <1>4, ReplaceStep
<1>6. ~IsFree(slot)
  BY <1>2, <1>4 DEF IsFree
<1>7. Revised(x, slot, r)
  BY <1>1, <1>4, <1>5, <1>6 DEF Revised
<1>8. QED
  BY <1>7

LEMMA ReviseOnPage ==
  ASSUME PInv, NEW x \in Taken, NEW r \in Records, Live(x), SlotOf[x].onPage,
         SlotOf[x].redirected => r.length >= TIDSize,
         HasUpdateSpace(pages[x.page], r.length + Prefix(SlotOf[x].redirected)),
         Change(x.page, UpdateOnPage(pages[x.page], x.slot, r))
  PROVE  \E slot \in SPSlots : Revised(x, slot, r)
<1> DEFINE p == pages[x.page]
<1>1. /\ x.slot \in Nat /\ x.slot < Len(p.slots) /\ p \in SPPages /\ PageOK(p)
      /\ SlotOf[x] = Slot(x) /\ SlotOf[x] = p.slots[x.slot + 1]
  BY TakenPage
<1>2. r.length \in Nat /\ r.length > 0
  BY RecordLength
<1>3. /\ HasUpdateSpace(p, r.length + Prefix(p.slots[x.slot + 1].redirected))
      /\ p.slots[x.slot + 1].redirected => r.length >= TIDSize
  BY <1>1
<1>4. PICK slot \in SPSlots :
        /\ Replaces(p, UpdateOnPage(p, x.slot, r), x.slot, slot)
        /\ slot.length = r.length /\ slot.item = r
        /\ slot.onPage = p.slots[x.slot + 1].onPage
        /\ slot.redirected = p.slots[x.slot + 1].redirected
        /\ slot.original = p.slots[x.slot + 1].original
  <2>1. PICK i \in Nat : i = x.slot
    BY <1>1
  <2>2. /\ p \in SPPages /\ PageOK(p) /\ i < Len(p.slots)
        /\ p.slots[i + 1].redirected => r.length >= TIDSize
        /\ HasUpdateSpace(p, r.length + Prefix(p.slots[i + 1].redirected))
    BY <1>1, <1>2, <1>3, <2>1
  <2> HIDE DEF p
  <2>3. \E slot \in SPSlots :
          /\ Replaces(p, UpdateOnPage(p, i, r), i, slot)
          /\ slot.length = r.length /\ slot.item = r
          /\ slot.onPage = p.slots[i + 1].onPage
          /\ slot.redirected = p.slots[i + 1].redirected
          /\ slot.original = p.slots[i + 1].original
    BY <2>2, UpdateOnPagePage
  <2>4. QED
    BY <2>1, <2>3
<1>5. SlotStep(x, slot)
  BY <1>4, ReplaceStep
<1>6. ~IsFree(slot)
  BY <1>2, <1>4 DEF IsFree
<1>7. Revised(x, slot, r)
  BY <1>1, <1>4, <1>5, <1>6 DEF Revised
<1>8. QED
  BY <1>7

LEMMA EmptyStep ==
  ASSUME PInv, NEW x \in Taken, Live(x), SlotOf[x].onPage,
         Change(x.page, RemoveSlot(pages[x.page], x.slot))
  PROVE  \E slot \in SPSlots : Emptied(x, slot)
<1> DEFINE p == pages[x.page]
           slot == Freed(p.slots[x.slot + 1])
<1>1. /\ x.slot \in Nat /\ x.slot < Len(p.slots) /\ p \in SPPages /\ PageOK(p)
      /\ SlotOf[x] = p.slots[x.slot + 1]
  BY TakenPage
<1>2. /\ Replaces(p, RemoveSlot(p, x.slot), x.slot, slot)
      /\ IsFree(slot) /\ slot.redirected = p.slots[x.slot + 1].redirected
  BY <1>1, RemovePage
<1> HIDE DEF slot
<1>3. SlotStep(x, slot)
  BY <1>2, ReplaceStep
<1>4. Emptied(x, slot) /\ slot \in SPSlots
  BY <1>1, <1>2, <1>3 DEF Emptied, Replaces
<1>5. QED
  BY <1>4

LEMMA LinkStep ==
  ASSUME PInv, NEW x \in Taken, NEW target \in TIDs, TIDSize <= SlotOf[x].length,
         Change(x.page, RedirectedPage(pages[x.page], x.slot, target))
  PROVE  \E slot \in SPSlots : Linked(x, slot, target)
<1> DEFINE p == pages[x.page]
           q == RedirectedPage(p, x.slot, target)
<1>1. /\ x.slot \in Nat /\ x.slot < Len(p.slots) /\ p \in SPPages /\ PageOK(p)
      /\ SlotOf[x] = p.slots[x.slot + 1] /\ SlotOf[x].length \in Nat
  BY TakenPage
<1>2. TIDSize <= p.slots[x.slot + 1].length
  BY <1>1
<1> HIDE DEF p
<1>3. PICK slot \in SPSlots :
        /\ Replaces(p, q, x.slot, slot)
        /\ slot.length = TIDSize /\ slot.item = target /\ ~slot.onPage
        /\ slot.redirected = p.slots[x.slot + 1].redirected
        /\ slot.original = p.slots[x.slot + 1].original
  BY <1>1, <1>2, RedirectPage
<1> HIDE DEF q
<1>4. SlotStep(x, slot)
  BY <1>3, ReplaceStep DEF p, q
<1>5. ~IsFree(slot) /\ Live(x)
  <2>1. TIDSize # 0 /\ SlotOf[x].length # 0
    BY <1>1, SizesAssumption
  <2>2. QED
    BY <1>3, <2>1 DEF IsFree, Live
<1>6. Linked(x, slot, target)
  BY <1>1, <1>3, <1>4, <1>5 DEF Linked
<1>7. QED
  BY <1>6

\* An assertion has failed: nothing else changes.
Aborted == running' = FALSE /\ pages' = pages /\ pc' = pc /\ op' = op

\* The record of t is inserted, as slot x.
Placed(t, x, slot) ==
  /\ Inserted(x, slot, op[t].record, op[t].tid # Nil, op[t].tid)
  /\ running' = running
  /\ IF op[t].tid # Nil
       THEN op' = [op EXCEPT ![t].target = x] /\ Goto(t, "redirect")
       ELSE Return(t)

LEMMA PlaceEffect ==
  ASSUME PInv, NEW t \in Writers, pc[t] # "idle", NEW p \in PageIds, Place(t, p)
  PROVE  Aborted \/ \E x \in TIDs, slot \in SPSlots : Placed(t, x, slot)
<1>1. op[t].record \in Records /\ op[t].tid \in TIDs \cup {Nil}
  BY PInvTypes DEF PInv, WritersOK, WriterOK, LabelOK, Ops
<1>2. PICK r \in Records : r = op[t].record
  BY <1>1
<1>3. PICK tid \in TIDs \cup {Nil} : tid = op[t].tid
  BY <1>1
<1>4. PICK moves \in BOOLEAN : moves = (op[t].tid # Nil)
  OBVIOUS
<1>5. CASE InsertAssertion(pages[p], r, moves)
  <2>1. InsertAssertion(pages[p], op[t].record, op[t].tid # Nil)
    BY <1>2, <1>4, <1>5
  <2>2. /\ Change(p, InsertRecord(pages[p], op[t].record, op[t].tid # Nil, op[t].tid))
        /\ running' = running
        /\ \/ /\ op[t].tid # Nil /\ Goto(t, "redirect")
              /\ op' = [op EXCEPT ![t].target = [page |-> p, slot |-> Len(pages[p].slots)]]
           \/ op[t].tid = Nil /\ Return(t)
    BY <2>1 DEF Place
  <2>3. Change(p, InsertRecord(pages[p], r, moves, tid))
    BY <1>2, <1>3, <1>4, <2>2
  <2>4. PICK x \in TIDs, slot \in SPSlots :
          /\ Inserted(x, slot, r, moves, tid) /\ x = [page |-> p, slot |-> Len(pages[p].slots)]
    BY <1>5, <2>3, InsertStep
  <2>5. Inserted(x, slot, op[t].record, op[t].tid # Nil, op[t].tid)
    BY <1>2, <1>3, <1>4, <2>4
  <2>6. Placed(t, x, slot)
    BY <2>2, <2>4, <2>5 DEF Placed
  <2>7. QED
    BY <2>6
<1>6. CASE ~InsertAssertion(pages[p], r, moves)
  <2>1. ~InsertAssertion(pages[p], op[t].record, op[t].tid # Nil)
    BY <1>2, <1>4, <1>6
  <2>2. Abort
    BY <2>1 DEF Place
  <2>3. QED
    BY <2>2 DEF Abort, Aborted
<1>7. QED
  BY <1>5, <1>6

LEMMA UpdateHereEffect ==
  ASSUME PInv, NEW t \in Writers, NEW tid \in Given, NEW r \in Records,
         UpdateHere(t, tid, r)
  PROVE  /\ Live(tid) /\ SlotOf[tid].onPage
         /\ \/ Aborted
            \/ /\ running' = running /\ pc' = pc /\ op' = op
               /\ \E slot \in SPSlots : Revised(tid, slot, r)
<1>1. tid \in Taken /\ ~SlotOf[tid].redirected
  BY GivenTaken
<1>2. SlotOf[tid] = Slot(tid) /\ SlotOf[tid].length \in Nat
  BY <1>1, TakenPage
<1>3. r.length \in Nat
  BY RecordLength
<1>4. Live(tid) /\ SlotOf[tid].onPage
  BY <1>1, <1>2 DEF UpdateHere, Live
<1>5. r.length <= Slot(tid).length => ~(r.length > Slot(tid).length)
  BY <1>2, <1>3
<1>6. CASE r.length <= Slot(tid).length /\ UpdateInPlaceAssertion(Slot(tid), r.length)
  <2>1. /\ Change(tid.page, UpdateInPlace(pages[tid.page], tid.slot, r, r.length))
        /\ running' = running /\ pc' = pc /\ op' = op
    BY <1>5, <1>6 DEF UpdateHere
  <2>2. QED
    BY <1>1, <1>4, <1>6, <2>1, ReviseInPlace
<1>7. CASE r.length <= Slot(tid).length /\ ~UpdateInPlaceAssertion(Slot(tid), r.length)
  <2>1. Abort
    BY <1>5, <1>7 DEF UpdateHere
  <2>2. QED
    BY <1>4, <2>1 DEF Abort, Aborted
<1>8. CASE ~(r.length <= Slot(tid).length)
  <2>1. /\ Change(tid.page, UpdateOnPage(pages[tid.page], tid.slot, r))
        /\ HasUpdateSpace(pages[tid.page], r.length)
        /\ running' = running /\ pc' = pc /\ op' = op
    BY <1>8 DEF UpdateHere
  <2>2. r.length + Prefix(SlotOf[tid].redirected) = r.length
    BY <1>1, <1>3 DEF Prefix
  <2>3. HasUpdateSpace(pages[tid.page], r.length + Prefix(SlotOf[tid].redirected))
    BY <2>1, <2>2
  <2>4. QED
    BY <1>1, <1>4, <2>1, <2>3, ReviseOnPage
<1>9. QED
  BY <1>6, <1>7, <1>8

LEMMA RemoveEffect ==
  ASSUME PInv, NEW t \in Writers, NEW tid \in Given, RemoveRecord(t, tid)
  PROVE  /\ Live(tid)
         /\ \/ Aborted
            \/ /\ running' = running /\ pc' = pc /\ op' = op
               /\ \E slot \in SPSlots : Emptied(tid, slot)
<1>1. tid \in Taken
  BY GivenTaken
<1>2. SlotOf[tid] = Slot(tid)
  BY <1>1, TakenPage
<1>3. Live(tid)
  BY <1>1, <1>2 DEF RemoveRecord, Live
<1>4. CASE Slot(tid).onPage
  <2>1. /\ Change(tid.page, RemoveSlot(pages[tid.page], tid.slot))
        /\ running' = running /\ pc' = pc /\ op' = op
    BY <1>4 DEF RemoveRecord
  <2>2. QED
    BY <1>1, <1>2, <1>3, <1>4, <2>1, EmptyStep
<1>5. CASE ~Slot(tid).onPage
  <2>1. Abort
    BY <1>5 DEF RemoveRecord
  <2>2. QED
    BY <1>3, <2>1 DEF Abort, Aborted
<1>6. QED
  BY <1>4, <1>5

LEMMA UpdateMovedEffect ==
  ASSUME PInv, NoneGrowsShort, NEW t \in Writers, UpdateMoved(t)
  PROVE  /\ op[t].target \in Places /\ op[t].tid # Nil
         /\ \/ Aborted
            \/ /\ running' = running /\ Return(t)
               /\ \E slot \in SPSlots : Revised(op[t].target, slot, op[t].record)
            \/ /\ running' = running /\ BeginSearch(t, op[t])
               /\ \E slot \in SPSlots : Emptied(op[t].target, slot)
<1>1. op[t].target \in Places /\ op[t].tid # Nil /\ op[t].record \in Records
  BY DEF UpdateMoved, PInv, WritersOK, WriterOK, LabelOK
<1>2. PICK x \in Places : x = op[t].target
  BY <1>1
<1>3. PICK r \in Records : r = op[t].record
  BY <1>1
<1>4. x \in Taken /\ SlotOf[x].redirected
  BY DEF Places
<1>5. SlotOf[x] = Slot(x)
  BY <1>4, TakenPage
<1> DEFINE OK == /\ RedirectAssertion(x)
                 /\ r.length <= Slot(x).length => UpdateInPlaceAssertion(Slot(x), r.length)
<1>6. CASE ~OK
  <2>1. Abort
    BY <1>2, <1>3, <1>6 DEF UpdateMoved
  <2>2. QED
    BY <1>1, <2>1 DEF Abort, Aborted
<1>7. CASE OK
  <2>1. /\ running' = running
        /\ \/ /\ r.length <= Slot(x).length
              /\ Change(x.page, UpdateInPlace(pages[x.page], x.slot, r, r.length))
              /\ Return(t)
           \/ /\ ~(r.length <= Slot(x).length)
              /\ HasUpdateSpace(pages[x.page], r.length + TIDSize)
              /\ Change(x.page, UpdateOnPage(pages[x.page], x.slot, r))
              /\ Return(t)
           \/ /\ Change(x.page, RemoveSlot(pages[x.page], x.slot))
              /\ BeginSearch(t, op[t])
    BY <1>2, <1>3, <1>7 DEF UpdateMoved
  <2>2. Live(x) /\ SlotOf[x].onPage
    BY <1>4, <1>5, <1>7 DEF RedirectAssertion, Live
  <2>3. CASE /\ r.length <= Slot(x).length
             /\ Change(x.page, UpdateInPlace(pages[x.page], x.slot, r, r.length))
             /\ Return(t)
    <3>1. \E slot \in SPSlots : Revised(x, slot, r)
      BY <1>4, <1>7, <2>2, <2>3, ReviseInPlace
    <3>2. QED
      BY <1>1, <1>2, <1>3, <2>1, <2>3, <3>1
  <2>4. CASE /\ ~(r.length <= Slot(x).length)
             /\ HasUpdateSpace(pages[x.page], r.length + TIDSize)
             /\ Change(x.page, UpdateOnPage(pages[x.page], x.slot, r))
             /\ Return(t)
    <3>1. Prefix(SlotOf[x].redirected) = TIDSize
      BY <1>4 DEF Prefix
    <3>2. r.length >= TIDSize
      <4>1. r.length \in Nat /\ Slot(x).length \in Nat
        BY <1>4, <1>5, TakenPage, RecordLength
      <4>2. r.length > Slot(x).length
        BY <2>4, <4>1
      <4> QED
        BY <1>2, <1>3, <4>2 DEF NoneGrowsShort, UpdateMoved
    <3>3. \E slot \in SPSlots : Revised(x, slot, r)
      BY <1>4, <2>2, <2>4, <3>1, <3>2, ReviseOnPage
    <3>4. QED
      BY <1>1, <1>2, <1>3, <2>1, <2>4, <3>3
  <2>5. CASE Change(x.page, RemoveSlot(pages[x.page], x.slot)) /\ BeginSearch(t, op[t])
    <3>1. \E slot \in SPSlots : Emptied(x, slot)
      BY <1>4, <2>2, <2>5, EmptyStep
    <3>2. QED
      BY <1>1, <1>2, <2>1, <2>5, <3>1
  <2>6. QED
    BY <2>1, <2>3, <2>4, <2>5
<1>8. QED
  BY <1>6, <1>7

LEMMA RedirectEffect ==
  ASSUME PInv, NEW t \in Writers, Redirect(t)
  PROVE  /\ op[t].target \in Places /\ op[t].tid \in Given
         /\ \/ Aborted
            \/ /\ running' = running /\ Return(t)
               /\ SlotOf[op[t].tid].onPage \/ op[t].moved
               /\ \E slot \in SPSlots : Linked(op[t].tid, slot, op[t].target)
<1>1. op[t].target \in Places /\ op[t].tid \in Given
  BY DEF Redirect, PInv, WritersOK, WriterOK, LabelOK
<1>2. PICK x \in Given : x = op[t].tid
  BY <1>1
<1>3. PICK target \in TIDs : target = op[t].target
  BY <1>1, GivenOrPlace
<1>4. x \in Taken
  BY GivenTaken
<1>5. SlotOf[x] = Slot(x) /\ SlotOf[x] \in SPSlots /\ SlotOf[x].onPage \in BOOLEAN
  BY <1>4, TakenPage
<1>6. op[t].moved \in BOOLEAN
  BY PInvTypes DEF Ops
<1> DEFINE marked == [Slot(x) EXCEPT !.onPage = @ \/ op[t].moved]
<1>7. marked.length = SlotOf[x].length /\ (marked.onPage => SlotOf[x].onPage \/ op[t].moved)
  BY <1>5, <1>6 DEF SPSlots
<1>8. CASE ~UpdateInPlaceAssertion(marked, TIDSize)
  <2>1. Abort
    BY <1>2, <1>8 DEF Redirect
  <2>2. QED
    BY <1>1, <2>1 DEF Abort, Aborted
<1>9. CASE UpdateInPlaceAssertion(marked, TIDSize)
  <2>1. /\ Change(x.page, RedirectedPage(pages[x.page], x.slot, target))
        /\ running' = running /\ Return(t)
    BY <1>2, <1>3, <1>9 DEF Redirect, RedirectedPage
  <2>2. TIDSize <= SlotOf[x].length /\ (SlotOf[x].onPage \/ op[t].moved)
    <3>1. Room(TIDSize) = TIDSize
      BY SizesAssumption DEF Room
    <3> HIDE DEF marked
    <3>2. QED
      BY <1>7, <1>9, <3>1 DEF UpdateInPlaceAssertion
  <2>3. \E slot \in SPSlots : Linked(x, slot, target)
    BY <1>4, <2>1, <2>2, LinkStep
  <2>4. QED
    BY <1>1, <1>2, <1>3, <2>1, <2>2, <2>3
<1>10. QED
  BY <1>8, <1>9

LEMMA InitPageEffect ==
  ASSUME PInv, NEW t \in Writers, InitPage(t)
  PROVE  /\ SameSlots /\ pages' = [pages EXCEPT ![op[t].page] = InitialPage]
         /\ op[t].page \in PageIds /\ op[t].page < size
<1>1. pages' = [pages EXCEPT ![op[t].page] = InitialPage] /\ pc[t] = "init"
  BY DEF InitPage, Change
<1>2. pages[op[t].page] = ZeroPage /\ op[t].page < size /\ op[t].page \in PageIds
  <2>1. pages[op[t].page] = ZeroPage /\ op[t].page < size
    BY <1>1 DEF PInv, WritersOK, WriterOK, LabelOK
  <2>2. op[t].page \in 0 .. MaxPages /\ size \in 0 .. MaxPages /\ MaxPages \in Nat
    BY PInvTypes DEF Ops
  <2>3. QED
    BY <2>1, <2>2 DEF PageIds
<1>3. pages \in [PageIds -> SPPages]
  BY PInvTypes
<1>4. \A p \in PageIds : pages'[p].slots = pages[p].slots
  BY <1>1, <1>2, <1>3 DEF ZeroPage, InitialPage
<1>5. \A x \in TIDs : HasSlot(x)' <=> HasSlot(x)
  BY <1>4, TIDFields DEF HasSlot
<1>6. Taken' = Taken
  BY <1>5 DEF Taken
<1>7. SlotOf' = SlotOf
  BY <1>3, <1>4, <1>6, TakenSlots DEF SlotOf, Slot
<1>8. QED
  BY <1>1, <1>2, <1>6, <1>7 DEF SameSlots

---------------------------------------------------------------------------
(* PInv is inductive. *)

Labels == {"idle", "moved", "search", "init", "place", "redirect", "lookup"}

\* A step leaves pages and links as PInv has them.
PagesKept ==
  /\ pages' \in [PageIds -> SPPages] /\ size' \in 0 .. MaxPages /\ size' >= size
  /\ PagesOK' /\ LinksOK' /\ Given \subseteq Given' /\ Places \subseteq Places'

\* A step of a writer leaves the iterators alone.
GhostsKept ==
  /\ scan' = scan /\ running' \in BOOLEAN
  /\ due' \in [Readers -> SUBSET TIDs] /\ done' \in [Readers -> SUBSET TIDs]
  /\ again' \in [Readers -> SUBSET TIDs]

LEMMA PrimedGiven == (Given = {x \in Taken : ~SlotOf[x].redirected})'
BY GivenTaken, PTL

LEMMA SlotKeepsPages ==
  ASSUME PInv, NEW x \in TIDs, NEW slot, SlotStep(x, slot), size' = size,
         x \in Taken => slot.redirected = SlotOf[x].redirected,
         ~IsFree(slot) => IF slot.onPage THEN slot.item \in Records
                                         ELSE slot.item \in Places /\ ~slot.redirected
  PROVE  PagesKept
<1>1. /\ Taken' = Taken \cup {x}
      /\ SlotOf' = [y \in Taken \cup {x} |-> IF y = x THEN slot ELSE SlotOf[y]]
      /\ pages' \in [PageIds -> SPPages]
      /\ \A p \in PageIds : PageOK(pages'[p]) /\ (pages[p] = ZeroPage => pages'[p] = ZeroPage)
  BY DEF SlotStep, SetsSlot
<1>2. Given \subseteq Given'
  BY <1>1, GivenTaken, PrimedGiven
<1>3. Places \subseteq Places'
  BY <1>1 DEF Places
<1>4. PagesOK'
  BY <1>1 DEF PInv, PagesOK
<1>5. LinksOK'
  <2>1. LinksOK
    BY DEF PInv
  <2>2. QED
    BY <1>1, <1>3, <2>1 DEF LinksOK
<1>6. size' \in 0 .. MaxPages /\ size' >= size
  BY PInvTypes
<1>7. QED
  BY <1>1, <1>2, <1>3, <1>4, <1>5, <1>6 DEF PagesKept

LEMMA SamePagesKept ==
  ASSUME PInv, pages' = pages, size' \in 0 .. MaxPages, size' >= size
  PROVE  PagesKept
<1>1. Taken' = Taken /\ SlotOf' = SlotOf
  BY SamePagesSameSlots DEF SameSlots
<1>2. Given' = Given /\ Places' = Places
  BY <1>1, GivenTaken, PrimedGiven DEF Places
<1>3. PagesOK'
  <2>1. ASSUME NEW p \in PageIds, p >= size'
        PROVE  p >= size
    BY <2>1, PInvTypes DEF PageIds
  <2>2. QED
    BY <2>1 DEF PInv, PagesOK
<1>4. LinksOK'
  BY <1>1, <1>2 DEF PInv, LinksOK
<1>5. QED
  BY <1>2, <1>3, <1>4, PInvTypes DEF PagesKept

\* The writer goes on to a label.
LEMMA WriterMoves ==
  ASSUME PInv, OneWriter, PagesKept, NEW t \in Writers, NEW label \in Labels, NEW o \in Ops,
         pc' = [pc EXCEPT ![t] = label], op' = [op EXCEPT ![t] = o], GhostsKept,
         LabelOK(label, o)'
  PROVE  PInv'
<1>1. /\ pc \in [Threads -> Labels] /\ op \in [Threads -> Ops]
      /\ t \in Threads /\ scan \in [Readers -> Iterators \cup {Nil}]
      /\ Readers \subseteq Threads /\ Writers \subseteq Threads /\ Writers \cap Readers = {}
  BY PInvTypes DEF Labels
<1>2. TypeOK'
  <2>1. pc' \in [Threads -> Labels] /\ op' \in [Threads -> Ops]
    BY <1>1
  <2>2. QED
    BY <1>1, <2>1 DEF TypeOK, PagesKept, GhostsKept, Labels
<1>3. WritersOK'
  <2>1. ASSUME NEW u \in Writers
        PROVE  LabelOK(pc[u], op[u])'
    <3>1. u = t
      BY DEF OneWriter
    <3>2. pc'[u] = label /\ op'[u] = o
      BY <1>1, <3>1
    <3>3. QED
      BY <3>2 DEF LabelOK
  <2>2. QED
    BY <2>1 DEF WritersOK, WriterOK
<1>4. ReadersOK'
  <2>1. ASSUME NEW u \in Readers
        PROVE  ReaderOK(u)'
    <3>1. pc'[u] = pc[u] /\ op'[u] = op[u] /\ scan'[u] = scan[u]
      BY <1>1 DEF GhostsKept
    <3>2. Given \subseteq Given' /\ Places \subseteq Places' /\ size' >= size
          /\ size' \in 0 .. MaxPages
      BY DEF PagesKept
    <3>3. scan[u] # Nil => scan[u].bound \in 0 .. MaxPages
      BY <1>1 DEF Iterators
    <3>4. ReaderOK(u)
      BY DEF PInv, ReadersOK
    <3>5. scan[u] # Nil => scan[u].bound <= size'
      BY <3>2, <3>3, <3>4, PInvTypes DEF ReaderOK
    <3>6. QED
      BY <3>1, <3>2, <3>4, <3>5 DEF ReaderOK
  <2>2. QED
    BY <2>1 DEF ReadersOK
<1>5. QED
  BY <1>2, <1>3, <1>4 DEF PInv, PagesKept

\* The writer stays where it is.
LEMMA WriterStays ==
  ASSUME PInv, OneWriter, PagesKept, NEW t \in Writers, pc' = pc, op' = op, GhostsKept,
         \A p \in PageIds : pages[p] = ZeroPage => pages'[p] = ZeroPage
  PROVE  PInv'
<1>1. /\ pc \in [Threads -> Labels] /\ op \in [Threads -> Ops] /\ t \in Threads
      /\ size \in 0 .. MaxPages /\ MaxPages \in Nat
  BY PInvTypes DEF Labels
<1>2. PICK label \in Labels : label = pc[t]
  BY <1>1
<1>3. PICK o \in Ops : o = op[t]
  BY <1>1
<1>4. pc' = [pc EXCEPT ![t] = label] /\ op' = [op EXCEPT ![t] = o]
  BY <1>1, <1>2, <1>3
<1>5. LabelOK(label, o)
  BY <1>2, <1>3 DEF PInv, WritersOK, WriterOK, LabelOK
<1>6. LabelOK(label, o)'
  <2>1. /\ Given \subseteq Given' /\ Places \subseteq Places' /\ size' >= size
        /\ size' \in 0 .. MaxPages /\ o.page \in 0 .. MaxPages /\ o.bound \in 0 .. MaxPages
    BY DEF PagesKept, Ops
  <2>2. o.page < size => o.page \in PageIds /\ o.page < size'
    BY <1>1, <2>1 DEF PageIds
  <2>3. o.bound <= size => o.bound <= size'
    BY <1>1, <2>1
  <2>4. QED
    BY <1>5, <2>1, <2>2, <2>3 DEF LabelOK
<1>7. QED
  BY <1>4, <1>6, WriterMoves

\* An assertion fails.
LEMMA AbortedKeeps ==
  ASSUME PInv, OneWriter, NEW t \in Writers, Aborted, size' = size, GhostsKept
  PROVE  PInv'
<1>1. PagesKept
  BY SamePagesKept, PInvTypes DEF Aborted
<1>2. QED
  BY <1>1, WriterStays DEF Aborted

LEMMA GhostTypes ==
  ASSUME PInv, running' \in BOOLEAN, scan' = scan,
         UNCHANGED ghostVars \/ \E tid : Touch(tid)
  PROVE  GhostsKept
<1>1. /\ due \in [Readers -> SUBSET TIDs] /\ done \in [Readers -> SUBSET TIDs]
      /\ again \in [Readers -> SUBSET TIDs]
  BY PInvTypes
<1>2. CASE UNCHANGED ghostVars
  BY <1>1, <1>2 DEF ghostVars, GhostsKept
<1>3. CASE \E tid : Touch(tid)
  <2>1. PICK tid : Touch(tid)
    BY <1>3
  <2>2. /\ due' = [u \in Readers |-> due[u] \ {tid}]
        /\ done' = [u \in Readers |-> done[u] \ {tid}] /\ again' = again
    BY <2>1 DEF Touch
  <2>3. QED
    BY <1>1, <2>2 DEF GhostsKept
<1>4. QED
  BY <1>2, <1>3

LEMMA NoOpType == NoOp \in Ops
BY PagesAssumption DEF NoOp, Ops

LEMMA IdleLabel == LabelOK("idle", NoOp)'
BY DEF LabelOK, NoOp

LEMMA ReturnKeeps ==
  ASSUME PInv, OneWriter, PagesKept, GhostsKept, NEW t \in Writers, Return(t)
  PROVE  PInv'
<1>1. pc' = [pc EXCEPT ![t] = "idle"] /\ op' = [op EXCEPT ![t] = NoOp]
  BY DEF Return, Goto
<1>2. QED
  BY <1>1, NoOpType, IdleLabel, WriterMoves DEF Labels

LEMMA BeginSearchKeeps ==
  ASSUME PInv, OneWriter, PagesKept, GhostsKept, NEW t \in Writers, NEW o \in Ops,
         BeginSearch(t, o), o.record \in Records, o.tid # Nil => o.tid \in Given, size' = size
  PROVE  PInv'
<1>1. size \in 0 .. MaxPages /\ MaxPages \in Nat
  BY PInvTypes
<1>2. PICK n \in 0 .. MaxPages : n = size
  BY <1>1
<1> DEFINE new == [o EXCEPT !.page = 0, !.bound = n]
<1>3. /\ pc' = [pc EXCEPT ![t] = "search"] /\ op' = [op EXCEPT ![t] = new]
  BY <1>2 DEF BeginSearch, Goto
<1>4. 0 \in 0 .. MaxPages
  BY <1>1
<1>5. /\ new \in Ops /\ new.record = o.record /\ new.tid = o.tid
      /\ new.page = 0 /\ new.bound = n
  BY <1>4 DEF Ops
<1> HIDE DEF new
<1>6. LabelOK("search", new)'
  <2>1. n <= size' /\ 0 <= n /\ Given \subseteq Given'
    BY <1>1, <1>2 DEF PagesKept
  <2>2. QED
    BY <1>5, <2>1 DEF LabelOK
<1>7. QED
  BY <1>3, <1>5, <1>6, WriterMoves DEF Labels

LEMMA InsertPInv ==
  ASSUME PInv, OneWriter, NEW t \in Writers, NEW r \in Records, Insert(t, r)
  PROVE  PInv'
<1>1. /\ pages' = pages /\ size' = size /\ running' = running /\ scan' = scan
      /\ UNCHANGED ghostVars /\ BeginSearch(t, [NoOp EXCEPT !.record = r])
  BY DEF Insert
<1>2. PagesKept /\ GhostsKept
  BY <1>1, PInvTypes, SamePagesKept, GhostTypes
<1>3. [NoOp EXCEPT !.record = r] \in Ops
  BY NoOpType DEF Ops
<1>4. [NoOp EXCEPT !.record = r].record = r /\ [NoOp EXCEPT !.record = r].tid = Nil
  BY DEF NoOp
<1> DEFINE o == [NoOp EXCEPT !.record = r]
<1> HIDE DEF o
<1>5. QED
  BY <1>1, <1>2, <1>3, <1>4, BeginSearchKeeps DEF o

LEMMA UpdateHerePInv ==
  ASSUME PInv, OneWriter, NEW t \in Writers, NEW tid \in Given,
         NEW r \in Records, UpdateHere(t, tid, r)
  PROVE  PInv'
<1>1. size' = size /\ scan' = scan /\ Touch(tid)
  BY DEF UpdateHere
<1>2. CASE Aborted
  <2>1. GhostsKept
    BY <1>1, <1>2, GhostTypes DEF Aborted
  <2>2. QED
    BY <1>1, <1>2, <2>1, AbortedKeeps
<1>3. CASE /\ running' = running /\ pc' = pc /\ op' = op
           /\ \E slot \in SPSlots : Revised(tid, slot, r)
  <2>1. GhostsKept
    BY <1>1, <1>3, GhostTypes, PInvTypes
  <2>2. PICK slot \in SPSlots : Revised(tid, slot, r)
    BY <1>3
  <2>3. /\ SlotStep(tid, slot) /\ slot.onPage /\ slot.item \in Records
        /\ slot.redirected = SlotOf[tid].redirected /\ tid \in TIDs
    BY <2>2, GivenOrPlace DEF Revised
  <2>4. PagesKept
    BY <1>1, <2>3, SlotKeepsPages
  <2>5. QED
    BY <1>3, <2>1, <2>3, <2>4, WriterStays DEF SlotStep
<1>4. QED
  BY <1>2, <1>3, UpdateHereEffect

LEMMA RemovePInv ==
  ASSUME PInv, OneWriter, NEW t \in Writers, NEW tid \in Given, RemoveRecord(t, tid)
  PROVE  PInv'
<1>1. size' = size /\ scan' = scan /\ Touch(tid)
  BY DEF RemoveRecord
<1>2. CASE Aborted
  <2>1. GhostsKept
    BY <1>1, <1>2, GhostTypes DEF Aborted
  <2>2. QED
    BY <1>1, <1>2, <2>1, AbortedKeeps
<1>3. CASE /\ running' = running /\ pc' = pc /\ op' = op
           /\ \E slot \in SPSlots : Emptied(tid, slot)
  <2>1. GhostsKept
    BY <1>1, <1>3, GhostTypes, PInvTypes
  <2>2. PICK slot \in SPSlots : Emptied(tid, slot)
    BY <1>3
  <2>3. /\ SlotStep(tid, slot) /\ IsFree(slot)
        /\ slot.redirected = SlotOf[tid].redirected /\ tid \in TIDs
    BY <2>2, GivenOrPlace DEF Emptied
  <2>4. PagesKept
    BY <1>1, <2>3, SlotKeepsPages
  <2>5. QED
    BY <1>3, <2>1, <2>3, <2>4, WriterStays DEF SlotStep
<1>4. QED
  BY <1>2, <1>3, RemoveEffect

LEMMA UpdateAwayPInv ==
  ASSUME PInv, OneWriter, NEW t \in Writers, NEW tid \in Given, NEW r \in Records,
         UpdateAway(t, tid, r)
  PROVE  PInv'
<1> DEFINE o == [NoOp EXCEPT !.tid = tid, !.record = r]
<1>1. /\ pages' = pages /\ size' = size /\ running' = running /\ scan' = scan
      /\ Touch(tid) /\ BeginSearch(t, o)
  BY DEF UpdateAway
<1>2. PagesKept /\ GhostsKept
  BY <1>1, PInvTypes, SamePagesKept, GhostTypes
<1>3. tid \in TIDs
  BY GivenOrPlace
<1>4. o \in Ops /\ o.record = r /\ o.tid = tid
  BY <1>3, NoOpType DEF Ops
<1> HIDE DEF o
<1>5. QED
  BY <1>1, <1>2, <1>4, BeginSearchKeeps

LEMMA UpdateFollowPInv ==
  ASSUME PInv, OneWriter, NEW t \in Writers, NEW tid \in Given, NEW r \in Records,
         UpdateFollow(t, tid, r)
  PROVE  PInv'
<1>1. /\ pages' = pages /\ size' = size /\ running' = running /\ scan' = scan
      /\ Touch(tid) /\ pc' = [pc EXCEPT ![t] = "moved"]
      /\ op' = [op EXCEPT ![t] = [NoOp EXCEPT !.tid = tid, !.record = r, !.moved = TRUE,
                                              !.target = Slot(tid).item]]
      /\ ~IsFree(Slot(tid)) /\ ~Slot(tid).onPage
  BY DEF UpdateFollow, Goto
<1>2. PagesKept /\ GhostsKept
  BY <1>1, PInvTypes, SamePagesKept, GhostTypes
<1>3. tid \in Taken /\ SlotOf[tid] = Slot(tid) /\ tid \in TIDs
  BY GivenTaken, GivenOrPlace, TakenPage
<1>4. Slot(tid).item \in Places
  BY <1>1, <1>3 DEF PInv, LinksOK
<1>5. PICK target \in Places : target = Slot(tid).item
  BY <1>4
<1>6. target \in TIDs
  BY GivenOrPlace
<1> DEFINE o == [NoOp EXCEPT !.tid = tid, !.record = r, !.moved = TRUE, !.target = target]
<1>7. op' = [op EXCEPT ![t] = o]
  BY <1>1, <1>5
<1>8. o \in Ops /\ o.record = r /\ o.tid = tid /\ o.target = target
  BY <1>3, <1>6, NoOpType DEF Ops
<1> HIDE DEF o
<1>9. LabelOK("moved", o)'
  <2>1. target \in Places' /\ tid \in Given' /\ tid # Nil
    BY <1>2, <1>3, NilIsNone DEF PagesKept
  <2>2. QED
    BY <1>8, <2>1 DEF LabelOK
<1>10. QED
  BY <1>1, <1>2, <1>7, <1>8, <1>9, WriterMoves DEF Labels

LEMMA PlacePInv ==
  ASSUME PInv, OneWriter, NEW t \in Writers, pc[t] # "idle", NEW p \in PageIds, Place(t, p),
         size' = size, scan' = scan, UNCHANGED ghostVars
  PROVE  PInv'
<1>1. CASE Aborted
  <2>1. GhostsKept
    BY <1>1, GhostTypes DEF Aborted
  <2>2. QED
    BY <1>1, <2>1, AbortedKeeps
<1>2. CASE \E x \in TIDs, slot \in SPSlots : Placed(t, x, slot)
  <2>1. PICK x \in TIDs, slot \in SPSlots : Placed(t, x, slot)
    BY <1>2
  <2>2. /\ x \notin Taken /\ SlotStep(x, slot) /\ slot.onPage
        /\ slot.redirected = (op[t].tid # Nil)
        /\ slot.item = op[t].record /\ running' = running
    BY <2>1 DEF Placed, Inserted
  <2>3. op[t].record \in Records /\ op[t] \in Ops
    BY PInvTypes DEF PInv, WritersOK, WriterOK, LabelOK
  <2>4. PagesKept
    BY <2>2, <2>3, SlotKeepsPages
  <2>5. GhostsKept
    BY <2>2, GhostTypes, PInvTypes
  <2>6. CASE op[t].tid = Nil
    <3>1. Return(t)
      BY <2>1, <2>6 DEF Placed
    <3>2. QED
      BY <2>4, <2>5, <3>1, ReturnKeeps
  <2>7. CASE op[t].tid # Nil
    <3>1. op' = [op EXCEPT ![t].target = x] /\ pc' = [pc EXCEPT ![t] = "redirect"]
      BY <2>1, <2>7 DEF Placed, Goto
    <3>2. PICK old \in Ops : old = op[t]
      BY <2>3
    <3> DEFINE o == [old EXCEPT !.target = x]
    <3>3. op' = [op EXCEPT ![t] = o]
      BY <3>1, <3>2
    <3>4. o \in Ops /\ o.tid = old.tid /\ o.record = old.record /\ o.target = x
      BY DEF Ops
    <3> HIDE DEF o
    <3>5. x \in Places'
      <4>1. x \in Taken' /\ SlotOf'[x] = slot
        BY <2>2 DEF SlotStep, SetsSlot
      <4>2. QED
        BY <2>2, <2>7, <4>1 DEF Places
    <3>6. old.tid \in Given' /\ old.tid # Nil
      BY <2>4, <2>7, <3>2 DEF PagesKept, PInv, WritersOK, WriterOK, LabelOK
    <3>7. LabelOK("redirect", o)'
      BY <2>3, <3>2, <3>4, <3>5, <3>6 DEF LabelOK
    <3>8. QED
      BY <2>4, <2>5, <3>1, <3>3, <3>4, <3>7, WriterMoves DEF Labels
  <2>8. QED
    BY <2>6, <2>7
<1>3. QED
  BY <1>1, <1>2, PlaceEffect

LEMMA SearchPageId ==
  ASSUME PInv, NEW t \in Writers,
         \/ pc[t] = "search" /\ op[t].page < op[t].bound
         \/ pc[t] = "place"
  PROVE  op[t].page \in PageIds /\ op[t].page < size
<1>1. op[t] \in Ops /\ size \in 0 .. MaxPages /\ MaxPages \in Nat
  BY PInvTypes
<1>2. op[t].page \in Nat /\ op[t].bound \in Nat /\ size \in Nat /\ size <= MaxPages
  BY <1>1 DEF Ops
<1>3. \/ op[t].page < op[t].bound /\ op[t].bound <= size
      \/ op[t].page < size
  BY DEF PInv, WritersOK, WriterOK, LabelOK
<1>4. op[t].page < size
  BY <1>2, <1>3
<1>5. QED
  BY <1>1, <1>2, <1>4 DEF PageIds

LEMMA SearchMissPInv ==
  ASSUME PInv, OneWriter, NEW t \in Writers, SearchMiss(t)
  PROVE  PInv'
<1>1. /\ pages' = pages /\ size' = size /\ running' = running /\ scan' = scan /\ pc' = pc
      /\ UNCHANGED ghostVars /\ op' = [op EXCEPT ![t].page = @ + 1]
      /\ pc[t] = "search" /\ op[t].page < op[t].bound
  BY DEF SearchMiss
<1>2. PagesKept /\ GhostsKept
  BY <1>1, PInvTypes, SamePagesKept, GhostTypes
<1>3. PICK old \in Ops : old = op[t]
  BY PInvTypes
<1>4. LabelOK("search", old)
  BY <1>1, <1>3 DEF PInv, WritersOK, WriterOK, LabelOK
<1> DEFINE o == [old EXCEPT !.page = old.page + 1]
<1>5. old.page + 1 \in 0 .. MaxPages /\ old.page + 1 <= old.bound
  BY <1>1, <1>3, PInvTypes DEF Ops
<1>6. /\ o \in Ops /\ o.tid = old.tid /\ o.record = old.record /\ o.target = old.target
      /\ o.page = old.page + 1 /\ o.bound = old.bound
  BY <1>5 DEF Ops
<1>7. op' = [op EXCEPT ![t] = o] /\ pc' = [pc EXCEPT ![t] = "search"]
  BY <1>1, <1>3, PInvTypes
<1> HIDE DEF o
<1>8. LabelOK("search", o)'
  BY <1>1, <1>2, <1>4, <1>5, <1>6 DEF LabelOK, PagesKept
<1>9. QED
  BY <1>2, <1>6, <1>7, <1>8, WriterMoves DEF Labels

LEMMA AllocatePInv ==
  ASSUME PInv, OneWriter, NEW t \in Writers, AllocatePage(t)
  PROVE  PInv'
<1>1. /\ pages' = pages /\ running' = running /\ scan' = scan /\ op' = op
      /\ UNCHANGED ghostVars
      /\ pc[t] = "search" /\ op[t].page = op[t].bound /\ op[t].page < MaxPages
      /\ size' = IF size < op[t].bound + 1 THEN op[t].bound + 1 ELSE size
      /\ pc' = [pc EXCEPT ![t] = IF size < op[t].bound + 1 THEN "init" ELSE "place"]
  BY DEF AllocatePage, Goto
<1>2. PICK o \in Ops : o = op[t]
  BY PInvTypes
<1>3. LabelOK("search", o)
  BY <1>1, <1>2 DEF PInv, WritersOK, WriterOK, LabelOK
<1>4. /\ o.page \in Nat /\ o.bound = o.page /\ o.page < MaxPages /\ o.page <= size
      /\ size \in Nat /\ size <= MaxPages /\ MaxPages \in Nat
  BY <1>1, <1>2, <1>3, PInvTypes DEF Ops, LabelOK
<1>5. /\ size' \in 0 .. MaxPages /\ size' >= size /\ o.page < size'
      /\ (size < o.bound + 1 => size = o.page) /\ o.page \in PageIds
  BY <1>1, <1>2, <1>4 DEF PageIds
<1>6. PagesKept /\ GhostsKept
  BY <1>1, <1>5, PInvTypes, SamePagesKept, GhostTypes
<1>7. op' = [op EXCEPT ![t] = o]
  BY <1>1, <1>2, PInvTypes
<1>8. CASE size < o.bound + 1
  <2>1. pc' = [pc EXCEPT ![t] = "init"]
    BY <1>1, <1>2, <1>8
  <2>2. pages'[o.page] = ZeroPage
    BY <1>1, <1>4, <1>5, <1>8 DEF PInv, PagesOK
  <2>3. LabelOK("init", o)'
    BY <1>3, <1>5, <1>6, <2>2 DEF LabelOK, PagesKept
  <2>4. QED
    BY <1>6, <1>7, <2>1, <2>3, WriterMoves DEF Labels
<1>9. CASE ~(size < o.bound + 1)
  <2>1. pc' = [pc EXCEPT ![t] = "place"]
    BY <1>1, <1>2, <1>9
  <2>2. LabelOK("place", o)'
    BY <1>3, <1>5, <1>6 DEF LabelOK, PagesKept
  <2>3. QED
    BY <1>6, <1>7, <2>1, <2>2, WriterMoves DEF Labels
<1>10. QED
  BY <1>8, <1>9

LEMMA InitPagePInv ==
  ASSUME PInv, OneWriter, NEW t \in Writers, InitPage(t)
  PROVE  PInv'
<1>1. /\ size' = size /\ running' = running /\ scan' = scan /\ op' = op
      /\ UNCHANGED ghostVars /\ pc[t] = "init" /\ pc' = [pc EXCEPT ![t] = "place"]
  BY DEF InitPage, Goto
<1>2. PICK o \in Ops : o = op[t]
  BY PInvTypes
<1>3. /\ Taken' = Taken /\ SlotOf' = SlotOf /\ pages' = [pages EXCEPT ![o.page] = InitialPage]
      /\ o.page \in PageIds /\ o.page < size
  BY <1>2, InitPageEffect DEF SameSlots
<1>4. Given' = Given /\ Places' = Places
  BY <1>3, GivenTaken, PrimedGiven DEF Places
<1>5. pages' \in [PageIds -> SPPages]
  BY <1>3, PInvTypes, InitialPageOK
<1>6. PagesOK'
  <2>1. ASSUME NEW p \in PageIds
        PROVE  PageOK(pages'[p]) /\ (p >= size' => pages'[p] = ZeroPage)
    <3>1. CASE p = o.page
      <4>1. ~(p >= size')
        BY <1>1, <1>3, <3>1, PInvTypes DEF PageIds
      <4>2. QED
        BY <1>3, <3>1, <4>1, PInvTypes, InitialPageOK
    <3>2. CASE p # o.page
      <4>1. pages'[p] = pages[p]
        BY <1>3, <3>2, PInvTypes
      <4>2. QED
        BY <1>1, <4>1 DEF PInv, PagesOK
    <3>3. QED
      BY <3>1, <3>2
  <2>2. QED
    BY <2>1 DEF PagesOK
<1>7. LinksOK'
  BY <1>3, <1>4 DEF PInv, LinksOK
<1>8. PagesKept
  BY <1>1, <1>4, <1>5, <1>6, <1>7, PInvTypes DEF PagesKept
<1>9. GhostsKept
  BY <1>1, GhostTypes, PInvTypes
<1>10. op' = [op EXCEPT ![t] = o]
  BY <1>1, <1>2, PInvTypes
<1>11. LabelOK("init", o)
  BY <1>1, <1>2 DEF PInv, WritersOK, WriterOK, LabelOK
<1>12. LabelOK("place", o)'
  BY <1>1, <1>4, <1>11 DEF LabelOK
<1>13. QED
  BY <1>1, <1>8, <1>9, <1>10, <1>12, WriterMoves DEF Labels

LEMMA UpdateMovedPInv ==
  ASSUME PInv, OneWriter, NoneGrowsShort, NEW t \in Writers, UpdateMoved(t)
  PROVE  PInv'
<1>1. size' = size /\ scan' = scan /\ UNCHANGED ghostVars /\ pc[t] = "moved"
  BY DEF UpdateMoved
<1>2. PICK o \in Ops : o = op[t]
  BY PInvTypes
<1>3. LabelOK("moved", o)
  BY <1>1, <1>2 DEF PInv, WritersOK, WriterOK, LabelOK
<1>4. o.target \in Places /\ o.record \in Records /\ o.target \in TIDs
      /\ (o.tid # Nil => o.tid \in Given)
  BY <1>3, GivenOrPlace DEF LabelOK
<1>5. CASE Aborted
  <2>1. GhostsKept
    BY <1>1, <1>5, GhostTypes DEF Aborted
  <2>2. QED
    BY <1>1, <1>5, <2>1, AbortedKeeps
<1>6. CASE /\ running' = running /\ Return(t)
           /\ \E slot \in SPSlots : Revised(op[t].target, slot, op[t].record)
  <2>1. PICK slot \in SPSlots : Revised(o.target, slot, o.record)
    BY <1>2, <1>6
  <2>2. /\ SlotStep(o.target, slot) /\ slot.onPage /\ slot.item \in Records
        /\ slot.redirected = SlotOf[o.target].redirected
    BY <1>4, <2>1 DEF Revised
  <2>3. PagesKept
    BY <1>1, <1>4, <2>2, SlotKeepsPages
  <2>4. GhostsKept
    BY <1>1, <1>6, GhostTypes, PInvTypes
  <2>5. QED
    BY <1>6, <2>3, <2>4, ReturnKeeps
<1>7. CASE /\ running' = running /\ BeginSearch(t, op[t])
           /\ \E slot \in SPSlots : Emptied(op[t].target, slot)
  <2>1. PICK slot \in SPSlots : Emptied(o.target, slot)
    BY <1>2, <1>7
  <2>2. /\ SlotStep(o.target, slot) /\ IsFree(slot)
        /\ slot.redirected = SlotOf[o.target].redirected
    BY <1>4, <2>1 DEF Emptied
  <2>3. PagesKept
    BY <1>1, <1>4, <2>2, SlotKeepsPages
  <2>4. GhostsKept
    BY <1>1, <1>7, GhostTypes, PInvTypes
  <2>5. BeginSearch(t, o)
    BY <1>2, <1>7
  <2>6. QED
    BY <1>1, <1>4, <2>3, <2>4, <2>5, BeginSearchKeeps
<1>8. QED
  BY <1>5, <1>6, <1>7, UpdateMovedEffect

LEMMA RedirectPInv ==
  ASSUME PInv, OneWriter, NEW t \in Writers, Redirect(t)
  PROVE  PInv'
<1>1. size' = size /\ scan' = scan /\ UNCHANGED ghostVars /\ pc[t] = "redirect"
  BY DEF Redirect
<1>2. op[t].target \in Places /\ op[t].tid \in Given
  BY RedirectEffect
<1>3. CASE Aborted
  <2>1. GhostsKept
    BY <1>1, <1>3, GhostTypes DEF Aborted
  <2>2. QED
    BY <1>1, <1>3, <2>1, AbortedKeeps
<1>4. CASE /\ running' = running /\ Return(t)
           /\ \E slot \in SPSlots : Linked(op[t].tid, slot, op[t].target)
  <2>1. PICK x \in Given : x = op[t].tid
    BY <1>2
  <2>2. PICK slot \in SPSlots : Linked(x, slot, op[t].target)
    BY <1>4, <2>1
  <2>3. x \in TIDs /\ ~SlotOf[x].redirected
    BY GivenTaken, GivenOrPlace
  <2>4. /\ SlotStep(x, slot) /\ ~slot.onPage /\ slot.item \in Places
        /\ slot.redirected = SlotOf[x].redirected
    BY <1>2, <2>2 DEF Linked
  <2>5. PagesKept
    BY <1>1, <2>3, <2>4, SlotKeepsPages
  <2>6. GhostsKept
    BY <1>1, <1>4, GhostTypes, PInvTypes
  <2>7. QED
    BY <1>4, <2>5, <2>6, ReturnKeeps
<1>5. QED
  BY <1>3, <1>4, RedirectEffect

LEMMA WriterPInv ==
  ASSUME PInv, OneWriter, NoneGrowsShort, NEW t \in Writers,
         \/ \E r \in Records : Insert(t, r) \/ \E tid \in Given : Update(t, tid, r)
         \/ \E tid \in Given : RemoveRecord(t, tid)
         \/ Search(t) \/ UpdateMoved(t) \/ Redirect(t)
  PROVE  PInv'
<1>1. ASSUME SearchHit(t)
      PROVE  PInv'
  <2>1. /\ pc[t] = "search" /\ op[t].page < op[t].bound /\ Place(t, op[t].page)
        /\ size' = size /\ scan' = scan /\ UNCHANGED ghostVars
    BY <1>1 DEF SearchHit
  <2>2. QED
    BY <2>1, SearchPageId, PlacePInv
<1>2. ASSUME PlaceOnNew(t)
      PROVE  PInv'
  <2>1. /\ pc[t] = "place" /\ Place(t, op[t].page)
        /\ size' = size /\ scan' = scan /\ UNCHANGED ghostVars
    BY <1>2 DEF PlaceOnNew
  <2>2. QED
    BY <2>1, SearchPageId, PlacePInv
<1>3. QED
  BY <1>1, <1>2, InsertPInv, UpdateHerePInv, UpdateAwayPInv, UpdateFollowPInv, RemovePInv,
     SearchMissPInv, AllocatePInv, InitPagePInv, UpdateMovedPInv, RedirectPInv
     DEF Update, Search

---------------------------------------------------------------------------
(* Steps of readers *)

LEMMA ReaderMoves ==
  ASSUME PInv, NEW t \in Readers, pages' = pages, size' = size, TypeOK',
         \A u \in Threads \ {t} : pc'[u] = pc[u] /\ op'[u] = op[u],
         \A u \in Readers \ {t} : scan'[u] = scan[u],
         ReaderOK(t)'
  PROVE  PInv'
<1>1. PagesKept /\ Given' = Given /\ Places' = Places
  <2>1. Taken' = Taken /\ SlotOf' = SlotOf
    BY SamePagesSameSlots DEF SameSlots
  <2>2. QED
    BY <2>1, PInvTypes, SamePagesKept, GivenTaken, PrimedGiven DEF Places
<1>2. WritersOK'
  <2>1. ASSUME NEW u \in Writers
        PROVE  pc'[u] = pc[u] /\ op'[u] = op[u]
    BY PInvTypes
  <2>2. WritersOK
    BY DEF PInv
  <2>3. QED
    BY <1>1, <2>1, <2>2 DEF WritersOK, WriterOK, LabelOK
<1>3. ReadersOK'
  <2>1. ASSUME NEW u \in Readers, u # t
        PROVE  ReaderOK(u)'
    <3>1. pc'[u] = pc[u] /\ op'[u] = op[u] /\ scan'[u] = scan[u]
      BY <2>1, PInvTypes
    <3>2. ReaderOK(u)
      BY DEF PInv, ReadersOK
    <3>3. QED
      BY <1>1, <3>1, <3>2 DEF ReaderOK
  <2>2. QED
    BY <2>1 DEF ReadersOK
<1>4. QED
  BY <1>1, <1>2, <1>3 DEF PInv, PagesKept

LEMMA LookupFollowPInv ==
  ASSUME PInv, NEW t \in Readers, NEW tid \in Given, LookupFollow(t, tid)
  PROVE  PInv'
<1>1. /\ pages' = pages /\ size' = size /\ running' = running /\ scan' = scan
      /\ UNCHANGED ghostVars /\ pc' = [pc EXCEPT ![t] = "lookup"] /\ scan[t] = Nil
      /\ op' = [op EXCEPT ![t] = [NoOp EXCEPT !.tid = tid, !.target = Slot(tid).item]]
      /\ ~IsFree(Slot(tid)) /\ ~Slot(tid).onPage
  BY DEF LookupFollow, Goto
<1>2. tid \in Taken /\ SlotOf[tid] = Slot(tid) /\ tid \in TIDs
  BY GivenTaken, GivenOrPlace, TakenPage
<1>3. Slot(tid).item \in Places
  BY <1>1, <1>2 DEF PInv, LinksOK
<1>4. PICK target \in Places : target = Slot(tid).item
  BY <1>3
<1> DEFINE o == [NoOp EXCEPT !.tid = tid, !.target = target]
<1>5. target \in TIDs
  BY GivenOrPlace
<1>6. o \in Ops /\ o.tid = tid /\ o.target = target
  BY <1>2, <1>5, NoOpType DEF Ops
<1>7. op' = [op EXCEPT ![t] = o]
  BY <1>1, <1>4
<1> HIDE DEF o
<1>8. t \in Threads /\ pc \in [Threads -> Labels] /\ op \in [Threads -> Ops]
  BY PInvTypes DEF Labels
<1>9. pc' \in [Threads -> Labels] /\ op' \in [Threads -> Ops]
  BY <1>1, <1>6, <1>7, <1>8 DEF Labels
<1>10. TypeOK'
  BY <1>1, <1>9 DEF PInv, TypeOK, ghostVars, Labels
<1>11. Given' = Given /\ Places' = Places
  <2>1. Taken' = Taken /\ SlotOf' = SlotOf
    BY <1>1, SamePagesSameSlots DEF SameSlots
  <2>2. QED
    BY <2>1, GivenTaken, PrimedGiven DEF Places
<1>12. ReaderOK(t)'
  <2>1. pc'[t] = "lookup" /\ op'[t] = o /\ scan'[t] = Nil
    BY <1>1, <1>7, <1>8
  <2>2. QED
    BY <1>6, <1>11, <2>1 DEF ReaderOK
<1>13. QED
  BY <1>1, <1>7, <1>8, <1>10, <1>12, ReaderMoves

LEMMA LookupMovedPInv ==
  ASSUME PInv, NEW t \in Readers, LookupMoved(t)
  PROVE  PInv'
<1>1. /\ size' = size /\ scan' = scan /\ UNCHANGED ghostVars /\ pages' = pages
      /\ \/ pc' = pc /\ op' = op /\ running' = FALSE
         \/ /\ pc' = [pc EXCEPT ![t] = "idle"] /\ op' = [op EXCEPT ![t] = NoOp]
            /\ running' = running
  BY DEF LookupMoved, Return, Goto, Abort
<1>2. t \in Threads /\ pc \in [Threads -> Labels] /\ op \in [Threads -> Ops] /\ TypeOK
  BY PInvTypes DEF Labels, PInv
<1>3. pc' \in [Threads -> Labels] /\ op' \in [Threads -> Ops] /\ running' \in BOOLEAN
  BY <1>1, <1>2, NoOpType, PInvTypes DEF Labels
<1>4. TypeOK'
  BY <1>1, <1>2, <1>3 DEF TypeOK, ghostVars, Labels
<1>5. Given' = Given /\ Places' = Places
  <2>1. Taken' = Taken /\ SlotOf' = SlotOf
    BY <1>1, SamePagesSameSlots DEF SameSlots
  <2>2. QED
    BY <2>1, GivenTaken, PrimedGiven DEF Places
<1>6. ReaderOK(t)'
  <2>1. ReaderOK(t)
    BY DEF PInv, ReadersOK
  <2>2. \/ pc'[t] = pc[t] /\ op'[t] = op[t]
        \/ pc'[t] = "idle" /\ op'[t] = NoOp
    BY <1>1, <1>2
  <2>3. scan'[t] = scan[t]
    BY <1>1
  <2>4. QED
    BY <1>1, <1>5, <2>1, <2>2, <2>3 DEF ReaderOK
<1>7. QED
  BY <1>1, <1>2, <1>4, <1>6, ReaderMoves

\* The iterator goes on.
LEMMA ScanMoves ==
  ASSUME PInv, NEW t \in Readers, NEW it \in Iterators \cup {Nil},
         scan' = [scan EXCEPT ![t] = it], UNCHANGED <<running, pages, size, pc, op>>,
         due' \in [Readers -> SUBSET TIDs], done' \in [Readers -> SUBSET TIDs],
         again' \in [Readers -> SUBSET TIDs],
         it # Nil => /\ it.page <= it.bound /\ it.bound <= size
                     /\ it.fixed => it.page < it.bound
  PROVE  PInv'
<1>1. scan' \in [Readers -> Iterators \cup {Nil}] /\ scan'[t] = it
  BY PInvTypes
<1>2. TypeOK'
  BY <1>1 DEF PInv, TypeOK
<1>3. Given' = Given /\ Places' = Places
  <2>1. Taken' = Taken /\ SlotOf' = SlotOf
    BY SamePagesSameSlots DEF SameSlots
  <2>2. QED
    BY <2>1, GivenTaken, PrimedGiven DEF Places
<1>4. ReaderOK(t)'
  BY <1>1, <1>3 DEF PInv, ReadersOK, ReaderOK
<1>5. \A u \in Readers \ {t} : scan'[u] = scan[u]
  BY PInvTypes
<1>6. QED
  BY <1>2, <1>4, <1>5, ReaderMoves

LEMMA IteratorFields ==
  ASSUME PInv, NEW t \in Readers, scan[t] # Nil
  PROVE  /\ scan[t] \in Iterators /\ scan[t].page \in Nat /\ scan[t].bound \in Nat
         /\ scan[t].page <= scan[t].bound /\ scan[t].bound <= size
         /\ size \in Nat /\ size <= MaxPages /\ scan[t].slot \in Int /\ scan[t].slot >= -1
         /\ scan[t].fixed => scan[t].page < scan[t].bound
         /\ scan[t].fixed \in BOOLEAN
<1>1. scan[t] \in Iterators
  BY PInvTypes
<1>2. size \in Nat /\ size <= MaxPages
  BY PInvTypes
<1>3. /\ scan[t].page <= scan[t].bound /\ scan[t].bound <= size
      /\ scan[t].fixed => scan[t].page < scan[t].bound
  BY DEF PInv, ReadersOK, ReaderOK
<1>4. scan[t].page \in Nat /\ scan[t].bound \in Nat /\ scan[t].fixed \in BOOLEAN
  BY <1>1 DEF Iterators
<1>5. scan[t].slot \in Int /\ scan[t].slot >= -1
  <2>1. scan[t].slot \in {-1} \cup SlotIds
    BY <1>1 DEF Iterators
  <2>2. \A n \in {-1} \cup SlotIds : n \in Int /\ n >= -1
    BY DEF SlotIds
  <2>3. QED
    BY <2>1, <2>2
<1>6. QED
  BY <1>1, <1>2, <1>3, <1>4, <1>5

LEMMA BeginScanPInv ==
  ASSUME PInv, NEW t \in Readers, BeginScan(t)
  PROVE  PInv'
<1>1. /\ UNCHANGED <<running, pages, size, pc, op, done, again>> /\ size > 0
      /\ scan' = [scan EXCEPT ![t] = [page |-> 0, slot |-> -1, bound |-> size, fixed |-> TRUE]]
      /\ due' = [due EXCEPT ![t] = Settled]
  BY DEF BeginScan
<1>2. size \in 0 .. MaxPages /\ MaxPages \in Nat
  BY PInvTypes
<1>3. PICK n \in 0 .. MaxPages : n = size
  BY <1>2
<1> DEFINE it == [page |-> 0, slot |-> -1, bound |-> n, fixed |-> TRUE]
<1>4. it \in Iterators /\ scan' = [scan EXCEPT ![t] = it]
  BY <1>1, <1>2, <1>3 DEF Iterators
<1>5. it.page = 0 /\ it.bound = n /\ it.fixed
  OBVIOUS
<1> HIDE DEF it
<1>6. Settled \subseteq TIDs
  BY GivenOrPlace DEF Settled
<1>7. due' \in [Readers -> SUBSET TIDs]
  BY <1>1, <1>6, PInvTypes
<1>8. it.page <= it.bound /\ it.bound <= size /\ it.page < it.bound
  BY <1>1, <1>2, <1>3, <1>5
<1>9. QED
  BY <1>1, <1>4, <1>7, <1>8, PInvTypes, ScanMoves

LEMMA LeastNatural ==
  ASSUME NEW T, T \subseteq Nat, T # {}
  PROVE  \E x \in T : \A y \in T : x <= y
<1> DEFINE R == OpToRel(<, Nat)
<1>1. IsWellFoundedOn(R, Nat)
  BY NatLessThanWellFounded
<1>2. \A x, y \in Nat : <<y, x>> \in R <=> y < x
  BY DEF OpToRel
<1> HIDE DEF R
<1>3. PICK x \in T : \A y \in T : ~ (<<y, x>> \in R)
  BY <1>1, WFMin
<1>4. x \in Nat /\ \A y \in T : y \in Nat /\ ~(y < x)
  BY <1>2, <1>3, Zenon
<1>5. QED
  BY <1>4

LEMMA MinOfNaturals ==
  ASSUME NEW T, T \subseteq Nat, T # {}
  PROVE  Min(T) \in T /\ \A y \in T : Min(T) <= y
BY LeastNatural DEF Min

LEMMA AheadMin ==
  ASSUME NEW t \in Readers, Ahead(t) # {}
  PROVE  Min(Ahead(t)) \in Ahead(t) /\ \A j \in Ahead(t) : Min(Ahead(t)) <= j
<1>1. Ahead(t) \subseteq Nat
  BY DEF Ahead, SlotIds
<1>2. PICK S \in SUBSET Nat : S = Ahead(t)
  BY <1>1
<1>3. S # {}
  BY <1>2
<1>4. Min(S) \in S /\ \A j \in S : Min(S) <= j
  BY <1>3, MinOfNaturals
<1>5. QED
  BY <1>2, <1>4

LEMMA ScanNextPInv ==
  ASSUME PInv, NEW t \in Readers, ScanNext(t)
  PROVE  PInv'
<1>1. /\ UNCHANGED <<running, pages, size, pc, op>> /\ scan[t] # Nil /\ scan[t].fixed
      /\ Ahead(t) # {} /\ scan' = [scan EXCEPT ![t].slot = Min(Ahead(t))]
      /\ \E tid : /\ due' = [due EXCEPT ![t] = @ \ {tid}]
                  /\ done' = [done EXCEPT ![t] = IF tid \in due[t] THEN @ \cup {tid} ELSE @]
                  /\ again' = [again EXCEPT ![t] = IF tid \in done[t] THEN @ \cup {tid} ELSE @]
  BY DEF ScanNext
<1>2. /\ due \in [Readers -> SUBSET TIDs] /\ done \in [Readers -> SUBSET TIDs]
      /\ again \in [Readers -> SUBSET TIDs] /\ scan \in [Readers -> Iterators \cup {Nil}]
  BY PInvTypes
<1>3. PICK tid : /\ due' = [due EXCEPT ![t] = @ \ {tid}]
                 /\ done' = [done EXCEPT ![t] = IF tid \in due[t] THEN @ \cup {tid} ELSE @]
                 /\ again' = [again EXCEPT ![t] = IF tid \in done[t] THEN @ \cup {tid} ELSE @]
  BY <1>1
<1>4. /\ due' \in [Readers -> SUBSET TIDs] /\ done' \in [Readers -> SUBSET TIDs]
      /\ again' \in [Readers -> SUBSET TIDs]
  BY <1>2, <1>3
<1>5. Min(Ahead(t)) \in SlotIds
  BY <1>1, AheadMin DEF Ahead
<1>6. PICK i \in SlotIds : i = Min(Ahead(t))
  BY <1>5
<1>7. PICK old \in Iterators : old = scan[t]
  BY <1>1, IteratorFields
<1> DEFINE it == [old EXCEPT !.slot = i]
<1>8. it \in Iterators /\ it.page = old.page /\ it.bound = old.bound /\ it.fixed = old.fixed
  BY DEF Iterators
<1>9. scan' = [scan EXCEPT ![t] = it]
  BY <1>1, <1>2, <1>6, <1>7
<1> HIDE DEF it
<1>10. /\ it.page <= it.bound /\ it.bound <= size
       /\ it.fixed => it.page < it.bound
  BY <1>1, <1>7, <1>8, IteratorFields
<1>11. QED
  BY <1>1, <1>4, <1>8, <1>9, <1>10, ScanMoves

LEMMA ScanUnfixPInv ==
  ASSUME PInv, NEW t \in Readers, ScanUnfix(t)
  PROVE  PInv'
<1>1. /\ UNCHANGED <<running, pages, size, pc, op>> /\ UNCHANGED ghostVars
      /\ scan[t] # Nil /\ scan[t].fixed
      /\ scan' = [scan EXCEPT ![t].page = @ + 1, ![t].slot = -1, ![t].fixed = FALSE]
  BY DEF ScanUnfix
<1>2. PICK old \in Iterators : old = scan[t]
  BY <1>1, IteratorFields
<1> DEFINE it == [old EXCEPT !.page = old.page + 1, !.slot = -1, !.fixed = FALSE]
<1>3. /\ old.page + 1 \in 0 .. MaxPages /\ old.page + 1 <= old.bound /\ old.bound <= size
  BY <1>1, <1>2, IteratorFields, PInvTypes
<1>4. it \in Iterators /\ it.page = old.page + 1 /\ it.bound = old.bound /\ ~it.fixed
  BY <1>3 DEF Iterators
<1>5. scan' = [scan EXCEPT ![t] = it]
  BY <1>1, <1>2, PInvTypes
<1> HIDE DEF it
<1>6. it.page <= it.bound /\ it.bound <= size /\ (it.fixed => it.page < it.bound)
  BY <1>3, <1>4
<1>7. QED
  BY <1>1, <1>4, <1>5, <1>6, PInvTypes, ScanMoves DEF ghostVars

LEMMA ScanFixPInv ==
  ASSUME PInv, NEW t \in Readers, ScanFix(t)
  PROVE  PInv'
<1>1. /\ UNCHANGED <<running, pages, size, pc, op>> /\ UNCHANGED ghostVars
      /\ scan[t] # Nil /\ scan[t].page < scan[t].bound
      /\ scan' = [scan EXCEPT ![t].fixed = TRUE]
  BY DEF ScanFix
<1>2. PICK old \in Iterators : old = scan[t]
  BY <1>1, IteratorFields
<1> DEFINE it == [old EXCEPT !.fixed = TRUE]
<1>3. it \in Iterators /\ it.page = old.page /\ it.bound = old.bound
  BY DEF Iterators
<1>4. scan' = [scan EXCEPT ![t] = it]
  BY <1>1, <1>2, PInvTypes
<1> HIDE DEF it
<1>5. /\ it.page <= it.bound /\ it.bound <= size /\ it.page < it.bound
  BY <1>1, <1>2, <1>3, IteratorFields
<1>6. QED
  BY <1>1, <1>3, <1>4, <1>5, PInvTypes, ScanMoves DEF ghostVars

LEMMA EndScanPInv ==
  ASSUME PInv, NEW t \in Readers, EndScan(t)
  PROVE  PInv'
<1>1. /\ UNCHANGED <<running, pages, size, pc, op>>
      /\ scan' = [scan EXCEPT ![t] = Nil] /\ due' = [due EXCEPT ![t] = {}]
      /\ done' = [done EXCEPT ![t] = {}] /\ again' = [again EXCEPT ![t] = {}]
  BY DEF EndScan
<1>2. /\ due' \in [Readers -> SUBSET TIDs] /\ done' \in [Readers -> SUBSET TIDs]
      /\ again' \in [Readers -> SUBSET TIDs]
  BY <1>1, PInvTypes
<1>3. QED
  BY <1>1, <1>2, ScanMoves

LEMMA PInvStep ==
  ASSUME PInv, OneWriter, NoneGrowsShort, [Next]_vars
  PROVE  PInv'
<1>1. CASE \E t \in Writers :
             \/ \E r \in Records : Insert(t, r) \/ \E tid \in Given : Update(t, tid, r)
             \/ \E tid \in Given : RemoveRecord(t, tid)
             \/ Search(t) \/ UpdateMoved(t) \/ Redirect(t)
  BY <1>1, WriterPInv
<1>2. CASE \E t \in Readers :
             \/ \E tid \in Given : LookupFollow(t, tid)
             \/ LookupMoved(t)
             \/ Scan(t)
  BY <1>2, LookupFollowPInv, LookupMovedPInv, BeginScanPInv, ScanNextPInv, ScanUnfixPInv,
     ScanFixPInv, EndScanPInv DEF Scan
<1>3. CASE UNCHANGED vars
  <2>1. /\ UNCHANGED <<running, pages, size, pc, op, scan, due, done, again>>
    BY <1>3 DEF vars
  <2>2. Given' = Given /\ Places' = Places /\ LinksOK' /\ PagesOK'
    <3>1. Taken' = Taken /\ SlotOf' = SlotOf
      BY <2>1, SamePagesSameSlots DEF SameSlots
    <3>2. Given' = Given /\ Places' = Places
      BY <3>1, GivenTaken, PrimedGiven DEF Places
    <3>3. QED
      BY <2>1, <3>1, <3>2 DEF PInv, LinksOK, PagesOK
  <2>3. TypeOK'
    BY <2>1 DEF PInv, TypeOK
  <2>4. WritersOK'
    BY <2>1, <2>2 DEF PInv, WritersOK, WriterOK, LabelOK
  <2>5. ReadersOK'
    BY <2>1, <2>2 DEF PInv, ReadersOK, ReaderOK
  <2>6. QED
    BY <2>2, <2>3, <2>4, <2>5 DEF PInv
<1>4. QED
  BY <1>1, <1>2, <1>3 DEF Next

LEMMA PInvInit ==
  ASSUME Init
  PROVE  PInv
<1>1. MaxPages \in Nat /\ 0 \in 0 .. MaxPages
  BY PagesAssumption
<1>2. TypeOK
  <2>1. pages \in [PageIds -> SPPages]
    BY ZeroPageType DEF Init
  <2>2. op \in [Threads -> Ops]
    BY NoOpType DEF Init
  <2>3. QED
    BY <1>1, <2>1, <2>2 DEF Init, TypeOK, Threads
<1>3. PagesOK
  BY ZeroPageType DEF Init, PagesOK
<1>4. Taken = {}
  <2>1. ASSUME NEW x \in TIDs
        PROVE  ~HasSlot(x)
    BY TIDFields DEF Init, HasSlot, ZeroPage
  <2>2. QED
    BY <2>1 DEF Taken
<1>5. LinksOK
  BY <1>4 DEF LinksOK
<1>6. WritersOK
  BY DEF Init, WritersOK, WriterOK, LabelOK, NoOp, Threads
<1>7. ReadersOK
  BY DEF Init, ReadersOK, ReaderOK, Threads
<1>8. QED
  BY <1>2, <1>3, <1>5, <1>6, <1>7 DEF PInv

\* The invariant of the pages, the calls and the threads' locals is inductive: every
\* step of one writer and any readers keeps it (SPSegment.cpp).
THEOREM PagesInductive ==
  ASSUME OneWriter
  PROVE  Spec /\ []NoneGrowsShort => []PInv
<1>1. Init => PInv
  BY PInvInit
<1>2. PInv /\ NoneGrowsShort /\ [Next]_vars => PInv'
  BY PInvStep
<1>3. QED
  BY <1>1, <1>2, PTL DEF Spec

\* The variables have their types: among others, that a page never has more slots than
\* there are slot numbers, and that a search ends within the segment.
THEOREM TypeCorrect ==
  ASSUME OneWriter
  PROVE  Spec /\ []NoneGrowsShort => []TypeOK
<1>1. PInv => TypeOK
  BY DEF PInv
<1>2. QED
  BY <1>1, PagesInductive, PTL

\* Records on a page never overwrite each other or the slots (SPPage.cpp), through any
\* sequence of insertions, moves, updates and removals of records of any length, unless an
\* update makes a moved record longer and leaves it shorter than a TID.
THEOREM PagesStaySound ==
  ASSUME OneWriter
  PROVE  Spec /\ []NoneGrowsShort => []PagesAreSound
<1>1. PInv => PagesAreSound
  BY DEF PInv, PagesOK, PageOK, PagesAreSound
<1>2. QED
  BY <1>1, PagesInductive, PTL

---------------------------------------------------------------------------
(* The counter of free space. *)

\* The space of one slot, as a number and as a set, and that of the slots I.
Count(slot) == IF IsFree(slot) THEN 0 ELSE ItemSpace(slot)

Bytes(f, i) == IF IsFree(f[i]) THEN {} ELSE {i} \X (1 .. ItemSpace(f[i]))

Used(f, I) == UNION {Bytes(f, i) : i \in I}

\* The bytes of a slot are as many as they should be.
LEMMA BytesCount ==
  ASSUME NEW f, NEW i, f[i] \in SPSlots
  PROVE  /\ IsFiniteSet(Bytes(f, i)) /\ Cardinality(Bytes(f, i)) = Count(f[i])
         /\ Count(f[i]) \in Nat
<1>1. ItemSpace(f[i]) \in Nat
  BY SlotNumbers, SizesAssumption DEF ItemSpace
<1>2. CASE IsFree(f[i])
  BY <1>2, FS_EmptySet DEF Bytes, Count
<1>3. CASE ~IsFree(f[i])
  <2>1. PICK n \in Nat : n = ItemSpace(f[i])
    BY <1>1
  <2>2. IsFiniteSet(1 .. n) /\ Cardinality(1 .. n) = n
    BY FS_Interval
  <2>3. IsFiniteSet({i}) /\ Cardinality({i}) = 1
    BY FS_Singleton
  <2>4. IsFiniteSet({i} \X (1 .. n)) /\ Cardinality({i} \X (1 .. n)) = 1 * n
    BY <2>2, <2>3, FS_Product
  <2> QED
    BY <1>3, <2>1, <2>4 DEF Bytes, Count
<1> QED
  BY <1>2, <1>3

\* The bytes of different slots are different.
LEMMA UsedMore ==
  ASSUME NEW f, NEW I, IsFiniteSet(I), \A i \in I : f[i] \in SPSlots,
         NEW e, e \notin I, f[e] \in SPSlots, NEW J, J = I \cup {e}
  PROVE  /\ IsFiniteSet(Used(f, I)) /\ IsFiniteSet(Used(f, J))
         /\ Cardinality(Used(f, I)) \in Nat
         /\ Cardinality(Used(f, J)) = Cardinality(Used(f, I)) + Count(f[e])
<1>1. IsFiniteSet(Used(f, I))
  <2> DEFINE S == {Bytes(f, i) : i \in I}
  <2>1. IsFiniteSet(S)
    <3> DEFINE h == [i \in I |-> Bytes(f, i)]
    <3>1. h \in [I -> S] /\ \A T \in S : \E i \in I : h[i] = T
      OBVIOUS
    <3> HIDE DEF h, S
    <3>2. h \in Surjection(I, S)
      BY <3>1, Zenon DEF Surjection
    <3> QED
      BY <3>2, FS_Surjection
  <2>2. \A T \in S : IsFiniteSet(T)
    BY BytesCount
  <2> HIDE DEF S
  <2>3. IsFiniteSet(UNION S)
    BY <2>1, <2>2, FS_UNION
  <2> QED
    BY <2>3 DEF S, Used
<1>2. Used(f, J) = Used(f, I) \cup Bytes(f, e)
  BY DEF Used
<1>3. Used(f, I) \cap Bytes(f, e) = {}
  <2>1. \A x \in Used(f, I) : \E i \in I : x[1] = i
    BY DEF Used, Bytes
  <2>2. \A x \in Bytes(f, e) : x[1] = e
    BY DEF Bytes
  <2> QED
    BY <2>1, <2>2
<1>4. IsFiniteSet(Bytes(f, e)) /\ Cardinality(Bytes(f, e)) = Count(f[e]) /\ Count(f[e]) \in Nat
  BY BytesCount
<1>5. /\ IsFiniteSet(Used(f, J))
      /\ Cardinality(Used(f, J)) = Cardinality(Used(f, I)) + Cardinality(Bytes(f, e)) - Cardinality({})
  <2>1. PICK A, B : A = Used(f, I) /\ B = Bytes(f, e)
    OBVIOUS
  <2>2. /\ IsFiniteSet(A \cup B)
        /\ Cardinality(A \cup B) = Cardinality(A) + Cardinality(B) - Cardinality(A \cap B)
    BY <1>1, <1>4, <2>1, FS_Union
  <2>3. Used(f, J) = A \cup B /\ A \cap B = {}
    BY <1>2, <1>3, <2>1
  <2> QED
    BY <2>1, <2>2, <2>3
<1>6. Cardinality(Used(f, I)) \in Nat /\ Cardinality({}) = 0
  BY <1>1, FS_CardinalityType, FS_EmptySet
<1> QED
  BY <1>1, <1>4, <1>5, <1>6

LEMMA UsedSame ==
  ASSUME NEW f, NEW g, NEW I, \A i \in I : f[i] = g[i]
  PROVE  Used(f, I) = Used(g, I)
BY DEF Used, Bytes

LEMMA UsedIs == ASSUME NEW p PROVE SpaceInUse(p) = Used(p.slots, DOMAIN p.slots)
BY DEF SpaceInUse, Used, Bytes

\* A new page is counted.
LEMMA InitialSpace == SpaceIsAccounted(InitialPage)
<1>1. DOMAIN InitialPage.slots = {}
  BY DEF InitialPage
<1>2. SpaceInUse(InitialPage) = {}
  BY <1>1 DEF SpaceInUse
<1> QED
  <2>1. Cardinality({}) = 0
    BY FS_EmptySet
  <2>2. InitialPage.freeSpace = PageSize - HeaderSize
    BY DEF InitialPage
  <2>3. PageSize - HeaderSize \in Int
    BY SizesAssumption
  <2>4. PageSize - HeaderSize = PageSize - HeaderSize - 0
    BY <2>3
  <2> QED
    BY <1>2, <2>1, <2>2, <2>4 DEF SpaceIsAccounted

\* One slot replaced: the counter has to change by the difference.
LEMMA ReplaceSpace ==
  ASSUME NEW p \in SPPages, NEW q \in SPPages, NEW i \in Nat, i < Len(p.slots),
         NEW slot \in SPSlots, q.slots = [p.slots EXCEPT ![i + 1] = slot], SpaceIsAccounted(p),
         q.freeSpace = p.freeSpace + Count(p.slots[i + 1]) - Count(slot)
  PROVE  SpaceIsAccounted(q)
<1>1. PICK f, g, J : f = p.slots /\ g = q.slots /\ J = DOMAIN p.slots
  OBVIOUS
<1>2. PICK e, I : e = i + 1 /\ I = J \ {e}
  OBVIOUS
<1>3. f \in Seq(SPSlots) /\ J = 1 .. Len(f) /\ e \in J /\ Len(f) \in Nat
  BY <1>1, <1>2 DEF SPPages
<1>4. IsFiniteSet(J) /\ IsFiniteSet(I) /\ e \notin I /\ J = I \cup {e}
  <2>1. IsFiniteSet(J)
    BY <1>3, FS_Interval
  <2>2. I \subseteq J
    BY <1>2
  <2> QED
    BY <1>2, <1>3, <2>1, <2>2, FS_Subset
<1>5. /\ DOMAIN g = J /\ g[e] = slot /\ \A x \in I : f[x] = g[x]
      /\ \A x \in J : f[x] \in SPSlots
  BY <1>1, <1>2, <1>3
<1>6. \A x \in I : f[x] \in SPSlots /\ g[x] \in SPSlots
  BY <1>4, <1>5
<1>7. PICK u : u = Cardinality(Used(f, I))
  OBVIOUS
<1>8. u \in Nat /\ Cardinality(Used(f, J)) = u + Count(f[e])
  <2>1. (\A x \in I : f[x] \in SPSlots) /\ f[e] \in SPSlots
    BY <1>3, <1>5, <1>6
  <2> QED
    BY <1>4, <1>7, <2>1, UsedMore
<1>9. Used(f, I) = Used(g, I)
  BY <1>5, UsedSame
<1>10. Cardinality(Used(g, J)) = u + Count(slot)
  <2>1. (\A x \in I : g[x] \in SPSlots) /\ g[e] \in SPSlots
    BY <1>5, <1>6
  <2> QED
    BY <1>4, <1>5, <1>7, <1>9, <2>1, UsedMore
<1>11. Cardinality(SpaceInUse(p)) = u + Count(f[e]) /\ Cardinality(SpaceInUse(q)) = u + Count(slot)
  BY <1>1, <1>5, <1>8, <1>10, UsedIs
<1>12. Count(f[e]) \in Nat /\ Count(slot) \in Nat
  BY <1>3, <1>5, BytesCount
<1>13. p.freeSpace = PageSize - HeaderSize - (u + Count(f[e]))
  BY <1>11 DEF SpaceIsAccounted
<1>14. q.freeSpace = p.freeSpace + Count(f[e]) - Count(slot) /\ p.freeSpace \in Int
  BY <1>1, <1>2 DEF SPPages
<1>15. q.freeSpace = PageSize - HeaderSize - (u + Count(slot))
  BY <1>8, <1>12, <1>13, <1>14, SizesAssumption
<1> QED
  BY <1>11, <1>15 DEF SpaceIsAccounted

\* One slot more.
LEMMA AppendSpace ==
  ASSUME NEW p \in SPPages, NEW q \in SPPages, NEW slot \in SPSlots,
         q.slots = Append(p.slots, slot), SpaceIsAccounted(p),
         q.freeSpace = p.freeSpace - Count(slot)
  PROVE  SpaceIsAccounted(q)
<1>1. PICK f, g, I, J : f = p.slots /\ g = q.slots /\ I = DOMAIN p.slots /\ J = DOMAIN q.slots
  OBVIOUS
<1>2. f \in Seq(SPSlots) /\ I = 1 .. Len(f) /\ Len(f) \in Nat
  BY <1>1 DEF SPPages
<1>3. PICK e : e = Len(f) + 1
  OBVIOUS
<1>4. IsFiniteSet(I) /\ e \notin I /\ J = I \cup {e}
  <2>1. J = 1 .. Len(f) + 1
    BY <1>1, <1>2
  <2>2. IsFiniteSet(I)
    BY <1>2, FS_Interval
  <2>3. PICK n \in Nat : n = Len(f)
    BY <1>2
  <2>4. 1 .. n + 1 = 1 .. n \cup {n + 1} /\ n + 1 \notin 1 .. n
    OBVIOUS
  <2> QED
    BY <1>2, <1>3, <2>1, <2>2, <2>3, <2>4
<1>5. g[e] = slot /\ \A x \in I : g[x] = f[x] /\ f[x] \in SPSlots
  BY <1>1, <1>2, <1>3
<1>6. PICK u : u = Cardinality(Used(f, I))
  OBVIOUS
<1>7. Used(f, I) = Used(g, I)
  BY <1>5, UsedSame
<1>8. u \in Nat /\ Cardinality(Used(g, J)) = u + Count(slot)
  <2>1. \A x \in I : g[x] \in SPSlots
    BY <1>5
  <2> QED
    BY <1>4, <1>5, <1>6, <1>7, <2>1, UsedMore
<1>9. Cardinality(SpaceInUse(p)) = u /\ Cardinality(SpaceInUse(q)) = u + Count(slot)
  BY <1>1, <1>6, <1>8, UsedIs
<1>10. Count(slot) \in Nat
  BY <1>5, BytesCount
<1>11. p.freeSpace = PageSize - HeaderSize - u /\ q.freeSpace = p.freeSpace - Count(slot)
  BY <1>9 DEF SpaceIsAccounted
<1>12. q.freeSpace = PageSize - HeaderSize - (u + Count(slot))
  BY <1>8, <1>10, <1>11, SizesAssumption
<1> QED
  BY <1>9, <1>12 DEF SpaceIsAccounted

\* Another item with the same original TID in the same slot.
LEMMA ReviseSpace ==
  ASSUME NEW p \in SPPages, NEW i \in Nat, i < Len(p.slots), NEW q, NEW slot,
         Replaces(p, q, i, slot), slot.length > 0, slot.redirected = p.slots[i + 1].redirected,
         ~IsFree(p.slots[i + 1]), SpaceIsAccounted(p),
         q.freeSpace = p.freeSpace + (Room(p.slots[i + 1].length) - Room(slot.length))
  PROVE  SpaceIsAccounted(q)
<1>1. q \in SPPages /\ slot \in SPSlots /\ q.slots = [p.slots EXCEPT ![i + 1] = slot]
  BY DEF Replaces
<1>2. PICK old : old = p.slots[i + 1]
  OBVIOUS
<1>3. old \in SPSlots /\ p.freeSpace \in Int
  BY <1>2 DEF SPPages
<1>4. /\ Room(old.length) \in Nat /\ Room(slot.length) \in Nat /\ Prefix(old.redirected) \in Nat
      /\ slot.length \in Nat /\ SlotSize \in Nat
  BY <1>1, <1>3, SlotNumbers, SizesAssumption DEF SPSlots
<1>5. Count(old) = SlotSize + Room(old.length) + Prefix(old.redirected)
  BY <1>2 DEF Count, ItemSpace
<1>6. Count(slot) = SlotSize + Room(slot.length) + Prefix(old.redirected)
  BY <1>2, <1>4 DEF Count, ItemSpace, IsFree
<1>7. q.freeSpace = p.freeSpace + Count(old) - Count(slot)
  <2>1. q.freeSpace = p.freeSpace + (Room(old.length) - Room(slot.length))
    BY <1>2
  <2> QED
    BY <1>3, <1>4, <1>5, <1>6, <2>1
<1> QED
  BY <1>1, <1>2, <1>7, ReplaceSpace

\* remove gives back what the item has taken, with its original TID and its slot, which stays.
LEMMA RemoveSpace ==
  ASSUME NEW p \in SPPages, PageOK(p), NEW i \in Nat, i < Len(p.slots),
         ~IsFree(p.slots[i + 1]), SpaceIsAccounted(p)
  PROVE  SpaceIsAccounted(RemoveSlot(p, i))
<1>1. PICK old : old = p.slots[i + 1]
  OBVIOUS
<1>2. PICK q : q = RemoveSlot(p, i)
  OBVIOUS
<1>3. Replaces(p, q, i, Freed(old)) /\ IsFree(Freed(old))
  BY <1>1, <1>2, RemovePage
<1>4. q \in SPPages /\ Freed(old) \in SPSlots /\ q.slots = [p.slots EXCEPT ![i + 1] = Freed(old)]
  BY <1>3 DEF Replaces
<1>5. old \in SPSlots /\ p.freeSpace \in Int
  BY <1>1 DEF SPPages
<1>6. Room(old.length) \in Nat /\ Prefix(old.redirected) \in Nat /\ SlotSize \in Nat
  BY <1>5, SlotNumbers, SizesAssumption
<1>7. q.freeSpace = p.freeSpace + SlotSize + Room(old.length) + Prefix(old.redirected)
  BY <1>1, <1>2 DEF RemoveSlot
<1>8. Count(old) = SlotSize + Room(old.length) + Prefix(old.redirected) /\ Count(Freed(old)) = 0
  BY <1>1, <1>3 DEF Count, ItemSpace
<1>9. q.freeSpace = p.freeSpace + Count(p.slots[i + 1]) - Count(Freed(old))
  <2>1. q.freeSpace = p.freeSpace + Count(old) - 0
    BY <1>5, <1>6, <1>7, <1>8
  <2> QED
    BY <1>1, <1>8, <2>1
<1> QED
  BY <1>2, <1>4, <1>9, ReplaceSpace

\* insert takes the room of the item, of its original TID and of a slot.
LEMMA InsertSpace ==
  ASSUME NEW p \in SPPages, PageOK(p), NEW record \in Records, record.length > 0,
         NEW redirected \in BOOLEAN, NEW tid \in TIDs \cup {Nil},
         InsertAssertion(p, record, redirected), SpaceIsAccounted(p)
  PROVE  SpaceIsAccounted(InsertRecord(p, record, redirected, tid))
<1>1. PICK q : q = InsertRecord(p, record, redirected, tid)
  OBVIOUS
<1>2. q \in SPPages /\ \E slot \in SPSlots : q.slots = Append(p.slots, slot)
  BY <1>1, InsertPage
<1>3. PICK slot \in SPSlots : q.slots = Append(p.slots, slot)
  BY <1>2
<1>4. slot.length = record.length /\ slot.redirected = redirected
  <2> DEFINE new == [onPage |-> TRUE, redirected |-> redirected,
                     offset |-> p.dataStart - Room(record.length),
                     length |-> record.length, item |-> record, original |-> tid]
  <2>1. q.slots = Append(p.slots, new)
    BY <1>1 DEF InsertRecord
  <2>2. p.slots \in Seq(SPSlots)
    BY DEF SPPages
  <2>3. new.length = record.length /\ new.redirected = redirected
    OBVIOUS
  <2> HIDE DEF new
  <2>4. Append(p.slots, new)[Len(p.slots) + 1] = new
    BY <2>2
  <2>5. Append(p.slots, slot)[Len(p.slots) + 1] = slot
    BY <2>2
  <2> QED
    BY <1>3, <2>1, <2>3, <2>4, <2>5
<1>5. q.freeSpace = p.freeSpace - SlotSize - Room(record.length) - Prefix(redirected)
  BY <1>1 DEF InsertRecord
<1>6. Count(slot) = SlotSize + Room(record.length) + Prefix(redirected)
  <2>1. PICK n : n = record.length
    OBVIOUS
  <2>2. n \in Nat
    BY <2>1, LengthsAssumption DEF Records
  <2>3. n > 0 => n # 0
    BY <2>2
  <2> QED
    BY <1>4, <2>1, <2>3 DEF Count, ItemSpace, IsFree
<1>7. Room(record.length) \in Nat /\ Prefix(redirected) \in Nat /\ SlotSize \in Nat /\ p.freeSpace \in Int
  BY <1>4, SlotNumbers, SizesAssumption DEF SPPages
<1>8. q.freeSpace = p.freeSpace - Count(slot)
  BY <1>5, <1>6, <1>7
<1> QED
  BY <1>1, <1>2, <1>3, <1>8, AppendSpace

\* updateInPlace gives back what the item is shorter by, ...
LEMMA UpdateInPlaceSpace ==
  ASSUME NEW p \in SPPages, PageOK(p), NEW i \in Nat, i < Len(p.slots), ~IsFree(p.slots[i + 1]),
         NEW item \in Records \cup TIDs, NEW length \in Nat, length > 0,
         Room(length) <= p.slots[i + 1].length, SpaceIsAccounted(p)
  PROVE  SpaceIsAccounted(UpdateInPlace(p, i, item, length))
<1>1. PICK q, old : q = UpdateInPlace(p, i, item, length) /\ old = p.slots[i + 1]
  OBVIOUS
<1>2. PICK slot \in SPSlots :
        /\ Replaces(p, q, i, slot) /\ slot.length = length /\ slot.redirected = old.redirected
  BY <1>1, UpdateInPlacePage
<1>3. q.freeSpace = p.freeSpace + (old.length - Room(length))
  BY <1>1 DEF UpdateInPlace
<1>4. Room(old.length) = old.length
  <2>1. old.length \in Nat
    <3>1. old \in SPSlots
      BY <1>1 DEF SPPages
    <3> QED
      BY <3>1 DEF SPSlots
  <2>2. Room(length) \in Nat /\ Room(length) >= TIDSize /\ TIDSize \in Nat
    BY RoomNumber, SizesAssumption
  <2>3. old.length >= TIDSize
    BY <1>1, <2>1, <2>2
  <2> QED
    BY <2>1, <2>2, <2>3 DEF Room
<1>5. q.freeSpace = p.freeSpace + (Room(old.length) - Room(slot.length))
  BY <1>2, <1>3, <1>4
<1> QED
  BY <1>1, <1>2, <1>5, ReviseSpace

\* ... also when the slot is marked as leading to another page, ...
LEMMA RedirectSpace ==
  ASSUME NEW p \in SPPages, PageOK(p), NEW i \in Nat, i < Len(p.slots), NEW target \in TIDs,
         TIDSize <= p.slots[i + 1].length, SpaceIsAccounted(p)
  PROVE  SpaceIsAccounted(RedirectedPage(p, i, target))
<1>1. PICK q, old : q = RedirectedPage(p, i, target) /\ old = p.slots[i + 1]
  OBVIOUS
<1>2. PICK slot \in SPSlots :
        /\ Replaces(p, q, i, slot) /\ slot.length = TIDSize /\ slot.redirected = old.redirected
  BY <1>1, RedirectPage
<1>3. Room(TIDSize) = TIDSize /\ TIDSize \in Nat /\ TIDSize > 0
  BY SizesAssumption DEF Room
<1>4. q.freeSpace = p.freeSpace + (old.length - TIDSize)
  BY <1>1, <1>3 DEF RedirectedPage, UpdateInPlace
<1>5. old.length \in Nat
  <2>1. old \in SPSlots
    BY <1>1 DEF SPPages
  <2> QED
    BY <2>1 DEF SPSlots
<1>6. Room(old.length) = old.length /\ ~IsFree(old)
  BY <1>1, <1>3, <1>5 DEF Room, IsFree
<1>7. q.freeSpace = p.freeSpace + (Room(old.length) - Room(slot.length))
  BY <1>2, <1>3, <1>4, <1>6
<1> QED
  BY <1>1, <1>2, <1>3, <1>6, <1>7, ReviseSpace

\* ... and updateOnPage takes what it is longer by.
LEMMA UpdateOnPageSpace ==
  ASSUME NEW p \in SPPages, PageOK(p), NEW i \in Nat, i < Len(p.slots), ~IsFree(p.slots[i + 1]),
         NEW record \in Records, record.length > 0,
         p.slots[i + 1].redirected => record.length >= TIDSize,
         HasUpdateSpace(p, record.length + Prefix(p.slots[i + 1].redirected)), SpaceIsAccounted(p)
  PROVE  SpaceIsAccounted(UpdateOnPage(p, i, record))
<1>1. PICK q, old : q = UpdateOnPage(p, i, record) /\ old = p.slots[i + 1]
  OBVIOUS
<1>2. PICK slot \in SPSlots :
        /\ Replaces(p, q, i, slot) /\ slot.length = record.length /\ slot.redirected = old.redirected
  BY <1>1, UpdateOnPagePage
<1>3. q.freeSpace = p.freeSpace + Room(old.length) - Room(record.length)
  BY <1>1 DEF UpdateOnPage
<1>4. Room(old.length) \in Nat /\ Room(record.length) \in Nat /\ p.freeSpace \in Int
  <2>1. old \in SPSlots /\ p.freeSpace \in Int
    BY <1>1 DEF SPPages
  <2> QED
    BY <1>2, <2>1, SlotNumbers
<1>5. q.freeSpace = p.freeSpace + (Room(old.length) - Room(slot.length))
  BY <1>2, <1>3, <1>4
<1> QED
  BY <1>1, <1>2, <1>5, ReviseSpace

\* A page that is changed by an operation that counts right.
LEMMA SpaceChanges ==
  ASSUME PInv, FreeSpaceIsRight, NEW p \in PageIds, NEW q, Change(p, q), SpaceIsAccounted(q)
  PROVE  FreeSpaceIsRight'
<1>1. pages' = [pages EXCEPT ![p] = q] /\ pages \in [PageIds -> SPPages]
  BY PInvTypes DEF Change
<1> SUFFICES ASSUME NEW r \in PageIds, pages'[r] # ZeroPage PROVE SpaceIsAccounted(pages'[r])
  BY DEF FreeSpaceIsRight, SpaceIsAccounted, SpaceInUse
<1> QED
  BY <1>1 DEF FreeSpaceIsRight

\* The page of a slot is counted.
LEMMA TakenIsAccounted ==
  ASSUME PInv, FreeSpaceIsRight, NEW x \in Taken
  PROVE  SpaceIsAccounted(pages[x.page])
<1>1. x.page \in PageIds /\ x.slot \in Nat /\ x.slot < Len(pages[x.page].slots)
  BY TakenPage
<1>2. pages[x.page] # ZeroPage
  BY <1>1 DEF ZeroPage
<1> QED
  BY <1>1, <1>2 DEF FreeSpaceIsRight

LEMMA SamePagesSpace ==
  ASSUME FreeSpaceIsRight, pages' = pages
  PROVE  FreeSpaceIsRight'
BY DEF FreeSpaceIsRight, SpaceIsAccounted, SpaceInUse

\* The record is placed where insert's assertion holds.
LEMMA PlaceSpace ==
  ASSUME PInv, FreeSpaceIsRight, NEW t \in Writers, pc[t] # "idle",
         NEW p \in PageIds, Place(t, p)
  PROVE  FreeSpaceIsRight'
<1>1. op[t].record \in Records /\ op[t].tid \in TIDs \cup {Nil}
  BY PInvTypes DEF PInv, WritersOK, WriterOK, LabelOK, Ops
<1>2. PICK r \in Records, tid \in TIDs \cup {Nil}, moves \in BOOLEAN :
        r = op[t].record /\ tid = op[t].tid /\ moves = (op[t].tid # Nil)
  BY <1>1
<1>3. CASE InsertAssertion(pages[p], r, moves)
  <2>1. Change(p, InsertRecord(pages[p], r, moves, tid))
    BY <1>2, <1>3 DEF Place
  <2>2. pages[p] \in SPPages /\ PageOK(pages[p])
    BY PInvTypes
  <2>3. pages[p] # ZeroPage
    <3>1. r.length \in Nat /\ Room(r.length) \in Nat /\ Prefix(moves) \in Nat
      BY SizesAssumption, LengthsAssumption, RoomNumber DEF Prefix, Records
    <3>2. Room(r.length) + Prefix(moves) \in Nat
      BY <3>1
    <3>3. Room(Room(r.length) + Prefix(moves)) \in Nat
      BY <3>2, RoomNumber
    <3>4. pages[p].freeSpace >= Room(Room(r.length) + Prefix(moves)) + SlotSize
      BY <1>3 DEF InsertAssertion, HasFreeSpace
    <3>5. pages[p].freeSpace # 0
      BY <3>3, <3>4, SizesAssumption
    <3> QED
      BY <3>5 DEF ZeroPage
  <2>4. SpaceIsAccounted(pages[p])
    BY <2>3 DEF FreeSpaceIsRight
  <2>5. r.length > 0
    BY RecordLength
  <2>6. SpaceIsAccounted(InsertRecord(pages[p], r, moves, tid))
    BY <1>3, <2>2, <2>4, <2>5, InsertSpace
  <2> QED
    BY <2>1, <2>6, SpaceChanges
<1>4. CASE ~InsertAssertion(pages[p], r, moves)
  <2>1. pages' = pages
    BY <1>2, <1>4 DEF Place, Abort
  <2> QED
    BY <2>1, SamePagesSpace
<1> QED
  BY <1>3, <1>4

LEMMA InitPageSpace ==
  ASSUME PInv, FreeSpaceIsRight, NEW t \in Writers, InitPage(t)
  PROVE  FreeSpaceIsRight'
<1>1. op[t].page \in PageIds /\ Change(op[t].page, InitialPage)
  BY InitPageEffect DEF InitPage
<1> QED
  BY <1>1, InitialSpace, SpaceChanges

LEMMA UpdateHereSpace ==
  ASSUME PInv, FreeSpaceIsRight, NEW t \in Writers, NEW tid \in Given,
         NEW r \in Records, UpdateHere(t, tid, r)
  PROVE  FreeSpaceIsRight'
<1>1. tid \in Taken /\ ~SlotOf[tid].redirected
  BY GivenTaken
<1>2. PICK p, i, old : p = pages[tid.page] /\ i = tid.slot /\ old = Slot(tid)
  OBVIOUS
<1>3. /\ tid.page \in PageIds /\ i \in Nat /\ i < Len(p.slots) /\ p \in SPPages /\ PageOK(p)
      /\ old = p.slots[i + 1] /\ old.length \in Nat /\ ~old.redirected
  BY <1>1, <1>2, TakenPage
<1>4. SpaceIsAccounted(p) /\ ~IsFree(old)
  BY <1>1, <1>2, TakenIsAccounted DEF UpdateHere
<1>5. r.length \in Nat /\ r.length > 0
  BY RecordLength
<1>9. r.length <= old.length => ~(r.length > old.length)
  BY <1>3, <1>5
<1>6. CASE r.length <= old.length /\ UpdateInPlaceAssertion(old, r.length)
  <2>1. Change(tid.page, UpdateInPlace(p, i, r, r.length))
    BY <1>2, <1>6, <1>9 DEF UpdateHere
  <2>2. Room(r.length) <= old.length
    BY <1>6 DEF UpdateInPlaceAssertion
  <2>3. SpaceIsAccounted(UpdateInPlace(p, i, r, r.length))
    BY <1>3, <1>4, <1>5, <2>2, UpdateInPlaceSpace
  <2> QED
    BY <1>3, <2>1, <2>3, SpaceChanges
<1>7. CASE r.length <= old.length /\ ~UpdateInPlaceAssertion(old, r.length)
  <2>1. pages' = pages
    BY <1>2, <1>7, <1>9 DEF UpdateHere, Abort
  <2> QED
    BY <2>1, SamePagesSpace
<1>8. CASE ~(r.length <= old.length)
  <2>1. Change(tid.page, UpdateOnPage(p, i, r)) /\ HasUpdateSpace(p, r.length)
    BY <1>2, <1>8 DEF UpdateHere
  <2>2. r.length + Prefix(old.redirected) = r.length
    BY <1>3, <1>5 DEF Prefix
  <2>3. SpaceIsAccounted(UpdateOnPage(p, i, r))
    <3>1. HasUpdateSpace(p, r.length + Prefix(p.slots[i + 1].redirected))
      BY <1>3, <2>1, <2>2
    <3> QED
      BY <1>3, <1>4, <1>5, <3>1, UpdateOnPageSpace
  <2> QED
    BY <1>3, <2>1, <2>3, SpaceChanges
<1> QED
  BY <1>6, <1>7, <1>8

LEMMA RemoveRecordSpace ==
  ASSUME PInv, FreeSpaceIsRight, NEW t \in Writers, NEW tid \in Given, RemoveRecord(t, tid)
  PROVE  FreeSpaceIsRight'
<1>1. tid \in Taken
  BY GivenTaken
<1>2. CASE Slot(tid).onPage
  <2>1. Change(tid.page, RemoveSlot(pages[tid.page], tid.slot)) /\ ~IsFree(Slot(tid))
    BY <1>2 DEF RemoveRecord
  <2>2. PICK p, i : p = pages[tid.page] /\ i = tid.slot
    OBVIOUS
  <2>3. /\ tid.page \in PageIds /\ i \in Nat /\ i < Len(p.slots) /\ p \in SPPages /\ PageOK(p)
        /\ Slot(tid) = p.slots[i + 1] /\ SpaceIsAccounted(p)
    BY <1>1, <2>2, TakenPage, TakenIsAccounted
  <2>4. SpaceIsAccounted(RemoveSlot(p, i))
    BY <2>1, <2>3, RemoveSpace
  <2> QED
    BY <2>1, <2>2, <2>3, <2>4, SpaceChanges
<1>3. CASE ~Slot(tid).onPage
  <2>1. pages' = pages
    BY <1>3 DEF RemoveRecord, Abort
  <2> QED
    BY <2>1, SamePagesSpace
<1> QED
  BY <1>2, <1>3

LEMMA UpdateMovedSpace ==
  ASSUME PInv, NoneGrowsShort, FreeSpaceIsRight, NEW t \in Writers, UpdateMoved(t)
  PROVE  FreeSpaceIsRight'
<1>1. op[t].target \in Places /\ op[t].record \in Records
  BY DEF UpdateMoved, PInv, WritersOK, WriterOK, LabelOK
<1>2. PICK x \in Places, r \in Records : x = op[t].target /\ r = op[t].record
  BY <1>1
<1>3. PICK p, i, old : p = pages[x.page] /\ i = x.slot /\ old = Slot(x)
  OBVIOUS
<1>4. /\ x.page \in PageIds /\ i \in Nat /\ i < Len(p.slots) /\ p \in SPPages /\ PageOK(p)
      /\ old = p.slots[i + 1] /\ old.length \in Nat /\ old.redirected /\ SpaceIsAccounted(p)
  <2>1. x \in Taken /\ SlotOf[x].redirected
    BY DEF Places
  <2> QED
    BY <1>3, <2>1, TakenPage, TakenIsAccounted
<1>5. r.length \in Nat /\ r.length > 0
  BY RecordLength
<1>6. \/ Abort
      \/ /\ ~IsFree(old) /\ UpdateInPlaceAssertion(old, r.length)
         /\ Change(x.page, UpdateInPlace(p, i, r, r.length))
      \/ /\ ~IsFree(old) /\ ~(r.length <= old.length) /\ HasUpdateSpace(p, r.length + TIDSize)
         /\ Change(x.page, UpdateOnPage(p, i, r))
      \/ ~IsFree(old) /\ Change(x.page, RemoveSlot(p, i))
  BY <1>2, <1>3 DEF UpdateMoved, RedirectAssertion
<1>7. CASE Abort
  BY <1>7, SamePagesSpace DEF Abort
<1>8. CASE /\ ~IsFree(old) /\ UpdateInPlaceAssertion(old, r.length)
           /\ Change(x.page, UpdateInPlace(p, i, r, r.length))
  <2>1. Room(r.length) <= old.length
    BY <1>8 DEF UpdateInPlaceAssertion
  <2>2. SpaceIsAccounted(UpdateInPlace(p, i, r, r.length))
    BY <1>4, <1>5, <1>8, <2>1, UpdateInPlaceSpace
  <2> QED
    BY <1>4, <1>8, <2>2, SpaceChanges
<1>9. CASE /\ ~IsFree(old) /\ ~(r.length <= old.length) /\ HasUpdateSpace(p, r.length + TIDSize)
           /\ Change(x.page, UpdateOnPage(p, i, r))
  <2>1. Prefix(p.slots[i + 1].redirected) = TIDSize
    BY <1>4 DEF Prefix
  <2>2. HasUpdateSpace(p, r.length + Prefix(p.slots[i + 1].redirected))
    BY <1>9, <2>1
  <2>3. r.length >= TIDSize
    <3>1. r.length > old.length
      BY <1>4, <1>5, <1>9
    <3> QED
      BY <1>2, <1>3, <3>1 DEF NoneGrowsShort, UpdateMoved
  <2>4. SpaceIsAccounted(UpdateOnPage(p, i, r))
    BY <1>4, <1>5, <1>9, <2>2, <2>3, UpdateOnPageSpace
  <2> QED
    BY <1>4, <1>9, <2>4, SpaceChanges
<1>10. CASE ~IsFree(old) /\ Change(x.page, RemoveSlot(p, i))
  <2>1. SpaceIsAccounted(RemoveSlot(p, i))
    BY <1>4, <1>10, RemoveSpace
  <2> QED
    BY <1>4, <1>10, <2>1, SpaceChanges
<1> QED
  BY <1>6, <1>7, <1>8, <1>9, <1>10

LEMMA RedirectSegmentSpace ==
  ASSUME PInv, FreeSpaceIsRight, NEW t \in Writers, Redirect(t)
  PROVE  FreeSpaceIsRight'
<1>1. op[t].target \in Places /\ op[t].tid \in Given
  BY RedirectEffect
<1>2. PICK x \in Given, target \in TIDs : x = op[t].tid /\ target = op[t].target
  BY <1>1, GivenOrPlace
<1>3. x \in Taken
  BY GivenTaken
<1>4. PICK p, i : p = pages[x.page] /\ i = x.slot
  OBVIOUS
<1>5. /\ x.page \in PageIds /\ i \in Nat /\ i < Len(p.slots) /\ p \in SPPages /\ PageOK(p)
      /\ Slot(x) = p.slots[i + 1] /\ Slot(x) \in SPSlots /\ SpaceIsAccounted(p)
  BY <1>3, <1>4, TakenPage, TakenIsAccounted
<1> DEFINE marked == [Slot(x) EXCEPT !.onPage = @ \/ op[t].moved]
<1>6. marked.length = Slot(x).length
  BY <1>5 DEF SPSlots
<1>7. CASE ~UpdateInPlaceAssertion(marked, TIDSize)
  <2>1. pages' = pages
    BY <1>2, <1>7 DEF Redirect, Abort
  <2> QED
    BY <2>1, SamePagesSpace
<1>8. CASE UpdateInPlaceAssertion(marked, TIDSize)
  <2>1. Change(x.page, RedirectedPage(p, i, target))
    BY <1>2, <1>4, <1>8 DEF Redirect, RedirectedPage
  <2>2. TIDSize <= p.slots[i + 1].length
    <3>1. Room(TIDSize) = TIDSize
      BY SizesAssumption DEF Room
    <3> HIDE DEF marked
    <3> QED
      BY <1>5, <1>6, <1>8, <3>1 DEF UpdateInPlaceAssertion
  <2>3. SpaceIsAccounted(RedirectedPage(p, i, target))
    BY <1>5, <2>2, RedirectSpace
  <2> QED
    BY <1>5, <2>1, <2>3, SpaceChanges
<1> QED
  BY <1>7, <1>8

\* Only one thread at a time has a page fixed exclusively; it leaves the page counted.
LEMMA SpaceStep ==
  ASSUME PInv, NoneGrowsShort, FreeSpaceIsRight, [Next]_vars
  PROVE  FreeSpaceIsRight'
<1>1. ASSUME NEW t \in Writers, NEW r \in Records, Insert(t, r) PROVE FreeSpaceIsRight'
  BY <1>1, SamePagesSpace DEF Insert
<1>2. ASSUME NEW t \in Writers, NEW tid \in Given, NEW r \in Records, Update(t, tid, r)
      PROVE  FreeSpaceIsRight'
  <2>1. CASE UpdateHere(t, tid, r)
    BY <2>1, UpdateHereSpace
  <2>2. CASE UpdateAway(t, tid, r) \/ UpdateFollow(t, tid, r)
    <3>1. pages' = pages
      BY <2>2 DEF UpdateAway, UpdateFollow
    <3> QED
      BY <3>1, SamePagesSpace
  <2> QED
    BY <1>2, <2>1, <2>2 DEF Update
<1>3. ASSUME NEW t \in Writers, Search(t) PROVE FreeSpaceIsRight'
  <2>1. CASE SearchHit(t)
    <3>1. pc[t] = "search" /\ op[t].page < op[t].bound /\ Place(t, op[t].page)
      BY <2>1 DEF SearchHit
    <3>2. op[t].page \in PageIds /\ pc[t] # "idle"
      BY <3>1, SearchPageId
    <3> QED
      BY <3>1, <3>2, PlaceSpace
  <2>2. CASE SearchMiss(t) \/ AllocatePage(t)
    <3>1. pages' = pages
      BY <2>2 DEF SearchMiss, AllocatePage
    <3> QED
      BY <3>1, SamePagesSpace
  <2>3. CASE InitPage(t)
    BY <2>3, InitPageSpace
  <2>4. CASE PlaceOnNew(t)
    <3>1. pc[t] = "place" /\ Place(t, op[t].page)
      BY <2>4 DEF PlaceOnNew
    <3>2. op[t].page \in PageIds /\ pc[t] # "idle"
      BY <3>1, SearchPageId
    <3> QED
      BY <3>1, <3>2, PlaceSpace
  <2> QED
    BY <1>3, <2>1, <2>2, <2>3, <2>4 DEF Search
<1>4. ASSUME NEW t \in Readers, \/ \E tid \in Given : LookupFollow(t, tid)
                                \/ LookupMoved(t)
                                \/ Scan(t)
      PROVE  FreeSpaceIsRight'
  <2>1. pages' = pages
    BY <1>4 DEF LookupFollow, LookupMoved, Abort, Scan, BeginScan, ScanNext, ScanUnfix, ScanFix, EndScan
  <2> QED
    BY <2>1, SamePagesSpace
<1>5. CASE UNCHANGED vars
  BY <1>5, SamePagesSpace DEF vars
<1> QED
  BY <1>1, <1>2, <1>3, <1>4, <1>5, RemoveRecordSpace, UpdateMovedSpace, RedirectSegmentSpace DEF Next

\* The counter of free space is right on every page, through any number of insertions, moves,
\* updates and removals: so the question whether there is room has the right answer, and the
\* unsigned counter never wraps around (SPPage.cpp).
THEOREM FreeSpaceStaysRight ==
  ASSUME OneWriter
  PROVE  Spec /\ []NoneGrowsShort => []FreeSpaceIsRight
<1>1. Init => FreeSpaceIsRight
  BY DEF Init, FreeSpaceIsRight
<1>2. PInv /\ FreeSpaceIsRight /\ NoneGrowsShort /\ [Next]_vars => FreeSpaceIsRight'
  BY SpaceStep
<1> QED
  BY <1>1, <1>2, PagesInductive, PTL DEF Spec

\* Where byte x of the space in use is on the page: x[1] is the position of a slot, the first
\* bytes are those of the slot and the others those of its item.
Address(f, x) ==
  IF x[2] <= SlotSize THEN HeaderSize + (x[1] - 1) * SlotSize + x[2]
                      ELSE Begin(f[x[1]]) + (x[2] - SlotSize)

\* The slots of a page stand one behind the other.
LEMMA SlotsAreApart ==
  ASSUME NEW i \in Nat, NEW j \in Nat, i < j, NEW S \in Nat
  PROVE  /\ (i - 1) * S \in Int /\ (j - 1) * S \in Int
         /\ (i - 1) * S + S <= (j - 1) * S
<1>1. PICK d \in Nat : j = i + 1 + d
  <2>1. j - i - 1 \in Nat /\ j = i + 1 + (j - i - 1)
    OBVIOUS
  <2> QED
    BY <2>1
<1>2. d * S \in Nat /\ i * S \in Nat
  OBVIOUS
<1>3. (i - 1) * S = i * S - S /\ (j - 1) * S = i * S + d * S
  BY <1>1
<1> QED
  BY <1>2, <1>3

\* A byte in use: of a slot, or of an item.
LEMMA AddressIs ==
  ASSUME NEW p \in SPPages, ItemsApart(p), NEW x \in SpaceInUse(p)
  PROVE  /\ x[1] \in Nat /\ x[1] \in DOMAIN p.slots /\ x[2] \in Nat /\ x = <<x[1], x[2]>>
         /\ ~IsFree(p.slots[x[1]])
         /\ Address(p.slots, x) \in HeaderSize + 1 .. PageSize
         /\ x[2] <= SlotSize => /\ x[2] > 0 /\ Address(p.slots, x) <= p.dataStart
                                /\ Address(p.slots, x) = HeaderSize + (x[1] - 1) * SlotSize + x[2]
         /\ ~(x[2] <= SlotSize) => /\ Address(p.slots, x) = Begin(p.slots[x[1]]) + (x[2] - SlotSize)
                                   /\ Address(p.slots, x) > p.dataStart
                                   /\ Address(p.slots, x) <= End(p.slots[x[1]])
<1>1. PICK i \in DOMAIN p.slots : ~IsFree(p.slots[i]) /\ x \in {i} \X (1 .. ItemSpace(p.slots[i]))
  BY DEF SpaceInUse
<1>2. PICK slot : slot = p.slots[i]
  OBVIOUS
<1>3. /\ p.slots \in Seq(SPSlots) /\ p.dataStart \in Nat /\ Len(p.slots) \in Nat
      /\ i \in 1 .. Len(p.slots) /\ slot \in SPSlots
  BY <1>2 DEF SPPages
<1>4. /\ Room(slot.length) \in Nat /\ Prefix(slot.redirected) \in Nat /\ slot.offset \in Nat
      /\ SlotSize \in Nat /\ SlotSize > 0 /\ HeaderSize \in Nat /\ HeaderSize > 0 /\ PageSize \in Nat
  <2>1. Room(slot.length) \in Nat /\ Prefix(slot.redirected) \in Nat
    BY <1>3, SlotNumbers
  <2>2. slot.offset \in Nat
    BY <1>3 DEF SPSlots
  <2>3. SlotSize \in Nat /\ SlotSize > 0 /\ HeaderSize \in Nat /\ HeaderSize > 0 /\ PageSize \in Nat
    BY SizesAssumption
  <2> QED
    BY <2>1, <2>2, <2>3
<1>5. PICK b : b = x[2]
  OBVIOUS
<1>6. x[1] = i /\ x = <<i, b>> /\ b \in 1 .. ItemSpace(slot)
  BY <1>1, <1>2, <1>5
<1>7. b \in Nat /\ b > 0 /\ b <= SlotSize + Room(slot.length) + Prefix(slot.redirected)
  BY <1>4, <1>6 DEF ItemSpace
<1>8. Sound(p)
  BY SoundIsItemsApart
<1>9. p.dataStart <= PageSize /\ p.dataStart <= Begin(slot) /\ End(slot) <= PageSize
  BY <1>1, <1>2, <1>8 DEF Sound, InPage
<1>10. HeaderSize + Len(p.slots) * SlotSize <= p.dataStart /\ Len(p.slots) * SlotSize \in Nat
  <2>1. PICK n \in Nat : n = Len(p.slots)
    BY <1>3
  <2>2. n * SlotSize \in Nat
    BY <1>4
  <2>3. p.dataStart - HeaderSize - n * SlotSize >= 0
    BY <1>8, <2>1 DEF Sound, Gap
  <2> QED
    BY <1>3, <1>4, <2>1, <2>2, <2>3
<1>11. CASE b <= SlotSize
  <2>1. PICK n, s : n = Len(p.slots) /\ s = (i - 1) * SlotSize /\ n \in Nat
    BY <1>3
  <2>2. s \in Nat /\ s + SlotSize <= n * SlotSize /\ n * SlotSize \in Nat
    <3>1. PICK j : j = n + 1 /\ j - 1 = n /\ j \in Nat /\ i < j /\ i \in Nat /\ i > 0
      BY <1>3, <2>1
    <3>2. (i - 1) * SlotSize + SlotSize <= (j - 1) * SlotSize
      BY <1>4, <3>1, SlotsAreApart
    <3>3. (j - 1) * SlotSize = n * SlotSize
      BY <3>1
    <3>4. i - 1 \in Nat
      BY <3>1
    <3>5. s \in Nat
      BY <1>4, <2>1, <3>4
    <3>6. n * SlotSize \in Nat
      BY <1>10, <2>1
    <3> QED
      BY <2>1, <3>2, <3>3, <3>5, <3>6
  <2>3. Address(p.slots, x) = HeaderSize + s + b
    BY <1>5, <1>6, <1>11, <2>1 DEF Address
  <2>4. HeaderSize + s + b \in Nat /\ HeaderSize + 1 <= HeaderSize + s + b
        /\ HeaderSize + s + b <= p.dataStart
    <3>1. PICK m, d : m = n * SlotSize /\ d = p.dataStart
      OBVIOUS
    <3>2. m \in Nat /\ d \in Nat /\ HeaderSize + m <= d /\ s + SlotSize <= m
      BY <1>3, <1>10, <2>1, <2>2, <3>1
    <3>3. HeaderSize + s + b <= d
      BY <1>4, <1>7, <1>11, <2>2, <3>2
    <3> QED
      BY <1>4, <1>7, <2>2, <3>1, <3>3
  <2>5. HeaderSize + s + b \in HeaderSize + 1 .. PageSize
    BY <1>3, <1>4, <1>9, <2>4
  <2> QED
    BY <1>1, <1>2, <1>3, <1>5, <1>6, <1>7, <1>11, <2>1, <2>3, <2>4, <2>5
<1>12. CASE ~(b <= SlotSize)
  <2>1. PICK s, e : s = Begin(slot) /\ e = End(slot)
    OBVIOUS
  <2>2. s \in Int /\ e \in Int /\ e = s + Room(slot.length) + Prefix(slot.redirected)
    BY <1>4, <2>1 DEF Begin, End
  <2>3. Address(p.slots, x) = s + (b - SlotSize)
    BY <1>2, <1>5, <1>6, <1>12, <2>1 DEF Address
  <2>4. s + (b - SlotSize) \in Int /\ s + (b - SlotSize) > p.dataStart /\ s + (b - SlotSize) <= e
    <3>1. PICK d, r, q : /\ d = p.dataStart /\ r = Room(slot.length) /\ q = Prefix(slot.redirected)
                         /\ d \in Nat /\ r \in Nat /\ q \in Nat
      BY <1>3, <1>4
    <3>2. d <= s /\ e = s + r + q /\ b <= SlotSize + r + q
      BY <1>7, <1>9, <2>1, <2>2, <3>1
    <3>3. b - SlotSize \in Nat /\ b - SlotSize > 0
      BY <1>4, <1>7, <1>12
    <3>4. s + (b - SlotSize) > d /\ s + (b - SlotSize) <= e
      BY <1>4, <1>7, <2>2, <3>1, <3>2, <3>3
    <3> QED
      BY <2>2, <3>1, <3>3, <3>4
  <2>5. HeaderSize <= p.dataStart /\ e <= PageSize
    BY <1>3, <1>4, <1>9, <1>10, <2>1
  <2>6. s + (b - SlotSize) \in HeaderSize + 1 .. PageSize
    BY <1>3, <1>4, <2>2, <2>4, <2>5
  <2> QED
    BY <1>1, <1>2, <1>3, <1>5, <1>6, <1>7, <1>12, <2>1, <2>3, <2>4, <2>6
<1> QED
  BY <1>11, <1>12

\* No two bytes in use are the same byte of the page.
LEMMA AddressesDiffer ==
  ASSUME NEW p \in SPPages, ItemsApart(p), NEW x \in SpaceInUse(p), NEW y \in SpaceInUse(p),
         Address(p.slots, x) = Address(p.slots, y)
  PROVE  x = y
<1>1. PICK i, b, j, c, a : /\ i = x[1] /\ b = x[2] /\ j = y[1] /\ c = y[2]
                           /\ a = Address(p.slots, x)
  OBVIOUS
<1>2. /\ i \in Nat /\ j \in Nat /\ b \in Nat /\ c \in Nat /\ a \in HeaderSize + 1 .. PageSize
      /\ i \in DOMAIN p.slots /\ j \in DOMAIN p.slots
      /\ x = <<i, b>> /\ y = <<j, c>> /\ ~IsFree(p.slots[i]) /\ ~IsFree(p.slots[j])
  BY <1>1, AddressIs
<1>3. /\ SlotSize \in Nat /\ HeaderSize \in Nat /\ PageSize \in Nat /\ p.dataStart \in Nat /\ a \in Nat
  BY <1>2, SizesAssumption DEF SPPages
<1>4. /\ b <= SlotSize => b > 0 /\ a <= p.dataStart /\ a = HeaderSize + (i - 1) * SlotSize + b
      /\ ~(b <= SlotSize) => /\ a = Begin(p.slots[i]) + (b - SlotSize)
                             /\ a > p.dataStart /\ a <= End(p.slots[i])
  BY <1>1, AddressIs
<1>5. /\ c <= SlotSize => c > 0 /\ a <= p.dataStart /\ a = HeaderSize + (j - 1) * SlotSize + c
      /\ ~(c <= SlotSize) => /\ a = Begin(p.slots[j]) + (c - SlotSize)
                             /\ a > p.dataStart /\ a <= End(p.slots[j])
  BY <1>1, AddressIs
<1>6. (b <= SlotSize) <=> (c <= SlotSize)
  BY <1>3, <1>4, <1>5
<1>7. CASE b <= SlotSize
  <2>1. PICK s, u : s = (i - 1) * SlotSize /\ u = (j - 1) * SlotSize
    OBVIOUS
  <2>2. s \in Int /\ u \in Int
    <3>1. i - 1 \in Int /\ j - 1 \in Int
      BY <1>2
    <3> QED
      BY <1>3, <2>1, <3>1
  <2>3. i < j => s + SlotSize <= u
    BY <1>2, <1>3, <2>1, SlotsAreApart
  <2>4. j < i => u + SlotSize <= s
    BY <1>2, <1>3, <2>1, SlotsAreApart
  <2>5. a = HeaderSize + s + b /\ a = HeaderSize + u + c /\ b > 0 /\ c > 0 /\ c <= SlotSize
    BY <1>4, <1>5, <1>6, <1>7, <2>1
  <2>6. ~(i < j) /\ ~(j < i)
    BY <1>2, <1>3, <1>7, <2>2, <2>3, <2>4, <2>5
  <2>7. i = j
    BY <1>2, <2>6
  <2>8. s = u
    BY <2>1, <2>7
  <2>9. b = c
    BY <1>2, <1>3, <2>2, <2>5, <2>8
  <2> QED
    BY <1>2, <2>7, <2>9
<1>8. CASE ~(b <= SlotSize)
  <2>1. /\ p.slots[i] \in SPSlots /\ p.slots[j] \in SPSlots
    BY <1>2 DEF SPPages
  <2>2. PICK s, u, e, f : s = Begin(p.slots[i]) /\ u = Begin(p.slots[j])
                          /\ e = End(p.slots[i]) /\ f = End(p.slots[j])
    OBVIOUS
  <2>3. s \in Int /\ u \in Int /\ e \in Int /\ f \in Int
    BY <2>1, <2>2, SlotNumbers
  <2>4. a = s + (b - SlotSize) /\ a = u + (c - SlotSize) /\ a <= e /\ a <= f
    BY <1>4, <1>5, <1>6, <1>8, <2>2
  <2>5. i # j => e <= u \/ f <= s
    BY <1>2, <2>2 DEF ItemsApart
  <2>6. i = j
    BY <1>2, <1>3, <1>6, <1>8, <2>3, <2>4, <2>5
  <2>7. s = u
    BY <2>2, <2>6
  <2>8. b = c
    BY <1>2, <1>3, <2>3, <2>4, <2>7
  <2> QED
    BY <1>2, <2>6, <2>8
<1> QED
  BY <1>7, <1>8

\* The space in use has room on the page behind its header.
LEMMA SpaceFits ==
  ASSUME NEW p \in SPPages, ItemsApart(p), SpaceIsAccounted(p)
  PROVE  p.freeSpace >= 0
<1> DEFINE T == HeaderSize + 1 .. PageSize
           h == [x \in SpaceInUse(p) |-> Address(p.slots, x)]
<1>1. h \in [SpaceInUse(p) -> T] /\ \A x \in SpaceInUse(p) : h[x] = Address(p.slots, x)
  BY AddressIs
<1> HIDE DEF h
<1>2. \A x, y \in SpaceInUse(p) : h[x] = h[y] => x = y
  BY <1>1, AddressesDiffer
<1>3. h \in Injection(SpaceInUse(p), T)
  <2>1. IsInjective(h)
    BY <1>1, <1>2, Zenon DEF IsInjective
  <2> QED
    BY <1>1, <2>1, Zenon DEF Injection
<1>4. IsFiniteSet(T) /\ Cardinality(T) = PageSize - HeaderSize
  <2>1. HeaderSize + 1 \in Int /\ PageSize \in Int
    BY SizesAssumption
  <2>2. IsFiniteSet(T) /\ Cardinality(T) = IF HeaderSize + 1 > PageSize THEN 0 ELSE PageSize - (HeaderSize + 1) + 1
    BY <2>1, FS_Interval
  <2> HIDE DEF T
  <2> QED
    BY <2>2, SizesAssumption
<1> HIDE DEF T
<1>5. IsFiniteSet(SpaceInUse(p)) /\ Cardinality(SpaceInUse(p)) <= Cardinality(T)
  BY <1>3, <1>4, FS_Injection
<1>6. PICK u : u = Cardinality(SpaceInUse(p))
  OBVIOUS
<1>7. u \in Nat /\ u <= PageSize - HeaderSize
  BY <1>4, <1>5, <1>6, FS_CardinalityType
<1>8. p.freeSpace = PageSize - HeaderSize - u
  BY <1>6 DEF SpaceIsAccounted
<1> QED
  BY <1>7, <1>8, SizesAssumption

\* The counter of free space does not wrap around below zero, on any page (SPPage.cpp:31-132;
\* it is unsigned there): what slots and items in use take is on the page, and apart.
THEOREM FreeSpaceNeverWraps ==
  ASSUME OneWriter
  PROVE  Spec /\ []NoneGrowsShort => []\A p \in PageIds : pages[p].freeSpace >= 0
<1>1. PInv /\ FreeSpaceIsRight => \A p \in PageIds : pages[p].freeSpace >= 0
  <2> SUFFICES ASSUME PInv, FreeSpaceIsRight, NEW p \in PageIds PROVE pages[p].freeSpace >= 0
    OBVIOUS
  <2>1. pages[p] \in SPPages /\ PageOK(pages[p])
    BY PInvTypes
  <2>2. CASE pages[p] = ZeroPage
    BY <2>2 DEF ZeroPage
  <2>3. CASE pages[p] # ZeroPage
    BY <2>1, <2>3, SpaceFits DEF PageOK, FreeSpaceIsRight
  <2> QED
    BY <2>2, <2>3
<1> QED
  BY <1>1, PagesInductive, FreeSpaceStaysRight, PTL

---------------------------------------------------------------------------
(* Redirections *)

Alive == {x \in Taken : ~IsFree(SlotOf[x])}

\* t has taken the record of x away from where it had moved to.
Moves(t, x) == op[t].tid = x /\ op[t].moved /\ pc[t] # "moved"

\* A moved record has its original TID, which leads to it or is about to.
BackOK ==
  \A x \in Places : x \in Alive =>
    /\ SlotOf[x].onPage /\ SlotOf[x].original \in Given
    /\ \/ /\ SlotOf[x].original \in Alive /\ ~SlotOf[SlotOf[x].original].onPage
          /\ SlotOf[SlotOf[x].original].item = x
       \/ \E t \in Writers : /\ pc[t] = "redirect" /\ op[t].target = x
                             /\ op[t].tid = SlotOf[x].original

\* A redirection leads to a record with that original TID, if no update has it in hand.
ForthOK ==
  \A x \in Given : x \in Alive /\ ~SlotOf[x].onPage /\ (\A t \in Writers : ~Moves(t, x)) =>
    SlotOf[x].item \in Alive /\ SlotOf[SlotOf[x].item].original = x

\* An update: its TID has a record; while the record is moved again, its old place is
\* free; its new place is not led to before the last step.
MoveOK(label, o) ==
  label # "idle" /\ o.tid # Nil =>
    /\ o.tid \in Alive
    /\ o.moved = ~SlotOf[o.tid].onPage
    /\ o.moved /\ label # "moved" => SlotOf[o.tid].item \notin Alive
    /\ label = "moved" => o.moved /\ SlotOf[o.tid].item = o.target
    /\ label = "redirect" =>
         /\ o.target \in Alive /\ SlotOf[o.target].original = o.tid
         /\ SlotOf[o.target].item = o.record
         /\ \A x \in Given : x \in Alive /\ ~SlotOf[x].onPage => SlotOf[x].item # o.target

MovesOK == \A t \in Writers : MoveOK(pc[t], op[t])

\* A look-up on its way is on the way to the record, or to a place it has left.
LookupsOK ==
  \A u \in Readers : pc[u] = "lookup" =>
    /\ op[u].tid \in Alive /\ ~SlotOf[op[u].tid].onPage
    /\ op[u].target \in Alive => SlotOf[op[u].tid].item = op[u].target

RInv == BackOK /\ ForthOK /\ MovesOK /\ LookupsOK

\* What PInv says of TIDs and operations.
LEMMA RFacts ==
  ASSUME PInv
  PROVE  /\ Given \subseteq Taken /\ Places \subseteq Taken /\ Taken \subseteq TIDs
         /\ \A x \in Taken : x \in Given <=> ~SlotOf[x].redirected
         /\ \A x \in Taken : x \in Places <=> SlotOf[x].redirected
         /\ \A x \in Taken : SlotOf[x].onPage \in BOOLEAN /\ SlotOf[x].redirected \in BOOLEAN
         /\ \A x \in Taken : x \in Alive /\ ~SlotOf[x].onPage =>
              SlotOf[x].item \in Places /\ x \in Given
         /\ \A x \in Taken : x \in Alive /\ SlotOf[x].onPage => SlotOf[x].item \in Records
         /\ \A t \in Writers : op[t].tid # Nil => op[t].tid \in Given
         /\ \A t \in Threads : op[t].moved \in BOOLEAN
         /\ \A t \in Readers : pc[t] = "lookup" => op[t].tid \in Given /\ op[t].target \in Places
         /\ Nil \notin Taken /\ Nil \notin Records
<1>1. /\ Given = {x \in Taken : ~SlotOf[x].redirected}
      /\ Places = {x \in Taken : SlotOf[x].redirected} /\ Taken \subseteq TIDs
  BY GivenTaken, GivenOrPlace DEF Places
<1>2. LinksOK
  BY DEF PInv
<1>3. \A x \in Taken : SlotOf[x].onPage \in BOOLEAN /\ SlotOf[x].redirected \in BOOLEAN
  BY TakenPage
<1>4. /\ \A x \in Taken : x \in Alive /\ ~SlotOf[x].onPage => SlotOf[x].item \in Places /\ x \in Given
      /\ \A x \in Taken : x \in Alive /\ SlotOf[x].onPage => SlotOf[x].item \in Records
  BY <1>1, <1>2 DEF LinksOK, Alive
<1>5. \A t \in Writers : op[t].tid # Nil => op[t].tid \in Given
  BY DEF PInv, WritersOK, WriterOK, LabelOK
<1>6. \A t \in Threads : op[t].moved \in BOOLEAN
  BY PInvTypes DEF Ops
<1>7. \A t \in Readers : pc[t] = "lookup" => op[t].tid \in Given /\ op[t].target \in Places
  BY DEF PInv, ReadersOK, ReaderOK
<1>8. QED
  BY <1>1, <1>3, <1>4, <1>5, <1>6, <1>7, NilIsNone

\* A writer's step and the other threads.
LEMMA WriterSteps ==
  ASSUME PInv, OneWriter, NEW t \in Writers, NEW label, NEW o,
         pc' = [pc EXCEPT ![t] = label], op' = [op EXCEPT ![t] = o]
  PROVE  /\ pc'[t] = label /\ op'[t] = o
         /\ \A u \in Writers : u = t
         /\ \A u \in Readers : pc'[u] = pc[u] /\ op'[u] = op[u]
BY PInvTypes DEF OneWriter

\* No slot changes, and a record is in hand as before.
LEMMA SameSlotsR ==
  ASSUME PInv, RInv, OneWriter, NEW t \in Writers, NEW label, NEW o, SameSlots,
         pc' = [pc EXCEPT ![t] = label], op' = [op EXCEPT ![t] = o],
         pc[t] # "redirect", label # "redirect",
         (o.tid # Nil /\ o.moved /\ label # "moved")
           <=> (op[t].tid # Nil /\ op[t].moved /\ pc[t] # "moved"),
         o.moved /\ label # "moved" => o.tid = op[t].tid,
         MoveOK(label, o)
  PROVE  RInv'
<1>1. Taken' = Taken /\ SlotOf' = SlotOf
  BY DEF SameSlots
<1>2. Given' = Given /\ Places' = Places
  BY <1>1, GivenTaken, PrimedGiven DEF Places
<1>3. /\ pc'[t] = label /\ op'[t] = o
      /\ \A u \in Writers : u = t
      /\ \A u \in Readers : pc'[u] = pc[u] /\ op'[u] = op[u]
  BY WriterSteps
<1>5. BackOK'
  BY <1>1, <1>2, <1>3 DEF RInv, BackOK, Alive
<1>6. ForthOK'
  BY <1>1, <1>2, <1>3, RFacts DEF RInv, ForthOK, Alive, Moves
<1>7. MovesOK'
  BY <1>1, <1>2, <1>3 DEF MovesOK, MoveOK, Alive
<1>8. LookupsOK'
  BY <1>1, <1>2, <1>3 DEF RInv, LookupsOK, Alive
<1>9. QED
  BY <1>5, <1>6, <1>7, <1>8 DEF RInv

LEMMA UnchangedR ==
  ASSUME PInv, RInv, SameSlots, UNCHANGED <<pc, op>>
  PROVE  RInv'
<1>1. Taken' = Taken /\ SlotOf' = SlotOf
  BY DEF SameSlots
<1>2. Given' = Given /\ Places' = Places
  BY <1>1, GivenTaken, PrimedGiven DEF Places
<1>3. BackOK' /\ ForthOK'
  BY <1>1, <1>2 DEF RInv, BackOK, ForthOK, Alive, Moves
<1>4. MovesOK'
  BY <1>1, <1>2 DEF RInv, MovesOK, MoveOK, Alive
<1>5. LookupsOK'
  BY <1>1, <1>2 DEF RInv, LookupsOK, Alive
<1>6. QED
  BY <1>3, <1>4, <1>5 DEF RInv

LEMMA AbortedR ==
  ASSUME PInv, RInv, Aborted
  PROVE  RInv'
BY SamePagesSameSlots, UnchangedR DEF Aborted

LEMMA IdleWriter ==
  ASSUME PInv, NEW t \in Writers, pc[t] = "idle"
  PROVE  op[t] = NoOp /\ op[t].tid = Nil /\ ~op[t].moved
<1>1. op[t] = NoOp
  BY DEF PInv, WritersOK, WriterOK, LabelOK
<1>2. NoOp.tid = Nil /\ NoOp.moved = FALSE
  BY DEF NoOp
<1>3. QED
  BY <1>1, <1>2

LEMMA InsertR ==
  ASSUME PInv, RInv, OneWriter, NEW t \in Writers, NEW r \in Records, Insert(t, r)
  PROVE  RInv'
<1> DEFINE o == [[NoOp EXCEPT !.record = r] EXCEPT !.page = 0, !.bound = size]
<1>1. /\ pages' = pages /\ pc[t] = "idle"
      /\ pc' = [pc EXCEPT ![t] = "search"] /\ op' = [op EXCEPT ![t] = o]
  BY DEF Insert, BeginSearch, Goto
<1>2. o.tid = Nil /\ ~o.moved
  BY DEF NoOp
<1> HIDE DEF o
<1>3. MoveOK("search", o)
  BY <1>2 DEF MoveOK
<1>4. QED
  BY <1>1, <1>2, <1>3, IdleWriter, SamePagesSameSlots, SameSlotsR

LEMMA UpdateAwayR ==
  ASSUME PInv, RInv, OneWriter, NEW t \in Writers, NEW tid \in Given, NEW r \in Records,
         UpdateAway(t, tid, r)
  PROVE  RInv'
<1> DEFINE o == [[NoOp EXCEPT !.tid = tid, !.record = r] EXCEPT !.page = 0, !.bound = size]
<1>1. /\ pages' = pages /\ pc[t] = "idle" /\ ~IsFree(Slot(tid)) /\ Slot(tid).onPage
      /\ pc' = [pc EXCEPT ![t] = "search"] /\ op' = [op EXCEPT ![t] = o]
  BY DEF UpdateAway, BeginSearch, Goto
<1>2. o.tid = tid /\ o.moved = FALSE
  BY DEF NoOp
<1> HIDE DEF o
<1>3. tid \in Taken /\ SlotOf[tid] = Slot(tid)
  BY RFacts, TakenPage
<1>4. MoveOK("search", o)
  BY <1>1, <1>2, <1>3 DEF MoveOK, Alive
<1>5. QED
  BY <1>1, <1>2, <1>4, IdleWriter, SamePagesSameSlots, SameSlotsR

LEMMA UpdateFollowR ==
  ASSUME PInv, RInv, OneWriter, NEW t \in Writers, NEW tid \in Given, NEW r \in Records,
         UpdateFollow(t, tid, r)
  PROVE  RInv'
<1> DEFINE o == [NoOp EXCEPT !.tid = tid, !.record = r, !.moved = TRUE, !.target = Slot(tid).item]
<1>1. /\ pages' = pages /\ pc[t] = "idle" /\ ~IsFree(Slot(tid)) /\ ~Slot(tid).onPage
      /\ pc' = [pc EXCEPT ![t] = "moved"] /\ op' = [op EXCEPT ![t] = o]
  BY DEF UpdateFollow, Goto
<1>2. o.tid = tid /\ o.moved = TRUE /\ o.target = Slot(tid).item
  BY DEF NoOp
<1> HIDE DEF o
<1>3. tid \in Taken /\ SlotOf[tid] = Slot(tid) /\ SlotOf[tid].onPage \in BOOLEAN
  BY RFacts, TakenPage
<1>4. MoveOK("moved", o)
  BY <1>1, <1>2, <1>3 DEF MoveOK, Alive
<1>5. QED
  BY <1>1, <1>2, <1>4, IdleWriter, SamePagesSameSlots, SameSlotsR

\* t goes on to a label of a search, with the same record and TID.
Searches(t, label, o) ==
  /\ label \in {"search", "init", "place"}
  /\ pc' = [pc EXCEPT ![t] = label] /\ op' = [op EXCEPT ![t] = o]
  /\ o.record = op[t].record /\ o.tid = op[t].tid /\ o.moved = op[t].moved

\* The steps of a search that change no slot.
LEMMA SearchSteps ==
  ASSUME PInv, NEW t \in Writers, SearchMiss(t) \/ AllocatePage(t) \/ InitPage(t)
  PROVE  /\ SameSlots /\ pc[t] \in {"search", "init"}
         /\ \E label, o : Searches(t, label, o)
<1>1. /\ pc[t] \in {"search", "init"}
      /\ \E label \in {"search", "init", "place"} : pc' = [pc EXCEPT ![t] = label]
      /\ \E o : /\ op' = [op EXCEPT ![t] = o]
                /\ o.record = op[t].record /\ o.tid = op[t].tid /\ o.moved = op[t].moved
  <2>1. op \in [Threads -> Ops] /\ pc \in [Threads -> Labels] /\ t \in Threads
    BY PInvTypes DEF Labels
  <2>2. CASE SearchMiss(t)
    <3>1. /\ pc[t] = "search" /\ pc' = [pc EXCEPT ![t] = "search"]
          /\ op' = [op EXCEPT ![t].page = @ + 1]
      BY <2>1, <2>2 DEF SearchMiss
    <3>2. PICK old \in Ops : old = op[t]
      BY <2>1
    <3> DEFINE o == [old EXCEPT !.page = old.page + 1]
    <3>3. /\ op' = [op EXCEPT ![t] = o]
          /\ o.record = old.record /\ o.tid = old.tid /\ o.moved = old.moved
      BY <2>1, <3>1, <3>2 DEF Ops
    <3>4. QED
      BY <3>1, <3>2, <3>3
  <2>3. CASE AllocatePage(t)
    <3>1. /\ pc[t] = "search" /\ op' = op
          /\ pc' = [pc EXCEPT ![t] = "init"] \/ pc' = [pc EXCEPT ![t] = "place"]
      BY <2>3 DEF AllocatePage, Goto
    <3>2. op' = [op EXCEPT ![t] = op[t]]
      BY <2>1, <3>1
    <3>3. QED
      BY <3>1, <3>2
  <2>4. CASE InitPage(t)
    <3>1. pc[t] = "init" /\ op' = op /\ pc' = [pc EXCEPT ![t] = "place"]
      BY <2>4 DEF InitPage, Goto
    <3>2. op' = [op EXCEPT ![t] = op[t]]
      BY <2>1, <3>1
    <3>3. QED
      BY <3>1, <3>2
  <2>5. QED
    BY <2>2, <2>3, <2>4
<1>2. SameSlots
  <2>1. ASSUME SearchMiss(t) \/ AllocatePage(t) PROVE pages' = pages
    BY <2>1 DEF SearchMiss, AllocatePage
  <2>2. QED
    BY <2>1, SamePagesSameSlots, InitPageEffect
<1>3. PICK label \in {"search", "init", "place"} : pc' = [pc EXCEPT ![t] = label]
  BY <1>1
<1>4. PICK o : /\ op' = [op EXCEPT ![t] = o]
               /\ o.record = op[t].record /\ o.tid = op[t].tid /\ o.moved = op[t].moved
  BY <1>1
<1>5. Searches(t, label, o)
  BY <1>3, <1>4 DEF Searches
<1>6. QED
  BY <1>1, <1>2, <1>5

LEMMA SearchR ==
  ASSUME PInv, RInv, OneWriter, NEW t \in Writers,
         SearchMiss(t) \/ AllocatePage(t) \/ InitPage(t)
  PROVE  RInv'
<1>1. SameSlots /\ pc[t] \in {"search", "init"}
  BY SearchSteps
<1>2. \E label, o : Searches(t, label, o)
  BY SearchSteps
<1>3. PICK label, o :
        /\ label \in {"search", "init", "place"}
        /\ pc' = [pc EXCEPT ![t] = label] /\ op' = [op EXCEPT ![t] = o]
        /\ o.record = op[t].record /\ o.tid = op[t].tid /\ o.moved = op[t].moved
  BY <1>2 DEF Searches
<1>4. MoveOK(label, o)
  <2>1. MoveOK(pc[t], op[t])
    BY DEF RInv, MovesOK
  <2>2. QED
    BY <1>1, <1>3, <2>1 DEF MoveOK
<1>5. QED
  BY <1>1, <1>3, <1>4, SameSlotsR

\* A slot that is set, and the others.
LEMMA SlotSteps ==
  ASSUME PInv, NEW x, NEW slot, SlotStep(x, slot)
  PROVE  /\ Taken' = Taken \cup {x} /\ SlotOf'[x] = slot
         /\ \A y \in Taken : y # x => SlotOf'[y] = SlotOf[y]
         /\ Alive' \ {x} = Alive \ {x} /\ Alive \subseteq Taken /\ Alive' \subseteq Taken'
         /\ (x \in Alive') = ~IsFree(slot)
<1>1. /\ Taken' = Taken \cup {x}
      /\ SlotOf' = [y \in Taken \cup {x} |-> IF y = x THEN slot ELSE SlotOf[y]]
  BY DEF SlotStep, SetsSlot
<1>2. SlotOf'[x] = slot /\ \A y \in Taken : y # x => SlotOf'[y] = SlotOf[y]
  BY <1>1
<1>3. QED
  BY <1>1, <1>2 DEF Alive

LEMMA KeptTIDs ==
  ASSUME PInv, NEW x \in Taken, NEW slot, SlotStep(x, slot),
         slot.redirected = SlotOf[x].redirected
  PROVE  Taken' = Taken /\ Given' = Given /\ Places' = Places
<1>1. /\ Taken' = Taken /\ SlotOf'[x] = slot
      /\ \A y \in Taken : y # x => SlotOf'[y] = SlotOf[y]
  <2>1. /\ Taken' = Taken \cup {x} /\ SlotOf'[x] = slot
        /\ \A y \in Taken : y # x => SlotOf'[y] = SlotOf[y]
    BY SlotSteps
  <2>2. Taken \cup {x} = Taken
    OBVIOUS
  <2>3. QED
    BY <2>1, <2>2
<1>2. \A y \in Taken : SlotOf'[y].redirected = SlotOf[y].redirected
  BY <1>1
<1>3. QED
  BY <1>1, <1>2, GivenTaken, PrimedGiven DEF Places

\* A record on its page, under its own TID, changes or goes.
LEMMA OwnSlotR ==
  ASSUME PInv, RInv, NEW x \in Given, NEW slot, SlotStep(x, slot), x \in Alive, SlotOf[x].onPage,
         slot.redirected = SlotOf[x].redirected, IsFree(slot) \/ slot.onPage,
         UNCHANGED <<pc, op>>, \A t \in Writers : pc[t] = "idle"
  PROVE  RInv'
<1>1. x \in Taken /\ x \notin Places
  BY RFacts
<1>2. Given' = Given /\ Places' = Places
  BY <1>1, KeptTIDs
<1>3. /\ Taken' = Taken /\ SlotOf'[x] = slot
      /\ \A y \in Taken : y # x => SlotOf'[y] = SlotOf[y]
      /\ \A y : y # x => (y \in Alive' <=> y \in Alive)
      /\ (x \in Alive') = ~IsFree(slot)
  <2>1. /\ SlotOf'[x] = slot
        /\ \A y \in Taken : y # x => SlotOf'[y] = SlotOf[y]
        /\ Alive' \ {x} = Alive \ {x} /\ (x \in Alive') = ~IsFree(slot)
    BY SlotSteps
  <2>2. Taken' = Taken
    BY <1>1, KeptTIDs
  <2>3. QED
    BY <2>1, <2>2
<1>4. BackOK'
  <2>1. ASSUME NEW y \in Places, y \in Alive'
        PROVE  /\ SlotOf'[y].onPage /\ SlotOf'[y].original \in Given
               /\ SlotOf'[SlotOf'[y].original].item = y
               /\ SlotOf'[y].original \in Alive' /\ ~SlotOf'[SlotOf'[y].original].onPage
    <3>1. y # x /\ y \in Taken /\ SlotOf'[y] = SlotOf[y] /\ y \in Alive
      BY <1>1, <1>3, <2>1, RFacts
    <3>2. PICK tid \in Given : tid = SlotOf[y].original
      BY <3>1 DEF RInv, BackOK
    <3>3. SlotOf[y].onPage /\ tid \in Alive /\ ~SlotOf[tid].onPage /\ SlotOf[tid].item = y
      BY <3>1, <3>2 DEF RInv, BackOK
    <3>4. tid # x /\ tid \in Taken
      BY <3>3, RFacts
    <3>5. tid \in Alive' /\ SlotOf'[tid] = SlotOf[tid]
      BY <1>3, <3>3, <3>4
    <3>6. SlotOf'[y].original = tid
      BY <3>1, <3>2
    <3>7. SlotOf'[y].original \in Alive'
      BY <3>5, <3>6 DEF Alive
    <3>8. QED
      BY <3>1, <3>3, <3>5, <3>6, <3>7
  <2>2. QED
    BY <1>2, <2>1 DEF BackOK, Alive
<1>5. ForthOK'
  <2>1. ASSUME NEW y \in Given, y \in Alive', ~SlotOf'[y].onPage
        PROVE  SlotOf'[y].item \in Taken' /\ ~IsFree(SlotOf'[SlotOf'[y].item])
               /\ SlotOf'[SlotOf'[y].item].original = y
    <3>1. y # x /\ y \in Taken /\ SlotOf'[y] = SlotOf[y] /\ y \in Alive
      BY <1>1, <1>3, <2>1, RFacts
    <3>2. \A t \in Writers : ~Moves(t, y)
      BY IdleWriter DEF Moves
    <3>3. PICK z \in Places : z = SlotOf[y].item
      BY <2>1, <3>1, RFacts
    <3>4. z \in Alive /\ SlotOf[z].original = y
      BY <2>1, <3>1, <3>2, <3>3 DEF RInv, ForthOK
    <3>5. z # x /\ z \in Taken /\ SlotOf'[z] = SlotOf[z]
      BY <1>1, <1>3, RFacts
    <3>6. QED
      BY <1>3, <3>1, <3>3, <3>4, <3>5 DEF Alive
  <2>2. QED
    BY <1>2, <2>1 DEF ForthOK, Alive
<1>6. MovesOK'
  BY DEF MovesOK, MoveOK
<1>7. LookupsOK'
  <2>1. ASSUME NEW u \in Readers, pc[u] = "lookup"
        PROVE  /\ op[u].tid \in Taken' /\ ~IsFree(SlotOf'[op[u].tid])
               /\ ~SlotOf'[op[u].tid].onPage
               /\ op[u].target \in Taken' /\ ~IsFree(SlotOf'[op[u].target])
                    => SlotOf'[op[u].tid].item = op[u].target
    <3>1. /\ op[u].tid \in Alive /\ ~SlotOf[op[u].tid].onPage
          /\ op[u].target \in Alive => SlotOf[op[u].tid].item = op[u].target
          /\ op[u].tid \in Taken /\ op[u].target \in Places /\ op[u].target \in Taken
      BY <2>1, RFacts DEF RInv, LookupsOK
    <3>2. op[u].tid # x /\ op[u].target # x
      BY <1>1, <3>1
    <3>3. SlotOf'[op[u].tid] = SlotOf[op[u].tid] /\ SlotOf'[op[u].target] = SlotOf[op[u].target]
      BY <1>3, <3>1, <3>2
    <3>4. QED
      BY <1>3, <3>1, <3>3 DEF Alive
  <2>2. QED
    BY <2>1 DEF LookupsOK, Alive
<1>8. QED
  BY <1>4, <1>5, <1>6, <1>7 DEF RInv

LEMMA LiveAlive == \A x : Live(x) <=> x \in Alive
BY DEF Live, Alive

LEMMA UpdateHereR ==
  ASSUME PInv, RInv, OneWriter, NEW t \in Writers, NEW tid \in Given,
         NEW r \in Records, UpdateHere(t, tid, r)
  PROVE  RInv'
<1>1. \A u \in Writers : pc[u] = "idle"
  BY DEF UpdateHere, OneWriter
<1>2. ASSUME NEW slot \in SPSlots, Revised(tid, slot, r), UNCHANGED <<pc, op>>
      PROVE  RInv'
  BY <1>1, <1>2, OwnSlotR, LiveAlive DEF Revised
<1>3. QED
  BY <1>2, UpdateHereEffect, AbortedR

LEMMA RemoveR ==
  ASSUME PInv, RInv, OneWriter, NEW t \in Writers, NEW tid \in Given, RemoveRecord(t, tid)
  PROVE  RInv'
<1>1. \A u \in Writers : pc[u] = "idle"
  BY DEF RemoveRecord, OneWriter
<1>2. ASSUME NEW slot \in SPSlots, Emptied(tid, slot), UNCHANGED <<pc, op>>
      PROVE  RInv'
  BY <1>1, <1>2, OwnSlotR, LiveAlive DEF Emptied
<1>3. QED
  BY <1>2, RemoveEffect, AbortedR

\* A record is inserted, for an insert or at its new place.
LEMMA PlaceR ==
  ASSUME PInv, RInv, OneWriter, NEW t \in Writers, pc[t] \in {"search", "place"},
         NEW x \in TIDs, NEW slot \in SPSlots, Placed(t, x, slot)
  PROVE  RInv'
<1>1. /\ x \notin Taken /\ SlotStep(x, slot) /\ ~IsFree(slot) /\ slot.onPage
      /\ slot.redirected = (op[t].tid # Nil) /\ slot.item = op[t].record
      /\ slot.original = op[t].tid
  BY DEF Placed, Inserted
<1>2. /\ Taken' = Taken \cup {x} /\ SlotOf'[x] = slot
      /\ \A y \in Taken : SlotOf'[y] = SlotOf[y]
      /\ Alive' = Alive \cup {x} /\ Alive \subseteq Taken
  <2>1. /\ Taken' = Taken \cup {x} /\ SlotOf'[x] = slot
        /\ \A y \in Taken : y # x => SlotOf'[y] = SlotOf[y]
        /\ Alive' \ {x} = Alive \ {x} /\ Alive \subseteq Taken /\ Alive' \subseteq Taken'
        /\ (x \in Alive') = ~IsFree(slot)
    BY <1>1, SlotSteps
  <2>2. QED
    BY <1>1, <2>1
<1>3. /\ op[t].tid = Nil => Given' = Given \cup {x} /\ Places' = Places
      /\ op[t].tid # Nil => Given' = Given /\ Places' = Places \cup {x}
  BY <1>1, <1>2, GivenTaken, PrimedGiven DEF Places
<1>4. \E label, o :
        /\ pc' = [pc EXCEPT ![t] = label] /\ op' = [op EXCEPT ![t] = o]
        /\ op[t].tid = Nil => label = "idle" /\ o.tid = Nil
        /\ op[t].tid # Nil => /\ label = "redirect" /\ o.tid = op[t].tid /\ o.moved = op[t].moved
                              /\ o.record = op[t].record /\ o.target = x
  <2>1. CASE op[t].tid = Nil
    <3>1. pc' = [pc EXCEPT ![t] = "idle"] /\ op' = [op EXCEPT ![t] = NoOp] /\ NoOp.tid = Nil
      BY <2>1 DEF Placed, Return, Goto, NoOp
    <3>2. QED
      BY <2>1, <3>1
  <2>2. CASE op[t].tid # Nil
    <3>1. op' = [op EXCEPT ![t].target = x] /\ pc' = [pc EXCEPT ![t] = "redirect"]
      BY <2>2 DEF Placed, Goto
    <3>2. op \in [Threads -> Ops] /\ t \in Threads
      BY PInvTypes
    <3>3. PICK old \in Ops : old = op[t]
      BY <3>2
    <3> DEFINE o == [old EXCEPT !.target = x]
    <3>4. op' = [op EXCEPT ![t] = o]
      BY <3>1, <3>2, <3>3
    <3>5. /\ o.tid = old.tid /\ o.moved = old.moved /\ o.record = old.record /\ o.target = x
      BY DEF Ops
    <3>6. QED
      BY <2>2, <3>1, <3>3, <3>4, <3>5
  <2>3. QED
    BY <2>1, <2>2
<1>5. PICK label, o :
        /\ pc' = [pc EXCEPT ![t] = label] /\ op' = [op EXCEPT ![t] = o]
        /\ op[t].tid = Nil => label = "idle" /\ o.tid = Nil
        /\ op[t].tid # Nil => /\ label = "redirect" /\ o.tid = op[t].tid /\ o.moved = op[t].moved
                              /\ o.record = op[t].record /\ o.target = x
  BY <1>4
<1>6. /\ pc'[t] = label /\ op'[t] = o
      /\ \A u \in Writers : u = t
      /\ \A u \in Readers : pc'[u] = pc[u] /\ op'[u] = op[u]
  BY <1>5, WriterSteps
<1>7. \A y \in Given : y \in Alive' => y \in Alive /\ y # x /\ y \in Taken
  BY <1>1, <1>2, RFacts
<1>8. BackOK'
  <2>1. ASSUME NEW y \in Places, y \in Alive', y # x
        PROVE  /\ SlotOf'[y].onPage /\ SlotOf'[y].original \in Given
               /\ SlotOf'[SlotOf'[y].original].item = y
               /\ SlotOf'[y].original \in Alive' /\ ~SlotOf'[SlotOf'[y].original].onPage
    <3>1. y \in Taken /\ SlotOf'[y] = SlotOf[y] /\ y \in Alive
      BY <1>2, <2>1, RFacts
    <3>2. PICK tid \in Given : tid = SlotOf[y].original
      BY <3>1 DEF RInv, BackOK
    <3>3. SlotOf[y].onPage /\ tid \in Alive /\ ~SlotOf[tid].onPage /\ SlotOf[tid].item = y
      BY <1>6, <3>1, <3>2 DEF RInv, BackOK
    <3>4. tid \in Alive' /\ SlotOf'[tid] = SlotOf[tid]
      BY <1>2, <3>3
    <3>5. SlotOf'[y].original = tid
      BY <3>1, <3>2
    <3>6. SlotOf'[y].original \in Alive'
      BY <3>4, <3>5 DEF Alive
    <3>7. QED
      BY <3>1, <3>3, <3>4, <3>5, <3>6
  <2>2. ASSUME op[t].tid # Nil
        PROVE  /\ SlotOf'[x].onPage /\ SlotOf'[x].original = o.tid /\ o.tid \in Given
               /\ pc'[t] = "redirect" /\ op'[t].target = x /\ op'[t].tid = o.tid
    BY <1>1, <1>2, <1>5, <1>6, <2>2, RFacts
  <2>3. ASSUME NEW y \in Places', y \in Alive'
        PROVE  /\ SlotOf'[y].onPage /\ SlotOf'[y].original \in Given'
               /\ \/ /\ SlotOf'[y].original \in Alive'
                     /\ ~SlotOf'[SlotOf'[y].original].onPage
                     /\ SlotOf'[SlotOf'[y].original].item = y
                  \/ \E u \in Writers : /\ pc'[u] = "redirect" /\ op'[u].target = y
                                        /\ op'[u].tid = SlotOf'[y].original
    <3>1. CASE y # x
      <4>1. y \in Places /\ Given \subseteq Given'
        BY <1>3, <2>3, <3>1
      <4>2. QED
        BY <2>1, <2>3, <3>1, <4>1
    <3>2. CASE y = x
      <4>1. op[t].tid # Nil
        BY <1>1, <1>3, <2>3, <3>2, RFacts
      <4>2. Given' = Given
        BY <1>3, <4>1
      <4>3. QED
        BY <1>1, <1>2, <2>2, <3>2, <4>1, <4>2
    <3>3. QED
      BY <3>1, <3>2
  <2>4. QED
    BY <2>3 DEF BackOK
<1>9. ForthOK'
  <2>1. ASSUME NEW y \in Given, y \in Alive', ~SlotOf'[y].onPage,
               \A u \in Writers : ~(op'[u].tid = y /\ op'[u].moved /\ pc'[u] # "moved")
        PROVE  /\ SlotOf'[y].item \in Taken' /\ ~IsFree(SlotOf'[SlotOf'[y].item])
               /\ SlotOf'[SlotOf'[y].item].original = y
    <3>1. y \in Taken /\ SlotOf'[y] = SlotOf[y] /\ y \in Alive
      BY <1>2, <1>7, <2>1
    <3>2. ~Moves(t, y)
      BY <1>5, <1>6, <2>1, <3>1, RFacts DEF Moves
    <3>3. \A u \in Writers : ~Moves(u, y)
      BY <1>6, <3>2
    <3>4. PICK z \in Places : z = SlotOf[y].item
      BY <2>1, <3>1, RFacts
    <3>5. z \in Alive /\ SlotOf[z].original = y
      BY <2>1, <3>1, <3>3, <3>4 DEF RInv, ForthOK
    <3>6. z \in Alive' /\ SlotOf'[z] = SlotOf[z]
      BY <1>2, <3>5
    <3>7. QED
      BY <3>1, <3>4, <3>5, <3>6 DEF Alive
  <2>2. ASSUME op[t].tid = Nil
        PROVE  SlotOf'[x].onPage
    BY <1>1, <1>2
  <2>3. QED
    BY <1>2, <1>3, <2>1, <2>2 DEF ForthOK, Alive, Moves
<1>10. MovesOK'
  <2>1. ASSUME op[t].tid # Nil
        PROVE  /\ o.tid \in Taken' /\ ~IsFree(SlotOf'[o.tid])
               /\ o.moved = ~SlotOf'[o.tid].onPage
               /\ o.moved => ~(SlotOf'[o.tid].item \in Taken'
                                 /\ ~IsFree(SlotOf'[SlotOf'[o.tid].item]))
               /\ o.target \in Taken' /\ ~IsFree(SlotOf'[o.target])
               /\ SlotOf'[o.target].original = o.tid
               /\ SlotOf'[o.target].item = o.record
               /\ \A y \in Given :
                    y \in Taken' /\ ~IsFree(SlotOf'[y]) /\ ~SlotOf'[y].onPage
                      => SlotOf'[y].item # o.target
    <3>1. PICK tid \in Given : tid = op[t].tid
      BY <2>1, RFacts
    <3>2. /\ tid \in Alive /\ op[t].moved = ~SlotOf[tid].onPage
          /\ op[t].moved => SlotOf[tid].item \notin Alive
      BY <2>1, <3>1 DEF RInv, MovesOK, MoveOK
    <3>3. /\ o.tid = tid /\ o.moved = op[t].moved /\ o.record = op[t].record /\ o.target = x
          /\ SlotOf'[tid] = SlotOf[tid] /\ tid \in Alive'
      BY <1>2, <1>5, <2>1, <3>1, <3>2
    <3>4. SlotOf[tid].onPage \in BOOLEAN
      BY <1>2, <3>2, RFacts
    <3>5. ASSUME o.moved PROVE SlotOf[tid].item \notin Alive'
      <4>1. SlotOf[tid].item \in Places
        BY <1>2, <3>2, <3>3, <3>5, RFacts
      <4>2. QED
        BY <1>1, <1>2, <3>2, <3>3, <3>5, <4>1, RFacts
    <3>6. ASSUME NEW y \in Given, y \in Alive', ~SlotOf'[y].onPage
          PROVE  SlotOf'[y].item # x
      <4>1. y \in Taken /\ y \in Alive /\ SlotOf'[y] = SlotOf[y]
        BY <1>2, <1>7, <3>6
      <4>2. SlotOf[y].item \in Places
        BY <3>6, <4>1, RFacts
      <4>3. QED
        BY <1>1, <4>1, <4>2, RFacts
    <3>7. x \in Alive' /\ SlotOf'[x].original = tid /\ SlotOf'[x].item = op[t].record
      BY <1>1, <1>2, <3>1
    <3>8. QED
      BY <3>2, <3>3, <3>5, <3>6, <3>7 DEF Alive
  <2>2. CASE op[t].tid = Nil
    BY <1>5, <1>6, <2>2 DEF MovesOK, MoveOK
  <2>3. CASE op[t].tid # Nil
    <3>1. Given' = Given /\ label = "redirect"
      BY <1>3, <1>5, <2>3
    <3>2. QED
      BY <1>6, <2>1, <2>3, <3>1 DEF MovesOK, MoveOK, Alive
  <2>4. QED
    BY <2>2, <2>3
<1>11. LookupsOK'
  <2>1. ASSUME NEW u \in Readers, pc[u] = "lookup"
        PROVE  /\ op[u].tid \in Taken' /\ ~IsFree(SlotOf'[op[u].tid])
               /\ ~SlotOf'[op[u].tid].onPage
               /\ op[u].target \in Taken' /\ ~IsFree(SlotOf'[op[u].target])
                    => SlotOf'[op[u].tid].item = op[u].target
    <3>1. /\ op[u].tid \in Alive /\ ~SlotOf[op[u].tid].onPage
          /\ op[u].target \in Alive => SlotOf[op[u].tid].item = op[u].target
          /\ op[u].tid \in Taken /\ op[u].target \in Taken
      BY <2>1, RFacts DEF RInv, LookupsOK
    <3>2. /\ op[u].tid \in Alive' /\ SlotOf'[op[u].tid] = SlotOf[op[u].tid]
          /\ op[u].target \in Alive' => op[u].target \in Alive
      BY <1>1, <1>2, <3>1
    <3>3. QED
      BY <3>1, <3>2 DEF Alive
  <2>2. QED
    BY <1>6, <2>1 DEF LookupsOK, Alive
<1>12. QED
  BY <1>8, <1>9, <1>10, <1>11 DEF RInv

\* A slot that keeps its flags is set: what stays.
LEMMA KeptSteps ==
  ASSUME PInv, NEW x \in Taken, NEW slot, SlotStep(x, slot),
         slot.redirected = SlotOf[x].redirected
  PROVE  /\ Taken' = Taken /\ Given' = Given /\ Places' = Places
         /\ SlotOf'[x] = slot /\ \A y \in Taken : y # x => SlotOf'[y] = SlotOf[y]
         /\ Alive' \subseteq Taken /\ Alive \subseteq Taken
         /\ ~IsFree(slot) => Alive' = Alive \cup {x}
         /\ IsFree(slot) => Alive' = Alive \ {x}
<1>1. /\ SlotOf'[x] = slot /\ \A y \in Taken : y # x => SlotOf'[y] = SlotOf[y]
      /\ Alive' \ {x} = Alive \ {x} /\ Alive \subseteq Taken /\ Alive' \subseteq Taken'
      /\ (x \in Alive') = ~IsFree(slot)
  BY SlotSteps
<1>2. Taken' = Taken /\ Given' = Given /\ Places' = Places
  BY KeptTIDs
<1>3. ~IsFree(slot) => Alive' = Alive \cup {x}
  BY <1>1
<1>4. IsFree(slot) => Alive' = Alive \ {x}
  BY <1>1
<1>5. QED
  BY <1>1, <1>2, <1>3, <1>4

\* The writer that has left the page of its TID: the TID leads to the record.
LEMMA MovedWriter ==
  ASSUME PInv, RInv, OneWriter, NEW t \in Writers, pc[t] = "moved"
  PROVE  \E tid \in Given, x \in Places :
           /\ op[t].tid = tid /\ op[t].target = x /\ op[t].moved
           /\ tid \in Alive /\ ~SlotOf[tid].onPage /\ SlotOf[tid].item = x
           /\ x \in Alive /\ SlotOf[x].original = tid
<1>1. op[t].tid # Nil /\ op[t].target \in Places
  BY DEF PInv, WritersOK, WriterOK, LabelOK
<1>2. op[t].tid \in Given
  BY <1>1, RFacts
<1>3. /\ op[t].tid \in Alive /\ op[t].moved = ~SlotOf[op[t].tid].onPage
      /\ op[t].moved /\ SlotOf[op[t].tid].item = op[t].target
  BY <1>1 DEF RInv, MovesOK, MoveOK
<1>4. ~SlotOf[op[t].tid].onPage
  BY <1>3
<1>5. \A u \in Writers : ~Moves(u, op[t].tid)
  BY DEF Moves, OneWriter
<1>6. op[t].target \in Alive /\ SlotOf[op[t].target].original = op[t].tid
  BY <1>2, <1>3, <1>4, <1>5 DEF RInv, ForthOK
<1>7. QED
  BY <1>1, <1>2, <1>3, <1>4, <1>6

\* A moved record is revised where it is.
LEMMA RevisedMovedR ==
  ASSUME PInv, RInv, OneWriter, NEW t \in Writers, pc[t] = "moved", Return(t),
         NEW slot \in SPSlots, Revised(op[t].target, slot, op[t].record)
  PROVE  RInv'
<1>1. PICK tid \in Given, x \in Places :
           /\ op[t].tid = tid /\ op[t].target = x /\ op[t].moved
           /\ tid \in Alive /\ ~SlotOf[tid].onPage /\ SlotOf[tid].item = x
           /\ x \in Alive /\ SlotOf[x].original = tid
  BY MovedWriter
<1>2. /\ SlotStep(x, slot) /\ ~IsFree(slot) /\ slot.onPage
      /\ slot.redirected = SlotOf[x].redirected /\ slot.original = SlotOf[x].original
  BY <1>1 DEF Revised
<1>3. x \in Taken /\ x \notin Given
  BY RFacts
<1>4. /\ Taken' = Taken /\ Given' = Given /\ Places' = Places /\ Alive' = Alive
      /\ SlotOf'[x] = slot /\ \A y \in Taken : y # x => SlotOf'[y] = SlotOf[y]
      /\ Alive \subseteq Taken
  <2>1. /\ Taken' = Taken /\ Given' = Given /\ Places' = Places /\ Alive' = Alive \cup {x}
        /\ SlotOf'[x] = slot /\ \A y \in Taken : y # x => SlotOf'[y] = SlotOf[y]
        /\ Alive \subseteq Taken
    BY <1>2, <1>3, KeptSteps
  <2>2. Alive \cup {x} = Alive
    BY <1>1
  <2>3. QED
    BY <2>1, <2>2
<1>5. \A y \in Given : y \in Taken /\ SlotOf'[y] = SlotOf[y]
  BY <1>3, <1>4, RFacts
<1>6. \A y \in Taken : SlotOf'[y].original = SlotOf[y].original
  BY <1>2, <1>4
<1>7. /\ pc' = [pc EXCEPT ![t] = "idle"] /\ op' = [op EXCEPT ![t] = NoOp] /\ NoOp.tid = Nil
  BY DEF Return, Goto, NoOp
<1>8. /\ pc'[t] = "idle" /\ op'[t] = NoOp
      /\ \A u \in Writers : u = t
      /\ \A u \in Readers : pc'[u] = pc[u] /\ op'[u] = op[u]
  BY <1>7, WriterSteps
<1>9. BackOK'
  <2>1. ASSUME NEW y \in Places, y \in Alive
        PROVE  /\ SlotOf'[y].onPage /\ SlotOf'[y].original \in Given
               /\ SlotOf'[y].original \in Alive /\ ~SlotOf'[SlotOf'[y].original].onPage
               /\ SlotOf'[SlotOf'[y].original].item = y
    <3>1. PICK z \in Given : z = SlotOf[y].original
      BY <2>1 DEF RInv, BackOK
    <3>2. SlotOf[y].onPage /\ z \in Alive /\ ~SlotOf[z].onPage /\ SlotOf[z].item = y
      BY <1>8, <2>1, <3>1 DEF RInv, BackOK
    <3>3. SlotOf'[y].onPage
      BY <1>2, <1>4, <2>1, <3>2
    <3>4. QED
      BY <1>4, <1>5, <1>6, <2>1, <3>1, <3>2, <3>3
  <2>2. QED
    BY <1>4, <2>1 DEF BackOK
<1>10. ForthOK'
  <2>1. ASSUME NEW y \in Given, y \in Alive, ~SlotOf'[y].onPage
        PROVE  SlotOf'[y].item \in Alive /\ SlotOf'[SlotOf'[y].item].original = y
    <3>1. \A u \in Writers : ~Moves(u, y)
      BY <1>8 DEF Moves
    <3>2. SlotOf[y].item \in Alive /\ SlotOf[SlotOf[y].item].original = y
      BY <1>5, <2>1, <3>1 DEF RInv, ForthOK
    <3>3. QED
      BY <1>4, <1>5, <1>6, <3>2
  <2>2. QED
    BY <1>4, <2>1 DEF ForthOK
<1>11. MovesOK'
  BY <1>8 DEF MovesOK, MoveOK
<1>12. LookupsOK'
  BY <1>4, <1>5, <1>8, RFacts DEF RInv, LookupsOK
<1>13. QED
  BY <1>9, <1>10, <1>11, <1>12 DEF RInv

\* A moved record moves again: its old place is free.
LEMMA EmptiedMovedR ==
  ASSUME PInv, RInv, OneWriter, NEW t \in Writers, pc[t] = "moved", BeginSearch(t, op[t]),
         NEW slot \in SPSlots, Emptied(op[t].target, slot)
  PROVE  RInv'
<1>1. PICK tid \in Given, x \in Places :
           /\ op[t].tid = tid /\ op[t].target = x /\ op[t].moved
           /\ tid \in Alive /\ ~SlotOf[tid].onPage /\ SlotOf[tid].item = x
           /\ x \in Alive /\ SlotOf[x].original = tid
  BY MovedWriter
<1>2. /\ SlotStep(x, slot) /\ IsFree(slot) /\ slot.redirected = SlotOf[x].redirected
  BY <1>1 DEF Emptied
<1>3. x \in Taken /\ x \notin Given
  BY RFacts
<1>4. /\ Taken' = Taken /\ Given' = Given /\ Places' = Places /\ Alive' = Alive \ {x}
      /\ \A y \in Taken : y # x => SlotOf'[y] = SlotOf[y]
      /\ Alive \subseteq Taken
  BY <1>1, <1>2, <1>3, KeptSteps
<1>5. \A y \in Given : y # x /\ y \in Taken /\ SlotOf'[y] = SlotOf[y]
  BY <1>3, <1>4, RFacts
<1>6. \E o : /\ pc' = [pc EXCEPT ![t] = "search"] /\ op' = [op EXCEPT ![t] = o]
             /\ o.tid = tid /\ o.moved = TRUE
  <2>1. op[t] \in Ops
    BY PInvTypes
  <2>2. PICK old \in Ops : old = op[t]
    BY <2>1
  <2> DEFINE o == [old EXCEPT !.page = 0, !.bound = size]
  <2>3. pc' = [pc EXCEPT ![t] = "search"] /\ op' = [op EXCEPT ![t] = o]
    BY <2>2 DEF BeginSearch, Goto
  <2>4. o.tid = old.tid /\ o.moved = old.moved /\ old.moved \in BOOLEAN
    BY DEF Ops
  <2>5. QED
    BY <1>1, <2>2, <2>3, <2>4
<1>7. PICK o : /\ pc' = [pc EXCEPT ![t] = "search"] /\ op' = [op EXCEPT ![t] = o]
               /\ o.tid = tid /\ o.moved = TRUE
  BY <1>6
<1>8. /\ pc'[t] = "search" /\ op'[t] = o
      /\ \A u \in Writers : u = t
      /\ \A u \in Readers : pc'[u] = pc[u] /\ op'[u] = op[u]
  BY <1>7, WriterSteps
<1>9. BackOK'
  <2>1. ASSUME NEW y \in Places, y \in Alive, y # x
        PROVE  /\ SlotOf'[y].onPage /\ SlotOf'[y].original \in Given
               /\ SlotOf'[y].original \in Alive \ {x} /\ ~SlotOf'[SlotOf'[y].original].onPage
               /\ SlotOf'[SlotOf'[y].original].item = y
    <3>1. PICK z \in Given : z = SlotOf[y].original
      BY <2>1 DEF RInv, BackOK
    <3>2. SlotOf[y].onPage /\ z \in Alive /\ ~SlotOf[z].onPage /\ SlotOf[z].item = y
      BY <1>8, <2>1, <3>1 DEF RInv, BackOK
    <3>3. SlotOf'[y] = SlotOf[y] /\ SlotOf'[z] = SlotOf[z] /\ z # x
      BY <1>4, <1>5, <2>1
    <3>4. QED
      BY <3>1, <3>2, <3>3
  <2>2. QED
    BY <1>4, <2>1 DEF BackOK
<1>10. ForthOK'
  <2>1. ASSUME NEW y \in Given, y \in Alive, ~SlotOf'[y].onPage, y # tid
        PROVE  SlotOf'[y].item \in Alive \ {x} /\ SlotOf'[SlotOf'[y].item].original = y
    <3>1. \A u \in Writers : ~Moves(u, y)
      BY <1>8 DEF Moves
    <3>2. SlotOf[y].item \in Alive /\ SlotOf[SlotOf[y].item].original = y
      BY <1>5, <2>1, <3>1 DEF RInv, ForthOK
    <3>3. SlotOf[y].item # x
      BY <1>1, <2>1, <3>2
    <3>4. QED
      BY <1>4, <1>5, <3>2, <3>3
  <2>2. Moves(t, tid)'
    BY <1>7, <1>8 DEF Moves
  <2>3. QED
    BY <1>4, <2>1, <2>2 DEF ForthOK
<1>11. MovesOK'
  <2>1. /\ o.tid \in Alive' /\ ~SlotOf'[o.tid].onPage /\ SlotOf'[o.tid].item \notin Alive'
    BY <1>1, <1>4, <1>5, <1>7
  <2>2. ASSUME NEW u \in Writers
        PROVE  MoveOK(pc[u], op[u])'
    <3>1. pc'[u] = "search" /\ op'[u] = o
      BY <1>8
    <3>2. o.moved = TRUE /\ o.tid \in Alive' /\ (~SlotOf'[o.tid].onPage) = TRUE
          /\ SlotOf'[o.tid].item \notin Alive'
      BY <1>7, <2>1
    <3>3. QED
      BY <3>1, <3>2 DEF MoveOK
  <2>3. QED
    BY <2>2 DEF MovesOK
<1>12. LookupsOK'
  BY <1>4, <1>5, <1>8, RFacts DEF RInv, LookupsOK
<1>13. QED
  BY <1>9, <1>10, <1>11, <1>12 DEF RInv

LEMMA UpdateMovedR ==
  ASSUME PInv, RInv, OneWriter, NoneGrowsShort, NEW t \in Writers, UpdateMoved(t)
  PROVE  RInv'
<1>1. pc[t] = "moved"
  BY DEF UpdateMoved
<1>2. QED
  BY <1>1, UpdateMovedEffect, RevisedMovedR, EmptiedMovedR, AbortedR

LEMMA RedirectR ==
  ASSUME PInv, RInv, OneWriter, NEW t \in Writers, Redirect(t)
  PROVE  RInv'
<1>1. pc[t] = "redirect" /\ op[t].target \in Places /\ op[t].tid \in Given
  BY RedirectEffect DEF Redirect
<1>2. PICK tid \in Given : tid = op[t].tid
  BY <1>1
<1>3. PICK x \in Places : x = op[t].target
  BY <1>1
<1>4. /\ tid \in Alive /\ op[t].moved = ~SlotOf[tid].onPage
      /\ op[t].moved => SlotOf[tid].item \notin Alive
      /\ x \in Alive /\ SlotOf[x].original = tid
      /\ \A y \in Given : y \in Alive /\ ~SlotOf[y].onPage => SlotOf[y].item # x
  <2>1. tid # Nil
    BY RFacts
  <2>2. QED
    BY <1>1, <1>2, <1>3, <2>1 DEF RInv, MovesOK, MoveOK
<1>5. ~SlotOf[tid].onPage => SlotOf[tid].item \notin Alive
  BY <1>4
<1>6. ASSUME Return(t), NEW slot \in SPSlots, Linked(tid, slot, x)
      PROVE  RInv'
  <2>1. /\ SlotStep(tid, slot) /\ ~IsFree(slot) /\ ~slot.onPage /\ slot.item = x
        /\ slot.redirected = SlotOf[tid].redirected
    BY <1>6 DEF Linked
  <2>2. tid \in Taken /\ tid \notin Places
    BY RFacts
  <2>3. /\ Taken' = Taken /\ Given' = Given /\ Places' = Places /\ Alive' = Alive
        /\ SlotOf'[tid] = slot /\ \A y \in Taken : y # tid => SlotOf'[y] = SlotOf[y]
        /\ Alive \subseteq Taken
    <3>1. /\ Taken' = Taken /\ Given' = Given /\ Places' = Places /\ Alive' = Alive \cup {tid}
          /\ SlotOf'[tid] = slot /\ \A y \in Taken : y # tid => SlotOf'[y] = SlotOf[y]
          /\ Alive \subseteq Taken
      BY <2>1, <2>2, KeptSteps
    <3>2. Alive \cup {tid} = Alive
      BY <1>4
    <3>3. QED
      BY <3>1, <3>2
  <2>4. \A y \in Places : y # tid /\ y \in Taken /\ SlotOf'[y] = SlotOf[y]
    BY <2>2, <2>3, RFacts
  <2>5. /\ pc' = [pc EXCEPT ![t] = "idle"] /\ op' = [op EXCEPT ![t] = NoOp] /\ NoOp.tid = Nil
    BY <1>6 DEF Return, Goto, NoOp
  <2>6. /\ pc'[t] = "idle" /\ op'[t] = NoOp
        /\ \A u \in Writers : u = t
        /\ \A u \in Readers : pc'[u] = pc[u] /\ op'[u] = op[u]
    BY <2>5, WriterSteps
  <2>7. BackOK'
    <3>1. ASSUME NEW y \in Places, y \in Alive
          PROVE  /\ SlotOf'[y].onPage /\ SlotOf'[y].original \in Given
                 /\ SlotOf'[y].original \in Alive /\ ~SlotOf'[SlotOf'[y].original].onPage
                 /\ SlotOf'[SlotOf'[y].original].item = y
      <4>1. PICK z \in Given : z = SlotOf[y].original
        BY <3>1 DEF RInv, BackOK
      <4>2. /\ SlotOf[y].onPage
            /\ \/ z \in Alive /\ ~SlotOf[z].onPage /\ SlotOf[z].item = y
               \/ y = x /\ z = tid
        BY <1>2, <1>3, <2>6, <3>1, <4>1 DEF RInv, BackOK
      <4>3. CASE z = tid
        <5>1. y = x
          BY <1>5, <3>1, <4>2, <4>3
        <5>2. QED
          BY <1>4, <2>1, <2>3, <2>4, <4>1, <4>2, <4>3, <5>1
      <4>4. CASE z # tid
        <5>1. SlotOf'[z] = SlotOf[z] /\ z \in Alive /\ ~SlotOf[z].onPage /\ SlotOf[z].item = y
          BY <2>3, <4>2, <4>4
        <5>2. QED
          BY <2>4, <4>1, <4>2, <5>1
      <4>5. QED
        BY <4>3, <4>4
    <3>2. QED
      BY <2>3, <3>1 DEF BackOK
  <2>8. ForthOK'
    <3>1. ASSUME NEW y \in Given, y \in Alive, ~SlotOf'[y].onPage
          PROVE  SlotOf'[y].item \in Alive /\ SlotOf'[SlotOf'[y].item].original = y
      <4>1. CASE y = tid
        BY <1>4, <2>1, <2>3, <2>4, <4>1
      <4>2. CASE y # tid
        <5>1. \A u \in Writers : ~Moves(u, y)
          BY <1>2, <2>6, <4>2 DEF Moves
        <5>2. SlotOf'[y] = SlotOf[y] /\ y \in Taken
          BY <2>3, <3>1, <4>2
        <5>3. SlotOf[y].item \in Alive /\ SlotOf[SlotOf[y].item].original = y
          BY <3>1, <5>1, <5>2 DEF RInv, ForthOK
        <5>4. SlotOf[y].item \in Places
          BY <3>1, <5>2, RFacts
        <5>5. QED
          BY <2>4, <5>2, <5>3, <5>4
      <4>3. QED
        BY <4>1, <4>2
    <3>2. QED
      BY <2>3, <3>1 DEF ForthOK
  <2>9. MovesOK'
    BY <2>5, <2>6 DEF MovesOK, MoveOK
  <2>10. LookupsOK'
    <3>1. ASSUME NEW u \in Readers, pc[u] = "lookup"
          PROVE  /\ op[u].tid \in Alive /\ ~SlotOf'[op[u].tid].onPage
                 /\ op[u].target \in Alive => SlotOf'[op[u].tid].item = op[u].target
      <4>1. /\ op[u].tid \in Alive /\ ~SlotOf[op[u].tid].onPage
            /\ op[u].target \in Alive => SlotOf[op[u].tid].item = op[u].target
        BY <3>1 DEF RInv, LookupsOK
      <4>2. CASE op[u].tid = tid
        <5>1. op[u].target \notin Alive
          BY <1>5, <4>1, <4>2
        <5>2. QED
          BY <2>1, <2>3, <4>1, <4>2, <5>1
      <4>3. CASE op[u].tid # tid
        BY <2>3, <4>1, <4>3
      <4>4. QED
        BY <4>2, <4>3
    <3>2. QED
      BY <2>3, <2>6, <3>1 DEF LookupsOK
  <2>11. QED
    BY <2>7, <2>8, <2>9, <2>10 DEF RInv
<1>7. QED
  BY <1>2, <1>3, <1>6, RedirectEffect, AbortedR

LEMMA LookupFollowR ==
  ASSUME PInv, RInv, NEW u \in Readers, NEW tid \in Given, LookupFollow(u, tid)
  PROVE  RInv'
<1> DEFINE o == [NoOp EXCEPT !.tid = tid, !.target = Slot(tid).item]
<1>1. /\ pages' = pages /\ ~IsFree(Slot(tid)) /\ ~Slot(tid).onPage
      /\ pc' = [pc EXCEPT ![u] = "lookup"] /\ op' = [op EXCEPT ![u] = o]
  BY DEF LookupFollow, Goto
<1>2. o.tid = tid /\ o.target = Slot(tid).item
  BY DEF NoOp
<1> HIDE DEF o
<1>3. Taken' = Taken /\ SlotOf' = SlotOf
  BY <1>1, SamePagesSameSlots DEF SameSlots
<1>4. Given' = Given /\ Places' = Places /\ Alive' = Alive
  BY <1>3, GivenTaken, PrimedGiven DEF Places, Alive
<1>5. tid \in Taken /\ SlotOf[tid] = Slot(tid)
  BY RFacts, TakenPage
<1>6. tid \in Alive /\ ~SlotOf[tid].onPage /\ SlotOf[tid].item = o.target
  BY <1>1, <1>2, <1>5 DEF Alive
<1>7. /\ pc'[u] = "lookup" /\ op'[u] = o
      /\ \A t \in Writers : pc'[t] = pc[t] /\ op'[t] = op[t]
      /\ \A v \in Readers : v # u => pc'[v] = pc[v] /\ op'[v] = op[v]
  BY <1>1, PInvTypes
<1>8. BackOK' /\ ForthOK'
  BY <1>3, <1>4, <1>7 DEF RInv, BackOK, ForthOK, Moves
<1>9. MovesOK'
  BY <1>3, <1>4, <1>7 DEF RInv, MovesOK, MoveOK
<1>10. LookupsOK'
  BY <1>2, <1>3, <1>4, <1>6, <1>7 DEF RInv, LookupsOK
<1>11. QED
  BY <1>8, <1>9, <1>10 DEF RInv

LEMMA LookupMovedR ==
  ASSUME PInv, RInv, NEW u \in Readers, LookupMoved(u)
  PROVE  RInv'
<1>1. CASE Abort
  BY <1>1, AbortedR DEF Abort, Aborted
<1>2. CASE Return(u) /\ pages' = pages
  <2>1. Taken' = Taken /\ SlotOf' = SlotOf
    BY <1>2, SamePagesSameSlots DEF SameSlots
  <2>2. Given' = Given /\ Places' = Places /\ Alive' = Alive
    BY <2>1, GivenTaken, PrimedGiven DEF Places, Alive
  <2>3. /\ pc'[u] = "idle"
        /\ \A t \in Writers : pc'[t] = pc[t] /\ op'[t] = op[t]
        /\ \A v \in Readers : v # u => pc'[v] = pc[v] /\ op'[v] = op[v]
    BY <1>2, PInvTypes DEF Return, Goto
  <2>4. BackOK' /\ ForthOK'
    BY <2>1, <2>2, <2>3 DEF RInv, BackOK, ForthOK, Moves
  <2>5. MovesOK'
    BY <2>1, <2>2, <2>3 DEF RInv, MovesOK, MoveOK
  <2>6. LookupsOK'
    BY <2>1, <2>2, <2>3 DEF RInv, LookupsOK
  <2>7. QED
    BY <2>4, <2>5, <2>6 DEF RInv
<1>3. QED
  BY <1>1, <1>2 DEF LookupMoved

LEMMA ScanKeepsPages ==
  ASSUME NEW u \in Readers, Scan(u)
  PROVE  UNCHANGED <<running, pages, size, pc, op>>
BY DEF Scan, BeginScan, ScanNext, ScanUnfix, ScanFix, EndScan

LEMMA WriterR ==
  ASSUME PInv, RInv, OneWriter, NoneGrowsShort, NEW t \in Writers,
         \/ \E r \in Records : Insert(t, r) \/ \E tid \in Given : Update(t, tid, r)
         \/ \E tid \in Given : RemoveRecord(t, tid)
         \/ Search(t) \/ UpdateMoved(t) \/ Redirect(t)
  PROVE  RInv'
<1>1. CASE \E r \in Records : Insert(t, r)
  BY <1>1, InsertR
<1>2. CASE \E r \in Records, tid \in Given : Update(t, tid, r)
  BY <1>2, UpdateHereR, UpdateAwayR, UpdateFollowR DEF Update
<1>3. CASE \E tid \in Given : RemoveRecord(t, tid)
  BY <1>3, RemoveR
<1>4. CASE Search(t)
  <2>1. CASE SearchHit(t) \/ PlaceOnNew(t)
    <3>1. /\ pc[t] \in {"search", "place"} /\ pc[t] # "idle" /\ op[t].page \in PageIds
          /\ Place(t, op[t].page)
      BY <2>1, SearchPageId DEF SearchHit, PlaceOnNew
    <3>2. QED
      BY <3>1, PlaceEffect, PlaceR, AbortedR
  <2>2. CASE SearchMiss(t) \/ AllocatePage(t) \/ InitPage(t)
    BY <2>2, SearchR
  <2>3. QED
    BY <1>4, <2>1, <2>2 DEF Search
<1>5. CASE UpdateMoved(t) \/ Redirect(t)
  BY <1>5, UpdateMovedR, RedirectR
<1>6. QED
  BY <1>1, <1>2, <1>3, <1>4, <1>5

LEMMA RInvStep ==
  ASSUME PInv, RInv, OneWriter, NoneGrowsShort, [Next]_vars
  PROVE  RInv'
<1>1. CASE \E t \in Writers :
             \/ \E r \in Records : Insert(t, r) \/ \E tid \in Given : Update(t, tid, r)
             \/ \E tid \in Given : RemoveRecord(t, tid)
             \/ Search(t) \/ UpdateMoved(t) \/ Redirect(t)
  BY <1>1, WriterR
<1>2. CASE \E u \in Readers :
             \/ \E tid \in Given : LookupFollow(u, tid)
             \/ LookupMoved(u)
             \/ Scan(u)
  BY <1>2, LookupFollowR, LookupMovedR, ScanKeepsPages, SamePagesSameSlots, UnchangedR
<1>3. CASE UNCHANGED vars
  BY <1>3, SamePagesSameSlots, UnchangedR DEF vars
<1>4. QED
  BY <1>1, <1>2, <1>3 DEF Next

LEMMA NothingTaken ==
  ASSUME Init
  PROVE  Taken = {}
<1>1. ASSUME NEW x \in TIDs
      PROVE  ~HasSlot(x)
  BY TIDFields DEF Init, HasSlot, ZeroPage
<1>2. QED
  BY <1>1 DEF Taken

LEMMA RInvInit ==
  ASSUME Init
  PROVE  RInv
<1>1. Given = {} /\ Places = {}
  BY NothingTaken, GivenOrPlace
<1>2. \A t \in Threads : pc[t] = "idle"
  BY DEF Init
<1>3. QED
  BY <1>1, <1>2 DEF RInv, BackOK, ForthOK, MovesOK, MoveOK, LookupsOK, Threads

\* Redirections and records that have moved belong to each other, through every step of an
\* update (SPSegment.cpp, update): a record that has moved is led to by its original TID,
\* and by no other, or is about to be.
THEOREM RedirectionsInductive ==
  ASSUME OneWriter
  PROVE  Spec /\ []NoneGrowsShort => [](PInv /\ RInv)
<1>1. Init => PInv /\ RInv
  BY PInvInit, RInvInit
<1>2. PInv /\ RInv /\ NoneGrowsShort /\ [Next]_vars => PInv' /\ RInv'
  BY PInvStep, RInvStep
<1>3. QED
  BY <1>1, <1>2, PTL DEF Spec

---------------------------------------------------------------------------
(* The record of a TID *)

Values == [x \in TIDs |-> Value(x)]

ValuesAre ==
  \A x \in TIDs :
    /\ x \notin Given \/ x \notin Alive => Values[x] = Nil
    /\ x \in Given /\ x \in Alive =>
         /\ \A t \in Writers : Moves(t, x) => Values[x] = op[t].record
         /\ (\A t \in Writers : ~Moves(t, x)) =>
              /\ SlotOf[x].onPage => Values[x] = SlotOf[x].item
              /\ ~SlotOf[x].onPage => Values[x] = SlotOf[SlotOf[x].item].item

LEMMA ValueFacts == PInv /\ OneWriter => ValuesAre
<1> SUFFICES ASSUME PInv, OneWriter, NEW x \in TIDs
             PROVE  /\ x \notin Given \/ x \notin Alive => Values[x] = Nil
                    /\ x \in Given /\ x \in Alive =>
                         /\ \A t \in Writers : Moves(t, x) => Values[x] = op[t].record
                         /\ (\A t \in Writers : ~Moves(t, x)) =>
                              /\ SlotOf[x].onPage => Values[x] = SlotOf[x].item
                              /\ ~SlotOf[x].onPage => Values[x] = SlotOf[SlotOf[x].item].item
  BY DEF ValuesAre
<1>1. Values[x] = Value(x)
  BY DEF Values
<1>2. CASE x \notin Given
  BY <1>1, <1>2 DEF Value
<1>3. CASE x \in Given
  <2>1. x \in Taken /\ SlotOf[x] = Slot(x) /\ (x \in Alive <=> ~IsFree(Slot(x)))
    BY <1>3, RFacts, TakenPage DEF Alive
  <2>2. CASE x \notin Alive
    BY <1>1, <1>3, <2>1, <2>2 DEF Value
  <2>3. CASE x \in Alive
    <3>1. Value(x) = IF Moving(x) # {} THEN op[CHOOSE t \in Moving(x) : TRUE].record
                     ELSE IF Slot(x).onPage THEN Slot(x).item
                     ELSE Slot(Slot(x).item).item
      BY <1>3, <2>1, <2>3 DEF Value
    <3>2. ASSUME NEW t \in Writers, Moves(t, x)
          PROVE  Values[x] = op[t].record
      <4>1. Moving(x) = {t}
        BY <3>2 DEF Moving, Moves, OneWriter
      <4>2. (CHOOSE u \in Moving(x) : TRUE) = t
        BY <4>1
      <4>3. QED
        BY <1>1, <3>1, <4>1, <4>2
    <3>3. ASSUME \A t \in Writers : ~Moves(t, x)
          PROVE  /\ SlotOf[x].onPage => Values[x] = SlotOf[x].item
                 /\ ~SlotOf[x].onPage => Values[x] = SlotOf[SlotOf[x].item].item
      <4>1. Moving(x) = {}
        BY <3>3 DEF Moving, Moves
      <4>2. ASSUME ~SlotOf[x].onPage
            PROVE  SlotOf[SlotOf[x].item] = Slot(Slot(x).item)
        <5>1. PICK z \in Taken : z = SlotOf[x].item
          BY <2>1, <2>3, <4>2, RFacts
        <5>2. SlotOf[z] = Slot(z)
          BY TakenPage
        <5>3. QED
          BY <2>1, <5>1, <5>2
      <4>3. QED
        BY <1>1, <2>1, <3>1, <4>1, <4>2
    <3>4. QED
      BY <1>3, <2>3, <3>2, <3>3
  <2>4. QED
    BY <2>2, <2>3
<1>4. QED
  BY <1>2, <1>3

\* A writer that has taken a record away is not idle, and the old place is free.
LEMMA MovingWriter ==
  ASSUME PInv, RInv, NEW t \in Writers, NEW x \in Given, Moves(t, x)
  PROVE  /\ op[t].tid = x /\ op[t].record \in Records
         /\ ~SlotOf[x].onPage /\ SlotOf[x].item \notin Alive /\ x \in Alive
         /\ pc[t] \in {"search", "init", "place", "redirect"}
<1>1. x # Nil
  BY RFacts
<1>2. op[t].tid = x /\ op[t].moved /\ pc[t] # "moved" /\ pc[t] # "idle"
  BY <1>1, IdleWriter DEF Moves
<1>3. op[t].record \in Records /\ pc[t] # "lookup" /\ pc[t] \in Labels
  BY <1>2, PInvTypes DEF PInv, WritersOK, WriterOK, LabelOK, Labels
<1>4. /\ x \in Alive /\ op[t].moved = ~SlotOf[x].onPage
      /\ SlotOf[x].item \notin Alive
  BY <1>1, <1>2 DEF RInv, MovesOK, MoveOK
<1>5. QED
  BY <1>2, <1>3, <1>4 DEF Labels

\* The TIDs that have records.
LEMMA RecordsOfTIDs ==
  ASSUME PInv, RInv, OneWriter, NEW x \in TIDs
  PROVE  /\ x \in Given /\ x \in Alive => Values[x] \in Records
         /\ Values[x] # Nil => x \in Given /\ x \in Alive
<1>1. Values[x] # Nil => x \in Given /\ x \in Alive
  BY ValueFacts DEF ValuesAre
<1>2. ASSUME x \in Given, x \in Alive PROVE Values[x] \in Records
  <2>1. CASE \E t \in Writers : Moves(t, x)
    BY <1>2, <2>1, MovingWriter, ValueFacts DEF ValuesAre
  <2>2. CASE (\A t \in Writers : ~Moves(t, x)) /\ SlotOf[x].onPage
    <3>1. x \in Taken /\ SlotOf[x].item \in Records
      BY <1>2, <2>2, RFacts
    <3>2. QED
      BY <1>2, <2>2, <3>1, ValueFacts DEF ValuesAre
  <2>3. CASE (\A t \in Writers : ~Moves(t, x)) /\ ~SlotOf[x].onPage
    <3>1. PICK z \in Places : z = SlotOf[x].item
      BY <1>2, <2>3, RFacts
    <3>2. z \in Alive
      BY <1>2, <2>3, <3>1 DEF RInv, ForthOK
    <3>3. SlotOf[z].onPage /\ z \in Taken
      BY <3>2, RFacts DEF RInv, BackOK
    <3>4. SlotOf[z].item \in Records
      BY <3>2, <3>3, RFacts
    <3>5. QED
      BY <1>2, <2>3, <3>1, <3>4, ValueFacts DEF ValuesAre
  <2>4. QED
    BY <2>1, <2>2, <2>3
<1>3. QED
  BY <1>1, <1>2

LEMMA LookupsFind == PInv /\ RInv /\ OneWriter => LookupFindsRecord
<1> SUFFICES ASSUME PInv, RInv, OneWriter, NEW u \in Readers, pc[u] = "lookup"
             PROVE  IF Overtaken(u) THEN IsFree(Slot(op[u].target))
                                    ELSE /\ RedirectAssertion(op[u].target)
                                         /\ Slot(op[u].target).item = Value(op[u].tid)
  BY DEF LookupFindsRecord
<1>1. PICK tid \in Given : tid = op[u].tid
  BY RFacts
<1>2. PICK x \in Places : x = op[u].target
  BY RFacts
<1>3. /\ x \in Taken /\ SlotOf[x] = Slot(x) /\ SlotOf[x].redirected
      /\ tid \in TIDs /\ tid \in Taken /\ SlotOf[tid] = Slot(tid)
      /\ x \in Alive <=> ~IsFree(Slot(x))
  BY <1>2, RFacts, TakenPage, GivenTaken DEF Alive, Places
<1>4. /\ tid \in Alive /\ ~SlotOf[tid].onPage
      /\ x \in Alive => SlotOf[tid].item = x
  BY <1>1, <1>2 DEF RInv, LookupsOK
\* A record that is still there has not been taken away.
<1>5. CASE Overtaken(u)
  <2>1. SUFFICES ASSUME x \in Alive PROVE FALSE
    BY <1>2, <1>3, <1>5
  <2>2. Moving(tid) # {}
    BY <1>1, <1>2, <1>3, <1>4, <1>5, <2>1 DEF Overtaken
  <2>3. PICK t \in Writers : Moves(t, tid)
    BY <2>2 DEF Moving, Moves
  <2>4. QED
    BY <1>4, <2>1, <2>3, MovingWriter
<1>6. CASE ~Overtaken(u)
  <2>1. SlotOf[tid].item = x
    BY <1>1, <1>2, <1>3, <1>6 DEF Overtaken
  <2>2. \A t \in Writers : ~Moves(t, tid)
    BY <1>1, <1>6 DEF Overtaken, Moving, Moves
  <2>3. x \in Alive
    BY <1>4, <2>1, <2>2 DEF RInv, ForthOK
  <2>4. SlotOf[x].onPage
    BY <1>2, <2>3 DEF RInv, BackOK
  <2>5. Values[tid] = SlotOf[x].item
    BY <1>3, <1>4, <2>1, <2>2, ValueFacts DEF ValuesAre
  <2>6. RedirectAssertion(x)
    BY <1>3, <2>3, <2>4 DEF RedirectAssertion
  <2>7. QED
    BY <1>1, <1>2, <1>3, <1>6, <2>5, <2>6 DEF Values
<1>7. QED
  BY <1>5, <1>6

\* A lookup that has followed a redirection (SPSegment.cpp:84-94) comes to the record of its
\* TID, or, when an update has moved that record again, to a free slot: never to the record
\* of another TID, and never to an old one.
THEOREM LookupsAlwaysFind ==
  ASSUME OneWriter
  PROVE  Spec /\ []NoneGrowsShort => []LookupFindsRecord
<1>1. PInv /\ RInv => LookupFindsRecord
  BY LookupsFind
<1>2. QED
  BY <1>1, RedirectionsInductive, PTL

---------------------------------------------------------------------------
(* The segment implements RecordStore. *)

Calls == [t \in Writers |-> IF pc[t] = "idle" THEN Nil
                            ELSE [tid |-> op[t].tid, record |-> op[t].record]]

LEMMA StoreBegin ==
  ASSUME NEW t \in Writers, NEW tid, NEW r, Calls[t] = Nil, tid = Nil \/ Values[tid] # Nil,
         Calls' = [Calls EXCEPT ![t] = [tid |-> tid, record |-> r]],
         Values' = Values, Given' = Given
  PROVE  Store!Begin(t, tid, r)
BY DEF Store!Begin, Values, Calls

LEMMA StoreEffect ==
  ASSUME NEW t \in Writers, Calls[t] # Nil, Calls[t].tid # Nil, Calls' = Calls, Given' = Given,
         Values' = [Values EXCEPT ![Calls[t].tid] = Calls[t].record]
  PROVE  Store!Effect(t)
BY DEF Store!Effect, Values, Calls

LEMMA StoreReturnUpdate ==
  ASSUME NEW t \in Writers, Calls[t] # Nil, Calls[t].tid # Nil,
         Calls' = [Calls EXCEPT ![t] = Nil], Given' = Given,
         Values' = [Values EXCEPT ![Calls[t].tid] = Calls[t].record]
  PROVE  Store!ReturnUpdate(t)
BY DEF Store!ReturnUpdate, Values, Calls

LEMMA StoreReturnInsert ==
  ASSUME NEW t \in Writers, NEW tid, Calls[t] # Nil, Calls[t].tid = Nil, tid \notin Given,
         Calls' = [Calls EXCEPT ![t] = Nil], Given' = Given \cup {tid},
         Values' = [Values EXCEPT ![tid] = Calls[t].record]
  PROVE  Store!ReturnInsert(t, tid)
BY DEF Store!ReturnInsert, Values, Calls

LEMMA StoreUpdate ==
  ASSUME NEW t \in Writers, NEW tid, NEW r, Calls[t] = Nil, Values[tid] # Nil,
         Calls' = Calls, Given' = Given, Values' = [Values EXCEPT ![tid] = r]
  PROVE  Store!Update(t, tid, r)
BY DEF Store!Update, Values, Calls

LEMMA StoreRemove ==
  ASSUME NEW t \in Writers, NEW tid, Calls[t] = Nil, Values[tid] # Nil,
         Calls' = Calls, Given' = Given, Values' = [Values EXCEPT ![tid] = Nil]
  PROVE  Store!Remove(t, tid)
BY DEF Store!Remove, Values, Calls

LEMMA StoreStutter ==
  ASSUME Calls' = Calls, Given' = Given, Values' = Values
  PROVE  UNCHANGED Store!storeVars
BY DEF Store!storeVars, Values, Calls

\* A step of a writer seen as a call.
LEMMA CallsStep ==
  ASSUME PInv, NEW t \in Writers, NEW label, NEW o,
         pc' = [pc EXCEPT ![t] = label], op' = [op EXCEPT ![t] = o]
  PROVE  /\ label # "idle" =>
              Calls' = [Calls EXCEPT ![t] = [tid |-> o.tid, record |-> o.record]]
         /\ label = "idle" => Calls' = [Calls EXCEPT ![t] = Nil]
<1>1. pc'[t] = label /\ op'[t] = o /\ \A u \in Writers : u # t => pc'[u] = pc[u] /\ op'[u] = op[u]
  BY PInvTypes
<1>2. ASSUME label # "idle"
      PROVE  Calls' = [Calls EXCEPT ![t] = [tid |-> o.tid, record |-> o.record]]
  BY <1>1, <1>2 DEF Calls
<1>3. ASSUME label = "idle"
      PROVE  Calls' = [Calls EXCEPT ![t] = Nil]
  BY <1>1, <1>3 DEF Calls
<1>4. QED
  BY <1>2, <1>3

LEMMA CallOf ==
  ASSUME NEW t \in Writers
  PROVE  /\ pc[t] = "idle" => Calls[t] = Nil
         /\ pc[t] # "idle" => Calls[t] = [tid |-> op[t].tid, record |-> op[t].record]
BY DEF Calls

\* A call is something.
LEMMA CallIsSome ==
  ASSUME PInv, NEW t \in Writers, pc[t] # "idle"
  PROVE  Calls[t] # Nil /\ Calls[t].tid = op[t].tid /\ Calls[t].record = op[t].record
<1>1. Calls[t] = [tid |-> op[t].tid, record |-> op[t].record]
  BY CallOf
<1>2. op[t].tid \in TIDs \cup {Nil} /\ op[t].record \in Records
  BY PInvTypes DEF PInv, WritersOK, WriterOK, LabelOK, Ops
<1>3. Calls[t] # Nil
  BY <1>1, <1>2, CallsAssumption
<1>4. QED
  BY <1>1, <1>3

\* No slot changes, and no record is taken away or put back.
LEMMA SameValues ==
  ASSUME PInv, RInv, OneWriter, ValuesAre', SameSlots,
         \A t \in Writers, x \in Given :
           /\ (op'[t].tid = x /\ op'[t].moved /\ pc'[t] # "moved") <=> Moves(t, x)
           /\ Moves(t, x) => op'[t].record = op[t].record
  PROVE  Values' = Values /\ Given' = Given
<1>1. Taken' = Taken /\ SlotOf' = SlotOf
  BY DEF SameSlots
<1>2. Given' = Given /\ Alive' = Alive
  BY <1>1, GivenTaken, PrimedGiven DEF Alive
<1>3. ASSUME NEW x \in TIDs PROVE Values'[x] = Values[x]
  <2>1. CASE x \notin Given \/ x \notin Alive
    BY <1>2, <2>1, ValueFacts DEF ValuesAre
  <2>2. CASE x \in Given /\ x \in Alive /\ \E t \in Writers : Moves(t, x)
    <3>1. PICK t \in Writers : Moves(t, x)
      BY <2>2
    <3>2. Moves(t, x)' /\ op'[t].record = op[t].record
      BY <2>2, <3>1 DEF Moves
    <3>3. Values[x] = op[t].record
      BY <2>2, <3>1, ValueFacts DEF ValuesAre
    <3>4. Values'[x] = op'[t].record
      BY <1>2, <2>2, <3>2 DEF ValuesAre
    <3>5. QED
      BY <3>2, <3>3, <3>4
  <2>3. CASE x \in Given /\ x \in Alive /\ \A t \in Writers : ~Moves(t, x)
    <3>1. \A t \in Writers : ~Moves(t, x)'
      BY <2>3 DEF Moves
    <3>2. /\ SlotOf[x].onPage => Values[x] = SlotOf[x].item
          /\ ~SlotOf[x].onPage => Values[x] = SlotOf[SlotOf[x].item].item
      BY <2>3, ValueFacts DEF ValuesAre
    <3>3. /\ SlotOf[x].onPage => Values'[x] = SlotOf[x].item
          /\ ~SlotOf[x].onPage => Values'[x] = SlotOf[SlotOf[x].item].item
      BY <1>1, <1>2, <2>3, <3>1 DEF ValuesAre
    <3>4. QED
      BY <3>2, <3>3
  <2>4. QED
    BY <2>1, <2>2, <2>3
<1>4. QED
  BY <1>2, <1>3 DEF Values

\* The places of other records: a redirection is that of one TID only.
LEMMA OtherPlaces ==
  ASSUME PInv, RInv, OneWriter, NEW y \in Given, y \in Alive, ~SlotOf[y].onPage,
         \A t \in Writers : ~Moves(t, y)
  PROVE  /\ SlotOf[y].item \in Places /\ SlotOf[y].item \in Taken /\ SlotOf[y].item \notin Given
         /\ SlotOf[y].item \in Alive /\ SlotOf[SlotOf[y].item].original = y
<1>1. y \in Taken
  BY RFacts
<1>2. SlotOf[y].item \in Places
  BY <1>1, RFacts
<1>3. SlotOf[y].item \in Alive /\ SlotOf[SlotOf[y].item].original = y
  BY DEF RInv, ForthOK
<1>4. QED
  BY <1>2, <1>3, RFacts

\* One slot is set, not that of y nor where y's record is, which is not in hand.
LEMMA OtherValue ==
  ASSUME PInv, RInv, OneWriter, ValuesAre', NEW x, NEW y \in TIDs, y # x,
         Given' \ {x} = Given \ {x}, Alive' \ {x} = Alive \ {x},
         \A z \in Taken : z # x => SlotOf'[z] = SlotOf[z],
         \A t \in Writers : ~Moves(t, y) /\ ~(op'[t].tid = y /\ op'[t].moved /\ pc'[t] # "moved"),
         y \in Given /\ y \in Alive /\ ~SlotOf[y].onPage => SlotOf[y].item # x
  PROVE  Values'[y] = Values[y]
<1>1. (y \in Given' <=> y \in Given) /\ (y \in Alive' <=> y \in Alive)
  OBVIOUS
<1>2. CASE y \notin Given \/ y \notin Alive
  BY <1>1, <1>2, ValueFacts DEF ValuesAre
<1>3. CASE y \in Given /\ y \in Alive
  <2>1. y \in Taken /\ SlotOf'[y] = SlotOf[y]
    BY <1>3, RFacts
  <2>2. /\ SlotOf[y].onPage => Values[y] = SlotOf[y].item
        /\ ~SlotOf[y].onPage => Values[y] = SlotOf[SlotOf[y].item].item
    BY <1>3, ValueFacts DEF ValuesAre
  <2>3. \A t \in Writers : ~Moves(t, y)'
    BY DEF Moves
  <2>4. /\ SlotOf[y].onPage => Values'[y] = SlotOf[y].item
        /\ ~SlotOf[y].onPage => Values'[y] = SlotOf'[SlotOf[y].item].item
    BY <1>1, <1>3, <2>1, <2>3 DEF ValuesAre
  <2>5. ASSUME ~SlotOf[y].onPage
        PROVE  SlotOf'[SlotOf[y].item] = SlotOf[SlotOf[y].item]
    BY <1>3, <2>5, OtherPlaces
  <2>6. QED
    BY <2>2, <2>4, <2>5
<1>4. QED
  BY <1>2, <1>3

\* A record on its page, under its own TID, changes or goes.
LEMMA OwnSlotValues ==
  ASSUME PInv, RInv, OneWriter, ValuesAre', NEW x \in Given, NEW slot, SlotStep(x, slot),
         x \in Alive, slot.redirected = SlotOf[x].redirected, IsFree(slot) \/ slot.onPage,
         UNCHANGED <<pc, op>>, \A t \in Writers : pc[t] = "idle"
  PROVE  /\ Given' = Given
         /\ Values' = [Values EXCEPT ![x] = IF IsFree(slot) THEN Nil ELSE slot.item]
<1>1. x \in Taken /\ x \notin Places /\ x \in TIDs
  BY RFacts
<1>2. /\ Given' = Given /\ SlotOf'[x] = slot
      /\ \A y \in Taken : y # x => SlotOf'[y] = SlotOf[y]
      /\ ~IsFree(slot) => Alive' = Alive \cup {x}
      /\ IsFree(slot) => Alive' = Alive \ {x}
  BY <1>1, KeptSteps
<1>3. \A t \in Writers : \A y \in Given : ~Moves(t, y) /\ ~Moves(t, y)'
  BY RFacts, IdleWriter DEF Moves
<1>4. ASSUME NEW y \in TIDs, y # x PROVE Values'[y] = Values[y]
  <2>1. Alive' \ {x} = Alive \ {x}
    BY <1>2
  <2>2. \A t \in Writers : ~Moves(t, y)
    BY <1>1, IdleWriter, RFacts, NilIsNone DEF Moves
  <2>3. \A t \in Writers : ~(op'[t].tid = y /\ op'[t].moved /\ pc'[t] # "moved")
    BY <2>2 DEF Moves
  <2>4. y \in Given /\ y \in Alive /\ ~SlotOf[y].onPage => SlotOf[y].item # x
    BY <1>1, <2>2, OtherPlaces
  <2>5. QED
    BY <1>2, <1>4, <2>1, <2>2, <2>3, <2>4, OtherValue
<1>5. Values'[x] = IF IsFree(slot) THEN Nil ELSE slot.item
  <2>1. CASE IsFree(slot)
    <3>1. x \notin Alive'
      BY <1>2, <2>1
    <3>2. QED
      BY <1>1, <2>1, <3>1 DEF ValuesAre
  <2>2. CASE ~IsFree(slot)
    <3>1. x \in Alive' /\ slot.onPage
      BY <1>2, <2>2
    <3>2. Values'[x] = SlotOf'[x].item
      BY <1>1, <1>2, <1>3, <3>1 DEF ValuesAre
    <3>3. QED
      BY <1>2, <2>2, <3>2
  <2>3. QED
    BY <2>1, <2>2
<1>6. QED
  BY <1>2, <1>4, <1>5 DEF Values

\* What each step of a writer is in the store.

LEMMA InsertStore ==
  ASSUME PInv, RInv, OneWriter, ValuesAre', NEW t \in Writers, NEW r \in Records, Insert(t, r)
  PROVE  Store!Begin(t, Nil, r)
<1>1. /\ pages' = pages /\ pc[t] = "idle"
      /\ \E label, o : /\ pc' = [pc EXCEPT ![t] = label] /\ op' = [op EXCEPT ![t] = o]
                       /\ label # "idle" /\ o.tid = Nil /\ o.record = r
  <2> DEFINE o == [[NoOp EXCEPT !.record = r] EXCEPT !.page = 0, !.bound = size]
  <2>1. /\ pages' = pages /\ pc[t] = "idle"
        /\ pc' = [pc EXCEPT ![t] = "search"] /\ op' = [op EXCEPT ![t] = o]
    BY DEF Insert, BeginSearch, Goto
  <2>2. o.tid = Nil /\ o.record = r
    BY DEF NoOp
  <2>3. QED
    BY <2>1, <2>2
<1>2. PICK label, o : /\ pc' = [pc EXCEPT ![t] = label] /\ op' = [op EXCEPT ![t] = o]
                      /\ label # "idle" /\ o.tid = Nil /\ o.record = r
  BY <1>1
<1>3. op'[t] = o /\ \A u \in Writers : u = t
  BY <1>2, WriterSteps
<1>4. \A x \in Given : x # Nil
  BY RFacts
<1>5. ASSUME NEW u \in Writers, NEW x \in Given
      PROVE  ~Moves(u, x) /\ ~(op'[u].tid = x /\ op'[u].moved /\ pc'[u] # "moved")
  BY <1>1, <1>2, <1>3, <1>4, IdleWriter DEF Moves
<1>6. Values' = Values /\ Given' = Given
  BY <1>1, <1>5, SamePagesSameSlots, SameValues
<1>7. Calls' = [Calls EXCEPT ![t] = [tid |-> Nil, record |-> r]] /\ Calls[t] = Nil
  <2>1. pc'[t] = label /\ op'[t] = o
    BY <1>2, WriterSteps
  <2>2. \A u \in Writers : Calls'[u] = [tid |-> Nil, record |-> r]
    BY <1>2, <1>3, <2>1 DEF Calls
  <2>3. QED
    BY <1>1, <1>3, <2>2, CallOf DEF Calls
<1>8. QED
  BY <1>6, <1>7, StoreBegin

LEMMA UpdateBeginsStore ==
  ASSUME PInv, RInv, OneWriter, ValuesAre', NEW t \in Writers, NEW tid \in Given,
         NEW r \in Records, UpdateAway(t, tid, r) \/ UpdateFollow(t, tid, r)
  PROVE  Store!Begin(t, tid, r)
<1>1. /\ pages' = pages /\ pc[t] = "idle" /\ ~IsFree(Slot(tid))
      /\ \E label, o : /\ pc' = [pc EXCEPT ![t] = label] /\ op' = [op EXCEPT ![t] = o]
                       /\ label # "idle" /\ o.tid = tid /\ o.record = r
                       /\ o.moved = FALSE \/ label = "moved"
  <2>1. CASE UpdateAway(t, tid, r)
    <3> DEFINE o == [[NoOp EXCEPT !.tid = tid, !.record = r] EXCEPT !.page = 0, !.bound = size]
    <3>1. /\ pages' = pages /\ pc[t] = "idle" /\ ~IsFree(Slot(tid))
          /\ pc' = [pc EXCEPT ![t] = "search"] /\ op' = [op EXCEPT ![t] = o]
      BY <2>1 DEF UpdateAway, BeginSearch, Goto
    <3>2. o.tid = tid /\ o.moved = FALSE /\ o.record = r
      BY DEF NoOp
    <3>3. QED
      BY <3>1, <3>2
  <2>2. CASE UpdateFollow(t, tid, r)
    <3> DEFINE o == [NoOp EXCEPT !.tid = tid, !.record = r, !.moved = TRUE,
                                 !.target = Slot(tid).item]
    <3>1. /\ pages' = pages /\ pc[t] = "idle" /\ ~IsFree(Slot(tid))
          /\ pc' = [pc EXCEPT ![t] = "moved"] /\ op' = [op EXCEPT ![t] = o]
      BY <2>2 DEF UpdateFollow, Goto
    <3>2. o.tid = tid /\ o.record = r
      BY DEF NoOp
    <3>3. QED
      BY <3>1, <3>2
  <2>3. QED
    BY <2>1, <2>2
<1>2. PICK label, o : /\ pc' = [pc EXCEPT ![t] = label] /\ op' = [op EXCEPT ![t] = o]
                      /\ label # "idle" /\ o.tid = tid /\ o.record = r
                      /\ o.moved = FALSE \/ label = "moved"
  BY <1>1
<1>3. pc'[t] = label /\ op'[t] = o /\ \A u \in Writers : u = t
  BY <1>2, WriterSteps
<1>4. \A x \in Given : x # Nil
  BY RFacts
<1>5. ASSUME NEW u \in Writers, NEW x \in Given
      PROVE  ~Moves(u, x) /\ ~(op'[u].tid = x /\ op'[u].moved /\ pc'[u] # "moved")
  <2>1. ~Moves(t, x)
    BY <1>1, <1>4, IdleWriter DEF Moves
  <2>2. ~(o.tid = x /\ o.moved /\ label # "moved")
    BY <1>2
  <2>3. QED
    BY <1>3, <2>1, <2>2
<1>6. Values' = Values /\ Given' = Given
  BY <1>1, <1>5, SamePagesSameSlots, SameValues
<1>7. Calls' = [Calls EXCEPT ![t] = [tid |-> tid, record |-> r]] /\ Calls[t] = Nil
  <2>1. Calls' = [Calls EXCEPT ![t] = [tid |-> o.tid, record |-> o.record]]
    BY <1>2, CallsStep
  <2>2. QED
    BY <1>1, <1>2, <2>1, CallOf
<1>8. Values[tid] # Nil
  <2>1. tid \in Taken /\ tid \in TIDs /\ SlotOf[tid] = Slot(tid)
    BY RFacts, TakenPage
  <2>2. tid \in Alive
    BY <1>1, <2>1 DEF Alive
  <2>3. QED
    BY <2>1, <2>2, RecordsOfTIDs, NilIsNone
<1>9. QED
  BY <1>6, <1>7, <1>8, StoreBegin

LEMMA UpdateHereStore ==
  ASSUME PInv, RInv, OneWriter, ValuesAre', NEW t \in Writers, NEW tid \in Given,
         NEW r \in Records, pc[t] = "idle", UNCHANGED <<pc, op>>,
         NEW slot \in SPSlots, Revised(tid, slot, r)
  PROVE  Store!Update(t, tid, r)
<1>1. /\ SlotStep(tid, slot) /\ ~IsFree(slot) /\ slot.onPage /\ slot.item = r
      /\ slot.redirected = SlotOf[tid].redirected /\ tid \in Alive
  BY LiveAlive DEF Revised
<1>2. \A u \in Writers : pc[u] = "idle"
  BY DEF OneWriter
<1>3. Given' = Given /\ Values' = [Values EXCEPT ![tid] = r]
  BY <1>1, <1>2, OwnSlotValues
<1>4. Calls[t] = Nil /\ Calls' = Calls
  BY CallOf DEF Calls
<1>5. Values[tid] # Nil
  BY <1>1, RFacts, RecordsOfTIDs, NilIsNone
<1>6. QED
  BY <1>3, <1>4, <1>5, StoreUpdate

LEMMA RemoveStore ==
  ASSUME PInv, RInv, OneWriter, ValuesAre', NEW t \in Writers, NEW tid \in Given,
         pc[t] = "idle", UNCHANGED <<pc, op>>,
         NEW slot \in SPSlots, Emptied(tid, slot)
  PROVE  Store!Remove(t, tid)
<1>1. /\ SlotStep(tid, slot) /\ IsFree(slot)
      /\ slot.redirected = SlotOf[tid].redirected /\ tid \in Alive
  BY LiveAlive DEF Emptied
<1>2. \A u \in Writers : pc[u] = "idle"
  BY DEF OneWriter
<1>3. Given' = Given /\ Values' = [Values EXCEPT ![tid] = Nil]
  BY <1>1, <1>2, OwnSlotValues
<1>4. Calls[t] = Nil /\ Calls' = Calls
  BY CallOf DEF Calls
<1>5. Values[tid] # Nil
  BY <1>1, RFacts, RecordsOfTIDs, NilIsNone
<1>6. QED
  BY <1>3, <1>4, <1>5, StoreRemove

LEMMA AbortedStore ==
  ASSUME PInv, RInv, OneWriter, ValuesAre', Aborted
  PROVE  UNCHANGED Store!storeVars
<1>1. Values' = Values /\ Given' = Given
  BY SamePagesSameSlots, SameValues DEF Aborted, Moves
<1>2. Calls' = Calls
  BY DEF Aborted, Calls
<1>3. QED
  BY <1>1, <1>2, StoreStutter

LEMMA SearchStore ==
  ASSUME PInv, RInv, OneWriter, ValuesAre', NEW t \in Writers,
         SearchMiss(t) \/ AllocatePage(t) \/ InitPage(t)
  PROVE  UNCHANGED Store!storeVars
<1>1. SameSlots /\ pc[t] \in {"search", "init"}
  BY SearchSteps
<1>2. \E label, o : Searches(t, label, o)
  BY SearchSteps
<1>3. PICK label, o :
        /\ label \in {"search", "init", "place"}
        /\ pc' = [pc EXCEPT ![t] = label] /\ op' = [op EXCEPT ![t] = o]
        /\ o.record = op[t].record /\ o.tid = op[t].tid /\ o.moved = op[t].moved
  BY <1>2 DEF Searches
<1>4. pc'[t] = label /\ op'[t] = o /\ \A u \in Writers : u = t
  BY <1>3, WriterSteps
<1>5. \A u \in Writers, x \in Given :
        /\ (op'[u].tid = x /\ op'[u].moved /\ pc'[u] # "moved") <=> Moves(u, x)
        /\ Moves(u, x) => op'[u].record = op[u].record
  BY <1>1, <1>3, <1>4 DEF Moves
<1>6. Values' = Values /\ Given' = Given
  BY <1>1, <1>5, SameValues
<1>7. Calls' = Calls
  <2>1. \A u \in Writers : (pc'[u] = "idle" <=> pc[u] = "idle")
                           /\ op'[u].tid = op[u].tid /\ op'[u].record = op[u].record
    BY <1>1, <1>3, <1>4
  <2>2. QED
    BY <2>1 DEF Calls
<1>8. QED
  BY <1>6, <1>7, StoreStutter

\* The record of an insert is placed: the insert returns.
LEMMA InsertReturnsStore ==
  ASSUME PInv, RInv, OneWriter, ValuesAre', NEW t \in Writers, pc[t] # "idle", op[t].tid = Nil,
         NEW x \in TIDs, NEW slot \in SPSlots, Placed(t, x, slot)
  PROVE  Store!ReturnInsert(t, x)
<1>1. /\ x \notin Taken /\ SlotStep(x, slot) /\ ~IsFree(slot) /\ slot.onPage
      /\ slot.redirected = FALSE /\ slot.item = op[t].record /\ Return(t)
  BY DEF Placed, Inserted
<1>2. /\ Taken' = Taken \cup {x} /\ SlotOf'[x] = slot
      /\ \A y \in Taken : y # x => SlotOf'[y] = SlotOf[y]
      /\ Alive' \ {x} = Alive \ {x} /\ x \in Alive'
  BY <1>1, SlotSteps
<1>3. x \notin Given /\ Given' = Given \cup {x}
  BY <1>1, <1>2, GivenTaken, PrimedGiven
<1>4. /\ pc' = [pc EXCEPT ![t] = "idle"] /\ op' = [op EXCEPT ![t] = NoOp] /\ NoOp.tid = Nil
  BY <1>1 DEF Return, Goto, NoOp
<1>5. pc'[t] = "idle" /\ op'[t] = NoOp /\ \A u \in Writers : u = t
  BY <1>4, WriterSteps
<1>6. \A u \in Writers, y \in TIDs :
        ~Moves(u, y) /\ ~(op'[u].tid = y /\ op'[u].moved /\ pc'[u] # "moved")
  BY <1>4, <1>5, NilIsNone DEF Moves
<1>7. ASSUME NEW y \in TIDs, y # x PROVE Values'[y] = Values[y]
  <2>1. y \in Given /\ y \in Alive /\ ~SlotOf[y].onPage => SlotOf[y].item # x
    BY <1>1, <1>6, OtherPlaces
  <2>2. Given' \ {x} = Given \ {x}
    BY <1>3
  <2>3. QED
    BY <1>2, <1>6, <1>7, <2>1, <2>2, OtherValue
<1>8. Values'[x] = op[t].record
  <2>1. \A u \in Writers : ~Moves(u, x)'
    BY <1>6 DEF Moves
  <2>2. QED
    BY <1>1, <1>2, <1>3, <2>1 DEF ValuesAre
<1>9. Calls[t] # Nil /\ Calls[t].tid = Nil /\ Calls[t].record = op[t].record
  BY CallIsSome
<1>10. Calls' = [Calls EXCEPT ![t] = Nil]
  BY <1>5 DEF Calls
<1>11. Values' = [Values EXCEPT ![x] = Calls[t].record]
  BY <1>7, <1>8, <1>9 DEF Values
<1>12. QED
  BY <1>3, <1>9, <1>10, <1>11, StoreReturnInsert

\* A record is placed where it moves to: its TID does not lead there yet.
LEMMA MoveStore ==
  ASSUME PInv, RInv, OneWriter, ValuesAre', NEW t \in Writers, pc[t] \in {"search", "place"},
         op[t].tid # Nil, NEW x \in TIDs, NEW slot \in SPSlots, Placed(t, x, slot)
  PROVE  UNCHANGED Store!storeVars
<1>1. /\ x \notin Taken /\ SlotStep(x, slot) /\ slot.redirected = TRUE
      /\ op' = [op EXCEPT ![t].target = x] /\ pc' = [pc EXCEPT ![t] = "redirect"]
  BY DEF Placed, Inserted, Goto
<1>2. /\ Taken' = Taken \cup {x} /\ SlotOf'[x] = slot
      /\ \A y \in Taken : y # x => SlotOf'[y] = SlotOf[y]
      /\ Alive' \ {x} = Alive \ {x} /\ Alive \subseteq Taken
  BY <1>1, SlotSteps
<1>3. x \notin Given /\ Given' = Given
  BY <1>1, <1>2, GivenTaken, PrimedGiven
<1>4. /\ pc'[t] = "redirect" /\ \A u \in Writers : u = t
      /\ op'[t].tid = op[t].tid /\ op'[t].moved = op[t].moved /\ op'[t].record = op[t].record
  <2>1. op \in [Threads -> Ops] /\ pc \in [Threads -> Labels] /\ t \in Threads
    BY PInvTypes DEF Labels
  <2>2. PICK old \in Ops : old = op[t]
    BY <2>1
  <2>3. op'[t] = [old EXCEPT !.target = x]
    BY <1>1, <2>1, <2>2
  <2>4. op'[t].tid = old.tid /\ op'[t].moved = old.moved /\ op'[t].record = old.record
    BY <2>3 DEF Ops
  <2>5. QED
    BY <1>1, <2>1, <2>2, <2>4 DEF OneWriter
<1>5. \A u \in Writers, y \in TIDs :
        (op'[u].tid = y /\ op'[u].moved /\ pc'[u] # "moved") <=> Moves(u, y)
  BY <1>4 DEF Moves
<1>6. ASSUME NEW y \in TIDs PROVE Values'[y] = Values[y]
  <2>1. CASE y = x
    <3>1. y \notin Given /\ y \notin Given'
      BY <1>3, <2>1
    <3>2. QED
      BY <3>1, ValueFacts DEF ValuesAre
  <2>2. CASE y # x /\ \A u \in Writers : ~Moves(u, y)
    <3>1. y \in Given /\ y \in Alive /\ ~SlotOf[y].onPage => SlotOf[y].item # x
      BY <1>1, <2>2, OtherPlaces
    <3>2. QED
      BY <1>2, <1>3, <1>5, <2>2, <3>1, OtherValue
  <2>3. CASE y # x /\ \E u \in Writers : Moves(u, y)
    <3>1. Moves(t, y) /\ Moves(t, y)'
      BY <1>4, <1>5, <2>3 DEF Moves
    <3>2. (y \in Given' <=> y \in Given) /\ (y \in Alive' <=> y \in Alive)
      BY <1>2, <1>3, <2>3
    <3>3. CASE y \in Given /\ y \in Alive
      <4>1. Values[y] = op[t].record
        BY <3>1, <3>3, ValueFacts DEF ValuesAre
      <4>2. Values'[y] = op'[t].record
        BY <3>1, <3>2, <3>3 DEF ValuesAre
      <4>3. QED
        BY <1>4, <4>1, <4>2
    <3>4. CASE y \notin Given \/ y \notin Alive
      BY <3>2, <3>4, ValueFacts DEF ValuesAre
    <3>5. QED
      BY <3>3, <3>4
  <2>4. QED
    BY <2>1, <2>2, <2>3
<1>7. Calls' = Calls
  <2>1. /\ \A u \in Writers : pc'[u] # "idle" /\ pc[u] # "idle"
        /\ \A u \in Writers : op'[u].tid = op[u].tid /\ op'[u].record = op[u].record
    BY <1>4
  <2>2. QED
    BY <2>1 DEF Calls
<1>8. Values' = Values
  BY <1>6 DEF Values
<1>9. QED
  BY <1>3, <1>7, <1>8, StoreStutter

\* A moved record is revised where it is: the update returns.
LEMMA RevisedMovedStore ==
  ASSUME PInv, RInv, OneWriter, ValuesAre', NEW t \in Writers, pc[t] = "moved", Return(t),
         NEW slot \in SPSlots, Revised(op[t].target, slot, op[t].record)
  PROVE  Store!ReturnUpdate(t)
<1>1. PICK tid \in Given, x \in Places :
           /\ op[t].tid = tid /\ op[t].target = x /\ op[t].moved
           /\ tid \in Alive /\ ~SlotOf[tid].onPage /\ SlotOf[tid].item = x
           /\ x \in Alive /\ SlotOf[x].original = tid
  BY MovedWriter
<1>2. /\ SlotStep(x, slot) /\ ~IsFree(slot) /\ slot.onPage /\ slot.item = op[t].record
      /\ slot.redirected = SlotOf[x].redirected
  BY <1>1 DEF Revised
<1>3. x \in Taken /\ x \notin Given /\ tid \in Taken /\ tid \in TIDs
  BY RFacts
<1>4. /\ Given' = Given /\ Alive' = Alive \cup {x} /\ SlotOf'[x] = slot
      /\ \A y \in Taken : y # x => SlotOf'[y] = SlotOf[y]
  BY <1>2, <1>3, KeptSteps
<1>5. /\ pc' = [pc EXCEPT ![t] = "idle"] /\ op' = [op EXCEPT ![t] = NoOp] /\ NoOp.tid = Nil
  BY DEF Return, Goto, NoOp
<1>6. pc'[t] = "idle" /\ op'[t] = NoOp /\ \A u \in Writers : u = t
  BY <1>5, WriterSteps
<1>7. \A u \in Writers, y \in TIDs :
        ~Moves(u, y) /\ ~(op'[u].tid = y /\ op'[u].moved /\ pc'[u] # "moved")
  BY <1>5, <1>6, NilIsNone DEF Moves
<1>8. ASSUME NEW y \in TIDs, y # tid PROVE Values'[y] = Values[y]
  <2>1. CASE y = x
    <3>1. y \notin Given /\ y \notin Given'
      BY <1>3, <1>4, <2>1
    <3>2. QED
      BY <3>1, ValueFacts DEF ValuesAre
  <2>2. CASE y # x
    <3>1. y \in Given /\ y \in Alive /\ ~SlotOf[y].onPage => SlotOf[y].item # x
      BY <1>1, <1>7, <1>8, OtherPlaces
    <3>2. Alive' \ {x} = Alive \ {x}
      BY <1>4
    <3>3. QED
      BY <1>4, <1>7, <2>2, <3>1, <3>2, OtherValue
  <2>3. QED
    BY <2>1, <2>2
<1>9. Values'[tid] = op[t].record
  <2>1. \A u \in Writers : ~Moves(u, tid)'
    BY <1>3, <1>7 DEF Moves
  <2>2. /\ tid \in Given' /\ tid \in Alive' /\ SlotOf'[tid] = SlotOf[tid]
    BY <1>1, <1>3, <1>4
  <2>3. Values'[tid] = SlotOf'[x].item
    BY <1>1, <1>3, <2>1, <2>2 DEF ValuesAre
  <2>4. QED
    BY <1>2, <1>4, <2>3
<1>10. Calls[t] # Nil /\ Calls[t].tid = tid /\ Calls[t].record = op[t].record
  BY <1>1, CallIsSome
<1>11. Calls' = [Calls EXCEPT ![t] = Nil]
  BY <1>6 DEF Calls
<1>12. Values' = [Values EXCEPT ![Calls[t].tid] = Calls[t].record]
  BY <1>8, <1>9, <1>10 DEF Values
<1>13. QED
  BY <1>3, <1>4, <1>10, <1>11, <1>12, NilIsNone, StoreReturnUpdate

\* A moved record moves again: the update takes effect when its old place is free.
LEMMA EmptiedMovedStore ==
  ASSUME PInv, RInv, OneWriter, ValuesAre', NEW t \in Writers, pc[t] = "moved",
         BeginSearch(t, op[t]), NEW slot \in SPSlots, Emptied(op[t].target, slot)
  PROVE  Store!Effect(t)
<1>1. PICK tid \in Given, x \in Places :
           /\ op[t].tid = tid /\ op[t].target = x /\ op[t].moved
           /\ tid \in Alive /\ ~SlotOf[tid].onPage /\ SlotOf[tid].item = x
           /\ x \in Alive /\ SlotOf[x].original = tid
  BY MovedWriter
<1>2. /\ SlotStep(x, slot) /\ IsFree(slot) /\ slot.redirected = SlotOf[x].redirected
  BY <1>1 DEF Emptied
<1>3. x \in Taken /\ x \notin Given /\ tid \in Taken /\ tid \in TIDs
  BY RFacts
<1>4. /\ Given' = Given /\ Alive' = Alive \ {x}
      /\ \A y \in Taken : y # x => SlotOf'[y] = SlotOf[y]
  BY <1>2, <1>3, KeptSteps
<1>5. /\ pc'[t] = "search" /\ \A u \in Writers : u = t
      /\ op'[t].tid = tid /\ op'[t].moved = TRUE /\ op'[t].record = op[t].record
  <2>1. op \in [Threads -> Ops] /\ pc \in [Threads -> Labels] /\ t \in Threads
    BY PInvTypes DEF Labels
  <2>2. PICK old \in Ops : old = op[t]
    BY <2>1
  <2>3. pc'[t] = "search" /\ op'[t] = [old EXCEPT !.page = 0, !.bound = size]
    BY <2>1, <2>2 DEF BeginSearch, Goto
  <2>4. op'[t].tid = old.tid /\ op'[t].moved = old.moved /\ op'[t].record = old.record
    BY <2>3 DEF Ops
  <2>5. old.moved = TRUE
    BY <1>1, <2>2 DEF Ops
  <2>6. QED
    BY <1>1, <2>2, <2>3, <2>4, <2>5 DEF OneWriter
<1>6. \A u \in Writers, y \in TIDs :
        y # tid => ~Moves(u, y) /\ ~(op'[u].tid = y /\ op'[u].moved /\ pc'[u] # "moved")
  BY <1>5 DEF Moves
<1>7. ASSUME NEW y \in TIDs, y # tid PROVE Values'[y] = Values[y]
  <2>1. CASE y = x
    <3>1. y \notin Given /\ y \notin Given'
      BY <1>3, <1>4, <2>1
    <3>2. QED
      BY <3>1, ValueFacts DEF ValuesAre
  <2>2. CASE y # x
    <3>1. y \in Given /\ y \in Alive /\ ~SlotOf[y].onPage => SlotOf[y].item # x
      BY <1>1, <1>6, <1>7, OtherPlaces
    <3>2. Alive' \ {x} = Alive \ {x}
      BY <1>4
    <3>3. QED
      BY <1>4, <1>6, <1>7, <2>2, <3>1, <3>2, OtherValue
  <2>3. QED
    BY <2>1, <2>2
<1>8. Values'[tid] = op[t].record
  <2>1. Moves(t, tid)'
    BY <1>5 DEF Moves
  <2>2. tid \in Given' /\ tid \in Alive'
    BY <1>1, <1>3, <1>4
  <2>3. Values'[tid] = op'[t].record
    BY <1>3, <2>1, <2>2 DEF ValuesAre
  <2>4. QED
    BY <1>5, <2>3
<1>9. Calls[t] # Nil /\ Calls[t].tid = tid /\ Calls[t].record = op[t].record
  BY <1>1, CallIsSome
<1>10. Calls' = Calls
  <2>1. /\ \A u \in Writers : pc'[u] # "idle" /\ pc[u] # "idle"
        /\ \A u \in Writers : op'[u].tid = op[u].tid /\ op'[u].record = op[u].record
    BY <1>1, <1>5
  <2>2. QED
    BY <2>1 DEF Calls
<1>11. Values' = [Values EXCEPT ![Calls[t].tid] = Calls[t].record]
  BY <1>7, <1>8, <1>9 DEF Values
<1>12. QED
  BY <1>3, <1>4, <1>9, <1>10, <1>11, NilIsNone, StoreEffect

\* Back on its page, the TID leads to the new place: the update returns.
LEMMA RedirectStore ==
  ASSUME PInv, RInv, OneWriter, ValuesAre', NEW t \in Writers, pc[t] = "redirect", Return(t),
         op[t].target \in Places, op[t].tid \in Given,
         NEW slot \in SPSlots, Linked(op[t].tid, slot, op[t].target)
  PROVE  Store!ReturnUpdate(t)
<1>1. PICK tid \in Given : tid = op[t].tid
  OBVIOUS
<1>2. PICK x \in Places : x = op[t].target
  OBVIOUS
<1>3. /\ SlotStep(tid, slot) /\ ~IsFree(slot) /\ ~slot.onPage /\ slot.item = x
      /\ slot.redirected = SlotOf[tid].redirected
  BY <1>1, <1>2 DEF Linked
<1>4. x \in Taken /\ x \notin Given /\ tid \in Taken /\ tid \in TIDs /\ tid # Nil
  BY RFacts
<1>5. tid \in Alive /\ x \in Alive /\ SlotOf[x].item = op[t].record
  BY <1>1, <1>2, <1>4 DEF RInv, MovesOK, MoveOK
<1>6. /\ Given' = Given /\ Alive' = Alive \cup {tid} /\ SlotOf'[tid] = slot
      /\ \A y \in Taken : y # tid => SlotOf'[y] = SlotOf[y]
  BY <1>3, <1>4, KeptSteps
<1>7. /\ pc' = [pc EXCEPT ![t] = "idle"] /\ op' = [op EXCEPT ![t] = NoOp] /\ NoOp.tid = Nil
  BY DEF Return, Goto, NoOp
<1>8. pc'[t] = "idle" /\ op'[t] = NoOp /\ \A u \in Writers : u = t
  BY <1>7, WriterSteps
<1>9. \A u \in Writers, y \in TIDs :
        /\ y # tid => ~Moves(u, y)
        /\ ~(op'[u].tid = y /\ op'[u].moved /\ pc'[u] # "moved")
  BY <1>1, <1>7, <1>8, NilIsNone DEF Moves
<1>10. ASSUME NEW y \in TIDs, y # tid PROVE Values'[y] = Values[y]
  <2>1. y \in Given /\ y \in Alive /\ ~SlotOf[y].onPage => SlotOf[y].item # tid
    BY <1>9, <1>10, OtherPlaces
  <2>2. Alive' \ {tid} = Alive \ {tid}
    BY <1>6
  <2>3. QED
    BY <1>6, <1>9, <1>10, <2>1, <2>2, OtherValue
<1>11. Values'[tid] = op[t].record
  <2>1. \A u \in Writers : ~Moves(u, tid)'
    BY <1>4, <1>9 DEF Moves
  <2>2. tid \in Given' /\ tid \in Alive'
    BY <1>6
  <2>3. Values'[tid] = SlotOf'[x].item
    BY <1>3, <1>4, <1>6, <2>1, <2>2 DEF ValuesAre
  <2>4. QED
    BY <1>4, <1>5, <1>6, <2>3
<1>12. Calls[t] # Nil /\ Calls[t].tid = tid /\ Calls[t].record = op[t].record
  BY <1>1, CallIsSome
<1>13. Calls' = [Calls EXCEPT ![t] = Nil]
  BY <1>8 DEF Calls
<1>14. Values' = [Values EXCEPT ![Calls[t].tid] = Calls[t].record]
  BY <1>10, <1>11, <1>12 DEF Values
<1>15. QED
  BY <1>4, <1>6, <1>12, <1>13, <1>14, StoreReturnUpdate

LEMMA WriterStore ==
  ASSUME PInv, RInv, OneWriter, NoneGrowsShort, ValuesAre', NEW t \in Writers,
         \/ \E r \in Records : Insert(t, r) \/ \E tid \in Given : Update(t, tid, r)
         \/ \E tid \in Given : RemoveRecord(t, tid)
         \/ Search(t) \/ UpdateMoved(t) \/ Redirect(t)
  PROVE  Store!Next \/ UNCHANGED Store!storeVars
<1>1. \A tid \in Given : tid \in TIDs
  BY RFacts
<1>2. CASE \E r \in Records : Insert(t, r)
  BY <1>2, InsertStore DEF Store!Next
<1>3. CASE \E r \in Records, tid \in Given : Update(t, tid, r)
  <2>1. PICK r \in Records, tid \in Given : Update(t, tid, r)
    BY <1>3
  <2>2. CASE UpdateHere(t, tid, r)
    <3>1. pc[t] = "idle"
      BY <2>2 DEF UpdateHere
    <3>2. CASE Aborted
      BY <3>2, AbortedStore
    <3>3. CASE pc' = pc /\ op' = op /\ \E slot \in SPSlots : Revised(tid, slot, r)
      <4>1. Store!Update(t, tid, r)
        BY <3>1, <3>3, UpdateHereStore
      <4>2. QED
        BY <1>1, <4>1 DEF Store!Next
    <3>4. QED
      BY <2>2, <3>2, <3>3, UpdateHereEffect
  <2>3. CASE UpdateAway(t, tid, r) \/ UpdateFollow(t, tid, r)
    <3>1. Store!Begin(t, tid, r)
      BY <2>3, UpdateBeginsStore
    <3>2. QED
      BY <1>1, <3>1 DEF Store!Next
  <2>4. QED
    BY <2>1, <2>2, <2>3 DEF Update
<1>4. CASE \E tid \in Given : RemoveRecord(t, tid)
  <2>1. PICK tid \in Given : RemoveRecord(t, tid)
    BY <1>4
  <2>2. pc[t] = "idle"
    BY <2>1 DEF RemoveRecord
  <2>3. CASE Aborted
    BY <2>3, AbortedStore
  <2>4. CASE pc' = pc /\ op' = op /\ \E slot \in SPSlots : Emptied(tid, slot)
    <3>1. Store!Remove(t, tid)
      BY <2>2, <2>4, RemoveStore
    <3>2. QED
      BY <1>1, <3>1 DEF Store!Next
  <2>5. QED
    BY <2>1, <2>3, <2>4, RemoveEffect
<1>5. CASE SearchHit(t) \/ PlaceOnNew(t)
  <2>1. /\ pc[t] \in {"search", "place"} /\ pc[t] # "idle" /\ op[t].page \in PageIds
        /\ Place(t, op[t].page)
    BY <1>5, SearchPageId DEF SearchHit, PlaceOnNew
  <2>2. CASE Aborted
    BY <2>2, AbortedStore
  <2>3. ASSUME NEW x \in TIDs, NEW slot \in SPSlots, Placed(t, x, slot)
        PROVE  Store!Next \/ UNCHANGED Store!storeVars
    <3>1. CASE op[t].tid = Nil
      <4>1. Store!ReturnInsert(t, x)
        BY <2>1, <2>3, <3>1, InsertReturnsStore
      <4>2. QED
        BY <4>1 DEF Store!Next
    <3>2. CASE op[t].tid # Nil
      BY <2>1, <2>3, <3>2, MoveStore
    <3>3. QED
      BY <3>1, <3>2
  <2>4. QED
    BY <2>1, <2>2, <2>3, PlaceEffect
<1>6. CASE SearchMiss(t) \/ AllocatePage(t) \/ InitPage(t)
  BY <1>6, SearchStore
<1>7. CASE UpdateMoved(t)
  <2>1. pc[t] = "moved"
    BY <1>7 DEF UpdateMoved
  <2>2. CASE Aborted
    BY <2>2, AbortedStore
  <2>3. ASSUME Return(t), NEW slot \in SPSlots, Revised(op[t].target, slot, op[t].record)
        PROVE  Store!Next
    BY <2>1, <2>3, RevisedMovedStore DEF Store!Next
  <2>4. ASSUME BeginSearch(t, op[t]), NEW slot \in SPSlots, Emptied(op[t].target, slot)
        PROVE  Store!Next
    BY <2>1, <2>4, EmptiedMovedStore DEF Store!Next
  <2>5. QED
    BY <1>7, <2>2, <2>3, <2>4, UpdateMovedEffect
<1>8. CASE Redirect(t)
  <2>1. pc[t] = "redirect" /\ op[t].target \in Places /\ op[t].tid \in Given
    BY <1>8, RedirectEffect DEF Redirect
  <2>2. CASE Aborted
    BY <2>2, AbortedStore
  <2>3. ASSUME Return(t), NEW slot \in SPSlots, Linked(op[t].tid, slot, op[t].target)
        PROVE  Store!Next
    BY <2>1, <2>3, RedirectStore DEF Store!Next
  <2>4. QED
    BY <1>8, <2>2, <2>3, RedirectEffect
<1>9. QED
  BY <1>2, <1>3, <1>4, <1>5, <1>6, <1>7, <1>8 DEF Search

\* Readers do not touch records.
LEMMA ReaderStore ==
  ASSUME PInv, RInv, OneWriter, ValuesAre', NEW u \in Readers,
         \/ \E tid \in Given : LookupFollow(u, tid)
         \/ LookupMoved(u)
         \/ Scan(u)
  PROVE  UNCHANGED Store!storeVars
<1>1. pages' = pages /\ \A t \in Writers : pc'[t] = pc[t] /\ op'[t] = op[t]
  <2>1. CASE \E tid \in Given : LookupFollow(u, tid)
    BY <2>1, PInvTypes DEF LookupFollow, Goto
  <2>2. CASE LookupMoved(u)
    BY <2>2, PInvTypes DEF LookupMoved, Return, Goto, Abort
  <2>3. CASE Scan(u)
    BY <2>3, ScanKeepsPages
  <2>4. QED
    BY <2>1, <2>2, <2>3
<1>2. \A t \in Writers, x \in Given :
        /\ (op'[t].tid = x /\ op'[t].moved /\ pc'[t] # "moved") <=> Moves(t, x)
        /\ Moves(t, x) => op'[t].record = op[t].record
  BY <1>1 DEF Moves
<1>3. Values' = Values /\ Given' = Given
  BY <1>1, <1>2, SamePagesSameSlots, SameValues
<1>4. Calls' = Calls
  BY <1>1 DEF Calls
<1>5. QED
  BY <1>3, <1>4, StoreStutter

LEMMA UnchangedStore ==
  ASSUME PInv, RInv, OneWriter, ValuesAre', UNCHANGED vars
  PROVE  UNCHANGED Store!storeVars
<1>1. pages' = pages /\ pc' = pc /\ op' = op
  BY DEF vars
<1>2. Values' = Values /\ Given' = Given
  BY <1>1, SamePagesSameSlots, SameValues DEF Moves
<1>3. Calls' = Calls
  BY <1>1 DEF Calls
<1>4. QED
  BY <1>2, <1>3, StoreStutter

LEMMA StoreStep ==
  ASSUME PInv, RInv, OneWriter, NoneGrowsShort, [Next]_vars
  PROVE  Store!Next \/ UNCHANGED Store!storeVars
<1>1. ValuesAre'
  <2>1. PInv'
    BY PInvStep
  <2>2. (PInv /\ OneWriter => ValuesAre)'
    BY ValueFacts, PTL
  <2>3. QED
    BY <2>1, <2>2
<1>2. CASE \E t \in Writers :
             \/ \E r \in Records : Insert(t, r) \/ \E tid \in Given : Update(t, tid, r)
             \/ \E tid \in Given : RemoveRecord(t, tid)
             \/ Search(t) \/ UpdateMoved(t) \/ Redirect(t)
  BY <1>1, <1>2, WriterStore
<1>3. CASE \E u \in Readers :
             \/ \E tid \in Given : LookupFollow(u, tid)
             \/ LookupMoved(u)
             \/ Scan(u)
  BY <1>1, <1>3, ReaderStore
<1>4. CASE UNCHANGED vars
  BY <1>1, <1>4, UnchangedStore
<1>5. QED
  BY <1>2, <1>3, <1>4 DEF Next

LEMMA StoreInit ==
  ASSUME Init
  PROVE  Store!Init
<1>1. Given = {}
  BY NothingTaken, GivenTaken
<1>2. \A x \in TIDs : Value(x) = Nil
  BY <1>1 DEF Value
<1>3. \A t \in Writers : pc[t] = "idle"
  BY DEF Init, Threads
<1>4. QED
  BY <1>1, <1>2, <1>3 DEF Store!Init

\* The segment implements RecordStore (SPSegment.cpp): a TID leads to its last record
\* through any number of moves, no operation changes another TID's record, and no TID is
\* given twice; a record is the new one from the step where its old place is freed, or
\* from the last step of the update.
THEOREM SegmentImplementsRecordStore ==
  ASSUME OneWriter
  PROVE  Spec /\ []NoneGrowsShort => ImplementsRecordStore
<1>1. Init => Store!Init
  BY StoreInit
<1>2. PInv /\ RInv /\ NoneGrowsShort /\ [Next]_vars => [Store!Next]_(Store!storeVars)
  BY StoreStep
<1>3. QED
  BY <1>1, <1>2, RedirectionsInductive, PTL DEF Spec, Store!Spec, ImplementsRecordStore

---------------------------------------------------------------------------
(* Scans *)

\* Where the record of a TID is.
Seat == [x \in Taken |-> IF SlotOf[x].onPage THEN x ELSE SlotOf[x].item]

\* An iterator has come to slot x, or past it.
Visited(it, x) ==
  \/ x.page < it.page
  \/ x.page = it.page /\ x.slot <= it.slot

\* The records that are due are ahead of the iterator and within its bound, the others are
\* behind it.
ScanOK(u) ==
  /\ again[u] = {}
  /\ due[u] \subseteq Settled /\ done[u] \subseteq Settled
  /\ scan[u] = Nil => due[u] = {} /\ done[u] = {}
  /\ scan[u] # Nil =>
       /\ \A x \in due[u] : ~Visited(scan[u], Seat[x]) /\ Seat[x].page < scan[u].bound
       /\ \A x \in done[u] : Visited(scan[u], Seat[x])

ScansOK == \A u \in Readers : ScanOK(u)

LEMMA SettledIs ==
  PInv => Settled = {x \in Given : x \in Alive /\ \A t \in Writers : op[t].tid # x}
<1> SUFFICES ASSUME PInv, NEW x \in Given
             PROVE  x \in Alive <=> ~IsFree(Slot(x))
  BY DEF Settled
<1>1. x \in Taken /\ SlotOf[x] = Slot(x)
  BY RFacts, TakenPage
<1>2. QED
  BY <1>1 DEF Alive

LEMMA PrimedSettled ==
  ASSUME PInv'
  PROVE  Settled' = {x \in Given' : x \in Alive' /\ \A t \in Writers : op'[t].tid # x}
<1>1. (PInv => Settled = {x \in Given : x \in Alive /\ \A t \in Writers : op[t].tid # x})'
  BY SettledIs, PTL
<1>2. QED
  BY <1>1

LEMMA SeatFacts ==
  ASSUME PInv, RInv, NEW x \in Settled
  PROVE  /\ x \in Given /\ x \in Taken /\ x \in Alive /\ x # Nil
         /\ \A t \in Writers : op[t].tid # x
         /\ Seat[x] \in Taken /\ Seat[x] \in Alive /\ SlotOf[Seat[x]].onPage
         /\ SlotOf[Seat[x]].redirected => SlotOf[Seat[x]].original = x
         /\ ~SlotOf[Seat[x]].redirected => Seat[x] = x
<1>1. x \in Given /\ x \in Taken /\ x \in Alive /\ x # Nil /\ \A t \in Writers : op[t].tid # x
  BY SettledIs, RFacts
<1>2. CASE SlotOf[x].onPage
  <2>1. Seat[x] = x /\ ~SlotOf[x].redirected
    BY <1>1, <1>2, RFacts DEF Seat
  <2>2. QED
    BY <1>1, <1>2, <2>1
<1>3. CASE ~SlotOf[x].onPage
  <2>1. PICK z \in Places : z = SlotOf[x].item
    BY <1>1, <1>3, RFacts
  <2>2. Seat[x] = z
    BY <1>1, <1>3, <2>1 DEF Seat
  <2>3. z \in Alive /\ SlotOf[z].original = x
    BY <1>1, <1>3, <2>1 DEF RInv, ForthOK, Moves
  <2>4. SlotOf[z].onPage /\ z \in Taken /\ SlotOf[z].redirected
    BY <2>3, RFacts DEF RInv, BackOK
  <2>5. QED
    BY <1>1, <2>2, <2>3, <2>4
<1>4. QED
  BY <1>2, <1>3

\* The record in a slot is that of the TID the iterator gives it.
LEMMA SeatOfRecord ==
  ASSUME PInv, RInv, NEW x \in Alive, SlotOf[x].onPage, NEW tid \in Settled,
         tid = IF SlotOf[x].redirected THEN SlotOf[x].original ELSE x
  PROVE  Seat[tid] = x
<1>1. x \in Taken
  BY DEF Alive
<1>2. CASE ~SlotOf[x].redirected
  BY <1>1, <1>2 DEF Seat
<1>3. CASE SlotOf[x].redirected
  <2>1. tid = SlotOf[x].original /\ x \in Places
    BY <1>1, <1>3, RFacts
  <2>2. \A t \in Writers : op[t].tid # tid
    BY SeatFacts
  <2>3. ~SlotOf[tid].onPage /\ SlotOf[tid].item = x
    BY <2>1, <2>2 DEF RInv, BackOK
  <2>4. QED
    BY <2>3, SeatFacts DEF Seat
<1>4. QED
  BY <1>2, <1>3

\* Settled records, but those of X, stay where they are and settled.
KeptSeats(X) == \A y \in Settled \ X : y \in Settled' /\ Seat'[y] = Seat[y]

LEMMA ScansKept ==
  ASSUME ScansOK, NEW X, KeptSeats(X), scan' = scan,
         \A u \in Readers : /\ again'[u] = again[u]
                            /\ due'[u] = due[u] \ X /\ done'[u] = done[u] \ X
  PROVE  ScansOK'
<1>1. ASSUME NEW u \in Readers
      PROVE  /\ again'[u] = {}
             /\ due'[u] \subseteq Settled' /\ done'[u] \subseteq Settled'
             /\ scan'[u] = Nil => due'[u] = {} /\ done'[u] = {}
             /\ scan'[u] # Nil =>
                  /\ \A x \in due'[u] : ~Visited(scan'[u], Seat'[x])
                                        /\ Seat'[x].page < scan'[u].bound
                  /\ \A x \in done'[u] : Visited(scan'[u], Seat'[x])
  <2>1. ScanOK(u)
    BY DEF ScansOK
  <2>2. \A y \in due'[u] \cup done'[u] : y \in Settled' /\ Seat'[y] = Seat[y]
    BY <2>1 DEF ScanOK, KeptSeats
  <2>3. QED
    BY <2>1, <2>2 DEF ScanOK
<1>2. QED
  BY <1>1 DEF ScansOK, ScanOK, Visited

LEMMA SameSlotsKeepSeats ==
  ASSUME PInv, RInv, PInv', SameSlots, NEW X,
         \A t \in Writers : op'[t].tid \in {Nil, op[t].tid} \cup X
  PROVE  KeptSeats(X)
<1>1. Taken' = Taken /\ SlotOf' = SlotOf
  BY DEF SameSlots
<1>2. Given' = Given /\ Alive' = Alive
  BY <1>1, GivenTaken, PrimedGiven DEF Alive
<1>3. ASSUME NEW y \in Settled \ X
      PROVE  y \in Settled' /\ Seat'[y] = Seat[y]
  <2>1. y \in Given /\ y \in Alive /\ y # Nil /\ \A t \in Writers : op[t].tid # y
    BY SeatFacts
  <2>2. y \in Settled'
    BY <1>2, <2>1, PrimedSettled
  <2>3. QED
    BY <1>1, <2>2 DEF Seat
<1>4. QED
  BY <1>3 DEF KeptSeats

LEMMA SetSlotKeepsSeats ==
  ASSUME PInv, RInv, PInv', NEW x, NEW slot, SlotStep(x, slot), NEW X, x \notin Settled \ X,
         \A t \in Writers : op'[t].tid \in {Nil, op[t].tid} \cup X
  PROVE  KeptSeats(X)
<1>1. /\ Taken' = Taken \cup {x}
      /\ \A y \in Taken : y # x => SlotOf'[y] = SlotOf[y]
      /\ Alive' \ {x} = Alive \ {x}
  BY SlotSteps
<1>2. ASSUME NEW y \in Settled \ X
      PROVE  y \in Settled' /\ Seat'[y] = Seat[y]
  <2>1. /\ y \in Given /\ y \in Taken /\ y \in Alive /\ y # Nil /\ y # x
        /\ \A t \in Writers : op[t].tid # y
    BY SeatFacts
  <2>2. SlotOf'[y] = SlotOf[y] /\ y \in Taken' /\ y \in Alive'
    BY <1>1, <2>1
  <2>3. y \in Given'
    BY <2>1, <2>2, GivenTaken, PrimedGiven
  <2>4. y \in Settled'
    BY <2>1, <2>2, <2>3, PrimedSettled
  <2>5. QED
    BY <2>1, <2>2, <2>4 DEF Seat
<1>3. QED
  BY <1>2 DEF KeptSeats

LEMMA TouchedKept ==
  ASSUME ScansOK, NEW tid, KeptSeats({tid}), scan' = scan, Touch(tid)
  PROVE  ScansOK'
<1>1. \A u \in Readers : /\ again'[u] = again[u]
                         /\ due'[u] = due[u] \ {tid} /\ done'[u] = done[u] \ {tid}
  BY DEF Touch
<1>2. QED
  BY <1>1, ScansKept

LEMMA UntouchedKept ==
  ASSUME ScansOK, KeptSeats({}), scan' = scan, UNCHANGED ghostVars
  PROVE  ScansOK'
<1>1. \A u \in Readers : /\ again'[u] = again[u]
                         /\ due'[u] = due[u] \ {} /\ done'[u] = done[u] \ {}
  BY DEF ghostVars
<1>2. QED
  BY <1>1, ScansKept

LEMMA UpdateScans ==
  ASSUME PInv, RInv, PInv', OneWriter, ScansOK, NEW t \in Writers,
         NEW tid \in Given, NEW r \in Records, Update(t, tid, r)
  PROVE  ScansOK'
<1>1. scan' = scan /\ Touch(tid)
  BY DEF Update, UpdateHere, UpdateAway, UpdateFollow
<1>2. KeptSeats({tid})
  <2>1. CASE UpdateHere(t, tid, r)
    <3>1. op' = op => \A u \in Writers : op'[u].tid \in {Nil, op[u].tid} \cup {tid}
      OBVIOUS
    <3>2. CASE Aborted
      BY <3>1, <3>2, SamePagesSameSlots, SameSlotsKeepSeats DEF Aborted
    <3>3. CASE op' = op /\ \E slot \in SPSlots : Revised(tid, slot, r)
      BY <3>1, <3>3, SetSlotKeepsSeats DEF Revised
    <3>4. QED
      BY <2>1, <3>2, <3>3, UpdateHereEffect
  <2>2. CASE UpdateAway(t, tid, r) \/ UpdateFollow(t, tid, r)
    <3>1. pages' = pages /\ op'[t].tid = tid
      <4>1. CASE UpdateAway(t, tid, r)
        BY <4>1, PInvTypes DEF UpdateAway, BeginSearch, NoOp
      <4>2. CASE UpdateFollow(t, tid, r)
        BY <4>2, PInvTypes DEF UpdateFollow, NoOp
      <4>3. QED
        BY <2>2, <4>1, <4>2
    <3>2. \A u \in Writers : op'[u].tid \in {Nil, op[u].tid} \cup {tid}
      BY <3>1 DEF OneWriter
    <3>3. QED
      BY <3>1, <3>2, SamePagesSameSlots, SameSlotsKeepSeats
  <2>3. QED
    BY <2>1, <2>2 DEF Update
<1>3. QED
  BY <1>1, <1>2, TouchedKept

LEMMA RemoveScans ==
  ASSUME PInv, RInv, PInv', OneWriter, ScansOK, NEW t \in Writers, NEW tid \in Given,
         RemoveRecord(t, tid)
  PROVE  ScansOK'
<1>1. scan' = scan /\ Touch(tid)
  BY DEF RemoveRecord
<1>2. KeptSeats({tid})
  <2>1. op' = op => \A u \in Writers : op'[u].tid \in {Nil, op[u].tid} \cup {tid}
    OBVIOUS
  <2>2. CASE Aborted
    BY <2>1, <2>2, SamePagesSameSlots, SameSlotsKeepSeats DEF Aborted
  <2>3. CASE op' = op /\ \E slot \in SPSlots : Emptied(tid, slot)
    BY <2>1, <2>3, SetSlotKeepsSeats DEF Emptied
  <2>4. QED
    BY <2>2, <2>3, RemoveEffect
<1>3. QED
  BY <1>1, <1>2, TouchedKept

\* The steps of an insert, and those of an update after its first.
LEMMA OtherWriterScans ==
  ASSUME PInv, RInv, PInv', OneWriter, NoneGrowsShort, ScansOK, NEW t \in Writers,
         (\E r \in Records : Insert(t, r)) \/ Search(t) \/ UpdateMoved(t) \/ Redirect(t)
  PROVE  ScansOK'
<1>1. scan' = scan /\ UNCHANGED ghostVars
  BY DEF Insert, Search, SearchHit, SearchMiss, AllocatePage, InitPage, PlaceOnNew, UpdateMoved,
         Redirect
<1>2. ASSUME op'[t].tid \in {Nil, op[t].tid}
      PROVE  \A u \in Writers : op'[u].tid \in {Nil, op[u].tid} \cup {}
  BY <1>2 DEF OneWriter
<1>3. ASSUME Return(t) PROVE op'[t].tid = Nil
  BY <1>3, PInvTypes DEF Return, NoOp
<1>4. ASSUME Aborted PROVE KeptSeats({})
  BY <1>2, <1>4, SamePagesSameSlots, SameSlotsKeepSeats DEF Aborted
<1>5. KeptSeats({})
  <2>1. CASE \E r \in Records : Insert(t, r)
    <3>1. pages' = pages /\ op'[t].tid = Nil
      BY <2>1, PInvTypes DEF Insert, BeginSearch, NoOp
    <3>2. QED
      BY <1>2, <3>1, SamePagesSameSlots, SameSlotsKeepSeats
  <2>2. CASE SearchMiss(t) \/ AllocatePage(t) \/ InitPage(t)
    <3>1. SameSlots /\ \E label, o : Searches(t, label, o)
      BY <2>2, SearchSteps
    <3>2. PICK label, o : op' = [op EXCEPT ![t] = o] /\ o.tid = op[t].tid
      BY <3>1 DEF Searches
    <3>3. op'[t].tid = op[t].tid
      BY <3>2, PInvTypes
    <3>4. QED
      BY <1>2, <3>1, <3>3, SameSlotsKeepSeats
  <2>3. CASE SearchHit(t) \/ PlaceOnNew(t)
    <3>1. pc[t] # "idle" /\ op[t].page \in PageIds /\ Place(t, op[t].page)
      BY <2>3, SearchPageId DEF SearchHit, PlaceOnNew
    <3>2. ASSUME NEW x \in TIDs, NEW slot \in SPSlots, Placed(t, x, slot)
          PROVE  KeptSeats({})
      <4>1. x \notin Taken /\ SlotStep(x, slot)
        BY <3>2 DEF Placed, Inserted
      <4>2. x \notin Settled \ {}
        BY <4>1, SeatFacts
      <4>3. op'[t].tid \in {Nil, op[t].tid}
        <5>1. op'[t] = [op[t] EXCEPT !.target = x] \/ Return(t)
          BY <3>2, PInvTypes DEF Placed
        <5>2. op[t] \in Ops
          BY PInvTypes
        <5>3. [op[t] EXCEPT !.target = x].tid = op[t].tid
          BY <5>2 DEF Ops
        <5>4. QED
          BY <1>3, <5>1, <5>3
      <4>4. QED
        BY <1>2, <4>1, <4>2, <4>3, SetSlotKeepsSeats
    <3>3. QED
      BY <1>4, <3>1, <3>2, PlaceEffect
  <2>4. CASE UpdateMoved(t)
    <3>1. op[t].target \in Places /\ op[t].target \notin Settled \ {}
      BY <2>4, UpdateMovedEffect, SettledIs, RFacts
    <3>2. ASSUME Return(t), NEW slot \in SPSlots, Revised(op[t].target, slot, op[t].record)
          PROVE  KeptSeats({})
      BY <1>2, <1>3, <3>1, <3>2, SetSlotKeepsSeats DEF Revised
    <3>3. ASSUME BeginSearch(t, op[t]), NEW slot \in SPSlots, Emptied(op[t].target, slot)
          PROVE  KeptSeats({})
      <4>1. op'[t].tid = op[t].tid
        BY <3>3, PInvTypes DEF BeginSearch, Ops
      <4>2. QED
        BY <1>2, <3>1, <3>3, <4>1, SetSlotKeepsSeats DEF Emptied
    <3>4. QED
      BY <1>4, <2>4, <3>2, <3>3, UpdateMovedEffect
  <2>5. CASE Redirect(t)
    <3>1. op[t].tid \notin Settled \ {}
      BY SeatFacts
    <3>2. ASSUME Return(t), NEW slot \in SPSlots, Linked(op[t].tid, slot, op[t].target)
          PROVE  KeptSeats({})
      BY <1>2, <1>3, <3>1, <3>2, SetSlotKeepsSeats DEF Linked
    <3>3. QED
      BY <1>4, <2>5, <3>2, RedirectEffect
  <2>6. QED
    BY <2>1, <2>2, <2>3, <2>4, <2>5 DEF Search
<1>6. QED
  BY <1>1, <1>5, UntouchedKept

LEMMA LookupScans ==
  ASSUME PInv, RInv, PInv', ScansOK, NEW u \in Readers,
         (\E tid \in Given : LookupFollow(u, tid)) \/ LookupMoved(u)
  PROVE  ScansOK'
<1>1. /\ scan' = scan /\ UNCHANGED ghostVars /\ pages' = pages
  BY DEF LookupFollow, LookupMoved, Abort
<1>2. \A t \in Writers : op'[t] = op[t]
  BY PInvTypes DEF LookupFollow, LookupMoved, Abort, Return
<1>3. \A t \in Writers : op'[t].tid \in {Nil, op[t].tid} \cup {}
  BY <1>2
<1>4. KeptSeats({})
  BY <1>1, <1>3, SamePagesSameSlots, SameSlotsKeepSeats
<1>5. QED
  BY <1>1, <1>4, UntouchedKept

\* A step of one iterator, which goes on from `it` with the TIDs ahead of it and behind it.
LEMMA IteratorStep ==
  ASSUME PInv, PInv', ScansOK, NEW u \in Readers, NEW it, NEW ahead, NEW behind,
         scan' = [scan EXCEPT ![u] = it], UNCHANGED <<running, pages, size, pc, op>>,
         due' = [due EXCEPT ![u] = ahead], done' = [done EXCEPT ![u] = behind],
         again' = [again EXCEPT ![u] = {}], ahead \subseteq Settled, behind \subseteq Settled,
         it = Nil => ahead = {} /\ behind = {},
         it # Nil => \A x \in ahead : ~Visited(it, Seat[x]) /\ Seat[x].page < it.bound,
         it # Nil => \A x \in behind : Visited(it, Seat[x])
  PROVE  ScansOK'
<1>1. Taken' = Taken /\ SlotOf' = SlotOf
  BY SamePagesSameSlots DEF SameSlots
<1>2. Settled' = Settled /\ Seat' = Seat
  <2>1. Given' = Given /\ Alive' = Alive
    BY <1>1, GivenTaken, PrimedGiven DEF Alive
  <2>2. QED
    BY <1>1, <2>1, SettledIs, PrimedSettled DEF Seat
<1>3. ASSUME NEW v \in Readers
      PROVE  /\ again'[v] = {}
             /\ due'[v] \subseteq Settled /\ done'[v] \subseteq Settled
             /\ scan'[v] = Nil => due'[v] = {} /\ done'[v] = {}
             /\ scan'[v] # Nil =>
                  /\ \A x \in due'[v] : ~Visited(scan'[v], Seat[x])
                                        /\ Seat[x].page < scan'[v].bound
                  /\ \A x \in done'[v] : Visited(scan'[v], Seat[x])
  <2>1. CASE v = u
    <3>1. scan'[v] = it /\ due'[v] = ahead /\ done'[v] = behind /\ again'[v] = {}
      BY <2>1, PInvTypes
    <3>2. QED
      BY <3>1
  <2>2. CASE v # u
    <3>1. scan'[v] = scan[v] /\ due'[v] = due[v] /\ done'[v] = done[v] /\ again'[v] = again[v]
      BY <2>2, PInvTypes
    <3>2. ScanOK(v)
      BY DEF ScansOK
    <3>3. QED
      BY <3>1, <3>2 DEF ScanOK
  <2>3. QED
    BY <2>1, <2>2
<1>4. QED
  BY <1>2, <1>3 DEF ScansOK, ScanOK, Visited

LEMMA TakenInSegment ==
  ASSUME PInv, NEW x \in Taken
  PROVE  x.page < size
<1>1. x.page \in PageIds /\ x.slot \in Nat /\ x.slot < Len(pages[x.page].slots)
  BY TakenPage
<1>2. pages[x.page] # ZeroPage
  BY <1>1 DEF ZeroPage
<1>3. ~(x.page >= size)
  BY <1>1, <1>2 DEF PInv, PagesOK
<1>4. QED
  BY <1>1, <1>3, PInvTypes DEF PageIds

\* The slots ahead on the page.
LEMMA AheadIs ==
  ASSUME PInv, NEW u \in Readers, scan[u] # Nil, scan[u].fixed, NEW i \in SlotIds
  PROVE  /\ [page |-> scan[u].page, slot |-> i] \in TIDs
         /\ i \in Ahead(u) <=>
              /\ i > scan[u].slot
              /\ [page |-> scan[u].page, slot |-> i] \in Alive
              /\ SlotOf[[page |-> scan[u].page, slot |-> i]].onPage
<1>1. /\ scan[u].page \in Nat /\ scan[u].bound \in Nat /\ size \in Nat /\ MaxPages \in Nat
      /\ scan[u].page < scan[u].bound /\ scan[u].bound <= size /\ size <= MaxPages
  BY IteratorFields, PInvTypes
<1>2. PICK p \in PageIds : p = scan[u].page
  BY <1>1 DEF PageIds
<1>3. PICK x \in TIDs : x = [page |-> p, slot |-> i]
  BY DEF TIDs
<1>4. x.page = p /\ x.slot = i
  BY <1>3
<1>5. x \in Taken <=> i < Len(pages[p].slots)
  BY <1>4 DEF Taken, HasSlot
<1>6. x \in Taken => SlotOf[x] = pages[p].slots[i + 1]
  BY <1>4 DEF SlotOf, Slot
<1>7. i \in Ahead(u) <=> /\ i > scan[u].slot /\ i < Len(pages[p].slots)
                         /\ ~IsFree(pages[p].slots[i + 1]) /\ pages[p].slots[i + 1].onPage
  BY <1>2 DEF Ahead
<1>8. i \in Ahead(u) <=> i > scan[u].slot /\ x \in Alive /\ SlotOf[x].onPage
  BY <1>5, <1>6, <1>7 DEF Alive
<1>9. QED
  BY <1>2, <1>3, <1>8

LEMMA BeginScanOK ==
  ASSUME PInv, RInv, PInv', ScansOK, NEW u \in Readers, BeginScan(u)
  PROVE  ScansOK'
<1>1. ScanOK(u)
  BY DEF ScansOK
<1>2. PICK it : it = [page |-> 0, slot |-> -1, bound |-> size, fixed |-> TRUE]
  OBVIOUS
<1>3. /\ scan' = [scan EXCEPT ![u] = it] /\ UNCHANGED <<running, pages, size, pc, op>>
      /\ due' = [due EXCEPT ![u] = Settled] /\ done' = done /\ again' = again /\ scan[u] = Nil
  BY <1>2 DEF BeginScan
<1>4. done[u] = {} /\ again[u] = {}
  BY <1>1, <1>3 DEF ScanOK
<1>5. done' = [done EXCEPT ![u] = {}] /\ again' = [again EXCEPT ![u] = {}]
  BY <1>3, <1>4, PInvTypes
<1>6. it # Nil
  <2>1. it \in Iterators
    BY <1>2, PInvTypes DEF Iterators
  <2>2. QED
    BY <2>1, IteratorsAssumption
<1>7. ASSUME NEW x \in Settled
      PROVE  ~Visited(it, Seat[x]) /\ Seat[x].page < it.bound
  <2>1. PICK y \in Taken : y = Seat[x]
    BY SeatFacts
  <2>2. y.page \in Nat /\ y.slot \in Nat /\ y.page < size
    BY TakenInSegment, TakenPage DEF PageIds
  <2>3. it.page = 0 /\ it.slot = -1 /\ it.bound = size
    BY <1>2
  <2>4. ~Visited(it, y)
    BY <2>2, <2>3 DEF Visited
  <2>5. QED
    BY <2>1, <2>2, <2>3, <2>4
<1>8. PICK ahead : ahead = Settled
  OBVIOUS
<1>9. QED
  BY <1>3, <1>5, <1>6, <1>7, <1>8, IteratorStep

LEMMA ScanNextOK ==
  ASSUME PInv, RInv, PInv', ScansOK, NEW u \in Readers, ScanNext(u)
  PROVE  ScansOK'
<1>1. scan[u] # Nil /\ scan[u].fixed /\ Ahead(u) # {} /\ UNCHANGED <<running, pages, size, pc, op>>
  BY DEF ScanNext
<1>2. PICK old \in Iterators : old = scan[u]
  BY <1>1, IteratorFields
<1>3. PICK i \in SlotIds : i = Min(Ahead(u))
  BY <1>1, AheadMin DEF Ahead
<1>4. /\ old.page \in PageIds /\ old.bound \in Nat /\ old.page < old.bound /\ old.slot \in Int
      /\ i \in Nat /\ old.page \in Nat
  <2>1. /\ old.page \in Nat /\ old.bound \in Nat /\ old.slot \in Int
        /\ old.page < old.bound /\ old.bound <= size /\ size <= MaxPages
    BY <1>1, <1>2, IteratorFields
  <2>2. MaxPages \in Nat /\ size \in Nat
    BY PInvTypes
  <2>3. old.page \in PageIds
    BY <2>1, <2>2 DEF PageIds
  <2>4. QED
    BY <2>1, <2>3 DEF SlotIds
<1>5. PICK x \in TIDs : x = [page |-> old.page, slot |-> i]
  BY <1>4 DEF TIDs
<1>6. /\ x.page = old.page /\ x.slot = i /\ i > old.slot /\ x \in Alive /\ SlotOf[x].onPage
      /\ Slot(x) = pages[old.page].slots[i + 1] /\ x \in Taken /\ SlotOf[x] = Slot(x)
  <2>1. i \in Ahead(u)
    BY <1>1, <1>3, AheadMin
  <2>2. x \in Alive /\ SlotOf[x].onPage /\ i > old.slot
    BY <1>1, <1>2, <1>5, <2>1, AheadIs
  <2>3. x \in Taken
    BY <2>2 DEF Alive
  <2>4. QED
    BY <1>5, <2>2, <2>3 DEF Slot, SlotOf
<1>7. PICK tid : tid = IF SlotOf[x].redirected THEN SlotOf[x].original ELSE x
  OBVIOUS
<1>8. PICK it \in Iterators : it = [old EXCEPT !.slot = i]
  BY <1>2 DEF Iterators
<1>9. it.page = old.page /\ it.slot = i /\ it.bound = old.bound /\ it # Nil
  BY <1>2, <1>8, IteratorsAssumption DEF Iterators
<1>10. /\ scan' = [scan EXCEPT ![u] = it]
       /\ due' = [due EXCEPT ![u] = due[u] \ {tid}]
       /\ done' = [done EXCEPT ![u] = IF tid \in due[u] THEN done[u] \cup {tid} ELSE done[u]]
       /\ again' = [again EXCEPT ![u] = IF tid \in done[u] THEN again[u] \cup {tid} ELSE again[u]]
  BY <1>2, <1>3, <1>5, <1>6, <1>7, <1>8 DEF ScanNext
<1>11. /\ again[u] = {} /\ due[u] \subseteq Settled /\ done[u] \subseteq Settled
       /\ \A y \in due[u] : ~Visited(old, Seat[y]) /\ Seat[y].page < old.bound
       /\ \A y \in done[u] : Visited(old, Seat[y])
  BY <1>1, <1>2 DEF ScansOK, ScanOK
<1>12. ASSUME tid \in Settled PROVE Seat[tid] = x
  BY <1>6, <1>7, <1>12, SeatOfRecord
<1>13. tid \notin done[u]
  <2>1. SUFFICES ASSUME tid \in done[u] PROVE FALSE
    OBVIOUS
  <2>2. Seat[tid] = x /\ Visited(old, Seat[tid])
    BY <1>11, <1>12, <2>1
  <2>3. Visited(old, x)
    BY <2>2
  <2>4. x.page = old.page /\ x.slot = i /\ i > old.slot
    BY <1>6
  <2>5. x.page < old.page \/ x.slot <= old.slot
    BY <2>3 DEF Visited
  <2>6. old.page \in Nat /\ old.slot \in Int /\ i \in Int
    BY <1>3, <1>4
  <2>7. old.page < old.page \/ i <= old.slot
    BY <2>4, <2>5
  <2>8. QED
    BY <2>4, <2>6, <2>7
<1>14. again' = [again EXCEPT ![u] = {}]
  BY <1>10, <1>11, <1>13
<1>15. ASSUME NEW y \in due[u] \ {tid}
       PROVE  ~Visited(it, Seat[y]) /\ Seat[y].page < it.bound
  <2>1. PICK z \in Taken : z = Seat[y]
    BY <1>11, SeatFacts
  <2>2. z \in Alive /\ SlotOf[z].onPage /\ z # x
    BY <1>7, <1>11, <1>15, <2>1, SeatFacts
  <2>3. /\ z \in TIDs /\ z.page \in Nat /\ z.slot \in Nat /\ z.slot \in SlotIds
        /\ z = [page |-> z.page, slot |-> z.slot]
    BY TakenPage DEF Taken, TIDs, PageIds
  <2>4. ~Visited(old, z) /\ z.page < old.bound
    BY <1>11, <2>1
  <2>5. ~Visited(it, z)
    <3>1. CASE z.page # old.page
      BY <1>4, <1>9, <2>3, <2>4, <3>1 DEF Visited
    <3>2. CASE z.page = old.page
      <4>1. z.slot > old.slot
        BY <1>4, <2>3, <2>4, <3>2 DEF Visited
      <4>2. z.slot \in Ahead(u)
        BY <1>1, <1>2, <2>2, <2>3, <3>2, <4>1, AheadIs
      <4>3. i <= z.slot
        BY <1>1, <1>3, <4>2, AheadMin
      <4>4. z.slot # i
        BY <1>5, <2>2, <2>3, <3>2
      <4>5. QED
        BY <1>4, <1>9, <2>3, <3>2, <4>3, <4>4 DEF Visited
    <3>3. QED
      BY <3>1, <3>2
  <2>6. QED
    BY <1>9, <2>1, <2>4, <2>5
<1>16. ASSUME NEW y \in Settled, y \in done[u] \/ y = tid
       PROVE  Visited(it, Seat[y])
  <2>1. PICK z \in Taken : z = Seat[y]
    BY SeatFacts
  <2>2. z.page \in Nat /\ z.slot \in Nat
    BY TakenPage DEF PageIds
  <2>3. CASE y = tid
    <3>1. Seat[y] = x
      BY <1>12, <2>3
    <3>2. Visited(it, x)
      BY <1>4, <1>6, <1>9 DEF Visited
    <3>3. QED
      BY <3>1, <3>2
  <2>4. CASE y \in done[u]
    <3>1. Visited(old, z)
      BY <1>11, <2>1, <2>4
    <3>2. Visited(it, z)
      BY <1>4, <1>6, <1>9, <2>2, <3>1 DEF Visited
    <3>3. QED
      BY <2>1, <3>2
  <2>5. QED
    BY <1>16, <2>3, <2>4
<1>17. PICK ahead : ahead = due[u] \ {tid}
  OBVIOUS
<1>18. PICK behind : behind = IF tid \in due[u] THEN done[u] \cup {tid} ELSE done[u]
  OBVIOUS
<1>19. ahead \subseteq Settled /\ behind \subseteq Settled
  BY <1>11, <1>17, <1>18
<1>20. /\ \A y \in ahead : ~Visited(it, Seat[y]) /\ Seat[y].page < it.bound
       /\ \A y \in behind : Visited(it, Seat[y])
  BY <1>15, <1>16, <1>17, <1>18, <1>19
<1>21. /\ due' = [due EXCEPT ![u] = ahead] /\ done' = [done EXCEPT ![u] = behind]
       /\ scan' = [scan EXCEPT ![u] = it]
  BY <1>10, <1>17, <1>18
<1>22. QED
  BY <1>1, <1>9, <1>14, <1>19, <1>20, <1>21, IteratorStep

LEMMA ScanUnfixOK ==
  ASSUME PInv, RInv, PInv', ScansOK, NEW u \in Readers, ScanUnfix(u)
  PROVE  ScansOK'
<1>1. /\ scan[u] # Nil /\ scan[u].fixed /\ Ahead(u) = {}
      /\ UNCHANGED <<running, pages, size, pc, op, due, done, again>>
  BY DEF ScanUnfix, ghostVars
<1>2. PICK old \in Iterators : old = scan[u]
  BY <1>1, IteratorFields
<1>3. /\ old.page \in Nat /\ old.bound \in Nat /\ old.page < old.bound /\ old.slot \in Int
      /\ old.bound <= MaxPages /\ MaxPages \in Nat
  BY <1>1, <1>2, IteratorFields, PInvTypes
<1>4. PICK it \in Iterators : it = [old EXCEPT !.page = old.page + 1, !.slot = -1, !.fixed = FALSE]
  <2>1. old.page + 1 \in 0 .. MaxPages
    BY <1>3
  <2>2. QED
    BY <1>2, <2>1 DEF Iterators
<1>5. it.page = old.page + 1 /\ it.slot = -1 /\ it.bound = old.bound /\ it # Nil
  BY <1>2, <1>4, IteratorsAssumption DEF Iterators
<1>6. scan' = [scan EXCEPT ![u] = it]
  BY <1>2, <1>4, PInvTypes DEF ScanUnfix
<1>7. /\ again[u] = {} /\ due[u] \subseteq Settled /\ done[u] \subseteq Settled
      /\ \A y \in due[u] : ~Visited(old, Seat[y]) /\ Seat[y].page < old.bound
      /\ \A y \in done[u] : Visited(old, Seat[y])
  BY <1>1, <1>2 DEF ScansOK, ScanOK
<1>8. /\ due' = [due EXCEPT ![u] = due[u]] /\ done' = [done EXCEPT ![u] = done[u]]
      /\ again' = [again EXCEPT ![u] = {}]
  BY <1>1, <1>7, PInvTypes
<1>9. ASSUME NEW y \in due[u]
      PROVE  ~Visited(it, Seat[y]) /\ Seat[y].page < it.bound
  <2>1. PICK z \in Taken : z = Seat[y]
    BY <1>7, SeatFacts
  <2>2. z \in Alive /\ SlotOf[z].onPage
    BY <1>7, <2>1, SeatFacts
  <2>3. z.page \in Nat /\ z.slot \in SlotIds /\ z = [page |-> z.page, slot |-> z.slot]
        /\ SlotIds \subseteq Nat
    BY TakenPage DEF Taken, TIDs, PageIds, SlotIds
  <2>4. ~Visited(old, z) /\ z.page < old.bound
    BY <1>7, <2>1
  <2>5. z.page # old.page
    <3>1. SUFFICES ASSUME z.page = old.page PROVE FALSE
      OBVIOUS
    <3>2. z.slot > old.slot
      BY <1>3, <2>3, <2>4, <3>1 DEF Visited
    <3>3. z.slot \in Ahead(u)
      BY <1>1, <1>2, <2>2, <2>3, <3>1, <3>2, AheadIs
    <3>4. QED
      BY <1>1, <3>3
  <2>6. ~Visited(it, z)
    BY <1>3, <1>5, <2>3, <2>4, <2>5 DEF Visited
  <2>7. QED
    BY <1>5, <2>1, <2>4, <2>6
<1>10. ASSUME NEW y \in done[u]
       PROVE  Visited(it, Seat[y])
  <2>1. PICK z \in Taken : z = Seat[y]
    BY <1>7, SeatFacts
  <2>2. z.page \in Nat /\ z.slot \in Nat
    BY TakenPage DEF PageIds
  <2>3. Visited(old, z)
    BY <1>7, <2>1
  <2>4. QED
    BY <1>3, <1>5, <2>1, <2>2, <2>3 DEF Visited
<1>11. PICK ahead, behind : ahead = due[u] /\ behind = done[u]
  OBVIOUS
<1>12. QED
  BY <1>1, <1>5, <1>6, <1>7, <1>8, <1>9, <1>10, <1>11, IteratorStep

LEMMA ScanFixOK ==
  ASSUME PInv, RInv, PInv', ScansOK, NEW u \in Readers, ScanFix(u)
  PROVE  ScansOK'
<1>1. scan[u] # Nil /\ UNCHANGED <<running, pages, size, pc, op, due, done, again>>
  BY DEF ScanFix, ghostVars
<1>2. PICK old \in Iterators : old = scan[u]
  BY <1>1, IteratorFields
<1>3. PICK it \in Iterators : it = [old EXCEPT !.fixed = TRUE]
  BY <1>2 DEF Iterators
<1>4. it.page = old.page /\ it.slot = old.slot /\ it.bound = old.bound /\ it # Nil
  BY <1>2, <1>3, IteratorsAssumption DEF Iterators
<1>5. scan' = [scan EXCEPT ![u] = it]
  BY <1>2, <1>3, PInvTypes DEF ScanFix
<1>6. /\ again[u] = {} /\ due[u] \subseteq Settled /\ done[u] \subseteq Settled
      /\ \A y \in due[u] : ~Visited(old, Seat[y]) /\ Seat[y].page < old.bound
      /\ \A y \in done[u] : Visited(old, Seat[y])
  BY <1>1, <1>2 DEF ScansOK, ScanOK
<1>7. /\ due' = [due EXCEPT ![u] = due[u]] /\ done' = [done EXCEPT ![u] = done[u]]
      /\ again' = [again EXCEPT ![u] = {}]
  BY <1>1, <1>6, PInvTypes
<1>8. /\ \A y \in due[u] : ~Visited(it, Seat[y]) /\ Seat[y].page < it.bound
      /\ \A y \in done[u] : Visited(it, Seat[y])
  BY <1>4, <1>6 DEF Visited
<1>9. PICK ahead, behind : ahead = due[u] /\ behind = done[u]
  OBVIOUS
<1>10. QED
  BY <1>1, <1>4, <1>5, <1>6, <1>7, <1>8, <1>9, IteratorStep

LEMMA EndScanOK ==
  ASSUME PInv, RInv, PInv', ScansOK, NEW u \in Readers, EndScan(u)
  PROVE  ScansOK'
<1>1. /\ scan' = [scan EXCEPT ![u] = Nil] /\ UNCHANGED <<running, pages, size, pc, op>>
      /\ due' = [due EXCEPT ![u] = {}] /\ done' = [done EXCEPT ![u] = {}]
      /\ again' = [again EXCEPT ![u] = {}]
  BY DEF EndScan
<1>2. PICK it : it = Nil
  OBVIOUS
<1>3. PICK ahead, behind : ahead = {} /\ behind = {}
  OBVIOUS
<1>4. /\ scan' = [scan EXCEPT ![u] = it] /\ due' = [due EXCEPT ![u] = ahead]
      /\ done' = [done EXCEPT ![u] = behind]
  BY <1>1, <1>2, <1>3
<1>5. ahead \subseteq Settled /\ behind \subseteq Settled
  BY <1>3
<1>6. /\ UNCHANGED <<running, pages, size, pc, op>> /\ again' = [again EXCEPT ![u] = {}]
      /\ it = Nil /\ ahead = {} /\ behind = {}
  BY <1>1, <1>2, <1>3
<1>7. QED
  BY <1>4, <1>5, <1>6, IteratorStep

LEMMA ScansStep ==
  ASSUME OneWriter, NoneGrowsShort, PInv, RInv, ScansOK, [Next]_vars
  PROVE  ScansOK'
<1>1. PInv'
  BY PInvStep
<1>2. CASE \E t \in Writers :
             \/ \E r \in Records : Insert(t, r) \/ \E tid \in Given : Update(t, tid, r)
             \/ \E tid \in Given : RemoveRecord(t, tid)
             \/ Search(t) \/ UpdateMoved(t) \/ Redirect(t)
  <2>1. PICK t \in Writers :
             \/ \E r \in Records : Insert(t, r) \/ \E tid \in Given : Update(t, tid, r)
             \/ \E tid \in Given : RemoveRecord(t, tid)
             \/ Search(t) \/ UpdateMoved(t) \/ Redirect(t)
    BY <1>2
  <2>2. CASE \E r \in Records, tid \in Given : Update(t, tid, r)
    BY <1>1, <2>2, UpdateScans
  <2>3. CASE \E tid \in Given : RemoveRecord(t, tid)
    BY <1>1, <2>3, RemoveScans
  <2>4. CASE (\E r \in Records : Insert(t, r)) \/ Search(t) \/ UpdateMoved(t) \/ Redirect(t)
    BY <1>1, <2>4, OtherWriterScans
  <2>5. QED
    BY <2>1, <2>2, <2>3, <2>4
<1>3. CASE \E u \in Readers :
             \/ \E tid \in Given : LookupFollow(u, tid)
             \/ LookupMoved(u)
             \/ Scan(u)
  <2>1. PICK u \in Readers : \/ \E tid \in Given : LookupFollow(u, tid)
                             \/ LookupMoved(u)
                             \/ Scan(u)
    BY <1>3
  <2>2. CASE (\E tid \in Given : LookupFollow(u, tid)) \/ LookupMoved(u)
    BY <1>1, <2>2, LookupScans
  <2>3. CASE Scan(u)
    BY <1>1, <2>3, BeginScanOK, ScanNextOK, ScanUnfixOK, ScanFixOK, EndScanOK DEF Scan
  <2>4. QED
    BY <2>1, <2>2, <2>3
<1>4. CASE UNCHANGED vars
  <2>1. /\ UNCHANGED <<running, pages, size, pc, op, scan, due, done, again>>
    BY <1>4 DEF vars
  <2>2. \A t \in Writers : op'[t].tid \in {Nil, op[t].tid} \cup {}
    BY <2>1
  <2>3. KeptSeats({})
    BY <1>1, <2>1, <2>2, SamePagesSameSlots, SameSlotsKeepSeats
  <2>4. QED
    BY <2>1, <2>3, UntouchedKept DEF ghostVars
<1>5. QED
  BY <1>2, <1>3, <1>4 DEF Next

LEMMA ScansInit ==
  ASSUME Init
  PROVE  ScansOK
<1>1. \A u \in Readers : scan[u] = Nil /\ due[u] = {} /\ done[u] = {} /\ again[u] = {}
  BY DEF Init
<1>2. QED
  BY <1>1 DEF ScansOK, ScanOK

\* The iterator (SPIterator.cpp) has behind it what it has come to and ahead of it what it
\* has still to come to, whatever the writer does to other records meanwhile.
THEOREM ScansInductive ==
  ASSUME OneWriter
  PROVE  Spec /\ []NoneGrowsShort => [](PInv /\ RInv /\ ScansOK)
<1>1. Init => PInv /\ RInv /\ ScansOK
  BY PInvInit, RInvInit, ScansInit
<1>2. PInv /\ RInv /\ ScansOK /\ NoneGrowsShort /\ [Next]_vars => PInv' /\ RInv' /\ ScansOK'
  BY PInvStep, RInvStep, ScansStep
<1>3. QED
  BY <1>1, <1>2, PTL DEF Spec

\* A scan (SPIterator.cpp) comes to a record that is left alone from its start to its end
\* exactly once, by its TID, also if it has moved; and it misses none.
THEOREM ScansAlwaysExact ==
  ASSUME OneWriter
  PROVE  Spec /\ []NoneGrowsShort => []ScansAreExact
<1>1. PInv /\ RInv /\ ScansOK => ScansAreExact
  <2>1. SUFFICES ASSUME PInv, RInv, ScansOK, NEW u \in Readers
                 PROVE  /\ again[u] = {}
                        /\ scan[u] # Nil /\ scan[u].page = scan[u].bound => due[u] = {}
    BY DEF ScansAreExact
  <2>2. ScanOK(u)
    BY <2>1 DEF ScansOK
  <2>3. ASSUME scan[u] # Nil, scan[u].page = scan[u].bound, NEW x \in due[u]
        PROVE  FALSE
    <3>1. ~Visited(scan[u], Seat[x]) /\ Seat[x].page < scan[u].bound
      BY <2>2, <2>3 DEF ScanOK
    <3>2. QED
      BY <2>3, <3>1 DEF Visited
  <2>4. QED
    BY <2>2, <2>3 DEF ScanOK
<1>2. QED
  BY <1>1, ScansInductive, PTL
=============================================================================
