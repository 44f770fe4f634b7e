---------------------------- MODULE SegmentStore ----------------------------
(***************************************************************************)
(* What the segment manager promises (SegmentManager.hpp): segments are    *)
(* created, with no pages, grow and are removed; a segment grows to the    *)
(* size asked for and by no more than the growth factor beyond it.         *)
(***************************************************************************)
EXTENDS Naturals

CONSTANTS Segments, Sizes, Nil

VARIABLE size  \* the number of pages of each segment, Nil if there is no such segment

Init == size = [s \in Segments |-> Nil]

Create(s) == size[s] = Nil /\ size' = [size EXCEPT ![s] = 0]

Allocate(s, min) ==
  /\ size[s] # Nil
  /\ size[s] < min
  /\ \E n \in min .. (5 * min) \div 4 : size' = [size EXCEPT ![s] = n]

Remove(s) == size[s] # Nil /\ size' = [size EXCEPT ![s] = Nil]

Next == \E s \in Segments :
          Create(s) \/ Remove(s) \/ \E min \in Sizes : Allocate(s, min)

Spec == Init /\ [][Next]_size
=============================================================================
