------------------------------ MODULE PageStore -----------------------------
(***************************************************************************)
(* What the buffer manager promises its users (BufferManager.hpp): a page  *)
(* is fixed by one writer or by any number of readers; whoever fixes it    *)
(* sees the last value written to it; a value, once written, survives      *)
(* eviction and a restart of the buffer manager.                           *)
(*                                                                         *)
(* A page's value is the page it belongs to and the number of writes to    *)
(* it, the counter that buffertest keeps in the first word of each page.   *)
(***************************************************************************)
EXTENDS Naturals

CONSTANTS Threads, Pages, MaxWrites

VARIABLES content,  \* the value of each page
          readers,  \* threads that have the page fixed for reading
          writers   \* threads that have the page fixed for writing

storeVars == <<content, readers, writers>>

Init ==
  /\ content = [p \in Pages |-> <<p, 0>>]
  /\ readers = [p \in Pages |-> {}]
  /\ writers = [p \in Pages |-> {}]

\* fixPage returns.
FixShared(t, p) ==
  /\ writers[p] = {}
  /\ readers' = [readers EXCEPT ![p] = @ \cup {t}]
  /\ UNCHANGED <<content, writers>>

FixExclusive(t, p) ==
  /\ writers[p] = {} /\ readers[p] = {}
  /\ writers' = [writers EXCEPT ![p] = {t}]
  /\ UNCHANGED <<content, readers>>

Write(t, p) ==
  /\ writers[p] = {t}
  /\ content[p][2] < MaxWrites
  /\ content' = [content EXCEPT ![p][2] = @ + 1]
  /\ UNCHANGED <<readers, writers>>

Unfix(t, p) ==
  /\ t \in readers[p] \cup writers[p]
  /\ readers' = [readers EXCEPT ![p] = @ \ {t}]
  /\ writers' = [writers EXCEPT ![p] = @ \ {t}]
  /\ UNCHANGED content

Next == \E t \in Threads, p \in Pages :
          FixShared(t, p) \/ FixExclusive(t, p) \/ Write(t, p) \/ Unfix(t, p)

Spec == Init /\ [][Next]_storeVars
=============================================================================
