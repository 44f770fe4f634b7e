----------------------------- MODULE RecordStore ----------------------------
(***************************************************************************)
(* What a slotted pages segment promises: a record is stored under a TID   *)
(* that no record had before, and the TID leads to its last value until it *)
(* is removed, wherever the segment moves it.  An insert or an update may  *)
(* take several steps; when it returns, the record is the one asked for.   *)
(***************************************************************************)
CONSTANTS Threads, TIDs, Records, Nil

VARIABLES record,  \* the record of each TID, or Nil
          given,   \* the TIDs that insert has returned
          call     \* what each thread is inserting (tid is Nil) or updating, or Nil

storeVars == <<record, given, call>>

Init ==
  /\ record = [tid \in TIDs |-> Nil]
  /\ given = {}
  /\ call = [t \in Threads |-> Nil]

Begin(t, tid, r) ==
  /\ call[t] = Nil
  /\ tid = Nil \/ record[tid] # Nil
  /\ call' = [call EXCEPT ![t] = [tid |-> tid, record |-> r]]
  /\ UNCHANGED <<record, given>>

\* An update takes effect before it returns.
Effect(t) ==
  /\ call[t] # Nil /\ call[t].tid # Nil
  /\ record' = [record EXCEPT ![call[t].tid] = call[t].record]
  /\ UNCHANGED <<given, call>>

ReturnUpdate(t) ==
  /\ call[t] # Nil /\ call[t].tid # Nil
  /\ record' = [record EXCEPT ![call[t].tid] = call[t].record]
  /\ call' = [call EXCEPT ![t] = Nil]
  /\ UNCHANGED given

ReturnInsert(t, tid) ==
  /\ call[t] # Nil /\ call[t].tid = Nil
  /\ tid \notin given
  /\ given' = given \cup {tid}
  /\ record' = [record EXCEPT ![tid] = call[t].record]
  /\ call' = [call EXCEPT ![t] = Nil]

\* In one step, from the call to the return.
Update(t, tid, r) ==
  /\ call[t] = Nil
  /\ record[tid] # Nil
  /\ record' = [record EXCEPT ![tid] = r]
  /\ UNCHANGED <<given, call>>

Remove(t, tid) ==
  /\ call[t] = Nil
  /\ record[tid] # Nil
  /\ record' = [record EXCEPT ![tid] = Nil]
  /\ UNCHANGED <<given, call>>

Next ==
  \E t \in Threads :
    \/ Effect(t) \/ ReturnUpdate(t)
    \/ \E r \in Records : Begin(t, Nil, r)
    \/ \E tid \in TIDs :
         \/ ReturnInsert(t, tid) \/ Remove(t, tid)
         \/ \E r \in Records : Begin(t, tid, r) \/ Update(t, tid, r)

Spec == Init /\ [][Next]_storeVars
=============================================================================
