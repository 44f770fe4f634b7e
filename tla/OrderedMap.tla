----------------------------- MODULE OrderedMap -----------------------------
(***************************************************************************)
(* What the B+ tree promises (BPlusTree.hpp): a map from keys to values    *)
(* whose insert, erase and lookup take effect at one moment between their  *)
(* call and their return.  A scan is not a moment: it returns entries in   *)
(* the order of their keys, only entries that are in the map when it comes *)
(* to them, and every entry that is there from its start to its end.       *)
(***************************************************************************)
EXTENDS Naturals

CONSTANTS Threads,
          Keys,
          Default,  \* what lookup returns for a key that is not there
          Nil

VARIABLES map,   \* the value of each key, or Nil
          call   \* what each thread has called, or Nil

mapVars == <<map, call>>

\* last: the entry a scan came to last; count: how many it has come to; owed: the keys
\* it must come to, because they have been there since it started.
NewCall(kind, key, value) ==
  [kind |-> kind, key |-> key, value |-> value, returns |-> FALSE, result |-> Nil,
   last |-> Nil, count |-> 0,
   owed |-> {k \in Keys : map[k] # Nil /\ (kind = "size" \/ (kind = "range" /\ k >= key))}]

Init ==
  /\ map = [k \in Keys |-> Nil]
  /\ call = [t \in Threads |-> Nil]

Call(t, kind, key, value) ==
  /\ call[t] = Nil
  /\ call' = [call EXCEPT ![t] = NewCall(kind, key, value)]
  /\ UNCHANGED map

Calls(t, kind) == call[t] # Nil /\ ~call[t].returns /\ call[t].kind = kind

Scans(t) == Calls(t, "range") \/ Calls(t, "size")

Complete(c, result) == [c EXCEPT !.returns = TRUE, !.result = result, !.owed = {}]

Insert(t) ==
  /\ Calls(t, "insert")
  /\ map' = [map EXCEPT ![call[t].key] = call[t].value]
  /\ call' = [call EXCEPT ![t] = Complete(@, Nil)]

\* No scan has to come to the key any more.
Erase(t) ==
  LET key == call[t].key IN
  /\ Calls(t, "erase")
  /\ map' = [map EXCEPT ![key] = Nil]
  /\ call' = [u \in Threads |->
                IF u = t THEN Complete(call[t], map[key] # Nil)
                ELSE IF call[u] = Nil THEN Nil ELSE [call[u] EXCEPT !.owed = @ \ {key}]]

Lookup(t) ==
  LET value == map[call[t].key] IN
  /\ Calls(t, "lookup")
  /\ call' = [call EXCEPT ![t] = Complete(@, IF value = Nil THEN Default ELSE value)]
  /\ UNCHANGED map

\* The scan comes to the entry of k, and passes none that it owes.
ScanNext(t, k) ==
  /\ Scans(t)
  /\ call[t].kind = "range" => k >= call[t].key
  /\ map[k] # Nil
  /\ call[t].last # Nil => k > call[t].last.key
  /\ \A owed \in call[t].owed : owed >= k
  /\ call' = [call EXCEPT ![t].last = [key |-> k, value |-> map[k]],
                          ![t].count = @ + 1, ![t].owed = @ \ {k}]
  /\ UNCHANGED map

\* At the end nothing is owed; size returns how many there were.
ScanEnd(t) ==
  /\ Scans(t)
  /\ call[t].owed = {}
  /\ call' = [call EXCEPT ![t] = Complete(@, @.count)]
  /\ UNCHANGED map

\* The user has seen enough of a range and destroys the iterator.
ScanDrop(t) ==
  /\ Calls(t, "range")
  /\ call' = [call EXCEPT ![t] = Complete(@, Nil)]
  /\ UNCHANGED map

Return(t) ==
  /\ call[t] # Nil /\ call[t].returns
  /\ call' = [call EXCEPT ![t] = Nil]
  /\ UNCHANGED map

Next ==
  \E t \in Threads :
    \/ Insert(t) \/ Erase(t) \/ Lookup(t) \/ Return(t)
    \/ \E k \in Keys : ScanNext(t, k)
    \/ ScanEnd(t) \/ ScanDrop(t)
    \/ Call(t, "size", 0, Nil)
    \/ \E k \in Keys : \/ Call(t, "insert", k, <<k, t>>)
                      \/ \E kind \in {"erase", "lookup", "range"} : Call(t, kind, k, Nil)

Spec == Init /\ [][Next]_mapVars
=============================================================================
