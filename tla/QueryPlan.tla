------------------------------ MODULE QueryPlan -----------------------------
(***************************************************************************)
(* The query operators (src/src/operators) in the plan of operatorstest:   *)
(*                                                                         *)
(*   Print(Projection(HashJoin(Selection(TableScan(employee)),             *)
(*                             TableScan(country))))                       *)
(*                                                                         *)
(* Operators are iterators: open, next until it returns false, close.  A   *)
(* record is a sequence of words; the scan cuts it into registers by the   *)
(* lengths of the relation's attributes, as the schema read from its       *)
(* stream has them.  A tuple is a sequence of registers.                   *)
(***************************************************************************)
EXTENDS SchemaStream, Integers

CONSTANTS Employees, Countries,  \* what the two segments may hold: sets of sequences of records
          PlanSchema,            \* the schema that the plan is made for
          SelectionRegister, Constant,
          JoinLeft, JoinRight,   \* the registers that are joined
          ProjectionRegisters,
          MaxOpens               \* bound: how often the plan is opened

Left == 1
Right == 2

\* A segment holds records; the registers that the plan names exist.  The projection moves
\* them out of its input's tuple: one that is named twice would be null the second time, and
\* Print would follow it.
ASSUME TablesAssumption == Employees \cup Countries \subseteq Seq(Seq(Nat))

ASSUME RegistersAssumption ==
  /\ {SelectionRegister + 1, JoinLeft + 1} \subseteq DOMAIN PlanSchema[Left].attributes
  /\ JoinRight + 1 \in DOMAIN PlanSchema[Right].attributes
  /\ ProjectionRegisters \in Seq(0 .. Len(PlanSchema[Left].attributes)
                                       + Len(PlanSchema[Right].attributes) - 1)
  /\ IsInjective(ProjectionRegisters)

VARIABLES
  segments,   \* the records of the relations
  scan,       \* the iterators of the two scans: how many records they have passed, or -1
  hashTable,  \* the left tuples in the join's hash table
  rightTuple, \* the right tuple that is joined, or <<>>
  matches,    \* the entries of the table from _tableIterator to _tableIteratorEnd
  rows,       \* what has been printed since the plan was opened
  opens,      \* how often it has been opened
  planPc      \* "closed", in open, between calls, in next, or after next returned false

planVars == <<segments, scan, hashTable, rightTuple, matches, rows, opens, planPc>>

QueryInit ==
  /\ SchemaInit
  /\ segments \in IF schema = PlanSchema THEN Employees \X Countries ELSE {<< <<>>, <<>> >>}
  /\ scan = <<-1, -1>>
  /\ hashTable = <<>>
  /\ rightTuple = <<>>
  /\ matches = {}
  /\ rows = <<>>
  /\ opens = 0
  /\ planPc = "closed"

---------------------------------------------------------------------------
(* TableScan and Selection *)

\* Where attribute i of a record begins: behind the attributes before it.
Offset(attributes, i) == SumFunction([j \in 1 .. i - 1 |-> attributes[j].length])

\* The registers of a record.
Cut(attributes, record) ==
  [i \in DOMAIN attributes |->
     SubSeq(record, Offset(attributes, i) + 1, Offset(attributes, i) + attributes[i].length)]

HasNext(side) == scan[side] < Len(segments[side])

ScanOutput(side) == Cut(relations[side].attributes, segments[side][scan[side] + 1])

\* Register r of a tuple; the code numbers them from 0.
Register(tuple, r) == tuple[r + 1]

Selected(tuple) == Register(tuple, SelectionRegister) = Constant

---------------------------------------------------------------------------
(* HashJoin, and Projection and Print above it *)

Matching(tuple) ==
  {i \in DOMAIN hashTable : Register(hashTable[i], JoinLeft) = Register(tuple, JoinRight)}

Project(tuple) == [i \in DOMAIN ProjectionRegisters |-> Register(tuple, ProjectionRegisters[i])]

\* Print has the row that the projection makes of a tuple printed.
PrintRow(tuple) == rows' = Append(rows, Project(tuple))

Open ==
  /\ planPc = "closed" /\ opens < MaxOpens
  /\ schemaPc = "read" /\ schema = PlanSchema
  /\ scan' = [scan EXCEPT ![Left] = 0]
  /\ rows' = <<>>
  /\ opens' = opens + 1
  /\ planPc' = "build"
  /\ UNCHANGED <<schemaVars, segments, hashTable, rightTuple, matches>>

Build ==
  /\ planPc = "build"
  /\ HasNext(Left)
  /\ scan' = [scan EXCEPT ![Left] = @ + 1]
  /\ hashTable' = IF Selected(ScanOutput(Left)) THEN Append(hashTable, ScanOutput(Left))
                                                ELSE hashTable
  /\ UNCHANGED <<schemaVars, segments, rightTuple, matches, rows, opens, planPc>>

\* The left input is closed and the right one opened.
Built ==
  /\ planPc = "build"
  /\ ~HasNext(Left)
  /\ scan' = [scan EXCEPT ![Left] = -1, ![Right] = 0]
  /\ planPc' = "open"
  /\ UNCHANGED <<schemaVars, segments, hashTable, rightTuple, matches, rows, opens>>

\* Mutant: the right tuple is kept after its last match.
JoinTuplesKeeping(right, found) ==
  \E i \in found : /\ PrintRow(hashTable[i] \o right)
                   /\ matches' = found \ {i}
                   /\ rightTuple' = right

\* Mutant: only the first match of a right tuple is joined.
JoinTuplesOnce(right, found) ==
  \E i \in found : /\ PrintRow(hashTable[i] \o right)
                   /\ matches' = {}
                   /\ rightTuple' = <<>>

\* joinTuples, and a row is printed.  The table gives equal keys in no particular order.
\* After the last match the right tuple is cleared.
JoinTuples(right, found) ==
  \E i \in found : /\ PrintRow(hashTable[i] \o right)
                   /\ matches' = found \ {i}
                   /\ rightTuple' = IF found = {i} THEN <<>> ELSE right

\* next, when the last right tuple still has matches.
NextMatch ==
  /\ planPc = "open"
  /\ rightTuple # <<>>
  /\ JoinTuples(rightTuple, matches)
  /\ UNCHANGED <<schemaVars, segments, scan, hashTable, opens, planPc>>

\* next, when it has none: right tuples are read until one has.
Probe ==
  LET right == ScanOutput(Right)
      found == Matching(right)
  IN
  /\ (planPc = "open" /\ rightTuple = <<>>) \/ planPc = "next"
  /\ HasNext(Right)
  /\ scan' = [scan EXCEPT ![Right] = @ + 1]
  /\ IF found = {} THEN rightTuple' = right /\ matches' = {} /\ planPc' = "next" /\ UNCHANGED rows
                   ELSE JoinTuples(right, found) /\ planPc' = "open"
  /\ UNCHANGED <<schemaVars, segments, hashTable, opens>>

\* next returns false.
Exhaust ==
  /\ (planPc = "open" /\ rightTuple = <<>>) \/ planPc = "next"
  /\ ~HasNext(Right)
  /\ planPc' = "exhausted"
  /\ UNCHANGED <<schemaVars, segments, scan, hashTable, rightTuple, matches, rows, opens>>

\* The user closes the plan when he has seen all rows, or enough.  The hash table stays.
Close ==
  /\ planPc \in {"open", "exhausted"}
  /\ rightTuple' = <<>>
  /\ scan' = [scan EXCEPT ![Right] = -1]
  /\ planPc' = "closed"
  /\ UNCHANGED <<schemaVars, segments, hashTable, matches, rows, opens>>

QueryNext ==
  \/ SchemaNext /\ UNCHANGED planVars
  \/ Open \/ Build \/ Built \/ NextMatch \/ Probe \/ Exhaust \/ Close

QuerySpec == QueryInit /\ [][QueryNext]_<<schemaVars, planVars>>

---------------------------------------------------------------------------
(* Properties *)

\* Whenever next may be called, a right tuple that is kept has a match left: joinTuples does
\* not follow an iterator that is at its end, after misses, last matches and early closes.
\* (After next has returned false it would: a right tuple without matches is kept.)
JoinIteratorIsValid == planPc \in {"closed", "build", "open"} /\ rightTuple # <<>> => matches # {}

\* A scan keeps a page of its segment fixed.  Never are both open, and after close none is.
ScansAreClosed == /\ scan[Left] = -1 \/ scan[Right] = -1
                  /\ planPc = "closed" => scan = <<-1, -1>>

\* The tuple of a record, by the schema that the plan is made for.
RegistersOf(side, i) == Cut(PlanSchema[side].attributes, segments[side][i])

Joinable(i, j) == /\ Selected(RegistersOf(Left, i))
                  /\ Register(RegistersOf(Left, i), JoinLeft) = Register(RegistersOf(Right, j), JoinRight)

JoinRows ==
  [pair \in {p \in (DOMAIN segments[Left]) \X (DOMAIN segments[Right]) : Joinable(p[1], p[2])} |->
     Project(RegistersOf(Left, pair[1]) \o RegistersOf(Right, pair[2]))]

\* The plan prints the projection of each pair of a selected left tuple and a right tuple that
\* agree in the registers of the join, in its opening n n times: the hash table keeps the left
\* tuples of the openings before.  When next has returned false every row has been printed as
\* often as it is due, and never more often, whatever openings before were closed early.
TuplesAreJoined ==
  LET joined == {<<pair, JoinRows[pair]>> : pair \in DOMAIN JoinRows}
      printed(row) == {i \in DOMAIN rows : rows[i] = row}
      due(row) == {d \in joined \X (1 .. opens) : d[1][2] = row}
  IN
  /\ \A i \in DOMAIN rows : Cardinality(printed(rows[i])) <= Cardinality(due(rows[i]))
  /\ planPc = "exhausted" =>
       \A j \in joined : Cardinality(printed(j[2])) = Cardinality(due(j[2]))
=============================================================================
