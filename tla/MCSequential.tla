---------------------------- MODULE MCSequential ----------------------------
(***************************************************************************)
(* Instances of the components that one thread runs: the external sort,    *)
(* and the schema with the query operators that use it.  They have nothing *)
(* to do with each other; a behaviour is one of the sort or one of a query.*)
(***************************************************************************)
EXTENDS ExternalSort, QueryPlan

CONSTANTS MaxSize, MaxEmployees, MaxCountries  \* bounds: lengths of files and segments

VARIABLE component

Numbers == 0 .. 2

\* A file of nine numbers needs three phases.
SortInputs == UNION {[1 .. n -> Numbers] : n \in 0 .. MaxSize} \cup [1 .. 9 -> 0 .. 1]

\* The relations of operatorstest, with names of two words and countries of one.
Integer(name, notNull) == [name |-> name, type |-> 0, length |-> 1, notNull |-> notNull]
Char(name, length) == [name |-> name, type |-> 1, length |-> length, notNull |-> 0]

EmployeeRelation == [name |-> 10, segmentId |-> 1,
                     attributes |-> <<Integer(11, 1), Integer(12, 1), Integer(13, 1), Char(14, 2)>>,
                     primaryKeys |-> <<0, 1>>]
CountryRelation == [name |-> 20, segmentId |-> 2,
                    attributes |-> <<Integer(12, 1), Char(14, 1)>>, primaryKeys |-> <<0>>]

CompanySchema == <<EmployeeRelation, CountryRelation>>

\* Relations without attributes, without keys, with more keys than attributes.
SmallSchemas ==
  {<<>>} \cup {<<[r EXCEPT !.attributes = SubSeq(@, 1, n), !.primaryKeys = keys], CountryRelation>> :
                 r \in {EmployeeRelation}, n \in 0 .. 2, keys \in {<<>>, <<1>>, <<1, 0>>}}

AllSchemas == {CompanySchema} \cup SmallSchemas

\* Employees are numbered; country and age vary.  A name starts with the employee's number.
EmployeeRecord(id, country, age) == <<id, country, age, 30 + id, 40>>
CountryRecord(id, country) == <<country, 50 + id>>

EmployeeTables ==
  UNION {{[i \in 1 .. n |-> EmployeeRecord(i, countries[i], ages[i])] :
            countries \in [1 .. n -> {0, 1}], ages \in [1 .. n -> {18, 42}]} : n \in 0 .. MaxEmployees}

CountryTables ==
  UNION {{[i \in 1 .. n |-> CountryRecord(i, countries[i])] : countries \in [1 .. n -> {0, 1}]} :
           n \in 0 .. MaxCountries}

Projected == <<0, 2, 3, 5>>
Age18 == <<18>>

noSort == /\ input = <<>> /\ inMemory = Nil /\ tmp = <<>> /\ inPos = 0 /\ phase = 0 /\ runMult = 1
          /\ mergeStart = 0 /\ nextRunValue = <<>> /\ queue = {} /\ mergeOut = 0 /\ output = <<>>
          /\ sortPc = Nil

noQuery == /\ schema = <<>> /\ stream = <<>> /\ relations = <<>> /\ relationsLeft = 0
           /\ attributesLeft = 0 /\ schemaPc = Nil /\ segments = <<>> /\ scan = <<-1, -1>>
           /\ hashTable = <<>> /\ rightTuple = <<>> /\ matches = {} /\ rows = <<>> /\ opens = 0
           /\ planPc = Nil

SequentialInit == \/ component = "sort" /\ SortInit /\ noQuery
                  \/ component = "query" /\ QueryInit /\ noSort

SequentialNext ==
  \/ component = "sort" /\ SortNext /\ UNCHANGED <<component, schemaVars, planVars>>
  \/ component = "query" /\ QueryNext /\ UNCHANGED <<component, sortVars>>

allVars == <<component, sortVars, schemaVars, planVars>>

SequentialSpec == SequentialInit /\ [][SequentialNext]_allVars /\ WF_allVars(SequentialNext)

SortEnds == component = "sort" => SortTerminates
=============================================================================
