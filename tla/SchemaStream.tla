---------------------------- MODULE SchemaStream ----------------------------
(***************************************************************************)
(* The database schema (src/src/schema): its relations are written to a    *)
(* stream and read from it again.  Names, types, lengths, flags and ids    *)
(* are numbers; one number of the stream stands for the bytes of one field *)
(* (a name ends with a zero byte, the others have a fixed length).         *)
(***************************************************************************)
EXTENDS Naturals, SequencesExt

CONSTANT Schemas  \* the schemas that are written: sequences of relations

Attributes == [name : Nat, type : Nat, length : Nat, notNull : Nat]

Relations ==
  [name : Nat, segmentId : Nat, attributes : Seq(Attributes), primaryKeys : Seq(Nat)]

ASSUME SchemasAssumption == Schemas \subseteq Seq(Relations)

VARIABLES
  schema,          \* the schema that was written
  stream,          \* what is left to read of it
  relations,       \* the relations of the schema that is read
  relationsLeft,   \* deserialize: how many more there are ...
  attributesLeft,  \* ... and attributes of the last one
  schemaPc

schemaVars == <<schema, stream, relations, relationsLeft, attributesLeft, schemaPc>>

SerializeAttribute(a) == <<a.name, a.type, a.length, a.notNull>>

SerializeAttributes(r) ==
  FlattenSeq([i \in DOMAIN r.attributes |-> SerializeAttribute(r.attributes[i])])

SerializeRelation(r) ==
  <<r.name, r.segmentId, Len(r.attributes)>> \o SerializeAttributes(r)
     \o <<Len(r.primaryKeys)>> \o r.primaryKeys

Serialize(s) == <<Len(s)>> \o FlattenSeq([i \in DOMAIN s |-> SerializeRelation(s[i])])

SchemaInit ==
  /\ schema \in Schemas
  /\ stream = Serialize(schema)
  /\ relations = <<>>
  /\ relationsLeft = 0
  /\ attributesLeft = 0
  /\ schemaPc = "schema"

\* The next n fields have been read.
Consume(n) == stream' = SubSeq(stream, n + 1, Len(stream))

ReadSchema ==
  /\ schemaPc = "schema"
  /\ relationsLeft' = stream[1]
  /\ Consume(1)
  /\ schemaPc' = "relation"
  /\ UNCHANGED <<schema, relations, attributesLeft>>

ReadRelation ==
  /\ schemaPc = "relation" /\ relationsLeft > 0
  /\ relations' = Append(relations, [name |-> stream[1], segmentId |-> stream[2],
                                     attributes |-> <<>>, primaryKeys |-> <<>>])
  /\ attributesLeft' = stream[3]
  /\ Consume(3)
  /\ schemaPc' = "attributes"
  /\ UNCHANGED <<schema, relationsLeft>>

ReadAttribute ==
  /\ schemaPc = "attributes" /\ attributesLeft > 0
  /\ relations' = [relations EXCEPT ![Len(relations)].attributes =
                     Append(@, [name |-> stream[1], type |-> stream[2],
                                length |-> stream[3], notNull |-> stream[4]])]
  /\ attributesLeft' = attributesLeft - 1
  /\ Consume(4)
  /\ UNCHANGED <<schema, relationsLeft, schemaPc>>

\* Mutant: the vector of primary keys is reserved, not resized.
ReadPrimaryKeysReserving ==
  /\ schemaPc = "attributes" /\ attributesLeft = 0
  /\ Consume(stream[1] + 1)
  /\ relationsLeft' = relationsLeft - 1
  /\ schemaPc' = "relation"
  /\ UNCHANGED <<schema, relations, attributesLeft>>

ReadPrimaryKeys ==
  /\ schemaPc = "attributes" /\ attributesLeft = 0
  /\ relations' = [relations EXCEPT ![Len(relations)].primaryKeys = SubSeq(stream, 2, stream[1] + 1)]
  /\ Consume(stream[1] + 1)
  /\ relationsLeft' = relationsLeft - 1
  /\ schemaPc' = "relation"
  /\ UNCHANGED <<schema, attributesLeft>>

SchemaIsRead ==
  /\ schemaPc = "relation" /\ relationsLeft = 0
  /\ schemaPc' = "read"
  /\ UNCHANGED <<schema, stream, relations, relationsLeft, attributesLeft>>

SchemaNext == ReadSchema \/ ReadRelation \/ ReadAttribute \/ ReadPrimaryKeys \/ SchemaIsRead

SchemaSpec == SchemaInit /\ [][SchemaNext]_schemaVars

---------------------------------------------------------------------------
\* The schema that is read is the one that was written, and nothing of it is left in the
\* stream: reading keeps in step with writing across relations that have any number of
\* attributes and primary keys.
SchemaIsRestored == schemaPc = "read" => relations = schema /\ stream = <<>>
=============================================================================
