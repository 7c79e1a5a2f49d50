--------------------------- MODULE ColumnProjection ---------------------------
(* A data file read under a schema that has evolved since it was written: which *)
(* columns the reader asks Parquet for, and how the transformer of record       *)
(* batches turns them into the columns of the task.  The data of a column is    *)
(* named by the id of the field it was written for.                             *)
EXTENDS Integers, Sequences, FiniteSets

CONSTANTS
    None,
    Names,
    MaxId,          \* bound on the ids of fields ever added
    MaxRenames,     \* bound on renames and moves
    TypeOf          \* the type a field is created with, by its id

Seqs == INSTANCE SequencesExt

ASSUME ColumnAssumption ==
    /\ MaxId \in Nat \ {0, 1} /\ MaxRenames \in Nat
    /\ None \notin Names

VARIABLES
    schema,     \* of the table: a sequence of fields
    lastId,     \* of a field ever added
    renames,    \* renames and moves so far
    file,       \* None, or its columns and whether these have ids, and its constants
    batch       \* None, or the columns of the last record batch and what was asked for

vars == <<schema, lastId, renames, file, batch>>

Promoted == [int |-> "long", float |-> "double"]
CanPromote(from, to) == from = to \/ (from \in DOMAIN Promoted /\ Promoted[from] = to)

Field(id, name, required, default) ==
    [id |-> id, name |-> name, type |-> TypeOf[id], required |-> required, default |-> default]
IdsOf(fields) == {fields[i].id : i \in DOMAIN fields}
FieldOf(id) == schema[CHOOSE i \in DOMAIN schema : schema[i].id = id]

(***************************************************************************)
(* The table evolves: other engines do this, within the rules of Iceberg.   *)
(***************************************************************************)
Init ==
    /\ \E n \in 1..2 : \E required \in [1..n -> BOOLEAN], name \in [1..n -> Names] :
          /\ Seqs!IsInjective(name)
          /\ schema = [i \in 1..n |-> Field(i, name[i], required[i], None)]
          /\ lastId = n
    /\ renames = 0
    /\ file = None
    /\ batch = None

Evolve(fields) ==
    /\ schema' = fields
    /\ batch' = None
    /\ UNCHANGED file

NameFree(name) == \A i \in DOMAIN schema : schema[i].name # name

AddColumn ==
    /\ lastId < MaxId
    /\ \E name \in Names, default \in {None, "initial"}, at \in 0..Len(schema) :
          /\ NameFree(name)
          /\ Evolve(Seqs!InsertAt(schema, at + 1,
                                  Field(lastId + 1, name, default # None, default)))
    /\ lastId' = lastId + 1
    /\ UNCHANGED renames

DropColumn ==
    /\ Len(schema) > 1
    /\ \E i \in DOMAIN schema : Evolve(Seqs!RemoveAt(schema, i))
    /\ UNCHANGED <<lastId, renames>>

RenameColumn ==
    /\ renames < MaxRenames
    /\ \E i \in DOMAIN schema, name \in Names :
          NameFree(name) /\ Evolve([schema EXCEPT ![i].name = name])
    /\ renames' = renames + 1
    /\ UNCHANGED lastId

MoveColumn ==
    /\ renames < MaxRenames
    /\ \E i \in 1..(Len(schema) - 1) :
          Evolve([schema EXCEPT ![i] = schema[i + 1], ![i + 1] = schema[i]])
    /\ renames' = renames + 1
    /\ UNCHANGED lastId

PromoteColumn ==
    /\ \E i \in DOMAIN schema :
          /\ schema[i].type \in DOMAIN Promoted
          /\ Evolve([schema EXCEPT ![i].type = Promoted[schema[i].type]])
    /\ UNCHANGED <<lastId, renames>>

MakeOptional ==
    /\ \E i \in DOMAIN schema :
          /\ schema[i].required /\ schema[i].default = None
          /\ Evolve([schema EXCEPT ![i].required = FALSE])
    /\ UNCHANGED <<lastId, renames>>

(* A file has the columns of the schema of its time; one that was not written *)
(* for Iceberg has no ids, and its columns are numbered.  A column that the   *)
(* table is partitioned by may be taken from the partition.                   *)
WriteFile ==
    /\ file = None
    /\ \E hasIds \in BOOLEAN, constants \in SUBSET IdsOf(schema) :
          /\ ~hasIds => \A i \in DOMAIN schema : schema[i].id = i
          /\ Cardinality(constants) <= 1
          /\ file' = [hasIds |-> hasIds, constants |-> constants,
                      columns |-> [i \in DOMAIN schema |->
                          [id |-> schema[i].id, name |-> schema[i].name,
                           type |-> schema[i].type, required |-> schema[i].required]]]
    /\ UNCHANGED <<schema, lastId, renames, batch>>

(***************************************************************************)
(* The reader                                                               *)
(***************************************************************************)
All == DOMAIN file.columns

MaskWithFieldIds(ids) ==
    LET found == {i \in All : /\ file.columns[i].id \in ids
                              /\ CanPromote(file.columns[i].type, FieldOf(file.columns[i].id).type)}
    IN  IF found = {} THEN All ELSE found

MaskFallback(ids) ==
    LET found == {i \in All : i \in ids}
    IN  IF found = {} THEN All ELSE found

ProjectionMask(selection) ==
    LET ids == Seqs!ToSet(selection)
    IN  IF ids = {} THEN All
        ELSE IF file.hasIds THEN MaskWithFieldIds(ids)
        ELSE MaskFallback(ids)

(* What comes from Parquet is in the order of the file. *)
SourceColumns(mask) ==
    LET inOrder == CHOOSE s \in [1..Cardinality(mask) -> mask] :
                       \A i, j \in DOMAIN s : i < j => s[i] < s[j]
    IN  [k \in 1..Cardinality(mask) |-> file.columns[inOrder[k]]]

(***************************************************************************)
(* The transformer                                                          *)
(***************************************************************************)
(* A constant is encoded by its runs, which is another type to Arrow. *)
TargetFields(selection) ==
    [k \in DOMAIN selection |->
        LET f == FieldOf(selection[k])
        IN  [name |-> f.name, required |-> f.required, type |-> f.type,
             runs |-> f.id \in file.constants]]

\* Mutant: the names are not compared.
CompareTypes(source, target) ==
    IF \/ Len(source) # Len(target)
       \/ \E i \in DOMAIN source : \/ source[i].type # target[i].type \/ target[i].runs
                                  \/ source[i].required # target[i].required
    THEN "Different" ELSE "Equivalent"

(* Column by column, in the order they come in: ids are not compared. *)
CompareSchemas(source, target) ==
    IF \/ Len(source) # Len(target)
       \/ \E i \in DOMAIN source : \/ source[i].type # target[i].type \/ target[i].runs
                                  \/ source[i].required # target[i].required
    THEN "Different"
    ELSE IF \E i \in DOMAIN source : source[i].name # target[i].name THEN "NameChangesOnly"
    ELSE "Equivalent"

FromFile(id) == <<"file", id>>
FromDefault(id) == <<"default", id>>
FromPartition(id) == <<"partition", id>>
Null(id) == <<"null", id>>

\* Mutant: a column that is missing in the file is NULL even if it has a default.
ColumnSourceNoDefault(source, id) ==
    IF id \in file.constants THEN FromPartition(id)
    ELSE IF id \in IdsOf(source) THEN FromFile(id)
    ELSE Null(id)

ColumnSource(source, id) ==
    IF id \in file.constants THEN FromPartition(id)
    ELSE IF id \in IdsOf(source) THEN FromFile(id)
    ELSE IF FieldOf(id).default # None THEN FromDefault(id)
    ELSE Null(id)

Column(name, type, required, data) ==
    [name |-> name, type |-> type, required |-> required, data |-> data]

(* The batch as it came. *)
PassThrough(source) ==
    [k \in DOMAIN source |->
        Column(source[k].name, source[k].type, source[k].required, FromFile(source[k].id))]

(* Its columns, under the names of the target. *)
ModifySchema(source, target) ==
    [k \in DOMAIN source |->
        Column(target[k].name, source[k].type, source[k].required, FromFile(source[k].id))]

(* The columns of the target, each looked up by its id. *)
Modify(source, target, selection) ==
    [k \in DOMAIN selection |->
        Column(target[k].name, target[k].type, target[k].required,
               ColumnSource(source, selection[k]))]

Transform(source, selection) ==
    LET target == TargetFields(selection)
        comparison == CompareSchemas(source, target)
    IN  IF comparison = "Equivalent" THEN PassThrough(source)
        ELSE IF comparison = "NameChangesOnly" THEN ModifySchema(source, target)
        ELSE Modify(source, target, selection)

(* One read under each schema.  A partition whose source column was dropped *)
(* makes it fail.                                                            *)
ReadFile ==
    /\ file # None /\ batch = None
    /\ file.constants \subseteq IdsOf(schema)
    /\ \E ids \in SUBSET IdsOf(schema) : \E selection \in Seqs!SetToSeqs(ids) :
          batch' = [selection |-> selection,
                    columns |-> Transform(SourceColumns(ProjectionMask(selection)), selection)]
    /\ UNCHANGED <<schema, lastId, renames, file>>

Next ==
    \/ AddColumn \/ DropColumn \/ RenameColumn \/ MoveColumn \/ PromoteColumn \/ MakeOptional
    \/ WriteFile
    \/ ReadFile

Spec == Init /\ [][Next]_vars

-----------------------------------------------------------------------------

(* The data of the field of an id, as the format has it: that of the partition, *)
(* of the column written for the id, the default, or NULL - also if the field    *)
(* was renamed, moved or promoted, another one took its name, or it was added    *)
(* after the file.                                                              *)
DataOf(id) ==
    IF id \in file.constants THEN FromPartition(id)
    ELSE IF id \in IdsOf(file.columns) THEN FromFile(id)
    ELSE IF FieldOf(id).default # None THEN FromDefault(id)
    ELSE Null(id)

(* Every column read holds the data of the field that was asked for.            *)
ReadsByFieldId ==
    batch # None =>
        \A k \in DOMAIN batch.selection :
            batch.columns[k].data = DataOf(batch.selection[k])

(* Some of the columns asked for are in the file, and they are asked for in the *)
(* order of the file.                                                           *)
InFileOrder(selection) ==
    /\ \E k \in DOMAIN selection : selection[k] \in IdsOf(file.columns)
    /\ \A k, l \in DOMAIN selection, i, j \in DOMAIN file.columns :
          k < l /\ file.columns[i].id = selection[k] /\ file.columns[j].id = selection[l]
              => i < j

(* Other columns of the file that compare_schemas cannot tell from the field.   *)
TwinsOf(id) ==
    {file.columns[i].id : i \in {j \in DOMAIN file.columns :
        /\ file.columns[j].id # id
        /\ file.columns[j].type = FieldOf(id).type
        /\ file.columns[j].required = FieldOf(id).required}}

(* Every column read holds the data of its field, whatever the schema has       *)
(* become since the file was written, if the columns that are there are asked   *)
(* for in their order (reader.rs projects by id, and what comes is in that      *)
(* order), and without that every column that has no twin in the file           *)
(* (record_batch_transformer.rs compare_schemas).                               *)
ReadsById ==
    batch # None =>
        \A k \in DOMAIN batch.selection :
            InFileOrder(batch.selection) \/ TwinsOf(batch.selection[k]) = {}
                => batch.columns[k].data = DataOf(batch.selection[k])

(* Record batches of all files of a scan fit together, and so does what is in   *)
(* them: whichever of the three ways a batch takes through the transformer, its *)
(* columns have the names, types and nullability of the schema of today, in the *)
(* order asked for (constants in runs of it), and a required one is never       *)
(* filled with NULL - also if it is not in the file.                            *)
BatchHasTheSchema ==
    batch # None =>
        /\ Len(batch.columns) = Len(batch.selection)
        /\ \A k \in DOMAIN batch.selection :
              LET f == FieldOf(batch.selection[k])
                  column == batch.columns[k]
              IN  /\ column.name = f.name /\ column.type = f.type
                  /\ column.required = f.required
                  /\ f.required => column.data # Null(f.id)
=============================================================================
