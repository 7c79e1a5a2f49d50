--------------------------- MODULE MetadataBuilder ---------------------------
(***************************************************************************)
(* The evolution of a table's metadata: schemas, partition specs, sort     *)
(* orders, snapshots and references                                        *)
(* (patches/iceberg-0.9.1/src/spec/table_metadata_builder.rs,              *)
(* spec/partition.rs, spec/sort.rs, spec/table_metadata.rs).               *)
(*                                                                         *)
(* A TableMetadataBuilder starts from published metadata, is changed by    *)
(* one call after the other, and builds the next version.  A call takes    *)
(* the builder by value: one that fails leaves none.  Each call that       *)
(* changes something appends a TableUpdate to the builder's changes, and   *)
(* TableUpdate::apply is the same call made on another builder: Apply.     *)
(*                                                                         *)
(* Abstractions.  All columns have one primitive type, so that every       *)
(* transform fits every column.  The time is the number of the version     *)
(* under construction, hence no clock skew.  References have no retention  *)
(* settings: to set one that differs only in these is to set it again.     *)
(* Location, properties, statistics, encryption keys, row ids and the      *)
(* metadata log are left out.                                              *)
(***************************************************************************)
EXTENDS Integers, Sequences, SequencesExt

CONSTANTS
    ColumnNames,   \* names of columns
    MaxColumn,     \* bound: columns ever given an id
    Specs,         \* partition fields an application asks for, without ids
    SnapshotIds,   \* the random snapshot ids
    Tags,          \* names of references other than main
    FirstColumn,   \* the name of the column a new table has
    Sessions,      \* what one application does: [kinds of calls, formats and
                   \* specs of the new table, bounds on the changes in one
                   \* builder and on the versions it publishes]
    None           \* Option::None

VARIABLES
    session,    \* what this application does
    published,  \* the current metadata of the table
    builder,    \* the builder at work, None between two commits
    mains,      \* ghost: the current snapshot of every version
    columns,    \* ghost: the column ids of all versions
    fields,     \* ghost: the partition fields of all versions
    drawn       \* ghost: the snapshot ids of all versions

vars == <<session, published, builder, mains, columns, fields, drawn>>

LastAdded == -1
UnpartitionedLastAssignedId == 999
UnsortedOrderId == 0

UnboundField(f) ==
    f = [source |-> f.source, name |-> f.name, transform |-> f.transform, id |-> None]

ASSUME SpecsAssumption ==
    /\ None \notin Int
    /\ \A s \in Specs : s \in Seq(Range(s)) /\ \A f \in Range(s) : UnboundField(f)
    /\ \A s \in Sessions : s.specs \subseteq Specs

-----------------------------------------------------------------------------
With(f, x, y) == [z \in DOMAIN f \cup {x} |-> IF z = x THEN y ELSE f[z]]

Current(m) == m.schemas[m.schema]

(* A call that changed something remembers it. *)
Recorded(b, m, update) ==
    [b EXCEPT !.meta = m, !.changes = Append(@, update)]

Note(update, key, value) == [update EXCEPT ![key] = value]

(* set_current_schema and its two likes resolve -1 to what was added last,  *)
(* and record -1 when that is what they set.                                *)
Resolved(id, lastAdded) == IF id = LastAdded THEN lastAdded ELSE id
Proxied(id, lastAdded) == IF id = lastAdded THEN LastAdded ELSE id

(* The id of an equal entry, or one more than the highest. *)
ReusedOrNext(f, equal, empty) ==
    IF equal # {} THEN CHOOSE id \in equal : TRUE
    ELSE IF DOMAIN f = {} THEN empty ELSE Max(DOMAIN f) + 1

-----------------------------------------------------------------------------
(* Schemas: functions from column ids to names. *)

PartitionNames(m) == {f.name : f \in UNION {Range(s) : s \in Range(m.specs)}}
NamesOfAllSchemas(m) == UNION {Range(s) : s \in Range(m.schemas)}

(* validate_schema_field_names *)
SchemaNamesFit(m, s) ==
    DOMAIN m.schemas = {}
    \/ (Range(s) \cap PartitionNames(m)) \subseteq NamesOfAllSchemas(m)

AddNewSchema(m, id, s) ==
    [m EXCEPT !.schemas = With(@, id, s),
              !.lastColumn = Max({@} \cup DOMAIN s)]

AddSchema(b, u) ==
    LET m == b.meta
        id == ReusedOrNext(m.schemas, {i \in DOMAIN m.schemas : m.schemas[i] = u.schema},
                           m.schema + 1)
        known == id \in DOMAIN m.schemas
    IN  IF ~SchemaNamesFit(m, u.schema) THEN None
        ELSE IF known /\ b.lastSchema = id THEN b
        ELSE [Recorded(b, IF known THEN m ELSE AddNewSchema(m, id, u.schema), u)
              EXCEPT !.lastSchema = id]

SetCurrentSchema(b, u) ==
    LET m == b.meta
        id == Resolved(u.id, b.lastSchema)
    IN  IF id = m.schema THEN b
        ELSE IF id \notin DOMAIN m.schemas THEN None
        ELSE Recorded(b, [m EXCEPT !.schema = id], Note(u, "id", Proxied(id, b.lastSchema)))

RemoveSchemas(b, u) ==
    LET m == b.meta
    IN  IF m.schema \in u.ids THEN None
        ELSE IF u.ids = {} THEN b
        ELSE Recorded(b, [m EXCEPT !.schemas = Restrict(@, DOMAIN @ \ u.ids)],
                      Note(u, "ids", u.ids \cap DOMAIN m.schemas))

-----------------------------------------------------------------------------
(* Partition specs: sequences of [source, name, transform, id]. *)

SameColumn(f, g) == f.source = g.source /\ f.transform = g.transform

\* Mutant: reuse_partition_field_ids takes the fields of the same column.
LentIdsOfColumn(m, f) ==
    {g.id : g \in {h \in UNION {Range(s) : s \in Range(m.specs)} : f.source = h.source}}

(* Equivalent fields of existing specs lend their ids.  They are collected  *)
(* from a hash map: of two ids for one field either may be taken.           *)
LentIds(m, f) ==
    {g.id : g \in {h \in UNION {Range(s) : s \in Range(m.specs)} : SameColumn(f, h)}}

WithLentIds(m, fs) ==
    LET Offered(f) == IF f.id = None /\ LentIds(m, f) # {} THEN LentIds(m, f) ELSE {f.id}
    IN  {[i \in DOMAIN fs |-> [fs[i] EXCEPT !.id = c[i]]] :
            c \in {d \in [DOMAIN fs -> UNION {Offered(f) : f \in Range(fs)}] :
                     \A i \in DOMAIN fs : d[i] \in Offered(fs[i])}}

(* Within a spec names, columns with a transform, and given ids are unique. *)
UniqueWithin(fs) ==
    \A i, j \in DOMAIN fs : i # j =>
        /\ fs[i].name # fs[j].name
        /\ ~SameColumn(fs[i], fs[j])
        /\ fs[i].id = None \/ fs[i].id # fs[j].id

(* A field has a column, and the name of a column only if it is its         *)
(* identity.                                                                *)
FitsSchema(f, s) ==
    /\ f.source \in DOMAIN s
    /\ \A c \in DOMAIN s : s[c] = f.name => f.transform = "identity" /\ c = f.source

(* add_unbound_field, and validate_partition_field_names before it. *)
Binds(fs, s) == UniqueWithin(fs) /\ \A f \in Range(fs) : FitsSchema(f, s)

(* set_field_ids: fields without an id get the next one that none has; last *)
(* goes along with the highest id so far.                                   *)
GivenIds(fs) == {f.id : f \in Range(fs)} \ {None}
NextFree(fs, l) == Min((l + 1 .. l + 1 + Len(fs)) \ GivenIds(fs))
IdAfter(fs, i, l) == IF fs[i].id = None THEN NextFree(fs, l) ELSE fs[i].id

SetFieldIds(fs, last) ==
    LET highest[i \in 0..Len(fs)] ==
            IF i = 0 THEN last
            ELSE Max({highest[i - 1], IdAfter(fs, i, highest[i - 1])})
    IN  [i \in DOMAIN fs |-> [fs[i] EXCEPT !.id = IdAfter(fs, i, highest[i - 1])]]

HighestFieldId(fs) ==
    Max({UnpartitionedLastAssignedId} \cup {f.id : f \in Range(fs)})

HasSequentialIds(fs) == \A i \in DOMAIN fs : fs[i].id = UnpartitionedLastAssignedId + i

(* is_compatible_with: the ids are not compared. *)
Compatible(fs, gs) ==
    /\ Len(fs) = Len(gs)
    /\ \A i \in DOMAIN fs : SameColumn(fs[i], gs[i]) /\ fs[i].name = gs[i].name

\* Mutant: an existing spec is found without recording that it was asked for.
AddSpecSilently(b, m, u, id, known) ==
    [(IF known THEN b ELSE Recorded(b, m, u)) EXCEPT !.lastSpec = id]

AddSpecUpdate(b, m, u, id, known) ==
    IF known /\ b.lastSpec = id THEN b
    ELSE [Recorded(b, m, u) EXCEPT !.lastSpec = id]

AddSpec(b, u) ==
    LET m == b.meta
        asked == CHOOSE fs \in WithLentIds(m, u.fields) : TRUE
        bound == SetFieldIds(asked, m.lastPartition)
        id == ReusedOrNext(m.specs, {i \in DOMAIN m.specs : Compatible(bound, m.specs[i])}, 0)
        known == id \in DOMAIN m.specs
        added == [m EXCEPT !.specs = With(@, id, bound),
                           !.lastPartition = Max({@, HighestFieldId(bound)})]
    IN  IF \/ ~Binds(asked, Current(m))
           \/ ~known /\ m.format = 1 /\ ~HasSequentialIds(bound) THEN None
        ELSE AddSpecUpdate(b, IF known THEN m ELSE added, Note(u, "fields", asked), id, known)

SetDefaultSpec(b, u) ==
    LET m == b.meta
        id == Resolved(u.id, b.lastSpec)
    IN  IF m.spec.id = id THEN b
        ELSE IF \/ id \notin DOMAIN m.specs
                \/ \E f \in Range(m.specs[id]) : f.source \notin DOMAIN Current(m) THEN None
        ELSE Recorded(b, [m EXCEPT !.spec = [id |-> id, fields |-> m.specs[id]]],
                      Note(u, "id", Proxied(id, b.lastSpec)))

RemovePartitionSpecs(b, u) ==
    LET m == b.meta
        removed == u.ids \cap DOMAIN m.specs
    IN  IF m.spec.id \in u.ids THEN None
        ELSE IF removed = {} THEN b
        ELSE Recorded(b, [m EXCEPT !.specs = Restrict(@, DOMAIN @ \ removed)],
                      Note(u, "ids", removed))

-----------------------------------------------------------------------------
(* Sort orders: sequences of column ids. *)

Sorts(order, s) == Range(order) \subseteq DOMAIN s

AddSortOrder(b, u) ==
    LET m == b.meta
        equal == {i \in DOMAIN m.orders : m.orders[i] = u.order}
        id == IF u.order = << >> THEN UnsortedOrderId
              ELSE ReusedOrNext(m.orders, equal, UnsortedOrderId + 1)
        known == id \in DOMAIN m.orders
        added == [m EXCEPT !.orders = With(@, id, u.order)]
    IN  IF known /\ b.lastOrder = id THEN b
        ELSE IF ~known /\ ~Sorts(u.order, Current(m)) THEN None
        ELSE [Recorded(b, IF known THEN m ELSE added, u) EXCEPT !.lastOrder = id]

SetDefaultSortOrder(b, u) ==
    LET m == b.meta
        id == Resolved(u.id, b.lastOrder)
    IN  IF m.order = id THEN b
        ELSE IF id \notin DOMAIN m.orders THEN None
        ELSE Recorded(b, [m EXCEPT !.order = id], Note(u, "id", Proxied(id, b.lastOrder)))

UpgradeFormatVersion(b, u) ==
    IF u.format < b.meta.format THEN None
    ELSE IF u.format = b.meta.format THEN b
    ELSE Recorded(b, [b.meta EXCEPT !.format = u.format], u)

-----------------------------------------------------------------------------
(* Snapshots and references. *)

AddSnapshot(b, u) ==
    LET m == b.meta
    IN  IF \/ u.id \in DOMAIN m.snapshots
           \/ m.format # 1 /\ u.seq <= m.lastSeq /\ u.parent # None THEN None
        ELSE Recorded(b, [m EXCEPT !.snapshots = With(@, u.id, u.seq), !.lastSeq = u.seq], u)

(* The references to removed snapshots go too; the current snapshot stays. *)
RemoveSnapshots(b, u) ==
    LET m == b.meta
        removed == u.ids \cap DOMAIN m.snapshots
        kept == DOMAIN m.snapshots \ removed
    IN  IF removed = {} THEN b
        ELSE Recorded(b, [m EXCEPT !.snapshots = Restrict(@, kept),
                                   !.refs = RestrictValues(@, LAMBDA id : id \in kept)],
                      Note(u, "ids", removed))

SetRef(b, u) ==
    LET m == b.meta
        set == [m EXCEPT !.refs = With(@, u.ref, u.id)]
    IN  IF u.ref \in DOMAIN m.refs /\ m.refs[u.ref] = u.id THEN b
        ELSE IF u.id \notin DOMAIN m.snapshots THEN None
        ELSE Recorded(b, IF u.ref # "main" THEN set
                         ELSE [set EXCEPT !.current = u.id,
                                          !.log = Append(@, [id |-> u.id, at |-> b.at])], u)

RemoveRef(b, u) ==
    LET m == b.meta
        removed == [m EXCEPT !.refs = Restrict(@, DOMAIN @ \ {u.ref}),
                             !.current = IF u.ref = "main" THEN None ELSE @]
    IN  IF u.ref \in DOMAIN m.refs \cup {"main"} THEN Recorded(b, removed, u) ELSE b

(* TableUpdate::apply: the next builder, or None for an error. *)
Apply(u, b) ==
    CASE u.type = "AddSchema"            -> AddSchema(b, u)
      [] u.type = "SetCurrentSchema"     -> SetCurrentSchema(b, u)
      [] u.type = "RemoveSchemas"        -> RemoveSchemas(b, u)
      [] u.type = "AddSpec"              -> AddSpec(b, u)
      [] u.type = "SetDefaultSpec"       -> SetDefaultSpec(b, u)
      [] u.type = "RemovePartitionSpecs" -> RemovePartitionSpecs(b, u)
      [] u.type = "AddSortOrder"         -> AddSortOrder(b, u)
      [] u.type = "SetDefaultSortOrder"  -> SetDefaultSortOrder(b, u)
      [] u.type = "UpgradeFormatVersion" -> UpgradeFormatVersion(b, u)
      [] u.type = "AddSnapshot"          -> AddSnapshot(b, u)
      [] u.type = "RemoveSnapshots"      -> RemoveSnapshots(b, u)
      [] u.type = "SetSnapshotRef"       -> SetRef(b, u)
      [] u.type = "RemoveSnapshotRef"    -> RemoveRef(b, u)

Then(b, u) == IF b = None THEN None ELSE Apply(u, b)

ApplyAll(us, b) ==
    LET after[i \in 0..Len(us)] == IF i = 0 THEN b ELSE Then(after[i - 1], us[i])
    IN  after[Len(us)]

-----------------------------------------------------------------------------
NewBuilder(m, at) ==
    [meta |-> m, at |-> at, changes |-> << >>,
     lastSchema |-> None, lastSpec |-> None, lastOrder |-> None]

Types(b) == {b.changes[i].type : i \in DOMAIN b.changes}
Changes(b, type) == {u \in Range(b.changes) : u.type = type}
AddedIds(b) == {u.id : u \in Changes(b, "AddSnapshot")}

(* get_intermediate_snapshots: added, made main, and no longer main. *)
Intermediate(b) ==
    {u.id : u \in {v \in Changes(b, "SetSnapshotRef") :
        v.ref = "main" /\ v.id \in AddedIds(b) \ {b.meta.current}}}

\* Mutant: the entries before a removed snapshot stay.
KeepKnown(b, kept, e) ==
    IF e.id \in DOMAIN b.meta.snapshots \ Intermediate(b) THEN Append(kept, e) ELSE kept

(* One entry of update_snapshot_log: a removed snapshot ends the history    *)
(* that came before it.                                                     *)
KeepEntry(b, kept, e) ==
    IF e.id \in DOMAIN b.meta.snapshots
    THEN IF e.id \in Intermediate(b) THEN kept ELSE Append(kept, e)
    ELSE IF "RemoveSnapshots" \in Types(b) THEN << >> ELSE kept

RewritesLog(b) == Intermediate(b) # {} \/ "RemoveSnapshots" \in Types(b)

SnapshotLog(b) ==
    IF ~RewritesLog(b) THEN b.meta.log
    ELSE LET log == b.meta.log
             kept[i \in 0..Len(log)] ==
                 IF i = 0 THEN << >> ELSE KeepEntry(b, kept[i - 1], log[i])
         IN  kept[Len(log)]

(* try_normalize: what is missing and can be had is added, ... *)
Normalized(m) ==
    [m EXCEPT !.refs = IF m.current = None \/ "main" \in DOMAIN @ THEN @
                       ELSE With(@, "main", m.current),
              !.specs = IF m.spec.id \in DOMAIN @ THEN @ ELSE With(@, m.spec.id, m.spec.fields)]

(* ... and the rest is refused. *)
ValidRefs(m) ==
    /\ Range(m.refs) \subseteq DOMAIN m.snapshots
    /\ "main" \in DOMAIN m.refs => m.refs["main"] = m.current

ValidSequenceNumbers(m) ==
    IF m.format = 1 THEN m.lastSeq = 0
    ELSE \A seq \in Range(m.snapshots) : seq <= m.lastSeq

Valid(m) ==
    /\ m.current # None => m.current \in DOMAIN m.snapshots
    /\ ValidRefs(m) /\ ValidSequenceNumbers(m)

(* The default spec and sort order must fit the schema that is current now; *)
(* the log, where it had to be rewritten, must end with the current         *)
(* snapshot.                                                                *)
Build(b) ==
    LET log == SnapshotLog(b)
        m == Normalized([b.meta EXCEPT !.log = log])
        logFits == RewritesLog(b) /\ m.current # None =>
                       log # << >> /\ Last(log).id = m.current
    IN  IF /\ m.order \in DOMAIN m.orders
           /\ Binds(m.spec.fields, Current(m))
           /\ Sorts(m.orders[m.order], Current(m))
           /\ logFits /\ Valid(m)
        THEN m ELSE None

(* TableMetadataBuilder::new. *)
NewTable(format, schema, spec) ==
    LET blank == [format |-> format, lastColumn |-> -1, schemas |-> << >>, schema |-> -1,
                  specs |-> << >>, spec |-> [id |-> -1, fields |-> << >>],
                  lastPartition |-> UnpartitionedLastAssignedId,
                  orders |-> << >>, order |-> -1, snapshots |-> << >>, lastSeq |-> 0,
                  current |-> None, refs |-> << >>, log |-> << >>]
        begun == [NewBuilder(blank, 1) EXCEPT !.lastSchema = 0]
        schemed == Then(Then(begun, [type |-> "AddSchema", schema |-> schema]),
                        [type |-> "SetCurrentSchema", id |-> LastAdded])
        parted == Then(Then(schemed, [type |-> "AddSpec", fields |-> spec]),
                       [type |-> "SetDefaultSpec", id |-> LastAdded])
        ordered == Then(Then(parted, [type |-> "AddSortOrder", order |-> << >>]),
                        [type |-> "SetDefaultSortOrder", id |-> LastAdded])
    IN  IF ordered = None THEN None ELSE Build(ordered)

-----------------------------------------------------------------------------
FieldsOf(m) == UNION {Range(s) : s \in Range(m.specs)}
ColumnsOf(m) == UNION {DOMAIN s : s \in Range(m.schemas)}

Init ==
    /\ session \in Sessions
    /\ \E format \in session.formats, spec \in session.specs :
          published = NewTable(format, [c \in {1} |-> FirstColumn], spec)
    /\ published # None
    /\ builder = None
    /\ mains = <<None>>
    /\ columns = ColumnsOf(published) /\ fields = FieldsOf(published) /\ drawn = {}

(* Loading the table and calling into_builder. *)
Begin ==
    /\ builder = None /\ Len(mains) < session.versions
    /\ builder' = NewBuilder(published, Len(mains) + 1)
    /\ UNCHANGED <<session, published, mains, columns, fields, drawn>>

Call(u) ==
    /\ u.type \in session.kinds
    /\ Len(builder.changes) < session.calls
    /\ builder' = Apply(u, builder)
    /\ UNCHANGED <<session, published, mains, columns, fields, drawn>>

(* An application keeps, renames and drops columns, and gives a new one the *)
(* id that follows last-column-id.                                          *)
NextSchemas(m) ==
    LET old == SUBSET DOMAIN Current(m)
        new == IF m.lastColumn = MaxColumn THEN {} ELSE {d \cup {m.lastColumn + 1} : d \in old}
    IN  {s \in UNION {[d -> ColumnNames] : d \in (old \cup new) \ {{}}} : IsInjective(s)}

CallAddSchema ==
    \E s \in NextSchemas(builder.meta) : Call([type |-> "AddSchema", schema |-> s])

CallSetCurrentSchema ==
    \E id \in DOMAIN builder.meta.schemas \cup {LastAdded} :
        Call([type |-> "SetCurrentSchema", id |-> id])

CallRemoveSchemas ==
    \E id \in DOMAIN builder.meta.schemas : Call([type |-> "RemoveSchemas", ids |-> {id}])

(* New fields come without ids; a spec that was, or once was, a spec of the *)
(* table comes with the ids it had.                                         *)
CallAddSpec ==
    LET m == builder.meta
    IN  \E fs \in Specs \cup Range(m.specs) \cup {<<f>> : f \in fields} :
        \E asked \in WithLentIds(m, fs) : Call([type |-> "AddSpec", fields |-> asked])

CallSetDefaultSpec ==
    \E id \in DOMAIN builder.meta.specs \cup {LastAdded} :
        Call([type |-> "SetDefaultSpec", id |-> id])

CallRemovePartitionSpecs ==
    \E id \in DOMAIN builder.meta.specs : Call([type |-> "RemovePartitionSpecs", ids |-> {id}])

CallAddSortOrder ==
    \E order \in {<< >>} \cup {<<c>> : c \in 1..MaxColumn} :
        Call([type |-> "AddSortOrder", order |-> order])

CallSetDefaultSortOrder ==
    \E id \in DOMAIN builder.meta.orders \cup {LastAdded} :
        Call([type |-> "SetDefaultSortOrder", id |-> id])

CallUpgradeFormatVersion ==
    \E format \in 1..2 : Call([type |-> "UpgradeFormatVersion", format |-> format])

(* TableMetadata::next_sequence_number *)
NextSequenceNumber(m) == IF m.format = 1 THEN 0 ELSE m.lastSeq + 1

(* SnapshotProducer numbers a snapshot after the table it has loaded, and   *)
(* draws an id that no snapshot has.                                        *)
CallAddSnapshot ==
    \E id \in SnapshotIds \ (drawn \cup AddedIds(builder)),
       parent \in {None, builder.meta.current},
       seq \in {NextSequenceNumber(published), NextSequenceNumber(builder.meta)} :
        Call([type |-> "AddSnapshot", id |-> id, parent |-> parent, seq |-> seq])

CallRemoveSnapshots ==
    \E ids \in SUBSET DOMAIN builder.meta.snapshots :
        Call([type |-> "RemoveSnapshots", ids |-> ids])

CallSetRef ==
    \E ref \in Tags \cup {"main"}, id \in DOMAIN builder.meta.snapshots :
        Call([type |-> "SetSnapshotRef", ref |-> ref, id |-> id])

CallRemoveRef ==
    \E ref \in Tags \cup {"main"} : Call([type |-> "RemoveSnapshotRef", ref |-> ref])

(* build, and the catalog publishes the result; or build fails. *)
Commit ==
    /\ builder # None
    /\ builder' = None
    /\ LET m == Build(builder)
       IN  \/ /\ m # None
              /\ published' = m
              /\ mains' = Append(mains, m.current)
              /\ columns' = columns \cup ColumnsOf(m)
              /\ fields' = fields \cup FieldsOf(m)
              /\ drawn' = drawn \cup DOMAIN m.snapshots
           \/ m = None /\ UNCHANGED <<published, mains, columns, fields, drawn>>
    /\ UNCHANGED session

Evolve ==
    \/ CallAddSchema \/ CallSetCurrentSchema \/ CallRemoveSchemas
    \/ CallAddSpec \/ CallSetDefaultSpec \/ CallRemovePartitionSpecs
    \/ CallAddSortOrder \/ CallSetDefaultSortOrder \/ CallUpgradeFormatVersion
    \/ CallAddSnapshot \/ CallRemoveSnapshots \/ CallSetRef \/ CallRemoveRef

Next == Begin \/ (builder # None /\ Evolve) \/ Commit

Spec == Init /\ [][Next]_vars

-----------------------------------------------------------------------------
(* The changes a build reports, applied to the metadata it began with, give *)
(* the metadata it built: calls that found what they asked for, -1 for what *)
(* was added last, and calls that changed nothing included.  A catalog that *)
(* is sent the changes arrives at the same table.                           *)
ChangesRebuildIt ==
    [][published' # published =>
        LET again == ApplyAll(builder.changes, NewBuilder(published, builder.at))
        IN  again # None /\ Build(again) = published']_vars

(* An id means the same field in every file ever written: whatever schemas  *)
(* and specs were added and removed, no two fields of specs of different    *)
(* versions that share an id differ in column or transform, and the next    *)
(* column gets an id no column has had.                                     *)
FieldIdsKeepTheirMeaning ==
    /\ \A f, g \in fields : f.id = g.id => SameColumn(f, g)
    /\ \A f \in fields : f.id <= published.lastPartition
    /\ \A c \in columns : c <= published.lastColumn

(* Reading the table as of the time of a version, by the snapshot log,      *)
(* gives what was current in that version or, when the log no longer goes   *)
(* back so far, nothing: commits that moved main more than once, rollbacks  *)
(* and expired snapshots leave no gap that another snapshot fills.  It says *)
(* nothing of a version in which no snapshot was current: where main was    *)
(* removed, remove_ref leaves the log as it was, and its last entry names   *)
(* the former snapshot.                                                     *)
TimeTravelIsRight ==
    \A v \in DOMAIN mains :
        LET before == {i \in DOMAIN published.log : published.log[i].at <= v}
        IN  mains[v] # None /\ before # {} => published.log[Max(before)].id = mains[v]
=============================================================================
