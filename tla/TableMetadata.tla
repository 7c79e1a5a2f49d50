---------------------------- MODULE TableMetadata ----------------------------
(***************************************************************************)
(* The table metadata a catalog points to, and the updates and             *)
(* requirements a TableCommit is made of                                   *)
(* (patches/iceberg-0.9.1/src/catalog/mod.rs,                              *)
(* spec/table_metadata.rs, spec/table_metadata_builder.rs).                *)
(*                                                                         *)
(* Abstractions.  A metadata file is the value it stores.  refs["main"]    *)
(* and current_snapshot_id are one field: try_normalize refuses metadata   *)
(* where they differ.  The schema and the partition spec are constant: no  *)
(* transaction action changes them.  Timestamps are left out; a clock that *)
(* is off by more than the tolerated minute is one of the failures         *)
(* Transaction allows.  A data file holds one row.                         *)
(***************************************************************************)
EXTENDS Integers, Sequences, FiniteSets

CONSTANTS
    Writers,        \* sessions that commit transactions
    Files,          \* data file paths
    SnapshotIds,    \* the 63-bit random snapshot ids
    PropertyKeys,   \* keys of the table properties
    SortOrders,     \* sort orders a table can be given
    FormatVersion,  \* 1, 2 or 3
    None            \* Option::None

ASSUME FormatAssumption == FormatVersion \in 1..3
ASSUME FilesAssumption == IsFiniteSet(Files)
-----------------------------------------------------------------------------
(* A commit uuid (Uuid::now_v7): unique to one run of one action.  It names *)
(* the manifest and, with the snapshot id, the manifest list the run writes. *)
CommitUuids == Writers \X Nat \X Nat

Manifest == [uuid: CommitUuids, seq: Nat, first: Nat, files: SUBSET Files]

Snapshot == [parent: SnapshotIds \cup {None}, seq: Nat, list: CommitUuids,
             first: Nat, added: Nat, total: Nat]

Metadata ==
    [uuid: Nat, lastSeq: Nat, nextRow: Nat,
     current: SnapshotIds \cup {None},
     snapshots: [SnapshotIds -> Snapshot \cup {None}],
     log: Seq(SnapshotIds),
     order: SortOrders \cup {None},
     props: [PropertyKeys -> Writers \cup {None}]]

ASSUME NoneAssumption ==
    None \notin SnapshotIds \cup Writers \cup SortOrders \cup Snapshot \cup Metadata

(* The snapshot ids the metadata knows: the keys of its snapshots map. *)
KnownIds(m) == {id \in SnapshotIds : m.snapshots[id] # None}

(* TableMetadataBuilder::new: what create_table writes. *)
NewMetadata(uuid) ==
    [uuid |-> uuid, lastSeq |-> 0, nextRow |-> 0, current |-> None,
     snapshots |-> [id \in SnapshotIds |-> None], log |-> << >>, order |-> None,
     props |-> [k \in PropertyKeys |-> None]]

\* Mutant: counts down.
PreviousSequenceNumber(m) == IF FormatVersion = 1 THEN 0 ELSE m.lastSeq - 1

NextSequenceNumber(m) == IF FormatVersion = 1 THEN 0 ELSE m.lastSeq + 1

-----------------------------------------------------------------------------
(* TableUpdate::apply, one operator per update a transaction emits. *)

(* The errors add_snapshot can return. *)
CanAddSnapshot(m, id, s) ==
    /\ id \notin KnownIds(m)
    /\ FormatVersion # 1 /\ s.parent # None => s.seq > m.lastSeq
    /\ FormatVersion = 3 => s.first >= m.nextRow

\* Mutant: next-row-id stays behind.
AddSnapshotWithoutRows(m, id, s) ==
    [m EXCEPT !.snapshots[id] = s, !.lastSeq = s.seq]

AddSnapshot(m, id, s) ==
    [m EXCEPT !.snapshots[id] = s,
              !.lastSeq = s.seq,
              !.nextRow = IF FormatVersion = 3 THEN @ + s.added ELSE @]

(* set_ref on the main branch; a ref that is already there changes nothing. *)
SetSnapshotRef(m, id) ==
    IF m.current = id THEN m
    ELSE [m EXCEPT !.current = id, !.log = Append(@, id)]

(* add_sort_order reuses the id of an equal order, so within a table an     *)
(* order is its id; one that was created again may number them otherwise.   *)
SetDefaultSortOrder(m, order) == [m EXCEPT !.order = order]

(* SetProperties, then RemoveProperties. *)
UpdateProperties(m, w, set, remove) ==
    [m EXCEPT !.props = [k \in PropertyKeys |->
        IF k \in remove THEN None ELSE IF k \in set THEN w ELSE m.props[k]]]

(* update_snapshot_log, called by build: snapshots that were main only in   *)
(* the middle of this commit leave the log.                                 *)
Build(m, added) ==
    LET intermediate == added \ {m.current}
        Stays(id) == id \notin intermediate
    IN  IF intermediate = {} THEN m
        ELSE [m EXCEPT !.log = SelectSeq(@, Stays)]

-----------------------------------------------------------------------------
\* Mutant: the snapshot of main is not compared.
HoldsForAnySnapshot(r, m) ==
    \/ r.type = "UuidMatch" /\ m.uuid = r.uuid
    \/ r.type = "RefSnapshotIdMatch"
    \/ r.type = "DefaultSortOrderIdMatch" /\ m.order = r.order

(* TableRequirement::check on the metadata of an existing table. *)
Holds(r, m) ==
    \/ r.type = "UuidMatch" /\ m.uuid = r.uuid
    \/ r.type = "RefSnapshotIdMatch" /\ m.current = r.snapshot
    \/ r.type = "DefaultSortOrderIdMatch" /\ m.order = r.order
=============================================================================
