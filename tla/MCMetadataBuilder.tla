-------------------------- MODULE MCMetadataBuilder --------------------------
(* Instances of MetadataBuilder for TLC. *)
EXTENDS MetadataBuilder

CONSTANTS a, b, s1, s2, s3, t

Field(source, name, transform) ==
    [source |-> source, name |-> name, transform |-> transform, id |-> None]

(* Fields of two columns and two transforms; one is named like a column. *)
SomeSpecs ==
    {<< >>, <<Field(1, a, "identity")>>, <<Field(1, "p", "bucket")>>,
     <<Field(2, "p", "bucket")>>, <<Field(2, "q", "bucket"), Field(1, "p", "bucket")>>}

(* Evolution of columns and partitions, of orders, and of snapshots, apart. *)
Partitioning(formats, versions) ==
    [kinds |-> {"AddSchema", "SetCurrentSchema", "RemoveSchemas", "AddSpec",
                "SetDefaultSpec", "RemovePartitionSpecs", "UpgradeFormatVersion"},
     formats |-> formats, specs |-> {<< >>, <<Field(1, "p", "bucket")>>},
     calls |-> 3, versions |-> versions]
Ordering ==
    [kinds |-> {"AddSchema", "SetCurrentSchema", "AddSortOrder", "SetDefaultSortOrder"},
     formats |-> {2}, specs |-> {<< >>}, calls |-> 3, versions |-> 3]
Snapshotting(calls, versions) ==
    [kinds |-> {"AddSnapshot", "RemoveSnapshots", "SetSnapshotRef",
                "RemoveSnapshotRef", "UpgradeFormatVersion"},
     formats |-> 1..2, specs |-> {<< >>}, calls |-> calls, versions |-> versions]
Retaining ==
    [kinds |-> {"AddSnapshot", "RemoveSnapshots", "SetSnapshotRef"},
     formats |-> {2}, specs |-> {<< >>}, calls |-> 3, versions |-> 4]
EachApart ==
    {Partitioning({1}, 3), Partitioning({2}, 2), Ordering,
     Snapshotting(4, 2), Snapshotting(3, 3), Retaining}

AnySnapshotIds == Permutations(SnapshotIds)
=============================================================================
