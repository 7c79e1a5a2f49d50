--------------------------- MODULE DeleteFileIndex ---------------------------
(***************************************************************************)
(* Which delete files apply to a data file                                 *)
(* (patches/iceberg-0.9.1/src/delete_file_index.rs).  A file is a record   *)
(* with its content, sequence number, partition and partition spec; the    *)
(* partition of an unpartitioned file is << >>.  Every file has a sequence *)
(* number: inherit_data gives one to whatever a manifest leaves without,   *)
(* but for existing entries of later versions, which must have their own.  *)
(***************************************************************************)
EXTENDS Integers

(* PopulatedDeleteFileIndex::new. *)
Populate(files) ==
    LET global == {d \in files : d.partition = << >> /\ d.content = "eq"}
    IN  [global |-> global,
         eq     |-> {d \in files \ global : d.content = "eq"},
         pos    |-> {d \in files : d.content = "pos"}]

\* Mutant: position deletes of the same commit are left out.
DeletesForDataFileStrict(index, f) ==
    {d \in index.global : d.seq > f.seq}
    \cup {d \in index.eq \cup index.pos :
             d.partition = f.partition /\ d.seq > f.seq /\ d.spec = f.spec}

(* PopulatedDeleteFileIndex::get_deletes_for_data_file. *)
DeletesForDataFile(index, f) ==
    {d \in index.global : d.seq > f.seq}
    \cup {d \in index.eq :
             d.partition = f.partition /\ d.seq > f.seq /\ d.spec = f.spec}
    \cup {d \in index.pos :
             d.partition = f.partition /\ d.seq >= f.seq /\ d.spec = f.spec}

-----------------------------------------------------------------------------
(* The rule of the table format: a delete applies to the files of its       *)
(* partition, or of the whole table for an equality delete without a        *)
(* partition, that are older than it; a position delete also to files of    *)
(* its own commit.                                                          *)
DeleteApplies(d, f) ==
    /\ \/ d.spec = f.spec /\ d.partition = f.partition
       \/ d.content = "eq" /\ d.partition = << >>
    /\ IF d.content = "pos" THEN f.seq <= d.seq ELSE f.seq < d.seq
=============================================================================
