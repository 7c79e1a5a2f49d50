----------------------------- MODULE Transaction -----------------------------
(***************************************************************************)
(* Optimistic commits against one catalog table                            *)
(* (patches/iceberg-0.9.1/src/transaction/mod.rs, snapshot.rs, append.rs,  *)
(* and MemoryCatalog::load_table / update_table).                          *)
(*                                                                         *)
(* Each writer runs Transaction::commit: load the table, run the actions   *)
(* of the transaction on it (a fast append writes a manifest and a         *)
(* manifest list), then ask the catalog to check the collected             *)
(* requirements and apply the collected updates under its mutex.  A failed *)
(* requirement is retryable: the writer reloads and runs its actions       *)
(* again, up to commit.retry.num-retries times.                            *)
(*                                                                         *)
(* The writers may be tasks or processes; the table may be dropped and     *)
(* created again under the same name; a write to storage may fail; the     *)
(* commit future may be dropped at any await; and with a remote catalog    *)
(* the answer to a commit may be lost.                                     *)
(***************************************************************************)
EXTENDS TableMetadata

CONSTANTS
    Tx,                \* Tx[w]: the actions of w's transaction, in order
    NumRetries,        \* commit.retry.num-retries
    MaxSubmits,        \* how often the application submits a transaction
    MaxTables,         \* how many tables are created under the name
    MayFail,           \* storage writes can fail
    MayCancel,         \* a commit future can be dropped
    MayTimeOut,        \* commit.retry.total-timeout-ms can elapse
    MayLoseResponse    \* the catalog is remote and answers can be lost

Actions ==
    [kind: {"append"}, files: SUBSET Files, checkDuplicate: BOOLEAN]
    \cup [kind: {"sort"}, order: SortOrders]
    \cup [kind: {"props"}, set: SUBSET PropertyKeys, remove: SUBSET PropertyKeys]

ASSUME TxAssumption == Tx \in [Writers -> Seq(Actions)]
ASSUME BoundAssumption ==
    NumRetries \in Nat /\ MaxSubmits \in Nat /\ MaxTables \in Nat
ASSUME EnvironmentAssumption ==
    {MayFail, MayCancel, MayTimeOut, MayLoseResponse} \subseteq BOOLEAN

VARIABLES
    table,     \* the metadata the catalog points to, None while dropped
    tables,    \* how many tables have been created (uuids are 1..tables)
    lists,     \* storage: manifest lists written so far, by commit uuid
    lock,      \* holder of the catalog mutex, or None
    merge,     \* the metadata update_table is building under the mutex
    pc,        \* where each writer is in Transaction::commit
    work,      \* current_table of do_commit
    staged,    \* the ActionCommits collected by do_commit
    attempt,   \* calls of do_commit since the transaction was submitted
    serial,    \* calls of do_commit ever: makes commit uuids unique
    submits    \* times the application submitted the transaction

vars == <<table, tables, lists, lock, merge, pc, work, staged,
          attempt, serial, submits>>
catalogVars == <<table, tables, lock, merge>>

InFlight == {"load", "act", "update", "merge"}
Ended == {"committed", "conflict", "failed", "cancelled", "unknown"}

-----------------------------------------------------------------------------
(* The manifests reachable from the current snapshot, and their data files. *)
ManifestsOf(m) ==
    IF m.current = None THEN {} ELSE lists[m.snapshots[m.current].list]

FilesOf(m) == UNION {mf.files : mf \in ManifestsOf(m)}

(* SnapshotProducer::summary: total-data-files of the new snapshot.  The    *)
(* previous snapshot is looked up under the id of the snapshot being        *)
(* produced, whose parent is taken.                                         *)
TotalDataFiles(m, id, files) ==
    LET parent == IF id \in KnownIds(m) THEN m.snapshots[id].parent ELSE None
    IN  Cardinality(files)
        + (IF parent = None THEN 0 ELSE m.snapshots[parent].total)

(* The manifest list a fast append writes: the manifests of the current     *)
(* snapshot that have live entries, and one for the added files, which is   *)
(* given its sequence number and first row id here.                         *)
AddedManifest(m, uuid, files) ==
    [uuid |-> uuid, seq |-> NextSequenceNumber(m),
     first |-> IF FormatVersion = 3 THEN m.nextRow ELSE 0, files |-> files]

\* Mutant: the manifests of the current snapshot are not carried over.
ManifestListOfAddedOnly(m, uuid, files) == {AddedManifest(m, uuid, files)}

ManifestList(m, uuid, files) ==
    {mf \in ManifestsOf(m) : mf.files # {}} \cup {AddedManifest(m, uuid, files)}

(* SnapshotProducer::commit. *)
NewSnapshot(m, id, uuid, files) ==
    [parent |-> m.current, seq |-> NextSequenceNumber(m), list |-> uuid,
     first |-> IF FormatVersion = 3 THEN m.nextRow ELSE 0,
     added |-> IF FormatVersion = 3 THEN Cardinality(files) ELSE 0,
     total |-> TotalDataFiles(m, id, files)]

AppendCommit(m, id, uuid, files) ==
    [kind |-> "append", id |-> id, snapshot |-> NewSnapshot(m, id, uuid, files),
     reqs |-> {[type |-> "UuidMatch", uuid |-> m.uuid],
               [type |-> "RefSnapshotIdMatch", snapshot |-> m.current]}]

(* ReplaceSortOrderAction::commit; the schema id requirement always holds. *)
SortCommit(m, a) ==
    [kind |-> "sort", order |-> a.order,
     reqs |-> {[type |-> "DefaultSortOrderIdMatch", order |-> m.order]}]

(* UpdatePropertiesAction::commit. *)
PropsCommit(w, a) ==
    [kind |-> "props", by |-> w, set |-> a.set, remove |-> a.remove, reqs |-> {}]

(* The updates of one ActionCommit on a TableMetadataBuilder. *)
CanApply(c, m) == c.kind = "append" => CanAddSnapshot(m, c.id, c.snapshot)

ApplyCommit(c, m) ==
    CASE c.kind = "append" -> SetSnapshotRef(AddSnapshot(m, c.id, c.snapshot), c.id)
      [] c.kind = "sort"   -> SetDefaultSortOrder(m, c.order)
      [] c.kind = "props"  -> UpdateProperties(m, c.by, c.set, c.remove)

(* The snapshots a list of ActionCommits adds. *)
AddedIds(commits) ==
    {commits[i].id : i \in {j \in DOMAIN commits : commits[j].kind = "append"}}

(* The requirements of every ActionCommit, checked against one metadata. *)
AllHold(commits, m) ==
    \A i \in DOMAIN commits : \A r \in commits[i].reqs : Holds(r, m)

-----------------------------------------------------------------------------
Init ==
    /\ table = NewMetadata(1) /\ tables = 1
    /\ lists = [u \in {} |-> {}]
    /\ lock = None
    /\ merge = [meta |-> None, done |-> 0]
    /\ pc = [w \in Writers |-> IF Tx[w] = << >> THEN "committed" ELSE "load"]
    /\ work = [w \in Writers |-> None]
    /\ staged = [w \in Writers |-> << >>]
    /\ attempt = [w \in Writers |-> 0]
    /\ serial = [w \in Writers |-> 0]
    /\ submits = [w \in Writers |-> 1]

\* Mutant: the mutex is not released.
EndHoldingLock(w, outcome) ==
    pc' = [pc EXCEPT ![w] = outcome] /\ UNCHANGED lock

(* The writer leaves commit with an outcome; the mutex guard is dropped. *)
End(w, outcome) ==
    /\ pc' = [pc EXCEPT ![w] = outcome]
    /\ lock' = IF lock = w THEN None ELSE lock

\* Mutant: a retry goes on with the table it had.
RebaseOnce(w) == work' = [work EXCEPT ![w] = IF @ = None THEN table ELSE @]

(* The transaction is rebased on the table that was loaded. *)
Rebase(w) == work' = [work EXCEPT ![w] = table]

(* do_commit: load_table, rebase the transaction, forget what was collected. *)
LoadTable(w) ==
    /\ pc[w] = "load" /\ lock = None
    /\ \/ /\ table # None
          /\ pc' = [pc EXCEPT ![w] = "act"]
          /\ Rebase(w)
          /\ staged' = [staged EXCEPT ![w] = << >>]
          /\ attempt' = [attempt EXCEPT ![w] = @ + 1]
          /\ serial' = [serial EXCEPT ![w] = @ + 1]
          /\ UNCHANGED lock
       \/ /\ table = None \/ MayFail
          /\ End(w, "failed")
          /\ UNCHANGED <<work, staged, attempt, serial>>
    /\ UNCHANGED <<table, tables, merge, lists, submits>>

(* Transaction::apply: the action's commit becomes part of the transaction. *)
Stage(w, c) ==
    /\ CanApply(c, work[w]) /\ \A r \in c.reqs : Holds(r, work[w])
    /\ work' = [work EXCEPT ![w] = Build(ApplyCommit(c, @), AddedIds(<<c>>))]
    /\ staged' = [staged EXCEPT ![w] = Append(@, c)]
    /\ UNCHANGED <<pc, lock>>

\* Mutant: validate_duplicate_files is not called.
RefusesAppendOfNothing(a, m) == a.files = {}

(* The reasons FastAppendAction::commit refuses the files.  An append of no *)
(* files is taken if it sets snapshot properties; the appends here set none. *)
RefusesAppend(a, m) ==
    \/ a.files = {}
    \/ a.checkDuplicate /\ a.files \cap FilesOf(m) # {}

\* Mutant: the manifest list writer is not closed; nothing reaches storage.
DropManifestList(uuid, mfs) == UNCHANGED lists

WriteManifestList(uuid, mfs) ==
    lists' = [u \in DOMAIN lists \cup {uuid} |-> IF u = uuid THEN mfs ELSE lists[u]]

(* FastAppendAction::commit with SnapshotProducer: validate, write the      *)
(* manifest and the manifest list under fresh names, stage the snapshot.    *)
(* The id is drawn at random and redrawn while the loaded table has it.     *)
FastAppend(w, a) ==
    LET m == work[w]
        uuid == <<w, serial[w], Len(staged[w]) + 1>>
    IN  \/ /\ ~RefusesAppend(a, m)
           /\ WriteManifestList(uuid, ManifestList(m, uuid, a.files))
           /\ \E id \in SnapshotIds \ KnownIds(m) :
                 Stage(w, AppendCommit(m, id, uuid, a.files))
        \/ /\ RefusesAppend(a, m) \/ MayFail
           /\ End(w, "failed")
           /\ UNCHANGED <<work, staged, lists>>

ReplaceSortOrder(w, a) ==
    Stage(w, SortCommit(work[w], a)) /\ UNCHANGED lists

(* A key both set and removed is refused. *)
UpdateTableProperties(w, a) ==
    /\ IF a.set \cap a.remove = {} THEN Stage(w, PropsCommit(w, a))
       ELSE End(w, "failed") /\ UNCHANGED <<work, staged>>
    /\ UNCHANGED lists

(* One turn of the loop of do_commit over the actions. *)
RunAction(w) ==
    /\ pc[w] = "act" /\ Len(staged[w]) < Len(Tx[w])
    /\ LET a == Tx[w][Len(staged[w]) + 1]
       IN  \/ a.kind = "append" /\ FastAppend(w, a)
           \/ a.kind = "sort"   /\ ReplaceSortOrder(w, a)
           \/ a.kind = "props"  /\ UpdateTableProperties(w, a)
    /\ UNCHANGED <<table, tables, merge, attempt, serial, submits>>

(* A conflict is retryable: back to the load after the backoff, until the   *)
(* retries are used up or the total delay has passed.                       *)
Conflict(w) ==
    \/ /\ attempt[w] <= NumRetries
       /\ pc' = [pc EXCEPT ![w] = "load"]
       /\ UNCHANGED lock
    \/ /\ attempt[w] > NumRetries \/ MayTimeOut
       /\ End(w, "conflict")

\* Mutant: the mutex is released once the requirements are checked.
AcquireNothing(w) == UNCHANGED lock

Acquire(w) == lock' = w

(* Catalog::update_table takes the mutex, loads the table and checks every  *)
(* requirement of the TableCommit.                                          *)
UpdateTable(w) ==
    /\ pc[w] = "act" /\ Len(staged[w]) = Len(Tx[w]) /\ lock = None
    /\ \/ /\ table # None /\ AllHold(staged[w], table)
          /\ Acquire(w)
          /\ merge' = [meta |-> table, done |-> 0]
          /\ pc' = [pc EXCEPT ![w] = "merge"]
       \/ /\ table # None /\ ~AllHold(staged[w], table)
          /\ Conflict(w)
          /\ UNCHANGED merge
       \/ /\ table = None \/ MayFail
          /\ End(w, "failed")
          /\ UNCHANGED merge
    /\ UNCHANGED <<table, tables, lists, work, staged, attempt,
                   serial, submits>>

MergeCommit(c) ==
    /\ merge' = [meta |-> ApplyCommit(c, merge.meta), done |-> merge.done + 1]
    /\ UNCHANGED table

(* TableCommit::apply, the updates of one ActionCommit at a time. *)
ApplyUpdates(w) ==
    /\ pc[w] = "merge" /\ merge.done < Len(staged[w])
    /\ LET c == staged[w][merge.done + 1]
       IN  \/ /\ CanApply(c, merge.meta)
              /\ MergeCommit(c)
              /\ UNCHANGED <<pc, lock>>
           \/ /\ ~CanApply(c, merge.meta) \/ MayFail
              /\ End(w, "failed")
              /\ UNCHANGED <<table, merge>>
    /\ UNCHANGED <<tables, lists, work, staged, attempt,
                   serial, submits>>

(* The metadata TableCommit::apply returns, behind the catalog's pointer. *)
FlipPointer(w) == table' = Build(merge.meta, AddedIds(staged[w]))

\* Mutant: the pointer is flipped before the metadata file is written.
FailAfterFlip(w) == MayFail /\ End(w, "failed") /\ FlipPointer(w)

FailToWrite(w) == MayFail /\ End(w, "failed") /\ UNCHANGED table

(* Write the new metadata file, then flip the pointer. *)
WriteMetadata(w) ==
    /\ pc[w] = "merge" /\ merge.done = Len(staged[w])
    /\ \/ /\ FlipPointer(w)
          /\ \/ End(w, "committed")
             \/ MayLoseResponse /\ End(w, "unknown")
       \/ FailToWrite(w)
    /\ UNCHANGED <<tables, merge, lists, work, staged, attempt,
                   serial, submits>>

-----------------------------------------------------------------------------
(* The future of commit is dropped at an await.  A remote catalog goes on    *)
(* with an update it has received: there only the answer is lost.           *)
Cancel(w) ==
    /\ MayCancel /\ pc[w] \in InFlight
    /\ MayLoseResponse => pc[w] # "merge"
    /\ End(w, "cancelled")
    /\ UNCHANGED <<table, tables, merge, lists, work, staged, attempt,
                   serial, submits>>

(* The application makes the transaction again after anything but success. *)
Resubmit(w) ==
    /\ pc[w] \in Ended \ {"committed"} /\ submits[w] < MaxSubmits
    /\ lock = None /\ table # None
    /\ pc' = [pc EXCEPT ![w] = "load"]
    /\ attempt' = [attempt EXCEPT ![w] = 0]
    /\ submits' = [submits EXCEPT ![w] = @ + 1]
    /\ UNCHANGED <<table, tables, lists, lock, merge, work, staged, serial>>

(* Another session drops the table, and creates one of the same name. *)
DropTable ==
    /\ lock = None /\ table # None /\ tables < MaxTables
    /\ table' = None
    /\ UNCHANGED <<tables, lists, lock, merge, pc, work, staged,
                   attempt, serial, submits>>

CreateTable ==
    /\ lock = None /\ table = None
    /\ table' = NewMetadata(tables + 1) /\ tables' = tables + 1
    /\ UNCHANGED <<lists, lock, merge, pc, work, staged, attempt,
                   serial, submits>>

(* Every commit has returned: nothing is left to do. *)
Finished ==
    /\ \A w \in Writers : pc[w] \in Ended
    /\ UNCHANGED vars

Step(w) ==
    \/ LoadTable(w) \/ RunAction(w) \/ UpdateTable(w)
    \/ ApplyUpdates(w) \/ WriteMetadata(w)

Next ==
    \/ \E w \in Writers : Step(w) \/ Cancel(w) \/ Resubmit(w)
    \/ DropTable \/ CreateTable \/ Finished

Spec == Init /\ [][Next]_vars

(* A task that can run is polled: the executor never forgets a ready task. *)
FairSpec == Spec /\ \A w \in Writers : WF_vars(Step(w))

-----------------------------------------------------------------------------
Requirement ==
    [type: {"UuidMatch"}, uuid: Nat]
    \cup [type: {"RefSnapshotIdMatch"}, snapshot: SnapshotIds \cup {None}]
    \cup [type: {"DefaultSortOrderIdMatch"}, order: SortOrders \cup {None}]

ActionCommit ==
    [kind: {"append"}, id: SnapshotIds, snapshot: Snapshot, reqs: SUBSET Requirement]
    \cup [kind: {"sort"}, order: SortOrders, reqs: SUBSET Requirement]
    \cup [kind: {"props"}, by: Writers, set: SUBSET PropertyKeys,
          remove: SUBSET PropertyKeys, reqs: SUBSET Requirement]

(* The type of every variable. *)
TypeOK ==
    /\ table \in Metadata \cup {None} /\ tables \in Nat
    /\ DOMAIN lists \subseteq CommitUuids
    /\ \A u \in DOMAIN lists : lists[u] \subseteq Manifest
    /\ lock \in Writers \cup {None}
    /\ merge.meta \in Metadata \cup {None} /\ merge.done \in Nat
    /\ pc \in [Writers -> InFlight \cup Ended]
    /\ work \in [Writers -> Metadata \cup {None}]
    /\ staged \in [Writers -> Seq(ActionCommit)]
    /\ attempt \in [Writers -> Nat] /\ serial \in [Writers -> Nat]
    /\ submits \in [Writers -> Nat]

Contribution(w) ==
    IF table = None THEN {} ELSE {mf \in ManifestsOf(table) : mf.uuid[1] = w}

(* Every snapshot of the published metadata has a manifest list that was    *)
(* written completely: a reader that loads the table can plan a scan of any *)
(* of its snapshots, whatever failed or was cancelled on the way.           *)
SnapshotsReadable ==
    table # None =>
        \A id \in KnownIds(table) :
            table.snapshots[id].list \in DOMAIN lists

(* The snapshots of a table form one line: the log holds all of them, each  *)
(* is the parent of the next and has a smaller sequence number (delete      *)
(* files apply by sequence number), and main is the last one.  Concurrent   *)
(* appends never fork the history.                                          *)
LinearHistory ==
    table # None =>
        LET log == table.log
            snap(i) == table.snapshots[log[i]]
        IN  /\ {log[i] : i \in DOMAIN log} = KnownIds(table)
            /\ table.current = IF log = << >> THEN None ELSE log[Len(log)]
            /\ \A i \in DOMAIN log :
                  snap(i).parent = IF i = 1 THEN None ELSE log[i - 1]
            /\ FormatVersion # 1 =>
                  /\ \A i \in DOMAIN log : snap(i).seq = i
                  /\ table.lastSeq = Len(log)

(* No data file is reachable twice from main, although the writers may be   *)
(* given the same files and may submit a transaction again when they do not *)
(* know its outcome: validate_duplicate_files looks at the table the commit *)
(* is based on.                                                             *)
NoDuplicateFiles ==
    table # None =>
        \A a, b \in ManifestsOf(table) : a # b => a.files \cap b.files = {}

(* Format version 3: the row ids given to two manifests never overlap, and  *)
(* all of them are below next-row-id.                                       *)
RowIdsDisjoint ==
    table # None /\ FormatVersion = 3 =>
        \A a \in ManifestsOf(table) :
            /\ a.first + Cardinality(a.files) <= table.nextRow
            /\ \A b \in ManifestsOf(table) \ {a} :
                  \/ a.first + Cardinality(a.files) <= b.first
                  \/ b.first + Cardinality(b.files) <= a.first

(* A commit that returned an error, or was cancelled, has added nothing to  *)
(* the table.                                                               *)
FailureLeavesNoTrace ==
    \A w \in Writers :
        submits[w] = 1 /\ pc[w] \in {"conflict", "failed", "cancelled"}
            => Contribution(w) = {}

(* A commit that returned Ok added each of its appends exactly once.        *)
SuccessIsVisible ==
    \A w \in Writers :
        /\ pc[w] = "committed" /\ table # None
        /\ \E c \in {staged[w][i] : i \in DOMAIN staged[w]} :
              c.kind = "append"
              /\ [type |-> "UuidMatch", uuid |-> table.uuid] \in c.reqs
        => \A i \in {j \in DOMAIN Tx[w] : Tx[w][j].kind = "append"} :
              Cardinality({mf \in Contribution(w) : mf.files = Tx[w][i].files}) = 1

(* What main reaches only grows while the table lives: no commit drops the  *)
(* files of a commit it raced with.                                         *)
NothingIsLost ==
    [][table # None /\ table' # None /\ table'.uuid = table.uuid
        => ManifestsOf(table) \subseteq ManifestsOf(table)']_vars

(* The pointer moves only when everything the transaction assumed of the    *)
(* table still holds of the metadata being replaced: requirements checked   *)
(* at the start of update_table are not stale when the pointer is flipped.  *)
CommitsOnCheckedBase ==
    [][\A w \in Writers :
        pc[w] # "committed" /\ pc'[w] = "committed" =>
            table # None /\ AllHold(staged[w], table)]_vars

(* A commit that is under way ends, whatever the others do, be it the first *)
(* submission or a later one.                                               *)
EveryCommitEnds == \A w \in Writers : pc[w] \in InFlight ~> pc[w] \in Ended

(* With as many retries as there are other writers, and no failure of the   *)
(* environment, every writer of new files gets its commit in: a writer is   *)
(* refused only when another one has succeeded.                             *)
EveryoneCommits == <>[](\A w \in Writers : pc[w] = "committed")
=============================================================================
