---------------------------- MODULE MemoryCatalog ----------------------------
(***************************************************************************)
(* The catalog behind every local warehouse (catalog/memory): a tree of     *)
(* namespaces that maps table names to metadata files, behind one mutex     *)
(* that a call holds while it waits for the storage.  Calls may fail at the *)
(* storage, and their futures may be dropped while they wait.               *)
(***************************************************************************)
EXTENDS Naturals, SequencesExt

CONSTANTS
    Clients,      \* tasks that call the catalog
    Namespaces,   \* namespace identifiers: non-empty sequences of names
    Idents,       \* table identifiers, [ns, name]
    None,
    RegisterAny,  \* TRUE: register_table may be given any location;
                  \* FALSE: only that of a file that exists and is not in use
    MaxCalls,     \* bound: calls made, and processes started, in all
    MaxFiles      \* bound: metadata files ever written

VARIABLES
    namespaces,   \* the namespaces that exist
    entries,      \* entries[i]: the metadata file of table i, or None
    files,        \* every metadata file ever written, oldest first
    lock,         \* the client that holds the mutex, or None
    request,      \* request[c]: the call c waits for, or None
    stage,        \* stage[c]: how far that call is
    answer,       \* answer[c]: what c was told last
    doomed,       \* the file the drop_table at work is about to delete
    calls         \* calls made and processes started

catalogVars == <<namespaces, entries, lock, request, stage, answer, doomed,
                 calls>>

Requests ==
    [op: {"create_namespace", "drop_namespace"}, ns: Namespaces]
    \cup [op: {"create_table", "drop_table", "register_table", "update_table"},
          table: Idents]
    \cup [op: {"rename_table"}, table: Idents, to: Idents]

ASSUME CatalogAssumption ==
    /\ \A p \in Namespaces : p \in Seq(STRING) \ {<< >>}
    /\ \A i \in Idents : i.ns \in Namespaces
    /\ None \notin Clients \cup Idents \cup Requests \cup Nat \cup (Nat \X Nat)
    /\ MaxCalls \in Nat /\ MaxFiles \in Nat /\ RegisterAny \in BOOLEAN

(* A metadata file: the table it describes, its version, and whether it is  *)
(* named v<version> in the directory of an identifier, as Java's            *)
(* HadoopCatalog does, or <version>-<uuid> (dir = None).                     *)
File == [state: {"present", "dropped", "purged"}, table: Nat, version: Nat,
         dir: Idents \cup {None}]

FileIds == 1..Len(files)
Written(t, v, d) ==
    Append(files, [state |-> "present", table |-> t, version |-> v, dir |-> d])
IsPresent(f) == f \in FileIds /\ files[f].state = "present"

Below(p) == {q \in Namespaces : IsPrefix(p, q)}
CanInsert(i) == i.ns \in namespaces /\ entries[i] = None

Init ==
    /\ namespaces = {} /\ entries = [i \in Idents |-> None]
    /\ lock = None
    /\ request = [c \in Clients |-> None]
    /\ stage = [c \in Clients |-> "idle"]
    /\ answer = [c \in Clients |-> "none"]
    /\ doomed = None /\ calls = 0

-----------------------------------------------------------------------------
Ask(c) ==
    /\ stage[c] = "idle" /\ calls < MaxCalls
    /\ \E r \in Requests : request' = [request EXCEPT ![c] = r]
    /\ stage' = [stage EXCEPT ![c] = "asked"]
    /\ calls' = calls + 1
    /\ UNCHANGED <<namespaces, entries, files, lock, answer, doomed>>

(* The mutex is free and c, which waits for it, is the one to take it.      *)
Serves(c, op) == stage[c] = "asked" /\ lock = None /\ request[c].op = op

Works(c, op, s) == stage[c] = s /\ request[c].op = op

Reply(c, a) ==
    /\ stage' = [stage EXCEPT ![c] = "idle"]
    /\ request' = [request EXCEPT ![c] = None]
    /\ answer' = [answer EXCEPT ![c] = a]
    /\ lock' = None /\ doomed' = None
    /\ UNCHANGED calls

(* c goes on to wait for the storage with the mutex in its hands.           *)
Continue(c, s) ==
    /\ stage' = [stage EXCEPT ![c] = s]
    /\ lock' = c
    /\ UNCHANGED <<request, answer, calls>>

CreateNamespace(c) ==
    LET p == request[c].ns
        free == p \notin namespaces /\ (Len(p) = 1 \/ Front(p) \in namespaces)
    IN  /\ Serves(c, "create_namespace")
        /\ namespaces' = IF free THEN namespaces \cup {p} ELSE namespaces
        /\ Reply(c, IF free THEN "ok" ELSE "error")
        /\ UNCHANGED <<entries, files>>

(* The subtree goes with its tables; their files stay where they are.       *)
DropNamespace(c) ==
    LET p == request[c].ns IN
    /\ Serves(c, "drop_namespace")
    /\ namespaces' = namespaces \ Below(p)
    /\ entries' = [i \in Idents |-> IF i.ns \in Below(p) THEN None ELSE entries[i]]
    /\ Reply(c, IF p \in namespaces THEN "ok" ELSE "error")
    /\ UNCHANGED files

\* Mutant: the entry is inserted under the new name, the old one stays.
RenameTableByCopy(c) ==
    LET i == request[c].table
        j == request[c].to
        ok == entries[i] # None /\ CanInsert(j)
    IN  /\ Serves(c, "rename_table")
        /\ entries' = IF ok THEN [entries EXCEPT ![j] = entries[i]] ELSE entries
        /\ Reply(c, IF ok THEN "ok" ELSE "error")
        /\ UNCHANGED <<namespaces, files>>

\* Mutant: the entry is taken out and only then put in, without a copy.
RenameTableInPlace(c) ==
    LET i == request[c].table
        j == request[c].to
        removed == [entries EXCEPT ![i] = None]
        ok == entries[i] # None /\ j.ns \in namespaces /\ removed[j] = None
    IN  /\ Serves(c, "rename_table")
        /\ entries' = IF ok THEN [removed EXCEPT ![j] = entries[i]] ELSE removed
        /\ Reply(c, IF ok THEN "ok" ELSE "error")
        /\ UNCHANGED <<namespaces, files>>

(* The tree is changed in a copy, which takes its place if all went well.   *)
RenameTable(c) ==
    LET i == request[c].table
        j == request[c].to
        moved == [entries EXCEPT ![i] = None, ![j] = entries[i]]
        ok == entries[i] # None /\ j.ns \in namespaces /\ (i = j \/ entries[j] = None)
    IN  /\ Serves(c, "rename_table")
        /\ entries' = IF ok THEN moved ELSE entries
        /\ Reply(c, IF ok THEN "ok" ELSE "error")
        /\ UNCHANGED <<namespaces, files>>

-----------------------------------------------------------------------------
(* create_table finds the location of the table: without one in the request *)
(* that takes the properties of the namespace.                              *)
LocateTable(c) ==
    /\ Serves(c, "create_table")
    /\ \/ Continue(c, "working") /\ UNCHANGED doomed
       \/ request[c].table.ns \notin namespaces /\ Reply(c, "error")
    /\ UNCHANGED <<namespaces, entries, files>>

(* It writes the metadata first and asks whether the name is free then.     *)
InsertTable(c) ==
    LET i == request[c].table IN
    /\ Works(c, "create_table", "working")
    /\ Len(files) < MaxFiles
    /\ files' = Written(Len(files) + 1, 0, None)
    /\ entries' = IF CanInsert(i) THEN [entries EXCEPT ![i] = Len(files) + 1]
                  ELSE entries
    /\ Reply(c, IF CanInsert(i) THEN "ok" ELSE "error")
    /\ UNCHANGED namespaces

(* drop_table takes the entry out first and deletes the file then.          *)
RemoveTable(c) ==
    LET i == request[c].table IN
    /\ Serves(c, "drop_table")
    /\ entries[i] # None
    /\ entries' = [entries EXCEPT ![i] = None]
    /\ doomed' = entries[i]
    /\ Continue(c, "working")
    /\ UNCHANGED <<namespaces, files>>

DeleteMetadata(c) ==
    LET f == doomed IN
    /\ Works(c, "drop_table", "working")
    /\ files' = IF IsPresent(f) THEN [files EXCEPT ![f].state = "dropped"] ELSE files
    /\ Reply(c, "ok")
    /\ UNCHANGED <<namespaces, entries>>

NoSuchTable(c) ==
    /\ stage[c] = "asked" /\ lock = None
    /\ request[c].op \in {"drop_table", "update_table"}
    /\ entries[request[c].table] = None
    /\ Reply(c, "error")
    /\ UNCHANGED <<namespaces, entries, files>>

InUse(f) == \E i \in Idents : entries[i] = f

(* register_table inserts the entry first and reads the file then.          *)
RegisterTable(c) ==
    LET i == request[c].table IN
    /\ Serves(c, "register_table")
    /\ \E f \in 1..MaxFiles :
          /\ RegisterAny \/ (IsPresent(f) /\ ~InUse(f))
          /\ entries' = IF CanInsert(i) THEN [entries EXCEPT ![i] = f] ELSE entries
    /\ IF CanInsert(i) THEN Continue(c, "working") /\ UNCHANGED doomed
       ELSE Reply(c, "error")
    /\ UNCHANGED <<namespaces, files>>

ReadRegistered(c) ==
    /\ Works(c, "register_table", "working")
    /\ Reply(c, IF IsPresent(entries[request[c].table]) THEN "ok" ELSE "error")
    /\ UNCHANGED <<namespaces, entries, files>>

-----------------------------------------------------------------------------
LockForUpdate(c) ==
    /\ Serves(c, "update_table")
    /\ entries[request[c].table] # None
    /\ Continue(c, "working")
    /\ UNCHANGED <<namespaces, entries, files, doomed>>

\* Mutant: any file name is taken for one that has a next version.
HasSomeName(f) == f # None

(* The next version's name is made from the current one's, which has to be  *)
(* <version>-<uuid>.metadata.json: the file of a Hadoop table is not.       *)
HasNextVersion(f) == files[f].dir = None

ReadCurrent(c) ==
    LET f == entries[request[c].table] IN
    /\ Works(c, "update_table", "working")
    /\ IF IsPresent(f) /\ HasNextVersion(f)
       THEN Continue(c, "staged") /\ UNCHANGED doomed
       ELSE Reply(c, "error")
    /\ UNCHANGED <<namespaces, entries, files>>

WriteUpdate(c) ==
    LET f == entries[request[c].table]
    IN  /\ Works(c, "update_table", "staged")
        /\ Len(files) < MaxFiles
        /\ files' = Written(files[f].table, files[f].version + 1, None)

FlipPointer(c) ==
    /\ WriteUpdate(c)
    /\ entries' = [entries EXCEPT ![request[c].table] = Len(files) + 1]
    /\ Reply(c, "ok")
    /\ UNCHANGED namespaces

\* Mutant: the mutex is not released on the error path.
FailHoldingLock(c) ==
    /\ stage[c] # "idle"
    /\ stage' = [stage EXCEPT ![c] = "idle"]
    /\ request' = [request EXCEPT ![c] = None]
    /\ answer' = [answer EXCEPT ![c] = "error"]
    /\ lock \in {None, c}
    /\ UNCHANGED <<namespaces, entries, files, lock, doomed, calls>>

(* The storage fails, a requirement does not hold, or the future is         *)
(* dropped: the mutex is free, and what the call has done stays done.       *)
Fail(c) ==
    /\ stage[c] # "idle"
    /\ Reply(c, "error")
    /\ lock \in {None, c}
    /\ UNCHANGED <<namespaces, entries, files>>

(* The future is dropped after its write has reached the storage.           *)
FailAfterWrite(c) ==
    /\ \/ WriteUpdate(c)
       \/ /\ Works(c, "create_table", "working")
          /\ Len(files) < MaxFiles
          /\ files' = Written(Len(files) + 1, 0, None)
    /\ Reply(c, "error")
    /\ UNCHANGED <<namespaces, entries>>

Call(c) ==
    \/ Ask(c)
    \/ CreateNamespace(c) \/ DropNamespace(c) \/ RenameTable(c)
    \/ LocateTable(c) \/ InsertTable(c)
    \/ RemoveTable(c) \/ DeleteMetadata(c) \/ NoSuchTable(c)
    \/ RegisterTable(c) \/ ReadRegistered(c)
    \/ LockForUpdate(c) \/ ReadCurrent(c) \/ FlipPointer(c)
    \/ Fail(c) \/ FailAfterWrite(c)

-----------------------------------------------------------------------------
CatalogTypeOK ==
    /\ namespaces \subseteq Namespaces
    /\ entries \in [Idents -> 1..MaxFiles \cup {None}]
    /\ files \in Seq(File) /\ Len(files) \in 0..MaxFiles
    /\ lock \in Clients \cup {None}
    /\ request \in [Clients -> Requests \cup {None}]
    /\ stage \in [Clients -> {"idle", "asked", "working", "staged"}]
    /\ answer \in [Clients -> {"none", "ok", "error"}]
    /\ doomed \in 1..MaxFiles \cup {None} /\ calls \in 0..MaxCalls
    /\ \A c \in Clients :
          /\ (request[c] = None) <=> (stage[c] = "idle")
          /\ (lock = c) <=> (stage[c] \in {"working", "staged"})

(* Nobody is left with a table that cannot be opened: when no call is at    *)
(* work, every entry points to a metadata file that was written and that    *)
(* drop_table has not deleted.  The order of the two halves of create, drop *)
(* and register is what decides it (catalog.rs create_table, drop_table,    *)
(* register_table), and that no two entries share a file.                   *)
EntriesReadable ==
    lock = None =>
        \A i \in Idents :
            entries[i] # None =>
                entries[i] \in FileIds /\ files[entries[i]].state # "dropped"
=============================================================================
