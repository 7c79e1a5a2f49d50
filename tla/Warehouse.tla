------------------------------ MODULE Warehouse ------------------------------
(***************************************************************************)
(* A local warehouse: a process opens the directory by registering what     *)
(* Java's HadoopCatalog has left there with a MemoryCatalog of its own      *)
(* (idb-catalog: open_file_warehouse_path, hadoop.rs), serves calls, and    *)
(* ends; Java goes on writing to the directory meanwhile.                   *)
(***************************************************************************)
EXTENDS MemoryCatalog

CONSTANTS
    Dirs       \* identifiers whose directory Java writes to

ASSUME DirAssumption ==
    Dirs \subseteq Idents /\ \A d \in Dirs : Len(d.ns) = 1

VARIABLES
    hint,      \* hint[d]: what version-hint.text says, 0 if it is not there
    phase,     \* closed, opening or open
    todo,      \* directories still to be looked at
    looking,   \* the directory being looked at, or None
    seen,      \* the version its hint named
    found,     \* its metadata file, once it is resolved
    floor      \* (history) the files the hints named when the opening began

bootVars == <<phase, todo, looking, seen, found, floor>>
vars == <<catalogVars, files, hint, bootVars>>

(* The metadata files v<n>.metadata.json in the directory of d.             *)
Versions(d) == {f \in FileIds : files[f].dir = d /\ files[f].state = "present"}

Latest(d) == {f \in Versions(d) : \A g \in Versions(d) : files[g].version <= files[f].version}
Named(d, v) == {f \in Versions(d) : files[f].version = v}

WarehouseInit ==
    /\ Init /\ files = << >> /\ hint = [d \in Dirs |-> 0]
    /\ phase = "closed" /\ todo = {} /\ looking = None /\ seen = 0 /\ found = None
    /\ floor = [d \in Dirs |-> None]

-----------------------------------------------------------------------------
(* Java writes v<n>, then replaces the hint, which is missing for a moment   *)
(* (or for longer, when Java crashes); it drops a table with its directory. *)
(* Files the catalog has put there would go as well: here they stay.        *)
JavaCommit(d) ==
    /\ Len(files) < MaxFiles
    /\ \/ Versions(d) = {} /\ files' = Written(Len(files) + 1, 1, d)
       \/ \E f \in Latest(d) :
              files' = Written(files[f].table, files[f].version + 1, d)
    /\ UNCHANGED <<catalogVars, hint, bootVars>>

JavaHint(d) ==
    /\ \E f \in Latest(d) : \E h \in {0, files[f].version} :
          hint[d] # files[f].version /\ hint' = [hint EXCEPT ![d] = h]
    /\ UNCHANGED <<catalogVars, files, bootVars>>

JavaDrop(d) ==
    /\ Versions(d) # {}
    /\ files' = [f \in FileIds |->
                    IF f \in Versions(d) THEN [files[f] EXCEPT !.state = "purged"]
                    ELSE files[f]]
    /\ hint' = [hint EXCEPT ![d] = 0]
    /\ UNCHANGED <<catalogVars, bootVars>>

Java == \E d \in Dirs : JavaCommit(d) \/ JavaHint(d) \/ JavaDrop(d)

-----------------------------------------------------------------------------
(* read_dir lists the directories, those without a table too, whose          *)
(* namespaces are created all the same; each is looked at in its turn.      *)
BeginOpen ==
    /\ phase = "closed" /\ calls < MaxCalls
    /\ phase' = "opening" /\ calls' = calls + 1
    /\ \E empty \in SUBSET Dirs : todo' = empty \cup {d \in Dirs : Versions(d) # {}}
    /\ floor' \in [Dirs -> FileIds \cup {None}]
    /\ \A d \in Dirs :
          IF Named(d, hint[d]) = {} THEN floor'[d] = None
          ELSE floor'[d] \in Named(d, hint[d])
    /\ UNCHANGED <<namespaces, entries, lock, request, stage, answer, doomed,
                   files, hint, looking, seen, found>>

ReadHint(d) ==
    /\ phase = "opening" /\ looking = None /\ d \in todo
    /\ namespaces' = namespaces \cup {d.ns}
    /\ looking' = d /\ seen' = hint[d]
    /\ UNCHANGED <<entries, lock, request, stage, answer, doomed, calls,
                   files, hint, phase, todo, found, floor>>

NextDirectory ==
    /\ todo' = todo \ {looking}
    /\ looking' = None /\ seen' = 0 /\ found' = None

\* Mutant: the comparison of latest_metadata_json is the wrong way round.
ResolveOldest(d, v) ==
    IF v > 0 /\ Named(d, v) # {} THEN Named(d, v)
    ELSE {f \in Versions(d) : \A g \in Versions(d) : files[f].version <= files[g].version}

(* The file the hint names if it is there, else the latest one, else        *)
(* nothing: the directory is skipped.                                       *)
Resolve(d, v) == IF v > 0 /\ Named(d, v) # {} THEN Named(d, v) ELSE Latest(d)

ResolveMetadataFile ==
    /\ phase = "opening" /\ looking # None /\ found = None
    /\ \/ Versions(looking) = {} /\ NextDirectory
       \/ /\ found' \in Resolve(looking, seen)
          /\ UNCHANGED <<todo, looking, seen>>
    /\ UNCHANGED <<catalogVars, files, hint, phase, floor>>

RegisterFound ==
    /\ phase = "opening" /\ found # None
    /\ IsPresent(found)
    /\ entries' = IF entries[looking] = None THEN [entries EXCEPT ![looking] = found]
                  ELSE entries
    /\ NextDirectory
    /\ UNCHANGED <<namespaces, lock, request, stage, answer, doomed, calls,
                   files, hint, phase, floor>>

EndOpen ==
    /\ phase = "opening" /\ todo = {}
    /\ phase' = "open"
    /\ UNCHANGED <<catalogVars, files, hint, todo, looking, seen, found, floor>>

(* The process ends, in the middle of things or not, or the opening fails:  *)
(* a catalog is what one process knows.                                     *)
Close ==
    /\ phase # "closed"
    /\ phase' = "closed"
    /\ namespaces' = {} /\ entries' = [i \in Idents |-> None]
    /\ lock' = None /\ doomed' = None
    /\ request' = [c \in Clients |-> None]
    /\ stage' = [c \in Clients |-> "idle"]
    /\ answer' = [c \in Clients |-> "none"]
    /\ todo' = {} /\ looking' = None /\ seen' = 0 /\ found' = None
    /\ floor' = [d \in Dirs |-> None]
    /\ UNCHANGED <<calls, files, hint>>

Serve == phase = "open" /\ \E c \in Clients : Call(c) /\ UNCHANGED <<hint, bootVars>>

WarehouseNext ==
    \/ Java
    \/ BeginOpen \/ (\E d \in Dirs : ReadHint(d)) \/ ResolveMetadataFile
    \/ RegisterFound \/ EndOpen \/ Close
    \/ Serve

Spec == WarehouseInit /\ [][WarehouseNext]_vars

-----------------------------------------------------------------------------
TypeOK ==
    /\ CatalogTypeOK
    /\ hint \in [Dirs -> Nat]
    /\ phase \in {"closed", "opening", "open"} /\ todo \subseteq Dirs
    /\ looking \in Dirs \cup {None} /\ seen \in Nat
    /\ found \in 1..MaxFiles \cup {None}
    /\ floor \in [Dirs -> 1..MaxFiles \cup {None}]

(* A table is opened as it was when the opening began or as it became       *)
(* since: never at a version older than the one its hint named then, as     *)
(* Java commits on (hadoop.rs resolve_metadata_file).                        *)
OpensCurrent ==
    phase = "opening" =>
        \A d \in Dirs :
            (entries[d] # None /\ floor[d] # None
             /\ files[entries[d]].table = files[floor[d]].table)
                => files[entries[d]].version >= files[floor[d]].version

(* The history of a table has one writer: a table that Java commits to is   *)
(* never committed to through this catalog, which would fork it (Java does  *)
(* not see the entries of a MemoryCatalog).  update_table cannot name the   *)
(* next version of such a table (metadata_location.rs parse_file_name).     *)
OneWriterPerTable ==
    \A f, g \in FileIds :
        files[f].table = files[g].table => (files[f].dir = None) = (files[g].dir = None)

(* What the tables are to a caller, and how far its call is.                *)
Content ==
    [i \in Idents |->
        IF entries[i] \notin FileIds THEN None
        ELSE <<files[entries[i]].table, files[entries[i]].version>>]

Progress ==
    [c \in Clients |->
        IF stage[c] = "idle" THEN answer[c]
        ELSE IF stage[c] = "working" /\ request[c].op \in {"drop_table", "register_table"}
             THEN "done" ELSE "asked"]

(* Calls look atomic to their callers, whatever fails and whenever the      *)
(* process ends.                                                            *)
Atomic == INSTANCE AtomicCatalog WITH tables <- Content, progress <- Progress

ImplementsAtomicCatalog == Atomic!Spec
=============================================================================
