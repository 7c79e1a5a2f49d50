---------------------------- MODULE AtomicCatalog ----------------------------
(***************************************************************************)
(* What a catalog promises its callers: a call takes effect in one step     *)
(* between the request and the answer; when the answer is an error, it has  *)
(* had no effect, unless the call was to drop or to register a table.       *)
(***************************************************************************)
EXTENDS Naturals, SequencesExt

CONSTANTS Clients, Namespaces, Idents, None, Requests

VARIABLES
    namespaces,   \* the namespaces that exist
    tables,       \* tables[i]: the table i names and its version, or None
    request,      \* what each client has asked for, or None
    progress      \* how far that is: asked, done, or what was answered

vars == <<namespaces, tables, request, progress>>

Nothing == namespaces = {} /\ tables = [i \in Idents |-> None]

Init ==
    /\ Nothing
    /\ request = [c \in Clients |-> None]
    /\ progress = [c \in Clients |-> "none"]

Ask(c) ==
    /\ request[c] = None
    /\ \E r \in Requests : request' = [request EXCEPT ![c] = r]
    /\ progress' = [progress EXCEPT ![c] = "asked"]
    /\ UNCHANGED <<namespaces, tables>>

Free(i) == i.ns \in namespaces /\ tables[i] = None
ParentExists(p) == Len(p) = 1 \/ Front(p) \in namespaces

Only(i) == \A j \in Idents \ {i} : tables'[j] = tables[j]

ChangeNamespaces(r) ==
    \/ /\ r.op = "create_namespace"
       /\ r.ns \notin namespaces /\ ParentExists(r.ns)
       /\ namespaces' = namespaces \cup {r.ns}
       /\ UNCHANGED tables
    \/ /\ r.op = "drop_namespace"
       /\ r.ns \in namespaces
       /\ namespaces' = {q \in namespaces : ~IsPrefix(r.ns, q)}
       /\ tables' = [i \in Idents |-> IF i.ns \in namespaces' THEN tables[i] ELSE None]

ChangeTables(r) ==
    /\ UNCHANGED namespaces
    /\ \/ /\ r.op = "create_table" /\ Free(r.table)
          /\ Only(r.table) /\ tables'[r.table] # None /\ tables'[r.table][2] = 0
       \/ /\ r.op = "register_table" /\ Free(r.table)
          /\ Only(r.table) /\ tables'[r.table] # None
       \/ /\ r.op = "drop_table" /\ tables[r.table] # None
          /\ tables' = [tables EXCEPT ![r.table] = None]
       \/ /\ r.op = "rename_table" /\ tables[r.table] # None
          /\ r.table = r.to \/ Free(r.to)
          /\ tables' = [tables EXCEPT ![r.table] = None, ![r.to] = tables[r.table]]
       \/ /\ r.op = "update_table" /\ tables[r.table] # None
          /\ tables' = [tables EXCEPT ![r.table] = <<@[1], @[2] + 1>>]

Answer(c, a) ==
    /\ progress' = [progress EXCEPT ![c] = a]
    /\ request' = IF a = "done" THEN request ELSE [request EXCEPT ![c] = None]

Perform(c) ==
    /\ progress[c] = "asked"
    /\ ChangeNamespaces(request[c]) \/ ChangeTables(request[c])
    /\ \E a \in {"done", "ok"} : Answer(c, a)

Refuse(c) ==
    /\ progress[c] = "asked" /\ Answer(c, "error")
    /\ UNCHANGED <<namespaces, tables>>

Finish(c) ==
    /\ progress[c] = "done"
    /\ \/ Answer(c, "ok")
       \/ request[c].op \in {"drop_table", "register_table"} /\ Answer(c, "error")
    /\ UNCHANGED <<namespaces, tables>>

(* The process ends, and everything the catalog knew with it; another one   *)
(* fills a catalog of its own with the namespaces and tables it finds.      *)
Forget ==
    /\ Nothing'
    /\ request' = [c \in Clients |-> None]
    /\ progress' = [c \in Clients |-> "none"]

Find ==
    /\ \A c \in Clients : request[c] = None
    /\ namespaces \subseteq namespaces'
    /\ \A i \in Idents : tables[i] # None => tables'[i] = tables[i]
    /\ \A i \in Idents : tables'[i] # None => i.ns \in namespaces'
    /\ UNCHANGED <<request, progress>>

Next ==
    \/ \E c \in Clients : Ask(c) \/ Perform(c) \/ Refuse(c) \/ Finish(c)
    \/ Forget \/ Find

Spec == Init /\ [][Next]_vars
=============================================================================
