--------------------------- MODULE WarehouseProofs ---------------------------
(***************************************************************************)
(* Theorems about Warehouse for any number of clients, identifiers, files   *)
(* and processes.                                                           *)
(***************************************************************************)
EXTENDS Warehouse, SequenceTheorems, TLAPS

(* Nobody calls before the warehouse is open.  While it is being opened,    *)
(* only the directory at hand has been resolved, and an entry names a file  *)
(* of its own directory.                                                    *)
Opening ==
    /\ phase # "open" => lock = None /\ \A c \in Clients : stage[c] = "idle"
    /\ looking # None => looking \in todo /\ phase = "opening"
    /\ found # None => looking # None /\ found \in FileIds
                       /\ files[found].dir = looking
    /\ phase # "open" =>
          \A i \in Idents : entries[i] # None =>
              entries[i] \in FileIds /\ files[entries[i]].dir = i

(* What update_table has read while it waits to write: a file of a table    *)
(* that only this catalog writes.                                           *)
Staged ==
    \A c \in Clients :
        stage[c] = "staged" =>
            LET f == entries[request[c].table]
            IN  /\ request[c].op = "update_table"
                /\ f \in FileIds /\ files[f].dir = None

(* Tables are numbered by files, and have one writer.                       *)
Tables ==
    /\ \A f \in FileIds : files[f].table \in 1..Len(files)
    /\ OneWriterPerTable

(* Entries name files that were written and not dropped, no two of them the *)
(* same, and not the one that is about to be deleted.                       *)
Sound ==
    /\ \A i \in Idents :
          entries[i] # None =>
              /\ entries[i] \in FileIds /\ files[entries[i]].state # "dropped"
              /\ entries[i] # doomed
              /\ \A j \in Idents : entries[j] = entries[i] => i = j
    /\ doomed # None => lock # None

IInv == TypeOK /\ Opening /\ Staged /\ Tables /\ (RegisterAny = FALSE => Sound)

-----------------------------------------------------------------------------
(* What a request names. *)
LEMMA RequestNames ==
    ASSUME NEW r \in Requests
    PROVE  /\ r.op \in {"create_namespace", "drop_namespace"} => r.ns \in Namespaces
           /\ r.op \in {"create_table", "drop_table", "register_table",
                        "update_table", "rename_table"} => r.table \in Idents
           /\ r.op = "rename_table" => r.to \in Idents
BY DEF Requests

(* Files are added at the end and keep their names. *)
Kept ==
    /\ Len(files) <= Len(files')
    /\ \A f \in FileIds :
          /\ files'[f].table = files[f].table
          /\ files'[f].version = files[f].version
          /\ files'[f].dir = files[f].dir

LEMMA AppendsFile ==
    ASSUME files \in Seq(File),
           NEW t \in Nat, NEW v \in Nat, NEW d \in Idents \cup {None},
           files' = Written(t, v, d)
    PROVE  /\ files' \in Seq(File)
           /\ Len(files') = Len(files) + 1
           /\ \A f \in FileIds : files'[f] = files[f]
           /\ files'[Len(files) + 1] =
                 [state |-> "present", table |-> t, version |-> v, dir |-> d]
<1> DEFINE new == [state |-> "present", table |-> t, version |-> v, dir |-> d]
<1>1. new \in File
  BY DEF File
<1>2. files' = Append(files, new)
  BY DEF Written
<1> HIDE DEF new
<1> QED
  BY <1>1, <1>2 DEF FileIds, new

LEMMA MarksFiles ==
    ASSUME files \in Seq(File),
           NEW S, NEW s \in {"present", "dropped", "purged"},
           files' = [f \in FileIds |->
                        IF f \in S THEN [files[f] EXCEPT !.state = s] ELSE files[f]]
    PROVE  /\ files' \in Seq(File)
           /\ Len(files') = Len(files)
           /\ Kept
           /\ \A f \in FileIds \cap S : files'[f].state = s
           /\ \A f \in FileIds \ S : files'[f] = files[f]
<1>1. \A f \in FileIds : files[f] \in File
  BY DEF FileIds
<1>2. \A f \in FileIds : [files[f] EXCEPT !.state = s] \in File
  BY <1>1 DEF File
<1>3. \A f \in FileIds : files'[f] \in File
  BY <1>1, <1>2
<1>4. /\ DOMAIN files' = 1..Len(files)
      /\ Len(files) \in Nat
  BY DEF FileIds
<1>5. files' \in Seq(File)
  BY <1>3, <1>4 DEF FileIds
<1>6. Len(files') = Len(files)
  BY <1>4, <1>5
<1>7. \A f \in FileIds : /\ files'[f].table = files[f].table
                         /\ files'[f].version = files[f].version
                         /\ files'[f].dir = files[f].dir
  BY <1>1 DEF File
<1>8. \A f \in FileIds \cap S : files'[f].state = s
  BY <1>1 DEF File
<1>9. \A f \in FileIds \ S : files'[f] = files[f]
  OBVIOUS
<1> QED
  BY <1>4, <1>5, <1>6, <1>7, <1>8, <1>9 DEF Kept

LEMMA DeletionMarks ==
    ASSUME files \in Seq(File), NEW c, DeleteMetadata(c)
    PROVE  /\ files' \in Seq(File) /\ Len(files') = Len(files) /\ Kept
           /\ \A f \in FileIds \ {doomed} : files'[f] = files[f]
<1>1. CASE IsPresent(doomed)
  <2>1. doomed \in FileIds /\ files' = [files EXCEPT ![doomed].state = "dropped"]
    BY <1>1 DEF DeleteMetadata, IsPresent
  <2>2. files' = [f \in FileIds |->
                     IF f \in {doomed} THEN [files[f] EXCEPT !.state = "dropped"]
                     ELSE files[f]]
    <3>1. files = [f \in FileIds |-> files[f]]
      BY DEF FileIds
    <3>2. [files EXCEPT ![doomed].state = "dropped"] =
             [f \in FileIds |-> IF f = doomed THEN [files[f] EXCEPT !.state = "dropped"]
                                ELSE files[f]]
      BY <3>1, Zenon
    <3> QED
      BY <2>1, <3>2
  <2> QED
    BY <2>2, MarksFiles
<1>2. CASE ~IsPresent(doomed)
  BY <1>2 DEF DeleteMetadata, Kept
<1> QED
  BY <1>1, <1>2

(* The part of the type invariant that is about the calls. *)
Calls ==
    /\ lock \in Clients \cup {None}
    /\ request \in [Clients -> Requests \cup {None}]
    /\ stage \in [Clients -> {"idle", "asked", "working", "staged"}]
    /\ answer \in [Clients -> {"none", "ok", "error"}]
    /\ calls \in 0..MaxCalls
    /\ \A c \in Clients :
          /\ (request[c] = None) <=> (stage[c] = "idle")
          /\ (lock = c) <=> (stage[c] \in {"working", "staged"})

(* A call that ends leaves the mutex free and nobody at work. *)
LEMMA ReplyEndsCall ==
    ASSUME Calls, NEW c \in Clients, NEW a \in {"ok", "error"},
           lock \in {None, c}, Reply(c, a)
    PROVE  /\ Calls' /\ lock' = None /\ doomed' = None
           /\ \A d \in Clients : stage'[d] \notin {"working", "staged"}
<1>1. None \notin Clients
  BY CatalogAssumption
<1>2. /\ stage' = [stage EXCEPT ![c] = "idle"]
      /\ request' = [request EXCEPT ![c] = None]
      /\ answer' = [answer EXCEPT ![c] = a]
      /\ lock' = None /\ doomed' = None /\ calls' = calls
  BY DEF Reply
<1>3. \A d \in Clients : stage'[d] \notin {"working", "staged"}
  BY <1>1, <1>2 DEF Calls
<1>4. \A d \in Clients : (request'[d] = None) <=> (stage'[d] = "idle")
  BY <1>2 DEF Calls
<1> QED
  BY <1>1, <1>2, <1>3, <1>4 DEF Calls

LEMMA ContinueHoldsLock ==
    ASSUME Calls, NEW c \in Clients, NEW s \in {"working", "staged"},
           lock \in {None, c}, stage[c] # "idle", Continue(c, s)
    PROVE  /\ Calls' /\ lock' = c /\ request' = request
           /\ \A d \in Clients : stage'[d] = "staged" => d = c /\ s = "staged"
<1>1. None \notin Clients
  BY CatalogAssumption
<1>2. /\ stage' = [stage EXCEPT ![c] = s]
      /\ lock' = c /\ request' = request /\ answer' = answer /\ calls' = calls
  BY DEF Continue
<1>3. \A d \in Clients : (lock' = d) <=> (stage'[d] \in {"working", "staged"})
  BY <1>1, <1>2 DEF Calls
<1>4. \A d \in Clients : (request'[d] = None) <=> (stage'[d] = "idle")
  BY <1>2 DEF Calls
<1>5. \A d \in Clients : stage'[d] = "staged" => d = c /\ s = "staged"
  BY <1>1, <1>2, <1>3 DEF Calls
<1> QED
  BY <1>1, <1>2, <1>3, <1>4, <1>5 DEF Calls

-----------------------------------------------------------------------------
(* A step that leaves the files and the entries as they are, between calls  *)
(* or at the end of one, keeps what is said of them.                        *)
LEMMA FilesKeepTables ==
    ASSUME Tables, Kept, Len(files) \in Nat, Len(files') = Len(files)
    PROVE  Tables'
BY DEF Tables, OneWriterPerTable, Kept, FileIds

(* A new file starts a table, or follows a file of a table that has the     *)
(* same writer.                                                             *)
LEMMA NewFileKeepsTables ==
    ASSUME Tables, files \in Seq(File),
           NEW t \in Nat, NEW v \in Nat, NEW d \in Idents \cup {None},
           files' = Written(t, v, d),
           \/ t = Len(files) + 1
           \/ \E f \in FileIds : files[f].table = t /\ (files[f].dir = None) = (d = None)
    PROVE  Tables'
<1> DEFINE n == Len(files)
<1>1. /\ n \in Nat /\ Len(files') = n + 1
      /\ \A f \in 1..n : files'[f] = files[f]
      /\ files'[n + 1].table = t /\ files'[n + 1].dir = d
  <2>1. n \in Nat
    OBVIOUS
  <2>2. /\ Len(files') = Len(files) + 1
        /\ \A f \in FileIds : files'[f] = files[f]
        /\ files'[Len(files) + 1] =
              [state |-> "present", table |-> t, version |-> v, dir |-> d]
    BY AppendsFile
  <2> QED
    BY <2>1, <2>2 DEF FileIds
<1>2. \A f \in 1..n : files[f].table \in 1..n
  BY DEF Tables, FileIds
<1>3. \A f, g \in 1..n :
        files[f].table = files[g].table => (files[f].dir = None) = (files[g].dir = None)
  BY DEF Tables, OneWriterPerTable, FileIds
<1>4. t = n + 1 \/ \E f \in 1..n : files[f].table = t /\ (files[f].dir = None) = (d = None)
  BY DEF FileIds
<1>5. \A f \in 1..(n + 1) : f \in 1..n \/ f = n + 1
  BY <1>1
<1>6. \A f \in 1..(n + 1) : files'[f].table \in 1..(n + 1)
  BY <1>1, <1>2, <1>4, <1>5
<1>7. \A f \in 1..n :
        files[f].table = t => (files[f].dir = None) = (d = None)
  BY <1>1, <1>2, <1>3, <1>4
<1> HIDE DEF n
<1>8. \A f, g \in 1..(n + 1) :
        files'[f].table = files'[g].table =>
            (files'[f].dir = None) = (files'[g].dir = None)
  <2> SUFFICES ASSUME NEW f \in 1..(n + 1), NEW g \in 1..(n + 1),
                      files'[f].table = files'[g].table
               PROVE  (files'[f].dir = None) = (files'[g].dir = None)
    OBVIOUS
  <2>1. CASE f \in 1..n /\ g \in 1..n
    BY <1>1, <1>3, <2>1
  <2>2. CASE f \in 1..n /\ g = n + 1
    BY <1>1, <1>7, <2>2
  <2>3. CASE f = n + 1 /\ g \in 1..n
    BY <1>1, <1>7, <2>3
  <2>4. CASE f = n + 1 /\ g = n + 1
    BY <2>4
  <2> QED
    BY <1>5, <2>1, <2>2, <2>3, <2>4
<1> QED
  BY <1>1, <1>6, <1>8 DEF Tables, OneWriterPerTable, FileIds

LEMMA AppendKeeps ==
    ASSUME files \in Seq(File),
           NEW t \in Nat, NEW v \in Nat, NEW d \in Idents \cup {None},
           files' = Written(t, v, d)
    PROVE  Kept
<1>1. Len(files) \in Nat
  OBVIOUS
<1>2. /\ Len(files') = Len(files) + 1
      /\ \A f \in FileIds : files'[f] = files[f]
  BY AppendsFile
<1> QED
  BY <1>1, <1>2 DEF Kept

(* While the warehouse is open, the part of Opening that speaks of its      *)
(* opening says nothing.                                                    *)
LEMMA CallKeepsOpening ==
    ASSUME Opening, phase = "open", UNCHANGED bootVars
    PROVE  Opening'
<1>1. phase' = "open" /\ looking' = looking /\ found' = found
  BY DEF bootVars
<1>2. looking = None /\ found = None
  BY DEF Opening
<1> QED
  BY <1>1, <1>2 DEF Opening

-----------------------------------------------------------------------------
(* Every step of a call: what it does to the calls, then to the namespaces, *)
(* the entries and the files.                                               *)
CallFrame(c) ==
    /\ Calls'
    /\ namespaces' \subseteq Namespaces
    /\ entries' \in [Idents -> 1..MaxFiles \cup {None}]
    /\ files' \in Seq(File) /\ Len(files') \in 0..MaxFiles
    /\ doomed' \in 1..MaxFiles \cup {None}
    /\ Tables'
    /\ Staged'
    /\ RegisterAny = FALSE => Sound'

LEMMA InvariantParts ==
    ASSUME IInv
    PROVE  /\ Calls /\ Tables /\ Staged
           /\ entries \in [Idents -> 1..MaxFiles \cup {None}]
           /\ files \in Seq(File) /\ Len(files) \in 0..MaxFiles
           /\ namespaces \subseteq Namespaces
           /\ doomed \in 1..MaxFiles \cup {None}
           /\ RegisterAny = FALSE => Sound
BY DEF IInv, TypeOK, CatalogTypeOK, Calls

(* A call that ends: what is left to show is about the entries and files.   *)
LEMMA RepliedCall ==
    ASSUME IInv, NEW c \in Clients, NEW a \in {"ok", "error"},
           lock \in {None, c}, Reply(c, a),
           namespaces' \subseteq Namespaces,
           entries' \in [Idents -> 1..MaxFiles \cup {None}],
           files' \in Seq(File), Len(files') \in 0..MaxFiles,
           Tables', RegisterAny = FALSE => Sound'
    PROVE  CallFrame(c)
<1>1. Calls
  BY InvariantParts
<1>2. /\ Calls' /\ lock' = None /\ doomed' = None
      /\ \A d \in Clients : stage'[d] \notin {"working", "staged"}
  BY <1>1, ReplyEndsCall
<1>3. Staged'
  BY <1>2 DEF Staged
<1> QED
  BY <1>2, <1>3 DEF CallFrame

(* ... when nothing was written and no entry was added. *)
LEMMA EndedCall ==
    ASSUME IInv, NEW c \in Clients, NEW a \in {"ok", "error"},
           lock \in {None, c}, Reply(c, a),
           namespaces' \subseteq Namespaces, files' = files,
           entries' \in [Idents -> 1..MaxFiles \cup {None}],
           \A i \in Idents : entries'[i] \in {None, entries[i]}
    PROVE  CallFrame(c)
<1>1. /\ files \in Seq(File) /\ Len(files) \in 0..MaxFiles /\ Tables
      /\ RegisterAny = FALSE => Sound
  BY InvariantParts
<1>2. Tables'
  BY <1>1 DEF Tables, OneWriterPerTable, FileIds
<1>3. lock' = None /\ doomed' = None
  BY DEF Reply
<1>4. RegisterAny = FALSE => Sound'
  BY <1>1, <1>3 DEF Sound, FileIds
<1> QED
  BY <1>1, <1>2, <1>4, RepliedCall

(* ... when a file was written, and perhaps an entry made for it. *)
LEMMA WrittenCall ==
    ASSUME IInv, NEW c \in Clients, NEW a \in {"ok", "error"},
           lock \in {None, c}, Reply(c, a),
           NEW t \in Nat, NEW v \in Nat, files' = Written(t, v, None),
           Len(files) < MaxFiles,
           \/ t = Len(files) + 1
           \/ \E f \in FileIds : files[f].table = t /\ files[f].dir = None,
           NEW i \in Idents,
           \/ entries' = entries
           \/ entries' = [entries EXCEPT ![i] = Len(files) + 1],
           UNCHANGED namespaces
    PROVE  CallFrame(c)
<1>1. /\ files \in Seq(File) /\ Len(files) \in 0..MaxFiles /\ Tables
      /\ entries \in [Idents -> 1..MaxFiles \cup {None}]
      /\ namespaces \subseteq Namespaces
      /\ RegisterAny = FALSE => Sound
  BY InvariantParts
<1>2. MaxFiles \in Nat /\ None \notin Nat
  BY CatalogAssumption
<1>3. /\ files' \in Seq(File)
      /\ Len(files') = Len(files) + 1
      /\ \A f \in FileIds : files'[f] = files[f]
      /\ files'[Len(files) + 1] =
            [state |-> "present", table |-> t, version |-> v, dir |-> None]
  BY <1>1, AppendsFile
<1>4. Tables'
  <2>1. \/ t = Len(files) + 1
        \/ \E f \in FileIds : files[f].table = t /\ (files[f].dir = None) = (None = None)
    OBVIOUS
  <2> QED
    BY <1>1, <2>1, NewFileKeepsTables
<1>5. entries' \in [Idents -> 1..MaxFiles \cup {None}]
  BY <1>1, <1>2
<1>6. lock' = None /\ doomed' = None
  BY DEF Reply
<1>7. ASSUME RegisterAny = FALSE PROVE Sound'
  <2>1. \A j \in Idents : entries[j] # None =>
            /\ entries[j] \in 1..Len(files) /\ files'[entries[j]].state # "dropped"
            /\ \A k \in Idents : entries[k] = entries[j] => j = k
    BY <1>1, <1>3, <1>7 DEF Sound, FileIds
  <2>2. Len(files) + 1 # None /\ Len(files) + 1 \notin 1..Len(files)
    BY <1>1, <1>2
  <2>3. \A j \in Idents : entries'[j] # None =>
            /\ entries'[j] \in 1..(Len(files) + 1)
            /\ files'[entries'[j]].state # "dropped"
            /\ \A k \in Idents : entries'[k] = entries'[j] => j = k
    <3>1. CASE entries' = entries
      BY <1>1, <2>1, <3>1
    <3>2. CASE entries' = [entries EXCEPT ![i] = Len(files) + 1]
      <4>1. entries'[i] = Len(files) + 1
            /\ \A j \in Idents \ {i} : entries'[j] = entries[j]
        BY <1>1, <3>2
      <4>2. Len(files) + 1 \in 1..(Len(files) + 1)
        BY <1>1
      <4> QED
        BY <1>1, <1>3, <2>1, <2>2, <4>1, <4>2
    <3> QED
      BY <3>1, <3>2
  <2> QED
    BY <1>3, <1>6, <2>3 DEF Sound, FileIds
<1>8. Len(files') \in 0..MaxFiles
  BY <1>1, <1>2, <1>3
<1> QED
  BY <1>1, <1>3, <1>4, <1>5, <1>7, <1>8, RepliedCall

(* A call that goes on to wait for the storage. *)
LEMMA ContinuedCall ==
    ASSUME IInv, NEW c \in Clients, NEW s \in {"working", "staged"},
           lock \in {None, c}, stage[c] # "idle", Continue(c, s),
           UNCHANGED <<namespaces, files>>,
           entries' \in [Idents -> 1..MaxFiles \cup {None}],
           doomed' \in 1..MaxFiles \cup {None},
           s = "staged" =>
              LET f == entries'[request[c].table]
              IN  /\ request[c].op = "update_table"
                  /\ f \in FileIds /\ files[f].dir = None,
           RegisterAny = FALSE => Sound'
    PROVE  CallFrame(c)
<1>1. /\ files \in Seq(File) /\ Len(files) \in 0..MaxFiles /\ Tables /\ Calls
      /\ namespaces \subseteq Namespaces
  BY InvariantParts
<1>2. /\ Calls' /\ lock' = c /\ request' = request
      /\ \A d \in Clients : stage'[d] = "staged" => d = c /\ s = "staged"
  BY <1>1, ContinueHoldsLock
<1>3. Tables'
  BY <1>1 DEF Tables, OneWriterPerTable, FileIds
<1>4. Staged'
  BY <1>2 DEF Staged, FileIds
<1> QED
  BY <1>1, <1>2, <1>3, <1>4 DEF CallFrame

LEMMA CallKeepsFrame ==
    ASSUME IInv, NEW c \in Clients, Call(c)
    PROVE  CallFrame(c)
<1>1. /\ files \in Seq(File) /\ Len(files) \in 0..MaxFiles /\ Tables /\ Calls /\ Staged
      /\ entries \in [Idents -> 1..MaxFiles \cup {None}]
      /\ namespaces \subseteq Namespaces /\ doomed \in 1..MaxFiles \cup {None}
      /\ RegisterAny = FALSE => Sound
  BY InvariantParts
<1>2. /\ MaxFiles \in Nat /\ MaxCalls \in Nat
      /\ None \notin Clients /\ None \notin Requests /\ None \notin Nat
  BY CatalogAssumption
<1>3. /\ request[c] \in Requests \cup {None}
      /\ stage[c] # "idle" => request[c] \in Requests
      /\ stage[c] \in {"working", "staged"} => lock = c
  BY <1>1 DEF Calls
<1>4. \A op \in {"create_namespace", "drop_namespace"} :
         stage[c] # "idle" /\ request[c].op = op => request[c].ns \in Namespaces
  BY <1>3, RequestNames
<1>5. /\ \A op \in {"create_table", "drop_table", "register_table",
                    "update_table", "rename_table"} :
            stage[c] # "idle" /\ request[c].op = op => request[c].table \in Idents
      /\ stage[c] # "idle" /\ request[c].op = "rename_table" =>
            request[c].to \in Idents
  BY <1>3, RequestNames
<1>6. CASE Ask(c)
  <2>1. PICK r \in Requests : request' = [request EXCEPT ![c] = r]
    BY <1>6 DEF Ask
  <2>2. /\ stage[c] = "idle" /\ stage' = [stage EXCEPT ![c] = "asked"]
        /\ calls' = calls + 1 /\ calls < MaxCalls
        /\ UNCHANGED <<namespaces, entries, files, lock, answer, doomed>>
    BY <1>6 DEF Ask
  <2>3. Calls'
    <3>1. request' \in [Clients -> Requests \cup {None}]
      BY <1>1, <2>1 DEF Calls
    <3>2. \A d \in Clients : /\ (request'[d] = None) <=> (stage'[d] = "idle")
                             /\ (lock' = d) <=> (stage'[d] \in {"working", "staged"})
      BY <1>1, <1>2, <2>1, <2>2 DEF Calls
    <3>3. stage' \in [Clients -> {"idle", "asked", "working", "staged"}]
      BY <1>1, <2>2 DEF Calls
    <3>4. calls' \in 0..MaxCalls
      BY <1>1, <1>2, <2>2 DEF Calls
    <3> QED
      BY <1>1, <2>2, <3>1, <3>2, <3>3, <3>4 DEF Calls
  <2>4. Staged'
    <3>1. \A d \in Clients : stage'[d] = "staged" => d # c /\ stage[d] = "staged"
      BY <1>1, <2>2 DEF Calls
    <3>2. \A d \in Clients : d # c => request'[d] = request[d]
      BY <1>1, <2>1 DEF Calls
    <3> QED
      BY <1>1, <2>2, <3>1, <3>2 DEF Staged, FileIds
  <2>5. Tables' /\ (RegisterAny = FALSE => Sound')
    BY <1>1, <2>2 DEF Tables, OneWriterPerTable, Sound, FileIds
  <2> QED
    BY <1>1, <2>2, <2>3, <2>4, <2>5 DEF CallFrame
<1>7. CASE CreateNamespace(c)
  <2>1. \E a \in {"ok", "error"} : Reply(c, a)
    BY <1>7 DEF CreateNamespace
  <2>2. lock = None /\ files' = files /\ entries' = entries
    BY <1>7 DEF CreateNamespace, Serves
  <2>3. namespaces' \subseteq Namespaces
    BY <1>1, <1>4, <1>7 DEF CreateNamespace, Serves
  <2> QED
    BY <1>1, <2>1, <2>2, <2>3, EndedCall
<1>8. CASE DropNamespace(c)
  <2>1. \E a \in {"ok", "error"} : Reply(c, a)
    BY <1>8 DEF DropNamespace
  <2>2. /\ lock = None /\ files' = files
        /\ entries' = [i \in Idents |->
                          IF i.ns \in Below(request[c].ns) THEN None ELSE entries[i]]
        /\ namespaces' \subseteq Namespaces
    BY <1>1, <1>8 DEF DropNamespace, Serves
  <2>3. \A i \in Idents : entries'[i] \in {None, entries[i]}
    BY <2>2
  <2>4. entries' \in [Idents -> 1..MaxFiles \cup {None}]
    BY <1>1, <2>2
  <2> QED
    BY <2>1, <2>2, <2>3, <2>4, EndedCall
<1>9. CASE RenameTable(c)
  <2> DEFINE i == request[c].table
             j == request[c].to
  <2>1. i \in Idents /\ j \in Idents
    BY <1>5, <1>9 DEF RenameTable, Serves
  <2>2. \E a \in {"ok", "error"} : Reply(c, a)
    BY <1>9 DEF RenameTable
  <2>3. lock = None /\ files' = files /\ namespaces' = namespaces
    BY <1>9 DEF RenameTable, Serves
  <2>4. \/ entries' = entries
        \/ /\ entries' = [entries EXCEPT ![i] = None, ![j] = entries[i]]
           /\ entries[i] # None
    BY <1>9 DEF RenameTable
  <2>5. entries' \in [Idents -> 1..MaxFiles \cup {None}]
    BY <1>1, <2>1, <2>4
  <2>6. RegisterAny = FALSE => Sound'
    <3>1. lock' = None /\ doomed' = None
      BY <2>2 DEF Reply
    <3>2. CASE entries' = entries
      BY <1>1, <2>3, <3>1, <3>2 DEF Sound, FileIds
    <3>3. CASE entries' = [entries EXCEPT ![i] = None, ![j] = entries[i]]
      <4>1. \A k \in Idents :
               entries'[k] = IF k = j THEN entries[i] ELSE IF k = i THEN None ELSE entries[k]
        BY <1>1, <2>1, <3>3
      <4> HIDE DEF i, j
      <4> QED
        BY <1>1, <2>1, <2>3, <3>1, <4>1 DEF Sound, FileIds
    <3> QED
      BY <2>4, <3>2, <3>3
  <2>7. Tables'
    BY <1>1, <2>3 DEF Tables, OneWriterPerTable, FileIds
  <2> QED
    BY <1>1, <2>2, <2>3, <2>5, <2>6, <2>7, RepliedCall
<1>10. CASE LocateTable(c)
  <2>1. /\ lock = None /\ stage[c] # "idle"
        /\ UNCHANGED <<namespaces, entries, files>>
    BY <1>10 DEF LocateTable, Serves
  <2>2. CASE Continue(c, "working") /\ UNCHANGED doomed
    <3>1. RegisterAny = FALSE => Sound'
      BY <1>1, <1>2, <2>1, <2>2 DEF Sound, FileIds, Continue
    <3> QED
      BY <1>1, <2>1, <2>2, <3>1, ContinuedCall
  <2>3. CASE Reply(c, "error")
    BY <1>1, <2>1, <2>3, EndedCall
  <2> QED
    BY <1>10, <2>2, <2>3 DEF LocateTable
<1>11. CASE InsertTable(c)
  <2>1. request[c].table \in Idents /\ lock = c
    BY <1>3, <1>5, <1>11 DEF InsertTable, Works
  <2>2. \E a \in {"ok", "error"} : Reply(c, a)
    BY <1>11 DEF InsertTable
  <2>3. /\ Len(files) < MaxFiles /\ namespaces' = namespaces
        /\ files' = Written(Len(files) + 1, 0, None)
        /\ \/ entries' = entries
           \/ entries' = [entries EXCEPT ![request[c].table] = Len(files) + 1]
    BY <1>11 DEF InsertTable
  <2>4. Len(files) + 1 \in Nat /\ 0 \in Nat
    BY <1>1
  <2> QED
    BY <2>1, <2>2, <2>3, <2>4, WrittenCall
<1>12. CASE RemoveTable(c)
  <2> DEFINE i == request[c].table
  <2>1. i \in Idents /\ lock = None /\ stage[c] # "idle"
    BY <1>5, <1>12 DEF RemoveTable, Serves
  <2>2. /\ entries[i] # None /\ entries' = [entries EXCEPT ![i] = None]
        /\ doomed' = entries[i] /\ Continue(c, "working")
        /\ UNCHANGED <<namespaces, files>>
    BY <1>12 DEF RemoveTable
  <2>3. entries' \in [Idents -> 1..MaxFiles \cup {None}]
        /\ doomed' \in 1..MaxFiles \cup {None}
    BY <1>1, <2>1, <2>2
  <2>4. RegisterAny = FALSE => Sound'
    <3>1. lock' # None
      BY <1>2, <2>2 DEF Continue
    <3>2. /\ entries'[i] = None
          /\ \A j \in Idents \ {i} : entries'[j] = entries[j]
      BY <1>1, <2>1, <2>2
    <3> HIDE DEF i
    <3> QED
      BY <1>1, <2>1, <2>2, <3>1, <3>2 DEF Sound, FileIds
  <2> QED
    BY <2>1, <2>2, <2>3, <2>4, ContinuedCall
<1>13. CASE DeleteMetadata(c)
  <2>1. lock = c /\ Reply(c, "ok") /\ UNCHANGED <<namespaces, entries>>
    BY <1>3, <1>13 DEF DeleteMetadata, Works
  <2>2. /\ files' \in Seq(File) /\ Len(files') = Len(files) /\ Kept
        /\ \A f \in FileIds \ {doomed} : files'[f] = files[f]
    BY <1>1, <1>13, DeletionMarks
  <2>3. Tables'
    BY <1>1, <2>2, FilesKeepTables
  <2>4. RegisterAny = FALSE => Sound'
    <3>1. lock' = None /\ doomed' = None
      BY <2>1 DEF Reply
    <3> QED
      BY <1>1, <2>1, <2>2, <3>1 DEF Sound, FileIds
  <2> QED
    BY <1>1, <2>1, <2>2, <2>3, <2>4, RepliedCall
<1>14. CASE NoSuchTable(c)
  <2>1. /\ lock = None /\ Reply(c, "error")
        /\ UNCHANGED <<namespaces, entries, files>>
    BY <1>14 DEF NoSuchTable
  <2> QED
    BY <1>1, <2>1, EndedCall
<1>15. CASE RegisterTable(c)
  <2> DEFINE i == request[c].table
  <2>1. i \in Idents /\ lock = None /\ stage[c] # "idle"
        /\ UNCHANGED <<namespaces, files>>
    BY <1>5, <1>15 DEF RegisterTable, Serves
  <2>2. PICK f \in 1..MaxFiles :
           /\ RegisterAny \/ (IsPresent(f) /\ ~InUse(f))
           /\ entries' = IF CanInsert(i) THEN [entries EXCEPT ![i] = f] ELSE entries
    BY <1>15 DEF RegisterTable
  <2>3. CASE CanInsert(i)
    <3>1. Continue(c, "working") /\ UNCHANGED doomed
          /\ entries' = [entries EXCEPT ![i] = f]
      BY <1>15, <2>2, <2>3 DEF RegisterTable
    <3>2. entries' \in [Idents -> 1..MaxFiles \cup {None}]
      BY <1>1, <2>1, <3>1
    <3>3. ASSUME RegisterAny = FALSE PROVE Sound'
      <4>1. f \in FileIds /\ files[f].state = "present" /\ ~InUse(f)
        BY <2>2, <3>3 DEF IsPresent
      <4>2. doomed' = None /\ lock' # None /\ files' = files
        BY <1>1, <1>2, <2>1, <3>1, <3>3 DEF Sound, Continue
      <4>3. /\ entries'[i] = f
            /\ \A j \in Idents \ {i} : entries'[j] = entries[j] /\ entries[j] # f
        BY <1>1, <2>1, <3>1, <4>1 DEF InUse
      <4>4. f # None
        BY <1>2
      <4> HIDE DEF i
      <4> QED
        BY <1>1, <2>1, <3>3, <4>1, <4>2, <4>3, <4>4 DEF Sound, FileIds
    <3> QED
      BY <1>1, <2>1, <3>1, <3>2, <3>3, ContinuedCall
  <2>4. CASE ~CanInsert(i)
    <3>1. Reply(c, "error") /\ entries' = entries
      BY <1>15, <2>2, <2>4 DEF RegisterTable
    <3> QED
      BY <1>1, <2>1, <3>1, EndedCall
  <2> QED
    BY <2>3, <2>4
<1>16. CASE ReadRegistered(c)
  <2>1. /\ lock = c /\ UNCHANGED <<namespaces, entries, files>>
        /\ \E a \in {"ok", "error"} : Reply(c, a)
    BY <1>3, <1>16 DEF ReadRegistered, Works
  <2> QED
    BY <1>1, <2>1, EndedCall
<1>17. CASE LockForUpdate(c)
  <2>1. /\ lock = None /\ stage[c] # "idle" /\ Continue(c, "working")
        /\ UNCHANGED <<namespaces, entries, files, doomed>>
    BY <1>17 DEF LockForUpdate, Serves
  <2>2. RegisterAny = FALSE => Sound'
    BY <1>1, <1>2, <2>1 DEF Sound, FileIds, Continue
  <2> QED
    BY <1>1, <2>1, <2>2, ContinuedCall
<1>18. CASE ReadCurrent(c)
  <2> DEFINE f == entries[request[c].table]
  <2>1. /\ lock = c /\ stage[c] # "idle" /\ request[c].op = "update_table"
        /\ UNCHANGED <<namespaces, entries, files>>
    BY <1>3, <1>18 DEF ReadCurrent, Works
  <2>2. CASE IsPresent(f) /\ HasNextVersion(f)
    <3>1. Continue(c, "staged") /\ UNCHANGED doomed
      BY <1>18, <2>2 DEF ReadCurrent
    <3>2. RegisterAny = FALSE => Sound'
      BY <1>1, <1>2, <2>1, <3>1 DEF Sound, FileIds, Continue
    <3>3. LET g == entries'[request[c].table]
          IN  /\ request[c].op = "update_table"
              /\ g \in FileIds /\ files[g].dir = None
      BY <2>1, <2>2 DEF IsPresent, HasNextVersion
    <3> QED
      BY <1>1, <2>1, <3>1, <3>2, <3>3, ContinuedCall
  <2>3. CASE ~(IsPresent(f) /\ HasNextVersion(f))
    <3>1. Reply(c, "error")
      BY <1>18, <2>3 DEF ReadCurrent
    <3> QED
      BY <1>1, <2>1, <3>1, EndedCall
  <2> QED
    BY <2>2, <2>3
<1>19. ASSUME WriteUpdate(c)
       PROVE  \E t, v \in Nat :
                 /\ files' = Written(t, v, None)
                 /\ \E f \in FileIds : files[f].table = t /\ files[f].dir = None
  <2> DEFINE f == entries[request[c].table]
  <2>1. stage[c] = "staged" /\ files' = Written(files[f].table, files[f].version + 1, None)
    BY <1>19 DEF WriteUpdate, Works
  <2>2. f \in FileIds /\ files[f].dir = None
    BY <1>1, <2>1 DEF Staged
  <2>3. files[f].table \in Nat /\ files[f].version + 1 \in Nat
    <3>1. files[f] \in File
      BY <1>1, <2>2 DEF FileIds
    <3> QED
      BY <3>1 DEF File
  <2> QED
    BY <2>1, <2>2, <2>3
<1>20. CASE FlipPointer(c)
  <2>1. /\ WriteUpdate(c) /\ Reply(c, "ok") /\ namespaces' = namespaces
        /\ entries' = [entries EXCEPT ![request[c].table] = Len(files) + 1]
    BY <1>20 DEF FlipPointer
  <2>2. /\ Len(files) < MaxFiles /\ lock = c
        /\ request[c].table \in Idents
    BY <1>3, <1>5, <2>1 DEF WriteUpdate, Works
  <2>3. PICK t \in Nat, v \in Nat :
           /\ files' = Written(t, v, None)
           /\ \E f \in FileIds : files[f].table = t /\ files[f].dir = None
    BY <1>19, <2>1
  <2> QED
    BY <2>1, <2>2, <2>3, WrittenCall
<1>21. CASE Fail(c)
  <2>1. /\ lock \in {None, c} /\ Reply(c, "error")
        /\ UNCHANGED <<namespaces, entries, files>>
    BY <1>21 DEF Fail
  <2> QED
    BY <1>1, <2>1, EndedCall
<1>22. CASE FailAfterWrite(c)
  <2>1. /\ Reply(c, "error") /\ UNCHANGED <<namespaces, entries>>
        /\ lock = c /\ Len(files) < MaxFiles /\ request[c].table \in Idents
    BY <1>3, <1>5, <1>22 DEF FailAfterWrite, WriteUpdate, Works
  <2>2. CASE WriteUpdate(c)
    <3>1. PICK t \in Nat, v \in Nat :
             /\ files' = Written(t, v, None)
             /\ \E f \in FileIds : files[f].table = t /\ files[f].dir = None
      BY <1>19, <2>2
    <3> QED
      BY <2>1, <3>1, WrittenCall
  <2>3. CASE files' = Written(Len(files) + 1, 0, None)
    <3>1. Len(files) + 1 \in Nat /\ 0 \in Nat
      BY <1>1
    <3> QED
      BY <2>1, <2>3, <3>1, WrittenCall
  <2> QED
    BY <1>22, <2>2, <2>3 DEF FailAfterWrite
<1> QED
  BY <1>6, <1>7, <1>8, <1>9, <1>10, <1>11, <1>12, <1>13, <1>14, <1>15, <1>16,
     <1>17, <1>18, <1>20, <1>21, <1>22 DEF Call

-----------------------------------------------------------------------------
LEMMA JavaKeepsIInv ==
    ASSUME IInv, NEW d \in Dirs,
           JavaCommit(d) \/ JavaHint(d) \/ JavaDrop(d)
    PROVE  IInv'
<1>1. /\ files \in Seq(File) /\ Len(files) \in 0..MaxFiles /\ Tables /\ Staged
      /\ entries \in [Idents -> 1..MaxFiles \cup {None}]
      /\ RegisterAny = FALSE => Sound
  BY InvariantParts
<1>2. MaxFiles \in Nat /\ None \notin Idents /\ None \notin Nat /\ d \in Idents
  BY CatalogAssumption, DirAssumption
<1>3. /\ hint \in [Dirs -> Nat] /\ \A f \in FileIds : files[f] \in File
  BY <1>1 DEF IInv, TypeOK, FileIds
<1>4. /\ UNCHANGED <<catalogVars, bootVars>>
      /\ files' \in Seq(File) /\ Len(files') \in 0..MaxFiles /\ Kept /\ Tables'
      /\ \A f \in FileIds : files[f].state # "dropped" => files'[f].state # "dropped"
      /\ hint' \in [Dirs -> Nat]
  <2>1. CASE JavaCommit(d)
    <3>1. PICK t \in Nat, v \in Nat :
             /\ files' = Written(t, v, d)
             /\ \/ t = Len(files) + 1
                \/ \E f \in FileIds : files[f].table = t
                                      /\ (files[f].dir = None) = (d = None)
      <4>1. CASE files' = Written(Len(files) + 1, 1, d)
        <5>1. Len(files) + 1 \in Nat /\ 1 \in Nat
          BY <1>1
        <5> QED
          BY <4>1, <5>1
      <4>2. ASSUME NEW f \in Latest(d),
                   files' = Written(files[f].table, files[f].version + 1, d)
            PROVE  \E t, v \in Nat :
                     /\ files' = Written(t, v, d)
                     /\ \E g \in FileIds : files[g].table = t
                                           /\ (files[g].dir = None) = (d = None)
        <5>1. f \in FileIds /\ files[f].dir = d
          BY DEF Latest, Versions
        <5>2. files[f].table \in Nat /\ files[f].version + 1 \in Nat
          BY <1>3, <5>1 DEF File
        <5> QED
          BY <4>2, <5>1, <5>2
      <4> QED
        BY <2>1, <4>1, <4>2 DEF JavaCommit
    <3>2. /\ Len(files) < MaxFiles /\ UNCHANGED <<catalogVars, hint, bootVars>>
      BY <2>1 DEF JavaCommit
    <3>3. Tables'
      BY <1>1, <1>2, <3>1, NewFileKeepsTables
    <3>4. Kept
      BY <1>1, <1>2, <3>1, AppendKeeps
    <3>5. /\ files' \in Seq(File) /\ Len(files') = Len(files) + 1
          /\ \A f \in FileIds : files'[f] = files[f]
      BY <1>1, <1>2, <3>1, AppendsFile
    <3>6. Len(files') \in 0..MaxFiles
      BY <1>1, <1>2, <3>2, <3>5
    <3> QED
      BY <1>3, <3>2, <3>3, <3>4, <3>5, <3>6
  <2>2. CASE JavaHint(d)
    <3>1. /\ UNCHANGED <<catalogVars, files, bootVars>>
          /\ hint' \in [Dirs -> Nat]
      <4>1. PICK f \in Latest(d), h \in Nat : hint' = [hint EXCEPT ![d] = h]
        <5>1. \A f \in Latest(d) : files[f].version \in Nat
          BY <1>3 DEF Latest, Versions, File
        <5> QED
          BY <2>2, <5>1 DEF JavaHint
      <4> QED
        BY <1>3, <2>2, <4>1 DEF JavaHint
    <3> QED
      BY <1>1, <3>1 DEF Kept, Tables, OneWriterPerTable, FileIds
  <2>3. CASE JavaDrop(d)
    <3>1. /\ UNCHANGED <<catalogVars, bootVars>>
          /\ hint' = [hint EXCEPT ![d] = 0]
          /\ files' = [f \in FileIds |->
                          IF f \in Versions(d) THEN [files[f] EXCEPT !.state = "purged"]
                          ELSE files[f]]
      BY <2>3 DEF JavaDrop
    <3>2. /\ files' \in Seq(File) /\ Len(files') = Len(files) /\ Kept
          /\ \A f \in FileIds \cap Versions(d) : files'[f].state = "purged"
          /\ \A f \in FileIds \ Versions(d) : files'[f] = files[f]
      BY <1>1, <3>1, MarksFiles
    <3>3. Tables'
      BY <1>1, <3>2, FilesKeepTables
    <3>4. hint' \in [Dirs -> Nat]
      BY <1>3, <3>1
    <3> QED
      BY <1>1, <3>1, <3>2, <3>3, <3>4
  <2> QED
    BY <2>1, <2>2, <2>3
<1>5. \A f : f \in FileIds => f \in FileIds' /\ files'[f].dir = files[f].dir
  BY <1>1, <1>4 DEF Kept, FileIds
<1>6. TypeOK'
  BY <1>4 DEF IInv, TypeOK, CatalogTypeOK, catalogVars, bootVars
<1>7. Opening'
  BY <1>4, <1>5 DEF IInv, Opening, catalogVars, bootVars
<1>8. Staged'
  BY <1>1, <1>4, <1>5 DEF Staged, catalogVars
<1>9. RegisterAny = FALSE => Sound'
  BY <1>1, <1>4, <1>5 DEF Sound, catalogVars
<1> QED
  BY <1>4, <1>6, <1>7, <1>8, <1>9 DEF IInv

LEMMA OpeningKeepsIInv ==
    ASSUME IInv,
           \/ BeginOpen \/ (\E d \in Dirs : ReadHint(d)) \/ ResolveMetadataFile
           \/ RegisterFound \/ EndOpen
    PROVE  IInv'
<1>1. /\ files \in Seq(File) /\ Len(files) \in 0..MaxFiles /\ Tables /\ Staged
      /\ entries \in [Idents -> 1..MaxFiles \cup {None}]
      /\ RegisterAny = FALSE => Sound
  BY InvariantParts
<1>2. /\ MaxFiles \in Nat /\ MaxCalls \in Nat
      /\ None \notin Idents /\ None \notin Nat /\ Dirs \subseteq Idents
      /\ \A i \in Idents : i.ns \in Namespaces
  BY CatalogAssumption, DirAssumption
<1>3. TypeOK /\ Opening
  BY DEF IInv
<1>4. files' = files /\ lock' = lock /\ stage' = stage /\ request' = request
      /\ doomed' = doomed /\ answer' = answer /\ hint' = hint
  BY DEF BeginOpen, ReadHint, ResolveMetadataFile, RegisterFound, EndOpen,
         catalogVars
<1>5. Tables'
  BY <1>1, <1>4 DEF Tables, OneWriterPerTable, FileIds
<1>6. phase # "open" /\ lock = None /\ \A c \in Clients : stage[c] = "idle"
  BY <1>3 DEF Opening, BeginOpen, ReadHint, ResolveMetadataFile, RegisterFound, EndOpen
<1>7. Staged'
  BY <1>4, <1>6 DEF Staged
<1>8. CASE BeginOpen
  <2>1. TypeOK'
    <3>1. todo' \subseteq Dirs /\ calls' \in 0..MaxCalls /\ phase' = "opening"
      BY <1>2, <1>3, <1>8 DEF BeginOpen, TypeOK, CatalogTypeOK
    <3>2. floor' \in [Dirs -> 1..MaxFiles \cup {None}]
      BY <1>1, <1>2, <1>8 DEF BeginOpen, FileIds
    <3> QED
      BY <1>3, <1>8, <3>1, <3>2 DEF BeginOpen, TypeOK, CatalogTypeOK
  <2>2. Opening'
    <3>1. phase = "closed" /\ phase' = "opening" /\ looking' = looking /\ found' = found
          /\ entries' = entries
      BY <1>8 DEF BeginOpen
    <3> QED
      BY <1>3, <1>4, <3>1 DEF Opening, FileIds
  <2>3. RegisterAny = FALSE => Sound'
    BY <1>1, <1>8 DEF BeginOpen, Sound, FileIds
  <2> QED
    BY <1>5, <1>7, <2>1, <2>2, <2>3 DEF IInv
<1>9. ASSUME NEW d \in Dirs, ReadHint(d) PROVE IInv'
  <2>1. TypeOK'
    BY <1>2, <1>3, <1>9 DEF ReadHint, TypeOK, CatalogTypeOK
  <2>2. Opening'
    BY <1>3, <1>4, <1>9 DEF ReadHint, Opening, FileIds
  <2>3. RegisterAny = FALSE => Sound'
    BY <1>1, <1>9 DEF ReadHint, Sound, FileIds
  <2> QED
    BY <1>5, <1>7, <2>1, <2>2, <2>3 DEF IInv
<1>10. CASE ResolveMetadataFile
  <2>1. /\ UNCHANGED <<catalogVars, files, hint, phase, floor>>
        /\ phase = "opening" /\ looking \in Dirs
    BY <1>3, <1>10 DEF ResolveMetadataFile, TypeOK
  <2>2. \/ NextDirectory
        \/ /\ found' \in FileIds /\ files[found'].dir = looking
           /\ UNCHANGED <<todo, looking, seen>>
    BY <1>10 DEF ResolveMetadataFile, Resolve, Named, Latest, Versions
  <2>3. /\ todo' \subseteq Dirs /\ looking' \in Dirs \cup {None} /\ seen' \in Nat
        /\ looking' # None => looking' \in todo' /\ looking' = looking
        /\ found' # None => looking' # None /\ found' \in FileIds
                            /\ files[found'].dir = looking'
    <3>1. CASE NextDirectory
      BY <1>3, <3>1 DEF NextDirectory, TypeOK
    <3>2. CASE /\ found' \in FileIds /\ files[found'].dir = looking
               /\ UNCHANGED <<todo, looking, seen>>
      BY <1>2, <1>3, <2>1, <3>2 DEF TypeOK, Opening
    <3> QED
      BY <2>2, <3>1, <3>2
  <2>4. found' \in 1..MaxFiles \cup {None}
    <3>1. FileIds \subseteq 1..MaxFiles
      BY <1>1, <1>2 DEF FileIds
    <3> QED
      BY <2>3, <3>1
  <2>5. TypeOK'
    BY <1>3, <2>1, <2>3, <2>4 DEF TypeOK, CatalogTypeOK, catalogVars
  <2>6. Opening'
    <3>1. entries' = entries /\ phase' = phase
      BY <2>1 DEF catalogVars
    <3> QED
      BY <1>3, <1>4, <2>1, <2>3, <3>1 DEF Opening, FileIds
  <2>7. RegisterAny = FALSE => Sound'
    BY <1>1, <2>1 DEF Sound, catalogVars, FileIds
  <2> QED
    BY <1>5, <1>7, <2>5, <2>6, <2>7 DEF IInv
<1>11. CASE RegisterFound
  <2>1. /\ phase = "opening" /\ found # None /\ NextDirectory /\ phase' = phase
        /\ found \in FileIds /\ files[found].state = "present"
        /\ files[found].dir = looking /\ looking \in Dirs
        /\ UNCHANGED <<namespaces, lock, request, stage, answer, doomed, calls, floor>>
    BY <1>3, <1>11 DEF RegisterFound, IsPresent, Opening, TypeOK
  <2>2. \/ entries' = entries
        \/ /\ entries[looking] = None
           /\ entries' = [entries EXCEPT ![looking] = found]
    BY <1>11 DEF RegisterFound
  <2>3. \A i \in Idents :
           entries'[i] = entries[i] \/ (i = looking /\ entries'[i] = found)
    BY <1>1, <2>2
  <2>4. entries' \in [Idents -> 1..MaxFiles \cup {None}]
    BY <1>1, <1>2, <2>1, <2>2 DEF FileIds
  <2>5. TypeOK'
    <3>1. /\ todo' \subseteq Dirs /\ looking' = None /\ seen' = 0 /\ found' = None
      BY <1>3, <2>1 DEF TypeOK, NextDirectory
    <3>2. CatalogTypeOK'
      BY <1>3, <1>4, <2>1, <2>4 DEF TypeOK, CatalogTypeOK
    <3> QED
      BY <1>3, <1>4, <2>1, <3>1, <3>2 DEF TypeOK
  <2>6. Opening'
    <3>1. looking' = None /\ found' = None
      BY <2>1 DEF NextDirectory
    <3>2. \A i \in Idents : entries'[i] # None =>
             entries'[i] \in FileIds /\ files[entries'[i]].dir = i
      BY <1>3, <1>6, <2>1, <2>3 DEF Opening
    <3> QED
      BY <1>4, <1>6, <3>1, <3>2 DEF Opening, FileIds
  <2>7. ASSUME RegisterAny = FALSE PROVE Sound'
    <3>1. doomed' = None /\ lock' = lock
      BY <1>1, <1>4, <1>6, <2>7 DEF Sound
    <3>2. \A i \in Idents : entries[i] # None => files[entries[i]].dir = i
      BY <1>3, <1>6 DEF Opening
    <3>3. \A i, j \in Idents : entries'[i] # None /\ entries'[i] = entries'[j] => i = j
      BY <2>1, <2>3, <3>2
    <3> QED
      BY <1>1, <1>4, <2>1, <2>3, <2>7, <3>1, <3>3 DEF Sound, FileIds
  <2> QED
    BY <1>5, <1>7, <2>5, <2>6, <2>7 DEF IInv
<1>12. CASE EndOpen
  <2>1. /\ UNCHANGED <<catalogVars, files, hint, todo, looking, seen, found, floor>>
        /\ phase' = "open" /\ todo = {}
    BY <1>12 DEF EndOpen
  <2>2. TypeOK'
    BY <1>3, <2>1 DEF TypeOK, CatalogTypeOK, catalogVars
  <2>3. Opening'
    BY <1>3, <2>1 DEF Opening
  <2>4. RegisterAny = FALSE => Sound'
    BY <1>1, <2>1 DEF Sound, catalogVars, FileIds
  <2> QED
    BY <1>5, <1>7, <2>2, <2>3, <2>4 DEF IInv
<1> QED
  BY <1>8, <1>9, <1>10, <1>11, <1>12

LEMMA CloseKeepsIInv ==
    ASSUME IInv, Close
    PROVE  IInv'
<1>1. /\ Tables /\ None \notin Clients
      /\ phase' = "closed" /\ files' = files /\ lock' = None /\ doomed' = None
      /\ entries' = [i \in Idents |-> None]
      /\ request' = [c \in Clients |-> None]
      /\ stage' = [c \in Clients |-> "idle"]
      /\ looking' = None /\ found' = None
  BY CatalogAssumption, InvariantParts DEF Close
<1>2. CatalogTypeOK'
  BY <1>1 DEF Close, IInv, TypeOK, CatalogTypeOK
<1>3. TypeOK'
  BY <1>1, <1>2 DEF Close, IInv, TypeOK
<1>4. Opening' /\ Staged' /\ Sound'
  BY <1>1 DEF Opening, Staged, Sound
<1>5. Tables'
  BY <1>1 DEF Tables, OneWriterPerTable, FileIds
<1> QED
  BY <1>3, <1>4, <1>5 DEF IInv

LEMMA ServeKeepsIInv ==
    ASSUME IInv, Serve
    PROVE  IInv'
<1>1. PICK c \in Clients : Call(c)
  BY DEF Serve
<1>2. phase = "open" /\ UNCHANGED <<hint, bootVars>>
  BY DEF Serve
<1>3. CallFrame(c)
  BY <1>1, CallKeepsFrame
<1>4. Opening'
  BY <1>2, CallKeepsOpening DEF IInv
<1>5. TypeOK'
  BY <1>2, <1>3 DEF IInv, TypeOK, CatalogTypeOK, CallFrame, Calls, bootVars
<1> QED
  BY <1>3, <1>4, <1>5 DEF IInv, CallFrame

LEMMA InitEstablishesIInv == WarehouseInit => IInv
<1> SUFFICES ASSUME WarehouseInit PROVE IInv
  OBVIOUS
<1>1. files = << >> /\ files \in Seq(File) /\ Len(files) = 0 /\ FileIds = {}
  BY DEF WarehouseInit, FileIds
<1>2. MaxFiles \in Nat /\ MaxCalls \in Nat /\ None \notin Clients
  BY CatalogAssumption
<1>3. TypeOK
  BY <1>1, <1>2 DEF WarehouseInit, Init, TypeOK, CatalogTypeOK
<1>4. Opening /\ Staged /\ Sound
  BY DEF WarehouseInit, Init, Opening, Staged, Sound
<1>5. Tables
  BY <1>1 DEF Tables, OneWriterPerTable
<1> QED
  BY <1>3, <1>4, <1>5 DEF IInv

LEMMA StutterKeepsIInv ==
    ASSUME IInv, UNCHANGED vars
    PROVE  IInv'
<1>1. UNCHANGED <<catalogVars, files, hint, bootVars>>
  BY DEF vars
<1> QED
  BY <1>1 DEF IInv, TypeOK, CatalogTypeOK, Opening, Staged, Tables,
              OneWriterPerTable, Sound, FileIds, catalogVars, bootVars

LEMMA IInvIsInvariant == Spec => []IInv
<1>1. WarehouseInit => IInv
  BY InitEstablishesIInv
<1>2. IInv /\ [WarehouseNext]_vars => IInv'
  <2> SUFFICES ASSUME IInv, [WarehouseNext]_vars PROVE IInv'
    OBVIOUS
  <2>1. CASE Java
    BY <2>1, JavaKeepsIInv DEF Java
  <2>2. CASE \/ BeginOpen \/ (\E d \in Dirs : ReadHint(d)) \/ ResolveMetadataFile
             \/ RegisterFound \/ EndOpen
    BY <2>2, OpeningKeepsIInv
  <2>3. CASE Close
    BY <2>3, CloseKeepsIInv
  <2>4. CASE Serve
    BY <2>4, ServeKeepsIInv
  <2>5. CASE UNCHANGED vars
    BY <2>5, StutterKeepsIInv
  <2> QED
    BY <2>1, <2>2, <2>3, <2>4, <2>5 DEF WarehouseNext
<1> QED
  BY <1>1, <1>2, PTL DEF Spec

-----------------------------------------------------------------------------
(* The catalog, the warehouse and the directory keep their types: above     *)
(* all, the mutex is held by exactly the call that waits for the storage,   *)
(* and by nobody once that call has ended, failed or been dropped.          *)
THEOREM TypesAreKept == Spec => []TypeOK
<1>1. IInv => TypeOK
  BY DEF IInv
<1> QED
  BY <1>1, IInvIsInvariant, PTL

(* When tables are registered only where there is a file that no entry uses *)
(* yet, every entry can be opened whenever no call is at work.              *)
THEOREM EntriesStayReadable ==
    ASSUME RegisterAny = FALSE
    PROVE  Spec => []EntriesReadable
<1>1. IInv => EntriesReadable
  BY DEF IInv, Sound, EntriesReadable
<1> QED
  BY <1>1, IInvIsInvariant, PTL

(* Java and this catalog never commit to the same table. *)
THEOREM TablesHaveOneWriter == Spec => []OneWriterPerTable
<1>1. IInv => OneWriterPerTable
  BY DEF IInv, Tables
<1> QED
  BY <1>1, IInvIsInvariant, PTL

-----------------------------------------------------------------------------
(* While the warehouse is opened: a table whose hint named a file when the   *)
(* opening began has that file still, and a hint that names it or a later    *)
(* one, or it is gone for good.                                              *)
NotBefore(f, g) ==
    files[f].table = files[g].table => files[f].version >= files[g].version

AtFloor(d) ==
    /\ floor[d] \in FileIds /\ files[floor[d]].dir = d
    /\ IF floor[d] \in Versions(d)
       THEN /\ hint[d] = 0 \/ hint[d] >= files[floor[d]].version
            /\ looking = d => seen = 0 \/ seen >= files[floor[d]].version
       ELSE \A f \in Versions(d) : files[f].table # files[floor[d]].table
    /\ \A f \in FileIds :
          f = entries[d] \/ (looking = d /\ f = found) => NotBefore(f, floor[d])

Floors ==
    /\ phase = "closed" => \A i \in Idents : entries[i] = None
    /\ phase = "opening" => \A d \in Dirs : floor[d] # None => AtFloor(d)

LEMMA FilesAreTyped ==
    ASSUME IInv
    PROVE  /\ FileIds = 1..Len(files) /\ Len(files) \in Nat /\ MaxFiles \in Nat
           /\ \A f \in FileIds : files[f].version \in Nat /\ files[f].table \in 1..Len(files)
           /\ None \notin Nat /\ None \notin Idents /\ Dirs \subseteq Idents
<1>1. files \in Seq(File) /\ Len(files) \in Nat /\ MaxFiles \in Nat /\ None \notin Nat
      /\ None \notin Idents /\ Dirs \subseteq Idents
  BY InvariantParts, CatalogAssumption, DirAssumption
<1>2. \A f \in FileIds : files[f] \in File
  BY <1>1 DEF FileIds
<1> QED
  BY <1>1, <1>2 DEF FileIds, File, IInv, Tables

LEMMA CommitKeepsFloors ==
    ASSUME IInv, Floors, phase = "opening", NEW d \in Dirs, JavaCommit(d),
           NEW e \in Dirs, floor[e] # None
    PROVE  AtFloor(e)'
<1> DEFINE g == floor[e]
           n == Len(files)
<1>1. /\ FileIds = 1..n /\ n \in Nat /\ None \notin Nat
      /\ \A f \in FileIds : files[f].version \in Nat /\ files[f].table \in 1..n
      /\ files \in Seq(File) /\ d \in Idents
  BY FilesAreTyped, InvariantParts
<1>2. /\ AtFloor(e) /\ g \in FileIds
      /\ UNCHANGED <<entries, hint, phase, looking, seen, found, floor>>
  BY DEF Floors, AtFloor, JavaCommit, catalogVars, bootVars
<1>3. PICK t \in Nat, v \in Nat :
         /\ files' = Written(t, v, d)
         /\ t = n + 1 \/ \E f \in Versions(d) : t = files[f].table
  <2>1. CASE files' = Written(n + 1, 1, d)
    BY <1>1, <2>1
  <2>2. ASSUME NEW f \in Latest(d), files' = Written(files[f].table, files[f].version + 1, d)
        PROVE  \E t, v \in Nat : /\ files' = Written(t, v, d)
                                 /\ \E h \in Versions(d) : t = files[h].table
    <3>1. f \in Versions(d) /\ files[f].table \in Nat /\ files[f].version + 1 \in Nat
      BY <1>1 DEF Latest, Versions
    <3> QED
      BY <2>2, <3>1
  <2> QED
    BY <2>1, <2>2 DEF JavaCommit
<1>4. /\ Len(files') = n + 1
      /\ \A f \in FileIds : files'[f] = files[f]
      /\ files'[n + 1] = [state |-> "present", table |-> t, version |-> v, dir |-> d]
  BY <1>1, <1>3, AppendsFile
<1>5. /\ FileIds' = FileIds \cup {n + 1} /\ n + 1 \notin FileIds /\ g # n + 1
      /\ files'[n + 1].table = t /\ files'[n + 1].dir = d
  BY <1>1, <1>2, <1>4 DEF FileIds
<1> HIDE DEF n, g
<1>6. /\ e = d => Versions(e)' = Versions(e) \cup {n + 1}
      /\ e # d => Versions(e)' = Versions(e)
  BY <1>4, <1>5 DEF Versions
<1>7. g \in Versions(e)' <=> g \in Versions(e)
  BY <1>5, <1>6
<1>8. ASSUME g \notin Versions(e), NEW f \in Versions(e)'
      PROVE  files'[f].table # files'[g].table
  <2>1. \A h \in Versions(e) : files[h].table # files[g].table
    BY <1>2, <1>8 DEF AtFloor, g
  <2>2. CASE f \in Versions(e)
    BY <1>2, <1>4, <2>1, <2>2 DEF Versions
  <2>3. CASE f = n + 1 /\ e = d
    BY <1>1, <1>2, <1>3, <1>4, <1>5, <2>1, <2>3
  <2> QED
    BY <1>6, <2>2, <2>3
<1>9. ASSUME NEW f \in FileIds', f = entries[e] \/ (looking = e /\ f = found)
      PROVE  NotBefore(f, g)'
  <2>1. f \in FileIds
    <3>1. e \in Idents /\ f # None
      BY <1>1, <1>5, FilesAreTyped
    <3> QED
      BY <1>9, <3>1 DEF IInv, Opening
  <2>2. NotBefore(f, g)
    BY <1>2, <1>9, <2>1 DEF AtFloor, g
  <2> QED
    BY <1>2, <1>4, <2>1, <2>2 DEF NotBefore, g
<1> QED
  BY <1>2, <1>4, <1>5, <1>7, <1>8, <1>9 DEF AtFloor, g, NotBefore

LEMMA JavaKeepsFloors ==
    ASSUME IInv, Floors, NEW d \in Dirs, JavaCommit(d) \/ JavaHint(d) \/ JavaDrop(d)
    PROVE  Floors'
<1>1. UNCHANGED <<entries, phase, looking, seen, found, floor>>
  BY DEF JavaCommit, JavaHint, JavaDrop, catalogVars, bootVars
<1>2. SUFFICES ASSUME phase = "opening", NEW e \in Dirs, floor[e] # None
               PROVE  AtFloor(e)'
  BY <1>1 DEF Floors
<1> DEFINE g == floor[e]
<1>3. /\ \A f \in FileIds : files[f].version \in Nat
      /\ files \in Seq(File) /\ hint \in [Dirs -> Nat]
  BY FilesAreTyped, InvariantParts DEF IInv, TypeOK
<1>4. AtFloor(e) /\ g \in FileIds
  BY <1>2 DEF Floors, AtFloor
<1>5. CASE JavaCommit(d)
  BY <1>2, <1>5, CommitKeepsFloors
<1>6. CASE JavaHint(d)
  <2>1. files' = files
    BY <1>6 DEF JavaHint
  <2>2. PICK f \in Latest(d) :
           \E h \in {0, files[f].version} : hint' = [hint EXCEPT ![d] = h]
    BY <1>6 DEF JavaHint
  <2>3. /\ \A k \in FileIds : files'[k] = files[k]
        /\ FileIds' = FileIds /\ Versions(e)' = Versions(e)
    BY <2>1 DEF FileIds, Versions
  <2>4. ASSUME g \in Versions(e)
        PROVE  hint'[e] = 0 \/ hint'[e] >= files[g].version
    <3>1. CASE e = d
      BY <1>3, <2>2, <2>4, <3>1 DEF Latest, Versions
    <3>2. CASE e # d
      BY <1>3, <1>4, <2>2, <2>4, <3>2 DEF AtFloor
    <3> QED
      BY <3>1, <3>2
  <2> QED
    BY <1>1, <1>4, <2>1, <2>3, <2>4 DEF AtFloor, NotBefore
<1>7. CASE JavaDrop(d)
  <2>1. /\ hint' = [hint EXCEPT ![d] = 0]
        /\ files' = [f \in FileIds |->
                        IF f \in Versions(d) THEN [files[f] EXCEPT !.state = "purged"]
                        ELSE files[f]]
    BY <1>7 DEF JavaDrop
  <2>2. /\ Len(files') = Len(files) /\ Kept
        /\ \A f \in FileIds \cap Versions(d) : files'[f].state = "purged"
        /\ \A f \in FileIds \ Versions(d) : files'[f] = files[f]
    BY <1>3, <2>1, MarksFiles
  <2>3. FileIds' = FileIds
    BY <2>2 DEF FileIds
  <2>4. Versions(e)' = IF e = d THEN {} ELSE Versions(e)
    BY <2>2, <2>3 DEF Versions, Kept
  <2>5. CASE e = d
    BY <1>1, <1>4, <2>2, <2>3, <2>4, <2>5 DEF AtFloor, NotBefore, Kept
  <2>6. CASE e # d
    <3>1. hint'[e] = hint[e]
      BY <1>3, <2>1, <2>6
    <3> HIDE DEF g
    <3>2. /\ files'[g].version = files[g].version /\ files'[g].table = files[g].table
          /\ files'[g].dir = files[g].dir
          /\ \A f \in FileIds : files'[f].version = files[f].version
                               /\ files'[f].table = files[f].table
      BY <1>4, <2>2 DEF Kept
    <3>3. Versions(e)' = Versions(e) /\ Versions(e) \subseteq FileIds
      BY <2>4, <2>6 DEF Versions
    <3> QED
      BY <1>1, <1>4, <2>3, <3>1, <3>2, <3>3 DEF AtFloor, NotBefore, g
  <2> QED
    BY <2>5, <2>6
<1> QED
  BY <1>5, <1>6, <1>7

LEMMA OpeningKeepsFloors ==
    ASSUME IInv, Floors,
           \/ BeginOpen \/ (\E d \in Dirs : ReadHint(d)) \/ ResolveMetadataFile
           \/ RegisterFound \/ EndOpen
    PROVE  Floors'
<1>1. /\ \A f \in FileIds : files[f].version \in Nat
      /\ entries \in [Idents -> 1..MaxFiles \cup {None}]
      /\ hint \in [Dirs -> Nat] /\ None \notin Nat
      /\ None \notin Idents /\ Dirs \subseteq Idents /\ looking \in Dirs \cup {None}
  BY FilesAreTyped, InvariantParts DEF IInv, TypeOK
<1>2. files' = files /\ hint' = hint /\ FileIds' = FileIds
      /\ \A d : Versions(d)' = Versions(d)
  BY DEF BeginOpen, ReadHint, ResolveMetadataFile, RegisterFound, EndOpen, FileIds, Versions
<1>3. CASE BeginOpen
  <2>1. /\ phase = "closed" /\ phase' = "opening" /\ entries' = entries /\ looking' = looking
        /\ \A d \in Dirs : floor'[d] # None => floor'[d] \in Named(d, hint[d])
    BY <1>3 DEF BeginOpen
  <2>2. looking = None /\ \A i \in Idents : entries[i] = None
    BY <2>1 DEF IInv, Opening, Floors
  <2>3. ASSUME NEW d \in Dirs, floor'[d] # None
        PROVE  AtFloor(d)'
    <3>1. /\ floor'[d] \in Versions(d) /\ files[floor'[d]].version = hint[d]
          /\ floor'[d] \in FileIds /\ files[floor'[d]].dir = d
      BY <2>1, <2>3 DEF Named, Versions
    <3>2. d \in Idents /\ d # None /\ entries[d] = None
      BY <1>1, <2>2
    <3>3. \A f \in FileIds : f # None
      BY FilesAreTyped
    <3> QED
      BY <1>1, <1>2, <2>1, <2>2, <3>1, <3>2, <3>3 DEF AtFloor
  <2> QED
    BY <2>1, <2>3 DEF Floors
<1>4. ASSUME NEW d \in Dirs, ReadHint(d) PROVE Floors'
  <2>1. /\ phase' = phase /\ phase = "opening" /\ looking = None /\ looking' = d /\ seen' = hint[d]
        /\ UNCHANGED <<entries, found, floor>>
    BY <1>4 DEF ReadHint
  <2>2. found = None
    BY <2>1 DEF IInv, Opening
  <2>3. ASSUME NEW e \in Dirs, floor[e] # None PROVE AtFloor(e)'
    <3>1. AtFloor(e)
      BY <2>1, <2>3 DEF Floors
    <3>2. \A f \in FileIds : f # None
      BY FilesAreTyped
    <3> QED
      BY <1>2, <2>1, <2>2, <3>1, <3>2 DEF AtFloor, NotBefore
  <2> QED
    BY <2>1, <2>3 DEF Floors
<1>5. CASE ResolveMetadataFile
  <2>1. /\ phase' = phase /\ phase = "opening" /\ looking # None
        /\ UNCHANGED <<entries, floor>>
        /\ \/ looking' = None
           \/ found' \in Resolve(looking, seen) /\ UNCHANGED <<looking, seen>>
    BY <1>5 DEF ResolveMetadataFile, NextDirectory, catalogVars
  <2>2. ASSUME NEW e \in Dirs, floor[e] # None PROVE AtFloor(e)'
    <3>1. AtFloor(e) /\ e # None
      BY <1>1, <2>1, <2>2 DEF Floors
    <3>2. CASE looking' = None
      BY <1>2, <2>1, <3>1, <3>2 DEF AtFloor, NotBefore
    <3>3. CASE found' \in Resolve(looking, seen) /\ UNCHANGED <<looking, seen>>
      <4>1. ASSUME looking = e, files[found'].table = files[floor[e]].table
            PROVE  files[found'].version >= files[floor[e]].version
        <5>1. found' \in Versions(e)
          BY <3>3, <4>1 DEF Resolve, Named, Latest
        <5>2. floor[e] \in Versions(e) /\ (seen = 0 \/ seen >= files[floor[e]].version)
          BY <3>1, <4>1, <5>1 DEF AtFloor
        <5>3. \/ seen > 0 /\ files[found'].version = seen
              \/ files[floor[e]].version <= files[found'].version
          BY <3>3, <4>1, <5>2 DEF Resolve, Named, Latest
        <5>4. files[found'].version \in Nat /\ files[floor[e]].version \in Nat
          BY <1>1, <5>1, <5>2 DEF Versions
        <5> QED
          BY <5>2, <5>3, <5>4
      <4> QED
        BY <1>2, <2>1, <3>1, <3>3, <4>1 DEF AtFloor, NotBefore
    <3> QED
      BY <2>1, <3>2, <3>3
  <2> QED
    BY <2>1, <2>2 DEF Floors
<1>6. CASE RegisterFound
  <2>1. /\ phase' = phase /\ phase = "opening" /\ looking' = None /\ floor' = floor
        /\ looking \in Dirs /\ looking \in Idents
        /\ \/ entries' = entries
           \/ entries' = [entries EXCEPT ![looking] = found]
    BY <1>1, <1>6 DEF RegisterFound, NextDirectory, IInv, Opening
  <2>2. ASSUME NEW e \in Dirs, floor[e] # None PROVE AtFloor(e)'
    <3>1. AtFloor(e) /\ e # None
      BY <1>1, <2>1, <2>2 DEF Floors
    <3>2. entries'[e] = entries[e] \/ (looking = e /\ entries'[e] = found)
      BY <1>1, <2>1
    <3> QED
      BY <1>2, <2>1, <3>1, <3>2 DEF AtFloor, NotBefore
  <2> QED
    BY <2>1, <2>2 DEF Floors
<1>7. CASE EndOpen
  BY <1>7 DEF EndOpen, Floors
<1> QED
  BY <1>3, <1>4, <1>5, <1>6, <1>7

LEMMA FloorsHold == Spec => []Floors
<1>1. WarehouseInit => Floors
  BY DEF WarehouseInit, Init, Floors
<1>2. IInv /\ Floors /\ [WarehouseNext]_vars => Floors'
  <2> SUFFICES ASSUME IInv, Floors, [WarehouseNext]_vars PROVE Floors'
    OBVIOUS
  <2>1. CASE Java
    BY <2>1, JavaKeepsFloors DEF Java
  <2>2. CASE \/ BeginOpen \/ (\E d \in Dirs : ReadHint(d)) \/ ResolveMetadataFile
             \/ RegisterFound \/ EndOpen
    BY <2>2, OpeningKeepsFloors
  <2>3. CASE Close
    BY <2>3 DEF Close, Floors
  <2>4. CASE Serve
    BY <2>4 DEF Serve, bootVars, Floors
  <2>5. CASE UNCHANGED vars
    BY <2>5 DEF vars, catalogVars, bootVars, Floors, AtFloor, NotBefore, Versions, FileIds
  <2> QED
    BY <2>1, <2>2, <2>3, <2>4, <2>5 DEF WarehouseNext
<1> QED
  BY <1>1, <1>2, IInvIsInvariant, PTL DEF Spec

(* A table is never opened at a version older than the one its hint named    *)
(* when the opening began, whatever Java commits, drops or creates anew      *)
(* between the two reads of resolve_metadata_file.                           *)
THEOREM OpensNothingStale == Spec => []OpensCurrent
<1>1. IInv /\ Floors => OpensCurrent
  <2> SUFFICES ASSUME IInv, Floors, phase = "opening", NEW d \in Dirs,
                      entries[d] # None, floor[d] # None,
                      files[entries[d]].table = files[floor[d]].table
               PROVE  files[entries[d]].version >= files[floor[d]].version
    BY DEF OpensCurrent
  <2>1. entries[d] \in FileIds
    BY FilesAreTyped DEF IInv, Opening
  <2> QED
    BY <2>1 DEF Floors, AtFloor, NotBefore
<1> QED
  BY <1>1, IInvIsInvariant, FloorsHold, PTL

-----------------------------------------------------------------------------
(* The tree of namespaces: a namespace has its parents, and a table has its  *)
(* namespace.                                                                *)
Tree ==
    /\ \A q \in namespaces, p \in Namespaces : IsPrefix(p, q) => p \in namespaces
    /\ \A i \in Idents : entries[i] # None => i.ns \in namespaces
    /\ looking # None => looking.ns \in namespaces

LEMMA SubSeqIs ==
    ASSUME NEW S, NEW q \in Seq(S), NEW n \in 0..Len(q)
    PROVE  /\ SubSeq(q, 1, n) \in Seq(S) /\ Len(SubSeq(q, 1, n)) = n
           /\ \A i \in 1..n : SubSeq(q, 1, n)[i] = q[i]
BY SubSeqProperties

LEMMA PrefixIs ==
    ASSUME NEW S, NEW p \in Seq(S), NEW q \in Seq(S)
    PROVE  IsPrefix(p, q) <=> Len(p) <= Len(q) /\ \A i \in 1..Len(p) : p[i] = q[i]
<1>1. CASE Len(p) <= Len(q)
  <2>1. Len(p) \in 0..Len(p) /\ Len(p) \in 0..Len(q)
    BY <1>1
  <2>2. /\ SubSeq(p, 1, Len(p)) \in Seq(S) /\ Len(SubSeq(p, 1, Len(p))) = Len(p)
        /\ \A i \in 1..Len(p) : SubSeq(p, 1, Len(p))[i] = p[i]
    BY <2>1, SubSeqIs
  <2>3. /\ SubSeq(q, 1, Len(p)) \in Seq(S) /\ Len(SubSeq(q, 1, Len(p))) = Len(p)
        /\ \A i \in 1..Len(p) : SubSeq(q, 1, Len(p))[i] = q[i]
    BY <2>1, SubSeqIs
  <2>4. (\A i \in 1..Len(p) : p[i] = q[i]) => SubSeq(p, 1, Len(p)) = SubSeq(q, 1, Len(p))
    BY <2>2, <2>3, SeqEqual
  <2> QED
    BY <1>1, <2>2, <2>3, <2>4 DEF IsPrefix
<1>2. CASE ~(Len(p) <= Len(q))
  BY <1>2 DEF IsPrefix
<1> QED
  BY <1>1, <1>2

(* A prefix of a namespace is that namespace or a prefix of its parent, and  *)
(* prefixes of prefixes are prefixes.                                        *)
LEMMA PrefixOfParent ==
    ASSUME NEW p \in Namespaces, NEW q \in Namespaces, IsPrefix(p, q), p # q
    PROVE  Len(q) # 1 /\ IsPrefix(p, Front(q))
<1>1. p \in Seq(STRING) /\ q \in Seq(STRING) /\ Len(p) > 0 /\ Len(q) > 0
  BY CatalogAssumption, EmptySeq
<1>2. Len(p) <= Len(q) /\ \A i \in 1..Len(p) : p[i] = q[i]
  BY <1>1, PrefixIs
<1>3. Len(p) < Len(q)
  BY <1>1, <1>2, SeqEqual
<1>4. /\ Front(q) \in Seq(STRING) /\ Len(Front(q)) = Len(q) - 1
      /\ \A i \in 1..(Len(q) - 1) : Front(q)[i] = q[i]
  <2>1. Len(q) - 1 \in 0..Len(q) /\ Len(q) \in Nat
    BY <1>1
  <2> QED
    BY <1>1, <2>1, SubSeqIs DEF Front
<1>5. Len(p) <= Len(Front(q)) /\ \A i \in 1..Len(p) : p[i] = Front(q)[i]
  BY <1>1, <1>2, <1>3, <1>4
<1>6. IsPrefix(p, Front(q))
  BY <1>1, <1>4, <1>5, PrefixIs
<1> QED
  BY <1>1, <1>3, <1>6

LEMMA PrefixOfPrefix ==
    ASSUME NEW p \in Namespaces, NEW q \in Namespaces, NEW r \in Namespaces,
           IsPrefix(p, q), IsPrefix(q, r)
    PROVE  IsPrefix(p, r)
<1>1. p \in Seq(STRING) /\ q \in Seq(STRING) /\ r \in Seq(STRING)
  BY CatalogAssumption
<1>2. /\ Len(p) <= Len(q) /\ \A i \in 1..Len(p) : p[i] = q[i]
      /\ Len(q) <= Len(r) /\ \A i \in 1..Len(q) : q[i] = r[i]
  BY <1>1, PrefixIs
<1>3. Len(p) <= Len(r) /\ \A i \in 1..Len(p) : p[i] = r[i]
  BY <1>1, <1>2
<1> QED
  BY <1>1, <1>3, PrefixIs

LEMMA PrefixOfItself ==
    ASSUME NEW p \in Namespaces
    PROVE  IsPrefix(p, p)
BY CatalogAssumption, PrefixIs

LEMMA NamespaceKeepsTree ==
    ASSUME Tree, namespaces \subseteq Namespaces, NEW p \in Namespaces,
           Len(p) = 1 \/ Front(p) \in namespaces,
           namespaces' = namespaces \cup {p}, entries' = entries,
           looking' = looking \/ looking'.ns = p
    PROVE  Tree'
<1>1. ASSUME NEW r \in Namespaces, IsPrefix(r, p)
      PROVE  r \in namespaces'
  BY <1>1, PrefixOfParent DEF Tree
<1> QED
  BY <1>1 DEF Tree

LEMMA CallKeepsTree ==
    ASSUME IInv, Tree, NEW c \in Clients, Call(c), UNCHANGED looking
    PROVE  Tree'
<1>1. /\ Calls /\ Staged /\ namespaces \subseteq Namespaces
      /\ entries \in [Idents -> 1..MaxFiles \cup {None}]
  BY InvariantParts
<1>2. /\ stage[c] # "idle" => request[c] \in Requests
      /\ None \notin Nat /\ None \notin Idents
  BY <1>1, CatalogAssumption DEF Calls
<1>3. ASSUME namespaces' = namespaces,
             \A i \in Idents : entries'[i] = entries[i] \/ entries'[i] = None
                               \/ i.ns \in namespaces
      PROVE  Tree'
  BY <1>3 DEF Tree
<1>4. CASE CreateNamespace(c)
  <2>1. request[c].ns \in Namespaces
    BY <1>2, <1>4, RequestNames DEF CreateNamespace, Serves
  <2>2. entries' = entries
    BY <1>4 DEF CreateNamespace
  <2>3. CASE namespaces' = namespaces
    BY <1>3, <2>2, <2>3
  <2>4. CASE namespaces' # namespaces
    BY <1>1, <1>4, <2>1, <2>2, <2>4, NamespaceKeepsTree DEF CreateNamespace
  <2> QED
    BY <2>3, <2>4
<1>5. CASE DropNamespace(c)
  <2> DEFINE p == request[c].ns
  <2>1. p \in Namespaces
    BY <1>2, <1>5, RequestNames DEF DropNamespace, Serves
  <2>2. /\ namespaces' = namespaces \ Below(p)
        /\ entries' = [i \in Idents |-> IF i.ns \in Below(p) THEN None ELSE entries[i]]
    BY <1>5 DEF DropNamespace
  <2>3. phase = "open"
    BY <1>5 DEF IInv, Opening, DropNamespace, Serves
  <2>4. looking = None
    BY <2>3 DEF IInv, Opening
  <2> HIDE DEF p
  <2>5. ASSUME NEW q \in namespaces', NEW r \in Namespaces, IsPrefix(r, q)
        PROVE  r \in namespaces'
    <3>1. r \in namespaces /\ q \in Namespaces /\ ~IsPrefix(p, q)
      BY <1>1, <2>2, <2>5 DEF Tree, Below
    <3>2. ~IsPrefix(p, r)
      BY <2>1, <2>5, <3>1, PrefixOfPrefix
    <3> QED
      BY <2>2, <3>1, <3>2 DEF Below
  <2>6. \A i \in Idents : entries'[i] # None => i.ns \in namespaces'
    BY <2>2 DEF Tree
  <2> QED
    BY <2>4, <2>5, <2>6 DEF Tree
<1>6. CASE RenameTable(c)
  <2>1. request[c].table \in Idents /\ request[c].to \in Idents
    BY <1>2, <1>6, RequestNames DEF RenameTable, Serves
  <2> DEFINE i == request[c].table
             j == request[c].to
  <2>2. /\ namespaces' = namespaces
        /\ \/ entries' = entries
           \/ /\ entries' = [entries EXCEPT ![i] = None, ![j] = entries[i]]
              /\ j.ns \in namespaces
    BY <1>6 DEF RenameTable
  <2> HIDE DEF i, j
  <2>3. \A k \in Idents : \/ entries'[k] = entries[k] \/ entries'[k] = None
                         \/ k.ns \in namespaces
    BY <1>1, <2>2
  <2> QED
    BY <1>3, <2>2, <2>3
<1>7. CASE InsertTable(c) \/ RegisterTable(c)
  <2>1. request[c].table \in Idents
    BY <1>2, <1>7, RequestNames DEF InsertTable, RegisterTable, Works, Serves
  <2>2. /\ namespaces' = namespaces
        /\ entries' = entries \/ (CanInsert(request[c].table) /\ \E f :
                                  entries' = [entries EXCEPT ![request[c].table] = f])
    BY <1>7 DEF InsertTable, RegisterTable
  <2>3. \A k \in Idents : \/ entries'[k] = entries[k] \/ entries'[k] = None
                         \/ k.ns \in namespaces
    BY <1>1, <2>1, <2>2 DEF CanInsert
  <2> QED
    BY <1>3, <2>2, <2>3
<1>8. CASE RemoveTable(c)
  BY <1>1, <1>3, <1>8 DEF RemoveTable
<1>9. CASE FlipPointer(c)
  <2>1. /\ namespaces' = namespaces /\ stage[c] = "staged"
        /\ entries' = [entries EXCEPT ![request[c].table] = Len(files) + 1]
    BY <1>9 DEF FlipPointer, WriteUpdate, Works
  <2>2. request[c].op = "update_table" /\ entries[request[c].table] \in FileIds
    BY <1>1, <2>1 DEF Staged
  <2>3. request[c].table \in Idents /\ entries[request[c].table] # None
    BY <1>2, <2>1, <2>2, RequestNames DEF FileIds
  <2>4. \A k \in Idents : entries'[k] = entries[k] \/ k.ns \in namespaces
    BY <1>1, <2>1, <2>3 DEF Tree
  <2> QED
    BY <1>3, <2>1, <2>4
<1>10. CASE UNCHANGED <<namespaces, entries>>
  BY <1>3, <1>10
<1> QED
  BY <1>4, <1>5, <1>6, <1>7, <1>8, <1>9, <1>10
     DEF Call, Ask, LocateTable, DeleteMetadata, NoSuchTable, ReadRegistered, LockForUpdate,
         ReadCurrent, Fail, FailAfterWrite

LEMMA TreeHolds == Spec => []Tree
<1>1. WarehouseInit => Tree
  BY DEF WarehouseInit, Init, Tree
<1>2. IInv /\ Tree /\ [WarehouseNext]_vars => Tree'
  <2> SUFFICES ASSUME IInv, Tree, [WarehouseNext]_vars PROVE Tree'
    OBVIOUS
  <2>1. CASE Java
    BY <2>1 DEF Java, JavaCommit, JavaHint, JavaDrop, catalogVars, bootVars, Tree
  <2>2. CASE BeginOpen \/ ResolveMetadataFile \/ EndOpen
    BY <2>2 DEF BeginOpen, ResolveMetadataFile, EndOpen, NextDirectory, catalogVars, Tree
  <2>3. ASSUME NEW d \in Dirs, ReadHint(d) PROVE Tree'
    <3>1. /\ namespaces' = namespaces \cup {d.ns} /\ entries' = entries /\ looking' = d
          /\ d.ns \in Namespaces /\ Len(d.ns) = 1
      BY <2>3, CatalogAssumption, DirAssumption DEF ReadHint
    <3> QED
      BY <3>1, InvariantParts, NamespaceKeepsTree
  <2>4. CASE RegisterFound
    <3>1. /\ looking \in Idents /\ looking # None /\ looking' = None /\ namespaces' = namespaces
          /\ entries' = entries \/ entries' = [entries EXCEPT ![looking] = found]
      BY <2>4, CatalogAssumption, DirAssumption
         DEF RegisterFound, NextDirectory, IInv, Opening, TypeOK
    <3> QED
      BY <3>1, InvariantParts DEF Tree
  <2>5. CASE Close
    BY <2>5 DEF Close, Tree
  <2>6. CASE Serve
    BY <2>6, CallKeepsTree DEF Serve, bootVars
  <2>7. CASE UNCHANGED vars
    BY <2>7 DEF vars, catalogVars, bootVars, Tree
  <2> QED
    BY <2>1, <2>2, <2>3, <2>4, <2>5, <2>6, <2>7 DEF WarehouseNext
<1> QED
  BY <1>1, <1>2, IInvIsInvariant, PTL DEF Spec

-----------------------------------------------------------------------------
(* Calls look atomic: where no two entries can share a file, each step is a  *)
(* step of AtomicCatalog or changes nothing of what it speaks about.         *)

LEMMA AbstractOperators ==
    ASSUME NEW p, NEW q
    PROVE  Atomic!IsPrefix(p, q) = IsPrefix(p, q) /\ Atomic!Front(p) = Front(p)
BY DEF Atomic!IsPrefix, IsPrefix, Atomic!Front, Front

LEMMA ContentIs ==
    ASSUME IInv, Sound, NEW i \in Idents
    PROVE  /\ entries[i] = None => Content[i] = None
           /\ entries[i] # None =>
                 /\ Content[i] = <<files[entries[i]].table, files[entries[i]].version>>
                 /\ Content[i] # None
<1>1. FileIds = 1..Len(files) /\ None \notin Nat /\ None \notin Nat \X Nat
  BY FilesAreTyped, CatalogAssumption
<1>2. \A f \in FileIds : <<files[f].table, files[f].version>> \in Nat \X Nat
  BY FilesAreTyped
<1>3. entries[i] # None => entries[i] \in FileIds
  BY DEF Sound
<1> QED
  BY <1>1, <1>2, <1>3 DEF Content

(* The tables whose entries stay stay as they are. *)
LEMMA ContentStays ==
    ASSUME IInv, Sound, Kept, Len(files') \in Nat, NEW i \in Idents, entries'[i] = entries[i]
    PROVE  Content'[i] = Content[i]
<1>1. /\ FileIds = 1..Len(files) /\ Len(files) \in Nat /\ FileIds' = 1..Len(files')
      /\ None \notin Nat
  BY FilesAreTyped DEF FileIds
<1>2. FileIds \subseteq FileIds'
  BY <1>1 DEF Kept
<1>3. CASE entries[i] = None
  BY <1>1, <1>3 DEF Content
<1>4. CASE entries[i] # None
  <2>1. entries[i] \in FileIds
    BY <1>4 DEF Sound
  <2> QED
    BY <1>2, <2>1 DEF Content, Kept
<1> QED
  BY <1>3, <1>4

LEMMA ContentSame ==
    ASSUME IInv, Sound, Kept, Len(files') \in Nat, entries' = entries
    PROVE  Content' = Content
<1>1. \A i \in Idents : Content'[i] = Content[i]
  BY ContentStays
<1> QED
  BY <1>1 DEF Content

LEMMA ContentRemoved ==
    ASSUME NEW i \in Idents, entries'[i] = None, Len(files') \in Nat
    PROVE  Content'[i] = None
<1>1. None \notin FileIds'
  BY CatalogAssumption DEF FileIds
<1> QED
  BY <1>1 DEF Content

LEMMA ContentIsFunction ==
    /\ Content = [i \in Idents |-> Content[i]]
    /\ Content' = [i \in Idents |-> Content'[i]]
BY DEF Content

LEMMA FilesUntouched ==
    ASSUME files' = files
    PROVE  Kept
BY DEF Kept

(* What a caller knows after its call ends, or goes on to wait. *)
LEMMA ReplyAnswers ==
    ASSUME IInv, NEW c \in Clients, NEW a \in {"ok", "error"}, Reply(c, a)
    PROVE  Atomic!Answer(c, a)
<1>1. Calls
  BY InvariantParts
<1>2. /\ stage' = [stage EXCEPT ![c] = "idle"]
      /\ request' = [request EXCEPT ![c] = None]
      /\ answer' = [answer EXCEPT ![c] = a]
  BY DEF Reply
<1>3. Progress' = [Progress EXCEPT ![c] = a]
  <2>1. Progress'[c] = a
    BY <1>1, <1>2 DEF Progress, Calls
  <2>2. \A d \in Clients \ {c} : Progress'[d] = Progress[d]
    BY <1>1, <1>2 DEF Progress, Calls
  <2> QED
    BY <2>1, <2>2 DEF Progress
<1> QED
  BY <1>2, <1>3 DEF Atomic!Answer

LEMMA ContinueWaits ==
    ASSUME IInv, NEW c \in Clients, NEW s \in {"working", "staged"}, Continue(c, s)
    PROVE  /\ request' = request
           /\ Progress' = [Progress EXCEPT ![c] =
                 IF s = "working" /\ request[c].op \in {"drop_table", "register_table"}
                 THEN "done" ELSE "asked"]
<1>1. Calls
  BY InvariantParts
<1>2. stage' = [stage EXCEPT ![c] = s] /\ request' = request /\ answer' = answer
  BY DEF Continue
<1>3. Progress'[c] = IF s = "working" /\ request[c].op \in {"drop_table", "register_table"}
                     THEN "done" ELSE "asked"
  BY <1>1, <1>2 DEF Progress, Calls
<1>4. \A d \in Clients \ {c} : Progress'[d] = Progress[d]
  BY <1>1, <1>2 DEF Progress, Calls
<1> QED
  BY <1>2, <1>3, <1>4, ZenonT(60) DEF Progress

(* An error, with nothing done: in its turn, or after the call took effect   *)
(* if it is one of the two that may then still fail.                         *)
LEMMA RefusedCall ==
    ASSUME IInv, Sound, NEW c \in Clients, stage[c] # "idle", Reply(c, "error"),
           UNCHANGED <<namespaces, entries>>, Kept, Len(files') \in Nat
    PROVE  Atomic!Next
<1>1. Content' = Content
  BY ContentSame
<1>2. Atomic!Answer(c, "error")
  BY ReplyAnswers
<1>3. CASE Progress[c] = "asked"
  BY <1>1, <1>2, <1>3 DEF Atomic!Refuse, Atomic!Next
<1>4. CASE Progress[c] = "done" /\ request[c].op \in {"drop_table", "register_table"}
  BY <1>1, <1>2, <1>4 DEF Atomic!Finish, Atomic!Next
<1>5. \/ Progress[c] = "asked"
      \/ Progress[c] = "done" /\ request[c].op \in {"drop_table", "register_table"}
  BY DEF Progress
<1> QED
  BY <1>3, <1>4, <1>5

(* A call that takes effect. *)
LEMMA PerformedCall ==
    ASSUME NEW c \in Clients, Progress[c] = "asked", NEW a \in {"done", "ok"},
           Atomic!Answer(c, a),
           Atomic!ChangeNamespaces(request[c]) \/ Atomic!ChangeTables(request[c])
    PROVE  Atomic!Next
BY DEF Atomic!Perform, Atomic!Next

LEMMA AskSimulated ==
    ASSUME IInv, Sound, NEW c \in Clients, Ask(c)
    PROVE  Atomic!Next
<1>1. Calls /\ Len(files) \in Nat
  BY InvariantParts
<1>2. PICK r \in Requests : request' = [request EXCEPT ![c] = r]
  BY DEF Ask
<1>3. /\ stage[c] = "idle" /\ stage' = [stage EXCEPT ![c] = "asked"]
      /\ UNCHANGED <<namespaces, entries, files, answer>>
  BY DEF Ask
<1>4. request[c] = None
  BY <1>1, <1>3 DEF Calls
<1>5. Progress' = [Progress EXCEPT ![c] = "asked"]
  <2>1. Progress'[c] = "asked"
    BY <1>1, <1>3 DEF Progress, Calls
  <2>2. \A d \in Clients \ {c} : Progress'[d] = Progress[d]
    BY <1>1, <1>2, <1>3 DEF Progress, Calls
  <2> QED
    BY <2>1, <2>2 DEF Progress
<1>6. Content' = Content
  BY <1>1, <1>3, FilesUntouched, ContentSame
<1> QED
  BY <1>2, <1>3, <1>4, <1>5, <1>6 DEF Atomic!Ask, Atomic!Next

LEMMA NamespaceCallSimulated ==
    ASSUME IInv, Sound, Tree, NEW c \in Clients, CreateNamespace(c) \/ DropNamespace(c)
    PROVE  Atomic!Next
<1> DEFINE p == request[c].ns
<1>1. /\ stage[c] = "asked" /\ request[c].op \in {"create_namespace", "drop_namespace"}
      /\ files' = files
  BY DEF CreateNamespace, DropNamespace, Serves
<1>2. p \in Namespaces /\ namespaces \subseteq Namespaces /\ Len(files) \in Nat
  BY <1>1, InvariantParts, RequestNames DEF Calls
<1>3. Progress[c] = "asked" /\ Kept /\ Len(files') \in Nat
  BY <1>1, <1>2, FilesUntouched DEF Progress
<1>4. ASSUME Reply(c, "error"), UNCHANGED <<namespaces, entries>>
      PROVE  Atomic!Next
  BY <1>1, <1>3, <1>4, RefusedCall
<1>5. CASE CreateNamespace(c)
  <2>1. CASE p \notin namespaces /\ (Len(p) = 1 \/ Front(p) \in namespaces)
    <3>1. /\ namespaces' = namespaces \cup {p} /\ Reply(c, "ok") /\ entries' = entries
          /\ request[c].op = "create_namespace"
      BY <1>5, <2>1 DEF CreateNamespace, Serves
    <3>2. Atomic!Answer(c, "ok") /\ Content' = Content
      BY <1>3, <3>1, ReplyAnswers, ContentSame
    <3>3. Atomic!ChangeNamespaces(request[c])
      BY <2>1, <3>1, <3>2, AbstractOperators DEF Atomic!ChangeNamespaces, Atomic!ParentExists
    <3> QED
      BY <1>3, <3>2, <3>3, PerformedCall
  <2>2. CASE ~(p \notin namespaces /\ (Len(p) = 1 \/ Front(p) \in namespaces))
    BY <1>4, <1>5, <2>2 DEF CreateNamespace
  <2> QED
    BY <2>1, <2>2
<1>6. CASE DropNamespace(c)
  <2>1. /\ namespaces' = namespaces \ Below(p)
        /\ entries' = [i \in Idents |-> IF i.ns \in Below(p) THEN None ELSE entries[i]]
        /\ Reply(c, IF p \in namespaces THEN "ok" ELSE "error")
        /\ request[c].op = "drop_namespace"
    BY <1>6 DEF DropNamespace, Serves
  <2>2. entries = [i \in Idents |-> entries[i]]
    BY InvariantParts
  <2>3. CASE p \notin namespaces
    <3>1. \A q \in namespaces : q \notin Below(p)
      BY <1>2, <2>3 DEF Tree, Below
    <3>2. \A i \in Idents : entries'[i] = entries[i]
      BY <2>1, <3>1 DEF Tree
    <3>3. UNCHANGED <<namespaces, entries>>
      BY <2>1, <2>2, <3>1, <3>2
    <3> QED
      BY <1>4, <2>1, <2>3, <3>3
  <2>4. CASE p \in namespaces
    <3>1. namespaces' = {q \in namespaces : ~Atomic!IsPrefix(p, q)}
      BY <1>2, <2>1, AbstractOperators DEF Below
    <3>2. ASSUME NEW i \in Idents
          PROVE  Content'[i] = IF i.ns \in namespaces' THEN Content[i] ELSE None
      <4>1. CASE i.ns \in namespaces'
        <5>1. entries'[i] = entries[i]
          BY <2>1, <4>1
        <5> QED
          BY <1>3, <4>1, <5>1, ContentStays
      <4>2. CASE i.ns \notin namespaces'
        <5>1. entries'[i] = None
          BY <2>1, <4>2 DEF Tree
        <5> QED
          BY <1>3, <4>2, <5>1, ContentRemoved
      <4> QED
        BY <4>1, <4>2
    <3>3. Content' = [i \in Idents |-> IF i.ns \in namespaces' THEN Content[i] ELSE None]
      BY <3>2 DEF Content
    <3>4. Atomic!ChangeNamespaces(request[c])
      BY <2>1, <2>4, <3>1, <3>3 DEF Atomic!ChangeNamespaces
    <3>5. Atomic!Answer(c, "ok")
      BY <2>1, <2>4, ReplyAnswers
    <3> QED
      BY <1>3, <3>4, <3>5, PerformedCall
  <2> QED
    BY <2>3, <2>4
<1> QED
  BY <1>5, <1>6

(* A metadata file at the end, for an entry or for none. *)
LEMMA WrittenContent ==
    ASSUME IInv, Sound, NEW t \in Nat, NEW v \in Nat, files' = Written(t, v, None)
    PROVE  /\ Kept /\ Len(files') \in Nat
           /\ \A i \in Idents : entries'[i] = Len(files) + 1 => Content'[i] = <<t, v>>
           /\ <<t, v>> # None
<1>1. files \in Seq(File) /\ Len(files) \in Nat /\ None \notin Nat \X Nat
  BY InvariantParts, CatalogAssumption
<1>2. /\ Len(files') = Len(files) + 1
      /\ files'[Len(files) + 1] =
            [state |-> "present", table |-> t, version |-> v, dir |-> None]
  BY <1>1, AppendsFile
<1>3. Kept
  BY <1>1, AppendKeeps
<1>4. Len(files) + 1 \in FileIds'
  BY <1>1, <1>2 DEF FileIds
<1>5. \A i \in Idents : entries'[i] = Len(files) + 1 => Content'[i] = <<t, v>>
  BY <1>2, <1>4 DEF Content
<1> QED
  BY <1>1, <1>2, <1>3, <1>5

LEMMA UpdateWrites ==
    ASSUME IInv, Sound, NEW c \in Clients, WriteUpdate(c)
    PROVE  \E t, v \in Nat :
              /\ files' = Written(t, v + 1, None)
              /\ request[c].table \in Idents /\ request[c].op = "update_table"
              /\ Content[request[c].table] = <<t, v>> /\ Content[request[c].table] # None
<1> DEFINE i == request[c].table
           f == entries[i]
<1>1. /\ stage[c] = "staged" /\ request[c].op = "update_table"
      /\ files' = Written(files[f].table, files[f].version + 1, None)
  BY DEF WriteUpdate, Works
<1>2. f \in FileIds
  BY <1>1, InvariantParts DEF Staged
<1>3. request[c] \in Requests
  BY <1>1, InvariantParts DEF Calls
<1>4. i \in Idents
  BY <1>1, <1>3, RequestNames
<1>5. files[f].table \in Nat /\ files[f].version \in Nat /\ f # None
  BY <1>2, FilesAreTyped
<1>6. Content[i] = <<files[f].table, files[f].version>> /\ Content[i] # None
  BY <1>4, <1>5, ContentIs
<1> QED
  BY <1>1, <1>4, <1>5, <1>6

LEMMA CreateOrUpdateSimulated ==
    ASSUME IInv, Sound, NEW c \in Clients,
           InsertTable(c) \/ FlipPointer(c) \/ FailAfterWrite(c)
    PROVE  Atomic!Next
<1> DEFINE i == request[c].table
<1>1. /\ Calls /\ entries \in [Idents -> 1..MaxFiles \cup {None}] /\ Len(files) \in Nat
  BY InvariantParts
<1>2. CASE InsertTable(c)
  <2>1. /\ stage[c] = "working" /\ request[c].op = "create_table"
        /\ files' = Written(Len(files) + 1, 0, None) /\ namespaces' = namespaces
    BY <1>2 DEF InsertTable, Works
  <2>2. i \in Idents /\ Progress[c] = "asked"
    BY <1>1, <2>1, RequestNames DEF Calls, Progress
  <2>3. /\ Kept /\ Len(files') \in Nat
        /\ entries'[i] = Len(files) + 1 => Content'[i] = <<Len(files) + 1, 0>>
        /\ <<Len(files) + 1, 0>> # None
    <3>1. Len(files) + 1 \in Nat /\ 0 \in Nat
      BY <1>1
    <3> QED
      BY <2>1, <2>2, <3>1, WrittenContent
  <2>4. CASE CanInsert(i)
    <3>1. entries' = [entries EXCEPT ![i] = Len(files) + 1] /\ Reply(c, "ok")
      BY <1>2, <2>4 DEF InsertTable
    <3>2. Content'[i] = <<Len(files) + 1, 0>>
      BY <1>1, <2>2, <2>3, <3>1
    <3>3. \A j \in Idents \ {i} : Content'[j] = Content[j]
      BY <1>1, <2>3, <3>1, ContentStays
    <3>4. Content[i] = None /\ i.ns \in namespaces
      BY <2>2, <2>4, ContentIs DEF CanInsert
    <3>5. Atomic!ChangeTables(request[c])
      BY <2>1, <2>3, <3>2, <3>3, <3>4 DEF Atomic!ChangeTables, Atomic!Only, Atomic!Free
    <3> QED
      BY <2>2, <3>1, <3>5, ReplyAnswers, PerformedCall
  <2>5. CASE ~CanInsert(i)
    BY <1>2, <2>1, <2>3, <2>5, RefusedCall DEF InsertTable
  <2> QED
    BY <2>4, <2>5
<1>3. CASE FlipPointer(c)
  <2>1. /\ WriteUpdate(c) /\ Reply(c, "ok") /\ namespaces' = namespaces
        /\ entries' = [entries EXCEPT ![i] = Len(files) + 1]
        /\ stage[c] = "staged"
    BY <1>3 DEF FlipPointer, WriteUpdate, Works
  <2>2. PICK t \in Nat, v \in Nat :
           /\ files' = Written(t, v + 1, None)
           /\ i \in Idents /\ request[c].op = "update_table"
           /\ Content[i] = <<t, v>> /\ Content[i] # None
    BY <2>1, UpdateWrites
  <2>3. Kept /\ Len(files') \in Nat /\ Content'[i] = <<t, v + 1>>
    BY <1>1, <2>1, <2>2, WrittenContent
  <2>4. \A j \in Idents \ {i} : Content'[j] = Content[j]
    BY <1>1, <2>1, <2>3, ContentStays
  <2>5. Content' = [Content EXCEPT ![i] = <<@[1], @[2] + 1>>]
    BY <2>2, <2>3, <2>4, ZenonT(60) DEF Content
  <2>6. Atomic!ChangeTables(request[c])
    BY <2>1, <2>2, <2>5 DEF Atomic!ChangeTables
  <2>7. Progress[c] = "asked"
    BY <2>1 DEF Progress
  <2> QED
    BY <2>1, <2>6, <2>7, ReplyAnswers, PerformedCall
<1>4. CASE FailAfterWrite(c)
  <2>1. /\ Reply(c, "error") /\ UNCHANGED <<namespaces, entries>> /\ stage[c] # "idle"
        /\ WriteUpdate(c) \/ files' = Written(Len(files) + 1, 0, None)
    BY <1>4 DEF FailAfterWrite, WriteUpdate, Works
  <2>2. \E t, v \in Nat : files' = Written(t, v, None)
    <3>1. CASE WriteUpdate(c)
      <4>1. PICK t \in Nat, v \in Nat : files' = Written(t, v + 1, None)
        BY <3>1, UpdateWrites
      <4>2. v + 1 \in Nat
        OBVIOUS
      <4> QED
        BY <4>1, <4>2
    <3>2. CASE files' = Written(Len(files) + 1, 0, None)
      <4>1. Len(files) + 1 \in Nat /\ 0 \in Nat
        BY <1>1
      <4> QED
        BY <3>2, <4>1
    <3> QED
      BY <2>1, <3>1, <3>2
  <2>3. Kept /\ Len(files') \in Nat
    BY <2>2, WrittenContent
  <2> QED
    BY <2>1, <2>3, RefusedCall
<1> QED
  BY <1>2, <1>3, <1>4

LEMMA TableCallSimulated ==
    ASSUME IInv, Sound, RegisterAny = FALSE, NEW c \in Clients,
           \/ RenameTable(c) \/ RemoveTable(c) \/ NoSuchTable(c) \/ RegisterTable(c)
    PROVE  Atomic!Next
<1> DEFINE i == request[c].table
<1>1. /\ Calls /\ entries \in [Idents -> 1..MaxFiles \cup {None}] /\ Len(files) \in Nat
  BY InvariantParts
<1>2. /\ stage[c] = "asked" /\ UNCHANGED <<namespaces, files>>
      /\ request[c].op \in {"rename_table", "drop_table", "update_table", "register_table"}
  BY DEF RenameTable, RemoveTable, NoSuchTable, RegisterTable, Serves
<1>3. i \in Idents /\ (request[c].op = "rename_table" => request[c].to \in Idents)
  BY <1>1, <1>2, RequestNames DEF Calls
<1>4. Progress[c] = "asked" /\ Kept /\ Len(files') \in Nat
  BY <1>1, <1>2, FilesUntouched DEF Progress
<1>5. ASSUME Reply(c, "error"), entries' = entries
      PROVE  Atomic!Next
  BY <1>2, <1>4, <1>5, RefusedCall
<1>6. ASSUME NEW k \in Idents, NEW j \in Idents, entries'[k] = entries[j]
      PROVE  Content'[k] = Content[j]
  BY <1>2, <1>6 DEF Content, FileIds
<1>7. CASE RenameTable(c)
  <2> DEFINE j == request[c].to
  <2>1. CASE entries[i] # None /\ j.ns \in namespaces /\ (i = j \/ entries[j] = None)
    <3>1. /\ entries' = [entries EXCEPT ![i] = None, ![j] = entries[i]] /\ Reply(c, "ok")
          /\ request[c].op = "rename_table" /\ j \in Idents
      BY <1>3, <1>7, <2>1 DEF RenameTable, Serves
    <3> HIDE DEF i, j
    <3>2. /\ entries'[j] = entries[i] /\ (i # j => entries'[i] = None)
          /\ \A k \in Idents \ {i, j} : entries'[k] = entries[k]
      BY <1>1, <1>3, <3>1 DEF i
    <3>3. /\ Content'[j] = Content[i] /\ (i # j => Content'[i] = None)
          /\ \A k \in Idents \ {i, j} : Content'[k] = Content[k]
      BY <1>3, <1>4, <1>6, <3>1, <3>2, ContentRemoved DEF i
    <3>4. Content' = [Content EXCEPT ![i] = None, ![j] = Content[i]]
      BY <1>3, <3>1, <3>3, ContentIsFunction DEF i
    <3>5. Content[i] # None /\ (i = j \/ (j.ns \in namespaces /\ Content[j] = None))
      BY <1>3, <2>1, <3>1, ContentIs DEF i
    <3>6. Atomic!ChangeTables(request[c])
      BY <1>2, <3>1, <3>4, <3>5 DEF Atomic!ChangeTables, Atomic!Free, i, j
    <3> QED
      BY <1>4, <3>1, <3>6, ReplyAnswers, PerformedCall
  <2>2. CASE ~(entries[i] # None /\ j.ns \in namespaces /\ (i = j \/ entries[j] = None))
    BY <1>5, <1>7, <2>2 DEF RenameTable
  <2> QED
    BY <2>1, <2>2
<1>8. CASE RemoveTable(c)
  <2>1. /\ request[c].op = "drop_table" /\ entries[i] # None
        /\ entries' = [entries EXCEPT ![i] = None] /\ Continue(c, "working")
    BY <1>8 DEF RemoveTable, Serves
  <2>2. Atomic!Answer(c, "done")
    BY <2>1, ContinueWaits DEF Atomic!Answer
  <2>3. entries'[i] = None /\ \A k \in Idents \ {i} : entries'[k] = entries[k]
    BY <1>1, <1>3, <2>1
  <2>4. Content' = [Content EXCEPT ![i] = None] /\ Content[i] # None
    <3> HIDE DEF i
    <3>1. Content'[i] = None /\ \A k \in Idents \ {i} : Content'[k] = Content[k]
      BY <1>3, <1>4, <1>6, <2>3, ContentRemoved DEF i
    <3> QED
      BY <1>3, <2>1, <3>1, ContentIs, ContentIsFunction DEF i
  <2>5. Atomic!ChangeTables(request[c])
    BY <1>2, <2>1, <2>4 DEF Atomic!ChangeTables
  <2> QED
    BY <1>4, <2>2, <2>5, PerformedCall
<1>9. CASE NoSuchTable(c)
  BY <1>5, <1>9 DEF NoSuchTable
<1>10. CASE RegisterTable(c)
  <2>1. request[c].op = "register_table"
    BY <1>10 DEF RegisterTable, Serves
  <2>2. CASE CanInsert(i)
    <3>1. PICK f \in FileIds : entries' = [entries EXCEPT ![i] = f]
      BY <1>10, <2>2 DEF RegisterTable, IsPresent
    <3>2. Continue(c, "working")
      BY <1>10, <2>2 DEF RegisterTable
    <3>3. Atomic!Answer(c, "done")
      BY <2>1, <3>2, ContinueWaits DEF Atomic!Answer
    <3>4. entries'[i] = f /\ \A k \in Idents \ {i} : entries'[k] = entries[k]
      BY <1>1, <1>3, <3>1
    <3>5. Content'[i] # None
      <4>1. Content'[i] = <<files[f].table, files[f].version>>
        BY <1>2, <1>3, <3>4 DEF Content, FileIds
      <4>2. <<files[f].table, files[f].version>> \in Nat \X Nat
        BY FilesAreTyped
      <4> QED
        BY <4>1, <4>2, CatalogAssumption
    <3>6. \A k \in Idents \ {i} : Content'[k] = Content[k]
      BY <1>6, <3>4
    <3>7. i.ns \in namespaces /\ Content[i] = None
      BY <1>3, <2>2, ContentIs DEF CanInsert
    <3>8. Atomic!ChangeTables(request[c])
      BY <1>2, <2>1, <3>5, <3>6, <3>7 DEF Atomic!ChangeTables, Atomic!Free, Atomic!Only
    <3> QED
      BY <1>4, <3>3, <3>8, PerformedCall
  <2>3. CASE ~CanInsert(i)
    BY <1>5, <1>10, <2>3 DEF RegisterTable
  <2> QED
    BY <2>2, <2>3
<1> QED
  BY <1>7, <1>8, <1>9, <1>10

LEMMA WaitingCallSimulated ==
    ASSUME IInv, Sound, NEW c \in Clients,
           \/ LocateTable(c) \/ DeleteMetadata(c) \/ ReadRegistered(c)
           \/ LockForUpdate(c) \/ ReadCurrent(c) \/ Fail(c)
    PROVE  Atomic!Next \/ UNCHANGED Atomic!vars
<1>1. files \in Seq(File) /\ Len(files) \in Nat
  BY InvariantParts
<1>2. UNCHANGED <<namespaces, entries>> /\ stage[c] # "idle"
  BY DEF LocateTable, DeleteMetadata, ReadRegistered, LockForUpdate, ReadCurrent, Fail,
         Serves, Works
<1>3. Kept /\ Len(files') \in Nat
  <2>1. CASE DeleteMetadata(c)
    BY <1>1, <2>1, DeletionMarks
  <2>2. CASE files' = files
    BY <1>1, <2>2, FilesUntouched
  <2> QED
    BY <2>1, <2>2 DEF LocateTable, ReadRegistered, LockForUpdate, ReadCurrent, Fail
<1>4. Content' = Content
  BY <1>2, <1>3, ContentSame
<1>5. CASE Reply(c, "error")
  BY <1>2, <1>3, <1>5, RefusedCall
<1>6. CASE Reply(c, "ok") /\ (DeleteMetadata(c) \/ ReadRegistered(c))
  <2>1. Progress[c] = "done"
    BY <1>6 DEF DeleteMetadata, ReadRegistered, Works, Progress
  <2>2. Atomic!Answer(c, "ok")
    BY <1>6, ReplyAnswers
  <2> QED
    BY <1>2, <1>4, <2>1, <2>2 DEF Atomic!Finish, Atomic!Next
<1>7. ASSUME NEW s \in {"working", "staged"}, Continue(c, s), Progress[c] = "asked",
             request[c].op \notin {"drop_table", "register_table"}
      PROVE  UNCHANGED Atomic!vars
  <2>1. request' = request /\ Progress' = [Progress EXCEPT ![c] = "asked"]
    BY <1>7, ContinueWaits
  <2>2. Progress' = Progress
    BY <1>7, <2>1 DEF Progress
  <2> QED
    BY <1>2, <1>4, <2>1, <2>2 DEF Atomic!vars
<1>8. CASE LocateTable(c) \/ LockForUpdate(c)
  <2>1. Progress[c] = "asked" /\ request[c].op \notin {"drop_table", "register_table"}
    BY <1>8 DEF LocateTable, LockForUpdate, Serves, Progress
  <2> QED
    BY <1>5, <1>7, <1>8, <2>1 DEF LocateTable, LockForUpdate
<1>9. CASE ReadCurrent(c)
  <2>1. Progress[c] = "asked" /\ request[c].op \notin {"drop_table", "register_table"}
    BY <1>9 DEF ReadCurrent, Works, Progress
  <2> QED
    BY <1>5, <1>7, <1>9, <2>1 DEF ReadCurrent
<1> QED
  BY <1>5, <1>6, <1>8, <1>9 DEF DeleteMetadata, ReadRegistered, Fail

LEMMA JavaSimulated ==
    ASSUME IInv, Sound, Java
    PROVE  UNCHANGED Atomic!vars
<1>1. PICK d \in Dirs : JavaCommit(d) \/ JavaHint(d) \/ JavaDrop(d)
  BY DEF Java
<1>2. UNCHANGED <<namespaces, entries, request, stage, answer>>
  BY <1>1 DEF JavaCommit, JavaHint, JavaDrop, catalogVars
<1>3. /\ files \in Seq(File) /\ Len(files) \in Nat /\ d \in Idents
      /\ \A f \in FileIds : files[f].version \in Nat /\ files[f].table \in Nat
  BY InvariantParts, FilesAreTyped
<1>4. Kept /\ Len(files') \in Nat
  <2>1. CASE JavaCommit(d)
    <3>1. PICK t \in Nat, v \in Nat : files' = Written(t, v, d)
      <4>1. Len(files) + 1 \in Nat /\ 1 \in Nat
        BY <1>3
      <4>2. \A f \in Latest(d) : files[f].table \in Nat /\ files[f].version + 1 \in Nat
        BY <1>3 DEF Latest, Versions
      <4> QED
        BY <2>1, <4>1, <4>2 DEF JavaCommit
    <3> QED
      BY <1>3, <3>1, AppendKeeps, AppendsFile
  <2>2. CASE JavaHint(d)
    BY <1>3, <2>2, FilesUntouched DEF JavaHint
  <2>3. CASE JavaDrop(d)
    BY <1>3, <2>3, MarksFiles DEF JavaDrop
  <2> QED
    BY <1>1, <2>1, <2>2, <2>3
<1>5. Content' = Content
  BY <1>2, <1>4, ContentSame
<1> QED
  BY <1>2, <1>5 DEF Progress, Atomic!vars

(* What opening finds was not there before, and comes with its namespace. *)
LEMMA OpeningSimulated ==
    ASSUME IInv, Sound, Tree,
           \/ BeginOpen \/ (\E d \in Dirs : ReadHint(d)) \/ ResolveMetadataFile
           \/ RegisterFound \/ EndOpen
    PROVE  Atomic!Next \/ UNCHANGED Atomic!vars
<1>1. UNCHANGED <<files, request, stage, answer>>
  BY DEF BeginOpen, ReadHint, ResolveMetadataFile, RegisterFound, EndOpen, catalogVars
<1>2. Progress' = Progress /\ Kept /\ Len(files') \in Nat
  BY <1>1, InvariantParts, FilesUntouched DEF Progress
<1>3. CASE UNCHANGED <<namespaces, entries>>
  BY <1>1, <1>2, <1>3, ContentSame DEF Atomic!vars
<1>4. ASSUME phase = "opening", namespaces \subseteq namespaces',
             \A i \in Idents : entries[i] # None => entries'[i] = entries[i],
             \A i \in Idents : entries'[i] # None => i.ns \in namespaces'
      PROVE  Atomic!Next
  <2>1. \A c \in Clients : request[c] = None
    BY <1>4, InvariantParts DEF IInv, Opening, Calls
  <2>2. \A i \in Idents : Content[i] # None => Content'[i] = Content[i]
    BY <1>2, <1>4, ContentIs, ContentStays
  <2>3. \A i \in Idents : Content'[i] # None => i.ns \in namespaces'
    BY <1>2, <1>4, ContentRemoved
  <2> QED
    BY <1>1, <1>2, <1>4, <2>1, <2>2, <2>3 DEF Atomic!Find, Atomic!Next
<1>5. CASE \E d \in Dirs : ReadHint(d)
  BY <1>4, <1>5 DEF ReadHint, Tree
<1>6. CASE RegisterFound
  <2>1. /\ phase = "opening" /\ namespaces' = namespaces /\ looking \in Idents /\ looking # None
        /\ \/ entries' = entries
           \/ entries[looking] = None /\ entries' = [entries EXCEPT ![looking] = found]
    BY <1>6, CatalogAssumption, DirAssumption DEF RegisterFound, IInv, Opening, TypeOK
  <2> QED
    BY <1>4, <2>1, InvariantParts DEF Tree
<1> QED
  BY <1>3, <1>5, <1>6 DEF BeginOpen, ResolveMetadataFile, EndOpen, catalogVars

LEMMA CloseSimulated ==
    ASSUME IInv, Close
    PROVE  Atomic!Next
<1>1. /\ namespaces' = {} /\ entries' = [i \in Idents |-> None] /\ files' = files
      /\ request' = [c \in Clients |-> None]
      /\ stage' = [c \in Clients |-> "idle"] /\ answer' = [c \in Clients |-> "none"]
  BY DEF Close
<1>2. Content' = [i \in Idents |-> None]
  BY <1>1, InvariantParts, ContentRemoved, ContentIsFunction
<1>3. Progress' = [c \in Clients |-> "none"]
  BY <1>1 DEF Progress
<1> QED
  BY <1>1, <1>2, <1>3 DEF Atomic!Forget, Atomic!Nothing, Atomic!Next

(* Where a table is registered only from a file that no entry uses, calls of *)
(* any clients look as if each took effect at one moment between request and *)
(* answer, and an error means it had none, save for drop_table and           *)
(* register_table: whatever the storage does to them, whichever futures are  *)
(* dropped, and whenever the process ends.                                   *)
THEOREM CallsAreAtomic ==
    ASSUME RegisterAny = FALSE
    PROVE  Spec => ImplementsAtomicCatalog
<1>1. WarehouseInit => Atomic!Init
  <2> SUFFICES ASSUME WarehouseInit PROVE Atomic!Init
    OBVIOUS
  <2>1. Content = [i \in Idents |-> None]
    BY DEF WarehouseInit, Init, Content, FileIds
  <2>2. Progress = [c \in Clients |-> "none"]
    BY DEF WarehouseInit, Init, Progress
  <2> QED
    BY <2>1, <2>2 DEF WarehouseInit, Init, Atomic!Init, Atomic!Nothing
<1>2. IInv /\ Tree /\ [WarehouseNext]_vars => [Atomic!Next]_Atomic!vars
  <2> SUFFICES ASSUME IInv, Tree, [WarehouseNext]_vars
               PROVE  Atomic!Next \/ UNCHANGED Atomic!vars
    OBVIOUS
  <2>1. Sound
    BY InvariantParts
  <2>2. ASSUME NEW c \in Clients, Call(c) PROVE Atomic!Next \/ UNCHANGED Atomic!vars
    BY <2>1, <2>2, AskSimulated, NamespaceCallSimulated, CreateOrUpdateSimulated,
       TableCallSimulated, WaitingCallSimulated DEF Call
  <2>3. CASE UNCHANGED vars
    <3>1. UNCHANGED <<namespaces, entries, files, request, stage, answer>>
      BY <2>3 DEF vars, catalogVars
    <3>2. Content' = Content /\ Progress' = Progress
      BY <3>1 DEF Content, Progress, FileIds
    <3> QED
      BY <3>1, <3>2 DEF Atomic!vars
  <2> QED
    BY <2>1, <2>2, <2>3, JavaSimulated, OpeningSimulated, CloseSimulated
       DEF WarehouseNext, Serve
<1> QED
  BY <1>1, <1>2, IInvIsInvariant, TreeHolds, PTL
     DEF Spec, ImplementsAtomicCatalog, Atomic!Spec
=============================================================================
