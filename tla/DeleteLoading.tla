---------------------------- MODULE DeleteLoading ----------------------------
(***************************************************************************)
(* Reading the files of a scan with their deletes                          *)
(* (patches/iceberg-0.9.1/src/arrow/reader.rs, caching_delete_file_loader  *)
(* .rs, delete_filter.rs).                                                 *)
(*                                                                         *)
(* ArrowReader::read runs a future per file scan task.  Each spawns a      *)
(* loader for the delete files of its task; all loaders share one          *)
(* DeleteFilter, in which the first to ask for a delete file becomes its   *)
(* owner.  A loader waits for the position deletes that others own; for    *)
(* equality deletes the reader waits, when it needs their predicates.      *)
(***************************************************************************)
EXTENDS Integers, Sequences, FiniteSets

CONSTANTS
    Reads,    \* the reads to look at
    MayDrop   \* the consumer may drop the stream

(* A read: for every task the delete files it lists; for every delete file  *)
(* its kind and, of a position delete, the tasks whose data file its rows   *)
(* name; the delete files and data files that cannot be read; the limit on  *)
(* concurrency, and whether the runtime has several threads.                *)
ASSUME ReadsAssumption ==
    \A r \in Reads :
        /\ \A f \in DOMAIN r.deletes : r.deletes[f] \in Seq(DOMAIN r.kind)
        /\ \A d \in DOMAIN r.kind :
              r.kind[d] \in {"pos", "eq"} /\ r.rows[d] \subseteq DOMAIN r.deletes
        /\ r.limit \in Nat \ {0} /\ r.threads \in BOOLEAN
ASSUME DropAssumption == MayDrop \in BOOLEAN

VARIABLES
    read,      \* the read that goes on
    filter,    \* filter[d]: the delete file's state in the DeleteFilter
    vectors,   \* <<d, f>>: the rows of d are in the delete vector of f
    parsed,    \* equality deletes whose predicate is in the oneshot channel
    at,        \* at[f][d]: where the loader of task f is with delete file d
    loader,    \* loader[f]: the loader of task f
    reader,    \* reader[f]: the future of task f
    notifier,  \* notifier[f]: the state it found the wanted equality delete in
    predicates,\* predicates[f]: the equality deletes whose predicate it has
    applied,   \* applied[f]: the deletes applied to the file that was read
    consumer   \* the consumer of the stream of record batches

filterVars == <<filter, vectors, parsed>>
loaderVars == <<at, loader>>
readerVars == <<reader, notifier, predicates, applied, consumer>>
vars == <<read, filterVars, loaderVars, readerVars>>

Tasks == DOMAIN read.deletes
Deletes == DOMAIN read.kind
Pos(d) == read.kind[d] = "pos"
Listed(f) == {read.deletes[f][i] : i \in DOMAIN read.deletes[f]}

(* The equality deletes whose predicate the reader still wants, and the     *)
(* first of them in the order of the task.                                  *)
Wanted(f) == {d \in Listed(f) : ~Pos(d)} \ predicates[f]
Wants(f, d) ==
    \E i \in DOMAIN read.deletes[f] :
        /\ read.deletes[f][i] = d /\ d \in Wanted(f)
        /\ \A j \in 1 .. i - 1 : read.deletes[f][j] \notin Wanted(f)

Init ==
    /\ read \in Reads
    /\ filter = [d \in Deletes |-> "absent"] /\ vectors = {} /\ parsed = {}
    /\ at = [f \in Tasks |-> [d \in Deletes |-> "todo"]]
    /\ loader = [f \in Tasks |-> "idle"]
    /\ reader = [f \in Tasks |-> "idle"] /\ notifier = [f \in Tasks |-> "loaded"]
    /\ predicates = [f \in Tasks |-> {}] /\ applied = [f \in Tasks |-> {}]
    /\ consumer = "polling"

-----------------------------------------------------------------------------
(* The loader of a task: load_deletes, load_file_for_task and               *)
(* parse_file_content_for_task, for read.limit delete files at a time.      *)

Active == {"looked", "waiting", "started", "owner", "merged"}

(* The delete file is the next of the task, and the buffer has room. *)
IsNext(f, d) ==
    /\ \E i \in DOMAIN read.deletes[f] :
          /\ read.deletes[f][i] = d
          /\ \A j \in 1 .. i - 1 : at[f][read.deletes[f][j]] # "todo"
    /\ at[f][d] = "todo"
    /\ Cardinality({e \in Deletes : at[f][e] \in Active}) < read.limit

\* Mutant: a position delete that is being loaded counts as loaded.
StartPosDelLoadOrSkip(d) ==
    IF filter[d] = "absent" THEN "owner" ELSE "done"

(* try_start_pos_del_load: the caller loads the file, waits for the task    *)
(* that does, or finds it loaded.  On several threads the lock is released  *)
(* before the caller waits.                                                 *)
StartPosDelLoad(d) ==
    CASE filter[d] = "absent"  -> "owner"
      [] filter[d] = "loading" -> IF read.threads THEN "looked" ELSE "waiting"
      [] filter[d] = "loaded"  -> "done"

(* try_start_eq_del_load: only the first caller goes on. *)
StartEqDelLoad(d) ==
    IF filter[d] # "absent" THEN "done"
    ELSE IF read.threads THEN "started" ELSE "owner"

\* Mutant: the file is not marked as loading.
MarkNothing(d, place) == UNCHANGED filter

(* The owner marks the file; the first mark of an equality delete carries a *)
(* notifier nobody ever signals.                                            *)
Mark(d, place) ==
    filter' = [filter EXCEPT ![d] =
                  CASE place = "owner"   -> "loading"
                    [] place = "started" -> "started"
                    [] OTHER -> @]

StartLoad(f, d) ==
    /\ loader[f] = "running" /\ IsNext(f, d)
    /\ LET place == IF Pos(d) THEN StartPosDelLoad(d) ELSE StartEqDelLoad(d)
       IN  at' = [at EXCEPT ![f][d] = place] /\ Mark(d, place)
    /\ UNCHANGED <<read, vectors, parsed, loader, readerVars>>

(* notify.notified().await, once the lock is released. *)
WaitForOwner(f, d) ==
    /\ at[f][d] = "looked"
    /\ at' = [at EXCEPT ![f][d] = "waiting"]
    /\ UNCHANGED <<read, filterVars, loader, readerVars>>

(* insert_equality_delete replaces the mark, and the notifier in it. *)
InsertEqualityDelete(f, d) ==
    /\ at[f][d] = "started"
    /\ at' = [at EXCEPT ![f][d] = "owner"]
    /\ filter' = [filter EXCEPT ![d] = "loading"]
    /\ UNCHANGED <<read, vectors, parsed, loader, readerVars>>

(* The rows of a position delete are merged into the delete vectors of the  *)
(* files they name.                                                         *)
UpsertDeleteVectors(f, d) == vectors' = vectors \cup ({d} \X read.rows[d])

ParsePosDel(f, d) ==
    /\ at[f][d] = "owner" /\ Pos(d) /\ d \notin read.bad
    /\ UpsertDeleteVectors(f, d)
    /\ at' = [at EXCEPT ![f][d] = "merged"]
    /\ UNCHANGED <<read, filter, parsed, loader, readerVars>>

\* Mutant: waiters are woken only if the delete file had rows.
FinishIfAnyRows(d) ==
    at' = [g \in Tasks |-> [at[g] EXCEPT ![d] =
              IF @ = "merged" \/ (@ = "waiting" /\ read.rows[d] # {})
              THEN "done" ELSE @]]

WakeWaiters(d) ==
    at' = [g \in Tasks |-> [at[g] EXCEPT ![d] =
              IF @ \in {"merged", "waiting"} THEN "done" ELSE @]]

(* finish_pos_del_load.  A waiter that comes between the mark and           *)
(* notify_waiters is woken like one that came before.                       *)
FinishPosDelLoad(f, d) ==
    /\ at[f][d] = "merged"
    /\ filter' = [filter EXCEPT ![d] = "loaded"]
    /\ WakeWaiters(d)
    /\ UNCHANGED <<read, vectors, parsed, loader, readerVars>>

(* The predicate of an equality delete goes to the task that stores it. *)
ParseEqDel(f, d) ==
    /\ at[f][d] = "owner" /\ ~Pos(d) /\ d \notin read.bad
    /\ parsed' = parsed \cup {d}
    /\ at' = [at EXCEPT ![f][d] = "done"]
    /\ UNCHANGED <<read, filter, vectors, loader, readerVars>>

(* The first delete file that cannot be read ends the loader, and whatever  *)
(* it was loading; a predicate that was sent is out of its hands.           *)
LoaderFails(f) ==
    /\ loader[f] = "running"
    /\ \E d \in Deletes : at[f][d] = "owner" /\ d \in read.bad
    /\ loader' = [loader EXCEPT ![f] = "failed"]
    /\ at' = [at EXCEPT ![f] = [d \in Deletes |->
                 IF @[d] \in Active THEN "dropped" ELSE @[d]]]
    /\ UNCHANGED <<read, filterVars, readerVars>>

LoaderEnds(f) ==
    /\ loader[f] = "running" /\ \A d \in Listed(f) : at[f][d] = "done"
    /\ loader' = [loader EXCEPT ![f] = "loaded"]
    /\ UNCHANGED <<read, filterVars, at, readerVars>>

\* Mutant: the waiters are woken before the predicate is stored.
StoreNothing(d) == UNCHANGED filter

Store(d) == filter' = [filter EXCEPT ![d] = "loaded"]

(* The task insert_equality_delete spawned. *)
StorePredicate(d) ==
    /\ d \in parsed
    /\ parsed' = parsed \ {d}
    /\ Store(d)
    /\ reader' = [f \in Tasks |->
                     IF reader[f] = "waiting" /\ Wants(f, d) /\ notifier[f] = "loading"
                     THEN "woken" ELSE reader[f]]
    /\ UNCHANGED <<read, vectors, loaderVars, notifier, predicates, applied, consumer>>

-----------------------------------------------------------------------------
(* The future of a task: process_file_scan_task.                            *)

Over == {"idle", "done", "dropped"}

(* read polls at most read.limit futures at a time, in the order of tasks. *)
TakeTask(f) ==
    /\ consumer = "polling" /\ reader[f] = "idle"
    /\ \A g \in 1 .. f - 1 : reader[g] # "idle"
    /\ Cardinality({g \in Tasks : reader[g] \notin Over}) < read.limit
    /\ reader' = [reader EXCEPT ![f] = "opening"]
    /\ loader' = [loader EXCEPT ![f] = "running"]
    /\ UNCHANGED <<read, filterVars, at, notifier, predicates, applied, consumer>>

(* An error is the last item the consumer takes: it drops the stream, and   *)
(* with it every future, but none of the loaders.                           *)
DropReaders(outcome) ==
    /\ consumer' = outcome
    /\ reader' = [f \in Tasks |-> IF reader[f] = "done" THEN "done" ELSE "dropped"]
    /\ UNCHANGED <<read, filterVars, loaderVars, notifier, predicates, applied>>

OpenParquetFile(f) ==
    /\ reader[f] = "opening"
    /\ IF f \in read.badFiles THEN DropReaders("failed")
       ELSE /\ reader' = [reader EXCEPT ![f] = "deletes"]
            /\ UNCHANGED <<read, filterVars, loaderVars, notifier, predicates, applied, consumer>>

(* delete_filter_rx.await *)
AwaitDeletes(f) ==
    /\ reader[f] = "deletes"
    /\ \/ loader[f] = "failed" /\ DropReaders("failed")
       \/ /\ loader[f] = "loaded"
          /\ reader' = [reader EXCEPT ![f] = "predicates"]
          /\ UNCHANGED <<read, filterVars, loaderVars, notifier, predicates, applied, consumer>>

(* build_equality_delete_predicate asks for one predicate after the other. *)
AskForPredicate(f, d) ==
    /\ reader[f] = "predicates" /\ Wants(f, d)
    /\ notifier' = [notifier EXCEPT ![f] = filter[d]]
    /\ \/ /\ filter[d] = "loaded"
          /\ predicates' = [predicates EXCEPT ![f] = @ \cup {d}]
          /\ UNCHANGED reader
       \/ /\ filter[d] # "loaded"
          /\ reader' = [reader EXCEPT ![f] =
                           IF filter[d] = "absent" THEN "missing"
                           ELSE IF read.threads THEN "looked" ELSE "waiting"]
          /\ UNCHANGED predicates
    /\ UNCHANGED <<read, filterVars, loaderVars, applied, consumer>>

(* notified() is called on the notifier that was found, after the lock has  *)
(* been released.                                                           *)
WaitForPredicate(f) ==
    /\ reader[f] = "looked"
    /\ reader' = [reader EXCEPT ![f] = "waiting"]
    /\ UNCHANGED <<read, filterVars, loaderVars, notifier, predicates, applied, consumer>>

TakePredicate(f, d) ==
    /\ reader[f] = "woken" /\ Wants(f, d)
    /\ IF filter[d] = "loaded"
       THEN /\ predicates' = [predicates EXCEPT ![f] = @ \cup {d}]
            /\ reader' = [reader EXCEPT ![f] = "predicates"]
       ELSE /\ reader' = [reader EXCEPT ![f] = "missing"]
            /\ UNCHANGED predicates
    /\ UNCHANGED <<read, filterVars, loaderVars, notifier, applied, consumer>>

(* The delete vector is taken as it is, without waiting. *)
ReadDataFile(f) ==
    /\ reader[f] = "predicates" /\ Wanted(f) = {}
    /\ applied' = [applied EXCEPT ![f] =
                      predicates[f] \cup {d \in Deletes : <<d, f>> \in vectors}]
    /\ reader' = [reader EXCEPT ![f] = "done"]
    /\ UNCHANGED <<read, filterVars, loaderVars, notifier, predicates, consumer>>

StreamEnds ==
    /\ consumer = "polling" /\ \A f \in Tasks : reader[f] = "done"
    /\ consumer' = "complete"
    /\ UNCHANGED <<read, filterVars, loaderVars, reader, notifier, predicates, applied>>

DropStream == MayDrop /\ consumer = "polling" /\ DropReaders("gone")

-----------------------------------------------------------------------------
LoaderStep(f) ==
    \/ \E d \in Deletes :
          \/ StartLoad(f, d) \/ WaitForOwner(f, d) \/ InsertEqualityDelete(f, d)
          \/ ParsePosDel(f, d) \/ FinishPosDelLoad(f, d) \/ ParseEqDel(f, d)
    \/ LoaderFails(f) \/ LoaderEnds(f)

ReaderStep(f) ==
    \/ TakeTask(f) \/ OpenParquetFile(f) \/ AwaitDeletes(f)
    \/ \E d \in Deletes : AskForPredicate(f, d) \/ TakePredicate(f, d)
    \/ WaitForPredicate(f) \/ ReadDataFile(f)

Progress ==
    \/ \E f \in Tasks : LoaderStep(f) \/ ReaderStep(f)
    \/ \E d \in Deletes : StorePredicate(d)
    \/ StreamEnds

Next == Progress \/ DropStream

Spec == Init /\ [][Next]_vars

(* The executor polls what can go on, and the consumer takes what there is. *)
FairSpec == Spec /\ WF_vars(Progress)

-----------------------------------------------------------------------------
(* Properties. *)

(* A data file is read with every delete its task lists: all its equality    *)
(* deletes, and all position deletes with rows for it, whoever loaded them;  *)
(* get_delete_vector does not wait, so the loader has to have.  Beyond those *)
(* only deletes of rows of this very file are applied: the filter all tasks  *)
(* share never applies one task's equality deletes to another's file.        *)
ExactlyItsDeletes ==
    \A f \in Tasks :
        /\ reader[f] = "done" =>
              {d \in Listed(f) : Pos(d) => f \in read.rows[d]} \subseteq applied[f]
        /\ \A d \in applied[f] :
              IF Pos(d) THEN f \in read.rows[d] ELSE d \in Listed(f)

(* A delete file is read by one loader only, and not again once it is loaded. *)
OneOwner ==
    \A d \in Deletes :
        LET owners == {f \in Tasks : at[f][d] \in {"started", "owner", "merged"}}
        IN  /\ Cardinality(owners) <= 1
            /\ filter[d] = "loaded" \/ d \in parsed => owners = {}

(* "Missing predicate" and the unreachable!() of the filter are never met:   *)
(* the predicates a reader asks for are under way or there, and there when   *)
(* it is woken.                                                              *)
PredicatesAreFound == \A f \in Tasks : reader[f] # "missing"

(* Where all tasks share one thread, as in the browser, the consumer gets    *)
(* everything or an error, whatever cannot be read.                          *)
SingleThreadedReadsEnd == ~read.threads => <>(consumer # "polling")
=============================================================================
