------------------------------ MODULE ScanPlan ------------------------------
(***************************************************************************)
(* TableScan::plan_files (patches/iceberg-0.9.1/src/scan/mod.rs,           *)
(* scan/context.rs, delete_file_index.rs): spawned tasks and bounded       *)
(* channels turn the manifests of a snapshot into file scan tasks.         *)
(*                                                                         *)
(*   loader    loads manifests, delete manifests first, and streams their  *)
(*             entries into the data channel or the delete channel;        *)
(*   deleter   runs a task per delete entry, which sends the delete file   *)
(*             to the DeleteFileIndex;  plan_files waits for the deleter;  *)
(*   planner   runs a task per data entry, which waits for the index and   *)
(*             sends a FileScanTask to the caller.                         *)
(*                                                                         *)
(* An entry is <<m, i>>: the i-th of the m-th manifest.  Its record says   *)
(* what the scan's filter makes of it.  Manifests that the filter prunes   *)
(* are left out of the list.                                               *)
(***************************************************************************)
EXTENDS Channel, DeleteFileIndex, FiniteSets

CONSTANTS
    Scans,   \* the scans to look at
    MayDrop  \* the caller may drop plan_files or the stream

IsSequence(s) == s \in Seq({s[i] : i \in DOMAIN s})

IsManifestFile(m) ==
    /\ m.content \in {"data", "deletes"} /\ m.loads \in BOOLEAN /\ IsSequence(m.entries)
    /\ \A i \in DOMAIN m.entries :
          LET e == m.entries[i]
          IN  /\ e.content \in {"data", "pos", "eq"} /\ e.seq \in Nat /\ e.alive \in BOOLEAN
              /\ e.filter \in {"keep", "prune", "error"}

(* A scan: its manifest list, the two limits of its concurrency             *)
(* (concurrency_limit_manifest_files and _entries), and whether the runtime *)
(* spawns its tasks on several threads.                                     *)
ASSUME ScansAssumption ==
    \A s \in Scans :
        /\ IsSequence(s.list) /\ \A m \in DOMAIN s.list : IsManifestFile(s.list[m])
        /\ s.limitManifests \in Nat \ {0} /\ s.limitEntries \in Nat \ {0}
        /\ s.threads \in BOOLEAN
ASSUME SwitchAssumption == MayDrop \in BOOLEAN

VARIABLES
    scan,       \* the scan that is planned
    todo,       \* manifests the loader has not started, in order
    loading,    \* manifests in work
    sent,       \* sent[m]: the number of entries streamed of manifest m
    task,       \* states of the three tasks
    dataCh, deleteCh, outCh,
    at,         \* at[e]: where the entry is
    collected,  \* delete entries the index has received
    populated,  \* the index is Populated
    caller,     \* "planning" until plan_files returns, then "reading"
    received,   \* the file scan tasks the caller has received
    errors      \* the number of errors it has received

entryVars == <<at, collected, populated>>
callerVars == <<caller, received, errors>>
vars == <<scan, todo, loading, sent, task, dataCh, deleteCh, outCh, at,
          collected, populated, caller, received, errors>>

Tasks == {"loader", "deleter", "planner"}
list == scan.list
Manifests == DOMAIN list
Entries == UNION {{m} \X DOMAIN list[m].entries : m \in Manifests}
Entry(e) == list[e[1]].entries[e[2]]
IsDelete(m) == list[m].content = "deletes"
DeleteEntries == {e \in Entries : IsDelete(e[1])}
DataEntries == Entries \ DeleteEntries

\* Mutant: manifests are processed in the order of the manifest list.
InListOrder(l) == {[m \in DOMAIN l |-> m]}

(* The stable sort of build_manifest_file_contexts: the set of its one      *)
(* result.                                                                  *)
DeletesFirst(l) ==
    {s \in [DOMAIN l -> DOMAIN l] :
        /\ \A m \in DOMAIN l : \E i \in DOMAIN l : s[i] = m
        /\ \A i, j \in DOMAIN l :
              i < j => \/ l[s[i]].content = "deletes" /\ l[s[j]].content # "deletes"
                       \/ l[s[i]].content = l[s[j]].content /\ s[i] < s[j]}

Init ==
    /\ scan \in Scans
    /\ todo \in DeletesFirst(list) /\ loading = {} /\ sent = [m \in Manifests |-> 0]
    /\ task = [t \in Tasks |-> IF t = "planner" THEN "idle" ELSE "running"]
    /\ dataCh = NewChannel(scan.limitManifests)
    /\ deleteCh = NewChannel(scan.limitManifests)
    /\ outCh = NewChannel(scan.limitEntries)
    /\ at = [e \in Entries |-> "unread"] /\ collected = {} /\ populated = FALSE
    /\ caller = "planning" /\ received = {} /\ errors = 0

-----------------------------------------------------------------------------
(* How a task ends: on an error it drops what it works on and then sends    *)
(* the error to the caller.  On one thread nothing comes between the two.   *)

Error == << >>

\* Mutant: the error stays with the task.
SwallowError(t) == task' = [task EXCEPT ![t] = "done"] /\ UNCHANGED outCh

SendError(t) ==
    IF outCh.open
    THEN /\ outCh' = Put(outCh, <<t>>, Error)
         /\ task' = [task EXCEPT ![t] = "reporting"]
    ELSE task' = [task EXCEPT ![t] = "done"] /\ UNCHANGED outCh

Fails(t) ==
    IF scan.threads
    THEN task' = [task EXCEPT ![t] = "failed"] /\ UNCHANGED outCh
    ELSE SendError(t)

Report(t) ==
    /\ task[t] = "failed"
    /\ SendError(t)
    /\ UNCHANGED <<scan, todo, loading, sent, dataCh, deleteCh, entryVars, callerVars>>

Reported(t) ==
    /\ task[t] = "reporting" /\ Flushed(outCh, <<t>>)
    /\ task' = [task EXCEPT ![t] = "done"]
    /\ UNCHANGED <<scan, todo, loading, sent, dataCh, deleteCh, outCh, entryVars,
                   callerVars>>

-----------------------------------------------------------------------------
(* The loader: fetch_manifest_and_stream_manifest_entries for every         *)
(* manifest, limitManifests of them at a time.                              *)

ChannelOf(m) == IF IsDelete(m) THEN deleteCh ELSE dataCh

SetChannelOf(m, ch) ==
    IF IsDelete(m) THEN deleteCh' = ch /\ UNCHANGED dataCh
                   ELSE dataCh' = ch /\ UNCHANGED deleteCh

\* Mutant: a manifest is not taken off the list.
StartManifestAgain ==
    /\ task["loader"] = "running"
    /\ todo # << >> /\ Cardinality(loading) < scan.limitManifests
    /\ loading' = loading \cup {Head(todo)}
    /\ UNCHANGED <<scan, todo, sent, task, dataCh, deleteCh, outCh, entryVars, callerVars>>

StartManifest ==
    /\ task["loader"] = "running"
    /\ todo # << >> /\ Cardinality(loading) < scan.limitManifests
    /\ loading' = loading \cup {Head(todo)} /\ todo' = Tail(todo)
    /\ UNCHANGED <<scan, sent, task, dataCh, deleteCh, outCh, entryVars, callerVars>>

(* get_manifest fails, or the receiver of the manifest's channel is gone:   *)
(* the other manifests are dropped.                                         *)
CannotStream(m) ==
    \/ ~list[m].loads
    \/ sent[m] < Len(list[m].entries) /\ ~ChannelOf(m).open

LoaderFails ==
    /\ \E m \in loading : CannotStream(m)
    /\ Fails("loader")
    /\ todo' = << >> /\ loading' = {}
    /\ UNCHANGED <<scan, sent, dataCh, deleteCh, entryVars, callerVars>>

StreamEntry(m) ==
    /\ m \in loading /\ ~CannotStream(m) /\ sent[m] < Len(list[m].entries)
    /\ Flushed(ChannelOf(m), m)
    /\ sent' = [sent EXCEPT ![m] = @ + 1]
    /\ at' = [at EXCEPT ![<<m, sent'[m]>>] = "queued"]
    /\ SetChannelOf(m, Put(ChannelOf(m), m, <<m, sent'[m]>>))
    /\ UNCHANGED <<scan, todo, loading, task, outCh, collected, populated, callerVars>>

FinishManifest(m) ==
    /\ m \in loading /\ ~CannotStream(m) /\ sent[m] = Len(list[m].entries)
    /\ Flushed(ChannelOf(m), m)
    /\ loading' = loading \ {m}
    /\ UNCHANGED <<scan, todo, sent, task, dataCh, deleteCh, outCh, entryVars,
                   callerVars>>

LoaderEnds ==
    /\ task["loader"] = "running" /\ todo = << >> /\ loading = {}
    /\ task' = [task EXCEPT !["loader"] = "done"]
    /\ UNCHANGED <<scan, todo, loading, sent, dataCh, deleteCh, outCh, entryVars,
                   callerVars>>

(* A channel ends when it is empty and every manifest has dropped its sender. *)
SendersGone(deletes) ==
    \A m \in loading \cup {todo[i] : i \in DOMAIN todo} : IsDelete(m) # deletes

-----------------------------------------------------------------------------
(* The deleter and the tasks of delete entries.                             *)

EntryDone == {"unread", "queued", "done"}

(* try_for_each_concurrent runs limitEntries inner tasks at a time. *)
RoomFor(es) == Cardinality({e \in es : at[e] \notin EntryDone}) < scan.limitEntries

TakeDelete ==
    /\ task["deleter"] = "running" /\ deleteCh.queue # << >>
    /\ RoomFor(DeleteEntries)
    /\ at' = [at EXCEPT ![Head(deleteCh.queue)] = "running"]
    /\ deleteCh' = Take(deleteCh)
    /\ UNCHANGED <<scan, todo, loading, sent, task, dataCh, outCh, collected,
                   populated, callerVars>>

(* The checks both kinds of entry tasks begin with. *)
Refused(e) ==
    /\ Entry(e).alive
    /\ \/ (Entry(e).content = "data") = IsDelete(e[1])
       \/ Entry(e).filter = "error"
Skipped(e) == ~Refused(e) /\ (~Entry(e).alive \/ Entry(e).filter = "prune")

(* process_delete_manifest_entry.  The index task takes every delete file   *)
(* it is sent, so that sending one never fails.                             *)
ProcessDelete(e) ==
    /\ e \in DeleteEntries /\ at[e] = "running"
    /\ at' = [at EXCEPT ![e] = IF Refused(e) THEN "failed" ELSE "done"]
    /\ collected' = IF Refused(e) \/ Skipped(e) THEN collected ELSE collected \cup {e}
    /\ UNCHANGED <<scan, todo, loading, sent, task, dataCh, deleteCh, outCh,
                   populated, callerVars>>

DeleterFails ==
    /\ task["deleter"] = "running" /\ \E e \in DeleteEntries : at[e] = "failed"
    /\ Fails("deleter")
    /\ deleteCh' = Close(deleteCh)
    /\ UNCHANGED <<scan, todo, loading, sent, dataCh, entryVars, callerVars>>

DeleterEnds ==
    /\ task["deleter"] = "running" /\ deleteCh.queue = << >> /\ SendersGone(TRUE)
    /\ \A e \in DeleteEntries : at[e] \in EntryDone
    /\ task' = [task EXCEPT !["deleter"] = "done"]
    /\ UNCHANGED <<scan, todo, loading, sent, dataCh, deleteCh, outCh, entryVars,
                   callerVars>>

(* The index task: every sender of delete files is gone.  notify_waiters    *)
(* wakes the tasks that wait by now.                                        *)
PopulateIndex ==
    /\ ~populated /\ task["deleter"] = "done"
    /\ \A e \in DeleteEntries : at[e] # "running"
    /\ populated' = TRUE
    /\ at' = [e \in Entries |-> IF at[e] = "waiting" THEN "ready" ELSE at[e]]
    /\ UNCHANGED <<scan, todo, loading, sent, task, dataCh, deleteCh, outCh,
                   collected, callerVars>>

-----------------------------------------------------------------------------
(* The planner and the tasks of data entries.                               *)

(* plan_files spawns the planner and returns the stream. *)
ReturnStream ==
    /\ caller = "planning" /\ task["deleter"] = "done"
    /\ caller' = "reading" /\ task' = [task EXCEPT !["planner"] = "running"]
    /\ UNCHANGED <<scan, todo, loading, sent, dataCh, deleteCh, outCh, entryVars,
                   received, errors>>

TakeData ==
    /\ task["planner"] = "running" /\ dataCh.queue # << >>
    /\ RoomFor(DataEntries)
    /\ at' = [at EXCEPT ![Head(dataCh.queue)] = "running"]
    /\ dataCh' = Take(dataCh)
    /\ UNCHANGED <<scan, todo, loading, sent, task, deleteCh, outCh, collected,
                   populated, callerVars>>

(* process_data_manifest_entry, up to get_deletes_for_data_file, which      *)
(* looks at the index under its lock.                                       *)
ProcessData(e) ==
    /\ e \in DataEntries /\ at[e] = "running"
    /\ at' = [at EXCEPT ![e] =
                 CASE Refused(e) -> "failed"
                   [] Skipped(e) -> "done"
                   [] OTHER -> IF populated THEN "ready"
                               ELSE IF scan.threads THEN "looked" ELSE "waiting"]
    /\ UNCHANGED <<scan, todo, loading, sent, task, dataCh, deleteCh, outCh,
                   collected, populated, callerVars>>

(* notified() is called after the lock has been released. *)
WaitForIndex(e) ==
    /\ at[e] = "looked"
    /\ at' = [at EXCEPT ![e] = "waiting"]
    /\ UNCHANGED <<scan, todo, loading, sent, task, dataCh, deleteCh, outCh,
                   collected, populated, callerVars>>

ScanTask(e) ==
    <<e, {d.name : d \in DeletesForDataFile(Populate({Entry(c) : c \in collected}),
                                            Entry(e))}>>

SendTask(e) ==
    /\ at[e] = "ready"
    /\ IF outCh.open
       THEN outCh' = Put(outCh, e, ScanTask(e)) /\ at' = [at EXCEPT ![e] = "flushing"]
       ELSE at' = [at EXCEPT ![e] = "failed"] /\ UNCHANGED outCh
    /\ UNCHANGED <<scan, todo, loading, sent, task, dataCh, deleteCh, collected,
                   populated, callerVars>>

TaskSent(e) ==
    /\ at[e] = "flushing" /\ Flushed(outCh, e)
    /\ at' = [at EXCEPT ![e] = "done"]
    /\ UNCHANGED <<scan, todo, loading, sent, task, dataCh, deleteCh, outCh,
                   collected, populated, callerVars>>

PlannerFails ==
    /\ task["planner"] = "running" /\ \E e \in DataEntries : at[e] = "failed"
    /\ Fails("planner")
    /\ dataCh' = Close(dataCh)
    /\ UNCHANGED <<scan, todo, loading, sent, deleteCh, entryVars, callerVars>>

PlannerEnds ==
    /\ task["planner"] = "running" /\ dataCh.queue = << >> /\ SendersGone(FALSE)
    /\ \A e \in DataEntries : at[e] \in EntryDone
    /\ task' = [task EXCEPT !["planner"] = "done"]
    /\ UNCHANGED <<scan, todo, loading, sent, dataCh, deleteCh, outCh, entryVars,
                   callerVars>>

-----------------------------------------------------------------------------
(* The caller. *)

Receive ==
    /\ caller = "reading" /\ outCh.queue # << >>
    /\ outCh' = Take(outCh)
    /\ IF Head(outCh.queue) = Error
       THEN errors' = errors + 1 /\ UNCHANGED received
       ELSE received' = received \cup {Head(outCh.queue)} /\ UNCHANGED errors
    /\ UNCHANGED <<scan, todo, loading, sent, task, dataCh, deleteCh, entryVars, caller>>

StreamEnds ==
    /\ caller = "reading" /\ outCh.queue = << >>
    /\ \A t \in Tasks : task[t] = "done"
    /\ \A e \in DataEntries : at[e] \in EntryDone \cup {"failed"}
    /\ caller' = "done"
    /\ UNCHANGED <<scan, todo, loading, sent, task, dataCh, deleteCh, outCh, entryVars,
                   received, errors>>

(* The caller drops the future of plan_files, and the receivers in it, or   *)
(* the stream.                                                              *)
DropScan ==
    /\ MayDrop /\ caller \in {"planning", "reading"}
    /\ caller' = "gone"
    /\ outCh' = Close(outCh)
    /\ dataCh' = IF caller = "planning" THEN Close(dataCh) ELSE dataCh
    /\ UNCHANGED <<scan, todo, loading, sent, task, deleteCh, entryVars, received, errors>>

-----------------------------------------------------------------------------
LoaderStep ==
    \/ StartManifest \/ LoaderFails \/ LoaderEnds
    \/ \E m \in Manifests : StreamEntry(m) \/ FinishManifest(m)

EntryStep(e) ==
    \/ ProcessDelete(e) \/ ProcessData(e) \/ WaitForIndex(e) \/ SendTask(e) \/ TaskSent(e)

TaskStep(t) == Report(t) \/ Reported(t)

Progress ==
    \/ LoaderStep
    \/ TakeDelete \/ DeleterFails \/ DeleterEnds \/ PopulateIndex
    \/ ReturnStream \/ TakeData \/ PlannerFails \/ PlannerEnds
    \/ \E e \in Entries : EntryStep(e)
    \/ \E t \in Tasks : TaskStep(t)
    \/ Receive \/ StreamEnds

Next == Progress \/ DropScan

Spec == Init /\ [][Next]_vars

(* The executor polls every task that can go on, and the caller reads on.   *)
(* Nothing makes it drop the scan.                                          *)
FairSpec == Spec /\ WF_vars(Progress)

-----------------------------------------------------------------------------
(* Properties. *)

TaskStates == {"idle", "running", "failed", "reporting", "done"}
EntryStates == EntryDone \cup
    {"running", "looked", "waiting", "ready", "flushing", "failed"}

(* Every variable of a scan keeps its type. *)
TypeOK ==
    /\ scan \in Scans
    /\ \A i \in DOMAIN todo : todo[i] \in Manifests \ loading
    /\ loading \subseteq Manifests /\ Cardinality(loading) <= scan.limitManifests
    /\ \A m \in Manifests : sent[m] \in 0 .. Len(list[m].entries)
    /\ task \in [Tasks -> TaskStates]
    /\ at \in [Entries -> EntryStates]
    /\ collected \subseteq DeleteEntries /\ populated \in BOOLEAN
    /\ \A i \in DOMAIN dataCh.queue : dataCh.queue[i] \in DataEntries
    /\ \A i \in DOMAIN deleteCh.queue : deleteCh.queue[i] \in DeleteEntries
    /\ caller \in {"planning", "reading", "done", "gone"}
    /\ \A t \in received : t[1] \in DataEntries
    /\ errors \in 0 .. 3

Kept(es) == {e \in es : ~Refused(e) /\ ~Skipped(e)}
DeletesOf(e) ==
    {Entry(d).name : d \in {c \in Kept(DeleteEntries) : DeleteApplies(Entry(c), Entry(e))}}

(* A file scan task received before any error names exactly the delete       *)
(* files that apply to its data file, even if part of the delete manifests   *)
(* could not be read: into_file_scan_task is not reached too early.          *)
TasksKnowTheirDeletes ==
    ~scan.threads /\ errors = 0 => \A t \in received : t[2] = DeletesOf(t[1])

(* A stream that ends without an error has delivered a task for every live   *)
(* data file the filter keeps, each with all of its deletes: no failure of   *)
(* a task, a manifest or an entry is swallowed.                              *)
CompleteOrError ==
    caller = "done" /\ errors = 0 =>
        received = {<<e, DeletesOf(e)>> : e \in Kept(DataEntries)}

(* Back-pressure: however slowly the caller reads, no channel holds more     *)
(* than its buffer and one message per sender that can be at work.           *)
QueuesBounded ==
    /\ Len(dataCh.queue) <= 2 * scan.limitManifests
    /\ Len(deleteCh.queue) <= 2 * scan.limitManifests
    /\ Len(outCh.queue) <= 2 * scan.limitEntries + 2

Finished ==
    /\ caller \in {"done", "gone"}
    /\ \A t \in Tasks : task[t] \in {"idle", "done"}
    /\ \A e \in Entries : at[e] \in EntryDone \cup {"failed"}

(* Every scan comes to its end, and no task is left behind, whether the      *)
(* caller reads the stream or drops the scan, whatever fails: the channels   *)
(* and the index never wait for each other in a circle.                      *)
EveryScanEnds == <>Finished

(* The one thing that keeps a scan on one thread from its end: plan_files    *)
(* waits for the deleter, which waits for room for its error, and nobody     *)
(* reads the errors that fill the channel before plan_files has returned.    *)
BlockedByErrors ==
    /\ caller = "planning" /\ Len(outCh.queue) > scan.limitEntries
    /\ task["deleter"] = "reporting" /\ ~Flushed(outCh, <<"deleter">>)

(* On one thread every scan comes to its end or is blocked for ever by more  *)
(* errors than the caller's channel has room for.                            *)
ScansEndUnlessBlocked == ~scan.threads => <>Finished \/ <>[]BlockedByErrors
=============================================================================
