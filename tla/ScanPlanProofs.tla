---------------------------- MODULE ScanPlanProofs ----------------------------
(***************************************************************************)
(* A scan that ends without an error is complete, for any manifest list, any *)
(* limits, any failures, on one thread or on several.                       *)
(*                                                                         *)
(* The argument.  Either something went wrong, and then the caller has been *)
(* told, or will be by a message that is in its channel or by a task that is *)
(* about to send one, or is gone; or nothing went wrong, and then nothing   *)
(* was lost: a manifest that is neither waiting nor in work has been        *)
(* streamed to its end, an entry that was streamed is in its channel or     *)
(* further, and a file that was kept is in the index or has been delivered. *)
(* Since the index is populated only when the deleter is done, a task that  *)
(* is delivered then names all its deletes.                                 *)
(***************************************************************************)
EXTENDS ScanPlan, SequenceTheorems, FiniteSetTheorems, TLAPS

(* The task of e that names its deletes, and what a complete scan delivers. *)
TaskOf(e) == <<e, DeletesOf(e)>>
Expected == {TaskOf(e) : e \in Kept(DataEntries)}

Names == {Entry(d).name : d \in DeleteEntries}
Messages == {Error} \cup (DataEntries \X SUBSET Names)

IsChannel(ch, M) ==
    /\ DOMAIN ch = {"queue", "parked", "buffer", "open"}
    /\ ch.queue \in Seq(M) /\ ch.open \in BOOLEAN

InQueue(ch, x) == \E i \in DOMAIN ch.queue : ch.queue[i] = x

Types ==
    /\ scan \in Scans
    /\ todo \in Seq(Manifests) /\ loading \subseteq Manifests
    /\ sent \in [Manifests -> Nat]
    /\ task \in [Tasks -> TaskStates] /\ at \in [Entries -> EntryStates]
    /\ IsChannel(dataCh, DataEntries) /\ IsChannel(deleteCh, DeleteEntries)
    /\ IsChannel(outCh, Messages)
    /\ populated \in BOOLEAN /\ errors \in Nat
    /\ caller \in {"planning", "reading", "done", "gone"}

(* Which entries can be where. *)
Places ==
    /\ \A e \in Entries : at[e] = "unread" <=> sent[e[1]] < e[2]
    /\ \A e \in DeleteEntries : at[e] \in {"unread", "queued", "running", "done", "failed"}
    /\ \A e \in DataEntries :
          at[e] \in {"looked", "waiting", "ready", "flushing"} => e \in Kept(DataEntries)
    /\ \A e \in Entries : at[e] = "ready" => populated
    /\ \A x \in Entries : InQueue(dataCh, x) \/ InQueue(deleteCh, x) => at[x] # "unread"
    /\ populated => task["deleter"] = "done"
    /\ caller = "planning" => task["planner"] = "idle"
    /\ collected \subseteq Kept(DeleteEntries)

(* Something went wrong, and the caller knows, or will know, or is gone. *)
Told ==
    \/ errors > 0 \/ caller = "gone" \/ InQueue(outCh, Error)
    \/ \E t \in Tasks : task[t] = "failed"

Delivered(e) == TaskOf(e) \in received \/ InQueue(outCh, TaskOf(e))

(* Nothing has gone wrong yet. *)
Streamed ==
    \A m \in Manifests :
        \/ \E i \in DOMAIN todo : todo[i] = m
        \/ m \in loading \/ sent[m] = Len(list[m].entries)

DeletesSound ==
    /\ \A e \in DeleteEntries : at[e] = "queued" => InQueue(deleteCh, e)
    /\ \A e \in Kept(DeleteEntries) : at[e] = "done" => e \in collected
    /\ task["deleter"] = "done" => \A e \in DeleteEntries : at[e] = "done"

DataSound ==
    /\ \A e \in DataEntries : at[e] = "queued" => InQueue(dataCh, e)
    /\ \A e \in Kept(DataEntries) : at[e] \in {"flushing", "done"} => Delivered(e)
    /\ task["planner"] = "done" => \A e \in DataEntries : at[e] = "done"
    /\ \A x \in received : \E e \in Kept(DataEntries) : x = TaskOf(e)
    /\ \A i \in DOMAIN outCh.queue : \E e \in Kept(DataEntries) : outCh.queue[i] = TaskOf(e)

Undisturbed == dataCh.open /\ deleteCh.open /\ Streamed /\ DeletesSound /\ DataSound

(* On one thread an error is in the queue before any task that may lack     *)
(* some of its deletes.                                                     *)
Right(x) == x[2] = DeletesOf(x[1])

InOrder ==
    ~scan.threads =>
        /\ \A t \in Tasks : task[t] # "failed"
        /\ errors = 0 =>
              /\ \A x \in received : Right(x)
              /\ \A i \in DOMAIN outCh.queue :
                    (\A j \in 1 .. i : outCh.queue[j] # Error) => Right(outCh.queue[i])

SInv ==
    /\ Types /\ Places /\ (outCh.open <=> caller # "gone")
    /\ (Told \/ Undisturbed) /\ (\A t \in Tasks : task[t] = "reporting" => Told)
    /\ InOrder /\ CompleteOrError

-----------------------------------------------------------------------------
(* The shape of a scan. *)
LEMMA ListShape ==
    ASSUME scan \in Scans
    PROVE  /\ Len(list) \in Nat /\ Manifests = 1 .. Len(list)
           /\ \A m \in Manifests : /\ IsManifestFile(list[m])
                                   /\ Len(list[m].entries) \in Nat
                                   /\ DOMAIN list[m].entries = 1 .. Len(list[m].entries)
<1>1. IsSequence(list) /\ \A m \in Manifests : IsManifestFile(list[m])
  BY ScansAssumption DEF list, Manifests
<1>2. \A s : IsSequence(s) => Len(s) \in Nat /\ DOMAIN s = 1 .. Len(s)
  <2> SUFFICES ASSUME NEW s, IsSequence(s) PROVE Len(s) \in Nat /\ DOMAIN s = 1 .. Len(s)
    OBVIOUS
  <2> DEFINE S == {s[i] : i \in DOMAIN s}
  <2>1. s \in Seq(S)
    BY DEF IsSequence
  <2> HIDE DEF S
  <2> QED
    BY <2>1
<1>3. \A m \in Manifests : IsSequence(list[m].entries)
  BY <1>1 DEF IsManifestFile
<1> QED
  BY <1>1, <1>2, <1>3 DEF Manifests

LEMMA EntryIs ==
    ASSUME NEW e
    PROVE  e \in Entries <=> \E m \in Manifests : \E i \in DOMAIN list[m].entries : e = <<m, i>>
BY DEF Entries

LEMMA EntryParts ==
    ASSUME scan \in Scans, NEW e \in Entries
    PROVE  /\ e[1] \in Manifests /\ e[2] \in Nat /\ 1 <= e[2]
           /\ e[2] <= Len(list[e[1]].entries) /\ e = <<e[1], e[2]>>
           /\ Entry(e).content \in {"data", "pos", "eq"} /\ Entry(e).seq \in Nat
<1>1. PICK m \in Manifests : \E i \in DOMAIN list[m].entries : e = <<m, i>>
  BY EntryIs
<1>2. PICK i \in DOMAIN list[m].entries : e = <<m, i>>
  BY <1>1
<1>3. /\ DOMAIN list[m].entries = 1 .. Len(list[m].entries) /\ Len(list[m].entries) \in Nat
      /\ IsManifestFile(list[m])
  BY ListShape
<1>4. e[1] = m /\ e[2] = i
  BY <1>2
<1>5. Entry(e) = list[m].entries[i]
  BY <1>4 DEF Entry
<1> QED
  BY <1>2, <1>3, <1>4, <1>5 DEF IsManifestFile

LEMMA KindsOfEntries ==
    /\ DeleteEntries \subseteq Entries /\ DataEntries \subseteq Entries
    /\ \A e \in Entries : e \in DeleteEntries <=> IsDelete(e[1])
    /\ \A e \in Entries : e \in DataEntries <=> ~IsDelete(e[1])
    /\ \A e \in DataEntries : e \notin DeleteEntries
BY DEF DeleteEntries, DataEntries

(* Every step keeps the scan. *)
LEMMA SameScan ==
    ASSUME [Next]_vars
    PROVE  /\ scan' = scan /\ list' = list /\ Manifests' = Manifests /\ Entries' = Entries
           /\ DeleteEntries' = DeleteEntries /\ DataEntries' = DataEntries
           /\ Messages' = Messages /\ Expected' = Expected
           /\ Kept(DeleteEntries)' = Kept(DeleteEntries)
           /\ Kept(DataEntries)' = Kept(DataEntries)
           /\ \A e : DeletesOf(e)' = DeletesOf(e) /\ TaskOf(e)' = TaskOf(e)
<1>1. scan' = scan
  BY DEF Next, Progress, LoaderStep, StartManifest, LoaderFails, LoaderEnds, StreamEntry,
     FinishManifest, TakeDelete, DeleterFails, DeleterEnds, PopulateIndex, ReturnStream,
     TakeData, PlannerFails, PlannerEnds, EntryStep, ProcessDelete, ProcessData,
     WaitForIndex, SendTask, TaskSent, TaskStep, Report, Reported, Receive, StreamEnds,
     DropScan, vars
<1>2. list' = list /\ Manifests' = Manifests
  BY <1>1 DEF list, Manifests
<1>3. Entries' = Entries /\ \A e : Entry(e)' = Entry(e)
  BY <1>2 DEF Entries, Entry
<1>4. \A m : IsDelete(m)' = IsDelete(m)
  BY <1>2 DEF IsDelete
<1>5. DeleteEntries' = DeleteEntries /\ DataEntries' = DataEntries
  BY <1>3, <1>4 DEF DeleteEntries, DataEntries
<1>6. \A e : Refused(e)' = Refused(e) /\ Skipped(e)' = Skipped(e)
  BY <1>3, <1>4 DEF Refused, Skipped
<1>7. Kept(DeleteEntries)' = Kept(DeleteEntries) /\ Kept(DataEntries)' = Kept(DataEntries)
  BY <1>5, <1>6 DEF Kept
<1>8. \A e : DeletesOf(e)' = DeletesOf(e)
  BY <1>3, <1>7 DEF DeletesOf
<1>9. \A e : TaskOf(e)' = TaskOf(e)
  BY <1>8 DEF TaskOf
<1>10. Messages' = Messages /\ Expected' = Expected
  BY <1>3, <1>5, <1>7, <1>9 DEF Messages, Names, Expected
<1> QED
  BY <1>1, <1>2, <1>3, <1>5, <1>7, <1>8, <1>9, <1>10

-----------------------------------------------------------------------------
(* Channels. *)
LEMMA PutChannel ==
    ASSUME NEW M, NEW ch, IsChannel(ch, M), NEW s, NEW x \in M
    PROVE  /\ IsChannel(Put(ch, s, x), M) /\ Put(ch, s, x).open = ch.open
           /\ Put(ch, s, x).queue = Append(ch.queue, x)
           /\ \A y : InQueue(Put(ch, s, x), y) <=> InQueue(ch, y) \/ y = x
<1> DEFINE new == Put(ch, s, x)
<1>1. /\ DOMAIN new = DOMAIN ch /\ new.open = ch.open /\ new.queue = Append(ch.queue, x)
  BY DEF IsChannel, Put
<1> HIDE DEF new
<1>2. IsChannel(new, M)
  BY <1>1 DEF IsChannel
<1>3. ch.queue \in Seq(M)
  BY DEF IsChannel
<1>4. /\ DOMAIN new.queue = DOMAIN ch.queue \cup {Len(ch.queue) + 1}
      /\ new.queue[Len(ch.queue) + 1] = x
      /\ \A i \in DOMAIN ch.queue : new.queue[i] = ch.queue[i]
  BY <1>1, <1>3
<1>5. \A y : InQueue(new, y) <=> InQueue(ch, y) \/ y = x
  BY <1>4 DEF InQueue
<1> QED
  BY <1>1, <1>2, <1>5 DEF new

LEMMA TakeChannel ==
    ASSUME NEW M, NEW ch, IsChannel(ch, M), ch.queue # << >>
    PROVE  /\ IsChannel(Take(ch), M) /\ Take(ch).open = ch.open
           /\ Take(ch).queue = Tail(ch.queue)
           /\ Head(ch.queue) \in M /\ Head(ch.queue) = ch.queue[1]
           /\ \A y : InQueue(ch, y) <=> y = Head(ch.queue) \/ InQueue(Take(ch), y)
<1> DEFINE new == Take(ch)
           q == ch.queue
<1>1. /\ DOMAIN new = DOMAIN ch /\ new.open = ch.open /\ new.queue = Tail(q)
  BY DEF IsChannel, Take
<1>2. q \in Seq(M) /\ q # << >>
  BY DEF IsChannel
<1> HIDE DEF new, q
<1>3. Tail(q) \in Seq(M) /\ Head(q) \in M /\ Head(q) = q[1] /\ Len(Tail(q)) = Len(q) - 1
      /\ \A i \in 1 .. Len(q) - 1 : Tail(q)[i] = q[i + 1]
  BY <1>2
<1>4. IsChannel(new, M)
  BY <1>1, <1>3 DEF IsChannel
<1>5. ASSUME NEW y PROVE (\E i \in DOMAIN q : q[i] = y)
                            <=> y = Head(q) \/ \E i \in DOMAIN Tail(q) : Tail(q)[i] = y
  <2>1. DOMAIN q = 1 .. Len(q) /\ DOMAIN Tail(q) = 1 .. Len(q) - 1 /\ Len(q) \in Nat \ {0}
    BY <1>2, <1>3
  <2>2. ASSUME NEW i \in DOMAIN q, q[i] = y, i # 1 PROVE \E j \in DOMAIN Tail(q) : Tail(q)[j] = y
    <3>1. i - 1 \in DOMAIN Tail(q) /\ Tail(q)[i - 1] = q[(i - 1) + 1]
      BY <1>3, <2>1, <2>2
    <3> QED
      BY <2>1, <2>2, <3>1
  <2>3. ASSUME NEW i \in DOMAIN Tail(q), Tail(q)[i] = y PROVE \E j \in DOMAIN q : q[j] = y
    <3>1. i + 1 \in DOMAIN q /\ q[i + 1] = y
      BY <1>3, <2>1, <2>3
    <3> QED
      BY <3>1
  <2>4. 1 \in DOMAIN q
    BY <2>1
  <2> QED
    BY <1>3, <2>2, <2>3, <2>4
<1>6. \A y : InQueue(ch, y) <=> y = Head(q) \/ InQueue(new, y)
  BY <1>1, <1>5 DEF InQueue, q
<1> QED
  BY <1>1, <1>3, <1>4, <1>6 DEF new, q

LEMMA CloseChannel ==
    ASSUME NEW M, NEW ch, IsChannel(ch, M)
    PROVE  /\ IsChannel(Close(ch), M) /\ ~Close(ch).open /\ Close(ch).queue = << >>
           /\ \A y : ~InQueue(Close(ch), y)
<1> DEFINE new == Close(ch)
<1>1. DOMAIN new = DOMAIN ch /\ new.open = FALSE /\ new.queue = << >>
  BY DEF IsChannel, Close
<1> HIDE DEF new
<1>2. << >> \in Seq(M) /\ DOMAIN << >> = {}
  OBVIOUS
<1>3. IsChannel(new, M)
  BY <1>1, <1>2 DEF IsChannel
<1>4. \A y : ~InQueue(new, y)
  BY <1>1, <1>2 DEF InQueue
<1> QED
  BY <1>1, <1>3, <1>4 DEF new

LEMMA NewChannelIs ==
    ASSUME NEW M, NEW n
    PROVE  IsChannel(NewChannel(n), M) /\ NewChannel(n).open /\ NewChannel(n).queue = << >>
BY DEF IsChannel, NewChannel

-----------------------------------------------------------------------------
(* What the index answers. *)
LEMMA IndexAnswers ==
    ASSUME scan \in Scans, NEW C \in SUBSET DeleteEntries, NEW e \in DataEntries
    PROVE  \A c \in C : Entry(c).content # "data" =>
              (Entry(c) \in DeletesForDataFile(Populate({Entry(d) : d \in C}), Entry(e))
                  <=> DeleteApplies(Entry(c), Entry(e)))
<1> SUFFICES ASSUME NEW c \in C, Entry(c).content # "data"
             PROVE  Entry(c) \in DeletesForDataFile(Populate({Entry(d) : d \in C}), Entry(e))
                       <=> DeleteApplies(Entry(c), Entry(e))
  OBVIOUS
<1>1. Entry(c).content \in {"pos", "eq"} /\ Entry(c).seq \in Nat /\ Entry(e).seq \in Nat
  BY EntryParts, KindsOfEntries
<1> DEFINE F == {Entry(d) : d \in C}
<1>2. Entry(c) \in F
  OBVIOUS
<1> HIDE DEF F
<1> QED
  BY <1>1, <1>2 DEF DeletesForDataFile, Populate, DeleteApplies, F

LEMMA IndexAnswersOnly ==
    ASSUME NEW C, NEW e,
           NEW d \in DeletesForDataFile(Populate({Entry(c) : c \in C}), Entry(e))
    PROVE  \E c \in C : d = Entry(c)
BY DEF DeletesForDataFile, Populate

LEMMA ScanTaskType ==
    ASSUME Types, Places, NEW e \in DataEntries
    PROVE  ScanTask(e) \in Messages /\ ScanTask(e) # Error
<1> DEFINE names == {d.name : d \in DeletesForDataFile(Populate({Entry(c) : c \in collected}),
                                                       Entry(e))}
<1>1. collected \subseteq DeleteEntries
  BY DEF Places, Kept
<1>2. names \subseteq Names
  <2>1. ASSUME NEW d \in DeletesForDataFile(Populate({Entry(c) : c \in collected}), Entry(e))
        PROVE  d.name \in Names
    <3>1. PICK c \in collected : d = Entry(c)
      BY IndexAnswersOnly
    <3> QED
      BY <1>1, <3>1 DEF Names
  <2> QED
    BY <2>1
<1>3. ScanTask(e) = <<e, names>>
  BY DEF ScanTask
<1> HIDE DEF names
<1> QED
  BY <1>2, <1>3 DEF Messages, Error

LEMMA TasksAreRight ==
    ASSUME Types, Places, DeletesSound, populated, NEW e \in DataEntries
    PROVE  ScanTask(e) = TaskOf(e)
<1>1. collected = Kept(DeleteEntries)
  BY DEF Places, DeletesSound, Kept
<1>2. \A c \in Kept(DeleteEntries) : c \in DeleteEntries /\ Entry(c).content # "data"
  <2> SUFFICES ASSUME NEW c \in DeleteEntries, ~Refused(c), ~Skipped(c)
               PROVE  Entry(c).content # "data"
    BY DEF Kept
  <2>1. IsDelete(c[1]) /\ Entry(c).alive
    BY KindsOfEntries DEF Skipped
  <2> QED
    BY <2>1 DEF Refused
<1> DEFINE C == Kept(DeleteEntries)
           D == DeletesForDataFile(Populate({Entry(c) : c \in C}), Entry(e))
<1>3. \A c \in C : Entry(c) \in D <=> DeleteApplies(Entry(c), Entry(e))
  BY <1>2, IndexAnswers DEF Types
<1>4. \A d \in D : \E c \in C : d = Entry(c)
  BY IndexAnswersOnly
<1>5. ScanTask(e) = <<e, {d.name : d \in D}>>
  BY <1>1 DEF ScanTask
<1> HIDE DEF C, D
<1>6. {d.name : d \in D} = {Entry(d).name : d \in {c \in C : DeleteApplies(Entry(c), Entry(e))}}
  BY <1>3, <1>4
<1> QED
  BY <1>5, <1>6 DEF TaskOf, DeletesOf, C

-----------------------------------------------------------------------------
(* Frames. *)

(* The caller is where it was as far as errors go. *)
LEMMA QuietKeeps ==
    ASSUME SInv, [Next]_vars, UNCHANGED <<outCh, received, errors>>,
           caller' = caller \/ (caller = "planning" /\ caller' = "reading"),
           \A t \in Tasks : task'[t] = "failed" <=> task[t] = "failed",
           \A t \in Tasks : task'[t] = "reporting" => task[t] = "reporting",
           Types', Places', ~Told /\ Undisturbed => Undisturbed'
    PROVE  SInv'
<1> USE SameScan
<1>1. Told' <=> Told
  BY DEF Told, InQueue
<1>2. InOrder'
  BY DEF SInv, InOrder, Right
<1>3. CompleteOrError'
  BY DEF SInv, CompleteOrError
<1>4. (outCh.open <=> caller # "gone")'
  BY DEF SInv
<1> QED
  BY <1>1, <1>2, <1>3, <1>4 DEF SInv

LEMMA PlacesKept ==
    ASSUME Places, [Next]_vars, UNCHANGED <<at, sent, collected, populated>>,
           \A x : InQueue(dataCh', x) \/ InQueue(deleteCh', x)
                     => InQueue(dataCh, x) \/ InQueue(deleteCh, x),
           task["deleter"] = "done" => task'["deleter"] = "done",
           caller' = "planning" =>
               caller = "planning" /\ (task["planner"] = "idle" => task'["planner"] = "idle")
    PROVE  Places'
<1> USE SameScan
<1>1. \A x : InQueue(dataCh, x)' <=> InQueue(dataCh', x)
  BY DEF InQueue
<1>2. \A x : InQueue(deleteCh, x)' <=> InQueue(deleteCh', x)
  BY DEF InQueue
<1> QED
  BY <1>1, <1>2 DEF Places

LEMMA StreamedKept ==
    ASSUME Streamed, [Next]_vars, UNCHANGED <<todo, loading, sent>>
    PROVE  Streamed'
BY SameScan DEF Streamed

LEMMA DeletesKept ==
    ASSUME DeletesSound, [Next]_vars, UNCHANGED <<collected, deleteCh>>,
           \A x \in DeleteEntries : at'[x] = at[x],
           task'["deleter"] = "done" => task["deleter"] = "done"
    PROVE  DeletesSound'
BY SameScan DEF DeletesSound, InQueue, Kept

LEMMA DataKept ==
    ASSUME DataSound, [Next]_vars, UNCHANGED <<dataCh, outCh, received>>,
           \A x \in DataEntries : at'[x] = at[x],
           task'["planner"] = "done" => task["planner"] = "done"
    PROVE  DataSound'
BY SameScan DEF DataSound, InQueue, Delivered, Kept

(* An entry goes on, and is neither read again nor lost. *)
LEMMA EntryMoves ==
    ASSUME Places, Types, [Next]_vars, NEW e \in Entries, NEW p \in EntryStates,
           at' = [at EXCEPT ![e] = p], at[e] # "unread", p # "unread",
           e \in DeleteEntries => p \in {"queued", "running", "done", "failed"},
           e \in DataEntries /\ p \in {"looked", "waiting", "ready", "flushing"}
               => e \in Kept(DataEntries),
           p = "ready" => populated,
           UNCHANGED <<sent, populated, task, caller>>,
           collected' \subseteq Kept(DeleteEntries),
           \A x : InQueue(dataCh', x) \/ InQueue(deleteCh', x)
                     => InQueue(dataCh, x) \/ InQueue(deleteCh, x)
    PROVE  Places'
<1> USE SameScan
<1>1. \A x : InQueue(dataCh, x)' <=> InQueue(dataCh', x)
  BY DEF InQueue
<1>2. \A x : InQueue(deleteCh, x)' <=> InQueue(deleteCh', x)
  BY DEF InQueue
<1>3. at \in [Entries -> EntryStates]
  BY DEF Types
<1>4. at'[e] = p /\ \A x : x # e => at'[x] = at[x]
  BY <1>3
<1> QED
  BY <1>1, <1>2, <1>4, KindsOfEntries DEF Places

-----------------------------------------------------------------------------
(* The loader. *)
LEMMA StartManifestStep ==
    ASSUME SInv, [Next]_vars, StartManifest
    PROVE  SInv'
<1> USE SameScan
<1>1. Types /\ Places /\ todo # << >> /\ todo \in Seq(Manifests)
  BY DEF SInv, Types, StartManifest
<1>2. /\ todo' = Tail(todo) /\ loading' = loading \cup {Head(todo)}
      /\ UNCHANGED <<scan, sent, task, dataCh, deleteCh, outCh, at, collected, populated,
                     caller, received, errors>>
  BY DEF StartManifest, entryVars, callerVars
<1>3. Tail(todo) \in Seq(Manifests) /\ Head(todo) \in Manifests
  BY <1>1
<1>4. Types'
  BY <1>1, <1>2, <1>3 DEF Types
<1>5. Places'
  BY <1>1, <1>2, PlacesKept
<1>6. ASSUME Streamed PROVE Streamed'
  <2> SUFFICES ASSUME NEW m \in Manifests, NEW i \in DOMAIN todo, todo[i] = m, i # 1
               PROVE  \E j \in DOMAIN todo' : todo'[j] = m
    BY <1>1, <1>2, <1>6 DEF Streamed
  <2>1. i - 1 \in DOMAIN Tail(todo) /\ Tail(todo)[i - 1] = todo[i]
    BY <1>1
  <2> QED
    BY <1>2, <2>1
<1>7. Undisturbed => Undisturbed'
  BY <1>2, <1>6, DeletesKept, DataKept DEF Undisturbed
<1> QED
  BY <1>2, <1>4, <1>5, <1>7, QuietKeeps

LEMMA FinishManifestStep ==
    ASSUME SInv, [Next]_vars, NEW m \in Manifests, FinishManifest(m)
    PROVE  SInv'
<1> USE SameScan
<1>1. Types /\ Places /\ sent[m] = Len(list[m].entries)
  BY DEF SInv, FinishManifest
<1>2. /\ loading' = loading \ {m}
      /\ UNCHANGED <<scan, todo, sent, task, dataCh, deleteCh, outCh, at, collected, populated,
                     caller, received, errors>>
  BY DEF FinishManifest, entryVars, callerVars
<1>3. Types'
  BY <1>1, <1>2 DEF Types
<1>4. Places'
  BY <1>1, <1>2, PlacesKept
<1>5. Streamed => Streamed'
  BY <1>1, <1>2 DEF Streamed
<1>6. Undisturbed => Undisturbed'
  BY <1>2, <1>5, DeletesKept, DataKept DEF Undisturbed
<1> QED
  BY <1>2, <1>3, <1>4, <1>6, QuietKeeps

LEMMA StreamEntryStep ==
    ASSUME SInv, [Next]_vars, NEW m \in Manifests, StreamEntry(m)
    PROVE  SInv'
<1> USE SameScan
<1> DEFINE e == <<m, sent[m] + 1>>
<1>1. /\ Types /\ Places /\ m \in loading /\ sent[m] < Len(list[m].entries) /\ sent[m] \in Nat
      /\ Len(list[m].entries) \in Nat
      /\ DOMAIN list[m].entries = 1 .. Len(list[m].entries)
  BY ListShape DEF SInv, Types, StreamEntry
<1>2. e \in Entries /\ e[1] = m /\ e[2] = sent[m] + 1
  <2>1. sent[m] + 1 \in DOMAIN list[m].entries
    BY <1>1
  <2> QED
    BY <2>1, EntryIs
<1>3. /\ sent' = [sent EXCEPT ![m] = @ + 1]
      /\ UNCHANGED <<scan, todo, loading, task, outCh, collected, populated, caller, received,
                     errors>>
  BY DEF StreamEntry, callerVars
<1>4. sent'[m] = sent[m] + 1 /\ sent' \in [Manifests -> Nat]
      /\ \A n \in Manifests : n # m => sent'[n] = sent[n]
  BY <1>1, <1>3 DEF Types
<1>5. at' = [at EXCEPT ![e] = "queued"] /\ SetChannelOf(m, Put(ChannelOf(m), m, e))
  BY <1>4 DEF StreamEntry
<1>6. at' \in [Entries -> EntryStates] /\ at'[e] = "queued" /\ \A x : x # e => at'[x] = at[x]
  BY <1>1, <1>2, <1>5 DEF Types, EntryStates, EntryDone
<1>7. at[e] = "unread"
  BY <1>1, <1>2 DEF Places
<1>8. \A x \in Entries : x[1] = m /\ x # e => (sent[m] < x[2] <=> sent[m] + 1 < x[2])
  <2> SUFFICES ASSUME NEW x \in Entries, x[1] = m, x # e
               PROVE  sent[m] < x[2] <=> sent[m] + 1 < x[2]
    OBVIOUS
  <2>1. x = <<x[1], x[2]>> /\ x[2] \in Nat
    BY <1>1, EntryParts DEF Types
  <2>2. x[2] # sent[m] + 1
    BY <2>1
  <2> QED
    BY <1>1, <2>1, <2>2
<1>9. \A x \in Entries : at'[x] = "unread" <=> sent'[x[1]] < x[2]
  <2> SUFFICES ASSUME NEW x \in Entries
                 PROVE  at'[x] = "unread" <=> sent'[x[1]] < x[2]
    OBVIOUS
  <2>1. x[1] \in Manifests /\ (at[x] = "unread" <=> sent[x[1]] < x[2])
    BY <1>1, EntryParts DEF Places, Types
  <2>2. CASE x = e
    BY <1>1, <1>2, <1>4, <1>6, <2>2
  <2>3. CASE x # e /\ x[1] = m
    BY <1>4, <1>6, <1>8, <2>1, <2>3
  <2>4. CASE x # e /\ x[1] # m
    BY <1>4, <1>6, <2>1, <2>4
  <2> QED
    BY <2>2, <2>3, <2>4
<1>10. CASE IsDelete(m)
  <2>1. e \in DeleteEntries /\ e \notin DataEntries
    BY <1>2, <1>10, KindsOfEntries
  <2>2. deleteCh' = Put(deleteCh, m, e) /\ dataCh' = dataCh
    BY <1>5, <1>10 DEF SetChannelOf, ChannelOf
  <2>3. /\ IsChannel(deleteCh', DeleteEntries) /\ deleteCh'.open = deleteCh.open
        /\ \A y : InQueue(deleteCh', y) <=> InQueue(deleteCh, y) \/ y = e
    <3> HIDE DEF e
    <3> QED
      BY <1>1, <2>1, <2>2, PutChannel DEF Types
  <2> HIDE DEF e
  <2>4. Types'
    BY <1>1, <1>3, <1>4, <1>6, <2>2, <2>3 DEF Types
  <2>5. \A x : (InQueue(dataCh, x)' <=> InQueue(dataCh, x))
               /\ (InQueue(deleteCh, x)' <=> InQueue(deleteCh, x) \/ x = e)
    BY <2>2, <2>3 DEF InQueue
  <2>7. Places'
    BY <1>1, <1>3, <1>6, <2>1, <2>5, <1>9 DEF Places
  <2>8. Streamed => Streamed'
    BY <1>1, <1>3, <1>4 DEF Streamed
  <2>9. DeletesSound => DeletesSound'
    BY <1>3, <1>6, <1>7, <2>1, <2>5 DEF DeletesSound, Kept
  <2>10. DataSound => DataSound'
    BY <1>3, <1>6, <2>1, <2>2, DataKept
  <2>11. Undisturbed => Undisturbed'
    BY <2>2, <2>3, <2>8, <2>9, <2>10 DEF Undisturbed
  <2> QED
    BY <1>3, <2>4, <2>7, <2>11, QuietKeeps
<1>11. CASE ~IsDelete(m)
  <2>1. e \in DataEntries /\ e \notin DeleteEntries
    BY <1>2, <1>11, KindsOfEntries
  <2>2. dataCh' = Put(dataCh, m, e) /\ deleteCh' = deleteCh
    BY <1>5, <1>11 DEF SetChannelOf, ChannelOf
  <2>3. /\ IsChannel(dataCh', DataEntries) /\ dataCh'.open = dataCh.open
        /\ \A y : InQueue(dataCh', y) <=> InQueue(dataCh, y) \/ y = e
    <3> HIDE DEF e
    <3> QED
      BY <1>1, <2>1, <2>2, PutChannel DEF Types
  <2> HIDE DEF e
  <2>4. Types'
    BY <1>1, <1>3, <1>4, <1>6, <2>2, <2>3 DEF Types
  <2>5. \A x : (InQueue(deleteCh, x)' <=> InQueue(deleteCh, x))
               /\ (InQueue(dataCh, x)' <=> InQueue(dataCh, x) \/ x = e)
    BY <2>2, <2>3 DEF InQueue
  <2>7. Places'
    BY <1>1, <1>3, <1>6, <2>1, <2>5, <1>9 DEF Places
  <2>8. Streamed => Streamed'
    BY <1>1, <1>3, <1>4 DEF Streamed
  <2>9. DeletesSound => DeletesSound'
    BY <1>3, <1>6, <2>1, <2>2, DeletesKept
  <2>10. DataSound => DataSound'
    <3> SUFFICES ASSUME DataSound PROVE DataSound'
      OBVIOUS
    <3>1. \A x \in Entries : Delivered(x)' <=> Delivered(x)
      BY <1>3 DEF Delivered, InQueue
    <3>2. \A x \in DataEntries : at'[x] = "queued" => InQueue(dataCh, x)'
      BY <1>6, <2>1, <2>5 DEF DataSound
    <3>3. \A x \in Kept(DataEntries) : at'[x] \in {"flushing", "done"} => Delivered(x)'
      BY <1>6, <3>1, KindsOfEntries DEF DataSound, Kept
    <3>4. task["planner"] = "done" => \A x \in DataEntries : at[x] = "done"
      BY DEF DataSound
    <3>5. task'["planner"] = "done" => \A x \in DataEntries : at'[x] = "done"
      BY <1>3, <1>6, <1>7, <2>1, <3>4
    <3> QED
      BY <1>3, <3>2, <3>3, <3>5 DEF DataSound
  <2>11. Undisturbed => Undisturbed'
    BY <2>2, <2>3, <2>8, <2>9, <2>10 DEF Undisturbed
  <2> QED
    BY <1>3, <2>4, <2>7, <2>11, QuietKeeps
<1> QED
  BY <1>10, <1>11

(* Steps that change only the state of a task, from and to no failure. *)
LEMMA TaskGoesOn ==
    ASSUME SInv, [Next]_vars, NEW t \in Tasks, NEW s \in TaskStates \ {"failed", "reporting"},
           task' = [task EXCEPT ![t] = s], task[t] \notin {"failed", "idle"},
           t = "deleter" => task[t] # "done",
           s = "done" /\ t = "deleter" /\ ~Told /\ Undisturbed
               => \A e \in DeleteEntries : at[e] = "done",
           s = "done" /\ t = "planner" /\ ~Told /\ Undisturbed
               => \A e \in DataEntries : at[e] = "done",
           UNCHANGED <<scan, todo, loading, sent, dataCh, deleteCh, outCh, entryVars,
                       callerVars>>
    PROVE  SInv'
<1> USE SameScan
<1>1. Types /\ Places
  BY DEF SInv
<1>2. task'[t] = s /\ task' \in [Tasks -> TaskStates] /\ \A u \in Tasks \ {t} : task'[u] = task[u]
  BY <1>1 DEF Types
<1>3. UNCHANGED <<at, collected, populated, caller, received, errors>>
  BY DEF entryVars, callerVars
<1>4. Types'
  BY <1>1, <1>2, <1>3 DEF Types
<1>5. "deleter" \in Tasks /\ "planner" \in Tasks
  BY DEF Tasks
<1>6. Places'
  BY <1>1, <1>2, <1>3, <1>5, PlacesKept
<1>7. ~Told /\ Undisturbed => Undisturbed'
  BY <1>2, <1>3, <1>5 DEF Undisturbed, Streamed, DeletesSound, DataSound, Delivered, InQueue
<1> QED
  BY <1>2, <1>3, <1>4, <1>6, <1>7, QuietKeeps

LEMMA LoaderEndsStep ==
    ASSUME SInv, [Next]_vars, LoaderEnds
    PROVE  SInv'
BY TaskGoesOn DEF LoaderEnds, Tasks, TaskStates

LEMMA ReportedStep ==
    ASSUME SInv, [Next]_vars, NEW t \in Tasks, Reported(t)
    PROVE  SInv'
<1>1. Told
  BY DEF SInv, Reported
<1> QED
  BY <1>1, TaskGoesOn DEF Reported, TaskStates

-----------------------------------------------------------------------------
(* The deleter. *)

(* When the senders of a channel are gone, every entry has been read. *)
LEMMA NoneUnread ==
    ASSUME Types, Places, Streamed, NEW b \in BOOLEAN, SendersGone(b),
           NEW e \in Entries, IsDelete(e[1]) = b
    PROVE  at[e] # "unread"
<1>1. e[1] \in Manifests /\ e[2] \in Nat /\ e[2] <= Len(list[e[1]].entries)
  BY EntryParts DEF Types
<1>2. sent[e[1]] = Len(list[e[1]].entries)
  BY <1>1 DEF Streamed, SendersGone
<1> QED
  BY <1>1, <1>2 DEF Places

LEMMA TakeDeleteStep ==
    ASSUME SInv, [Next]_vars, TakeDelete
    PROVE  SInv'
<1> USE SameScan
<1> DEFINE e == Head(deleteCh.queue)
<1>1. /\ Types /\ Places /\ IsChannel(deleteCh, DeleteEntries) /\ deleteCh.queue # << >>
      /\ task["deleter"] = "running"
  BY DEF SInv, Types, TakeDelete
<1>2. /\ at' = [at EXCEPT ![e] = "running"] /\ deleteCh' = Take(deleteCh)
      /\ UNCHANGED <<scan, todo, loading, sent, task, dataCh, outCh, collected, populated,
                     caller, received, errors>>
  BY DEF TakeDelete, callerVars
<1>3. /\ IsChannel(deleteCh', DeleteEntries) /\ deleteCh'.open = deleteCh.open
      /\ e \in DeleteEntries
      /\ \A y : InQueue(deleteCh, y) <=> y = e \/ InQueue(deleteCh', y)
  BY <1>1, <1>2, TakeChannel
<1> HIDE DEF e
<1>4. e \in Entries /\ e \notin DataEntries /\ at[e] # "unread"
  BY <1>1, <1>3, KindsOfEntries DEF Places
<1>5. at' \in [Entries -> EntryStates] /\ at'[e] = "running" /\ \A x : x # e => at'[x] = at[x]
  BY <1>1, <1>2, <1>4 DEF Types, EntryStates
<1>6. Types'
  BY <1>1, <1>2, <1>3, <1>5 DEF Types
<1>7. Places'
  BY <1>1, <1>2, <1>3, <1>4, EntryMoves DEF EntryStates, Places
<1>8. DeletesSound => DeletesSound'
  <2>1. \A y : InQueue(deleteCh, y)' <=> InQueue(deleteCh', y)
    BY DEF InQueue
  <2> QED
    BY <1>1, <1>2, <1>3, <1>5, <2>1 DEF DeletesSound, Kept
<1>9. DataSound => DataSound'
  BY <1>2, <1>4, <1>5, DataKept
<1>10. Undisturbed => Undisturbed'
  BY <1>2, <1>3, <1>8, <1>9, StreamedKept DEF Undisturbed
<1> QED
  BY <1>2, <1>6, <1>7, <1>10, QuietKeeps

LEMMA ProcessDeleteStep ==
    ASSUME SInv, [Next]_vars, NEW e \in Entries, ProcessDelete(e)
    PROVE  SInv'
<1> USE SameScan
<1> DEFINE p == IF Refused(e) THEN "failed" ELSE "done"
<1>1. /\ Types /\ Places /\ e \in DeleteEntries /\ e \notin DataEntries /\ at[e] = "running"
  BY KindsOfEntries DEF SInv, ProcessDelete
<1>2. /\ at' = [at EXCEPT ![e] = p]
      /\ collected' = IF Refused(e) \/ Skipped(e) THEN collected ELSE collected \cup {e}
      /\ UNCHANGED <<scan, todo, loading, sent, task, dataCh, deleteCh, outCh, populated,
                     caller, received, errors>>
  BY DEF ProcessDelete, callerVars
<1>3. p \in {"failed", "done"} /\ p \in EntryStates
  BY DEF EntryStates, EntryDone
<1> HIDE DEF p
<1>4. at' \in [Entries -> EntryStates] /\ at'[e] = p /\ \A x : x # e => at'[x] = at[x]
  BY <1>1, <1>2, <1>3 DEF Types
<1>5. collected' \subseteq Kept(DeleteEntries)
  BY <1>1, <1>2 DEF Places, Kept
<1>6. Types'
  BY <1>1, <1>2, <1>4 DEF Types
<1>7. Places'
  BY <1>1, <1>2, <1>3, <1>5, EntryMoves
<1>8. DeletesSound => DeletesSound'
  <2> SUFFICES ASSUME DeletesSound PROVE DeletesSound'
    OBVIOUS
  <2>1. \A x \in DeleteEntries : at'[x] = "queued" => InQueue(deleteCh, x)'
    BY <1>2, <1>3, <1>4 DEF DeletesSound, InQueue
  <2>2. \A x \in Kept(DeleteEntries) : at'[x] = "done" => x \in collected'
    BY <1>2, <1>4 DEF DeletesSound, Kept
  <2>3. task["deleter"] # "done"
    BY <1>1 DEF DeletesSound
  <2> QED
    BY <1>2, <2>1, <2>2, <2>3 DEF DeletesSound
<1>9. DataSound => DataSound'
  BY <1>1, <1>2, <1>4, DataKept
<1>10. Undisturbed => Undisturbed'
  BY <1>2, <1>8, <1>9, StreamedKept DEF Undisturbed
<1> QED
  BY <1>2, <1>6, <1>7, <1>10, QuietKeeps

LEMMA DeleterEndsStep ==
    ASSUME SInv, [Next]_vars, DeleterEnds
    PROVE  SInv'
<1>1. /\ Types /\ Places /\ task["deleter"] = "running" /\ deleteCh.queue = << >>
      /\ SendersGone(TRUE) /\ \A e \in DeleteEntries : at[e] \in EntryDone
  BY DEF SInv, DeleterEnds
<1>2. ASSUME Undisturbed, NEW e \in DeleteEntries PROVE at[e] = "done"
  <2>1. e \in Entries /\ IsDelete(e[1]) = TRUE
    BY KindsOfEntries DEF IsDelete
  <2>2. at[e] # "unread"
    BY <1>1, <1>2, <2>1, NoneUnread DEF Undisturbed
  <2>3. at[e] # "queued"
    <3>1. ~InQueue(deleteCh, e)
      BY <1>1 DEF InQueue
    <3> QED
      BY <1>2, <3>1 DEF Undisturbed, DeletesSound
  <2> QED
    BY <1>1, <2>2, <2>3 DEF EntryDone
<1> QED
  BY <1>1, <1>2, TaskGoesOn DEF DeleterEnds, Tasks, TaskStates

LEMMA PopulateIndexStep ==
    ASSUME SInv, [Next]_vars, PopulateIndex
    PROVE  SInv'
<1> USE SameScan
<1>1. Types /\ Places /\ task["deleter"] = "done"
  BY DEF SInv, PopulateIndex
<1>2. /\ populated' = TRUE
      /\ at' = [e \in Entries |-> IF at[e] = "waiting" THEN "ready" ELSE at[e]]
      /\ UNCHANGED <<scan, todo, loading, sent, task, dataCh, deleteCh, outCh, collected,
                     caller, received, errors>>
  BY DEF PopulateIndex, callerVars
<1>3. /\ at' \in [Entries -> EntryStates]
      /\ \A e \in Entries : at'[e] = at[e] \/ (at[e] = "waiting" /\ at'[e] = "ready")
  BY <1>1, <1>2 DEF Types, EntryStates
<1>4. \A e \in DeleteEntries : at'[e] = at[e]
  BY <1>1, <1>3, KindsOfEntries DEF Places
<1>5. Types'
  BY <1>1, <1>2, <1>3 DEF Types
<1>6. Places'
  <2>1. \A x : (InQueue(dataCh, x)' <=> InQueue(dataCh, x))
               /\ (InQueue(deleteCh, x)' <=> InQueue(deleteCh, x))
    BY <1>2 DEF InQueue
  <2>2. \A e \in Entries : at'[e] = "unread" <=> at[e] = "unread"
    BY <1>3
  <2>3. \A e \in DataEntries :
           at'[e] \in {"looked", "waiting", "ready", "flushing"} => e \in Kept(DataEntries)
    BY <1>1, <1>3, KindsOfEntries DEF Places
  <2> QED
    BY <1>1, <1>2, <1>4, <2>1, <2>2, <2>3 DEF Places
<1>7. DeletesSound => DeletesSound'
  BY <1>2, <1>4, DeletesKept
<1>8. DataSound => DataSound'
  BY <1>2, <1>3, KindsOfEntries DEF DataSound, InQueue, Delivered, Kept
<1>9. Undisturbed => Undisturbed'
  BY <1>2, <1>7, <1>8, StreamedKept DEF Undisturbed
<1> QED
  BY <1>2, <1>5, <1>6, <1>9, QuietKeeps

-----------------------------------------------------------------------------
(* The planner and its tasks. *)
LEMMA ReturnStreamStep ==
    ASSUME SInv, [Next]_vars, ReturnStream
    PROVE  SInv'
<1> USE SameScan
<1>1. Types /\ Places /\ caller = "planning" /\ task["planner"] = "idle"
  BY DEF SInv, Places, ReturnStream
<1>2. /\ caller' = "reading" /\ task' = [task EXCEPT !["planner"] = "running"]
      /\ UNCHANGED <<scan, todo, loading, sent, dataCh, deleteCh, outCh, at, collected,
                     populated, received, errors>>
  BY DEF ReturnStream, entryVars
<1>3. /\ task' \in [Tasks -> TaskStates] /\ task'["planner"] = "running"
      /\ task'["deleter"] = task["deleter"] /\ \A t \in Tasks \ {"planner"} : task'[t] = task[t]
  BY <1>1, <1>2 DEF Types, Tasks, TaskStates
<1>4. Types'
  BY <1>1, <1>2, <1>3 DEF Types
<1>5. Places'
  BY <1>1, <1>2, <1>3, PlacesKept DEF InQueue
<1>6. Undisturbed => Undisturbed'
  BY <1>2, <1>3, StreamedKept, DeletesKept, DataKept DEF Undisturbed
<1> QED
  BY <1>1, <1>2, <1>3, <1>4, <1>5, <1>6, QuietKeeps

LEMMA TakeDataStep ==
    ASSUME SInv, [Next]_vars, TakeData
    PROVE  SInv'
<1> USE SameScan
<1> DEFINE e == Head(dataCh.queue)
<1>1. /\ Types /\ Places /\ IsChannel(dataCh, DataEntries) /\ dataCh.queue # << >>
      /\ task["planner"] = "running"
  BY DEF SInv, Types, TakeData
<1>2. /\ at' = [at EXCEPT ![e] = "running"] /\ dataCh' = Take(dataCh)
      /\ UNCHANGED <<scan, todo, loading, sent, task, deleteCh, outCh, collected, populated,
                     caller, received, errors>>
  BY DEF TakeData, callerVars
<1>3. /\ IsChannel(dataCh', DataEntries) /\ dataCh'.open = dataCh.open
      /\ e \in DataEntries
      /\ \A y : InQueue(dataCh, y) <=> y = e \/ InQueue(dataCh', y)
  BY <1>1, <1>2, TakeChannel
<1> HIDE DEF e
<1>4. e \in Entries /\ e \notin DeleteEntries /\ at[e] # "unread"
  BY <1>1, <1>3, KindsOfEntries DEF Places
<1>5. at' \in [Entries -> EntryStates] /\ at'[e] = "running" /\ \A x : x # e => at'[x] = at[x]
  BY <1>1, <1>2, <1>4 DEF Types, EntryStates
<1>6. Types'
  BY <1>1, <1>2, <1>3, <1>5 DEF Types
<1>7. Places'
  BY <1>1, <1>2, <1>3, <1>4, EntryMoves DEF EntryStates, Places
<1>8. DataSound => DataSound'
  <2>1. \A y : InQueue(dataCh, y)' <=> InQueue(dataCh', y)
    BY DEF InQueue
  <2>2. \A y \in Entries : Delivered(y)' <=> Delivered(y)
    BY <1>2 DEF Delivered, InQueue
  <2> QED
    BY <1>1, <1>2, <1>3, <1>5, <2>1, <2>2, KindsOfEntries DEF DataSound, Kept
<1>9. DeletesSound => DeletesSound'
  BY <1>2, <1>4, <1>5, DeletesKept
<1>10. Undisturbed => Undisturbed'
  BY <1>2, <1>3, <1>8, <1>9, StreamedKept DEF Undisturbed
<1> QED
  BY <1>2, <1>6, <1>7, <1>10, QuietKeeps

(* A task of a data entry goes on without a word to the caller. *)
LEMMA DataEntryMoves ==
    ASSUME SInv, [Next]_vars, NEW e \in DataEntries, NEW p \in EntryStates \ {"unread", "queued"},
           at' = [at EXCEPT ![e] = p], at[e] \notin {"unread", "done"},
           p \in {"looked", "waiting", "ready", "flushing"} => e \in Kept(DataEntries),
           p = "ready" => populated,
           p \in {"flushing", "done"} /\ e \in Kept(DataEntries) /\ DataSound => Delivered(e),
           UNCHANGED <<scan, todo, loading, sent, task, dataCh, deleteCh, outCh, collected,
                       populated, callerVars>>
    PROVE  SInv'
<1> USE SameScan
<1>1. Types /\ Places /\ e \in Entries /\ e \notin DeleteEntries
  BY KindsOfEntries DEF SInv
<1>2. UNCHANGED <<caller, received, errors>>
  BY DEF callerVars
<1>3. at' \in [Entries -> EntryStates] /\ at'[e] = p /\ \A x : x # e => at'[x] = at[x]
  BY <1>1 DEF Types
<1>4. Types'
  BY <1>1, <1>2, <1>3 DEF Types
<1>5. Places'
  BY <1>1, <1>2, EntryMoves DEF Places
<1>6. DeletesSound => DeletesSound'
  BY <1>1, <1>3, DeletesKept
<1>7. DataSound => DataSound'
  <2> SUFFICES ASSUME DataSound PROVE DataSound'
    OBVIOUS
  <2>1. \A x \in Entries : Delivered(x)' <=> Delivered(x)
    BY <1>2 DEF Delivered, InQueue
  <2>2. \A x \in DataEntries : at'[x] = "queued" => InQueue(dataCh, x)'
    BY <1>3 DEF DataSound, InQueue
  <2>3. \A x \in Kept(DataEntries) : at'[x] \in {"flushing", "done"} => Delivered(x)'
    BY <1>1, <1>3, <2>1, KindsOfEntries DEF DataSound, Kept
  <2>4. task["planner"] # "done"
    BY DEF DataSound
  <2> QED
    BY <1>2, <2>2, <2>3, <2>4 DEF DataSound
<1>8. Undisturbed => Undisturbed'
  BY <1>6, <1>7, StreamedKept DEF Undisturbed
<1> QED
  BY <1>2, <1>4, <1>5, <1>8, QuietKeeps

LEMMA ProcessDataStep ==
    ASSUME SInv, [Next]_vars, NEW e \in Entries, ProcessData(e)
    PROVE  SInv'
<1> DEFINE p == CASE Refused(e) -> "failed"
                  [] Skipped(e) -> "done"
                  [] OTHER -> IF populated THEN "ready"
                              ELSE IF scan.threads THEN "looked" ELSE "waiting"
<1>1. e \in DataEntries /\ at[e] = "running" /\ at' = [at EXCEPT ![e] = p]
  BY DEF ProcessData
<1>2. /\ p \in {"failed", "done", "ready", "looked", "waiting"}
      /\ p = "done" => Skipped(e)
      /\ p \in {"ready", "looked", "waiting"} => ~Refused(e) /\ ~Skipped(e)
      /\ p = "ready" => populated
  BY DEF Skipped
<1> HIDE DEF p
<1>3. p \in EntryStates \ {"unread", "queued"}
  BY <1>2 DEF EntryStates, EntryDone
<1>4. p \in {"looked", "waiting", "ready", "flushing"} => e \in Kept(DataEntries)
  BY <1>1, <1>2 DEF Kept
<1>5. p \notin {"flushing", "done"} \/ e \notin Kept(DataEntries)
  BY <1>2 DEF Kept
<1> QED
  BY <1>1, <1>2, <1>3, <1>4, <1>5, DataEntryMoves DEF ProcessData

LEMMA IsDataEntry ==
    ASSUME SInv, NEW e \in Entries, at[e] \in {"looked", "waiting", "ready", "flushing"}
    PROVE  e \in DataEntries /\ e \in Kept(DataEntries)
BY KindsOfEntries DEF SInv, Places

LEMMA WaitForIndexStep ==
    ASSUME SInv, [Next]_vars, NEW e \in Entries, WaitForIndex(e)
    PROVE  SInv'
<1>1. e \in DataEntries /\ e \in Kept(DataEntries)
  BY IsDataEntry DEF WaitForIndex
<1> QED
  BY <1>1, DataEntryMoves DEF WaitForIndex, EntryStates, EntryDone

LEMMA TaskSentStep ==
    ASSUME SInv, [Next]_vars, NEW e \in Entries, TaskSent(e)
    PROVE  SInv'
<1>1. e \in DataEntries /\ e \in Kept(DataEntries)
  BY IsDataEntry DEF TaskSent
<1>2. DataSound => Delivered(e)
  BY <1>1 DEF DataSound, TaskSent
<1> QED
  BY <1>1, <1>2, DataEntryMoves DEF TaskSent, EntryStates, EntryDone

LEMMA PlannerEndsStep ==
    ASSUME SInv, [Next]_vars, PlannerEnds
    PROVE  SInv'
<1>1. /\ Types /\ Places /\ task["planner"] = "running" /\ dataCh.queue = << >>
      /\ SendersGone(FALSE) /\ \A e \in DataEntries : at[e] \in EntryDone
  BY DEF SInv, PlannerEnds
<1>2. ASSUME Undisturbed, NEW e \in DataEntries PROVE at[e] = "done"
  <2>1. e \in Entries /\ IsDelete(e[1]) = FALSE
    BY KindsOfEntries DEF IsDelete
  <2>2. at[e] # "unread"
    BY <1>1, <1>2, <2>1, NoneUnread DEF Undisturbed
  <2>3. at[e] # "queued"
    <3>1. ~InQueue(dataCh, e)
      BY <1>1 DEF InQueue
    <3> QED
      BY <1>2, <3>1 DEF Undisturbed, DataSound
  <2> QED
    BY <1>1, <2>2, <2>3 DEF EntryDone
<1> QED
  BY <1>1, <1>2, TaskGoesOn DEF PlannerEnds, Tasks, TaskStates

-----------------------------------------------------------------------------
(* Failures: the caller is told. *)
LEMMA Telling ==
    ASSUME SInv, [Next]_vars, NEW t \in Tasks, Fails(t) \/ (task[t] = "failed" /\ SendError(t)),
           UNCHANGED <<errors, caller, received>>
    PROVE  /\ Told' /\ InOrder' /\ IsChannel(outCh', Messages) /\ outCh'.open = outCh.open
           /\ task' \in [Tasks -> TaskStates] /\ task'[t] \in {"failed", "reporting", "done"}
           /\ \A u \in Tasks \ {t} : task'[u] = task[u]
<1> USE SameScan
<1>1. Types /\ IsChannel(outCh, Messages) /\ Error \in Messages
  BY DEF SInv, Types, Messages
<1>2. CASE scan.threads /\ Fails(t)
  <2>1. task' = [task EXCEPT ![t] = "failed"] /\ outCh' = outCh
    BY <1>2 DEF Fails
  <2>2. /\ task' \in [Tasks -> TaskStates] /\ task'[t] = "failed"
        /\ \A u \in Tasks \ {t} : task'[u] = task[u]
    BY <1>1, <2>1 DEF Types, TaskStates
  <2> QED
    BY <1>1, <1>2, <2>1, <2>2 DEF Told, InOrder
<1>3. CASE SendError(t) /\ outCh.open
  <2>1. outCh' = Put(outCh, <<t>>, Error) /\ task' = [task EXCEPT ![t] = "reporting"]
    BY <1>3 DEF SendError
  <2>2. /\ task' \in [Tasks -> TaskStates] /\ task'[t] = "reporting"
        /\ \A u \in Tasks \ {t} : task'[u] = task[u]
    BY <1>1, <2>1 DEF Types, TaskStates
  <2>3. /\ IsChannel(outCh', Messages) /\ outCh'.open = outCh.open
        /\ outCh'.queue = Append(outCh.queue, Error)
        /\ \A y : InQueue(outCh', y) <=> InQueue(outCh, y) \/ y = Error
    BY <1>1, <2>1, PutChannel
  <2>4. Told'
    BY <2>3 DEF Told, InQueue
  <2>5. outCh.queue \in Seq(Messages)
    BY <1>1 DEF IsChannel
  <2>6. /\ DOMAIN outCh'.queue = 1 .. Len(outCh.queue) + 1 /\ Len(outCh.queue) \in Nat
        /\ DOMAIN outCh.queue = 1 .. Len(outCh.queue)
        /\ outCh'.queue[Len(outCh.queue) + 1] = Error
        /\ \A i \in 1 .. Len(outCh.queue) : outCh'.queue[i] = outCh.queue[i]
    BY <2>3, <2>5
  <2>7. InOrder'
    <3> SUFFICES ASSUME ~scan.threads, errors = 0
                 PROVE  /\ \A u \in Tasks : task'[u] # "failed"
                        /\ \A x \in received : Right(x)
                        /\ \A i \in DOMAIN outCh'.queue :
                              (\A j \in 1 .. i : outCh'.queue[j] # Error) => Right(outCh'.queue[i])
      <4>1. \A x : Right(x)' <=> Right(x)
        BY DEF Right
      <4>2. ~scan.threads => \A u \in Tasks : task'[u] # "failed"
        BY <2>2 DEF SInv, InOrder
      <4> QED
        BY <4>1, <4>2 DEF InOrder
    <3>1. (\A u \in Tasks : task'[u] # "failed") /\ \A x \in received : Right(x)
      BY <2>2 DEF SInv, InOrder
    <3>2. ASSUME NEW i \in DOMAIN outCh'.queue, \A j \in 1 .. i : outCh'.queue[j] # Error
          PROVE  Right(outCh'.queue[i])
      <4>1. i \in 1 .. Len(outCh.queue) /\ outCh'.queue[i] = outCh.queue[i]
        <5>1. i \in 1 .. i
          BY <2>6
        <5> QED
          BY <2>6, <3>2, <5>1
      <4>2. \A j \in 1 .. i : outCh.queue[j] # Error
        BY <2>6, <3>2, <4>1
      <4> QED
        BY <2>6, <4>1, <4>2 DEF SInv, InOrder
    <3> QED
      BY <3>1, <3>2
  <2> QED
    BY <2>2, <2>3, <2>4, <2>7
<1>4. CASE SendError(t) /\ ~outCh.open
  <2>1. task' = [task EXCEPT ![t] = "done"] /\ outCh' = outCh
    BY <1>4 DEF SendError
  <2>2. /\ task' \in [Tasks -> TaskStates] /\ task'[t] = "done"
        /\ \A u \in Tasks \ {t} : task'[u] = task[u]
    BY <1>1, <2>1 DEF Types, TaskStates
  <2>3. Told'
    BY <1>4 DEF SInv, Told
  <2>4. InOrder'
    BY <2>1, <2>2 DEF SInv, InOrder, Right
  <2> QED
    BY <1>1, <2>1, <2>2, <2>3, <2>4
<1> QED
  BY <1>2, <1>3, <1>4 DEF Fails

LEMMA FailureStep ==
    ASSUME SInv, [Next]_vars, NEW t \in Tasks, Fails(t) \/ (task[t] = "failed" /\ SendError(t)),
           t = "deleter" => task[t] # "done", t = "planner" => task[t] # "idle",
           UNCHANGED <<scan, sent, at, collected, populated, caller, received, errors>>,
           todo' \in Seq(Manifests), loading' \subseteq Manifests,
           IsChannel(dataCh', DataEntries), IsChannel(deleteCh', DeleteEntries),
           \A x : InQueue(dataCh', x) \/ InQueue(deleteCh', x)
                     => InQueue(dataCh, x) \/ InQueue(deleteCh, x)
    PROVE  SInv'
<1> USE SameScan
<1>1. Types /\ Places
  BY DEF SInv
<1>2. /\ Told' /\ InOrder' /\ IsChannel(outCh', Messages) /\ outCh'.open = outCh.open
      /\ task' \in [Tasks -> TaskStates] /\ task'[t] \in {"failed", "reporting", "done"}
      /\ \A u \in Tasks \ {t} : task'[u] = task[u]
  BY Telling
<1>3. Types'
  BY <1>1, <1>2 DEF Types
<1>4. "deleter" \in Tasks /\ "planner" \in Tasks
  BY DEF Tasks
<1>5. Places'
  <2>1. populated => task'["deleter"] = "done"
    BY <1>1, <1>2, <1>4 DEF Places
  <2>2. caller = "planning" => task'["planner"] = "idle"
    BY <1>1, <1>2, <1>4 DEF Places
  <2>3. \A x : InQueue(dataCh, x)' \/ InQueue(deleteCh, x)' => InQueue(dataCh, x) \/ InQueue(deleteCh, x)
    BY DEF InQueue
  <2> QED
    BY <1>1, <2>1, <2>2, <2>3 DEF Places
<1>6. CompleteOrError'
  BY DEF SInv, CompleteOrError
<1> QED
  BY <1>2, <1>3, <1>5, <1>6 DEF SInv

LEMMA ReportStep ==
    ASSUME SInv, [Next]_vars, NEW t \in Tasks, Report(t)
    PROVE  SInv'
<1>1. /\ todo' = todo /\ loading' = loading /\ dataCh' = dataCh /\ deleteCh' = deleteCh
      /\ UNCHANGED <<scan, sent, at, collected, populated, caller, received, errors>>
  BY DEF Report, entryVars, callerVars
<1>2. Types
  BY DEF SInv
<1> QED
  BY <1>1, <1>2, FailureStep DEF Report, Types

LEMMA LoaderFailsStep ==
    ASSUME SInv, [Next]_vars, LoaderFails
    PROVE  SInv'
<1>1. /\ todo' = << >> /\ loading' = {} /\ dataCh' = dataCh /\ deleteCh' = deleteCh
      /\ UNCHANGED <<scan, sent, at, collected, populated, caller, received, errors>>
  BY DEF LoaderFails, entryVars, callerVars
<1>2. Types /\ << >> \in Seq(Manifests) /\ {} \subseteq Manifests
  BY DEF SInv
<1> QED
  BY <1>1, <1>2, FailureStep DEF LoaderFails, Types, Tasks

LEMMA DeleterFailsStep ==
    ASSUME SInv, [Next]_vars, DeleterFails
    PROVE  SInv'
<1>1. /\ todo' = todo /\ loading' = loading /\ dataCh' = dataCh /\ deleteCh' = Close(deleteCh)
      /\ UNCHANGED <<scan, sent, at, collected, populated, caller, received, errors>>
  BY DEF DeleterFails, entryVars, callerVars
<1>2. Types
  BY DEF SInv
<1>3. IsChannel(deleteCh', DeleteEntries) /\ \A y : ~InQueue(deleteCh', y)
  BY <1>1, <1>2, CloseChannel DEF Types
<1> QED
  BY <1>1, <1>2, <1>3, FailureStep DEF DeleterFails, Types, Tasks

LEMMA PlannerFailsStep ==
    ASSUME SInv, [Next]_vars, PlannerFails
    PROVE  SInv'
<1>1. /\ todo' = todo /\ loading' = loading /\ deleteCh' = deleteCh /\ dataCh' = Close(dataCh)
      /\ UNCHANGED <<scan, sent, at, collected, populated, caller, received, errors>>
  BY DEF PlannerFails, entryVars, callerVars
<1>2. Types
  BY DEF SInv
<1>3. IsChannel(dataCh', DataEntries) /\ \A y : ~InQueue(dataCh', y)
  BY <1>1, <1>2, CloseChannel DEF Types
<1> QED
  BY <1>1, <1>2, <1>3, FailureStep DEF PlannerFails, Types, Tasks

-----------------------------------------------------------------------------
(* File scan tasks on their way to the caller. *)
LEMMA SendTaskStep ==
    ASSUME SInv, [Next]_vars, NEW e \in Entries, SendTask(e)
    PROVE  SInv'
<1> USE SameScan
<1> DEFINE x == ScanTask(e)
<1>1. /\ Types /\ Places /\ at[e] = "ready" /\ populated /\ e \in DataEntries
      /\ e \in Kept(DataEntries) /\ e \notin DeleteEntries /\ task["deleter"] = "done"
  BY IsDataEntry, KindsOfEntries DEF SInv, Places, SendTask
<1>2. UNCHANGED <<scan, todo, loading, sent, task, dataCh, deleteCh, collected, populated,
                  caller, received, errors>>
  BY DEF SendTask, callerVars
<1>3. x \in Messages /\ x # Error
  BY <1>1, ScanTaskType
<1>4. Undisturbed => x = TaskOf(e)
  BY <1>1, TasksAreRight DEF Undisturbed
<1> HIDE DEF x
<1>5. CASE ~outCh.open
  <2>1. at' = [at EXCEPT ![e] = "failed"] /\ outCh' = outCh
    BY <1>5 DEF SendTask
  <2> QED
    BY <1>1, <1>2, <2>1, DataEntryMoves DEF EntryStates, EntryDone, callerVars
<1>6. CASE outCh.open
  <2>1. at' = [at EXCEPT ![e] = "flushing"] /\ outCh' = Put(outCh, e, x)
    BY <1>6 DEF SendTask, x
  <2>2. at' \in [Entries -> EntryStates] /\ at'[e] = "flushing" /\ \A y : y # e => at'[y] = at[y]
    BY <1>1, <2>1 DEF Types, EntryStates
  <2>3. /\ IsChannel(outCh', Messages) /\ outCh'.open = outCh.open
        /\ outCh'.queue = Append(outCh.queue, x) /\ outCh.queue \in Seq(Messages)
        /\ \A y : InQueue(outCh', y) <=> InQueue(outCh, y) \/ y = x
    <3>1. IsChannel(outCh, Messages)
      BY <1>1 DEF Types
    <3>2. outCh.queue \in Seq(Messages)
      BY <3>1 DEF IsChannel
    <3> QED
      BY <1>3, <2>1, <3>1, <3>2, PutChannel
  <2>4. /\ DOMAIN outCh'.queue = 1 .. Len(outCh.queue) + 1 /\ Len(outCh.queue) \in Nat
        /\ DOMAIN outCh.queue = 1 .. Len(outCh.queue)
        /\ outCh'.queue[Len(outCh.queue) + 1] = x
        /\ \A i \in 1 .. Len(outCh.queue) : outCh'.queue[i] = outCh.queue[i]
    BY <1>3, <2>3
  <2>5. \A y : InQueue(outCh, y)' <=> InQueue(outCh, y) \/ y = x
    BY <2>3 DEF InQueue
  <2>6. Told' <=> Told
    BY <1>2, <1>3, <2>5 DEF Told
  <2>7. Types'
    BY <1>1, <1>2, <2>2, <2>3 DEF Types
  <2>8. Places'
    BY <1>1, <1>2, <2>1, EntryMoves DEF EntryStates, Places
  <2>9. ASSUME Undisturbed PROVE Undisturbed'
    <3>1. x = TaskOf(e)
      BY <1>4, <2>9
    <3>2. DeletesSound'
      BY <1>1, <1>2, <2>2, <2>9, DeletesKept DEF Undisturbed
    <3>3. \A y \in Entries : Delivered(y) \/ y = e => Delivered(y)'
      BY <1>2, <2>5, <3>1 DEF Delivered
    <3>4. \A y \in DataEntries : at'[y] = "queued" => InQueue(dataCh, y)'
      BY <1>2, <2>2, <2>9 DEF Undisturbed, DataSound, InQueue
    <3>5. \A y \in Kept(DataEntries) : at'[y] \in {"flushing", "done"} => Delivered(y)'
      BY <2>2, <2>9, <3>3, KindsOfEntries DEF Undisturbed, DataSound, Kept
    <3>6. task["planner"] # "done"
      BY <1>1, <2>9 DEF Undisturbed, DataSound
    <3>7. \A i \in DOMAIN outCh'.queue : \E y \in Kept(DataEntries) : outCh'.queue[i] = TaskOf(y)
      BY <1>1, <2>4, <2>9, <3>1 DEF Undisturbed, DataSound
    <3>8. DataSound'
      BY <1>2, <2>9, <3>4, <3>5, <3>6, <3>7 DEF Undisturbed, DataSound
    <3> QED
      BY <1>2, <2>9, <3>2, <3>8, StreamedKept DEF Undisturbed
  <2>10. InOrder'
    <3> SUFFICES ASSUME ~scan.threads, errors = 0, NEW i \in DOMAIN outCh'.queue,
                        \A j \in 1 .. i : outCh'.queue[j] # Error
                 PROVE  Right(outCh'.queue[i])
      BY <1>2 DEF SInv, InOrder, Right
    <3>1. CASE i \in 1 .. Len(outCh.queue)
      <4>1. \A j \in 1 .. i : outCh.queue[j] # Error
        BY <2>4, <3>1
      <4> QED
        BY <2>4, <3>1, <4>1 DEF SInv, InOrder
    <3>2. CASE i = Len(outCh.queue) + 1
      <4>1. ~InQueue(outCh, Error)
        BY <2>4, <3>2 DEF InQueue
      <4>2. ~Told
        BY <1>6, <4>1 DEF Told, SInv, InOrder
      <4>3. x = TaskOf(e)
        BY <1>4, <4>2 DEF SInv
      <4>4. Right(x)
        BY <4>3 DEF Right, TaskOf
      <4> QED
        BY <2>4, <3>2, <4>4
    <3> QED
      BY <2>4, <3>1, <3>2
  <2>11. CompleteOrError'
    BY <1>2 DEF SInv, CompleteOrError
  <2> QED
    BY <1>2, <2>3, <2>6, <2>7, <2>8, <2>9, <2>10, <2>11 DEF SInv
<1> QED
  BY <1>5, <1>6

LEMMA ReceiveStep ==
    ASSUME SInv, [Next]_vars, Receive
    PROVE  SInv'
<1> USE SameScan
<1> DEFINE x == Head(outCh.queue)
           n == Len(outCh.queue) - 1
<1>1. Types /\ Places /\ IsChannel(outCh, Messages) /\ caller = "reading" /\ outCh.queue # << >>
  BY DEF SInv, Types, Receive
<1>2. /\ outCh' = Take(outCh)
      /\ IF x = Error THEN errors' = errors + 1 /\ received' = received
                      ELSE received' = received \cup {x} /\ errors' = errors
      /\ UNCHANGED <<scan, todo, loading, sent, task, dataCh, deleteCh, at, collected,
                     populated, caller>>
  BY DEF Receive, entryVars
<1>3. /\ IsChannel(outCh', Messages) /\ outCh'.open = outCh.open
      /\ outCh'.queue = Tail(outCh.queue) /\ x = outCh.queue[1]
      /\ \A y : InQueue(outCh, y) <=> y = x \/ InQueue(outCh', y)
  BY <1>1, <1>2, TakeChannel
<1>4. /\ n \in Nat /\ DOMAIN outCh.queue = 1 .. n + 1 /\ DOMAIN outCh'.queue = 1 .. n
      /\ \A i \in 1 .. n : outCh'.queue[i] = outCh.queue[i + 1]
  <2>1. outCh.queue \in Seq(Messages)
    BY <1>1 DEF IsChannel
  <2> QED
    BY <1>1, <1>3, <2>1
<1>5. \A y : InQueue(outCh, y)' <=> InQueue(outCh', y)
  BY DEF InQueue
<1> HIDE DEF x, n
<1>6. Types' /\ errors \in Nat /\ errors' \in Nat
  BY <1>1, <1>2, <1>3 DEF Types
<1>7. Places'
  BY <1>1, <1>2, PlacesKept
<1>8. Told => Told'
  BY <1>2, <1>3, <1>5, <1>6 DEF Told
<1>9. x = Error => Told'
  BY <1>2, <1>6 DEF Told
<1>10. ASSUME Undisturbed, x # Error PROVE Undisturbed'
  <2>1. \A y \in Entries : Delivered(y) => Delivered(y)'
    BY <1>2, <1>3, <1>5, <1>10 DEF Delivered
  <2>2. \A y \in Kept(DataEntries) : at'[y] \in {"flushing", "done"} => Delivered(y)'
    BY <1>2, <1>10, <2>1, KindsOfEntries DEF Undisturbed, DataSound, Kept
  <2>3. \A i \in DOMAIN outCh.queue : \E y \in Kept(DataEntries) : outCh.queue[i] = TaskOf(y)
    BY <1>10 DEF Undisturbed, DataSound
  <2>4. \A i \in 1 .. n : \E y \in Kept(DataEntries) : outCh'.queue[i] = TaskOf(y)
    <3> SUFFICES ASSUME NEW i \in 1 .. n
                 PROVE  \E y \in Kept(DataEntries) : outCh'.queue[i] = TaskOf(y)
      OBVIOUS
    <3>1. i + 1 \in DOMAIN outCh.queue
      BY <1>4
    <3> QED
      BY <1>4, <2>3, <3>1
  <2>5. \E y \in Kept(DataEntries) : x = TaskOf(y)
    <3>1. 1 \in DOMAIN outCh.queue
      BY <1>4
    <3> QED
      BY <1>3, <2>3, <3>1
  <2>6. \A y \in received' : \E z \in Kept(DataEntries) : y = TaskOf(z)
    BY <1>2, <1>10, <2>5 DEF Undisturbed, DataSound
  <2>7. DataSound'
    BY <1>2, <1>4, <1>10, <2>2, <2>4, <2>6 DEF Undisturbed, DataSound, InQueue
  <2> QED
    BY <1>2, <1>10, <2>7, StreamedKept, DeletesKept DEF Undisturbed
<1>11. InOrder'
  <2> SUFFICES ASSUME ~scan.threads, errors' = 0
               PROVE  /\ \A y \in received' : Right(y)
                      /\ \A i \in DOMAIN outCh'.queue :
                            (\A j \in 1 .. i : outCh'.queue[j] # Error) => Right(outCh'.queue[i])
    <3>1. \A y : Right(y)' <=> Right(y)
      BY DEF Right
    <3> QED
      BY <1>2, <3>1 DEF SInv, InOrder
  <2>1. x # Error /\ errors = 0 /\ received' = received \cup {x}
    BY <1>2, <1>6
  <2>2. Right(x)
    <3>1. 1 \in DOMAIN outCh.queue /\ \A j \in 1 .. 1 : outCh.queue[j] # Error
      BY <1>3, <1>4, <2>1
    <3> QED
      BY <1>3, <2>1, <3>1 DEF SInv, InOrder
  <2>3. ASSUME NEW i \in 1 .. n, \A j \in 1 .. i : outCh'.queue[j] # Error
        PROVE  Right(outCh'.queue[i])
    <3>1. i + 1 \in DOMAIN outCh.queue /\ outCh'.queue[i] = outCh.queue[i + 1]
      BY <1>4
    <3>2. ASSUME NEW j \in 1 .. i + 1 PROVE outCh.queue[j] # Error
      <4>1. CASE j = 1
        BY <1>3, <2>1, <4>1
      <4>2. CASE j # 1
        <5>1. j - 1 \in 1 .. i /\ j - 1 \in 1 .. n /\ (j - 1) + 1 = j
          BY <1>4, <4>2
        <5> QED
          BY <1>4, <2>3, <5>1
      <4> QED
        BY <4>1, <4>2
    <3> QED
      BY <2>1, <3>1, <3>2 DEF SInv, InOrder
  <2> QED
    BY <1>4, <2>1, <2>2, <2>3 DEF SInv, InOrder
<1>12. CompleteOrError'
  BY <1>1, <1>2 DEF CompleteOrError
<1> QED
  BY <1>2, <1>3, <1>6, <1>7, <1>8, <1>9, <1>10, <1>11, <1>12 DEF SInv

LEMMA StreamEndsStep ==
    ASSUME SInv, [Next]_vars, StreamEnds
    PROVE  SInv'
<1> USE SameScan
<1>1. /\ Types /\ Places /\ caller = "reading" /\ outCh.queue = << >>
      /\ \A t \in Tasks : task[t] = "done"
  BY DEF SInv, StreamEnds
<1>2. /\ caller' = "done"
      /\ UNCHANGED <<scan, todo, loading, sent, task, dataCh, deleteCh, outCh, at, collected,
                     populated, received, errors>>
  BY DEF StreamEnds, entryVars
<1>3. Types'
  BY <1>1, <1>2 DEF Types
<1>4. Places'
  BY <1>1, <1>2, PlacesKept
<1>5. Told' <=> Told
  BY <1>1, <1>2 DEF Told, InQueue
<1>6. Undisturbed => Undisturbed'
  BY <1>2, StreamedKept, DeletesKept, DataKept DEF Undisturbed
<1>7. InOrder'
  BY <1>2 DEF SInv, InOrder, Right
<1>8. ASSUME errors = 0 PROVE received = Expected
  <2>1. \A y : ~InQueue(outCh, y)
    BY <1>1 DEF InQueue
  <2>2. ~Told
    BY <1>1, <1>8, <2>1 DEF Told
  <2>3. DataSound
    BY <2>2 DEF SInv, Undisturbed
  <2>4. \A e \in Kept(DataEntries) : TaskOf(e) \in received
    <3> SUFFICES ASSUME NEW e \in Kept(DataEntries) PROVE TaskOf(e) \in received
      OBVIOUS
    <3>1. e \in DataEntries /\ "planner" \in Tasks
      BY DEF Kept, Tasks
    <3>2. at[e] = "done"
      BY <1>1, <2>3, <3>1 DEF DataSound
    <3> QED
      BY <2>1, <2>3, <3>2 DEF DataSound, Delivered
  <2> QED
    BY <2>3, <2>4 DEF DataSound, Expected
<1>9. Expected = {<<e, DeletesOf(e)>> : e \in Kept(DataEntries)}
  BY DEF Expected, TaskOf
<1>10. CompleteOrError'
  BY <1>2, <1>8, <1>9 DEF CompleteOrError
<1> QED
  BY <1>1, <1>2, <1>3, <1>4, <1>5, <1>6, <1>7, <1>10 DEF SInv

LEMMA DropScanStep ==
    ASSUME SInv, [Next]_vars, DropScan
    PROVE  SInv'
<1> USE SameScan
<1>1. Types /\ Places
  BY DEF SInv
<1>2. /\ caller' = "gone" /\ outCh' = Close(outCh)
      /\ dataCh' = dataCh \/ dataCh' = Close(dataCh)
      /\ UNCHANGED <<scan, todo, loading, sent, task, deleteCh, at, collected, populated,
                     received, errors>>
  BY DEF DropScan, entryVars
<1>3. /\ IsChannel(outCh', Messages) /\ ~outCh'.open /\ outCh'.queue = << >>
  BY <1>1, <1>2, CloseChannel DEF Types
<1>4. IsChannel(dataCh', DataEntries) /\ \A y : InQueue(dataCh', y) => InQueue(dataCh, y)
  BY <1>1, <1>2, CloseChannel DEF Types
<1>5. Types'
  BY <1>1, <1>2, <1>3, <1>4 DEF Types
<1>6. Places'
  BY <1>1, <1>2, <1>4, PlacesKept
<1>7. Told'
  BY <1>2 DEF Told
<1>8. InOrder'
  <2>1. DOMAIN outCh'.queue = {}
    BY <1>3
  <2> QED
    BY <1>2, <2>1 DEF SInv, InOrder, Right
<1>9. CompleteOrError'
  BY <1>2 DEF CompleteOrError
<1> QED
  BY <1>2, <1>3, <1>5, <1>6, <1>7, <1>8, <1>9 DEF SInv

-----------------------------------------------------------------------------
(* The invariant. *)
LEMMA StartsSound == Init => SInv
<1> SUFFICES ASSUME Init PROVE SInv
  OBVIOUS
<1>1. /\ scan \in Scans /\ todo \in DeletesFirst(list) /\ loading = {}
      /\ sent = [m \in Manifests |-> 0]
      /\ task = [t \in Tasks |-> IF t = "planner" THEN "idle" ELSE "running"]
      /\ at = [e \in Entries |-> "unread"] /\ collected = {} /\ populated = FALSE
      /\ caller = "planning" /\ received = {} /\ errors = 0
  BY DEF Init
<1>2. Len(list) \in Nat /\ Manifests = 1 .. Len(list)
  BY <1>1, ListShape
<1>3. /\ todo \in [Manifests -> Manifests]
      /\ \A m \in Manifests : \E i \in DOMAIN todo : todo[i] = m
  BY <1>1 DEF DeletesFirst, Manifests
<1>4. todo \in Seq(Manifests)
  <2> DEFINE S == Manifests
  <2>1. todo \in [1 .. Len(list) -> S]
    BY <1>2, <1>3
  <2> HIDE DEF S
  <2>2. todo \in Seq(S)
    BY <1>2, <2>1
  <2> QED
    BY <2>2 DEF S
<1>5. \A M : /\ IsChannel(dataCh, M) /\ dataCh.open /\ dataCh.queue = << >>
             /\ IsChannel(deleteCh, M) /\ deleteCh.open /\ deleteCh.queue = << >>
             /\ IsChannel(outCh, M) /\ outCh.open /\ outCh.queue = << >>
  BY NewChannelIs DEF Init
<1>6. \A x : ~InQueue(dataCh, x) /\ ~InQueue(deleteCh, x) /\ ~InQueue(outCh, x)
  BY <1>5 DEF InQueue
<1>7. Types
  BY <1>1, <1>4, <1>5 DEF Types, TaskStates, EntryStates, EntryDone
<1>8. /\ task["deleter"] = "running" /\ task["planner"] = "idle"
      /\ \A t \in Tasks : task[t] \in {"idle", "running"}
  BY <1>1 DEF Tasks
<1>9. Places
  <2>1. \A e \in Entries : at[e] = "unread" /\ sent[e[1]] < e[2]
    <3> SUFFICES ASSUME NEW e \in Entries PROVE at[e] = "unread" /\ sent[e[1]] < e[2]
      OBVIOUS
    <3>1. e[1] \in Manifests /\ e[2] \in Nat /\ 1 <= e[2]
      BY <1>1, EntryParts
    <3> QED
      BY <1>1, <3>1
  <2> QED
    BY <1>1, <1>6, <1>8, <2>1, KindsOfEntries DEF Places
<1>10. Streamed
  BY <1>3 DEF Streamed
<1>11. DeletesSound
  BY <1>1, <1>8, KindsOfEntries DEF DeletesSound, Kept
<1>12. DataSound
  <2>1. DOMAIN outCh.queue = {}
    BY <1>5
  <2> QED
    BY <1>1, <1>8, <2>1, KindsOfEntries DEF DataSound, Kept
<1>13. InOrder
  <2>1. DOMAIN outCh.queue = {}
    BY <1>5
  <2> QED
    BY <1>1, <1>8, <2>1 DEF InOrder
<1>14. CompleteOrError
  BY <1>1 DEF CompleteOrError
<1> QED
  BY <1>1, <1>5, <1>7, <1>8, <1>9, <1>10, <1>11, <1>12, <1>13, <1>14 DEF SInv, Undisturbed

LEMMA StepKeepsSInv == SInv /\ [Next]_vars => SInv'
<1> SUFFICES ASSUME SInv, [Next]_vars PROVE SInv'
  OBVIOUS
<1>1. CASE LoaderStep
  BY <1>1, StartManifestStep, LoaderFailsStep, LoaderEndsStep, StreamEntryStep,
     FinishManifestStep DEF LoaderStep
<1>2. CASE TakeDelete
  BY <1>2, TakeDeleteStep
<1>3. CASE DeleterFails
  BY <1>3, DeleterFailsStep
<1>4. CASE DeleterEnds
  BY <1>4, DeleterEndsStep
<1>5. CASE PopulateIndex
  BY <1>5, PopulateIndexStep
<1>6. CASE ReturnStream
  BY <1>6, ReturnStreamStep
<1>7. CASE TakeData
  BY <1>7, TakeDataStep
<1>8. CASE PlannerFails
  BY <1>8, PlannerFailsStep
<1>9. CASE PlannerEnds
  BY <1>9, PlannerEndsStep
<1>10. CASE \E e \in Entries : EntryStep(e)
  BY <1>10, ProcessDeleteStep, ProcessDataStep, WaitForIndexStep, SendTaskStep, TaskSentStep
  DEF EntryStep
<1>11. CASE \E t \in Tasks : TaskStep(t)
  BY <1>11, ReportStep, ReportedStep DEF TaskStep
<1>12. CASE Receive
  BY <1>12, ReceiveStep
<1>13. CASE StreamEnds
  BY <1>13, StreamEndsStep
<1>14. CASE DropScan
  BY <1>14, DropScanStep
<1>15. CASE UNCHANGED vars
  <2>1. UNCHANGED <<scan, todo, loading, sent, task, dataCh, deleteCh, outCh, at, collected,
                    populated, caller, received, errors>>
    BY <1>15 DEF vars, entryVars, callerVars
  <2>2. Types /\ Places
    BY DEF SInv
  <2>3. Types'
    BY <2>1, <2>2, SameScan DEF Types
  <2>4. Places'
    BY <2>1, <2>2, PlacesKept
  <2>5. Undisturbed => Undisturbed'
    BY <2>1, StreamedKept, DeletesKept, DataKept DEF Undisturbed
  <2> QED
    BY <2>1, <2>3, <2>4, <2>5, QuietKeeps
<1> QED
  BY <1>1, <1>2, <1>3, <1>4, <1>5, <1>6, <1>7, <1>8, <1>9, <1>10, <1>11, <1>12, <1>13, <1>14,
     <1>15 DEF Next, Progress

LEMMA AlwaysSound == Spec => []SInv
BY StartsSound, StepKeepsSInv, PTL DEF Spec

(* A stream that ends without an error has delivered a task, with all of its *)
(* deletes, for every live data file the filter keeps: plan_files, its       *)
(* loader and both kinds of entry tasks swallow no failure.                  *)
THEOREM StreamsAreComplete == Spec => []CompleteOrError
<1>1. SInv => CompleteOrError
  BY DEF SInv
<1> QED
  BY <1>1, AlwaysSound, PTL

(* On one thread, a task that comes before any error names exactly the       *)
(* deletes of its file: into_file_scan_task is not reached before the        *)
(* DeleteFileIndex is complete.                                              *)
THEOREM TasksNameTheirDeletes == Spec => []TasksKnowTheirDeletes
<1>1. SInv => TasksKnowTheirDeletes
  BY DEF SInv, InOrder, Right, TasksKnowTheirDeletes
<1> QED
  BY <1>1, AlwaysSound, PTL

-----------------------------------------------------------------------------
(* Bounds: the queues, the manifests and entries at work, the errors.       *)

Distinct(s) == \A i, j \in DOMAIN s : s[i] = s[j] => i = j

OnlyFrom(s, r) == \A i \in DOMAIN s : \E j \in DOMAIN r : s[i] = r[j]

(* Senders of S, each once, are parked in ch, and it holds no more than its *)
(* buffer and a message of each.                                            *)
Buffered(ch, b, S) ==
    /\ ch.buffer = b /\ ch.parked \in Seq(S) /\ Distinct(ch.parked)
    /\ Len(ch.queue) <= b + Len(ch.parked)

(* A manifest is in work once, and only while the loader runs. *)
Loads ==
    /\ Distinct(todo) /\ \A i \in DOMAIN todo : todo[i] \notin loading
    /\ Cardinality(loading) <= scan.limitManifests
    /\ task["loader"] # "running" => loading = {}
    /\ \A m \in Manifests : sent[m] <= Len(list[m].entries)

(* Manifests in work wait in their channel ch; those the loader has dropped *)
(* may still be noted there.                                                *)
Streams(ch, ms) ==
    /\ Buffered(ch, scan.limitManifests, ms)
    /\ Len(ch.parked) <= scan.limitManifests
    /\ task["loader"] = "running" => \A i \in DOMAIN ch.parked : ch.parked[i] \in loading

DataManifests == {m \in Manifests : ~IsDelete(m)}
DeleteManifests == {m \in Manifests : IsDelete(m)}

(* Who can be parked in the channel of the stream. *)
Flushing == {e \in DataEntries : at[e] = "flushing"}
Reporting == {t \in Tasks : task[t] = "reporting"}
Senders == Flushing \cup {<<t>> : t \in Reporting}

Working == {e \in DataEntries : at[e] \notin EntryDone}

(* Every data entry in the channel of the loader is there once. *)
Queued ==
    /\ Distinct(dataCh.queue)
    /\ \A i \in DOMAIN dataCh.queue : at[dataCh.queue[i]] = "queued"

Sends ==
    /\ Buffered(outCh, scan.limitEntries, Senders)
    /\ IsFiniteSet(Working) /\ Cardinality(Working) <= scan.limitEntries
    /\ task["planner"] \in {"failed", "reporting"} => \E e \in DataEntries : at[e] = "failed"

(* A task sends one error at most. *)
Silent == {t \in Tasks : task[t] \in {"idle", "running", "failed"}}
ErrorsIn(q) == {i \in DOMAIN q : q[i] = Error}
Reports == errors + Cardinality(ErrorsIn(outCh.queue)) + Cardinality(Silent) <= 3

BInv ==
    /\ Loads /\ Streams(dataCh, DataManifests) /\ Streams(deleteCh, DeleteManifests)
    /\ Queued /\ Sends /\ Reports
    /\ received \subseteq DataEntries \X SUBSET Names

-----------------------------------------------------------------------------
LEMMA Reseated ==
    ASSUME NEW S, NEW T, NEW s \in Seq(S), \A i \in DOMAIN s : s[i] \in T
    PROVE  s \in Seq(T)
OBVIOUS

LEMMA FewParked ==
    ASSUME NEW S, IsFiniteSet(S), NEW s \in Seq(S), Distinct(s)
    PROVE  Len(s) <= Cardinality(S)
<1>1. Len(s) \in Nat /\ s \in [1 .. Len(s) -> S]
  OBVIOUS
<1>2. s \in Injection(1 .. Len(s), S)
  BY <1>1 DEF Injection, IsInjective, Distinct
<1>3. Cardinality(1 .. Len(s)) = Len(s)
  BY <1>1, FS_Interval
<1> QED
  BY <1>2, <1>3, FS_Injection

LEMMA PutBuffered ==
    ASSUME NEW b \in Nat, NEW S, NEW M, NEW ch, IsChannel(ch, M), Buffered(ch, b, S),
           NEW s \in S, Flushed(ch, s), NEW x \in M
    PROVE  Buffered(Put(ch, s, x), b, S)
<1> DEFINE new == Put(ch, s, x)
<1>1. /\ new.buffer = ch.buffer /\ new.queue = Append(ch.queue, x)
      /\ new.parked = IF Len(ch.queue) >= ch.buffer THEN Append(ch.parked, s) ELSE ch.parked
  BY DEF IsChannel, Put
<1> HIDE DEF new
<1>2. /\ ch.queue \in Seq(M) /\ ch.parked \in Seq(S) /\ Distinct(ch.parked)
      /\ Len(ch.queue) <= b + Len(ch.parked) /\ ch.buffer = b
  BY DEF IsChannel, Buffered
<1>3. Len(new.queue) = Len(ch.queue) + 1 /\ Len(ch.queue) \in Nat /\ Len(ch.parked) \in Nat
  BY <1>1, <1>2
<1>4. CASE Len(ch.queue) >= b
  <2>1. new.parked = Append(ch.parked, s)
    BY <1>1, <1>2, <1>4
  <2>2. new.parked \in Seq(S) /\ Len(new.parked) = Len(ch.parked) + 1
    BY <1>2, <2>1
  <2>3. \A i \in DOMAIN ch.parked : ch.parked[i] # s
    BY DEF Flushed
  <2>4. Distinct(new.parked)
    <3> SUFFICES ASSUME NEW i \in DOMAIN new.parked, NEW j \in DOMAIN new.parked,
                        new.parked[i] = new.parked[j]
                 PROVE  i = j
      BY DEF Distinct
    <3>1. \A k \in DOMAIN new.parked :
              \/ k = Len(ch.parked) + 1 /\ new.parked[k] = s
              \/ k \in DOMAIN ch.parked /\ new.parked[k] = ch.parked[k]
      BY <1>2, <2>1
    <3> QED
      BY <1>2, <2>3, <3>1 DEF Distinct
  <2> QED
    BY <1>1, <1>2, <1>3, <2>2, <2>4 DEF Buffered, new
<1>5. CASE ~(Len(ch.queue) >= b)
  <2>1. new.parked = ch.parked
    BY <1>1, <1>2, <1>5
  <2> QED
    BY <1>1, <1>2, <1>3, <1>5, <2>1 DEF Buffered, new
<1> QED
  BY <1>4, <1>5

LEMMA TakeBuffered ==
    ASSUME NEW b \in Nat, NEW S, NEW M, NEW ch, IsChannel(ch, M), Buffered(ch, b, S),
           ch.queue # << >>
    PROVE  /\ Buffered(Take(ch), b, S) /\ Len(Take(ch).parked) <= Len(ch.parked)
           /\ OnlyFrom(Take(ch).parked, ch.parked)
<1> DEFINE new == Take(ch)
<1>1. /\ new.buffer = ch.buffer /\ new.queue = Tail(ch.queue)
      /\ new.parked = IF ch.parked = << >> THEN ch.parked ELSE Tail(ch.parked)
  BY DEF IsChannel, Take
<1> HIDE DEF new
<1>2. /\ ch.queue \in Seq(M) /\ ch.parked \in Seq(S) /\ Distinct(ch.parked)
      /\ Len(ch.queue) <= b + Len(ch.parked) /\ ch.buffer = b
  BY DEF IsChannel, Buffered
<1>3. Len(new.queue) = Len(ch.queue) - 1 /\ Len(ch.queue) \in Nat /\ Len(ch.parked) \in Nat
  BY <1>1, <1>2
<1>4. CASE ch.parked = << >>
  BY <1>1, <1>2, <1>3, <1>4 DEF Buffered, OnlyFrom, new
<1>5. CASE ch.parked # << >>
  <2>1. /\ new.parked \in Seq(S) /\ Len(new.parked) = Len(ch.parked) - 1
        /\ \A i \in DOMAIN new.parked :
              i + 1 \in DOMAIN ch.parked /\ new.parked[i] = ch.parked[i + 1] /\ i \in Nat
    BY <1>1, <1>2, <1>5
  <2>2. Distinct(new.parked)
    <3> SUFFICES ASSUME NEW i \in DOMAIN new.parked, NEW j \in DOMAIN new.parked,
                        new.parked[i] = new.parked[j]
                 PROVE  i = j
      BY DEF Distinct
    <3>1. i + 1 = j + 1
      BY <1>2, <2>1 DEF Distinct
    <3> QED
      BY <2>1, <3>1
  <2> QED
    BY <1>1, <1>2, <1>3, <2>1, <2>2 DEF Buffered, OnlyFrom, new
<1> QED
  BY <1>4, <1>5

LEMMA CloseBuffered ==
    ASSUME NEW b \in Nat, NEW S, NEW M, NEW ch, IsChannel(ch, M), Buffered(ch, b, S), NEW T
    PROVE  Buffered(Close(ch), b, T) /\ Close(ch).parked = << >>
<1> DEFINE new == Close(ch)
<1>1. new.buffer = ch.buffer /\ new.queue = << >>
  BY DEF IsChannel, Close
<1>2. new.parked = << >>
  BY DEF IsChannel, Close, Buffered
<1> HIDE DEF new
<1> QED
  BY <1>1, <1>2 DEF Buffered, Distinct, new

LEMMA BufferedFor ==
    ASSUME NEW b, NEW S, NEW ch, Buffered(ch, b, S), NEW T,
           \A i \in DOMAIN ch.parked : ch.parked[i] \in T
    PROVE  Buffered(ch, b, T)
BY Reseated DEF Buffered

LEMMA Limits ==
    ASSUME scan \in Scans
    PROVE  /\ scan.limitManifests \in Nat /\ scan.limitManifests >= 1
           /\ scan.limitEntries \in Nat /\ scan.limitEntries >= 1
           /\ IsFiniteSet(Manifests) /\ IsFiniteSet(Tasks)
<1>1. IsFiniteSet(Manifests)
  BY ListShape, FS_Interval
<1>2. IsFiniteSet(Tasks)
  <2>1. Tasks = ({} \cup {"loader"}) \cup {"deleter"} \cup {"planner"}
    BY DEF Tasks
  <2> QED
    BY <2>1, FS_EmptySet, FS_AddElement
<1> QED
  BY <1>1, <1>2, ScansAssumption

-----------------------------------------------------------------------------
(* The loader. *)

(* The step is one of the loader, or one that leaves it alone. *)
LEMMA LoaderOrNot ==
    ASSUME Types, [Next]_vars
    PROVE  \/ StartManifest \/ LoaderFails \/ LoaderEnds
           \/ \E m \in Manifests : StreamEntry(m) \/ FinishManifest(m)
           \/ /\ UNCHANGED <<todo, loading, sent>>
              /\ task'["loader"] = "running" <=> task["loader"] = "running"
<1>1. task \in [Tasks -> TaskStates] /\ "loader" \in Tasks
  BY DEF Types, Tasks
<1>2. ASSUME NEW t, task[t] = "failed" \/ t # "loader", NEW s \in TaskStates \ {"running"},
             t \in Tasks, task' = [task EXCEPT ![t] = s]
      PROVE  task'["loader"] = "running" <=> task["loader"] = "running"
  BY <1>1, <1>2
<1>3. ASSUME NEW t, task[t] = "failed" \/ t # "loader", t \in Tasks, SendError(t) \/ Fails(t)
      PROVE  task'["loader"] = "running" <=> task["loader"] = "running"
  BY <1>2, <1>3 DEF SendError, Fails, TaskStates
<1>4. CASE \E t \in Tasks : TaskStep(t)
  <2>1. PICK t \in Tasks : TaskStep(t)
    BY <1>4
  <2>2. CASE Report(t)
    BY <1>3, <2>2 DEF Report
  <2>3. CASE Reported(t)
    BY <1>1, <2>3 DEF Reported
  <2> QED
    BY <2>1, <2>2, <2>3 DEF TaskStep
<1>5. CASE DeleterFails \/ PlannerFails
  BY <1>3, <1>5 DEF DeleterFails, PlannerFails, Tasks
<1>6. CASE DeleterEnds \/ PlannerEnds \/ ReturnStream
  BY <1>1, <1>6 DEF DeleterEnds, PlannerEnds, ReturnStream
<1>7. CASE TakeDelete \/ PopulateIndex \/ TakeData \/ (\E e \in Entries : EntryStep(e))
           \/ Receive \/ StreamEnds \/ DropScan \/ UNCHANGED vars
  BY <1>7 DEF TakeDelete, PopulateIndex, TakeData, EntryStep, ProcessDelete, ProcessData,
     WaitForIndex, SendTask, TaskSent, Receive, StreamEnds, DropScan, vars
<1>8. UNCHANGED <<todo, loading, sent>> \/ LoaderStep
  BY DEF Next, Progress, StartManifest, LoaderFails, LoaderEnds, StreamEntry,
     FinishManifest, TakeDelete, DeleterFails, DeleterEnds, PopulateIndex, ReturnStream,
     TakeData, PlannerFails, PlannerEnds, EntryStep, ProcessDelete, ProcessData,
     WaitForIndex, SendTask, TaskSent, TaskStep, Report, Reported, Receive, StreamEnds,
     DropScan, vars
<1>9. CASE LoaderStep
  BY <1>9 DEF LoaderStep
<1> QED
  BY <1>4, <1>5, <1>6, <1>7, <1>8, <1>9 DEF Next, Progress

LEMMA LoadsStep ==
    ASSUME SInv, Loads, [Next]_vars
    PROVE  Loads'
<1> USE SameScan
<1>1. /\ Types /\ scan \in Scans /\ todo \in Seq(Manifests) /\ loading \subseteq Manifests
      /\ sent \in [Manifests -> Nat] /\ task \in [Tasks -> TaskStates]
  BY DEF SInv, Types
<1>2. /\ IsFiniteSet(loading) /\ scan.limitManifests \in Nat
      /\ Cardinality(loading) \in Nat
      /\ \A S \in SUBSET loading : Cardinality(S) \in Nat /\ Cardinality(S) <= Cardinality(loading)
  <2>1. IsFiniteSet(loading)
    BY <1>1, Limits, FS_Subset
  <2> QED
    BY <1>1, <2>1, Limits, FS_Subset, FS_CardinalityType
<1>3. CASE StartManifest
  <2>1. /\ todo # << >> /\ Cardinality(loading) < scan.limitManifests
        /\ loading' = loading \cup {Head(todo)} /\ todo' = Tail(todo)
        /\ UNCHANGED <<sent, task>> /\ task["loader"] = "running"
    BY <1>3 DEF StartManifest
  <2>2. Cardinality(loading') <= scan.limitManifests
    BY <1>2, <2>1, FS_AddElement, SMTT(30)
  <2>3. \A i \in DOMAIN todo' :
            i \in Nat /\ 1 \in DOMAIN todo /\ i + 1 \in DOMAIN todo /\ todo'[i] = todo[i + 1]
    BY <1>1, <2>1
  <2>4. Head(todo) = todo[1]
    BY <1>1, <2>1
  <2>5. \A i \in DOMAIN todo' : todo'[i] \notin loading'
    <3> SUFFICES ASSUME NEW i \in DOMAIN todo' PROVE todo'[i] \notin loading'
      OBVIOUS
    <3> DEFINE k == i + 1
    <3>1. k \in DOMAIN todo /\ todo'[i] = todo[k] /\ i \in Nat
      BY <2>3
    <3> HIDE DEF k
    <3>3. todo[k] \notin loading
      BY <3>1 DEF Loads
    <3>4. k # 1
      <4>1. i >= 1
        BY <1>1, <2>1
      <4> QED
        BY <3>1, <4>1 DEF k
    <3>2. todo[k] # todo[1]
      BY <2>3, <3>1, <3>4 DEF Loads, Distinct
    <3> QED
      BY <2>1, <2>4, <3>1, <3>2, <3>3
  <2>6. Distinct(todo')
    <3> SUFFICES ASSUME NEW i \in DOMAIN todo', NEW j \in DOMAIN todo', todo'[i] = todo'[j]
                 PROVE  i = j
      BY DEF Distinct
    <3>1. i + 1 = j + 1
      BY <2>3 DEF Loads, Distinct
    <3> QED
      BY <2>3, <3>1
  <2> QED
    BY <2>1, <2>2, <2>5, <2>6 DEF Loads
<1>4. CASE LoaderFails
  <2>1. todo' = << >> /\ loading' = {} /\ UNCHANGED sent
    BY <1>4 DEF LoaderFails
  <2>2. Cardinality(loading') <= scan.limitManifests
    BY <1>2, <2>1, FS_EmptySet
  <2> QED
    BY <2>1, <2>2 DEF Loads, Distinct
<1>5. CASE LoaderEnds
  <2>1. UNCHANGED <<todo, loading, sent>> /\ loading = {}
    BY <1>5 DEF LoaderEnds
  <2> QED
    BY <2>1 DEF Loads
<1>6. ASSUME NEW m \in Manifests, StreamEntry(m) PROVE Loads'
  <2>1. /\ UNCHANGED <<todo, loading, task>> /\ sent' = [sent EXCEPT ![m] = @ + 1]
        /\ sent[m] < Len(list[m].entries)
    BY <1>6 DEF StreamEntry
  <2>2. Len(list[m].entries) \in Nat
    BY <1>1, ListShape
  <2>3. \A n \in Manifests : sent'[n] <= Len(list[n].entries)
    BY <1>1, <2>1, <2>2 DEF Loads
  <2> QED
    BY <2>1, <2>3 DEF Loads
<1>7. ASSUME NEW m \in Manifests, FinishManifest(m) PROVE Loads'
  <2>1. UNCHANGED <<todo, sent, task>> /\ loading' = loading \ {m}
    BY <1>7 DEF FinishManifest
  <2>2. Cardinality(loading') <= scan.limitManifests
    BY <1>2, <2>1 DEF Loads
  <2> QED
    BY <2>1, <2>2 DEF Loads
<1>8. CASE /\ UNCHANGED <<todo, loading, sent>>
           /\ task'["loader"] = "running" <=> task["loader"] = "running"
  BY <1>8 DEF Loads
<1> QED
  BY <1>1, <1>3, <1>4, <1>5, <1>6, <1>7, <1>8, LoaderOrNot

LEMMA StreamsShrink ==
    ASSUME scan \in Scans, NEW M, NEW ch, NEW new, NEW ms, IsChannel(ch, M), Streams(ch, ms),
           \/ new = ch \/ new = Close(ch)
           \/ ch.queue # << >> /\ new = Take(ch),
           task'["loader"] = "running" => task["loader"] = "running",
           task'["loader"] = "running" =>
               \A m \in loading : m \in loading' \/ m \notin ms \/ Flushed(ch, m)
    PROVE  /\ Buffered(new, scan.limitManifests, ms)
           /\ Len(new.parked) <= scan.limitManifests
           /\ task'["loader"] = "running" =>
                 \A i \in DOMAIN new.parked : new.parked[i] \in loading'
<1>1. /\ Buffered(ch, scan.limitManifests, ms) /\ ch.parked \in Seq(ms)
      /\ Len(ch.parked) \in Nat /\ Len(ch.parked) <= scan.limitManifests
      /\ scan.limitManifests \in Nat
  BY Limits DEF Streams, Buffered
<1>2. task'["loader"] = "running" => \A i \in DOMAIN ch.parked : ch.parked[i] \in loading'
  <2> SUFFICES ASSUME task'["loader"] = "running", NEW i \in DOMAIN ch.parked
               PROVE  ch.parked[i] \in loading'
    OBVIOUS
  <2>1. ch.parked[i] \in loading /\ ch.parked[i] \in ms
    BY <1>1 DEF Streams
  <2> QED
    BY <2>1 DEF Flushed
<1>3. CASE new = ch
  BY <1>1, <1>2, <1>3
<1>4. CASE new = Close(ch)
  BY <1>1, <1>4, CloseBuffered
<1>5. CASE ch.queue # << >> /\ new = Take(ch)
  <2>1. /\ Buffered(new, scan.limitManifests, ms) /\ Len(new.parked) <= Len(ch.parked)
        /\ \A i \in DOMAIN new.parked :
              \E j \in DOMAIN ch.parked : new.parked[i] = ch.parked[j]
    <3>1. /\ Buffered(new, scan.limitManifests, ms) /\ Len(new.parked) <= Len(ch.parked)
          /\ OnlyFrom(new.parked, ch.parked)
      BY <1>1, <1>5, TakeBuffered
    <3> QED
      BY <3>1 DEF OnlyFrom
  <2>2. Len(new.parked) \in Nat
    BY <2>1 DEF Buffered
  <2> QED
    BY <1>1, <1>2, <2>1, <2>2
<1> QED
  BY <1>3, <1>4, <1>5

LEMMA StreamsGrow ==
    ASSUME SInv, Loads, NEW M, NEW ch, NEW ms, IsChannel(ch, M), Streams(ch, ms),
           NEW m \in loading \cap ms, Flushed(ch, m), NEW x \in M, UNCHANGED <<task, loading>>,
           NEW new, new = Put(ch, m, x)
    PROVE  /\ Buffered(new, scan.limitManifests, ms)
           /\ Len(new.parked) <= scan.limitManifests
           /\ task'["loader"] = "running" =>
                 \A i \in DOMAIN new.parked : new.parked[i] \in loading'
<1>1. /\ scan \in Scans /\ loading \subseteq Manifests /\ task["loader"] = "running"
      /\ scan.limitManifests \in Nat /\ Cardinality(loading) <= scan.limitManifests
  BY Limits DEF SInv, Types, Loads
<1>2. IsFiniteSet(loading) /\ Cardinality(loading) \in Nat
  BY <1>1, Limits, FS_Subset, FS_CardinalityType
<1>3. Buffered(ch, scan.limitManifests, ms)
  BY DEF Streams
<1>4. Buffered(new, scan.limitManifests, ms)
  BY <1>1, <1>3, PutBuffered
<1>5. Buffered(ch, scan.limitManifests, loading)
  BY <1>1, <1>3, BufferedFor DEF Streams
<1>6. Buffered(new, scan.limitManifests, loading)
  BY <1>1, <1>5, PutBuffered
<1>7. /\ new.parked \in Seq(loading) /\ Len(new.parked) \in Nat
      /\ Len(new.parked) <= Cardinality(loading)
  BY <1>2, <1>6, FewParked DEF Buffered
<1> QED
  BY <1>1, <1>2, <1>4, <1>7

LEMMA ChannelsShrink ==
    ASSUME [Next]_vars, \A m \in Manifests : ~StreamEntry(m)
    PROVE  /\ \/ dataCh' = dataCh \/ dataCh' = Close(dataCh)
              \/ dataCh.queue # << >> /\ dataCh' = Take(dataCh)
           /\ \/ deleteCh' = deleteCh \/ deleteCh' = Close(deleteCh)
              \/ deleteCh.queue # << >> /\ deleteCh' = Take(deleteCh)
BY DEF Next, Progress, LoaderStep, StartManifest, LoaderFails, LoaderEnds, FinishManifest,
   TakeDelete, DeleterFails, DeleterEnds, PopulateIndex, ReturnStream, TakeData, PlannerFails,
   PlannerEnds, EntryStep, ProcessDelete, ProcessData, WaitForIndex, SendTask, TaskSent,
   TaskStep, Report, Reported, Receive, StreamEnds, DropScan, vars

LEMMA StreamsStep ==
    ASSUME SInv, Loads, Streams(dataCh, DataManifests), Streams(deleteCh, DeleteManifests),
           [Next]_vars
    PROVE  Streams(dataCh, DataManifests)' /\ Streams(deleteCh, DeleteManifests)'
<1> USE SameScan
<1>1. /\ Types /\ scan \in Scans /\ task \in [Tasks -> TaskStates]
      /\ IsChannel(dataCh, DataEntries) /\ IsChannel(deleteCh, DeleteEntries)
  BY DEF SInv, Types
<1>2. DataManifests' = DataManifests /\ DeleteManifests' = DeleteManifests
  BY DEF DataManifests, DeleteManifests, IsDelete
<1>3. ASSUME NEW m \in Manifests, StreamEntry(m)
      PROVE  Streams(dataCh, DataManifests)' /\ Streams(deleteCh, DeleteManifests)'
  <2> DEFINE e == <<m, sent[m] + 1>>
  <2>1. /\ m \in loading /\ sent[m] < Len(list[m].entries) /\ Flushed(ChannelOf(m), m)
        /\ UNCHANGED <<task, loading>> /\ sent' = [sent EXCEPT ![m] = @ + 1]
        /\ SetChannelOf(m, Put(ChannelOf(m), m, <<m, sent'[m]>>))
    BY <1>3 DEF StreamEntry
  <2>2. sent[m] \in Nat /\ sent'[m] = sent[m] + 1
    BY <1>1, <2>1 DEF Types
  <2>3. e \in Entries /\ e[1] = m
    <3>1. sent[m] + 1 \in DOMAIN list[m].entries
      BY <1>1, <2>1, <2>2, ListShape
    <3> QED
      BY <3>1, EntryIs
  <2>4. e \in DeleteEntries <=> IsDelete(m)
    BY <2>3, KindsOfEntries
  <2>5. e \in DataEntries <=> ~IsDelete(m)
    BY <2>3, KindsOfEntries
  <2>6. SetChannelOf(m, Put(ChannelOf(m), m, e))
    BY <2>1, <2>2
  <2> HIDE DEF e
  <2>7. CASE IsDelete(m)
    <3>1. /\ deleteCh' = Put(deleteCh, m, e) /\ dataCh' = dataCh /\ Flushed(deleteCh, m)
          /\ m \in loading \cap DeleteManifests /\ e \in DeleteEntries
      BY <2>1, <2>4, <2>6, <2>7 DEF SetChannelOf, ChannelOf, DeleteManifests
    <3>2. Streams(deleteCh, DeleteManifests)'
      BY <1>1, <1>2, <2>1, <3>1, StreamsGrow DEF Streams
    <3>3. Streams(dataCh, DataManifests)'
      BY <1>2, <2>1, <3>1 DEF Streams
    <3> QED
      BY <3>2, <3>3
  <2>8. CASE ~IsDelete(m)
    <3>1. /\ dataCh' = Put(dataCh, m, e) /\ deleteCh' = deleteCh /\ Flushed(dataCh, m)
          /\ m \in loading \cap DataManifests /\ e \in DataEntries
      BY <2>1, <2>5, <2>6, <2>8 DEF SetChannelOf, ChannelOf, DataManifests
    <3>2. Streams(dataCh, DataManifests)'
      BY <1>1, <1>2, <2>1, <3>1, StreamsGrow DEF Streams
    <3>3. Streams(deleteCh, DeleteManifests)'
      BY <1>2, <2>1, <3>1 DEF Streams
    <3> QED
      BY <3>2, <3>3
  <2> QED
    BY <2>7, <2>8
<1>4. CASE \A m \in Manifests : ~StreamEntry(m)
  <2>1. /\ task'["loader"] = "running" => task["loader"] = "running"
        /\ task'["loader"] = "running" =>
              \A m \in loading : /\ m \in loading' \/ m \notin DataManifests \/ Flushed(dataCh, m)
                                 /\ m \in loading' \/ m \notin DeleteManifests
                                    \/ Flushed(deleteCh, m)
    <3> DEFINE Waits(n) == /\ n \in loading' \/ n \notin DataManifests \/ Flushed(dataCh, n)
                           /\ n \in loading' \/ n \notin DeleteManifests \/ Flushed(deleteCh, n)
    <3> DEFINE Goal == task'["loader"] = "running" =>
                           task["loader"] = "running" /\ \A n \in loading : Waits(n)
    <3> SUFFICES Goal
      OBVIOUS
    <3>1. CASE StartManifest
      BY <3>1 DEF StartManifest
    <3>2. CASE LoaderFails
      <4>1. loading # {} /\ task["loader"] = "running" /\ Fails("loader")
        BY <3>2 DEF LoaderFails, Loads
      <4>2. task'["loader"] # "running"
        BY <1>1, <4>1 DEF Fails, SendError, Tasks
      <4> QED
        BY <4>2
    <3>3. CASE LoaderEnds
      BY <3>3 DEF LoaderEnds
    <3>4. ASSUME NEW m \in Manifests, FinishManifest(m)
          PROVE  /\ UNCHANGED task /\ loading' = loading \ {m}
                 /\ IsDelete(m) => Flushed(deleteCh, m)
                 /\ ~IsDelete(m) => Flushed(dataCh, m)
      BY <3>4 DEF FinishManifest, ChannelOf
    <3>5. ASSUME NEW m \in Manifests, FinishManifest(m)
          PROVE  \A n \in loading : Waits(n)
      BY <3>4, <3>5 DEF DataManifests, DeleteManifests
    <3>6. CASE \E m \in Manifests : FinishManifest(m)
      <4>1. UNCHANGED task
        BY <3>4, <3>6
      <4>2. \A n \in loading : Waits(n)
        BY <3>5, <3>6
      <4> QED
        BY <4>1, <4>2
    <3>7. CASE /\ UNCHANGED <<todo, loading, sent>>
               /\ task'["loader"] = "running" <=> task["loader"] = "running"
      BY <3>7
    <3> HIDE DEF Goal
    <3> QED
      BY <1>1, <1>4, <3>1, <3>2, <3>3, <3>6, <3>7, LoaderOrNot
  <2>2. Streams(dataCh, DataManifests)'
    BY <1>1, <1>2, <1>4, <2>1, ChannelsShrink, StreamsShrink DEF Streams
  <2>3. Streams(deleteCh, DeleteManifests)'
    BY <1>1, <1>2, <1>4, <2>1, ChannelsShrink, StreamsShrink DEF Streams
  <2> QED
    BY <2>2, <2>3
<1> QED
  BY <1>3, <1>4

-----------------------------------------------------------------------------
(* The channel of the stream. *)

LEMMA NotAnEntry ==
    ASSUME NEW t, NEW e \in Entries
    PROVE  <<t>> # e
<1>1. PICK m \in Manifests : \E i \in DOMAIN list[m].entries : e = <<m, i>>
  BY EntryIs
<1>2. PICK i \in DOMAIN list[m].entries : e = <<m, i>>
  BY <1>1
<1>3. Len(<<t>>) = 1 /\ Len(<<m, i>>) = 2
  OBVIOUS
<1> QED
  BY <1>2, <1>3

(* Everything but the channel itself. *)
LEMMA SendsFrom ==
    ASSUME Types, Sends, [Next]_vars, Buffered(outCh', scan.limitEntries, Senders'),
           \A e \in DataEntries : at'[e] \notin EntryDone => at[e] \notin EntryDone,
           \A e \in DataEntries : at[e] = "failed" => at'[e] = "failed",
           task'["planner"] \in {"failed", "reporting"} =>
               \/ task["planner"] \in {"failed", "reporting"}
               \/ \E e \in DataEntries : at[e] = "failed"
    PROVE  Sends'
<1> USE SameScan
<1>1. Working' \subseteq Working
  BY DEF Working
<1>2. IsFiniteSet(Working') /\ Cardinality(Working') <= scan.limitEntries
  <2>1. /\ IsFiniteSet(Working') /\ Cardinality(Working') <= Cardinality(Working)
        /\ Cardinality(Working') \in Nat /\ Cardinality(Working) \in Nat
    BY <1>1, FS_Subset, FS_CardinalityType DEF Sends
  <2> QED
    BY <2>1, Limits DEF Sends, Types
<1>3. task'["planner"] \in {"failed", "reporting"} => \E e \in DataEntries : at'[e] = "failed"
  BY DEF Sends
<1> QED
  BY <1>2, <1>3 DEF Sends

LEMMA SendersStay ==
    ASSUME Types, Sends, [Next]_vars, outCh' = outCh,
           \A e \in DataEntries : at[e] = "flushing" => at'[e] = "flushing",
           \A t \in Tasks : task[t] = "reporting" => task'[t] = "reporting"
    PROVE  Buffered(outCh', scan.limitEntries, Senders')
<1> USE SameScan
<1>1. Senders \subseteq Senders'
  BY DEF Senders, Flushing, Reporting
<1>2. Buffered(outCh, scan.limitEntries, Senders) /\ outCh.parked \in Seq(Senders)
  BY DEF Sends, Buffered
<1>3. \A i \in DOMAIN outCh.parked : outCh.parked[i] \in Senders'
  BY <1>1, <1>2
<1> QED
  BY <1>2, <1>3, BufferedFor

(* An error is sent or put off. *)
LEMMA ErrorSends ==
    ASSUME Types, Sends, [Next]_vars, NEW t \in Tasks, task[t] \in {"running", "failed"},
           SendError(t) \/ Fails(t), UNCHANGED at,
           t = "planner" => task[t] = "failed" \/ \E e \in DataEntries : at[e] = "failed"
    PROVE  Sends'
<1> USE SameScan
<1>1. task \in [Tasks -> TaskStates] /\ IsChannel(outCh, Messages) /\ scan \in Scans
  BY DEF Types
<1>2. task' = [task EXCEPT ![t] = task'[t]]
      /\ \A u \in Tasks : task[u] = "reporting" => task'[u] = "reporting"
  BY <1>1 DEF SendError, Fails
<1>3. Buffered(outCh', scan.limitEntries, Senders')
  <2>1. CASE outCh' = outCh
    BY <1>2, <2>1, SendersStay
  <2>2. CASE outCh' = Put(outCh, <<t>>, Error) /\ task' = [task EXCEPT ![t] = "reporting"]
    <3> DEFINE b == scan.limitEntries
               S == Senders'
    <3>1. /\ <<t>> \in S /\ Senders \subseteq S
      BY <1>1, <2>2 DEF Senders, Flushing, Reporting
    <3>2. <<t>> \notin Senders
      <4>1. \A e \in DataEntries : <<t>> # e
        BY NotAnEntry, KindsOfEntries
      <4> QED
        BY <4>1 DEF Senders, Flushing, Reporting
    <3>3. Buffered(outCh, b, Senders) /\ outCh.parked \in Seq(Senders) /\ b \in Nat
      BY <1>1, Limits DEF Sends, Buffered
    <3> HIDE DEF b, S
    <3>4. Flushed(outCh, <<t>>) /\ \A i \in DOMAIN outCh.parked : outCh.parked[i] \in S
      BY <3>1, <3>2, <3>3 DEF Flushed
    <3>5. Buffered(outCh, b, S)
      BY <3>3, <3>4, BufferedFor
    <3>6. Error \in Messages
      BY DEF Messages
    <3>7. Buffered(Put(outCh, <<t>>, Error), b, S)
      BY <1>1, <3>1, <3>3, <3>4, <3>5, <3>6, PutBuffered
    <3> QED
      BY <2>2, <3>7 DEF b, S
  <2> QED
    BY <2>1, <2>2 DEF SendError, Fails
<1>4. task'["planner"] \in {"failed", "reporting"} =>
          \/ task["planner"] \in {"failed", "reporting"}
          \/ \E e \in DataEntries : at[e] = "failed"
  BY <1>1, <1>2 DEF Tasks
<1> QED
  BY <1>3, <1>4, SendsFrom

LEMMA ReportedSends ==
    ASSUME Types, Sends, [Next]_vars, NEW t \in Tasks, Reported(t)
    PROVE  Sends'
<1> USE SameScan
<1>1. /\ Flushed(outCh, <<t>>) /\ task' = [task EXCEPT ![t] = "done"] /\ outCh' = outCh
      /\ UNCHANGED at /\ task \in [Tasks -> TaskStates]
  BY DEF Reported, Types, entryVars
<1>2. Senders \ {<<t>>} \subseteq Senders'
  BY <1>1 DEF Senders, Flushing, Reporting
<1>3. Buffered(outCh, scan.limitEntries, Senders) /\ outCh.parked \in Seq(Senders)
  BY DEF Sends, Buffered
<1>4. \A i \in DOMAIN outCh.parked : outCh.parked[i] \in Senders'
  BY <1>1, <1>2, <1>3 DEF Flushed
<1>5. Buffered(outCh', scan.limitEntries, Senders')
  BY <1>1, <1>3, <1>4, BufferedFor
<1>6. task'["planner"] \in {"failed", "reporting"} => task["planner"] \in {"failed", "reporting"}
  BY <1>1 DEF Tasks
<1> QED
  BY <1>1, <1>5, <1>6, SendsFrom

LEMMA SendTaskSends ==
    ASSUME SInv, Sends, [Next]_vars, NEW e \in Entries, SendTask(e)
    PROVE  Sends'
<1> USE SameScan
<1>1. /\ Types /\ Places /\ at[e] = "ready" /\ UNCHANGED task /\ at \in [Entries -> EntryStates]
      /\ IsChannel(outCh, Messages) /\ scan \in Scans
  BY DEF SInv, Types, SendTask
<1>2. e \in DataEntries
  BY <1>1, KindsOfEntries DEF Places
<1>3. CASE outCh.open
  <2>1. outCh' = Put(outCh, e, ScanTask(e)) /\ at' = [at EXCEPT ![e] = "flushing"]
    BY <1>3 DEF SendTask
  <2> DEFINE b == scan.limitEntries
             S == Senders'
             x == ScanTask(e)
  <2>2. e \in S /\ Senders \subseteq S
    BY <1>1, <1>2, <2>1 DEF Senders, Flushing, Reporting
  <2>3. e \notin Senders
    BY <1>1, NotAnEntry DEF Senders, Flushing
  <2>4. Buffered(outCh, b, Senders) /\ outCh.parked \in Seq(Senders) /\ b \in Nat
    BY <1>1, Limits DEF Sends, Buffered
  <2>5. x \in Messages
    BY <1>1, <1>2, ScanTaskType
  <2>6. outCh' = Put(outCh, e, x)
    BY <2>1
  <2> HIDE DEF b, S, x
  <2>7. Flushed(outCh, e) /\ \A i \in DOMAIN outCh.parked : outCh.parked[i] \in S
    BY <2>2, <2>3, <2>4 DEF Flushed
  <2>8. Buffered(outCh, b, S)
    BY <2>4, <2>7, BufferedFor
  <2>9. Buffered(Put(outCh, e, x), b, S)
    BY <1>1, <2>2, <2>4, <2>5, <2>7, <2>8, PutBuffered
  <2>10. Buffered(outCh', scan.limitEntries, Senders')
    BY <2>6, <2>9 DEF b, S
  <2> QED
    BY <1>1, <2>1, <2>10, SendsFrom DEF EntryDone
<1>4. CASE ~outCh.open
  <2>1. outCh' = outCh /\ at' = [at EXCEPT ![e] = "failed"]
    BY <1>4 DEF SendTask
  <2>2. Buffered(outCh', scan.limitEntries, Senders')
    BY <1>1, <2>1, SendersStay
  <2> QED
    BY <1>1, <2>1, <2>2, SendsFrom DEF EntryDone
<1> QED
  BY <1>3, <1>4

LEMMA TaskSentSends ==
    ASSUME SInv, Sends, [Next]_vars, NEW e \in Entries, TaskSent(e)
    PROVE  Sends'
<1> USE SameScan
<1>1. /\ Flushed(outCh, e) /\ at' = [at EXCEPT ![e] = "done"] /\ outCh' = outCh
      /\ UNCHANGED task /\ at \in [Entries -> EntryStates] /\ Types /\ at[e] = "flushing"
  BY DEF TaskSent, SInv, Types
<1>2. Senders \ {e} \subseteq Senders'
  BY <1>1, KindsOfEntries DEF Senders, Flushing, Reporting
<1>3. Buffered(outCh, scan.limitEntries, Senders) /\ outCh.parked \in Seq(Senders)
  BY DEF Sends, Buffered
<1>4. \A i \in DOMAIN outCh.parked : outCh.parked[i] \in Senders'
  BY <1>1, <1>2, <1>3 DEF Flushed
<1>5. Buffered(outCh', scan.limitEntries, Senders')
  BY <1>1, <1>3, <1>4, BufferedFor
<1> QED
  BY <1>1, <1>5, SendsFrom DEF EntryDone

LEMMA TakeDataSends ==
    ASSUME SInv, Queued, Sends, [Next]_vars, TakeData
    PROVE  Sends'
<1> USE SameScan
<1> DEFINE h == Head(dataCh.queue)
<1>1. /\ Types /\ dataCh.queue # << >> /\ RoomFor(DataEntries)
      /\ at' = [at EXCEPT ![h] = "running"] /\ UNCHANGED <<outCh, task>>
      /\ at \in [Entries -> EntryStates] /\ IsChannel(dataCh, DataEntries)
      /\ scan.limitEntries \in Nat
  BY Limits DEF SInv, Types, TakeData
<1>2. h \in DataEntries /\ InQueue(dataCh, h)
  BY <1>1, TakeChannel
<1>3. at[h] = "queued"
  BY <1>2 DEF Queued, InQueue
<1> HIDE DEF h
<1>4. Buffered(outCh', scan.limitEntries, Senders')
  BY <1>1, <1>3, SendersStay
<1>5. IsFiniteSet(Working') /\ Cardinality(Working') <= scan.limitEntries
  <2>1. Working' = Working \cup {h}
    BY <1>1, <1>2, KindsOfEntries DEF Working, EntryDone
  <2>2. IsFiniteSet(Working) /\ Cardinality(Working) < scan.limitEntries
    BY <1>1 DEF Sends, RoomFor, Working
  <2>3. /\ Cardinality(Working) \in Nat /\ IsFiniteSet(Working \cup {h})
        /\ Cardinality(Working \cup {h}) \in {Cardinality(Working), Cardinality(Working) + 1}
    BY <2>2, FS_AddElement, FS_CardinalityType
  <2> QED
    BY <1>1, <2>1, <2>2, <2>3
<1>6. task'["planner"] \in {"failed", "reporting"} => \E e \in DataEntries : at'[e] = "failed"
  BY <1>1, <1>3 DEF Sends
<1> QED
  BY <1>4, <1>5, <1>6 DEF Sends

LEMMA ReceiveSends ==
    ASSUME SInv, Sends, [Next]_vars, Receive \/ DropScan
    PROVE  Sends'
<1> USE SameScan
<1>1. /\ Types /\ UNCHANGED <<task, at>> /\ IsChannel(outCh, Messages)
      /\ \/ outCh.queue # << >> /\ outCh' = Take(outCh)
         \/ outCh' = Close(outCh)
  BY DEF SInv, Types, Receive, DropScan, entryVars
<1>2. Senders' = Senders
  BY <1>1 DEF Senders, Flushing, Reporting
<1>3. scan.limitEntries \in Nat /\ Buffered(outCh, scan.limitEntries, Senders)
  BY <1>1, Limits DEF Sends, Types
<1>4. Buffered(outCh', scan.limitEntries, Senders)
  BY <1>1, <1>3, TakeBuffered, CloseBuffered
<1> QED
  BY <1>1, <1>2, <1>4, SendsFrom

(* What only moves entries or tasks on that nobody waits for. *)
LEMMA QuietSends ==
    ASSUME Types, Places, Sends, [Next]_vars, outCh' = outCh,
           UNCHANGED task \/ (\E t \in Tasks : task[t] \in {"running", "idle"} /\
               \E s \in {"running", "done"} : task' = [task EXCEPT ![t] = s]),
           \A e \in DataEntries :
               \/ at'[e] = at[e]
               \/ at[e] = "unread" /\ at'[e] \in EntryDone
               \/ at[e] \in {"running", "looked", "waiting"}
    PROVE  Sends'
<1>1. task \in [Tasks -> TaskStates]
  BY DEF Types
<1>2. /\ \A t \in Tasks : task[t] = "reporting" => task'[t] = "reporting"
      /\ task'["planner"] \in {"failed", "reporting"} =>
            task["planner"] \in {"failed", "reporting"}
  BY <1>1 DEF Tasks
<1>3. /\ \A e \in DataEntries : at[e] = "flushing" => at'[e] = "flushing"
      /\ \A e \in DataEntries : at[e] = "failed" => at'[e] = "failed"
      /\ \A e \in DataEntries : at'[e] \notin EntryDone => at[e] \notin EntryDone
  BY DEF EntryDone
<1>4. Buffered(outCh', scan.limitEntries, Senders')
  BY <1>2, <1>3, SendersStay
<1> QED
  BY <1>2, <1>3, <1>4, SendsFrom

LEMMA SendsStep ==
    ASSUME SInv, Loads, Queued, Sends, [Next]_vars
    PROVE  Sends'
<1> USE SameScan
<1>1. /\ Types /\ Places /\ scan \in Scans /\ at \in [Entries -> EntryStates]
      /\ task \in [Tasks -> TaskStates]
  BY DEF SInv, Types
<1>2. CASE StartManifest \/ (\E m \in Manifests : FinishManifest(m)) \/ StreamEnds
           \/ UNCHANGED vars
  BY <1>1, <1>2, QuietSends DEF StartManifest, FinishManifest, StreamEnds, entryVars, vars
<1>3. CASE LoaderEnds \/ DeleterEnds \/ PlannerEnds
  <2>1. /\ UNCHANGED <<outCh, at>>
        /\ \E t \in Tasks : task[t] = "running" /\ task' = [task EXCEPT ![t] = "done"]
    BY <1>3 DEF LoaderEnds, DeleterEnds, PlannerEnds, entryVars, Tasks
  <2> QED
    BY <1>1, <2>1, QuietSends
<1>4. CASE ReturnStream
  <2>1. task["planner"] = "idle"
    BY <1>1, <1>4 DEF Places, ReturnStream
  <2>2. UNCHANGED <<outCh, at>> /\ task' = [task EXCEPT !["planner"] = "running"]
    BY <1>4 DEF ReturnStream, entryVars
  <2> QED
    BY <1>1, <2>1, <2>2, QuietSends DEF Tasks
<1>5. ASSUME NEW m \in Manifests, StreamEntry(m) PROVE Sends'
  <2> DEFINE e == <<m, sent'[m]>>
  <2>1. /\ sent[m] < Len(list[m].entries) /\ sent' = [sent EXCEPT ![m] = @ + 1]
        /\ at' = [at EXCEPT ![e] = "queued"] /\ UNCHANGED <<outCh, task>>
    BY <1>5 DEF StreamEntry
  <2>2. sent'[m] = sent[m] + 1 /\ sent[m] \in Nat
    BY <1>1, <2>1 DEF Types
  <2>3. e \in Entries /\ e[1] = m /\ e[2] = sent[m] + 1
    <3>1. sent'[m] \in DOMAIN list[m].entries
      BY <1>1, <2>1, <2>2, ListShape
    <3> QED
      BY <2>2, <3>1, EntryIs
  <2>4. at[e] = "unread"
    BY <1>1, <2>2, <2>3 DEF Places
  <2> HIDE DEF e
  <2>5. \A x \in DataEntries : at'[x] = at[x] \/ (at[x] = "unread" /\ at'[x] = "queued")
    BY <1>1, <2>1, <2>3, <2>4, KindsOfEntries
  <2> QED
    BY <1>1, <2>1, <2>5, QuietSends DEF EntryDone
<1>6. CASE LoaderFails
  <2>1. Fails("loader") /\ task["loader"] = "running" /\ "loader" \in Tasks /\ UNCHANGED at
    BY <1>6 DEF LoaderFails, Loads, Tasks, entryVars
  <2> QED
    BY <1>1, <2>1, ErrorSends
<1>7. CASE DeleterFails
  <2>1. Fails("deleter") /\ task["deleter"] = "running" /\ "deleter" \in Tasks /\ UNCHANGED at
    BY <1>7 DEF DeleterFails, Tasks, entryVars
  <2> QED
    BY <1>1, <2>1, ErrorSends
<1>8. CASE PlannerFails
  <2>1. /\ Fails("planner") /\ task["planner"] = "running" /\ "planner" \in Tasks
        /\ UNCHANGED at /\ \E e \in DataEntries : at[e] = "failed"
    BY <1>8 DEF PlannerFails, Tasks, entryVars
  <2> QED
    BY <1>1, <2>1, ErrorSends
<1>9. ASSUME NEW t \in Tasks, TaskStep(t) PROVE Sends'
  <2>1. CASE Report(t)
    <3>1. task[t] = "failed" /\ SendError(t) /\ UNCHANGED at
      BY <2>1 DEF Report, entryVars
    <3> QED
      BY <1>1, <3>1, ErrorSends
  <2>2. CASE Reported(t)
    BY <1>1, <2>2, ReportedSends
  <2> QED
    BY <1>9, <2>1, <2>2 DEF TaskStep
<1>10. ASSUME NEW e \in Entries, EntryStep(e) PROVE Sends'
  <2>1. CASE SendTask(e)
    BY <2>1, SendTaskSends
  <2>2. CASE TaskSent(e)
    BY <2>2, TaskSentSends
  <2>3. CASE ProcessDelete(e)
    <3>1. UNCHANGED <<outCh, task>> /\ \A x \in DataEntries : at'[x] = at[x]
      BY <1>1, <2>3, KindsOfEntries DEF ProcessDelete
    <3> QED
      BY <1>1, <3>1, QuietSends
  <2>4. CASE ProcessData(e) \/ WaitForIndex(e)
    <3>1. /\ UNCHANGED <<outCh, task>> /\ at[e] \in {"running", "looked"}
          /\ \E p : at' = [at EXCEPT ![e] = p]
      BY <2>4 DEF ProcessData, WaitForIndex
    <3>2. \A x \in DataEntries : x # e => at'[x] = at[x]
      BY <1>1, <3>1, KindsOfEntries
    <3> QED
      BY <1>1, <3>1, <3>2, QuietSends
  <2> QED
    BY <1>10, <2>1, <2>2, <2>3, <2>4 DEF EntryStep
<1>11. CASE TakeDelete
  <2> DEFINE h == Head(deleteCh.queue)
  <2>1. h \in DeleteEntries
    BY <1>1, <1>11, TakeChannel DEF TakeDelete, Types
  <2>2. UNCHANGED <<outCh, task>> /\ \A x \in DataEntries : at'[x] = at[x]
    BY <1>1, <1>11, <2>1, KindsOfEntries DEF TakeDelete
  <2> QED
    BY <1>1, <2>2, QuietSends
<1>12. CASE PopulateIndex
  <2>1. /\ UNCHANGED <<outCh, task>>
        /\ \A x \in DataEntries : at'[x] = at[x] \/ at[x] = "waiting"
    BY <1>1, <1>12, KindsOfEntries DEF PopulateIndex
  <2> QED
    BY <1>1, <2>1, QuietSends
<1>13. CASE TakeData
  BY <1>13, TakeDataSends
<1>14. CASE Receive \/ DropScan
  BY <1>14, ReceiveSends
<1> QED
  BY <1>2, <1>3, <1>4, <1>5, <1>6, <1>7, <1>8, <1>9, <1>10, <1>11, <1>12, <1>13, <1>14
  DEF Next, Progress, LoaderStep

-----------------------------------------------------------------------------
(* Data entries wait in the channel once. *)
LEMMA QueuedKept ==
    ASSUME Types, Queued, [Next]_vars, dataCh' = dataCh,
           \A e \in DataEntries : at[e] = "queued" => at'[e] = "queued"
    PROVE  Queued'
<1>1. \A i \in DOMAIN dataCh.queue : dataCh.queue[i] \in DataEntries
  BY DEF Types, IsChannel
<1> QED
  BY <1>1 DEF Queued

LEMMA QueuedStep ==
    ASSUME SInv, Queued, [Next]_vars
    PROVE  Queued'
<1> USE SameScan
<1>1. /\ Types /\ Places /\ at \in [Entries -> EntryStates] /\ IsChannel(dataCh, DataEntries)
      /\ dataCh.queue \in Seq(DataEntries)
  BY DEF SInv, Types, IsChannel
<1>2. CASE TakeData
  <2> DEFINE h == Head(dataCh.queue)
             q == dataCh.queue
             r == dataCh'.queue
  <2>1. dataCh' = Take(dataCh) /\ q # << >> /\ at' = [at EXCEPT ![h] = "running"]
    BY <1>2 DEF TakeData
  <2>2. r = Tail(q) /\ h = q[1]
    BY <1>1, <2>1, TakeChannel
  <2>3. 1 \in DOMAIN q /\ \A i \in DOMAIN r : i \in Nat /\ i >= 1 /\ i + 1 \in DOMAIN q /\ r[i] = q[i + 1]
    <3> HIDE DEF h
    <3> QED
      BY <1>1, <2>1, <2>2
  <2> HIDE DEF h, q, r
  <2>4. Distinct(q) /\ \A i \in DOMAIN q : at[q[i]] = "queued" /\ q[i] \in Entries
    BY <1>1, KindsOfEntries DEF Queued, q
  <2>5. Distinct(r)
    <3> SUFFICES ASSUME NEW i \in DOMAIN r, NEW j \in DOMAIN r, r[i] = r[j] PROVE i = j
      BY DEF Distinct
    <3>1. i + 1 = j + 1
      BY <2>3, <2>4 DEF Distinct
    <3> QED
      BY <2>3, <3>1
  <2>6. \A i \in DOMAIN r : at'[r[i]] = "queued"
    <3> SUFFICES ASSUME NEW i \in DOMAIN r PROVE at'[r[i]] = "queued"
      OBVIOUS
    <3> DEFINE k == i + 1
    <3>1. k \in DOMAIN q /\ k # 1 /\ r[i] = q[k]
      BY <2>3
    <3> HIDE DEF k
    <3>2. q[k] # h
      BY <2>2, <2>3, <2>4, <3>1 DEF Distinct
    <3> QED
      BY <1>1, <2>1, <2>4, <3>1, <3>2
  <2> QED
    BY <2>5, <2>6 DEF Queued, r
<1>3. ASSUME NEW m \in Manifests, StreamEntry(m) PROVE Queued'
  <2> DEFINE e == <<m, sent'[m]>>
             q == dataCh.queue
  <2>1. /\ sent[m] < Len(list[m].entries) /\ sent' = [sent EXCEPT ![m] = @ + 1]
        /\ at' = [at EXCEPT ![e] = "queued"] /\ SetChannelOf(m, Put(ChannelOf(m), m, e))
    BY <1>3 DEF StreamEntry
  <2>2. sent'[m] = sent[m] + 1 /\ sent[m] \in Nat
    BY <1>1, <2>1 DEF Types
  <2>3. e \in Entries /\ e[1] = m /\ e[2] = sent[m] + 1
    <3>1. sent'[m] \in DOMAIN list[m].entries
      BY <1>1, <2>1, <2>2, ListShape DEF Types
    <3> QED
      BY <2>2, <3>1, EntryIs
  <2>4. at[e] = "unread"
    BY <1>1, <2>2, <2>3 DEF Places
  <2> HIDE DEF e
  <2>5. at'[e] = "queued" /\ \A x \in Entries : x # e => at'[x] = at[x]
    BY <1>1, <2>1, <2>3
  <2>6. CASE dataCh' = dataCh
    BY <1>1, <2>5, <2>6, QueuedKept, KindsOfEntries
  <2>7. CASE dataCh' = Put(dataCh, m, e) /\ ~IsDelete(m)
    <3>1. e \in DataEntries
      BY <2>3, <2>7, KindsOfEntries
    <3>2. dataCh'.queue = Append(q, e)
      BY <1>1, <2>7, <3>1, PutChannel
    <3> DEFINE r == dataCh'.queue
    <3>3. \A i \in DOMAIN r : \/ i = Len(q) + 1 /\ r[i] = e
                              \/ i \in DOMAIN q /\ r[i] = q[i]
      BY <1>1, <3>2
    <3> HIDE DEF q, r
    <3>4. Distinct(q) /\ \A i \in DOMAIN q : at[q[i]] = "queued" /\ q[i] \in Entries
      BY <1>1, KindsOfEntries DEF Queued, q
    <3>5. \A i \in DOMAIN q : q[i] # e
      BY <2>4, <3>4
    <3>6. Distinct(r)
      BY <3>3, <3>4, <3>5 DEF Distinct
    <3>7. \A i \in DOMAIN r : at'[r[i]] = "queued"
      BY <2>5, <3>3, <3>4
    <3> QED
      BY <3>6, <3>7 DEF Queued, r
  <2> QED
    BY <2>1, <2>6, <2>7 DEF SetChannelOf, ChannelOf
<1>4. CASE PlannerFails \/ DropScan
  <2>1. UNCHANGED at /\ (dataCh' = dataCh \/ dataCh' = Close(dataCh))
    BY <1>4 DEF PlannerFails, DropScan, entryVars
  <2>2. CASE dataCh' = Close(dataCh)
    <3>1. dataCh'.queue = << >>
      BY <1>1, <2>2, CloseChannel
    <3> QED
      BY <3>1 DEF Queued, Distinct
  <2> QED
    BY <1>1, <2>1, <2>2, QueuedKept
<1>5. ASSUME NEW e \in Entries, EntryStep(e) PROVE Queued'
  <2>1. dataCh' = dataCh /\ at[e] # "queued" /\ \E p : at' = [at EXCEPT ![e] = p]
    <3>1. CASE SendTask(e)
      <4>1. at' = [at EXCEPT ![e] = at'[e]]
        BY <1>1, <3>1 DEF SendTask
      <4> QED
        BY <3>1, <4>1 DEF SendTask
    <3> QED
      BY <1>5, <3>1 DEF EntryStep, ProcessDelete, ProcessData, WaitForIndex, TaskSent
  <2>2. \A x \in DataEntries : at[x] = "queued" => at'[x] = "queued"
    BY <1>1, <2>1, KindsOfEntries
  <2> QED
    BY <1>1, <2>1, <2>2, QueuedKept
<1>6. CASE TakeDelete
  <2> DEFINE h == Head(deleteCh.queue)
  <2>1. h \in DeleteEntries
    BY <1>1, <1>6, TakeChannel DEF TakeDelete, Types
  <2>2. UNCHANGED dataCh /\ \A x \in DataEntries : at'[x] = at[x]
    BY <1>1, <1>6, <2>1, KindsOfEntries DEF TakeDelete
  <2> QED
    BY <1>1, <2>2, QueuedKept
<1>7. CASE PopulateIndex
  <2>1. UNCHANGED dataCh /\ \A x \in DataEntries : at[x] = "queued" => at'[x] = "queued"
    BY <1>1, <1>7, KindsOfEntries DEF PopulateIndex
  <2> QED
    BY <1>1, <2>1, QueuedKept
<1>8. CASE UNCHANGED <<dataCh, at>>
  BY <1>1, <1>8, QueuedKept
<1>9. \/ UNCHANGED <<dataCh, at>> \/ TakeData \/ PlannerFails \/ DropScan \/ TakeDelete
      \/ PopulateIndex \/ (\E m \in Manifests : StreamEntry(m))
      \/ \E e \in Entries : EntryStep(e)
  BY DEF Next, Progress, LoaderStep, StartManifest, LoaderFails, LoaderEnds, FinishManifest,
     DeleterFails, DeleterEnds, ReturnStream, PlannerEnds, TaskStep, Report, Reported, Receive,
     StreamEnds, entryVars, vars
<1> QED
  BY <1>2, <1>3, <1>4, <1>5, <1>6, <1>7, <1>8, <1>9

-----------------------------------------------------------------------------
(* Errors. *)
LEMMA FiniteErrors ==
    ASSUME NEW M, NEW q \in Seq(M)
    PROVE  IsFiniteSet(ErrorsIn(q)) /\ Cardinality(ErrorsIn(q)) \in Nat
<1>1. IsFiniteSet(1 .. Len(q)) /\ ErrorsIn(q) \subseteq 1 .. Len(q)
  BY FS_Interval DEF ErrorsIn
<1> QED
  BY <1>1, FS_Subset, FS_CardinalityType

LEMMA AppendError ==
    ASSUME NEW M, NEW q \in Seq(M), NEW x \in M
    PROVE  Cardinality(ErrorsIn(Append(q, x))) =
               IF x = Error THEN Cardinality(ErrorsIn(q)) + 1 ELSE Cardinality(ErrorsIn(q))
<1> DEFINE n == Len(q) + 1
           r == Append(q, x)
<1>1. /\ DOMAIN r = DOMAIN q \cup {n} /\ r[n] = x /\ n \notin DOMAIN q
      /\ \A i \in DOMAIN q : r[i] = q[i]
  OBVIOUS
<1> HIDE DEF n, r
<1>2. ErrorsIn(r) = IF x = Error THEN ErrorsIn(q) \cup {n} ELSE ErrorsIn(q)
  BY <1>1 DEF ErrorsIn
<1>3. n \notin ErrorsIn(q)
  BY <1>1 DEF ErrorsIn
<1>4. IsFiniteSet(ErrorsIn(q))
  BY FiniteErrors
<1> QED
  BY <1>2, <1>3, <1>4, FS_AddElement DEF r

LEMMA TakeError ==
    ASSUME NEW M, NEW q \in Seq(M), q # << >>
    PROVE  Cardinality(ErrorsIn(Tail(q))) <=
               IF Head(q) = Error THEN Cardinality(ErrorsIn(q)) - 1 ELSE Cardinality(ErrorsIn(q))
<1> DEFINE r == Tail(q)
           E == ErrorsIn(r)
           T == ErrorsIn(q) \ {1}
           f == [i \in E |-> i + 1]
<1>1. /\ \A i \in DOMAIN r : i \in Nat /\ i >= 1 /\ i + 1 \in DOMAIN q /\ r[i] = q[i + 1]
      /\ Head(q) = q[1] /\ 1 \in DOMAIN q
  OBVIOUS
<1> HIDE DEF r
<1>2. \A i \in E : i \in Nat /\ i + 1 \in T
  <2> SUFFICES ASSUME NEW i \in E PROVE i \in Nat /\ i + 1 \in T
    OBVIOUS
  <2>1. i \in DOMAIN r /\ r[i] = Error
    BY DEF ErrorsIn
  <2>2. i \in Nat /\ i >= 1 /\ i + 1 \in DOMAIN q /\ q[i + 1] = Error
    BY <1>1, <2>1
  <2> QED
    BY <2>2 DEF ErrorsIn
<1>3. f \in Injection(E, T)
  <2> HIDE DEF E, T
  <2> QED
    BY <1>2 DEF Injection, IsInjective
<1>4. IsFiniteSet(ErrorsIn(q)) /\ Cardinality(ErrorsIn(q)) \in Nat
  BY FiniteErrors
<1>5. IsFiniteSet(T) /\ Cardinality(T) =
          IF 1 \in ErrorsIn(q) THEN Cardinality(ErrorsIn(q)) - 1 ELSE Cardinality(ErrorsIn(q))
  BY <1>4, FS_RemoveElement
<1>6. 1 \in ErrorsIn(q) <=> Head(q) = Error
  BY <1>1 DEF ErrorsIn
<1>7. Cardinality(E) <= Cardinality(T)
  <2> HIDE DEF E, T, f
  <2> QED
    BY <1>3, <1>5, FS_Injection
<1> QED
  BY <1>5, <1>6, <1>7 DEF r

LEMMA ReportsFrom ==
    ASSUME Types, Reports, Types', Silent' \subseteq Silent,
           errors' + Cardinality(ErrorsIn(outCh'.queue)) <=
               errors + Cardinality(ErrorsIn(outCh.queue))
    PROVE  Reports'
<1>1. IsFiniteSet(Silent)
  BY Limits, FS_Subset DEF Silent, Types
<1>2. /\ Cardinality(Silent') \in Nat /\ Cardinality(Silent) \in Nat
      /\ Cardinality(Silent') <= Cardinality(Silent)
  BY <1>1, FS_Subset, FS_CardinalityType
<1>3. /\ errors \in Nat /\ errors' \in Nat
      /\ Cardinality(ErrorsIn(outCh.queue)) \in Nat /\ Cardinality(ErrorsIn(outCh'.queue)) \in Nat
  BY FiniteErrors DEF Types, IsChannel
<1> QED
  BY <1>2, <1>3 DEF Reports

(* A task that gives up spends its one error, or keeps it for later. *)
LEMMA ErrorReports ==
    ASSUME Types, Reports, Types', NEW t \in Tasks, task[t] \in {"running", "failed"},
           SendError(t) \/ Fails(t), UNCHANGED errors
    PROVE  Reports'
<1>1. /\ task \in [Tasks -> TaskStates] /\ IsChannel(outCh, Messages)
      /\ outCh.queue \in Seq(Messages) /\ errors \in Nat
  BY DEF Types, IsChannel
<1>2. CASE task' = [task EXCEPT ![t] = "failed"] /\ UNCHANGED outCh
  <2>1. Silent' \subseteq Silent
    BY <1>1, <1>2 DEF Silent
  <2> QED
    BY <1>1, <1>2, <2>1, ReportsFrom, FiniteErrors
<1>3. CASE task' = [task EXCEPT ![t] = "done"] /\ UNCHANGED outCh
  <2>1. Silent' \subseteq Silent
    BY <1>1, <1>3 DEF Silent
  <2> QED
    BY <1>1, <1>3, <2>1, ReportsFrom, FiniteErrors
<1>4. CASE outCh' = Put(outCh, <<t>>, Error) /\ task' = [task EXCEPT ![t] = "reporting"]
  <2>1. Silent' = Silent \ {t} /\ t \in Silent
    BY <1>1, <1>4 DEF Silent
  <2>2. IsFiniteSet(Silent)
    BY Limits, FS_Subset DEF Silent, Types
  <2>3. Cardinality(Silent') = Cardinality(Silent) - 1 /\ Cardinality(Silent) \in Nat
    BY <2>1, <2>2, FS_RemoveElement, FS_CardinalityType
  <2>4. Error \in Messages
    BY DEF Messages
  <2>5. outCh'.queue = Append(outCh.queue, Error)
    BY <1>1, <1>4, <2>4, PutChannel
  <2>6. /\ Cardinality(ErrorsIn(outCh'.queue)) = Cardinality(ErrorsIn(outCh.queue)) + 1
        /\ Cardinality(ErrorsIn(outCh.queue)) \in Nat
    BY <1>1, <2>4, <2>5, AppendError, FiniteErrors
  <2> QED
    BY <1>1, <2>3, <2>6 DEF Reports
<1> QED
  BY <1>2, <1>3, <1>4 DEF SendError, Fails

LEMMA ReportsStep ==
    ASSUME SInv, SInv', Loads, Reports, [Next]_vars
    PROVE  Reports'
<1> USE SameScan
<1>1. /\ Types /\ Types' /\ Places /\ task \in [Tasks -> TaskStates]
      /\ IsChannel(outCh, Messages) /\ outCh.queue \in Seq(Messages) /\ errors \in Nat
      /\ Cardinality(ErrorsIn(outCh.queue)) \in Nat
  <2>1. Types /\ Types' /\ Places
    BY DEF SInv
  <2> QED
    BY <2>1, FiniteErrors DEF Types, IsChannel
<1>2. CASE LoaderFails
  <2>1. Fails("loader") /\ task["loader"] = "running" /\ "loader" \in Tasks /\ UNCHANGED errors
    BY <1>2 DEF LoaderFails, Loads, Tasks, callerVars
  <2> QED
    BY <1>1, <2>1, ErrorReports
<1>3. CASE DeleterFails
  <2>1. Fails("deleter") /\ task["deleter"] = "running" /\ "deleter" \in Tasks /\ UNCHANGED errors
    BY <1>3 DEF DeleterFails, Tasks, callerVars
  <2> QED
    BY <1>1, <2>1, ErrorReports
<1>4. CASE PlannerFails
  <2>1. Fails("planner") /\ task["planner"] = "running" /\ "planner" \in Tasks /\ UNCHANGED errors
    BY <1>4 DEF PlannerFails, Tasks, callerVars
  <2> QED
    BY <1>1, <2>1, ErrorReports
<1>5. ASSUME NEW t \in Tasks, Report(t) PROVE Reports'
  <2>1. SendError(t) /\ task[t] = "failed" /\ UNCHANGED errors
    BY <1>5 DEF Report, callerVars
  <2> QED
    BY <1>1, <2>1, ErrorReports
<1>6. ASSUME NEW e \in Entries, SendTask(e) PROVE Reports'
  <2>1. /\ UNCHANGED <<task, errors>> /\ at[e] = "ready"
        /\ outCh' = outCh \/ outCh' = Put(outCh, e, ScanTask(e))
    BY <1>6 DEF SendTask, callerVars
  <2>2. e \in DataEntries
    BY <1>1, <2>1, KindsOfEntries DEF Places
  <2>3. ScanTask(e) \in Messages /\ ScanTask(e) # Error
    BY <1>1, <2>2, ScanTaskType
  <2>4. Cardinality(ErrorsIn(outCh'.queue)) = Cardinality(ErrorsIn(outCh.queue))
    <3>1. CASE outCh' = outCh
      BY <3>1
    <3>2. CASE outCh' = Put(outCh, e, ScanTask(e))
      <4>1. outCh'.queue = Append(outCh.queue, ScanTask(e))
        BY <1>1, <2>3, <3>2, PutChannel
      <4> QED
        BY <1>1, <2>3, <4>1, AppendError
    <3> QED
      BY <2>1, <3>1, <3>2
  <2>5. Silent' = Silent
    BY <2>1 DEF Silent
  <2> QED
    BY <1>1, <2>1, <2>4, <2>5, ReportsFrom
<1>7. CASE Receive
  <2>1. /\ outCh.queue # << >> /\ outCh' = Take(outCh) /\ UNCHANGED task
        /\ errors' = IF Head(outCh.queue) = Error THEN errors + 1 ELSE errors
    BY <1>7 DEF Receive
  <2>2. outCh'.queue = Tail(outCh.queue)
    BY <1>1, <2>1, TakeChannel
  <2>3. /\ Cardinality(ErrorsIn(outCh'.queue)) <=
               IF Head(outCh.queue) = Error THEN Cardinality(ErrorsIn(outCh.queue)) - 1
               ELSE Cardinality(ErrorsIn(outCh.queue))
        /\ Cardinality(ErrorsIn(outCh'.queue)) \in Nat
    BY <1>1, <2>1, <2>2, TakeError, FiniteErrors DEF Types, IsChannel
  <2>4. errors' + Cardinality(ErrorsIn(outCh'.queue)) <=
            errors + Cardinality(ErrorsIn(outCh.queue))
    BY <1>1, <2>1, <2>3
  <2>5. Silent' = Silent
    BY <2>1 DEF Silent
  <2> QED
    BY <1>1, <2>4, <2>5, ReportsFrom
<1>8. CASE DropScan
  <2>1. outCh' = Close(outCh) /\ UNCHANGED <<task, errors>>
    BY <1>8 DEF DropScan
  <2>2. outCh'.queue = << >>
    BY <1>1, <2>1, CloseChannel
  <2>3. ErrorsIn(outCh'.queue) = {}
    BY <2>2 DEF ErrorsIn
  <2>4. Cardinality(ErrorsIn(outCh'.queue)) = 0
    BY <2>3, FS_EmptySet
  <2>5. Silent' = Silent
    BY <2>1 DEF Silent
  <2> QED
    BY <1>1, <2>1, <2>4, <2>5, ReportsFrom
<1>9. CASE UNCHANGED <<outCh, errors>> /\ Silent' \subseteq Silent
  BY <1>1, <1>9, ReportsFrom
<1>10. CASE LoaderEnds \/ DeleterEnds \/ PlannerEnds \/ (\E t \in Tasks : Reported(t))
  <2>1. UNCHANGED <<outCh, errors>> /\ \E t \in Tasks : task' = [task EXCEPT ![t] = "done"]
    BY <1>10 DEF LoaderEnds, DeleterEnds, PlannerEnds, Reported, callerVars, Tasks
  <2>2. Silent' \subseteq Silent
    BY <1>1, <2>1 DEF Silent
  <2> QED
    BY <1>9, <2>1, <2>2
<1>11. CASE ReturnStream
  <2>1. UNCHANGED <<outCh, errors>> /\ task' = [task EXCEPT !["planner"] = "running"]
        /\ task["planner"] = "idle"
    BY <1>1, <1>11 DEF ReturnStream, Places
  <2>2. Silent' \subseteq Silent
    BY <1>1, <2>1 DEF Silent
  <2> QED
    BY <1>9, <2>1, <2>2
<1>12. CASE UNCHANGED <<outCh, errors, task>>
  <2>1. Silent' = Silent
    BY <1>12 DEF Silent
  <2> QED
    BY <1>9, <1>12, <2>1
<1>13. \/ UNCHANGED <<outCh, errors, task>> \/ LoaderFails \/ DeleterFails \/ PlannerFails
       \/ Receive \/ DropScan \/ LoaderEnds \/ DeleterEnds \/ PlannerEnds \/ ReturnStream
       \/ (\E t \in Tasks : Report(t) \/ Reported(t))
       \/ \E e \in Entries : SendTask(e)
  BY DEF Next, Progress, LoaderStep, StartManifest, StreamEntry, FinishManifest, TakeDelete,
     PopulateIndex, TakeData, EntryStep, ProcessDelete, ProcessData, WaitForIndex, TaskSent,
     TaskStep, StreamEnds, callerVars, vars
<1> QED
  BY <1>2, <1>3, <1>4, <1>5, <1>6, <1>7, <1>8, <1>10, <1>11, <1>12, <1>13

-----------------------------------------------------------------------------
LEMMA StartsBounded == Init => BInv
<1> SUFFICES ASSUME Init PROVE BInv
  OBVIOUS
<1>1. /\ scan \in Scans /\ todo \in DeletesFirst(list) /\ loading = {}
      /\ sent = [m \in Manifests |-> 0]
      /\ task = [t \in Tasks |-> IF t = "planner" THEN "idle" ELSE "running"]
      /\ at = [e \in Entries |-> "unread"] /\ received = {} /\ errors = 0
      /\ dataCh = NewChannel(scan.limitManifests) /\ deleteCh = NewChannel(scan.limitManifests)
      /\ outCh = NewChannel(scan.limitEntries)
  BY DEF Init
<1>2. /\ scan.limitManifests \in Nat /\ scan.limitEntries \in Nat /\ IsFiniteSet(Tasks)
      /\ Len(list) \in Nat /\ DOMAIN list = 1 .. Len(list)
      /\ \A m \in Manifests : Len(list[m].entries) \in Nat
  BY <1>1, Limits, ListShape DEF Manifests
<1>3. Loads
  <2>1. Distinct(todo)
    <3> SUFFICES ASSUME NEW i \in 1 .. Len(list), NEW j \in 1 .. Len(list), todo[i] = todo[j]
                 PROVE  i = j
      BY <1>1, <1>2 DEF Distinct, DeletesFirst
    <3>1. \A k, l \in 1 .. Len(list) : k < l =>
              \/ list[todo[k]].content = "deletes" /\ list[todo[l]].content # "deletes"
              \/ list[todo[k]].content = list[todo[l]].content /\ todo[k] < todo[l]
      BY <1>1, <1>2 DEF DeletesFirst
    <3>2. todo[i] \in 1 .. Len(list)
      BY <1>1, <1>2 DEF DeletesFirst
    <3> QED
      BY <1>2, <3>1, <3>2
  <2>2. Cardinality(loading) <= scan.limitManifests
    BY <1>1, <1>2, FS_EmptySet
  <2> QED
    BY <1>1, <1>2, <2>1, <2>2 DEF Loads
<1>4. \A b \in Nat : \A S : Buffered(NewChannel(b), b, S) /\ Len(NewChannel(b).parked) = 0
                            /\ DOMAIN NewChannel(b).parked = {} /\ NewChannel(b).queue = << >>
  BY DEF Buffered, NewChannel, Distinct
<1>5. Streams(dataCh, DataManifests) /\ Streams(deleteCh, DeleteManifests)
  BY <1>1, <1>2, <1>4 DEF Streams
<1>6. Queued
  <2>1. dataCh.queue = << >>
    BY <1>1, <1>2, <1>4
  <2> QED
    BY <2>1 DEF Queued, Distinct
<1>7. Sends
  <2>1. Working = {}
    BY <1>1, KindsOfEntries DEF Working, EntryDone
  <2>2. IsFiniteSet(Working) /\ Cardinality(Working) <= scan.limitEntries
    BY <1>2, <2>1, FS_EmptySet
  <2>3. task["planner"] = "idle"
    BY <1>1 DEF Tasks
  <2> QED
    BY <1>1, <1>2, <1>4, <2>2, <2>3 DEF Sends
<1>8. Reports
  <2>1. outCh.queue = << >>
    BY <1>1, <1>2, <1>4
  <2>2. ErrorsIn(outCh.queue) = {}
    BY <2>1 DEF ErrorsIn
  <2>3. Cardinality(Tasks) = 3
    <3>1. Tasks = {"loader", "deleter"} \cup {"planner"} /\ "planner" \notin {"loader", "deleter"}
      BY DEF Tasks
    <3>2. {"loader", "deleter"} = {"loader"} \cup {"deleter"} /\ "deleter" \notin {"loader"}
      OBVIOUS
    <3>3. IsFiniteSet({"loader"}) /\ Cardinality({"loader"}) = 1
      BY FS_Singleton
    <3>4. IsFiniteSet({"loader", "deleter"}) /\ Cardinality({"loader", "deleter"}) = 2
      BY <3>2, <3>3, FS_AddElement
    <3> QED
      BY <3>1, <3>4, FS_AddElement
  <2>4. Cardinality(Silent) <= 3 /\ Cardinality(Silent) \in Nat
    BY <1>2, <2>3, FS_Subset, FS_CardinalityType DEF Silent
  <2> QED
    BY <1>1, <2>2, <2>4, FS_EmptySet DEF Reports
<1> QED
  BY <1>1, <1>3, <1>5, <1>6, <1>7, <1>8 DEF BInv

LEMMA ReceivedStep ==
    ASSUME SInv, [Next]_vars, received \subseteq DataEntries \X SUBSET Names
    PROVE  received' \subseteq DataEntries' \X SUBSET Names'
<1> USE SameScan
<1>1. Names' = Names
  BY DEF Names, Entry
<1>2. CASE Receive
  <2>1. Head(outCh.queue) \in Messages
    BY <1>2, TakeChannel DEF Receive, SInv, Types
  <2> QED
    BY <1>1, <1>2, <2>1 DEF Receive, Messages
<1>3. CASE UNCHANGED received
  BY <1>1, <1>3
<1>4. Receive \/ UNCHANGED received
  BY DEF Next, Progress, LoaderStep, StartManifest, LoaderFails, LoaderEnds, StreamEntry,
     FinishManifest, TakeDelete, DeleterFails, DeleterEnds, PopulateIndex, ReturnStream,
     TakeData, PlannerFails, PlannerEnds, EntryStep, ProcessDelete, ProcessData,
     WaitForIndex, SendTask, TaskSent, TaskStep, Report, Reported, StreamEnds, DropScan,
     callerVars, vars
<1> QED
  BY <1>2, <1>3, <1>4

LEMMA AlwaysBounded == Spec => []BInv
<1>1. SInv /\ SInv' /\ BInv /\ [Next]_vars => BInv'
  BY LoadsStep, StreamsStep, QueuedStep, SendsStep, ReportsStep, ReceivedStep DEF BInv
<1> QED
  BY <1>1, StartsBounded, AlwaysSound, PTL DEF Spec

(* At most two tasks that report errors and limitEntries entries wait for   *)
(* the caller, or three tasks and one entry less: the planner gives up only *)
(* for an entry that has failed.                                            *)
LEMMA FewSenders ==
    ASSUME Types, Sends
    PROVE  /\ IsFiniteSet(Senders) /\ Cardinality(Senders) \in Nat
           /\ Cardinality(Senders) <= scan.limitEntries + 2
<1>1. /\ Flushing \subseteq Working /\ IsFiniteSet(Working) /\ Cardinality(Working) \in Nat
      /\ Cardinality(Working) <= scan.limitEntries /\ scan.limitEntries \in Nat
  BY Limits, FS_CardinalityType DEF Flushing, Working, EntryDone, Sends, Types
<1>2. PICK S : S = Flushing \cup {<<"loader">>, <<"deleter">>}
  OBVIOUS
<1>3. /\ IsFiniteSet(Flushing) /\ Cardinality(Flushing) \in Nat
      /\ Cardinality(Flushing) <= Cardinality(Working)
  BY <1>1, FS_Subset, FS_CardinalityType
<1>4. IsFiniteSet(S) /\ Cardinality(S) \in Nat /\ Cardinality(S) <= Cardinality(Flushing) + 2
  <2>1. S = (Flushing \cup {<<"loader">>}) \cup {<<"deleter">>}
    BY <1>2
  <2>2. /\ IsFiniteSet(Flushing \cup {<<"loader">>})
        /\ Cardinality(Flushing \cup {<<"loader">>}) \in
               {Cardinality(Flushing), Cardinality(Flushing) + 1}
    BY <1>3, FS_AddElement
  <2>3. /\ IsFiniteSet(S)
        /\ Cardinality(S) \in {Cardinality(Flushing \cup {<<"loader">>}),
                               Cardinality(Flushing \cup {<<"loader">>}) + 1}
    BY <2>1, <2>2, FS_AddElement
  <2> QED
    BY <1>3, <2>2, <2>3
<1>5. CASE task["planner"] # "reporting"
  <2>1. Senders \subseteq S
    BY <1>2, <1>5 DEF Senders, Reporting, Tasks
  <2> QED
    BY <1>1, <1>3, <1>4, <2>1, FS_Subset, FS_CardinalityType
<1>6. CASE task["planner"] = "reporting"
  <2>1. PICK e \in DataEntries : at[e] = "failed"
    BY <1>6 DEF Sends
  <2>2. e \in Working /\ e \notin Flushing
    BY <2>1 DEF Working, Flushing, EntryDone
  <2>3. Cardinality(Working \ {e}) = Cardinality(Working) - 1 /\ IsFiniteSet(Working \ {e})
    BY <1>1, <2>2, FS_RemoveElement
  <2>4. Cardinality(Flushing) <= Cardinality(Working) - 1
    BY <1>1, <2>2, <2>3, FS_Subset
  <2>5. Senders \subseteq S \cup {<<"planner">>}
    BY <1>2 DEF Senders, Reporting, Tasks
  <2>6. /\ IsFiniteSet(S \cup {<<"planner">>})
        /\ Cardinality(S \cup {<<"planner">>}) \in {Cardinality(S), Cardinality(S) + 1}
    BY <1>4, FS_AddElement
  <2>7. IsFiniteSet(Senders) /\ Cardinality(Senders) <= Cardinality(S \cup {<<"planner">>})
    BY <2>5, <2>6, FS_Subset
  <2> QED
    BY <1>1, <1>3, <1>4, <2>4, <2>6, <2>7, FS_CardinalityType
<1> QED
  BY <1>5, <1>6

(* However slowly the caller reads, no channel holds more than its buffer   *)
(* and one message per sender that can be at work, for any limits and lists. *)
THEOREM BackPressureHolds == Spec => []QueuesBounded
<1>1. SInv /\ BInv => QueuesBounded
  <2> SUFFICES ASSUME SInv, BInv PROVE QueuesBounded
    OBVIOUS
  <2>1. /\ Types /\ Sends /\ Streams(dataCh, DataManifests) /\ Streams(deleteCh, DeleteManifests)
        /\ scan.limitManifests \in Nat /\ scan.limitEntries \in Nat
    BY Limits DEF SInv, Types, BInv
  <2>2. \A ch : \A ms : Streams(ch, ms) => /\ Len(ch.queue) <= scan.limitManifests + Len(ch.parked)
                                          /\ Len(ch.parked) \in Nat
                                          /\ Len(ch.parked) <= scan.limitManifests
    BY DEF Streams, Buffered
  <2>3. Len(dataCh.queue) \in Nat /\ Len(deleteCh.queue) \in Nat /\ Len(outCh.queue) \in Nat
    BY <2>1 DEF Types, IsChannel
  <2>4. /\ Len(dataCh.queue) <= 2 * scan.limitManifests
        /\ Len(deleteCh.queue) <= 2 * scan.limitManifests
    BY <2>1, <2>2, <2>3
  <2>5. Len(outCh.parked) \in Nat /\ Len(outCh.parked) <= scan.limitEntries + 2
    <3>1. Len(outCh.parked) <= Cardinality(Senders) /\ Len(outCh.parked) \in Nat
      BY <2>1, FewSenders, FewParked DEF Sends, Buffered
    <3> QED
      BY <2>1, <3>1, FewSenders
  <2>6. Len(outCh.queue) <= scan.limitEntries + Len(outCh.parked)
    BY <2>1 DEF Sends, Buffered
  <2> QED
    BY <2>1, <2>3, <2>4, <2>5, <2>6 DEF QueuesBounded
<1> QED
  BY <1>1, AlwaysSound, AlwaysBounded, PTL

(* Every variable of a scan keeps its type; no manifest is read twice, no   *)
(* more of them at a time than the limit says, and the caller gets one      *)
(* error of each task at most.                                              *)
THEOREM ScanTypes == Spec => []TypeOK
<1>1. SInv /\ BInv => TypeOK
  <2> SUFFICES ASSUME SInv, BInv PROVE TypeOK
    OBVIOUS
  <2>1. Types /\ Places /\ Loads /\ Reports /\ received \subseteq DataEntries \X SUBSET Names
    BY DEF SInv, BInv
  <2>2. \A i \in DOMAIN todo : todo[i] \in Manifests \ loading
    BY <2>1 DEF Types, Loads
  <2>3. \A m \in Manifests : sent[m] \in 0 .. Len(list[m].entries)
    BY <2>1, ListShape DEF Types, Loads
  <2>4. /\ \A i \in DOMAIN dataCh.queue : dataCh.queue[i] \in DataEntries
        /\ \A i \in DOMAIN deleteCh.queue : deleteCh.queue[i] \in DeleteEntries
    BY <2>1 DEF Types, IsChannel
  <2>5. \A t \in received : t[1] \in DataEntries
    BY <2>1
  <2>6. errors \in 0 .. 3
    <3>1. Cardinality(ErrorsIn(outCh.queue)) \in Nat
      BY <2>1, FiniteErrors DEF Types, IsChannel
    <3>2. Cardinality(Silent) \in Nat
      BY <2>1, Limits, FS_Subset, FS_CardinalityType DEF Silent, Types
    <3> QED
      BY <2>1, <3>1, <3>2 DEF Reports, Types
  <2>7. collected \subseteq DeleteEntries
    BY <2>1 DEF Places, Kept
  <2> QED
    BY <2>1, <2>2, <2>3, <2>4, <2>5, <2>6, <2>7 DEF TypeOK, Types, Loads
<1> QED
  BY <1>1, AlwaysSound, AlwaysBounded, PTL
===============================================================================
