-------------------------- MODULE TransactionProofs --------------------------
(***************************************************************************)
(* Theorems about Transaction, for any number of writers, files, retries   *)
(* and failures, and any transactions; the last is that it implements      *)
(* AtomicTable.                                                            *)
(***************************************************************************)
EXTENDS TransactionRefinement, FiniteSetTheorems, TLAPS

-----------------------------------------------------------------------------
(* Metadata that can be read: main is a snapshot it knows, and each of its  *)
(* snapshots has a manifest list in storage.                                *)
Sound(m) ==
    /\ m.current \in KnownIds(m) \cup {None}
    /\ \A id \in KnownIds(m) : m.snapshots[id].list \in DOMAIN lists

AppendIndices(w) == {i \in DOMAIN staged[w] : staged[w][i].kind = "append"}

(* What w has staged fits the metadata it stages on: its snapshots are      *)
(* there, each append requires the snapshot it is a child of, and that is   *)
(* no longer the current one.                                               *)
Chained(w) ==
    \A i \in AppendIndices(w) :
        LET c == staged[w][i]
        IN  /\ [type |-> "RefSnapshotIdMatch", snapshot |-> c.snapshot.parent] \in c.reqs
            /\ c.snapshot.parent \in (KnownIds(work[w]) \cup {None}) \ {work[w].current}
            /\ c.snapshot.list \in DOMAIN lists
            /\ \A j \in AppendIndices(w) :
                  j # i => staged[w][j].snapshot.parent # c.snapshot.parent

(* The holder of the mutex: the table is still the one it checked, and what *)
(* it has merged so far is readable and ends in its own snapshot.           *)
Merging(w) ==
    /\ lock = w /\ table # None /\ AllHold(staged[w], table)
    /\ merge.meta # None /\ Sound(merge.meta)
    /\ merge.done <= Len(staged[w])
    /\ \A i \in AppendIndices(w) :
          i <= merge.done => merge.meta.current = staged[w][i].id

WriterInv(w) ==
    /\ pc[w] \in {"act", "merge"} =>
          work[w] # None /\ Sound(work[w]) /\ Chained(w)
    /\ pc[w] = "merge" => Merging(w)

IInv ==
    /\ TypeOK
    /\ table # None => Sound(table)
    /\ \A w \in Writers : WriterInv(w)

-----------------------------------------------------------------------------
LEMMA NewMetadataIsSound ==
    ASSUME NEW n \in Nat
    PROVE  /\ NewMetadata(n) \in Metadata
           /\ KnownIds(NewMetadata(n)) = {}
           /\ NewMetadata(n).current = None
BY DEF NewMetadata, Metadata, KnownIds

(* Cardinalities of sets of data files are numbers. *)
LEMMA FilesAreCounted ==
    ASSUME NEW F \in SUBSET Files
    PROVE  Cardinality(F) \in Nat
BY FilesAssumption, FS_Subset, FS_CardinalityType

LEMMA NextSequenceNumberType ==
    ASSUME NEW m \in Metadata
    PROVE  NextSequenceNumber(m) \in Nat
BY DEF NextSequenceNumber, Metadata

(* What applying one ActionCommit does to the snapshots and to main. *)
LEMMA ApplyAppend ==
    ASSUME NEW m \in Metadata, NEW c \in ActionCommit, c.kind = "append"
    PROVE  /\ ApplyCommit(c, m) \in Metadata
           /\ ApplyCommit(c, m).current = c.id
           /\ ApplyCommit(c, m).snapshots = [m.snapshots EXCEPT ![c.id] = c.snapshot]
           /\ KnownIds(ApplyCommit(c, m)) = KnownIds(m) \cup {c.id}
<1> DEFINE a == AddSnapshot(m, c.id, c.snapshot)
<1>1. c.id \in SnapshotIds /\ c.snapshot \in Snapshot
  BY DEF ActionCommit
<1>2. a \in Metadata /\ a.snapshots = [m.snapshots EXCEPT ![c.id] = c.snapshot]
  <2>1. c.snapshot.seq \in Nat /\ c.snapshot.added \in Nat
    BY <1>1 DEF Snapshot
  <2> DEFINE row == IF FormatVersion = 3 THEN m.nextRow + c.snapshot.added ELSE m.nextRow
  <2>2. row \in Nat
    BY <2>1 DEF Metadata
  <2>3. [m.snapshots EXCEPT ![c.id] = c.snapshot] \in [SnapshotIds -> Snapshot \cup {None}]
    BY <1>1 DEF Metadata
  <2>4. a = [m EXCEPT !.snapshots = [m.snapshots EXCEPT ![c.id] = c.snapshot],
                      !.lastSeq = c.snapshot.seq, !.nextRow = row]
    BY DEF AddSnapshot, Metadata
  <2> HIDE DEF a, row
  <2> QED
    BY <2>1, <2>2, <2>3, <2>4 DEF Metadata
<1>3. /\ SetSnapshotRef(a, c.id) \in Metadata
      /\ SetSnapshotRef(a, c.id).current = c.id
      /\ SetSnapshotRef(a, c.id).snapshots = a.snapshots
  <2> HIDE DEF a
  <2>1. a.log \in Seq(SnapshotIds) /\ Append(a.log, c.id) \in Seq(SnapshotIds)
    BY <1>1, <1>2 DEF Metadata
  <2>2. SetSnapshotRef(a, c.id) =
          IF a.current = c.id THEN a
          ELSE [a EXCEPT !.current = c.id, !.log = Append(a.log, c.id)]
    BY <1>2 DEF SetSnapshotRef, Metadata
  <2> QED
    BY <1>1, <1>2, <2>1, <2>2, ZenonT(60) DEF Metadata
<1>4. ApplyCommit(c, m) = SetSnapshotRef(a, c.id)
  BY DEF ApplyCommit
<1>5. c.snapshot # None
  BY <1>1, NoneAssumption
<1>6. m.snapshots \in [SnapshotIds -> Snapshot \cup {None}]
  BY DEF Metadata
<1> QED
  BY <1>1, <1>2, <1>3, <1>4, <1>5, <1>6 DEF KnownIds

LEMMA ApplyOther ==
    ASSUME NEW m \in Metadata, NEW c \in ActionCommit, c.kind # "append"
    PROVE  /\ ApplyCommit(c, m) \in Metadata
           /\ ApplyCommit(c, m).current = m.current
           /\ ApplyCommit(c, m).snapshots = m.snapshots
<1>1. CASE c.kind = "sort"
  <2>1. ApplyCommit(c, m) = SetDefaultSortOrder(m, c.order) /\ c.order \in SortOrders
    BY <1>1 DEF ApplyCommit, ActionCommit
  <2> QED
    BY <2>1 DEF SetDefaultSortOrder, Metadata
<1>2. CASE c.kind = "props"
  <2>1. /\ ApplyCommit(c, m) = UpdateProperties(m, c.by, c.set, c.remove)
        /\ c.by \in Writers
    BY <1>2 DEF ApplyCommit, ActionCommit
  <2> QED
    BY <2>1 DEF UpdateProperties, Metadata
<1> QED
  BY <1>1, <1>2 DEF ActionCommit

(* With no snapshot that was main only in between, build changes nothing. *)
LEMMA BuildKeepsLog ==
    ASSUME NEW m, NEW added, added \subseteq {m.current}
    PROVE  Build(m, added) = m
BY DEF Build

-----------------------------------------------------------------------------
LEMMA InitEstablishesIInv == Init => IInv
<1> SUFFICES ASSUME Init PROVE IInv
  OBVIOUS
<1>1. /\ table = NewMetadata(1) /\ tables = 1 /\ lists = [u \in {} |-> {}]
      /\ lock = None /\ merge = [meta |-> None, done |-> 0]
  BY DEF Init
<1>2. table \in Metadata /\ Sound(table)
  BY <1>1, NewMetadataIsSound DEF Sound
<1>3. pc \in [Writers -> {"load", "committed"}]
  BY DEF Init
<1>4. /\ attempt \in [Writers -> Nat]
      /\ serial \in [Writers -> Nat] /\ submits \in [Writers -> Nat]
      /\ work \in [Writers -> Metadata \cup {None}]
      /\ staged \in [Writers -> Seq(ActionCommit)]
  BY DEF Init
<1>5. TypeOK
  BY <1>1, <1>2, <1>3, <1>4 DEF TypeOK, InFlight, Ended
<1> QED
  BY <1>2, <1>3, <1>5 DEF IInv, WriterInv

(* The manifests of readable metadata are manifests. *)
LEMMA ManifestsOfType ==
    ASSUME TypeOK, NEW m \in Metadata, Sound(m)
    PROVE  ManifestsOf(m) \subseteq Manifest
BY NoneAssumption DEF TypeOK, Sound, ManifestsOf, KnownIds

-----------------------------------------------------------------------------
(* A step of another writer leaves w's part of the invariant alone. *)
LEMMA WriterFrame ==
    ASSUME NEW w \in Writers, WriterInv(w),
           pc'[w] = pc[w], work'[w] = work[w], staged'[w] = staged[w],
           DOMAIN lists \subseteq DOMAIN lists',
           pc[w] = "merge" => UNCHANGED <<table, lock, merge>>
    PROVE  WriterInv(w)'
<1>1. AppendIndices(w)' = AppendIndices(w)
  BY DEF AppendIndices
<1>2. ASSUME Chained(w) PROVE Chained(w)'
  BY <1>1, <1>2 DEF Chained
<1>3. \A m : Sound(m) => Sound(m)'
  BY DEF Sound
<1>4. ASSUME pc[w] = "merge", Merging(w) PROVE Merging(w)'
  BY <1>1, <1>4 DEF Merging, Sound
<1>5. ASSUME Sound(work[w]) PROVE Sound(work[w])'
  BY <1>5 DEF Sound
<1> QED
  BY <1>2, <1>4, <1>5 DEF WriterInv

(* Only the holder of the mutex is merging. *)
LEMMA MergerHoldsLock ==
    ASSUME IInv, NEW w \in Writers, pc[w] = "merge"
    PROVE  lock = w /\ lock # None
BY NoneAssumption DEF IInv, WriterInv, Merging

(* Two appends of one transaction never hold of the same table. *)
LEMMA OneAppendHolds ==
    ASSUME NEW w \in Writers, Chained(w), NEW m, AllHold(staged[w], m)
    PROVE  \A i, j \in AppendIndices(w) : i = j
<1>1. \A i \in AppendIndices(w) : m.current = staged[w][i].snapshot.parent
  BY DEF Chained, AllHold, AppendIndices, Holds
<1> QED
  BY <1>1 DEF Chained

(* Staging one more ActionCommit. *)
LEMMA StageStep ==
    ASSUME TypeOK, NEW w \in Writers, NEW c \in ActionCommit,
           pc[w] = "act", work[w] # None, Sound(work[w]), Chained(w), Stage(w, c),
           DOMAIN lists \subseteq DOMAIN lists',
           c.kind = "append" =>
               /\ c.id \notin KnownIds(work[w])
               /\ c.snapshot.parent = work[w].current
               /\ [type |-> "RefSnapshotIdMatch", snapshot |-> work[w].current] \in c.reqs
               /\ c.snapshot.list \in DOMAIN lists'
    PROVE  /\ work' \in [Writers -> Metadata \cup {None}]
           /\ staged' \in [Writers -> Seq(ActionCommit)]
           /\ WriterInv(w)'
<1> DEFINE m == work[w]
           n == ApplyCommit(c, m)
           l == Len(staged[w]) + 1
<1>1. m \in Metadata /\ staged[w] \in Seq(ActionCommit)
  BY DEF TypeOK
<1>2. /\ n \in Metadata
      /\ c.kind = "append" =>
            /\ n.current = c.id /\ KnownIds(n) = KnownIds(m) \cup {c.id}
            /\ n.snapshots = [m.snapshots EXCEPT ![c.id] = c.snapshot]
      /\ c.kind # "append" => n.current = m.current /\ n.snapshots = m.snapshots
  BY <1>1, ApplyAppend, ApplyOther
<1>3. AddedIds(<<c>>) \subseteq {n.current}
  BY <1>2 DEF AddedIds
<1>4. work' = [work EXCEPT ![w] = n]
  BY <1>3, BuildKeepsLog DEF Stage
<1>5. staged' = [staged EXCEPT ![w] = Append(staged[w], c)]
  BY DEF Stage
<1>6. work' \in [Writers -> Metadata \cup {None}] /\ work'[w] = n
  BY <1>1, <1>2, <1>4 DEF TypeOK
<1>7. /\ staged' \in [Writers -> Seq(ActionCommit)]
      /\ staged'[w] = Append(staged[w], c)
  BY <1>1, <1>5 DEF TypeOK
<1>8. AppendIndices(w)' = AppendIndices(w) \cup (IF c.kind = "append" THEN {l} ELSE {})
  BY <1>1, <1>7 DEF AppendIndices
<1>9. /\ l \notin AppendIndices(w) /\ staged'[w][l] = c
      /\ \A i \in AppendIndices(w) : staged'[w][i] = staged[w][i]
  BY <1>1, <1>7 DEF AppendIndices
<1>10. m.snapshots \in [SnapshotIds -> Snapshot \cup {None}] /\ m.current \in SnapshotIds \cup {None}
  BY <1>1 DEF Metadata
<1>11. CASE c.kind = "append"
  <2>1. c.id \in SnapshotIds /\ c.id # None /\ c.id \notin KnownIds(m)
    BY <1>11, NoneAssumption DEF ActionCommit
  <2>2. Sound(work[w])'
    BY <1>2, <1>6, <1>10, <1>11, <2>1 DEF Sound, KnownIds
  <2>3. \A i \in AppendIndices(w) :
           staged[w][i].snapshot.parent \in (KnownIds(m) \cup {None}) \ {m.current}
    BY DEF Chained
  <2>4. m.current \in KnownIds(m) \cup {None}
    BY DEF Sound
  <2>5. ASSUME NEW i \in AppendIndices(w)'
        PROVE  LET d == staged'[w][i]
               IN /\ [type |-> "RefSnapshotIdMatch", snapshot |-> d.snapshot.parent] \in d.reqs
                  /\ d.snapshot.parent \in (KnownIds(n) \cup {None}) \ {n.current}
                  /\ d.snapshot.list \in DOMAIN lists'
                  /\ \A j \in AppendIndices(w)' :
                        j # i => staged'[w][j].snapshot.parent # d.snapshot.parent
    <3>1. CASE i = l
      BY <1>2, <1>8, <1>9, <1>11, <2>1, <2>3, <2>4, <3>1
    <3>2. CASE i # l
      <4>1. i \in AppendIndices(w) /\ staged'[w][i] = staged[w][i]
        BY <1>8, <1>9, <3>2
      <4> QED
        BY SMTT(30), <1>2, <1>8, <1>9, <1>11, <2>1, <2>3, <2>4, <4>1 DEF Chained
    <3> QED
      BY <3>1, <3>2
  <2>6. Chained(w)'
    BY <1>6, <2>5 DEF Chained
  <2> QED
    BY <1>1, <1>2, <1>6, <1>7, <2>2, <2>6, NoneAssumption DEF WriterInv, Stage
<1>12. CASE c.kind # "append"
  <2>1. KnownIds(n) = KnownIds(m)
    BY <1>2, <1>12 DEF KnownIds
  <2>2. Sound(work[w])'
    BY <1>2, <1>6, <1>12, <2>1 DEF Sound
  <2>3. Chained(w)'
    BY <1>2, <1>6, <1>8, <1>9, <1>12, <2>1 DEF Chained
  <2> QED
    BY <1>1, <1>2, <1>6, <1>7, <2>2, <2>3, NoneAssumption DEF WriterInv, Stage
<1> QED
  BY <1>11, <1>12

-----------------------------------------------------------------------------
(* One lemma per action: it preserves the invariant. *)

LEMMA OthersKept ==
    ASSUME IInv, NEW w \in Writers,
           \A v \in Writers \ {w} :
               /\ pc'[v] = pc[v] /\ work'[v] = work[v] /\ staged'[v] = staged[v]
               /\ pc[v] = "merge" => UNCHANGED <<table, lock, merge>>,
           DOMAIN lists \subseteq DOMAIN lists',
           WriterInv(w)', TypeOK', table' # None => Sound(table)'
    PROVE  IInv'
BY WriterFrame DEF IInv

LEMMA EndStep ==
    ASSUME IInv, NEW w \in Writers, NEW o \in Ended, End(w, o)
    PROVE  /\ pc' \in [Writers -> InFlight \cup Ended]
           /\ lock' \in Writers \cup {None}
           /\ \A v \in Writers \ {w} : pc'[v] = pc[v]
           /\ \A v \in Writers \ {w} : pc[v] = "merge" => lock' = lock
           /\ WriterInv(w)'
<1>1. pc \in [Writers -> InFlight \cup Ended] /\ lock \in Writers \cup {None}
  BY DEF IInv, TypeOK
<1>2. pc'[w] = o /\ o \notin {"act", "merge"}
  BY <1>1 DEF End, Ended
<1>3. \A v \in Writers \ {w} : pc[v] = "merge" => lock' = lock
  BY MergerHoldsLock DEF End
<1> QED
  BY <1>1, <1>2, <1>3 DEF End, WriterInv

LEMMA LoadTableStep ==
    ASSUME IInv, NEW w \in Writers, LoadTable(w)
    PROVE  IInv'
<1>1. TypeOK /\ lock = None /\ UNCHANGED <<table, tables, merge, lists, submits>>
  BY DEF LoadTable, IInv
<1>2. \A v \in Writers : pc[v] # "merge"
  BY <1>1, MergerHoldsLock
<1>3. CASE table # None /\ pc' = [pc EXCEPT ![w] = "act"] /\ Rebase(w)
           /\ staged' = [staged EXCEPT ![w] = << >>]
           /\ attempt' = [attempt EXCEPT ![w] = @ + 1]
           /\ serial' = [serial EXCEPT ![w] = @ + 1]
           /\ UNCHANGED lock
  <2>1. work'[w] = table /\ staged'[w] = << >> /\ pc'[w] = "act"
    BY <1>1, <1>3 DEF TypeOK, Rebase
  <2>2. TypeOK'
    BY <1>1, <1>3 DEF TypeOK, Rebase, InFlight
  <2>3. Sound(work[w])'
    BY <1>1, <1>3, <2>1 DEF IInv, Sound
  <2>4. WriterInv(w)'
    BY <1>3, <2>1, <2>3 DEF WriterInv, Chained, AppendIndices
  <2>5. \A v \in Writers \ {w} :
           pc'[v] = pc[v] /\ work'[v] = work[v] /\ staged'[v] = staged[v]
    BY <1>1, <1>3 DEF TypeOK, Rebase
  <2>6. table' # None => Sound(table)'
    BY <1>1 DEF IInv, Sound
  <2> QED
    BY <1>1, <1>2, <2>2, <2>4, <2>5, <2>6, OthersKept
<1>4. CASE End(w, "failed") /\ UNCHANGED <<work, staged, attempt, serial>>
  <2>1. TypeOK'
    BY <1>1, <1>4, EndStep DEF TypeOK, Ended
  <2>2. table' # None => Sound(table)'
    BY <1>1 DEF IInv, Sound
  <2> QED
    BY <1>1, <1>2, <1>4, <2>1, <2>2, EndStep, OthersKept DEF Ended
<1> QED
  BY <1>3, <1>4 DEF LoadTable

LEMMA FastAppendStep ==
    ASSUME IInv, NEW w \in Writers, pc[w] = "act", work[w] # None,
           NEW a \in Actions, a.kind = "append", FastAppend(w, a),
           UNCHANGED <<table, tables, merge, attempt, serial, submits>>
    PROVE  IInv'
<1> DEFINE m == work[w]
           uuid == <<w, serial[w], Len(staged[w]) + 1>>
           list == ManifestList(m, uuid, a.files)
<1>1. TypeOK /\ WriterInv(w)
  BY DEF IInv
<1>2. Sound(m) /\ Chained(w) /\ m \in Metadata
  BY <1>1 DEF WriterInv, TypeOK
<1>3. CASE /\ WriteManifestList(uuid, list)
           /\ \E id \in SnapshotIds \ KnownIds(m) :
                 Stage(w, AppendCommit(m, id, uuid, a.files))
  <2>1. PICK id \in SnapshotIds \ KnownIds(m) :
               Stage(w, AppendCommit(m, id, uuid, a.files))
    BY <1>3
  <2> DEFINE c == AppendCommit(m, id, uuid, a.files)
  <2>2. uuid \in CommitUuids /\ a.files \in SUBSET Files
    BY <1>1 DEF TypeOK, CommitUuids, Actions
  <2>3. AddedManifest(m, uuid, a.files) \in Manifest
    BY <1>2, <2>2, NextSequenceNumberType DEF AddedManifest, Manifest, Metadata
  <2>4. list \subseteq Manifest
    BY <1>1, <1>2, <2>3, ManifestsOfType DEF ManifestList
  <2>5. TotalDataFiles(m, id, a.files) \in Nat
    BY <2>2, FilesAreCounted DEF TotalDataFiles
  <2>6. NewSnapshot(m, id, uuid, a.files) \in Snapshot
    BY <1>2, <2>2, <2>5, NextSequenceNumberType, FilesAreCounted
       DEF NewSnapshot, Snapshot, Metadata
  <2>7. /\ [type |-> "UuidMatch", uuid |-> m.uuid] \in Requirement
        /\ [type |-> "RefSnapshotIdMatch", snapshot |-> m.current] \in Requirement
    BY <1>2 DEF Requirement, Metadata
  <2>8. c \in ActionCommit
    BY <2>6, <2>7 DEF AppendCommit, ActionCommit
  <2>9. DOMAIN lists' = DOMAIN lists \cup {uuid}
    BY <1>3 DEF WriteManifestList
  <2>10. /\ c.kind = "append" /\ c.id = id /\ c.snapshot.parent = m.current
         /\ [type |-> "RefSnapshotIdMatch", snapshot |-> m.current] \in c.reqs
         /\ c.snapshot.list = uuid
    BY DEF AppendCommit, NewSnapshot
  <2> HIDE DEF c
  <2>11. /\ work' \in [Writers -> Metadata \cup {None}]
         /\ staged' \in [Writers -> Seq(ActionCommit)]
         /\ WriterInv(w)'
    BY <1>1, <1>2, <2>1, <2>8, <2>9, <2>10, StageStep DEF c
  <2>12. /\ DOMAIN lists' \subseteq CommitUuids
         /\ \A u \in DOMAIN lists' : lists'[u] \subseteq Manifest
    BY <1>1, <1>3, <2>2, <2>4, <2>9 DEF TypeOK, WriteManifestList
  <2>13. UNCHANGED <<pc, lock>>
    BY <2>1 DEF Stage
  <2>14. TypeOK'
    BY <1>1, <2>11, <2>12, <2>13 DEF TypeOK
  <2>15. \A v \in Writers \ {w} : work'[v] = work[v] /\ staged'[v] = staged[v]
    BY <1>1, <2>1 DEF Stage, TypeOK
  <2>16. table' # None => Sound(table)'
    BY <2>9 DEF IInv, Sound
  <2> QED
    BY <2>9, <2>11, <2>13, <2>14, <2>15, <2>16, OthersKept
<1>4. CASE End(w, "failed") /\ UNCHANGED <<work, staged, lists>>
  <2>1. TypeOK'
    BY <1>1, <1>4, EndStep DEF TypeOK, Ended
  <2>2. table' # None => Sound(table)'
    BY <1>4 DEF IInv, Sound
  <2> QED
    BY <1>4, <2>1, <2>2, EndStep, OthersKept DEF Ended
<1> QED
  BY <1>3, <1>4 DEF FastAppend

LEMMA OtherActionStep ==
    ASSUME IInv, NEW w \in Writers, pc[w] = "act", work[w] # None,
           NEW c \in ActionCommit, c.kind # "append", Stage(w, c),
           UNCHANGED <<table, tables, merge, lists, attempt, serial, submits>>
    PROVE  IInv'
<1>1. TypeOK /\ WriterInv(w)
  BY DEF IInv
<1>2. Sound(work[w]) /\ Chained(w)
  BY <1>1 DEF WriterInv
<1>3. /\ work' \in [Writers -> Metadata \cup {None}]
      /\ staged' \in [Writers -> Seq(ActionCommit)]
      /\ WriterInv(w)'
  BY <1>1, <1>2, StageStep
<1>4. UNCHANGED <<pc, lock>>
  BY DEF Stage
<1>5. TypeOK'
  BY <1>1, <1>3, <1>4 DEF TypeOK
<1>6. \A v \in Writers \ {w} : work'[v] = work[v] /\ staged'[v] = staged[v]
  BY <1>1 DEF Stage, TypeOK
<1>7. table' # None => Sound(table)'
  BY DEF IInv, Sound
<1> QED
  BY <1>3, <1>4, <1>5, <1>6, <1>7, OthersKept

LEMMA RunActionStep ==
    ASSUME IInv, NEW w \in Writers, RunAction(w)
    PROVE  IInv'
<1> DEFINE a == Tx[w][Len(staged[w]) + 1]
<1>1. TypeOK /\ pc[w] = "act" /\ work[w] # None
  BY DEF RunAction, IInv, WriterInv
<1>2. a \in Actions
  BY <1>1, TxAssumption DEF RunAction, TypeOK
<1>3. UNCHANGED <<table, tables, merge, attempt, serial, submits>>
  BY DEF RunAction
<1>4. work[w] \in Metadata
  BY <1>1 DEF TypeOK
<1>5. CASE a.kind = "append" /\ FastAppend(w, a)
  BY <1>1, <1>2, <1>3, <1>5, FastAppendStep
<1>6. CASE a.kind = "sort" /\ ReplaceSortOrder(w, a)
  <2>1. a.order \in SortOrders
    BY <1>2, <1>6 DEF Actions
  <2>2. SortCommit(work[w], a) \in ActionCommit /\ SortCommit(work[w], a).kind # "append"
    BY <1>4, <2>1 DEF SortCommit, ActionCommit, Requirement, Metadata
  <2> QED
    BY <1>1, <1>3, <1>6, <2>2, OtherActionStep DEF ReplaceSortOrder
<1>7. CASE a.kind = "props" /\ UpdateTableProperties(w, a)
  <2>1. a.set \in SUBSET PropertyKeys /\ a.remove \in SUBSET PropertyKeys
    BY <1>2, <1>7 DEF Actions
  <2>2. PropsCommit(w, a) \in ActionCommit /\ PropsCommit(w, a).kind # "append"
    BY <2>1 DEF PropsCommit, ActionCommit
  <2>3. CASE Stage(w, PropsCommit(w, a)) /\ UNCHANGED lists
    BY <1>1, <1>3, <2>2, <2>3, OtherActionStep
  <2>4. CASE End(w, "failed") /\ UNCHANGED <<work, staged, lists>>
    <3>1. TypeOK'
      BY <1>1, <1>3, <2>4, EndStep DEF TypeOK, Ended
    <3>2. table' # None => Sound(table)'
      BY <1>3, <2>4 DEF IInv, Sound
    <3> QED
      BY <1>3, <2>4, <3>1, <3>2, EndStep, OthersKept DEF Ended
  <2> QED
    BY <1>7, <2>3, <2>4 DEF UpdateTableProperties
<1> QED
  BY <1>5, <1>6, <1>7 DEF RunAction

(* Every step that only ends, or restarts, the commit of w. *)
LEMMA LeaveStep ==
    ASSUME IInv, NEW w \in Writers,
           pc' \in [Writers -> InFlight \cup Ended], lock' \in Writers \cup {None},
           \A v \in Writers \ {w} : pc'[v] = pc[v],
           \A v \in Writers \ {w} : pc[v] = "merge" => lock' = lock,
           WriterInv(w)',
           submits' \in [Writers -> Nat],
           attempt' \in [Writers -> Nat],
           UNCHANGED <<table, tables, merge, lists, work, staged, serial>>
    PROVE  IInv'
<1>1. TypeOK'
  BY DEF IInv, TypeOK
<1>2. table' # None => Sound(table)'
  BY DEF IInv, Sound
<1> QED
  BY <1>1, <1>2, OthersKept

LEMMA UpdateTableStep ==
    ASSUME IInv, NEW w \in Writers, UpdateTable(w)
    PROVE  IInv'
<1>1. TypeOK /\ WriterInv(w) /\ pc[w] = "act" /\ lock = None
  BY DEF UpdateTable, IInv
<1>2. UNCHANGED <<table, tables, lists, work, staged, attempt, serial, submits>>
  BY DEF UpdateTable
<1>3. \A v \in Writers : pc[v] # "merge"
  BY <1>1, MergerHoldsLock
<1>4. CASE /\ table # None /\ AllHold(staged[w], table) /\ Acquire(w)
           /\ merge' = [meta |-> table, done |-> 0]
           /\ pc' = [pc EXCEPT ![w] = "merge"]
  <2>1. TypeOK'
    BY <1>1, <1>2, <1>4 DEF TypeOK, Acquire, InFlight
  <2>2. Sound(merge.meta)' /\ merge'.meta # None
    BY <1>2, <1>4 DEF IInv, Sound
  <2>3. merge'.done <= Len(staged'[w]) /\ \A i \in AppendIndices(w)' : ~(i <= merge'.done)
    BY <1>1, <1>2, <1>4 DEF TypeOK, AppendIndices
  <2>4. Merging(w)'
    BY <1>2, <1>4, <2>2, <2>3 DEF Merging, Acquire, AllHold
  <2>5. work'[w] # None /\ Sound(work[w])' /\ Chained(w)'
    BY <1>1, <1>2 DEF WriterInv, Sound, Chained, AppendIndices
  <2>6. \A v \in Writers \ {w} : pc'[v] = pc[v]
    BY <1>1, <1>4 DEF TypeOK
  <2>7. table' # None => Sound(table)'
    BY <1>2 DEF IInv, Sound
  <2> QED
    BY <1>2, <1>3, <2>1, <2>4, <2>5, <2>6, <2>7, OthersKept DEF WriterInv
<1>5. CASE pc' = [pc EXCEPT ![w] = "load"] /\ UNCHANGED <<lock, merge>>
  <2>1. WriterInv(w)'
    BY <1>1, <1>5 DEF WriterInv, TypeOK
  <2> QED
    BY <1>1, <1>2, <1>3, <1>5, <2>1, LeaveStep DEF TypeOK, InFlight
<1>6. ASSUME NEW o \in Ended, End(w, o), UNCHANGED merge PROVE IInv'
  BY <1>1, <1>2, <1>6, EndStep, LeaveStep DEF TypeOK
<1> QED
  BY <1>4, <1>5, <1>6 DEF UpdateTable, Conflict, Ended

LEMMA ApplyUpdatesStep ==
    ASSUME IInv, NEW w \in Writers, ApplyUpdates(w)
    PROVE  IInv'
<1> DEFINE c == staged[w][merge.done + 1]
           n == ApplyCommit(c, merge.meta)
<1>1. TypeOK /\ WriterInv(w) /\ pc[w] = "merge" /\ merge.done < Len(staged[w])
  BY DEF ApplyUpdates, IInv
<1>2. Merging(w) /\ Chained(w) /\ work[w] # None /\ Sound(work[w])
  BY <1>1 DEF WriterInv
<1>3. UNCHANGED <<tables, lists, work, staged, attempt, serial, submits>>
  BY DEF ApplyUpdates
<1>4. \A v \in Writers \ {w} : pc[v] # "merge"
  BY <1>1, MergerHoldsLock
<1>5. CASE MergeCommit(c) /\ UNCHANGED <<pc, lock>>
  <2>1. merge.done + 1 \in DOMAIN staged[w] /\ c \in ActionCommit
    BY <1>1 DEF TypeOK
  <2>2. merge.meta \in Metadata
    BY <1>1, <1>2 DEF TypeOK, Merging
  <2>3. merge' = [meta |-> n, done |-> merge.done + 1] /\ table' = table
    BY <1>5 DEF MergeCommit
  <2>4. n \in Metadata
    BY <2>1, <2>2, ApplyAppend, ApplyOther
  <2>5. TypeOK'
    BY <1>1, <1>3, <1>5, <2>3, <2>4 DEF TypeOK
  <2>6. Sound(n)
    <3>1. CASE c.kind = "append"
      <4>1. merge.done + 1 \in AppendIndices(w)
        BY <2>1, <3>1 DEF AppendIndices
      <4>2. c.snapshot.list \in DOMAIN lists
        BY <1>2, <4>1 DEF Chained
      <4>3. c.id \in SnapshotIds
        BY <2>1, <3>1 DEF ActionCommit
      <4>4. merge.meta.snapshots \in [SnapshotIds -> Snapshot \cup {None}]
        BY <2>2 DEF Metadata
      <4> QED
        <5>1. /\ n.current = c.id /\ KnownIds(n) = KnownIds(merge.meta) \cup {c.id}
              /\ n.snapshots = [merge.meta.snapshots EXCEPT ![c.id] = c.snapshot]
          BY <2>1, <2>2, <3>1, ApplyAppend
        <5>2. Sound(merge.meta)
          BY <1>2 DEF Merging
        <5> HIDE DEF n, c
        <5>3. ASSUME NEW id \in KnownIds(n) PROVE n.snapshots[id].list \in DOMAIN lists
          <6>1. CASE id = c.id
            BY <4>2, <4>3, <4>4, <5>1, <6>1
          <6>2. CASE id # c.id
            <7>1. id \in KnownIds(merge.meta) /\ n.snapshots[id] = merge.meta.snapshots[id]
              BY <4>3, <4>4, <5>1, <5>3, <6>2 DEF KnownIds
            <7> QED
              BY <5>2, <7>1 DEF Sound
          <6> QED
            BY <6>1, <6>2
        <5> QED
          BY <5>1, <5>3 DEF Sound
    <3>2. CASE c.kind # "append"
      <4>1. n.current = merge.meta.current /\ n.snapshots = merge.meta.snapshots
        BY <2>1, <2>2, <3>2, ApplyOther
      <4> HIDE DEF n
      <4> QED
        BY <1>2, <4>1 DEF Merging, Sound, KnownIds
    <3> QED
      BY <3>1, <3>2
  <2>7. \A i \in AppendIndices(w) : i <= merge.done + 1 => n.current = staged[w][i].id
    <3>1. ASSUME NEW i \in AppendIndices(w), i <= merge.done + 1
          PROVE  n.current = staged[w][i].id
      <4>1. CASE c.kind = "append"
        <5>1. merge.done + 1 \in AppendIndices(w)
          BY <2>1, <4>1 DEF AppendIndices
        <5>2. i = merge.done + 1
          BY <1>2, <3>1, <5>1, OneAppendHolds DEF Merging
        <5> QED
          BY <2>1, <2>2, <4>1, <5>2, ApplyAppend
      <4>2. CASE c.kind # "append"
        <5>1. i # merge.done + 1
          BY <3>1, <4>2 DEF AppendIndices
        <5>2. i <= merge.done
          BY <1>1, <3>1, <5>1 DEF AppendIndices, TypeOK
        <5> QED
          BY <1>2, <2>1, <2>2, <3>1, <4>2, <5>2, ApplyOther DEF Merging
      <4> QED
        BY <4>1, <4>2
    <3> QED
      BY <3>1
  <2>8. Merging(w)'
    <3>1. AppendIndices(w)' = AppendIndices(w)
      BY <1>3 DEF AppendIndices
    <3>2. merge'.meta = n /\ merge'.done = merge.done + 1 /\ merge.done + 1 <= Len(staged[w])
      BY <1>1, <2>3 DEF TypeOK
    <3>3. n # None
      BY <2>4, NoneAssumption
    <3>4. Sound(merge.meta)'
      BY <1>3, <2>6, <3>2 DEF Sound
    <3> QED
      BY <1>2, <1>3, <1>5, <2>3, <2>7, <3>1, <3>2, <3>3, <3>4 DEF Merging, AllHold
  <2>9. work'[w] # None /\ Sound(work[w])' /\ Chained(w)'
    BY <1>2, <1>3 DEF Sound, Chained, AppendIndices
  <2>10. table' # None => Sound(table)'
    BY <1>3, <2>3 DEF IInv, Sound
  <2> QED
    BY <1>3, <1>4, <1>5, <2>5, <2>8, <2>9, <2>10, OthersKept DEF WriterInv
<1>6. CASE End(w, "failed") /\ UNCHANGED <<table, merge>>
  BY <1>1, <1>3, <1>6, EndStep, LeaveStep DEF TypeOK, Ended
<1> QED
  BY <1>5, <1>6 DEF ApplyUpdates

LEMMA PublishedTable ==
    ASSUME IInv, NEW w \in Writers, pc[w] = "merge",
           merge.done = Len(staged[w]), FlipPointer(w)
    PROVE  table' = merge.meta
<1>1. TypeOK /\ Merging(w)
  BY DEF IInv, WriterInv
<1>2. AddedIds(staged[w]) \subseteq {merge.meta.current}
  <2>1. staged[w] \in Seq(ActionCommit)
    BY <1>1 DEF TypeOK
  <2>2. \A i \in AppendIndices(w) : merge.meta.current = staged[w][i].id
    BY <1>1, <2>1 DEF Merging, AppendIndices
  <2>3. AddedIds(staged[w]) = {staged[w][i].id : i \in AppendIndices(w)}
    BY DEF AddedIds, AppendIndices
  <2> QED
    BY <2>2, <2>3
<1> QED
  BY <1>2, BuildKeepsLog DEF FlipPointer

LEMMA WriteMetadataStep ==
    ASSUME IInv, NEW w \in Writers, WriteMetadata(w)
    PROVE  IInv'
<1>1. TypeOK /\ Merging(w) /\ pc[w] = "merge" /\ merge.done = Len(staged[w])
  BY DEF WriteMetadata, IInv, WriterInv
<1>2. UNCHANGED <<tables, merge, lists, work, staged, attempt, serial, submits>>
  BY DEF WriteMetadata
<1>3. \A v \in Writers \ {w} : pc[v] # "merge"
  BY <1>1, MergerHoldsLock
<1>4. ASSUME NEW o \in Ended, End(w, o), FlipPointer(w) PROVE IInv'
  <2>1. table' = merge.meta
    BY <1>1, <1>4, PublishedTable
  <2>2. TypeOK'
    BY <1>1, <1>2, <1>4, <2>1, EndStep DEF TypeOK
  <2>3. table' # None => Sound(table)'
    BY <1>1, <1>2, <2>1 DEF Merging, Sound
  <2> QED
    BY <1>2, <1>3, <1>4, <2>2, <2>3, EndStep, OthersKept
<1>5. CASE FailToWrite(w)
  BY <1>1, <1>2, <1>5, EndStep, LeaveStep DEF FailToWrite, TypeOK, Ended
<1> QED
  BY <1>4, <1>5 DEF WriteMetadata, Ended

LEMMA CatalogStep ==
    ASSUME IInv, DropTable \/ CreateTable
    PROVE  IInv'
<1>1. /\ TypeOK /\ lock = None
      /\ UNCHANGED <<lists, lock, merge, pc, work, staged, attempt, serial, submits>>
  BY DEF DropTable, CreateTable, IInv
<1>2. \A v \in Writers : pc[v] # "merge"
  BY <1>1, MergerHoldsLock
<1>3. \A v \in Writers : WriterInv(v)'
  BY <1>1, <1>2, WriterFrame DEF IInv
<1>4. TypeOK' /\ (table' # None => Sound(table)')
  <2>1. CASE DropTable
    BY <1>1, <2>1 DEF DropTable, TypeOK
  <2>2. CASE CreateTable
    <3>1. tables + 1 \in Nat
      BY <1>1 DEF TypeOK
    <3>2. table' \in Metadata /\ KnownIds(table') = {} /\ table'.current = None
      BY <2>2, <3>1, NewMetadataIsSound DEF CreateTable
    <3> QED
      BY <1>1, <2>2, <3>1, <3>2 DEF CreateTable, TypeOK, Sound
  <2> QED
    BY <2>1, <2>2
<1> QED
  BY <1>3, <1>4 DEF IInv

LEMMA StepKeepsIInv == IInv /\ [Next]_vars => IInv'
<1> SUFFICES ASSUME IInv, [Next]_vars PROVE IInv'
  OBVIOUS
<1>1. ASSUME NEW w \in Writers, Step(w) PROVE IInv'
  BY <1>1, LoadTableStep, RunActionStep, UpdateTableStep, ApplyUpdatesStep,
     WriteMetadataStep DEF Step
<1>2. ASSUME NEW w \in Writers, Cancel(w) PROVE IInv'
  BY <1>2, EndStep, LeaveStep DEF Cancel, Ended, IInv, TypeOK
<1>3. ASSUME NEW w \in Writers, Resubmit(w) PROVE IInv'
  <2>1. TypeOK
    BY DEF IInv
  <2>2. /\ pc' \in [Writers -> InFlight \cup Ended] /\ pc'[w] = "load"
        /\ \A v \in Writers \ {w} : pc'[v] = pc[v]
    BY <1>3, <2>1 DEF Resubmit, TypeOK, InFlight
  <2>4. /\ attempt' \in [Writers -> Nat]
        /\ submits' \in [Writers -> Nat]
    BY <1>3, <2>1 DEF Resubmit, TypeOK
  <2>5. WriterInv(w)'
    BY <2>2 DEF WriterInv
  <2> QED
    BY <1>3, <2>1, <2>2, <2>4, <2>5, LeaveStep DEF Resubmit, TypeOK
<1>4. CASE DropTable \/ CreateTable
  BY <1>4, CatalogStep
<1>5. CASE Finished \/ UNCHANGED vars
  <2>1. UNCHANGED vars
    BY <1>5 DEF Finished
  <2>2. TypeOK' /\ (table' # None => Sound(table)')
    BY <2>1 DEF vars, IInv, TypeOK, Sound
  <2>3. \A v \in Writers : WriterInv(v)'
    BY <2>1, WriterFrame DEF vars, IInv
  <2> QED
    BY <2>2, <2>3 DEF IInv
<1> QED
  BY <1>1, <1>2, <1>3, <1>4, <1>5 DEF Next

(* The inductive invariant holds throughout. *)
LEMMA IInvHolds == Spec => []IInv
<1>1. Init => IInv
  BY InitEstablishesIInv
<1>2. IInv /\ [Next]_vars => IInv'
  BY StepKeepsIInv
<1> QED
  BY <1>1, <1>2, PTL DEF Spec

-----------------------------------------------------------------------------
(* Every variable of the commit protocol keeps its type, whatever fails. *)
THEOREM TypeCorrect == Spec => []TypeOK
<1>1. IInv => TypeOK
  BY DEF IInv
<1> QED
  BY <1>1, IInvHolds, PTL

(* A reader that loads the table finds the manifest list of every snapshot  *)
(* in storage: do_commit writes the list before update_table can publish    *)
(* the snapshot that names it.                                              *)
THEOREM SnapshotsAlwaysReadable == Spec => []SnapshotsReadable
<1>1. IInv => SnapshotsReadable
  BY DEF IInv, Sound, SnapshotsReadable
<1> QED
  BY <1>1, IInvHolds, PTL

(* The pointer moves only on a table of which everything the transaction    *)
(* required still holds: update_table checks, merges, writes and flips      *)
(* under one hold of the catalog mutex.                                     *)
THEOREM CommitsAreChecked == Spec => CommitsOnCheckedBase
<1> DEFINE Checked == \A w \in Writers :
              pc[w] # "committed" /\ pc'[w] = "committed" =>
                  table # None /\ AllHold(staged[w], table)
<1>1. ASSUME IInv, [Next]_vars PROVE Checked
  <2> SUFFICES ASSUME NEW w \in Writers, pc[w] # "committed", pc'[w] = "committed"
               PROVE  table # None /\ AllHold(staged[w], table)
    OBVIOUS
  <2>1. TypeOK /\ WriterInv(w)
    BY <1>1 DEF IInv
  <2>2. Next
    BY <1>1 DEF vars
  <2>3. PICK v \in Writers : Step(v) \/ Cancel(v) \/ Resubmit(v)
    BY <2>2 DEF Next, DropTable, CreateTable, Finished, vars
  <2>4. CASE Cancel(v) \/ Resubmit(v)
    BY <2>1, <2>4 DEF Cancel, Resubmit, End, TypeOK
  <2>5. CASE LoadTable(v)
    BY <2>1, <2>5 DEF LoadTable, End, TypeOK
  <2>6. CASE RunAction(v)
    BY <2>1, <2>6 DEF RunAction, FastAppend, ReplaceSortOrder, UpdateTableProperties,
                      Stage, End, TypeOK
  <2>7. CASE UpdateTable(v)
    BY <2>1, <2>7 DEF UpdateTable, Conflict, End, TypeOK
  <2>8. CASE ApplyUpdates(v)
    BY <2>1, <2>8 DEF ApplyUpdates, End, TypeOK
  <2>9. CASE WriteMetadata(v)
    <3>1. pc[v] = "merge" /\ v = w
      BY <2>1, <2>9 DEF WriteMetadata, FailToWrite, End, TypeOK
    <3> QED
      BY <2>1, <3>1 DEF WriterInv, Merging
  <2> QED
    BY <2>3, <2>4, <2>5, <2>6, <2>7, <2>8, <2>9 DEF Step
<1> QED
  BY <1>1, IInvHolds, PTL DEF Spec, CommitsOnCheckedBase

(* A commit that is being merged holds at most one append: the second       *)
(* RefSnapshotIdMatch of a transaction names a snapshot the first one made, *)
(* so a transaction with two fast appends can never pass the check.         *)
OneAppendIsMerged ==
    \A w \in Writers :
        pc[w] = "merge" => \A i, j \in AppendIndices(w) : i = j

(* At most one append per published commit. *)
THEOREM OneAppendPerCommit == Spec => []OneAppendIsMerged
<1>1. IInv => OneAppendIsMerged
  BY OneAppendHolds DEF IInv, WriterInv, Merging, OneAppendIsMerged
<1> QED
  BY <1>1, IInvHolds, PTL

-----------------------------------------------------------------------------
(***************************************************************************)
(* The history of a table stays linear, and nothing a commit published is   *)
(* ever lost, listed twice or numbered twice, for any number of writers,    *)
(* retries and failures: concurrent fast appends never fork the table.      *)
(*                                                                          *)
(* The argument.  What a writer bases its append on was the table it        *)
(* loaded, and as long as it is the same table its snapshots are still      *)
(* there, so the parent of the append and its sequence number agree with    *)
(* the table.  The append is merged only while that parent is main.         *)
(***************************************************************************)

(* LinearHistory, of any metadata. *)
Linear(m) ==
    /\ {m.log[i] : i \in DOMAIN m.log} = KnownIds(m)
    /\ m.current = IF m.log = << >> THEN None ELSE m.log[Len(m.log)]
    /\ \A i \in DOMAIN m.log :
          m.snapshots[m.log[i]].parent = IF i = 1 THEN None ELSE m.log[i - 1]
    /\ FormatVersion # 1 =>
          /\ \A i \in DOMAIN m.log : m.snapshots[m.log[i]].seq = i
          /\ m.lastSeq = Len(m.log)

(* b has every snapshot of a. *)
Keeps(a, b) == \A id \in KnownIds(a) : b.snapshots[id] = a.snapshots[id]

(* The parent of s is a snapshot of the table, and its number is the next.  *)
FollowsIn(s, m) ==
    /\ s.parent \in KnownIds(m) \cup {None}
    /\ FormatVersion # 1 =>
          s.seq = 1 + IF s.parent = None THEN 0 ELSE m.snapshots[s.parent].seq

(* What w has loaded and staged, seen from the table of today. *)
Based(w) ==
    /\ \A i \in AppendIndices(w) :
          [type |-> "UuidMatch", uuid |-> work[w].uuid] \in staged[w][i].reqs
    /\ table # None /\ table.uuid = work[w].uuid =>
          /\ AppendIndices(w) = {} => Keeps(work[w], table)
          /\ \A i \in AppendIndices(w) :
                (\A j \in AppendIndices(w) : i <= j) => FollowsIn(staged[w][i].snapshot, table)

(* What the holder of the mutex has merged is the table and at most one more *)
(* snapshot.                                                                 *)
MergesLinearly(w) ==
    /\ Linear(merge.meta) /\ merge.meta.uuid = table.uuid
    /\ Keeps(table, merge.meta)
    /\ (\A i \in AppendIndices(w) : ~(i <= merge.done)) =>
          /\ merge.meta.snapshots = table.snapshots
          /\ merge.meta.current = table.current
          /\ merge.meta.lastSeq = table.lastSeq

LinearWriter(w) ==
    /\ pc[w] \in {"act", "merge"} =>
          Linear(work[w]) /\ work[w].uuid <= tables /\ Based(w)
    /\ pc[w] = "merge" => MergesLinearly(w)

HInv ==
    /\ table # None => Linear(table) /\ table.uuid <= tables
    /\ \A w \in Writers : LinearWriter(w)

-----------------------------------------------------------------------------
LEMMA NewMetadataIsLinear ==
    ASSUME NEW n \in Nat
    PROVE  Linear(NewMetadata(n)) /\ NewMetadata(n).uuid = n
BY DEF NewMetadata, KnownIds, Linear

(* Main is a snapshot of a linear history, and its number the last given. *)
LEMMA NumberOfMain ==
    ASSUME NEW m \in Metadata, Linear(m)
    PROVE  /\ m.current \in KnownIds(m) \cup {None}
           /\ FormatVersion # 1 =>
                 m.lastSeq = IF m.current = None THEN 0 ELSE m.snapshots[m.current].seq
<1>1. m.log \in Seq(SnapshotIds)
  BY DEF Metadata
<1>2. CASE m.log = << >>
  BY <1>2 DEF Linear
<1>3. CASE m.log # << >>
  <2>1. Len(m.log) \in DOMAIN m.log /\ m.log[Len(m.log)] \in SnapshotIds
    BY <1>1, <1>3
  <2>2. m.log[Len(m.log)] # None
    BY <2>1, NoneAssumption
  <2>3. m.current = m.log[Len(m.log)]
    BY <1>3 DEF Linear
  <2>4. m.current \in KnownIds(m)
    BY <2>1, <2>3 DEF Linear
  <2> QED
    BY <2>1, <2>2, <2>3, <2>4 DEF Linear
<1> QED
  BY <1>2, <1>3

(* The fields of the metadata that one ActionCommit changes. *)
LEMMA ApplyAppendFields ==
    ASSUME NEW m \in Metadata, NEW c \in ActionCommit, c.kind = "append", m.current # c.id
    PROVE  /\ ApplyCommit(c, m).log = Append(m.log, c.id)
           /\ ApplyCommit(c, m).lastSeq = c.snapshot.seq
           /\ ApplyCommit(c, m).uuid = m.uuid
<1> DEFINE a == AddSnapshot(m, c.id, c.snapshot)
<1>1. /\ a.log = m.log /\ a.lastSeq = c.snapshot.seq /\ a.uuid = m.uuid /\ a.current = m.current
      /\ DOMAIN a = DOMAIN m
  BY DEF AddSnapshot, Metadata
<1>2. /\ "log" \in DOMAIN a /\ "current" \in DOMAIN a
      /\ "lastSeq" \in DOMAIN a /\ "uuid" \in DOMAIN a
  BY <1>1 DEF Metadata
<1>3. ApplyCommit(c, m) = SetSnapshotRef(a, c.id)
  BY DEF ApplyCommit
<1> HIDE DEF a
<1>4. SetSnapshotRef(a, c.id) = [a EXCEPT !.current = c.id, !.log = Append(@, c.id)]
  BY <1>1 DEF SetSnapshotRef
<1> QED
  BY <1>1, <1>2, <1>3, <1>4

LEMMA ApplyOtherFields ==
    ASSUME NEW m \in Metadata, NEW c \in ActionCommit, c.kind # "append"
    PROVE  /\ ApplyCommit(c, m).log = m.log
           /\ ApplyCommit(c, m).lastSeq = m.lastSeq
           /\ ApplyCommit(c, m).uuid = m.uuid
BY DEF ApplyCommit, ActionCommit, SetDefaultSortOrder, UpdateProperties, Metadata

(* An append on main with the next number makes a linear history longer. *)
LEMMA AppendIsLinear ==
    ASSUME NEW m \in Metadata, Linear(m), NEW c \in ActionCommit, c.kind = "append",
           c.id \notin KnownIds(m), c.snapshot.parent = m.current,
           FormatVersion # 1 => c.snapshot.seq = m.lastSeq + 1
    PROVE  /\ Linear(ApplyCommit(c, m)) /\ Keeps(m, ApplyCommit(c, m))
           /\ ApplyCommit(c, m).uuid = m.uuid
<1> DEFINE n == ApplyCommit(c, m)
<1>1. m.log \in Seq(SnapshotIds) /\ c.id \in SnapshotIds /\ c.snapshot \in Snapshot
  BY DEF Metadata, ActionCommit
<1>2. \A i \in DOMAIN m.log : m.log[i] \in KnownIds(m) /\ m.log[i] # c.id
  BY DEF Linear
<1>3. m.current # c.id
  <2>1. CASE m.log = << >>
    BY <1>1, <2>1, NoneAssumption DEF Linear
  <2>2. CASE m.log # << >>
    BY <1>1, <1>2, <2>2 DEF Linear
  <2> QED
    BY <2>1, <2>2
<1>4. /\ n.log = Append(m.log, c.id) /\ n.lastSeq = c.snapshot.seq /\ n.uuid = m.uuid
      /\ n.current = c.id /\ KnownIds(n) = KnownIds(m) \cup {c.id}
      /\ n.snapshots = [m.snapshots EXCEPT ![c.id] = c.snapshot]
  BY <1>3, ApplyAppend, ApplyAppendFields
<1> HIDE DEF n
<1>5. m.snapshots \in [SnapshotIds -> Snapshot \cup {None}]
  BY DEF Metadata
<1>6. /\ Len(n.log) = Len(m.log) + 1 /\ n.log # << >>
      /\ DOMAIN n.log = DOMAIN m.log \cup {Len(m.log) + 1}
      /\ n.log[Len(m.log) + 1] = c.id /\ Len(m.log) \in Nat /\ DOMAIN m.log = 1..Len(m.log)
      /\ \A i \in DOMAIN m.log : n.log[i] = m.log[i]
  BY <1>1, <1>4
<1>7. n.snapshots[c.id] = c.snapshot
  BY <1>1, <1>4, <1>5
<1>8. \A id \in KnownIds(m) : n.snapshots[id] = m.snapshots[id]
  BY <1>1, <1>4, <1>5 DEF KnownIds
<1>9. {n.log[i] : i \in DOMAIN n.log} = KnownIds(n)
  BY <1>4, <1>6 DEF Linear
<1>10. \A i \in DOMAIN m.log : n.snapshots[n.log[i]] = m.snapshots[m.log[i]]
  BY <1>2, <1>6, <1>8
<1>11. ASSUME NEW i \in DOMAIN n.log
       PROVE  n.snapshots[n.log[i]].parent = IF i = 1 THEN None ELSE n.log[i - 1]
  <2>1. CASE i \in DOMAIN m.log
    <3>1. m.snapshots[m.log[i]].parent = IF i = 1 THEN None ELSE m.log[i - 1]
      BY <2>1 DEF Linear
    <3>2. i # 1 => n.log[i - 1] = m.log[i - 1]
      BY <1>6, <2>1
    <3> QED
      BY <1>10, <2>1, <3>1, <3>2
  <2>2. CASE i = Len(m.log) + 1
    <3>1. m.log = << >> <=> i = 1
      BY <1>1, <2>2
    <3>2. i # 1 => n.log[i - 1] = m.log[Len(m.log)]
      BY <1>6, <2>2
    <3> QED
      BY <1>6, <1>7, <2>2, <3>1, <3>2 DEF Linear
  <2> QED
    BY <1>6, <2>1, <2>2
<1>12. ASSUME FormatVersion # 1
       PROVE  (\A i \in DOMAIN n.log : n.snapshots[n.log[i]].seq = i) /\ n.lastSeq = Len(n.log)
  <2>1. m.lastSeq = Len(m.log) /\ \A i \in DOMAIN m.log : m.snapshots[m.log[i]].seq = i
    BY <1>12 DEF Linear
  <2> QED
    BY <1>4, <1>6, <1>7, <1>10, <1>12, <2>1
<1> QED
  BY <1>4, <1>6, <1>8, <1>9, <1>11, <1>12 DEF Linear, Keeps, n

(* Every other commit leaves the history as it is. *)
LEMMA OtherIsLinear ==
    ASSUME NEW m \in Metadata, Linear(m), NEW c \in ActionCommit, c.kind # "append"
    PROVE  /\ Linear(ApplyCommit(c, m)) /\ Keeps(m, ApplyCommit(c, m))
           /\ ApplyCommit(c, m).uuid = m.uuid
<1> DEFINE n == ApplyCommit(c, m)
<1>1. /\ n.log = m.log /\ n.lastSeq = m.lastSeq /\ n.uuid = m.uuid
      /\ n.current = m.current /\ n.snapshots = m.snapshots
  BY ApplyOther, ApplyOtherFields
<1> HIDE DEF n
<1>2. KnownIds(n) = KnownIds(m)
  BY <1>1 DEF KnownIds
<1> QED
  BY <1>1, <1>2 DEF Linear, Keeps, n

LEMMA KeepsIsTransitive ==
    ASSUME NEW a, NEW b, NEW c, Keeps(a, b), Keeps(b, c)
    PROVE  Keeps(a, c)
BY DEF Keeps, KnownIds

LEMMA FollowsStill ==
    ASSUME NEW s, NEW a, NEW b, FollowsIn(s, a), Keeps(a, b)
    PROVE  FollowsIn(s, b)
BY NoneAssumption DEF FollowsIn, Keeps, KnownIds

-----------------------------------------------------------------------------
(* How the table may change behind a writer: it grows, or it is another one. *)
Grows ==
    /\ tables <= tables'
    /\ table' # None =>
          \/ table # None /\ table'.uuid = table.uuid /\ Keeps(table, table')
          \/ table'.uuid > tables

LEMMA OtherWriterKept ==
    ASSUME TypeOK, TypeOK', NEW w \in Writers, LinearWriter(w), Grows,
           pc'[w] = pc[w], work'[w] = work[w], staged'[w] = staged[w],
           pc[w] \in {"act", "merge"} => work[w] # None,
           pc[w] = "merge" => UNCHANGED <<table, merge>>
    PROVE  LinearWriter(w)'
<1>1. AppendIndices(w)' = AppendIndices(w)
  BY DEF AppendIndices
<1>2. ASSUME pc[w] \in {"act", "merge"}
      PROVE  Linear(work'[w]) /\ work'[w].uuid <= tables' /\ Based(w)'
  <2>1. Linear(work[w]) /\ work[w].uuid <= tables /\ Based(w)
    BY <1>2 DEF LinearWriter
  <2>2. work[w].uuid \in Nat /\ tables \in Nat /\ tables' \in Nat
    BY <1>2 DEF TypeOK, Metadata
  <2>3. ASSUME table' # None, table'.uuid = work'[w].uuid
        PROVE  table # None /\ table.uuid = work[w].uuid /\ Keeps(table, table')
    BY <2>1, <2>2, <2>3 DEF Grows
  <2>4. ASSUME table' # None, table'.uuid = work'[w].uuid
        PROVE  /\ AppendIndices(w)' = {} => Keeps(work'[w], table')
               /\ \A i \in AppendIndices(w)' :
                     (\A j \in AppendIndices(w)' : i <= j)
                         => FollowsIn(staged'[w][i].snapshot, table')
    BY <1>1, <2>1, <2>3, <2>4, KeepsIsTransitive, FollowsStill DEF Based
  <2>5. Based(w)'
    BY <1>1, <2>1, <2>4 DEF Based
  <2> QED
    BY <2>1, <2>2, <2>5 DEF Grows
<1>3. ASSUME pc[w] = "merge" PROVE MergesLinearly(w)'
  BY <1>1, <1>3 DEF LinearWriter, MergesLinearly
<1> QED
  BY <1>2, <1>3 DEF LinearWriter

(* What staging does to the writer. *)
LEMMA StageEffect ==
    ASSUME TypeOK, NEW w \in Writers, NEW c \in ActionCommit, work[w] # None, Stage(w, c)
    PROVE  LET l == Len(staged[w]) + 1
           IN  /\ work' = [work EXCEPT ![w] = ApplyCommit(c, work[w])]
               /\ work'[w] = ApplyCommit(c, work[w])
               /\ pc' = pc
               /\ \A v \in Writers \ {w} : work'[v] = work[v] /\ staged'[v] = staged[v]
               /\ AppendIndices(w)' =
                      AppendIndices(w) \cup (IF c.kind = "append" THEN {l} ELSE {})
               /\ staged'[w][l] = c
               /\ \A i \in AppendIndices(w) : i < l /\ i \in Nat /\ staged'[w][i] = staged[w][i]
<1> DEFINE m == work[w]
           n == ApplyCommit(c, m)
           l == Len(staged[w]) + 1
<1>1. m \in Metadata /\ staged[w] \in Seq(ActionCommit)
  BY DEF TypeOK
<1>2. c.kind = "append" => n.current = c.id
  BY <1>1, ApplyAppend
<1>3. AddedIds(<<c>>) \subseteq {n.current}
  BY <1>2 DEF AddedIds
<1>4. work' = [work EXCEPT ![w] = n]
  BY <1>3, BuildKeepsLog DEF Stage
<1>5. staged' = [staged EXCEPT ![w] = Append(staged[w], c)]
  BY DEF Stage
<1>6. staged'[w] = Append(staged[w], c)
  BY <1>5 DEF TypeOK
<1>7. AppendIndices(w)' = AppendIndices(w) \cup (IF c.kind = "append" THEN {l} ELSE {})
  BY <1>1, <1>6 DEF AppendIndices
<1>8. /\ staged'[w][l] = c
      /\ \A i \in AppendIndices(w) : i < l /\ i \in Nat /\ staged'[w][i] = staged[w][i]
  BY <1>1, <1>6 DEF AppendIndices
<1>9. work \in [Writers -> Metadata \cup {None}] /\ staged \in [Writers -> Seq(ActionCommit)]
  BY DEF TypeOK
<1> QED
  BY <1>4, <1>5, <1>7, <1>8, <1>9 DEF Stage

LEMMA StageIsLinear ==
    ASSUME TypeOK, NEW w \in Writers, LinearWriter(w), NEW c \in ActionCommit,
           pc[w] = "act", work[w] # None, Stage(w, c), UNCHANGED <<table, tables>>,
           c.kind = "append" =>
               /\ c.id \notin KnownIds(work[w])
               /\ c.snapshot.parent = work[w].current
               /\ c.snapshot.seq = NextSequenceNumber(work[w])
               /\ [type |-> "UuidMatch", uuid |-> work[w].uuid] \in c.reqs
    PROVE  LinearWriter(w)'
<1> DEFINE m == work[w]
           n == ApplyCommit(c, m)
           l == Len(staged[w]) + 1
<1>1. m \in Metadata /\ Linear(m) /\ m.uuid <= tables /\ Based(w)
  BY DEF TypeOK, LinearWriter
<1>2. /\ work'[w] = n /\ pc'[w] = "act" /\ staged'[w][l] = c
      /\ AppendIndices(w)' = AppendIndices(w) \cup (IF c.kind = "append" THEN {l} ELSE {})
      /\ \A i \in AppendIndices(w) : i < l /\ i \in Nat /\ staged'[w][i] = staged[w][i]
  BY StageEffect
<1>3. Linear(n) /\ n.uuid = m.uuid
  <2>1. CASE c.kind = "append"
    <3>1. FormatVersion # 1 => c.snapshot.seq = m.lastSeq + 1
      BY <2>1 DEF NextSequenceNumber
    <3> QED
      BY <1>1, <2>1, <3>1, AppendIsLinear
  <2>2. CASE c.kind # "append"
    BY <1>1, <2>2, OtherIsLinear
  <2> QED
    BY <2>1, <2>2
<1>4. \A i \in AppendIndices(w)' :
         [type |-> "UuidMatch", uuid |-> work'[w].uuid] \in staged'[w][i].reqs
  <2>1. \A i \in AppendIndices(w) : [type |-> "UuidMatch", uuid |-> m.uuid] \in staged[w][i].reqs
    BY <1>1 DEF Based
  <2> QED
    BY <1>2, <1>3, <2>1
<1>5. l \in Nat
  BY DEF TypeOK
<1>6. ASSUME table' # None, table'.uuid = work'[w].uuid
      PROVE  /\ AppendIndices(w)' = {} => Keeps(work'[w], table')
             /\ \A i \in AppendIndices(w)' :
                   (\A j \in AppendIndices(w)' : i <= j)
                       => FollowsIn(staged'[w][i].snapshot, table')
  <2>1. table # None /\ table.uuid = m.uuid
    BY <1>2, <1>3, <1>6
  <2>2. /\ AppendIndices(w) = {} => Keeps(m, table)
        /\ \A i \in AppendIndices(w) :
              (\A j \in AppendIndices(w) : i <= j) => FollowsIn(staged[w][i].snapshot, table)
    BY <1>1, <2>1 DEF Based
  <2>3. CASE c.kind # "append"
    <3>1. n.snapshots = m.snapshots
      BY <1>1, <2>3, ApplyOther
    <3>2. Keeps(m, table) => Keeps(n, table)
      BY <3>1 DEF Keeps, KnownIds
    <3> QED
      BY <1>2, <2>2, <2>3, <3>2
  <2>4. CASE c.kind = "append"
    <3>1. ASSUME NEW i \in AppendIndices(w)', \A j \in AppendIndices(w)' : i <= j
          PROVE  FollowsIn(staged'[w][i].snapshot, table)
      <4>1. CASE i = l
        <5>1. AppendIndices(w) = {}
          BY <1>2, <1>5, <3>1, <4>1
        <5>2. Keeps(m, table)
          BY <2>2, <5>1
        <5>3. /\ m.current \in KnownIds(m) \cup {None}
              /\ FormatVersion # 1 =>
                    m.lastSeq = IF m.current = None THEN 0 ELSE m.snapshots[m.current].seq
          BY <1>1, NumberOfMain
        <5>4. c.snapshot.parent = m.current
              /\ (FormatVersion # 1 => c.snapshot.seq = m.lastSeq + 1)
          BY <2>4 DEF NextSequenceNumber
        <5>5. m.lastSeq \in Nat
          BY <1>1 DEF Metadata
        <5>6. FollowsIn(c.snapshot, m)
          BY <5>3, <5>4, <5>5 DEF FollowsIn
        <5> QED
          BY <1>2, <4>1, <5>2, <5>6, FollowsStill
      <4>2. CASE i # l
        BY <1>2, <2>2, <2>4, <3>1, <4>2
      <4> QED
        BY <4>1, <4>2
    <3> QED
      BY <1>2, <2>4, <3>1
  <2> QED
    BY <2>3, <2>4
<1>7. Based(w)'
  BY <1>4, <1>6 DEF Based
<1> QED
  BY <1>1, <1>2, <1>3, <1>7 DEF LinearWriter

-----------------------------------------------------------------------------
(* One lemma per action: it keeps the histories linear. *)

LEMMA HOthersKept ==
    ASSUME IInv, IInv', HInv, Grows, NEW w \in Writers,
           \A v \in Writers \ {w} :
               /\ pc'[v] = pc[v] /\ work'[v] = work[v] /\ staged'[v] = staged[v]
               /\ pc[v] = "merge" => UNCHANGED <<table, merge>>,
           LinearWriter(w)',
           table' # None => Linear(table') /\ table'.uuid <= tables'
    PROVE  HInv'
<1>1. ASSUME NEW v \in Writers, v # w PROVE LinearWriter(v)'
  <2>1. LinearWriter(v) /\ (pc[v] \in {"act", "merge"} => work[v] # None)
    BY DEF HInv, IInv, WriterInv
  <2> QED
    BY <1>1, <2>1, OtherWriterKept DEF IInv
<1>2. \A v \in Writers : LinearWriter(v)'
  BY <1>1
<1>3. (table # None => Linear(table) /\ table.uuid <= tables)'
  BY DEF Linear, KnownIds
<1> QED
  BY <1>2, <1>3 DEF HInv

(* The table is as it was. *)
LEMMA SameTableGrows ==
    ASSUME TypeOK, UNCHANGED <<table, tables>>
    PROVE  Grows
BY DEF Grows, Keeps, TypeOK

(* Every step that only ends, or restarts, the commit of w. *)
LEMMA HLeaveStep ==
    ASSUME IInv, IInv', HInv, NEW w \in Writers,
           \A v \in Writers \ {w} : pc'[v] = pc[v],
           pc'[w] \notin {"act", "merge"},
           UNCHANGED <<table, tables, merge, work, staged>>
    PROVE  HInv'
<1>1. LinearWriter(w)'
  BY DEF LinearWriter
<1>2. Grows
  BY SameTableGrows DEF IInv
<1> QED
  BY <1>1, <1>2, HOthersKept DEF HInv

LEMMA EndLeaves ==
    ASSUME IInv, NEW w \in Writers, NEW o \in Ended, End(w, o)
    PROVE  /\ pc'[w] \notin {"act", "merge"}
           /\ \A v \in Writers \ {w} : pc'[v] = pc[v]
BY DEF End, Ended, IInv, TypeOK

LEMMA HLoadTableStep ==
    ASSUME IInv, IInv', HInv, NEW w \in Writers, LoadTable(w)
    PROVE  HInv'
<1>1. TypeOK /\ lock = None /\ UNCHANGED <<table, tables, merge>>
  BY DEF LoadTable, IInv
<1>2. \A v \in Writers : pc[v] # "merge"
  BY <1>1, MergerHoldsLock
<1>3. CASE table # None /\ pc' = [pc EXCEPT ![w] = "act"] /\ Rebase(w)
           /\ staged' = [staged EXCEPT ![w] = << >>]
  <2>1. work'[w] = table /\ staged'[w] = << >> /\ pc'[w] = "act"
    BY <1>1, <1>3 DEF TypeOK, Rebase
  <2>2. AppendIndices(w)' = {} /\ Keeps(table, table)
    BY <2>1 DEF AppendIndices, Keeps
  <2>3. LinearWriter(w)'
    BY <1>1, <1>3, <2>1, <2>2 DEF LinearWriter, Based, HInv, Linear, Keeps, KnownIds
  <2>4. \A v \in Writers \ {w} :
           pc'[v] = pc[v] /\ work'[v] = work[v] /\ staged'[v] = staged[v]
    BY <1>1, <1>3 DEF TypeOK, Rebase
  <2> QED
    BY <1>1, <1>2, <2>3, <2>4, SameTableGrows, HOthersKept DEF HInv
<1>4. CASE End(w, "failed") /\ UNCHANGED <<work, staged>>
  BY <1>1, <1>4, EndLeaves, HLeaveStep DEF Ended
<1> QED
  BY <1>3, <1>4 DEF LoadTable

LEMMA HStageStep ==
    ASSUME IInv, IInv', HInv, NEW w \in Writers, pc[w] = "act", work[w] # None,
           NEW c \in ActionCommit, Stage(w, c), UNCHANGED <<table, tables, merge>>,
           c.kind = "append" =>
               /\ c.id \notin KnownIds(work[w])
               /\ c.snapshot.parent = work[w].current
               /\ c.snapshot.seq = NextSequenceNumber(work[w])
               /\ [type |-> "UuidMatch", uuid |-> work[w].uuid] \in c.reqs
    PROVE  HInv'
<1>1. TypeOK /\ LinearWriter(w)
  BY DEF IInv, HInv
<1>2. LinearWriter(w)'
  BY <1>1, StageIsLinear
<1>3. pc' = pc /\ \A v \in Writers \ {w} : work'[v] = work[v] /\ staged'[v] = staged[v]
  BY <1>1, StageEffect
<1> QED
  BY <1>1, <1>2, <1>3, SameTableGrows, HOthersKept DEF HInv

LEMMA HRunActionStep ==
    ASSUME IInv, IInv', HInv, NEW w \in Writers, RunAction(w)
    PROVE  HInv'
<1> DEFINE a == Tx[w][Len(staged[w]) + 1]
           m == work[w]
           uuid == <<w, serial[w], Len(staged[w]) + 1>>
<1>1. TypeOK /\ pc[w] = "act" /\ m # None /\ UNCHANGED <<table, tables, merge>>
  BY DEF RunAction, IInv, WriterInv
<1>2. a \in Actions
  BY <1>1, TxAssumption DEF RunAction, TypeOK
<1>3. m \in Metadata /\ Sound(m)
  BY <1>1 DEF TypeOK, IInv, WriterInv
<1>4. CASE End(w, "failed") /\ UNCHANGED <<work, staged>>
  BY <1>1, <1>4, EndLeaves, HLeaveStep DEF Ended
<1>5. CASE \E id \in SnapshotIds \ KnownIds(m) :
              a.kind = "append" /\ Stage(w, AppendCommit(m, id, uuid, a.files))
  <2>1. PICK id \in SnapshotIds \ KnownIds(m) :
               a.kind = "append" /\ Stage(w, AppendCommit(m, id, uuid, a.files))
    BY <1>5
  <2> DEFINE c == AppendCommit(m, id, uuid, a.files)
  <2>2. uuid \in CommitUuids /\ a.files \in SUBSET Files
    BY <1>1, <1>2, <2>1 DEF TypeOK, CommitUuids, Actions
  <2>3. TotalDataFiles(m, id, a.files) \in Nat
    BY <2>2, FilesAreCounted DEF TotalDataFiles
  <2>4. NewSnapshot(m, id, uuid, a.files) \in Snapshot
    BY <1>3, <2>2, <2>3, NextSequenceNumberType, FilesAreCounted
       DEF NewSnapshot, Snapshot, Metadata
  <2>5. c \in ActionCommit
    BY <1>3, <2>4 DEF AppendCommit, ActionCommit, Requirement, Metadata
  <2>6. /\ c.kind = "append" /\ c.id = id /\ c.snapshot.parent = m.current
        /\ c.snapshot.seq = NextSequenceNumber(m)
        /\ [type |-> "UuidMatch", uuid |-> m.uuid] \in c.reqs
    BY DEF AppendCommit, NewSnapshot
  <2> HIDE DEF c
  <2> QED
    BY <1>1, <2>1, <2>5, <2>6, HStageStep DEF c
<1>6. CASE a.kind = "sort" /\ Stage(w, SortCommit(m, a))
  <2>1. SortCommit(m, a) \in ActionCommit /\ SortCommit(m, a).kind # "append"
    BY <1>2, <1>3, <1>6 DEF SortCommit, ActionCommit, Requirement, Metadata, Actions
  <2> QED
    BY <1>1, <1>6, <2>1, HStageStep
<1>7. CASE a.kind = "props" /\ Stage(w, PropsCommit(w, a))
  <2>1. PropsCommit(w, a) \in ActionCommit /\ PropsCommit(w, a).kind # "append"
    BY <1>2, <1>7 DEF PropsCommit, ActionCommit, Actions
  <2> QED
    BY <1>1, <1>7, <2>1, HStageStep
<1> QED
  BY <1>4, <1>5, <1>6, <1>7
     DEF RunAction, FastAppend, ReplaceSortOrder, UpdateTableProperties

LEMMA HUpdateTableStep ==
    ASSUME IInv, IInv', HInv, NEW w \in Writers, UpdateTable(w)
    PROVE  HInv'
<1>1. TypeOK /\ pc[w] = "act" /\ lock = None /\ UNCHANGED <<table, tables, work, staged>>
  BY DEF UpdateTable, IInv
<1>2. \A v \in Writers : pc[v] # "merge"
  BY <1>1, MergerHoldsLock
<1>3. CASE /\ table # None /\ merge' = [meta |-> table, done |-> 0]
           /\ pc' = [pc EXCEPT ![w] = "merge"]
  <2>1. Linear(work[w]) /\ work[w].uuid <= tables /\ Based(w) /\ Linear(table)
    BY <1>1, <1>3 DEF HInv, LinearWriter
  <2>2. AppendIndices(w)' = AppendIndices(w)
    BY <1>1 DEF AppendIndices
  <2>3. Based(w)'
    BY <1>1, <2>1, <2>2 DEF Based, Keeps, KnownIds
  <2>4. MergesLinearly(w)'
    BY <1>1, <1>3, <2>1 DEF MergesLinearly, Linear, Keeps, KnownIds
  <2>5. LinearWriter(w)'
    BY <1>1, <2>1, <2>3, <2>4 DEF LinearWriter, Linear, KnownIds
  <2>6. \A v \in Writers \ {w} : pc'[v] = pc[v]
    BY <1>1, <1>3 DEF TypeOK
  <2> QED
    BY <1>1, <1>2, <2>5, <2>6, SameTableGrows, HOthersKept DEF HInv
<1>4. CASE pc' = [pc EXCEPT ![w] = "load"] /\ UNCHANGED merge
  <2>1. pc'[w] = "load" /\ \A v \in Writers \ {w} : pc'[v] = pc[v]
    BY <1>1, <1>4 DEF TypeOK
  <2> QED
    BY <1>1, <1>4, <2>1, HLeaveStep
<1>5. ASSUME NEW o \in Ended, End(w, o), UNCHANGED merge PROVE HInv'
  BY <1>1, <1>5, EndLeaves, HLeaveStep
<1> QED
  BY <1>3, <1>4, <1>5 DEF UpdateTable, Conflict, Ended

(* The append that is merged follows main of the table that was checked. *)
LEMMA MergedAppendFollows ==
    ASSUME IInv, HInv, NEW w \in Writers, pc[w] = "merge",
           NEW i \in AppendIndices(w), merge.done < i
    PROVE  LET s == staged[w][i].snapshot
           IN  /\ s.parent = merge.meta.current
               /\ FormatVersion # 1 => s.seq = merge.meta.lastSeq + 1
<1> DEFINE s == staged[w][i].snapshot
<1>1. /\ TypeOK /\ Merging(w) /\ Chained(w) /\ Based(w) /\ MergesLinearly(w)
      /\ table \in Metadata /\ Linear(table) /\ staged[w] \in Seq(ActionCommit)
  BY DEF IInv, HInv, WriterInv, LinearWriter, Merging, TypeOK
<1>2. /\ [type |-> "RefSnapshotIdMatch", snapshot |-> s.parent] \in staged[w][i].reqs
      /\ [type |-> "UuidMatch", uuid |-> work[w].uuid] \in staged[w][i].reqs
  BY <1>1 DEF Chained, Based
<1>3. \A r \in staged[w][i].reqs : Holds(r, table)
  BY <1>1 DEF Merging, AllHold, AppendIndices
<1>4. table.current = s.parent /\ table.uuid = work[w].uuid
  BY <1>2, <1>3 DEF Holds
<1>5. \A j \in AppendIndices(w) : j = i
  BY <1>1, OneAppendHolds DEF Merging
<1>6. i \in Nat /\ merge.done \in Nat
  BY <1>1 DEF AppendIndices, TypeOK
<1>7. /\ merge.meta.current = table.current /\ merge.meta.lastSeq = table.lastSeq
  BY <1>1, <1>5, <1>6 DEF MergesLinearly
<1>8. FollowsIn(s, table)
  BY <1>1, <1>4, <1>5, <1>6 DEF Based, Merging
<1>9. FormatVersion # 1 => s.seq = 1 + table.lastSeq
  BY <1>1, <1>4, <1>8, NumberOfMain DEF FollowsIn
<1>10. table.lastSeq \in Nat
  BY <1>1 DEF Metadata
<1> QED
  BY <1>4, <1>7, <1>9, <1>10

LEMMA HApplyUpdatesStep ==
    ASSUME IInv, IInv', HInv, NEW w \in Writers, ApplyUpdates(w)
    PROVE  HInv'
<1> DEFINE c == staged[w][merge.done + 1]
           m == merge.meta
           n == ApplyCommit(c, m)
<1>1. /\ TypeOK /\ pc[w] = "merge" /\ merge.done < Len(staged[w])
      /\ UNCHANGED <<tables, work, staged>>
  BY DEF ApplyUpdates, IInv
<1>2. /\ Merging(w) /\ MergesLinearly(w) /\ Linear(work[w]) /\ work[w].uuid <= tables
      /\ Based(w) /\ m \in Metadata
  BY <1>1 DEF IInv, WriterInv, HInv, LinearWriter, Merging, TypeOK
<1>3. \A v \in Writers \ {w} : pc[v] # "merge"
  BY <1>1, MergerHoldsLock
<1>4. AppendIndices(w)' = AppendIndices(w)
  BY <1>1 DEF AppendIndices
<1>5. CASE CanApply(c, m) /\ MergeCommit(c) /\ UNCHANGED <<pc, lock>>
  <2>1. merge.done + 1 \in DOMAIN staged[w] /\ c \in ActionCommit /\ merge.done \in Nat
    BY <1>1 DEF TypeOK
  <2>2. merge'.meta = n /\ merge'.done = merge.done + 1 /\ table' = table
    BY <1>5 DEF MergeCommit
  <2>3. Linear(m) /\ m.uuid = table.uuid /\ Keeps(table, m)
    BY <1>2 DEF MergesLinearly
  <2>4. /\ Linear(n) /\ Keeps(m, n) /\ n.uuid = m.uuid
        /\ c.kind # "append" =>
               n.snapshots = m.snapshots /\ n.current = m.current /\ n.lastSeq = m.lastSeq
    <3>1. CASE c.kind = "append"
      <4>1. merge.done + 1 \in AppendIndices(w)
        BY <2>1, <3>1 DEF AppendIndices
      <4>2. merge.done < merge.done + 1
        BY <2>1
      <4>3. /\ c.snapshot.parent = m.current
            /\ FormatVersion # 1 => c.snapshot.seq = m.lastSeq + 1
        BY <1>1, <4>1, <4>2, MergedAppendFollows
      <4>4. c.id \notin KnownIds(m)
        BY <1>5, <3>1 DEF CanApply, CanAddSnapshot
      <4> HIDE DEF c, m
      <4> QED
        BY <1>2, <2>1, <2>3, <3>1, <4>3, <4>4, AppendIsLinear DEF m
    <3>2. CASE c.kind # "append"
      <4> HIDE DEF c, m
      <4> QED
        BY <1>2, <2>1, <2>3, <3>2, OtherIsLinear, ApplyOther, ApplyOtherFields DEF m
    <3> QED
      BY <3>1, <3>2
  <2>5. Keeps(table, n)
    BY <2>3, <2>4, KeepsIsTransitive
  <2>6. ASSUME \A i \in AppendIndices(w) : ~(i <= merge.done + 1)
        PROVE  /\ n.snapshots = table.snapshots /\ n.current = table.current
               /\ n.lastSeq = table.lastSeq
    <3>1. merge.done + 1 \notin AppendIndices(w)
      BY <2>1, <2>6
    <3>2. c.kind # "append"
      BY <2>1, <3>1 DEF AppendIndices
    <3>3. \A i \in AppendIndices(w) : ~(i <= merge.done)
      BY <1>1, <2>1, <2>6 DEF AppendIndices, TypeOK
    <3> QED
      BY <1>2, <2>4, <3>2, <3>3 DEF MergesLinearly
  <2> HIDE DEF n
  <2>7. MergesLinearly(w)'
    BY <1>4, <2>2, <2>3, <2>4, <2>5, <2>6 DEF MergesLinearly, Linear, Keeps, KnownIds
  <2>8. Based(w)'
    BY <1>1, <1>2, <1>4, <2>2 DEF Based, Keeps, KnownIds
  <2>9. LinearWriter(w)'
    BY <1>1, <1>2, <2>7, <2>8 DEF LinearWriter, Linear, KnownIds
  <2> QED
    BY <1>1, <1>3, <1>5, <2>2, <2>9, SameTableGrows, HOthersKept DEF HInv
<1>6. CASE End(w, "failed") /\ UNCHANGED <<table, merge>>
  BY <1>1, <1>6, EndLeaves, HLeaveStep DEF Ended
<1> QED
  BY <1>5, <1>6 DEF ApplyUpdates

LEMMA HWriteMetadataStep ==
    ASSUME IInv, IInv', HInv, NEW w \in Writers, WriteMetadata(w)
    PROVE  HInv'
<1>1. /\ TypeOK /\ pc[w] = "merge" /\ merge.done = Len(staged[w])
      /\ UNCHANGED <<tables, merge, work, staged>>
  BY DEF WriteMetadata, IInv
<1>2. Merging(w) /\ MergesLinearly(w)
  BY <1>1 DEF IInv, WriterInv, HInv, LinearWriter
<1>3. \A v \in Writers \ {w} : pc[v] # "merge"
  BY <1>1, MergerHoldsLock
<1>4. ASSUME NEW o \in Ended, End(w, o), FlipPointer(w) PROVE HInv'
  <2>1. table' = merge.meta
    BY <1>1, <1>4, PublishedTable
  <2>2. Linear(table') /\ table'.uuid = table.uuid /\ Keeps(table, table')
    BY <1>2, <2>1 DEF MergesLinearly
  <2>3. table # None /\ table.uuid <= tables /\ tables' = tables
    BY <1>1, <1>2 DEF Merging, HInv
  <2>4. tables \in Nat
    BY <1>1 DEF TypeOK
  <2>5. Grows
    BY <2>2, <2>3, <2>4 DEF Grows
  <2>6. LinearWriter(w)'
    BY <1>4, EndLeaves DEF LinearWriter
  <2> QED
    BY <1>1, <1>3, <1>4, <2>2, <2>3, <2>5, <2>6, EndLeaves, HOthersKept
<1>5. CASE FailToWrite(w)
  BY <1>1, <1>5, EndLeaves, HLeaveStep DEF FailToWrite, Ended
<1> QED
  BY <1>4, <1>5 DEF WriteMetadata, Ended

LEMMA HCatalogStep ==
    ASSUME IInv, IInv', HInv, DropTable \/ CreateTable
    PROVE  HInv'
<1>1. TypeOK /\ lock = None /\ UNCHANGED <<merge, pc, work, staged>>
  BY DEF DropTable, CreateTable, IInv
<1>2. \A v \in Writers : pc[v] # "merge"
  BY <1>1, MergerHoldsLock
<1>3. tables \in Nat
  BY <1>1 DEF TypeOK
<1>4. Grows /\ (table' # None => Linear(table') /\ table'.uuid <= tables')
  <2>1. CASE DropTable
    BY <1>3, <2>1 DEF DropTable, Grows
  <2>2. CASE CreateTable
    BY <1>3, <2>2, NewMetadataIsLinear DEF CreateTable, Grows
  <2> QED
    BY <2>1, <2>2
<1>5. ASSUME NEW v \in Writers PROVE LinearWriter(v)'
  <2>1. LinearWriter(v) /\ (pc[v] \in {"act", "merge"} => work[v] # None)
    BY DEF HInv, IInv, WriterInv
  <2> QED
    BY <1>1, <1>2, <1>4, <2>1, OtherWriterKept DEF IInv
<1>6. (table # None => Linear(table) /\ table.uuid <= tables)'
  BY <1>4 DEF Linear, KnownIds
<1> QED
  BY <1>5, <1>6 DEF HInv

LEMMA StepKeepsHInv == IInv /\ IInv' /\ HInv /\ [Next]_vars => HInv'
<1> SUFFICES ASSUME IInv, IInv', HInv, [Next]_vars PROVE HInv'
  OBVIOUS
<1>1. ASSUME NEW w \in Writers, Step(w) PROVE HInv'
  BY <1>1, HLoadTableStep, HRunActionStep, HUpdateTableStep, HApplyUpdatesStep,
     HWriteMetadataStep DEF Step
<1>2. ASSUME NEW w \in Writers, Cancel(w) PROVE HInv'
  BY <1>2, EndLeaves, HLeaveStep DEF Cancel, Ended
<1>3. ASSUME NEW w \in Writers, Resubmit(w) PROVE HInv'
  <2>1. pc'[w] = "load" /\ \A v \in Writers \ {w} : pc'[v] = pc[v]
    BY <1>3 DEF Resubmit, IInv, TypeOK
  <2> QED
    BY <1>3, <2>1, HLeaveStep DEF Resubmit
<1>4. CASE DropTable \/ CreateTable
  BY <1>4, HCatalogStep
<1>5. CASE Finished \/ UNCHANGED vars
  <2>1. UNCHANGED vars
    BY <1>5 DEF Finished
  <2>2. UNCHANGED <<table, tables, merge, pc, work, staged>>
    BY <2>1 DEF vars
  <2>3. Grows
    BY <2>2, SameTableGrows DEF IInv
  <2>4. ASSUME NEW v \in Writers PROVE LinearWriter(v)'
    <3>1. LinearWriter(v) /\ (pc[v] \in {"act", "merge"} => work[v] # None)
      BY DEF HInv, IInv, WriterInv
    <3> QED
      BY <2>2, <2>3, <3>1, OtherWriterKept DEF IInv
  <2>5. (table # None => Linear(table) /\ table.uuid <= tables)'
    BY <2>2 DEF HInv, Linear, KnownIds
  <2> QED
    BY <2>4, <2>5 DEF HInv
<1> QED
  BY <1>1, <1>2, <1>3, <1>4, <1>5 DEF Next

LEMMA HInvHolds == Spec => []HInv
<1>1. Init => HInv
  BY NewMetadataIsLinear DEF Init, HInv, LinearWriter
<1>2. IInv /\ IInv' /\ HInv /\ [Next]_vars => HInv'
  BY StepKeepsHInv
<1> QED
  BY <1>1, <1>2, IInvHolds, PTL DEF Spec

(* The snapshots of the table form one line, each the parent of the next    *)
(* and with the next sequence number: concurrent fast appends, retries and  *)
(* failures never fork the history, and never number two snapshots alike.   *)
THEOREM HistoryIsLinear == Spec => []LinearHistory
<1>1. HInv => LinearHistory
  BY DEF HInv, Linear, LinearHistory
<1> QED
  BY <1>1, HInvHolds, PTL

(* As long as the table is the same one, it keeps every snapshot it had.    *)
THEOREM SnapshotsAreKept ==
    Spec => [][table # None /\ table' # None /\ table'.uuid = table.uuid
                => Keeps(table, table')]_vars
<1>1. ASSUME IInv, HInv, [Next]_vars, table # None, table' # None, table'.uuid = table.uuid
      PROVE  Keeps(table, table')
  <2>1. TypeOK /\ table.uuid <= tables /\ table.uuid \in Nat /\ tables \in Nat
    BY <1>1 DEF IInv, HInv, TypeOK, Metadata
  <2>2. CASE \E w \in Writers : WriteMetadata(w) /\ FlipPointer(w)
    <3>1. PICK w \in Writers : WriteMetadata(w) /\ FlipPointer(w)
      BY <2>2
    <3>2. table' = merge.meta /\ MergesLinearly(w)
      BY <1>1, <3>1, PublishedTable DEF WriteMetadata, HInv, LinearWriter
    <3> QED
      BY <3>2 DEF MergesLinearly
  <2>3. CASE table' = table
    BY <2>3 DEF Keeps
  <2>4. CASE CreateTable
    BY <1>1, <2>4 DEF CreateTable
  <2>5. CASE DropTable
    BY <1>1, <2>5 DEF DropTable
  <2> QED
    BY <1>1, <2>2, <2>3, <2>4, <2>5 DEF Next, Step, LoadTable, RunAction, UpdateTable,
       ApplyUpdates, MergeCommit, WriteMetadata, FailToWrite, Cancel, Resubmit, Finished, vars
<1> QED
  BY <1>1, IInvHolds, HInvHolds, PTL DEF Spec

-----------------------------------------------------------------------------
(***************************************************************************)
(* Retention.  A manifest list is written under a name never used before,   *)
(* so it keeps what it was given: the manifests of the parent and the new   *)
(* one.  The append is merged only while its parent is main, and that is    *)
(* the snapshot whose list was carried over, so main reaches all it         *)
(* reached.  In format version 3 the first row id of a snapshot is where    *)
(* its parent ends, for the same reason.                                    *)
(***************************************************************************)

(* The manifests of the current snapshot of m, when storage holds L. *)
Reached(L, m) == IF m.current = None THEN {} ELSE L[m.snapshots[m.current].list]

RowsEnd(mf) == mf.first + Cardinality(mf.files)

(* Where the row ids of the snapshot end. *)
EndRow(m, id) ==
    IF id = None THEN 0 ELSE m.snapshots[id].first + m.snapshots[id].added

(* The manifests of s use only row ids below its end. *)
Tight(L, s) == \A mf \in L[s.list] : RowsEnd(mf) <= s.first + s.added

(* The row ids of m are given up to the end of main, and none beyond. *)
Numbered(L, m) ==
    FormatVersion = 3 =>
        /\ m.nextRow = EndRow(m, m.current)
        /\ \A id \in KnownIds(m) : Tight(L, m.snapshots[id])

(* s carries the manifests of its parent and continues its row ids. *)
Carries(L, s, m) ==
    /\ s.parent # None => L[m.snapshots[s.parent].list] \subseteq L[s.list]
    /\ FormatVersion = 3 => s.first = EndRow(m, s.parent)

(* The manifests of one list: none is empty, no two share a row id, and no  *)
(* two share a file when every append looks for duplicates.                 *)
EveryAppendChecks ==
    \A w \in Writers : \A i \in DOMAIN Tx[w] :
        Tx[w][i].kind = "append" => Tx[w][i].checkDuplicate

GoodList(mfs) ==
    /\ \A mf \in mfs : mf.files # {}
    /\ FormatVersion = 3 =>
          \A a, b \in mfs : a # b => RowsEnd(a) <= b.first \/ RowsEnd(b) <= a.first
    /\ EveryAppendChecks => \A a, b \in mfs : a # b => a.files \cap b.files = {}

(* The next commit uuid of a writer is not in use. *)
Fresh ==
    \A u \in DOMAIN lists :
        \/ u[2] < serial[u[1]]
        \/ (u[2] = serial[u[1]] /\ u[3] <= Len(staged[u[1]]))

FirstCarries(w) ==
    table # None /\ table.uuid = work[w].uuid =>
        \A i \in AppendIndices(w) :
            (\A j \in AppendIndices(w) : i <= j) => Carries(lists, staged[w][i].snapshot, table)

StagedTight(w) ==
    FormatVersion = 3 => \A i \in AppendIndices(w) : Tight(lists, staged[w][i].snapshot)

MergesAll(w) ==
    /\ Reached(lists, table) \subseteq Reached(lists, merge.meta)
    /\ Numbered(lists, merge.meta)
    /\ (\A i \in AppendIndices(w) : ~(i <= merge.done)) => merge.meta.nextRow = table.nextRow

RetainingWriter(w) ==
    /\ pc[w] \in {"act", "merge"} =>
          Numbered(lists, work[w]) /\ FirstCarries(w) /\ StagedTight(w)
    /\ pc[w] = "merge" => MergesAll(w)

RInv ==
    /\ Fresh
    /\ \A u \in DOMAIN lists : GoodList(lists[u])
    /\ table # None => Numbered(lists, table)
    /\ \A w \in Writers : RetainingWriter(w)

-----------------------------------------------------------------------------
(* Storage only gains lists. *)
StorageGrows(L, M) == \A u \in DOMAIN L : u \in DOMAIN M /\ M[u] = L[u]

(* Every snapshot of m has its list in L. *)
Listed(L, m) ==
    /\ m.current \in KnownIds(m) \cup {None}
    /\ \A id \in KnownIds(m) : m.snapshots[id].list \in DOMAIN L

LEMMA SoundIsListed ==
    ASSUME NEW m, Sound(m)
    PROVE  Listed(lists, m)
BY DEF Sound, Listed

LEMMA NumberedStill ==
    ASSUME NEW L, NEW M, NEW m, Listed(L, m), StorageGrows(L, M), Numbered(L, m)
    PROVE  Numbered(M, m)
BY DEF Listed, StorageGrows, Numbered, Tight

LEMMA ReachedStill ==
    ASSUME NEW L, NEW M, NEW m, Listed(L, m), StorageGrows(L, M)
    PROVE  Reached(M, m) = Reached(L, m)
BY NoneAssumption DEF Listed, StorageGrows, Reached

LEMMA TightStill ==
    ASSUME NEW L, NEW M, NEW s, s.list \in DOMAIN L, StorageGrows(L, M), Tight(L, s)
    PROVE  Tight(M, s)
BY DEF StorageGrows, Tight

LEMMA CarriesStill ==
    ASSUME NEW L, NEW M, NEW s, NEW a, NEW b, StorageGrows(L, M), Keeps(a, b), Listed(L, a),
           s.parent \in KnownIds(a) \cup {None}, s.list \in DOMAIN L, Carries(L, s, a)
    PROVE  Carries(M, s, b)
<1>1. CASE s.parent = None
  BY <1>1 DEF Carries, EndRow
<1>2. CASE s.parent # None
  <2>1. s.parent \in KnownIds(a) /\ b.snapshots[s.parent] = a.snapshots[s.parent]
    BY <1>2 DEF Keeps
  <2>2. a.snapshots[s.parent].list \in DOMAIN L
    BY <2>1 DEF Listed
  <2> QED
    BY <1>2, <2>1, <2>2 DEF Carries, EndRow, StorageGrows
<1> QED
  BY <1>1, <1>2

-----------------------------------------------------------------------------
(* What an append adds to the table it is based on. *)
LEMMA ManifestListIsGood ==
    ASSUME TypeOK, NEW m \in Metadata, Sound(m), Numbered(lists, m),
           NEW uuid \in CommitUuids, NEW F \in SUBSET Files, F # {},
           m.current # None => GoodList(lists[m.snapshots[m.current].list]),
           EveryAppendChecks => F \cap FilesOf(m) = {}
    PROVE  LET mfs == ManifestList(m, uuid, F)
           IN  /\ GoodList(mfs)
               /\ Reached(lists, m) \subseteq mfs
               /\ FormatVersion = 3 =>
                     \A mf \in mfs : RowsEnd(mf) <= m.nextRow + Cardinality(F)
<1> DEFINE old == Reached(lists, m)
           new == AddedManifest(m, uuid, F)
           mfs == ManifestList(m, uuid, F)
<1>1. ManifestsOf(m) = old /\ GoodList(old)
  BY DEF ManifestsOf, Reached, GoodList
<1>2. mfs = old \cup {new}
  BY <1>1 DEF ManifestList, GoodList
<1>3. /\ new.files = F
      /\ FormatVersion = 3 => new.first = m.nextRow
  BY DEF AddedManifest
<1>4. Cardinality(F) \in Nat /\ m.nextRow \in Nat
  BY FilesAreCounted DEF Metadata
<1>5. ASSUME NEW mf \in old
      PROVE  /\ mf.first \in Nat /\ Cardinality(mf.files) \in Nat
             /\ FormatVersion = 3 => RowsEnd(mf) <= m.nextRow
             /\ EveryAppendChecks => mf.files \cap F = {}
  <2>1. mf \in Manifest
    BY <1>1, ManifestsOfType
  <2>2. mf.first \in Nat /\ Cardinality(mf.files) \in Nat
    BY <2>1, FilesAreCounted DEF Manifest
  <2>3. m.current # None /\ m.current \in KnownIds(m)
    BY DEF Reached, Sound
  <2>4. FormatVersion = 3 => RowsEnd(mf) <= m.nextRow
    BY <2>3 DEF Numbered, Tight, EndRow, Reached
  <2>5. EveryAppendChecks => mf.files \cap F = {}
    BY <1>1 DEF FilesOf
  <2> QED
    BY <2>2, <2>4, <2>5
<1>6. FormatVersion = 3 => RowsEnd(new) = m.nextRow + Cardinality(F)
  BY <1>3 DEF RowsEnd
<1> HIDE DEF old, new, mfs
<1>7. \A mf \in mfs : mf.files # {}
  BY <1>1, <1>2, <1>3 DEF GoodList
<1>8. ASSUME FormatVersion = 3, NEW a \in mfs, NEW b \in mfs, a # b
      PROVE  RowsEnd(a) <= b.first \/ RowsEnd(b) <= a.first
  BY <1>1, <1>2, <1>3, <1>5, <1>8 DEF GoodList
<1>9. ASSUME EveryAppendChecks, NEW a \in mfs, NEW b \in mfs, a # b
      PROVE  a.files \cap b.files = {}
  BY <1>1, <1>2, <1>3, <1>5, <1>9 DEF GoodList
<1>10. GoodList(mfs)
  BY <1>7, <1>8, <1>9 DEF GoodList
<1>11. ASSUME FormatVersion = 3, NEW mf \in mfs
       PROVE  RowsEnd(mf) <= m.nextRow + Cardinality(F)
  <2>1. RowsEnd(new) = m.nextRow + Cardinality(F)
    BY <1>6, <1>11
  <2>2. CASE mf \in old
    <3>1. RowsEnd(mf) <= m.nextRow /\ RowsEnd(mf) \in Int
      BY <1>5, <1>11, <2>2 DEF RowsEnd
    <3> QED
      BY <1>4, <3>1
  <2> QED
    BY <1>2, <1>4, <2>1, <2>2
<1> QED
  BY <1>2, <1>10, <1>11 DEF mfs, old

LEMMA AppendedRows ==
    ASSUME NEW m \in Metadata, NEW c \in ActionCommit, c.kind = "append"
    PROVE  FormatVersion = 3 => ApplyCommit(c, m).nextRow = m.nextRow + c.snapshot.added
<1> DEFINE a == AddSnapshot(m, c.id, c.snapshot)
<1>1. FormatVersion = 3 => a.nextRow = m.nextRow + c.snapshot.added
  BY DEF AddSnapshot, Metadata
<1>2. DOMAIN a = DOMAIN m /\ "nextRow" \in DOMAIN a /\ "log" \in DOMAIN a /\ "current" \in DOMAIN a
  BY DEF AddSnapshot, Metadata
<1>3. ApplyCommit(c, m) = SetSnapshotRef(a, c.id)
  BY DEF ApplyCommit
<1> HIDE DEF a
<1>4. SetSnapshotRef(a, c.id).nextRow = a.nextRow
  BY <1>2 DEF SetSnapshotRef
<1> QED
  BY <1>1, <1>3, <1>4

LEMMA OtherRows ==
    ASSUME NEW m \in Metadata, NEW c \in ActionCommit, c.kind # "append"
    PROVE  ApplyCommit(c, m).nextRow = m.nextRow
BY DEF ApplyCommit, ActionCommit, SetDefaultSortOrder, UpdateProperties, Metadata

(* An append that starts where the row ids end keeps them in order. *)
LEMMA AppendIsNumbered ==
    ASSUME NEW L, NEW m \in Metadata, Numbered(L, m),
           NEW c \in ActionCommit, c.kind = "append", c.id \notin KnownIds(m),
           FormatVersion = 3 => c.snapshot.first = m.nextRow /\ Tight(L, c.snapshot)
    PROVE  /\ Numbered(L, ApplyCommit(c, m))
           /\ Reached(L, ApplyCommit(c, m)) = L[c.snapshot.list]
<1> DEFINE n == ApplyCommit(c, m)
<1>1. /\ n.current = c.id /\ KnownIds(n) = KnownIds(m) \cup {c.id}
      /\ n.snapshots = [m.snapshots EXCEPT ![c.id] = c.snapshot]
      /\ FormatVersion = 3 => n.nextRow = m.nextRow + c.snapshot.added
  BY ApplyAppend, AppendedRows
<1>2. c.id \in SnapshotIds /\ c.id # None
  BY NoneAssumption DEF ActionCommit
<1>3. m.snapshots \in [SnapshotIds -> Snapshot \cup {None}]
  BY DEF Metadata
<1> HIDE DEF n
<1>4. n.snapshots[c.id] = c.snapshot
  BY <1>1, <1>2, <1>3
<1>5. \A id \in KnownIds(m) : n.snapshots[id] = m.snapshots[id]
  BY <1>1, <1>2, <1>3 DEF KnownIds
<1> QED
  BY <1>1, <1>2, <1>4, <1>5 DEF Numbered, Reached, EndRow, n

LEMMA OtherIsNumbered ==
    ASSUME NEW L, NEW m \in Metadata, Numbered(L, m), NEW c \in ActionCommit, c.kind # "append"
    PROVE  /\ Numbered(L, ApplyCommit(c, m))
           /\ Reached(L, ApplyCommit(c, m)) = Reached(L, m)
<1> DEFINE n == ApplyCommit(c, m)
<1>1. n.current = m.current /\ n.snapshots = m.snapshots /\ n.nextRow = m.nextRow
  BY ApplyOther, OtherRows
<1> HIDE DEF n
<1> QED
  BY <1>1 DEF Numbered, Reached, EndRow, KnownIds, n

-----------------------------------------------------------------------------
(* The other writers, when the table grows or is replaced. *)
LEMMA ROtherWriterKept ==
    ASSUME IInv, HInv, Grows, StorageGrows(lists, lists'), TypeOK',
           NEW w \in Writers, RetainingWriter(w),
           pc'[w] = pc[w], work'[w] = work[w], staged'[w] = staged[w],
           pc[w] = "merge" => UNCHANGED <<table, merge>>
    PROVE  RetainingWriter(w)'
<1>1. AppendIndices(w)' = AppendIndices(w)
  BY DEF AppendIndices
<1>2. ASSUME pc[w] \in {"act", "merge"}
      PROVE  Numbered(lists', work'[w]) /\ FirstCarries(w)' /\ StagedTight(w)'
  <2>1. /\ work[w] # None /\ Sound(work[w]) /\ Chained(w)
        /\ work[w].uuid <= tables /\ Based(w)
        /\ Numbered(lists, work[w]) /\ FirstCarries(w) /\ StagedTight(w)
    BY <1>2 DEF IInv, WriterInv, HInv, LinearWriter, RetainingWriter
  <2>2. Numbered(lists', work[w])
    BY <2>1, SoundIsListed, NumberedStill
  <2>3. \A i \in AppendIndices(w) : staged[w][i].snapshot.list \in DOMAIN lists
    BY <2>1 DEF Chained
  <2>4. StagedTight(w)'
    BY <1>1, <2>1, <2>3, TightStill DEF StagedTight
  <2>5. ASSUME table' # None, table'.uuid = work'[w].uuid,
               NEW i \in AppendIndices(w), \A j \in AppendIndices(w) : i <= j
        PROVE  Carries(lists', staged[w][i].snapshot, table')
    <3>1. work[w].uuid \in Nat /\ tables \in Nat
      BY <2>1 DEF IInv, TypeOK, Metadata
    <3>2. table # None /\ table.uuid = work[w].uuid /\ Keeps(table, table')
      BY <2>1, <2>5, <3>1 DEF Grows
    <3>3. Carries(lists, staged[w][i].snapshot, table)
      BY <2>1, <2>5, <3>2 DEF FirstCarries
    <3>4. FollowsIn(staged[w][i].snapshot, table)
      BY <2>1, <2>5, <3>2 DEF Based
    <3>5. Listed(lists, table)
      BY <3>2, SoundIsListed DEF IInv
    <3> QED
      BY <2>3, <3>2, <3>3, <3>4, <3>5, CarriesStill DEF FollowsIn
  <2>6. FirstCarries(w)'
    BY <1>1, <2>5 DEF FirstCarries
  <2> QED
    BY <2>2, <2>4, <2>6
<1>3. ASSUME pc[w] = "merge" PROVE MergesAll(w)'
  <2>1. MergesAll(w) /\ Sound(merge.meta) /\ Sound(table) /\ UNCHANGED <<table, merge>>
    BY <1>3 DEF RetainingWriter, IInv, WriterInv, Merging
  <2>2. /\ Reached(lists', table) = Reached(lists, table)
        /\ Reached(lists', merge.meta) = Reached(lists, merge.meta)
        /\ Numbered(lists', merge.meta)
    BY <2>1, SoundIsListed, NumberedStill, ReachedStill DEF MergesAll
  <2> QED
    BY <1>1, <2>1, <2>2 DEF MergesAll
<1> QED
  BY <1>2, <1>3 DEF RetainingWriter

LEMMA ROthersKept ==
    ASSUME IInv, TypeOK', HInv, RInv, Grows, StorageGrows(lists, lists'), NEW w \in Writers,
           \A v \in Writers \ {w} :
               /\ pc'[v] = pc[v] /\ work'[v] = work[v] /\ staged'[v] = staged[v]
               /\ pc[v] = "merge" => UNCHANGED <<table, merge>>,
           RetainingWriter(w)', Fresh',
           \A u \in DOMAIN lists' : GoodList(lists'[u]),
           table' # None => Numbered(lists', table')
    PROVE  RInv'
<1>1. ASSUME NEW v \in Writers, v # w PROVE RetainingWriter(v)'
  BY <1>1, ROtherWriterKept DEF RInv
<1>2. \A v \in Writers : RetainingWriter(v)'
  BY <1>1
<1>3. (table # None => Numbered(lists, table))'
  OBVIOUS
<1>4. (\A u \in DOMAIN lists : GoodList(lists[u]))'
  BY DEF GoodList, EveryAppendChecks
<1> QED
  BY <1>2, <1>3, <1>4 DEF RInv

LEMMA SameStorageGrows == StorageGrows(lists, lists)
BY DEF StorageGrows

(* A step of w that writes no list, and does not change what w has staged.   *)
LEMMA RQuietStep ==
    ASSUME IInv, TypeOK', HInv, RInv, Grows, NEW w \in Writers,
           \A v \in Writers \ {w} : pc'[v] = pc[v],
           \A v \in Writers \ {w} : pc[v] = "merge" => UNCHANGED <<table, merge>>,
           UNCHANGED <<lists, work, staged, serial>>,
           RetainingWriter(w)', table' # None => Numbered(lists, table')
    PROVE  RInv'
<1>1. StorageGrows(lists, lists')
  BY SameStorageGrows
<1>2. Fresh' /\ \A u \in DOMAIN lists' : GoodList(lists'[u])
  BY DEF RInv, Fresh
<1> QED
  BY <1>1, <1>2, ROthersKept

LEMMA RLeaveStep ==
    ASSUME IInv, TypeOK', HInv, RInv, NEW w \in Writers,
           \A v \in Writers \ {w} : pc'[v] = pc[v],
           pc'[w] \notin {"act", "merge"},
           UNCHANGED <<table, tables, merge, lists, work, staged, serial>>
    PROVE  RInv'
<1>1. RetainingWriter(w)'
  BY DEF RetainingWriter
<1>2. Grows
  BY SameTableGrows DEF IInv
<1> QED
  BY <1>1, <1>2, RQuietStep DEF RInv

-----------------------------------------------------------------------------
(* Staging one more ActionCommit. *)
LEMMA StageRetains ==
    ASSUME IInv, HInv, RInv, NEW w \in Writers, pc[w] = "act", work[w] # None,
           NEW c \in ActionCommit, Stage(w, c), UNCHANGED <<table, tables>>,
           StorageGrows(lists, lists'),
           c.kind = "append" =>
               /\ c.id \notin KnownIds(work[w]) /\ c.snapshot.parent = work[w].current
               /\ c.snapshot.list \in DOMAIN lists'
               /\ Reached(lists, work[w]) \subseteq lists'[c.snapshot.list]
               /\ FormatVersion = 3 =>
                     c.snapshot.first = work[w].nextRow /\ Tight(lists', c.snapshot)
    PROVE  RetainingWriter(w)'
<1> DEFINE m == work[w]
           n == ApplyCommit(c, m)
           l == Len(staged[w]) + 1
           s == c.snapshot
<1>1. /\ TypeOK /\ m \in Metadata /\ Sound(m) /\ Chained(w) /\ Linear(m) /\ Based(w)
      /\ Numbered(lists, m) /\ FirstCarries(w) /\ StagedTight(w)
  BY DEF IInv, TypeOK, WriterInv, HInv, LinearWriter, RInv, RetainingWriter
<1>2. /\ work'[w] = n /\ pc'[w] = "act" /\ staged'[w][l] = c
      /\ AppendIndices(w)' = AppendIndices(w) \cup (IF c.kind = "append" THEN {l} ELSE {})
      /\ \A i \in AppendIndices(w) : i < l /\ i \in Nat /\ staged'[w][i] = staged[w][i]
  BY <1>1, StageEffect
<1>3. Listed(lists, m) /\ Listed(lists', m) /\ Numbered(lists', m)
  <2>1. Listed(lists, m)
    BY <1>1, SoundIsListed
  <2> QED
    BY <1>1, <2>1, NumberedStill DEF Listed, StorageGrows
<1>4. \A i \in AppendIndices(w) : staged[w][i].snapshot.list \in DOMAIN lists
  BY <1>1 DEF Chained
<1>5. Numbered(lists', n) /\ n.uuid = m.uuid
  <2> HIDE DEF m, n
  <2>1. CASE c.kind = "append"
    <3>1. FormatVersion = 3 => c.snapshot.first = m.nextRow /\ Tight(lists', c.snapshot)
      BY <2>1 DEF m
    <3>2. c.id \notin KnownIds(m)
      BY <2>1 DEF m
    <3>3. Numbered(lists', n)
      BY <1>1, <1>3, <2>1, <3>1, <3>2, AppendIsNumbered DEF n
    <3>4. m.current # c.id
      <4>1. c.id \in SnapshotIds
        BY <2>1 DEF ActionCommit
      <4> QED
        BY <1>1, <3>2, <4>1, NoneAssumption DEF Sound
    <3>5. n.uuid = m.uuid
      BY <1>1, <2>1, <3>4, ApplyAppendFields DEF n
    <3> QED
      BY <3>3, <3>5
  <2>2. CASE c.kind # "append"
    BY <1>1, <1>3, <2>2, OtherIsNumbered, ApplyOtherFields DEF n
  <2> QED
    BY <2>1, <2>2
<1>6. StagedTight(w)'
  <2>1. ASSUME FormatVersion = 3, NEW i \in AppendIndices(w)
        PROVE  Tight(lists', staged[w][i].snapshot)
    BY <1>1, <1>4, <2>1, TightStill DEF StagedTight
  <2>2. c.kind = "append" /\ FormatVersion = 3 => Tight(lists', s)
    OBVIOUS
  <2> QED
    BY <1>2, <2>1, <2>2 DEF StagedTight
<1>7. ASSUME table' # None, table'.uuid = work'[w].uuid, NEW i \in AppendIndices(w)',
             \A j \in AppendIndices(w)' : i <= j
      PROVE  Carries(lists', staged'[w][i].snapshot, table')
  <2>1. table' = table /\ table # None /\ table.uuid = m.uuid
    BY <1>2, <1>5, <1>7
  <2>2. Listed(lists, table) /\ Keeps(table, table)
    BY <2>1, SoundIsListed DEF IInv, Keeps
  <2>3. CASE i \in AppendIndices(w)
    <3>1. \A j \in AppendIndices(w) : i <= j
      BY <1>2, <1>7
    <3>2. /\ Carries(lists, staged[w][i].snapshot, table)
          /\ FollowsIn(staged[w][i].snapshot, table)
      BY <1>1, <2>1, <2>3, <3>1 DEF FirstCarries, Based
    <3>3. Carries(lists', staged[w][i].snapshot, table)
      BY <1>4, <2>2, <2>3, <3>2, CarriesStill DEF FollowsIn
    <3> QED
      BY <1>2, <2>1, <2>3, <3>3
  <2>4. CASE i \notin AppendIndices(w)
    <3>1. i = l /\ c.kind = "append"
      BY <1>2, <2>4
    <3>2. AppendIndices(w) = {}
      BY <1>1, <1>2, <1>7, <3>1 DEF TypeOK
    <3>3. Keeps(m, table)
      BY <1>1, <2>1, <3>2 DEF Based
    <3>4. s.parent = m.current /\ m.current \in KnownIds(m) \cup {None}
      BY <1>1, <3>1 DEF Sound
    <3>5. s.parent # None => lists'[m.snapshots[s.parent].list] \subseteq lists'[s.list]
      BY <1>3, <3>1, <3>4, ReachedStill DEF Reached
    <3>6. FormatVersion = 3 => s.first = EndRow(m, s.parent)
      BY <1>1, <3>1, <3>4 DEF Numbered
    <3>7. Carries(lists', s, m)
      BY <3>5, <3>6 DEF Carries
    <3>8. StorageGrows(lists', lists')
      BY DEF StorageGrows
    <3>9. Carries(lists', s, table)
      BY <1>3, <3>1, <3>3, <3>4, <3>7, <3>8, CarriesStill
    <3> QED
      BY <1>2, <2>1, <3>1, <3>9
  <2> QED
    BY <2>3, <2>4
<1>8. FirstCarries(w)'
  BY <1>7 DEF FirstCarries
<1> QED
  BY <1>2, <1>5, <1>6, <1>8 DEF RetainingWriter

LEMMA RStageStep ==
    ASSUME IInv, TypeOK', HInv, RInv, NEW w \in Writers, pc[w] = "act", work[w] # None,
           NEW c \in ActionCommit, Stage(w, c), UNCHANGED <<table, tables, merge>>,
           StorageGrows(lists, lists'), Fresh', \A u \in DOMAIN lists' : GoodList(lists'[u]),
           RetainingWriter(w)'
    PROVE  RInv'
<1>1. TypeOK
  BY DEF IInv
<1>2. pc' = pc /\ \A v \in Writers \ {w} : work'[v] = work[v] /\ staged'[v] = staged[v]
  BY <1>1, StageEffect
<1>3. Grows
  BY <1>1, SameTableGrows
<1>4. table' # None => Numbered(lists', table')
  BY SoundIsListed, NumberedStill DEF RInv, IInv
<1> QED
  BY <1>2, <1>3, <1>4, ROthersKept

-----------------------------------------------------------------------------
(* One lemma per action. *)

LEMMA RLoadTableStep ==
    ASSUME IInv, TypeOK', HInv, RInv, NEW w \in Writers, LoadTable(w)
    PROVE  RInv'
<1>1. TypeOK /\ lock = None /\ UNCHANGED <<table, tables, merge, lists>>
  BY DEF LoadTable, IInv
<1>2. \A v \in Writers : pc[v] # "merge"
  BY <1>1, MergerHoldsLock
<1>3. CASE /\ table # None /\ pc' = [pc EXCEPT ![w] = "act"] /\ Rebase(w)
           /\ staged' = [staged EXCEPT ![w] = << >>]
           /\ serial' = [serial EXCEPT ![w] = @ + 1]
  <2>1. work'[w] = table /\ staged'[w] = << >> /\ pc'[w] = "act"
    BY <1>1, <1>3 DEF TypeOK, Rebase
  <2>2. AppendIndices(w)' = {}
    BY <2>1 DEF AppendIndices
  <2>3. Numbered(lists', work'[w])
    BY <1>1, <1>3, <2>1 DEF RInv
  <2>4. RetainingWriter(w)'
    BY <2>1, <2>2, <2>3 DEF RetainingWriter, FirstCarries, StagedTight
  <2>5. \A v \in Writers \ {w} :
           /\ pc'[v] = pc[v] /\ work'[v] = work[v] /\ staged'[v] = staged[v]
           /\ serial'[v] = serial[v]
    BY <1>1, <1>3 DEF TypeOK, Rebase
  <2>6. Fresh'
    <3>1. serial'[w] = serial[w] + 1 /\ serial[w] \in Nat
      BY <1>1, <1>3 DEF TypeOK
    <3>2. ASSUME NEW u \in DOMAIN lists
          PROVE  u[2] < serial'[u[1]] \/ (u[2] = serial'[u[1]] /\ u[3] <= Len(staged'[u[1]]))
      <4>1. u[1] \in Writers /\ u[2] \in Nat
        BY <1>1, <3>2 DEF TypeOK, CommitUuids
      <4>2. u[2] < serial[u[1]] \/ (u[2] = serial[u[1]] /\ u[3] <= Len(staged[u[1]]))
        BY <3>2 DEF RInv, Fresh
      <4>3. CASE u[1] = w
        BY <3>1, <4>1, <4>2, <4>3
      <4>4. CASE u[1] # w
        BY <2>5, <4>1, <4>2, <4>4
      <4> QED
        BY <4>3, <4>4
    <3> QED
      BY <1>1, <3>2 DEF Fresh
  <2>7. /\ StorageGrows(lists, lists') /\ Grows
        /\ \A u \in DOMAIN lists' : GoodList(lists'[u])
        /\ table' # None => Numbered(lists', table')
    BY <1>1, SameStorageGrows, SameTableGrows DEF RInv
  <2> QED
    BY <1>2, <2>4, <2>5, <2>6, <2>7, ROthersKept
<1>4. CASE End(w, "failed") /\ UNCHANGED <<work, staged, serial>>
  BY <1>1, <1>4, EndLeaves, RLeaveStep DEF Ended
<1> QED
  BY <1>3, <1>4 DEF LoadTable

(* A manifest list is written under a name never used before. *)
LEMMA NameIsNew ==
    ASSUME IInv, RInv, NEW w \in Writers
    PROVE  <<w, serial[w], Len(staged[w]) + 1>> \notin DOMAIN lists
<1> DEFINE uuid == <<w, serial[w], Len(staged[w]) + 1>>
<1>1. serial[w] \in Nat /\ Len(staged[w]) \in Nat
  BY DEF IInv, TypeOK
<1>2. uuid[1] = w /\ uuid[2] = serial[w] /\ uuid[3] = Len(staged[w]) + 1
  OBVIOUS
<1>3. uuid \in DOMAIN lists =>
         \/ uuid[2] < serial[uuid[1]]
         \/ uuid[2] = serial[uuid[1]] /\ uuid[3] <= Len(staged[uuid[1]])
  BY DEF RInv, Fresh
<1> QED
  BY <1>1, <1>2, <1>3

LEMMA WritingGrows ==
    ASSUME NEW uuid, uuid \notin DOMAIN lists, NEW mfs, WriteManifestList(uuid, mfs)
    PROVE  /\ DOMAIN lists' = DOMAIN lists \cup {uuid} /\ lists'[uuid] = mfs
           /\ StorageGrows(lists, lists')
BY DEF WriteManifestList, StorageGrows

LEMMA RFastAppendStep ==
    ASSUME IInv, TypeOK', HInv, RInv, NEW w \in Writers, pc[w] = "act", work[w] # None,
           Len(staged[w]) < Len(Tx[w]), NEW a \in Actions, a = Tx[w][Len(staged[w]) + 1],
           a.kind = "append", FastAppend(w, a), UNCHANGED <<table, tables, merge, serial>>
    PROVE  RInv'
<1> DEFINE m == work[w]
           l == Len(staged[w]) + 1
           uuid == <<w, serial[w], l>>
           mfs == ManifestList(m, uuid, a.files)
<1>1. /\ TypeOK /\ m \in Metadata /\ Sound(m) /\ Numbered(lists, m)
      /\ uuid \in CommitUuids /\ a.files \in SUBSET Files
  <2>1. TypeOK /\ m \in Metadata /\ Sound(m) /\ Numbered(lists, m)
    BY DEF IInv, TypeOK, WriterInv, RInv, RetainingWriter
  <2>2. uuid \in CommitUuids
    <3>1. serial[w] \in Nat /\ Len(staged[w]) \in Nat
      BY <2>1 DEF TypeOK
    <3> QED
      BY <3>1 DEF CommitUuids
  <2>3. a.files \in SUBSET Files
    BY DEF Actions
  <2> QED
    BY <2>1, <2>2, <2>3
<1>2. CASE End(w, "failed") /\ UNCHANGED <<work, staged, lists>>
  BY <1>1, <1>2, EndLeaves, RLeaveStep DEF Ended
<1>3. CASE /\ ~RefusesAppend(a, m) /\ WriteManifestList(uuid, mfs)
           /\ \E id \in SnapshotIds \ KnownIds(m) :
                 Stage(w, AppendCommit(m, id, uuid, a.files))
  <2>1. PICK id \in SnapshotIds \ KnownIds(m) :
               Stage(w, AppendCommit(m, id, uuid, a.files))
    BY <1>3
  <2> DEFINE c == AppendCommit(m, id, uuid, a.files)
  <2>2. TotalDataFiles(m, id, a.files) \in Nat
    BY <1>1, FilesAreCounted DEF TotalDataFiles
  <2>3. NewSnapshot(m, id, uuid, a.files) \in Snapshot
    BY <1>1, <2>2, NextSequenceNumberType, FilesAreCounted
       DEF NewSnapshot, Snapshot, Metadata
  <2>4. c \in ActionCommit
    BY <1>1, <2>3 DEF AppendCommit, ActionCommit, Requirement, Metadata
  <2>5. /\ c.kind = "append" /\ c.id = id /\ c.snapshot.parent = m.current
        /\ c.snapshot.list = uuid
        /\ FormatVersion = 3 =>
              c.snapshot.first = m.nextRow /\ c.snapshot.added = Cardinality(a.files)
    BY DEF AppendCommit, NewSnapshot
  <2> HIDE DEF c
  <2>6. staged' = [staged EXCEPT ![w] = Append(@, c)]
    BY <2>1 DEF Stage, c
  <2>7. /\ Len(staged'[w]) = l /\ Len(staged[w]) \in Nat
        /\ \A v \in Writers \ {w} : staged'[v] = staged[v]
    BY <1>1, <2>6 DEF TypeOK
  <2>8. uuid \notin DOMAIN lists
    BY NameIsNew
  <2>9. /\ DOMAIN lists' = DOMAIN lists \cup {uuid} /\ lists'[uuid] = mfs
        /\ StorageGrows(lists, lists')
    BY <1>3, <2>8, WritingGrows
  <2>10. Fresh'
    <3>1. ASSUME NEW u \in DOMAIN lists
          PROVE  u[2] < serial[u[1]] \/ (u[2] = serial[u[1]] /\ u[3] <= Len(staged'[u[1]]))
      <4>1. u[1] \in Writers /\ u[3] \in Nat
        BY <1>1, <3>1 DEF TypeOK, CommitUuids
      <4>2. u[2] < serial[u[1]] \/ (u[2] = serial[u[1]] /\ u[3] <= Len(staged[u[1]]))
        BY <3>1 DEF RInv, Fresh
      <4> QED
        BY <2>7, <4>1, <4>2
    <3>2. uuid[1] = w /\ uuid[2] = serial[w] /\ uuid[3] <= Len(staged'[w])
      BY <2>7
    <3> QED
      BY <2>9, <3>1, <3>2 DEF Fresh
  <2>11. /\ GoodList(mfs) /\ Reached(lists, m) \subseteq mfs
         /\ FormatVersion = 3 =>
               \A mf \in mfs : RowsEnd(mf) <= m.nextRow + Cardinality(a.files)
    <3>1. a.files # {} /\ (EveryAppendChecks => a.files \cap FilesOf(m) = {})
      <4>1. Len(staged[w]) + 1 \in DOMAIN Tx[w]
        BY <2>7, TxAssumption
      <4> QED
        BY <1>3, <4>1 DEF RefusesAppend, EveryAppendChecks
    <3>2. m.current # None => GoodList(lists[m.snapshots[m.current].list])
      BY <1>1 DEF Sound, RInv
    <3> QED
      BY <1>1, <3>1, <3>2, ManifestListIsGood
  <2> HIDE DEF mfs, uuid
  <2>12. FormatVersion = 3 => Tight(lists', c.snapshot)
    BY <2>5, <2>9, <2>11 DEF Tight
  <2>13. \A u \in DOMAIN lists' : GoodList(lists'[u])
    BY <2>9, <2>11 DEF RInv, StorageGrows
  <2>14. RetainingWriter(w)'
    BY <2>1, <2>4, <2>5, <2>9, <2>11, <2>12, StageRetains DEF c
  <2> QED
    BY <2>1, <2>4, <2>9, <2>10, <2>13, <2>14, RStageStep DEF c
<1> QED
  BY <1>2, <1>3 DEF FastAppend

LEMMA ROtherActionStep ==
    ASSUME IInv, TypeOK', HInv, RInv, NEW w \in Writers, pc[w] = "act", work[w] # None,
           NEW c \in ActionCommit, c.kind # "append", Stage(w, c),
           UNCHANGED <<table, tables, merge, lists, serial>>
    PROVE  RInv'
<1>1. StorageGrows(lists, lists') /\ \A u \in DOMAIN lists' : GoodList(lists'[u])
  BY SameStorageGrows DEF RInv
<1>2. RetainingWriter(w)'
  BY <1>1, StageRetains
<1>3. Fresh'
  <2>1. \A v \in Writers : Len(staged[v]) <= Len(staged'[v]) /\ Len(staged[v]) \in Nat
                             /\ Len(staged'[v]) \in Nat
    <3>1. staged \in [Writers -> Seq(ActionCommit)] /\ staged' = [staged EXCEPT ![w] = Append(@, c)]
      BY DEF Stage, IInv, TypeOK
    <3>2. \A v \in Writers : staged[v] \in Seq(ActionCommit)
      BY <3>1
    <3>3. staged'[w] = Append(staged[w], c) /\ \A v \in Writers \ {w} : staged'[v] = staged[v]
      BY <3>1
    <3> QED
      BY <3>2, <3>3
  <2>2. \A u \in DOMAIN lists : u[1] \in Writers /\ u[3] \in Nat
    BY DEF IInv, TypeOK, CommitUuids
  <2>3. ASSUME NEW u \in DOMAIN lists
        PROVE  u[2] < serial[u[1]] \/ (u[2] = serial[u[1]] /\ u[3] <= Len(staged'[u[1]]))
    <3>1. u[2] < serial[u[1]] \/ (u[2] = serial[u[1]] /\ u[3] <= Len(staged[u[1]]))
      BY <2>3 DEF RInv, Fresh
    <3> QED
      BY <2>1, <2>2, <3>1
  <2> QED
    BY <2>3 DEF Fresh
<1> QED
  BY <1>1, <1>2, <1>3, RStageStep

LEMMA RRunActionStep ==
    ASSUME IInv, TypeOK', HInv, RInv, NEW w \in Writers, RunAction(w)
    PROVE  RInv'
<1> DEFINE a == Tx[w][Len(staged[w]) + 1]
           m == work[w]
<1>1. /\ TypeOK /\ pc[w] = "act" /\ m # None /\ UNCHANGED <<table, tables, merge, serial>>
      /\ Len(staged[w]) < Len(Tx[w])
  BY DEF RunAction, IInv, WriterInv
<1>2. a \in Actions
  BY <1>1, TxAssumption DEF TypeOK
<1>3. m \in Metadata
  BY <1>1 DEF TypeOK
<1>4. CASE End(w, "failed") /\ UNCHANGED <<work, staged, lists>>
  BY <1>1, <1>4, EndLeaves, RLeaveStep DEF Ended
<1>5. CASE a.kind = "append" /\ FastAppend(w, a)
  BY <1>1, <1>2, <1>5, RFastAppendStep
<1>6. CASE a.kind = "sort" /\ Stage(w, SortCommit(m, a)) /\ UNCHANGED lists
  <2>1. SortCommit(m, a) \in ActionCommit /\ SortCommit(m, a).kind # "append"
    BY <1>2, <1>3, <1>6 DEF SortCommit, ActionCommit, Requirement, Metadata, Actions
  <2> QED
    BY <1>1, <1>6, <2>1, ROtherActionStep
<1>7. CASE a.kind = "props" /\ Stage(w, PropsCommit(w, a)) /\ UNCHANGED lists
  <2>1. PropsCommit(w, a) \in ActionCommit /\ PropsCommit(w, a).kind # "append"
    BY <1>2, <1>7 DEF PropsCommit, ActionCommit, Actions
  <2> QED
    BY <1>1, <1>7, <2>1, ROtherActionStep
<1> QED
  BY <1>4, <1>5, <1>6, <1>7 DEF RunAction, ReplaceSortOrder, UpdateTableProperties

LEMMA RUpdateTableStep ==
    ASSUME IInv, TypeOK', HInv, RInv, NEW w \in Writers, UpdateTable(w)
    PROVE  RInv'
<1>1. /\ TypeOK /\ pc[w] = "act" /\ lock = None
      /\ UNCHANGED <<table, tables, lists, work, staged, serial>>
  BY DEF UpdateTable, IInv
<1>2. \A v \in Writers : pc[v] # "merge"
  BY <1>1, MergerHoldsLock
<1>3. CASE /\ table # None /\ merge' = [meta |-> table, done |-> 0]
           /\ pc' = [pc EXCEPT ![w] = "merge"]
  <2>1. Numbered(lists, work[w]) /\ FirstCarries(w) /\ StagedTight(w) /\ Numbered(lists, table)
    BY <1>1, <1>3 DEF RInv, RetainingWriter
  <2>2. AppendIndices(w)' = AppendIndices(w)
    BY <1>1 DEF AppendIndices
  <2>3. FirstCarries(w)' /\ StagedTight(w)'
    BY <1>1, <2>1, <2>2 DEF FirstCarries, StagedTight
  <2>4. MergesAll(w)'
    BY <1>1, <1>3, <2>1 DEF MergesAll
  <2>5. RetainingWriter(w)'
    BY <1>1, <2>1, <2>3, <2>4 DEF RetainingWriter
  <2>6. \A v \in Writers \ {w} : pc'[v] = pc[v]
    BY <1>1, <1>3 DEF TypeOK
  <2> QED
    BY <1>1, <1>2, <2>1, <2>5, <2>6, SameTableGrows, RQuietStep
<1>4. CASE pc' = [pc EXCEPT ![w] = "load"] /\ UNCHANGED merge
  <2>1. pc'[w] = "load" /\ \A v \in Writers \ {w} : pc'[v] = pc[v]
    BY <1>1, <1>4 DEF TypeOK
  <2> QED
    BY <1>1, <1>4, <2>1, RLeaveStep
<1>5. ASSUME NEW o \in Ended, End(w, o), UNCHANGED merge PROVE RInv'
  BY <1>1, <1>5, EndLeaves, RLeaveStep
<1> QED
  BY <1>3, <1>4, <1>5 DEF UpdateTable, Conflict, Ended

(* The append that is merged carries what the table reaches. *)
LEMMA MergedAppendCarries ==
    ASSUME IInv, HInv, RInv, NEW w \in Writers, pc[w] = "merge",
           NEW i \in AppendIndices(w), merge.done < i
    PROVE  LET s == staged[w][i].snapshot
           IN  /\ Reached(lists, table) \subseteq lists[s.list]
               /\ FormatVersion = 3 => s.first = merge.meta.nextRow
<1> DEFINE s == staged[w][i].snapshot
<1>1. /\ TypeOK /\ Merging(w) /\ Chained(w) /\ Based(w) /\ FirstCarries(w) /\ MergesAll(w)
      /\ table # None /\ Numbered(lists, table)
  BY DEF IInv, HInv, RInv, WriterInv, LinearWriter, RetainingWriter, Merging
<1>2. /\ [type |-> "RefSnapshotIdMatch", snapshot |-> s.parent] \in staged[w][i].reqs
      /\ [type |-> "UuidMatch", uuid |-> work[w].uuid] \in staged[w][i].reqs
  BY <1>1 DEF Chained, Based
<1>3. \A r \in staged[w][i].reqs : Holds(r, table)
  BY <1>1 DEF Merging, AllHold, AppendIndices
<1>4. table.current = s.parent /\ table.uuid = work[w].uuid
  BY <1>2, <1>3 DEF Holds
<1>5. \A j \in AppendIndices(w) : j = i
  BY <1>1, OneAppendHolds DEF Merging
<1>6. i \in Nat /\ merge.done \in Nat
  BY <1>1 DEF AppendIndices, TypeOK
<1>7. merge.meta.nextRow = table.nextRow
  BY <1>1, <1>5, <1>6 DEF MergesAll
<1>8. Carries(lists, s, table)
  BY <1>1, <1>4, <1>5, <1>6 DEF FirstCarries
<1> QED
  BY <1>1, <1>4, <1>7, <1>8 DEF Carries, Reached, Numbered

LEMMA RApplyUpdatesStep ==
    ASSUME IInv, TypeOK', HInv, RInv, NEW w \in Writers, ApplyUpdates(w)
    PROVE  RInv'
<1> DEFINE c == staged[w][merge.done + 1]
           m == merge.meta
           n == ApplyCommit(c, m)
<1>1. /\ TypeOK /\ pc[w] = "merge" /\ merge.done < Len(staged[w])
      /\ UNCHANGED <<tables, lists, work, staged, serial>>
  BY DEF ApplyUpdates, IInv
<1>2. /\ Merging(w) /\ MergesAll(w) /\ Numbered(lists, work[w]) /\ FirstCarries(w)
      /\ StagedTight(w) /\ m \in Metadata
  BY <1>1 DEF IInv, WriterInv, RInv, RetainingWriter, Merging, TypeOK
<1>3. \A v \in Writers \ {w} : pc[v] # "merge"
  BY <1>1, MergerHoldsLock
<1>4. AppendIndices(w)' = AppendIndices(w)
  BY <1>1 DEF AppendIndices
<1>5. CASE CanApply(c, m) /\ MergeCommit(c) /\ UNCHANGED <<pc, lock>>
  <2>1. merge.done + 1 \in DOMAIN staged[w] /\ c \in ActionCommit /\ merge.done \in Nat
    <3>1. staged[w] \in Seq(ActionCommit) /\ merge.done \in Nat
      BY <1>1 DEF TypeOK
    <3>2. merge.done + 1 \in DOMAIN staged[w] /\ Len(staged[w]) \in Nat
      BY <1>1, <3>1
    <3> QED
      BY <3>1, <3>2
  <2>2. merge'.meta = n /\ merge'.done = merge.done + 1 /\ table' = table
    BY <1>5 DEF MergeCommit
  <2>3. Numbered(lists, m) /\ Reached(lists, table) \subseteq Reached(lists, m)
    BY <1>2 DEF MergesAll
  <2>4. /\ Numbered(lists, n) /\ Reached(lists, table) \subseteq Reached(lists, n)
        /\ c.kind # "append" => n.nextRow = m.nextRow
    <3>1. CASE c.kind = "append"
      <4>1. merge.done + 1 \in AppendIndices(w) /\ merge.done < merge.done + 1
        BY <2>1, <3>1 DEF AppendIndices
      <4>2. /\ Reached(lists, table) \subseteq lists[c.snapshot.list]
            /\ FormatVersion = 3 => c.snapshot.first = m.nextRow
        BY <1>1, <4>1, MergedAppendCarries
      <4>3. c.id \notin KnownIds(m)
        BY <1>5, <3>1 DEF CanApply, CanAddSnapshot
      <4>4. FormatVersion = 3 => Tight(lists, c.snapshot)
        BY <1>2, <4>1 DEF StagedTight
      <4> HIDE DEF c, m
      <4> QED
        BY <1>2, <2>1, <2>3, <3>1, <4>2, <4>3, <4>4, AppendIsNumbered
    <3>2. CASE c.kind # "append"
      <4> HIDE DEF c, m
      <4> QED
        BY <1>2, <2>1, <2>3, <3>2, OtherIsNumbered, OtherRows
    <3> QED
      BY <3>1, <3>2
  <2>5. ASSUME \A i \in AppendIndices(w) : ~(i <= merge.done + 1)
        PROVE  n.nextRow = table.nextRow
    <3>1. merge.done + 1 \notin AppendIndices(w)
      BY <2>1, <2>5
    <3>2. c.kind # "append"
      BY <2>1, <3>1 DEF AppendIndices
    <3>3. \A i \in AppendIndices(w) : ~(i <= merge.done)
      BY <1>1, <2>1, <2>5 DEF AppendIndices, TypeOK
    <3> QED
      BY <1>2, <2>4, <3>2, <3>3 DEF MergesAll
  <2> HIDE DEF n
  <2>6. MergesAll(w)'
    BY <1>1, <1>4, <2>2, <2>4, <2>5 DEF MergesAll
  <2>7. FirstCarries(w)' /\ StagedTight(w)'
    BY <1>1, <1>2, <1>4, <2>2 DEF FirstCarries, StagedTight
  <2>8. RetainingWriter(w)'
    BY <1>1, <1>2, <2>6, <2>7 DEF RetainingWriter
  <2>9. table' # None => Numbered(lists, table')
    BY <2>2 DEF RInv
  <2> QED
    BY <1>1, <1>3, <1>5, <2>2, <2>8, <2>9, SameTableGrows, RQuietStep
<1>6. CASE End(w, "failed") /\ UNCHANGED <<table, merge>>
  BY <1>1, <1>6, EndLeaves, RLeaveStep DEF Ended
<1> QED
  BY <1>5, <1>6 DEF ApplyUpdates

LEMMA RWriteMetadataStep ==
    ASSUME IInv, TypeOK', HInv, RInv, NEW w \in Writers, WriteMetadata(w)
    PROVE  RInv'
<1>1. /\ TypeOK /\ pc[w] = "merge" /\ merge.done = Len(staged[w])
      /\ UNCHANGED <<tables, merge, lists, work, staged, serial>>
  BY DEF WriteMetadata, IInv
<1>2. Merging(w) /\ MergesLinearly(w) /\ MergesAll(w)
  BY <1>1 DEF IInv, WriterInv, HInv, LinearWriter, RInv, RetainingWriter
<1>3. \A v \in Writers \ {w} : pc[v] # "merge"
  BY <1>1, MergerHoldsLock
<1>4. ASSUME NEW o \in Ended, End(w, o), FlipPointer(w) PROVE RInv'
  <2>1. table' = merge.meta
    BY <1>1, <1>4, PublishedTable
  <2>2. Keeps(table, table') /\ table'.uuid = table.uuid /\ Numbered(lists, table')
    BY <1>2, <2>1 DEF MergesLinearly, MergesAll
  <2>3. table # None /\ tables' = tables /\ tables \in Nat
    BY <1>1, <1>2 DEF Merging, TypeOK
  <2>4. Grows
    BY <2>2, <2>3 DEF Grows
  <2>5. RetainingWriter(w)'
    BY <1>4, EndLeaves DEF RetainingWriter
  <2> QED
    BY <1>1, <1>3, <1>4, <2>2, <2>4, <2>5, EndLeaves, RQuietStep
<1>5. CASE FailToWrite(w)
  BY <1>1, <1>5, EndLeaves, RLeaveStep DEF FailToWrite, Ended
<1> QED
  BY <1>4, <1>5 DEF WriteMetadata, Ended

(* Steps that leave every writer where it is. *)
LEMMA RQuietTable ==
    ASSUME IInv, TypeOK', HInv, RInv, Grows,
           UNCHANGED <<lists, pc, work, staged, serial>>,
           \A v \in Writers : pc[v] = "merge" => UNCHANGED <<table, merge>>,
           table' # None => Numbered(lists, table')
    PROVE  RInv'
<1>1. StorageGrows(lists, lists')
  BY SameStorageGrows
<1>2. \A v \in Writers : RetainingWriter(v)'
  BY <1>1, ROtherWriterKept DEF RInv
<1>3. Fresh'
  BY DEF RInv, Fresh
<1>4. (\A u \in DOMAIN lists : GoodList(lists[u]))'
  BY DEF RInv, GoodList, EveryAppendChecks
<1>5. (table # None => Numbered(lists, table))'
  OBVIOUS
<1> QED
  BY <1>2, <1>3, <1>4, <1>5 DEF RInv

LEMMA StepKeepsRInv == IInv /\ IInv' /\ HInv /\ RInv /\ [Next]_vars => RInv'
<1> SUFFICES ASSUME IInv, IInv', HInv, RInv, [Next]_vars PROVE RInv'
  OBVIOUS
<1>0. TypeOK /\ TypeOK'
  BY DEF IInv
<1>1. ASSUME NEW w \in Writers, Step(w) PROVE RInv'
  BY <1>0, <1>1, RLoadTableStep, RRunActionStep, RUpdateTableStep, RApplyUpdatesStep,
     RWriteMetadataStep DEF Step
<1>2. ASSUME NEW w \in Writers, Cancel(w) PROVE RInv'
  BY <1>0, <1>2, EndLeaves, RLeaveStep DEF Cancel, Ended
<1>3. ASSUME NEW w \in Writers, Resubmit(w) PROVE RInv'
  <2>1. pc'[w] = "load" /\ \A v \in Writers \ {w} : pc'[v] = pc[v]
    BY <1>0, <1>3 DEF Resubmit, TypeOK
  <2> QED
    BY <1>0, <1>3, <2>1, RLeaveStep DEF Resubmit
<1>4. CASE DropTable
  <2>1. lock = None /\ table' = None /\ UNCHANGED <<tables, lists, merge, pc, work, staged, serial>>
    BY <1>4 DEF DropTable
  <2>2. Grows
    BY <1>0, <2>1 DEF Grows, TypeOK
  <2> QED
    BY <1>0, <2>1, <2>2, MergerHoldsLock, RQuietTable
<1>5. CASE CreateTable
  <2>1. /\ lock = None /\ table' = NewMetadata(tables + 1) /\ tables' = tables + 1
        /\ UNCHANGED <<lists, merge, pc, work, staged, serial>>
    BY <1>5 DEF CreateTable
  <2>2. /\ table'.uuid = tables + 1 /\ table'.nextRow = 0 /\ table'.current = None
        /\ KnownIds(table') = {}
    BY <2>1 DEF NewMetadata, KnownIds
  <2>3. Grows
    BY <1>0, <2>1, <2>2 DEF Grows, TypeOK
  <2>4. Numbered(lists, table')
    BY <2>2 DEF Numbered, EndRow
  <2> QED
    BY <1>0, <2>1, <2>3, <2>4, MergerHoldsLock, RQuietTable
<1>6. CASE Finished \/ UNCHANGED vars
  <2>1. UNCHANGED <<table, tables, lists, merge, pc, work, staged, serial>>
    BY <1>6 DEF Finished, vars
  <2> QED
    BY <1>0, <2>1, SameTableGrows, RQuietTable DEF RInv
<1> QED
  BY <1>1, <1>2, <1>3, <1>4, <1>5, <1>6 DEF Next

LEMMA RInvHolds == Spec => []RInv
<1>1. Init => RInv
  <2> SUFFICES ASSUME Init PROVE RInv
    OBVIOUS
  <2>1. /\ DOMAIN lists = {} /\ table = NewMetadata(1)
        /\ \A w \in Writers : pc[w] \notin {"act", "merge"}
    BY DEF Init
  <2>2. table.nextRow = 0 /\ table.current = None /\ KnownIds(table) = {}
    BY <2>1 DEF NewMetadata, KnownIds
  <2> QED
    BY <2>1, <2>2 DEF RInv, Fresh, RetainingWriter, Numbered, EndRow
<1>2. IInv /\ IInv' /\ HInv /\ RInv /\ [Next]_vars => RInv'
  BY StepKeepsRInv
<1> QED
  BY <1>1, <1>2, IInvHolds, HInvHolds, PTL DEF Spec

(* Files in storage are never written over, nor deleted, by a commit. *)
LEMMA StorageOnlyGrows == IInv /\ RInv /\ [Next]_vars => StorageGrows(lists, lists')
<1> SUFFICES ASSUME IInv, RInv, [Next]_vars PROVE StorageGrows(lists, lists')
  OBVIOUS
<1>1. CASE UNCHANGED lists
  BY <1>1, SameStorageGrows
<1>2. ASSUME NEW w \in Writers, RunAction(w) PROVE StorageGrows(lists, lists')
  BY <1>1, <1>2, NameIsNew, WritingGrows
     DEF RunAction, FastAppend, ReplaceSortOrder, UpdateTableProperties
<1>3. ASSUME NEW w \in Writers, Step(w) /\ ~RunAction(w) PROVE UNCHANGED lists
  BY <1>3 DEF Step, LoadTable, UpdateTable, ApplyUpdates, WriteMetadata
<1>4. ASSUME NEW w \in Writers, Cancel(w) \/ Resubmit(w) PROVE UNCHANGED lists
  BY <1>4 DEF Cancel, Resubmit
<1>5. CASE DropTable \/ CreateTable \/ Finished \/ UNCHANGED vars
  BY <1>1, <1>5 DEF DropTable, CreateTable, Finished, vars
<1> QED
  BY <1>1, <1>2, <1>3, <1>4, <1>5 DEF Next

-----------------------------------------------------------------------------
(* What main reaches only grows while the table lives: no commit drops the  *)
(* files of a commit it raced with, however often either of them retries.   *)
THEOREM NothingIsEverLost == Spec => NothingIsLost
<1>1. ASSUME IInv, HInv, RInv, [Next]_vars, table # None, table' # None,
             table'.uuid = table.uuid
      PROVE  ManifestsOf(table) \subseteq ManifestsOf(table)'
  <2>1. Listed(lists, table) /\ StorageGrows(lists, lists')
    BY <1>1, SoundIsListed, StorageOnlyGrows DEF IInv
  <2>2. Reached(lists, table) \subseteq Reached(lists', table')
    <3>1. TypeOK /\ table.uuid <= tables /\ table.uuid \in Nat /\ tables \in Nat
      BY <1>1 DEF IInv, HInv, TypeOK, Metadata
    <3>2. CASE table' = table
      BY <2>1, <3>2, ReachedStill
    <3>3. CASE \E w \in Writers : WriteMetadata(w) /\ FlipPointer(w)
      <4>1. PICK w \in Writers : WriteMetadata(w) /\ FlipPointer(w)
        BY <3>3
      <4>2. table' = merge.meta /\ lists' = lists /\ MergesAll(w)
        BY <1>1, <4>1, PublishedTable DEF WriteMetadata, RInv, RetainingWriter
      <4> QED
        BY <4>2 DEF MergesAll
    <3>4. CASE CreateTable \/ DropTable
      BY <1>1, <3>4 DEF CreateTable, DropTable
    <3> QED
      BY <1>1, <3>2, <3>3, <3>4 DEF Next, Step, LoadTable, RunAction, UpdateTable,
         ApplyUpdates, MergeCommit, WriteMetadata, FailToWrite, Cancel, Resubmit, Finished, vars
  <2> QED
    BY <2>2 DEF ManifestsOf, Reached
<1> QED
  BY <1>1, IInvHolds, HInvHolds, RInvHolds, PTL DEF Spec, NothingIsLost

(* The manifests of main are those of one list in storage. *)
LEMMA MainIsGood ==
    ASSUME IInv, RInv, table # None
    PROVE  GoodList(ManifestsOf(table))
BY DEF IInv, Sound, RInv, ManifestsOf, GoodList

(* No data file is reachable twice from main, when every append looks for   *)
(* duplicates: it looks at the table it is merged into, because it is       *)
(* merged only while the snapshot it looked at is main.                     *)
THEOREM NoFileTwice ==
    ASSUME EveryAppendChecks
    PROVE  Spec => []NoDuplicateFiles
<1>1. ASSUME IInv, RInv PROVE NoDuplicateFiles
  BY <1>1, MainIsGood DEF GoodList, NoDuplicateFiles
<1> QED
  BY <1>1, IInvHolds, RInvHolds, PTL

(* Format version 3: the row ids of two manifests never overlap, and all of *)
(* them are below next-row-id, although each commit chooses its first row   *)
(* id before it holds the catalog mutex.                                    *)
THEOREM RowIdsNeverOverlap == Spec => []RowIdsDisjoint
<1>1. ASSUME IInv, RInv, table # None, FormatVersion = 3
      PROVE  \A a \in ManifestsOf(table) :
                /\ RowsEnd(a) <= table.nextRow
                /\ \A b \in ManifestsOf(table) \ {a} :
                      RowsEnd(a) <= b.first \/ RowsEnd(b) <= a.first
  <2>1. Numbered(lists, table) /\ table.current \in KnownIds(table) \cup {None}
    BY <1>1 DEF RInv, IInv, Sound
  <2>2. \A a \in ManifestsOf(table) : RowsEnd(a) <= table.nextRow
    BY <1>1, <2>1 DEF Numbered, Tight, EndRow, ManifestsOf
  <2> QED
    BY <1>1, <2>2, MainIsGood DEF GoodList
<1>2. ASSUME IInv, RInv PROVE RowIdsDisjoint
  BY <1>1, <1>2 DEF RowIdsDisjoint, RowsEnd
<1> QED
  BY <1>2, IInvHolds, RInvHolds, PTL

-----------------------------------------------------------------------------
(***************************************************************************)
(* What a commit leaves behind: one that failed nothing in the table,       *)
(* whatever it left in storage; one that returned Ok its appends, once.     *)
(*                                                                          *)
(* Failure.  Until the pointer is flipped for a writer, the lists it wrote  *)
(* are named by no snapshot but its own, so no other writer carries its     *)
(* manifests over.  The flip and the outcome are one step.                  *)
(***************************************************************************)

(* No snapshot of m was made by w. *)
Foreign(w, m) == \A id \in KnownIds(m) : m.snapshots[id].list[1] # w

(* w submitted once and nothing of it can have been published. *)
Pending(w) == submits[w] = 1 /\ pc[w] \notin {"committed", "unknown"}

(* Nothing of w is outside what w itself has staged and written. *)
Untouched(w) ==
    /\ \A u \in DOMAIN lists : u[1] # w => \A mf \in lists[u] : mf.uuid[1] # w
    /\ table # None => Foreign(w, table)
    /\ \A v \in Writers \ {w} :
          /\ pc[v] \in {"act", "merge"} => Foreign(w, work[v])
          /\ pc[v] = "merge" => Foreign(w, merge.meta)

(* What v has staged names the lists v wrote. *)
OwnLists(v) ==
    pc[v] \in {"act", "merge"} =>
        \A i \in AppendIndices(v) : staged[v][i].snapshot.list[1] = v

TInv ==
    /\ \A v \in Writers : OwnLists(v)
    /\ \A w \in Writers : submits[w] >= 1 /\ (Pending(w) => Untouched(w))

-----------------------------------------------------------------------------
LEMMA ForeignApplied ==
    ASSUME NEW m \in Metadata, NEW c \in ActionCommit, NEW w, Foreign(w, m),
           c.kind = "append" => c.snapshot.list[1] # w
    PROVE  Foreign(w, ApplyCommit(c, m))
<1> DEFINE n == ApplyCommit(c, m)
<1>1. CASE c.kind = "append"
  <2>1. /\ KnownIds(n) = KnownIds(m) \cup {c.id}
        /\ n.snapshots = [m.snapshots EXCEPT ![c.id] = c.snapshot]
    BY <1>1, ApplyAppend
  <2>2. c.id \in SnapshotIds /\ m.snapshots \in [SnapshotIds -> Snapshot \cup {None}]
    <3>1. c.id \in SnapshotIds
      BY <1>1 DEF ActionCommit
    <3> QED
      BY <3>1 DEF Metadata
  <2> HIDE DEF n
  <2>3. ASSUME NEW id \in KnownIds(n) PROVE n.snapshots[id].list[1] # w
    <3>1. CASE id = c.id
      BY <1>1, <2>1, <2>2, <3>1
    <3>2. CASE id # c.id
      <4>1. id \in KnownIds(m) /\ n.snapshots[id] = m.snapshots[id]
        BY <2>1, <2>2, <2>3, <3>2 DEF KnownIds
      <4> QED
        BY <4>1 DEF Foreign
    <3> QED
      BY <3>1, <3>2
  <2> QED
    BY <2>3 DEF Foreign, n
<1>2. CASE c.kind # "append"
  BY <1>2, ApplyOther DEF Foreign, KnownIds
<1> QED
  BY <1>1, <1>2

(* What changes only v: its place, its metadata and what it has staged.      *)
LEMMA TStep ==
    ASSUME IInv, TypeOK', TInv, NEW v \in Writers,
           \A x \in Writers \ {v} :
               /\ pc'[x] = pc[x] /\ work'[x] = work[x] /\ staged'[x] = staged[x]
               /\ pc[x] = "merge" => merge' = merge,
           submits' = submits \/ submits' = [submits EXCEPT ![v] = @ + 1],
           pc[v] \in {"committed", "unknown"} =>
               submits'[v] = submits[v] + 1 \/ pc'[v] \in {"committed", "unknown"},
           OwnLists(v)',
           \A w \in Writers : Pending(w) /\ Untouched(w) /\ Pending(w)' =>
               /\ \A u \in DOMAIN lists' : u[1] # w => \A mf \in lists'[u] : mf.uuid[1] # w
               /\ table' # None => Foreign(w, table')
               /\ w # v => /\ pc'[v] \in {"act", "merge"} => Foreign(w, work'[v])
                           /\ pc'[v] = "merge" => Foreign(w, merge'.meta)
    PROVE  TInv'
<1>1. TypeOK /\ submits \in [Writers -> Nat]
  BY DEF IInv, TypeOK
<1>2. ASSUME NEW x \in Writers PROVE OwnLists(x)'
  BY DEF TInv, OwnLists, AppendIndices
<1>3. ASSUME NEW w \in Writers
      PROVE  submits'[w] >= 1 /\ submits'[w] \in Nat /\ submits[w] >= 1
             /\ submits[w] \in Nat
  BY <1>1 DEF TInv
<1>4. ASSUME NEW w \in Writers, Pending(w)' PROVE Pending(w)
  <2>1. CASE w = v
    BY <1>1, <1>3, <1>4, <2>1 DEF Pending
  <2>2. CASE w # v
    BY <1>1, <1>3, <1>4, <2>2 DEF Pending
  <2> QED
    BY <2>1, <2>2
<1>5. ASSUME NEW w \in Writers, Pending(w)' PROVE Untouched(w)'
  <2>1. Pending(w) /\ Untouched(w)
    BY <1>4, <1>5 DEF TInv
  <2>2. /\ \A u \in DOMAIN lists' : u[1] # w => \A mf \in lists'[u] : mf.uuid[1] # w
        /\ table' # None => Foreign(w, table')
        /\ w # v => /\ pc'[v] \in {"act", "merge"} => Foreign(w, work'[v])
                    /\ pc'[v] = "merge" => Foreign(w, merge'.meta)
    BY <1>5, <2>1
  <2>3. ASSUME NEW x \in Writers \ {w}
        PROVE  /\ pc'[x] \in {"act", "merge"} => Foreign(w, work'[x])
               /\ pc'[x] = "merge" => Foreign(w, merge'.meta)
    <3>1. CASE x = v
      BY <2>2, <3>1
    <3>2. CASE x # v
      BY <2>1, <3>2 DEF Untouched
    <3> QED
      BY <3>1, <3>2
  <2> QED
    BY <2>2, <2>3 DEF Untouched, Foreign, KnownIds
<1> QED
  BY <1>2, <1>3, <1>5 DEF TInv

(* Every step that only ends, or restarts, the commit of v. *)
LEMMA TLeaveStep ==
    ASSUME IInv, TypeOK', TInv, NEW v \in Writers,
           \A x \in Writers \ {v} : pc'[x] = pc[x],
           pc[v] \notin {"committed", "unknown"} \/ submits'[v] = submits[v] + 1,
           pc'[v] \notin {"act", "merge"},
           submits' = submits \/ submits' = [submits EXCEPT ![v] = @ + 1],
           UNCHANGED <<table, merge, lists, work, staged>>
    PROVE  TInv'
<1>1. OwnLists(v)'
  BY DEF OwnLists
<1> QED
  BY <1>1, TStep DEF Untouched

LEMMA TEndStep ==
    ASSUME IInv, TypeOK', TInv, NEW v \in Writers, NEW o \in Ended, End(v, o),
           pc[v] \in InFlight, UNCHANGED <<table, merge, lists, work, staged, submits>>
    PROVE  TInv'
BY EndLeaves, TLeaveStep DEF InFlight

LEMMA TLoadTableStep ==
    ASSUME IInv, TypeOK', TInv, NEW v \in Writers, LoadTable(v)
    PROVE  TInv'
<1>1. TypeOK /\ pc[v] = "load" /\ UNCHANGED <<table, merge, lists, submits>>
  BY DEF LoadTable, IInv
<1>2. CASE /\ table # None /\ pc' = [pc EXCEPT ![v] = "act"] /\ Rebase(v)
           /\ staged' = [staged EXCEPT ![v] = << >>]
  <2>1. work'[v] = table /\ staged'[v] = << >> /\ pc'[v] = "act"
    BY <1>1, <1>2 DEF TypeOK, Rebase
  <2>2. \A x \in Writers \ {v} :
           pc'[x] = pc[x] /\ work'[x] = work[x] /\ staged'[x] = staged[x]
    BY <1>1, <1>2 DEF TypeOK, Rebase
  <2>3. OwnLists(v)'
    BY <2>1 DEF OwnLists, AppendIndices
  <2> QED
    BY <1>1, <1>2, <2>1, <2>2, <2>3, TStep DEF Untouched
<1>3. CASE End(v, "failed") /\ UNCHANGED <<work, staged>>
  BY <1>1, <1>3, TEndStep DEF Ended, InFlight
<1> QED
  BY <1>2, <1>3 DEF LoadTable

LEMMA TStageStep ==
    ASSUME IInv, TypeOK', TInv, NEW v \in Writers, pc[v] = "act", work[v] # None,
           NEW c \in ActionCommit, Stage(v, c), UNCHANGED <<table, merge, submits>>,
           c.kind = "append" => c.snapshot.list[1] = v,
           \A w \in Writers : Untouched(w) =>
               \A u \in DOMAIN lists' : u[1] # w => \A mf \in lists'[u] : mf.uuid[1] # w
    PROVE  TInv'
<1>1. TypeOK /\ work[v] \in Metadata
  BY DEF IInv, TypeOK
<1> DEFINE l == Len(staged[v]) + 1
<1>2. /\ work'[v] = ApplyCommit(c, work[v]) /\ pc' = pc
      /\ \A x \in Writers \ {v} : work'[x] = work[x] /\ staged'[x] = staged[x]
      /\ AppendIndices(v)' = AppendIndices(v) \cup (IF c.kind = "append" THEN {l} ELSE {})
      /\ staged'[v][l] = c
      /\ \A i \in AppendIndices(v) : staged'[v][i] = staged[v][i]
  BY <1>1, StageEffect
<1>3. OwnLists(v)'
  BY <1>2 DEF TInv, OwnLists
<1>4. ASSUME NEW w \in Writers, w # v, Untouched(w)
      PROVE  Foreign(w, work'[v])
  <2>1. Foreign(w, work[v])
    BY <1>4 DEF Untouched
  <2> QED
    BY <1>1, <1>2, <1>4, <2>1, ForeignApplied
<1>5. ASSUME NEW w \in Writers, Untouched(w)
      PROVE  /\ \A u \in DOMAIN lists' : u[1] # w => \A mf \in lists'[u] : mf.uuid[1] # w
             /\ table' # None => Foreign(w, table')
  BY <1>5 DEF Untouched
<1> QED
  BY <1>2, <1>3, <1>4, <1>5, TStep

LEMMA TFastAppendStep ==
    ASSUME IInv, TypeOK', TInv, NEW v \in Writers, pc[v] = "act", work[v] # None,
           NEW a \in Actions, a.kind = "append", FastAppend(v, a),
           UNCHANGED <<table, merge, submits>>
    PROVE  TInv'
<1> DEFINE m == work[v]
           uuid == <<v, serial[v], Len(staged[v]) + 1>>
           mfs == ManifestList(m, uuid, a.files)
<1>1. TypeOK /\ m \in Metadata /\ Sound(m)
  BY DEF IInv, TypeOK, WriterInv
<1>2. uuid \in CommitUuids /\ a.files \in SUBSET Files
  <2>1. serial[v] \in Nat /\ Len(staged[v]) \in Nat
    BY <1>1 DEF TypeOK
  <2> QED
    BY <2>1 DEF CommitUuids, Actions
<1>3. CASE End(v, "failed") /\ UNCHANGED <<work, staged, lists>>
  BY <1>3, TEndStep DEF Ended, InFlight
<1>4. CASE /\ WriteManifestList(uuid, mfs)
           /\ \E id \in SnapshotIds \ KnownIds(m) :
                 Stage(v, AppendCommit(m, id, uuid, a.files))
  <2>1. PICK id \in SnapshotIds \ KnownIds(m) :
               Stage(v, AppendCommit(m, id, uuid, a.files))
    BY <1>4
  <2> DEFINE c == AppendCommit(m, id, uuid, a.files)
  <2>2. TotalDataFiles(m, id, a.files) \in Nat
    BY <1>2, FilesAreCounted DEF TotalDataFiles
  <2>3. NewSnapshot(m, id, uuid, a.files) \in Snapshot
    BY <1>1, <1>2, <2>2, NextSequenceNumberType, FilesAreCounted
       DEF NewSnapshot, Snapshot, Metadata
  <2>4. c \in ActionCommit /\ c.snapshot.list[1] = v
    BY <1>1, <2>3 DEF AppendCommit, NewSnapshot, ActionCommit, Requirement, Metadata
  <2>5. ASSUME NEW w \in Writers, Untouched(w), w # v, NEW mf \in mfs
        PROVE  mf.uuid[1] # w
    <3>1. CASE mf \in ManifestsOf(m)
      <4>1. m.current # None /\ m.current \in KnownIds(m)
        BY <1>1, <3>1 DEF ManifestsOf, Sound
      <4>2. /\ m.snapshots[m.current].list \in DOMAIN lists
            /\ m.snapshots[m.current].list[1] # w
        BY <1>1, <2>5, <4>1 DEF Sound, Untouched, Foreign
      <4> QED
        BY <2>5, <3>1, <4>1, <4>2 DEF ManifestsOf, Untouched
    <3>2. CASE mf = AddedManifest(m, uuid, a.files)
      BY <2>5, <3>2 DEF AddedManifest
    <3> QED
      BY <2>5, <3>1, <3>2 DEF ManifestList
  <2> HIDE DEF mfs, c
  <2>6. ASSUME NEW w \in Writers, Untouched(w), NEW u \in DOMAIN lists', u[1] # w
        PROVE  \A mf \in lists'[u] : mf.uuid[1] # w
    <3>1. CASE u = uuid
      <4>1. w # v /\ lists'[u] = mfs
        BY <1>4, <2>6, <3>1 DEF WriteManifestList
      <4> QED
        BY <2>5, <2>6, <4>1
    <3>2. CASE u # uuid
      <4>1. u \in DOMAIN lists /\ lists'[u] = lists[u]
        BY <1>4, <2>6, <3>2 DEF WriteManifestList
      <4> QED
        BY <2>6, <4>1 DEF Untouched
    <3> QED
      BY <3>1, <3>2
  <2> QED
    BY <2>1, <2>4, <2>6, TStageStep DEF c
<1> QED
  BY <1>3, <1>4 DEF FastAppend

LEMMA TRunActionStep ==
    ASSUME IInv, TypeOK', TInv, NEW v \in Writers, RunAction(v)
    PROVE  TInv'
<1> DEFINE a == Tx[v][Len(staged[v]) + 1]
           m == work[v]
<1>1. TypeOK /\ pc[v] = "act" /\ m # None /\ UNCHANGED <<table, merge, submits>>
  BY DEF RunAction, IInv, WriterInv
<1>2. a \in Actions
  BY <1>1, TxAssumption DEF RunAction, TypeOK
<1>3. m \in Metadata
  BY <1>1 DEF TypeOK
<1>4. CASE End(v, "failed") /\ UNCHANGED <<work, staged, lists>>
  BY <1>1, <1>4, TEndStep DEF Ended, InFlight
<1>5. CASE a.kind = "append" /\ FastAppend(v, a)
  BY <1>1, <1>2, <1>5, TFastAppendStep
<1>6. ASSUME NEW c \in ActionCommit, c.kind # "append", Stage(v, c), UNCHANGED lists
      PROVE  TInv'
  BY <1>1, <1>6, TStageStep DEF Untouched
<1>7. CASE a.kind = "sort" /\ Stage(v, SortCommit(m, a)) /\ UNCHANGED lists
  <2>1. SortCommit(m, a) \in ActionCommit /\ SortCommit(m, a).kind # "append"
    BY <1>2, <1>3, <1>7 DEF SortCommit, ActionCommit, Requirement, Metadata, Actions
  <2> QED
    BY <1>6, <1>7, <2>1
<1>8. CASE a.kind = "props" /\ Stage(v, PropsCommit(v, a)) /\ UNCHANGED lists
  <2>1. PropsCommit(v, a) \in ActionCommit /\ PropsCommit(v, a).kind # "append"
    BY <1>2, <1>8 DEF PropsCommit, ActionCommit, Actions
  <2> QED
    BY <1>6, <1>8, <2>1
<1> QED
  BY <1>4, <1>5, <1>7, <1>8 DEF RunAction, ReplaceSortOrder, UpdateTableProperties

LEMMA TUpdateTableStep ==
    ASSUME IInv, TypeOK', TInv, NEW v \in Writers, UpdateTable(v)
    PROVE  TInv'
<1>1. /\ TypeOK /\ pc[v] = "act" /\ lock = None
      /\ UNCHANGED <<table, lists, work, staged, submits>>
  BY DEF UpdateTable, IInv
<1>2. \A x \in Writers : pc[x] # "merge"
  BY <1>1, MergerHoldsLock
<1>3. CASE /\ table # None /\ merge' = [meta |-> table, done |-> 0]
           /\ pc' = [pc EXCEPT ![v] = "merge"]
  <2>1. pc'[v] = "merge" /\ \A x \in Writers \ {v} : pc'[x] = pc[x]
    BY <1>1, <1>3 DEF TypeOK
  <2>2. OwnLists(v)'
    BY <1>1 DEF TInv, OwnLists, AppendIndices
  <2> QED
    BY <1>1, <1>2, <1>3, <2>1, <2>2, TStep DEF Untouched
<1>4. CASE pc' = [pc EXCEPT ![v] = "load"] /\ UNCHANGED merge
  <2>1. pc'[v] = "load" /\ \A x \in Writers \ {v} : pc'[x] = pc[x]
    BY <1>1, <1>4 DEF TypeOK
  <2> QED
    BY <1>1, <1>4, <2>1, TLeaveStep
<1>5. ASSUME NEW o \in Ended, End(v, o), UNCHANGED merge PROVE TInv'
  BY <1>1, <1>5, TEndStep DEF InFlight
<1> QED
  BY <1>3, <1>4, <1>5 DEF UpdateTable, Conflict, Ended

LEMMA TApplyUpdatesStep ==
    ASSUME IInv, TypeOK', TInv, NEW v \in Writers, ApplyUpdates(v)
    PROVE  TInv'
<1> DEFINE c == staged[v][merge.done + 1]
           m == merge.meta
<1>1. /\ TypeOK /\ pc[v] = "merge" /\ merge.done < Len(staged[v])
      /\ UNCHANGED <<lists, work, staged, submits>>
  BY DEF ApplyUpdates, IInv
<1>2. m \in Metadata
  BY <1>1 DEF IInv, WriterInv, Merging, TypeOK
<1>3. \A x \in Writers \ {v} : pc[x] # "merge"
  BY <1>1, MergerHoldsLock
<1>4. CASE MergeCommit(c) /\ UNCHANGED <<pc, lock>>
  <2>1. merge.done + 1 \in DOMAIN staged[v] /\ c \in ActionCommit
    <3>1. staged[v] \in Seq(ActionCommit) /\ merge.done \in Nat
      BY <1>1 DEF TypeOK
    <3>2. merge.done + 1 \in DOMAIN staged[v] /\ Len(staged[v]) \in Nat
      BY <1>1, <3>1
    <3> QED
      BY <3>1, <3>2
  <2>2. merge'.meta = ApplyCommit(c, m) /\ table' = table
    BY <1>4 DEF MergeCommit
  <2>3. c.kind = "append" => c.snapshot.list[1] = v
    BY <1>1, <2>1 DEF TInv, OwnLists, AppendIndices
  <2>4. ASSUME NEW w \in Writers, w # v, Untouched(w)
        PROVE  Foreign(w, merge'.meta) /\ Foreign(w, work'[v])
    <3>1. Foreign(w, m) /\ Foreign(w, work[v])
      BY <1>1, <2>4 DEF Untouched
    <3> HIDE DEF c, m
    <3> QED
      BY <1>1, <1>2, <2>1, <2>2, <2>3, <2>4, <3>1, ForeignApplied
  <2>5. OwnLists(v)'
    BY <1>1, <1>4 DEF TInv, OwnLists, AppendIndices
  <2> QED
    BY <1>1, <1>3, <1>4, <2>2, <2>4, <2>5, TStep DEF Untouched
<1>5. CASE End(v, "failed") /\ UNCHANGED <<table, merge>>
  BY <1>1, <1>5, TEndStep DEF Ended, InFlight
<1> QED
  BY <1>4, <1>5 DEF ApplyUpdates

LEMMA TWriteMetadataStep ==
    ASSUME IInv, TypeOK', TInv, NEW v \in Writers, WriteMetadata(v)
    PROVE  TInv'
<1>1. /\ TypeOK /\ pc[v] = "merge" /\ merge.done = Len(staged[v])
      /\ UNCHANGED <<merge, lists, work, staged, submits>>
  BY DEF WriteMetadata, IInv
<1>2. ASSUME NEW o \in {"committed", "unknown"}, End(v, o), FlipPointer(v) PROVE TInv'
  <2>1. table' = merge.meta
    BY <1>1, <1>2, PublishedTable
  <2>2. pc'[v] = o /\ \A x \in Writers \ {v} : pc'[x] = pc[x]
    BY <1>1, <1>2 DEF End, TypeOK
  <2>3. ASSUME NEW w \in Writers, Untouched(w), Pending(w)' PROVE Foreign(w, table')
    <3>1. w # v
      BY <1>2, <2>2, <2>3 DEF Pending
    <3> QED
      BY <1>1, <2>1, <2>3, <3>1 DEF Untouched
  <2>4. OwnLists(v)'
    BY <1>2, <2>2 DEF OwnLists
  <2> QED
    BY <1>1, <1>2, <2>2, <2>3, <2>4, TStep DEF Untouched
<1>3. CASE FailToWrite(v)
  BY <1>1, <1>3, TEndStep DEF FailToWrite, Ended, InFlight
<1> QED
  BY <1>2, <1>3 DEF WriteMetadata

(* Steps that leave every writer where it is. *)
LEMMA TQuietStep ==
    ASSUME IInv, TInv, UNCHANGED <<lists, pc, work, staged, submits, merge>>,
           table' = table \/ table' = None \/ KnownIds(table') = {}
    PROVE  TInv'
<1>1. \A x \in Writers : OwnLists(x)'
  BY DEF TInv, OwnLists, AppendIndices
<1>2. \A w \in Writers : Untouched(w) => Untouched(w)'
  BY DEF Untouched, Foreign, KnownIds
<1> QED
  BY <1>1, <1>2 DEF TInv, Pending

LEMMA StepKeepsTInv == IInv /\ IInv' /\ TInv /\ [Next]_vars => TInv'
<1> SUFFICES ASSUME IInv, IInv', TInv, [Next]_vars PROVE TInv'
  OBVIOUS
<1>0. TypeOK /\ TypeOK'
  BY DEF IInv
<1>1. ASSUME NEW v \in Writers, Step(v) PROVE TInv'
  BY <1>0, <1>1, TLoadTableStep, TRunActionStep, TUpdateTableStep, TApplyUpdatesStep,
     TWriteMetadataStep DEF Step
<1>2. ASSUME NEW v \in Writers, Cancel(v) PROVE TInv'
  BY <1>0, <1>2, TEndStep DEF Cancel, Ended
<1>3. ASSUME NEW v \in Writers, Resubmit(v) PROVE TInv'
  <2>1. /\ pc'[v] = "load" /\ \A x \in Writers \ {v} : pc'[x] = pc[x]
        /\ submits'[v] = submits[v] + 1
    BY <1>0, <1>3 DEF Resubmit, TypeOK
  <2> QED
    BY <1>0, <1>3, <2>1, TLeaveStep DEF Resubmit
<1>4. CASE DropTable
  BY <1>4, TQuietStep DEF DropTable
<1>5. CASE CreateTable
  <2>1. KnownIds(table') = {}
    BY <1>5 DEF CreateTable, NewMetadata, KnownIds
  <2> QED
    BY <1>5, <2>1, TQuietStep DEF CreateTable
<1>6. CASE Finished \/ UNCHANGED vars
  BY <1>6, TQuietStep DEF Finished, vars
<1> QED
  BY <1>1, <1>2, <1>3, <1>4, <1>5, <1>6 DEF Next

LEMMA TInvHolds == Spec => []TInv
<1>1. Init => TInv
  BY DEF Init, TInv, OwnLists, Untouched, Pending, Foreign, NewMetadata, KnownIds
<1>2. IInv /\ IInv' /\ TInv /\ [Next]_vars => TInv'
  BY StepKeepsTInv
<1> QED
  BY <1>1, <1>2, IInvHolds, PTL DEF Spec

(* A commit that returned an error, or was dropped, has added nothing to    *)
(* the table, whatever it had already written to storage.                   *)
THEOREM FailureIsInvisible == Spec => []FailureLeavesNoTrace
<1>1. ASSUME IInv, TInv PROVE FailureLeavesNoTrace
  <2> SUFFICES ASSUME NEW w \in Writers, submits[w] = 1,
                      pc[w] \in {"conflict", "failed", "cancelled"}, table # None
               PROVE  \A mf \in ManifestsOf(table) : mf.uuid[1] # w
    BY DEF FailureLeavesNoTrace, Contribution
  <2>1. Untouched(w) /\ Sound(table)
    BY <1>1 DEF TInv, IInv, Pending
  <2> QED
    BY <2>1 DEF Untouched, Sound, Foreign, ManifestsOf
<1> QED
  BY <1>1, IInvHolds, TInvHolds, PTL

-----------------------------------------------------------------------------
(***************************************************************************)
(* Success.  What a writer has staged are the actions of its transaction,   *)
(* and the list of a staged append holds a manifest of its files.  The last *)
(* append merged is main, so main reaches that manifest when the pointer    *)
(* flips.  From then on main reaches what it reached as long as the table   *)
(* lives, and a table created later has a uuid no commit of before can      *)
(* require.  That it is reached once needs the check for duplicates.        *)
(***************************************************************************)

(* One of the manifests holds the files of the i-th action, written by w. *)
Shows(mfs, w, i) == \E mf \in mfs : mf.uuid[1] = w /\ mf.files = Tx[w][i].files

(* The uuids that the i-th commit w has staged may require. *)
Requires(w, i, uuid) == [type |-> "UuidMatch", uuid |-> uuid] \in staged[w][i].reqs

(* What w has staged is what its transaction asks for. *)
StagedAsAsked(w) ==
    /\ Len(staged[w]) <= Len(Tx[w])
    /\ \A i \in DOMAIN staged[w] : staged[w][i].kind = Tx[w][i].kind
    /\ \A i \in AppendIndices(w) : \A n \in Nat : Requires(w, i, n) => n <= tables

StagedLists(w) ==
    \A i \in AppendIndices(w) : Shows(lists[staged[w][i].snapshot.list], w, i)

MergesShown(w) ==
    \A i \in AppendIndices(w) : i <= merge.done => Shows(Reached(lists, merge.meta), w, i)

Visible(w) ==
    /\ \A i, j \in AppendIndices(w) : i = j
    /\ \A i \in AppendIndices(w) :
          table # None /\ Requires(w, i, table.uuid) => Shows(Reached(lists, table), w, i)

VisibleWriter(w) ==
    /\ pc[w] \in {"act", "merge", "committed"} => StagedAsAsked(w)
    /\ pc[w] \in {"act", "merge"} => StagedLists(w)
    /\ pc[w] \in {"merge", "committed"} => Len(staged[w]) = Len(Tx[w])
    /\ pc[w] = "merge" => MergesShown(w)
    /\ pc[w] = "committed" => Visible(w)

VInv == \A w \in Writers : VisibleWriter(w)

-----------------------------------------------------------------------------
(* The table after any step reaches what it reached, or is a new one. *)
LEMMA TableGoesOn ==
    ASSUME IInv, HInv, RInv, [Next]_vars
    PROVE  /\ tables \in Nat /\ tables' \in Nat /\ tables <= tables'
           /\ table' # None =>
                \/ /\ table # None /\ table'.uuid = table.uuid
                   /\ Reached(lists, table) \subseteq Reached(lists', table')
                \/ table'.uuid = tables + 1
<1>1. tables \in Nat /\ StorageGrows(lists, lists')
  BY StorageOnlyGrows DEF IInv, TypeOK
<1>2. CASE UNCHANGED <<table, tables>>
  <2>1. table # None => Reached(lists', table) = Reached(lists, table)
    BY <1>1, SoundIsListed, ReachedStill DEF IInv
  <2> QED
    BY <1>1, <1>2, <2>1
<1>3. ASSUME NEW w \in Writers, WriteMetadata(w), FlipPointer(w)
      PROVE  /\ tables' = tables /\ table # None /\ table'.uuid = table.uuid
             /\ Reached(lists, table) \subseteq Reached(lists', table')
  <2>1. /\ pc[w] = "merge" /\ merge.done = Len(staged[w]) /\ UNCHANGED <<tables, lists>>
    BY <1>3 DEF WriteMetadata
  <2>2. table' = merge.meta
    BY <1>3, <2>1, PublishedTable
  <2>3. Merging(w) /\ MergesLinearly(w) /\ MergesAll(w)
    BY <2>1 DEF IInv, WriterInv, HInv, LinearWriter, RInv, RetainingWriter
  <2> QED
    BY <2>1, <2>2, <2>3 DEF Merging, MergesLinearly, MergesAll
<1>4. CASE DropTable
  BY <1>1, <1>4 DEF DropTable
<1>5. CASE CreateTable
  <2>1. table'.uuid = tables + 1 /\ tables' = tables + 1
    BY <1>5 DEF CreateTable, NewMetadata
  <2> QED
    BY <1>1, <2>1
<1>6. \/ UNCHANGED <<table, tables>> \/ DropTable \/ CreateTable
      \/ \E w \in Writers : WriteMetadata(w) /\ FlipPointer(w)
  BY DEF Next, Step, LoadTable, RunAction, UpdateTable, ApplyUpdates, MergeCommit,
     WriteMetadata, FailToWrite, Cancel, Resubmit, Finished, vars
<1> QED
  BY <1>1, <1>2, <1>3, <1>4, <1>5, <1>6

(* A writer whose own place and commits do not change. *)
LEMMA VisibleStill ==
    ASSUME IInv, HInv, RInv, [Next]_vars, NEW w \in Writers, VisibleWriter(w),
           pc'[w] = pc[w], staged'[w] = staged[w], pc[w] = "merge" => merge' = merge
    PROVE  VisibleWriter(w)'
<1>1. AppendIndices(w)' = AppendIndices(w) /\ \A i, n : Requires(w, i, n)' = Requires(w, i, n)
  BY DEF AppendIndices, Requires
<1>2. StorageGrows(lists, lists')
  BY StorageOnlyGrows
<1>3. tables \in Nat /\ tables' \in Nat /\ tables <= tables'
  BY TableGoesOn
<1>4. ASSUME StagedAsAsked(w) PROVE StagedAsAsked(w)'
  BY <1>1, <1>3, <1>4 DEF StagedAsAsked
<1>5. ASSUME pc[w] \in {"act", "merge"} PROVE StagedLists(w)'
  <2>1. StagedLists(w) /\ \A i \in AppendIndices(w) : staged[w][i].snapshot.list \in DOMAIN lists
    BY <1>5 DEF VisibleWriter, IInv, WriterInv, Chained
  <2> QED
    BY <1>1, <1>2, <2>1 DEF StagedLists, StorageGrows
<1>6. ASSUME pc[w] = "merge" PROVE MergesShown(w)'
  <2>1. MergesShown(w) /\ Sound(merge.meta) /\ merge' = merge
    BY <1>6 DEF VisibleWriter, IInv, WriterInv, Merging
  <2>2. Reached(lists', merge.meta) = Reached(lists, merge.meta)
    BY <1>2, <2>1, SoundIsListed, ReachedStill
  <2> QED
    BY <1>1, <2>1, <2>2 DEF MergesShown
<1>7. ASSUME pc[w] = "committed" PROVE Visible(w)'
  <2>1. Visible(w) /\ StagedAsAsked(w)
    BY <1>7 DEF VisibleWriter
  <2>2. ASSUME NEW i \in AppendIndices(w), table' # None, Requires(w, i, table'.uuid)
        PROVE  Shows(Reached(lists', table'), w, i)
    <3>1. table'.uuid # tables + 1
      BY <1>3, <2>1, <2>2 DEF StagedAsAsked
    <3>2. /\ table # None /\ table'.uuid = table.uuid
          /\ Reached(lists, table) \subseteq Reached(lists', table')
      BY <2>2, <3>1, TableGoesOn
    <3> QED
      BY <2>1, <2>2, <3>2 DEF Visible, Shows
  <2> QED
    BY <1>1, <2>1, <2>2 DEF Visible
<1> QED
  BY <1>4, <1>5, <1>6, <1>7 DEF VisibleWriter

(* A writer that leaves commit without success, or starts it again. *)
LEMMA LeavingIsVisible ==
    ASSUME NEW w, pc'[w] \notin {"act", "merge", "committed"}
    PROVE  VisibleWriter(w)'
BY DEF VisibleWriter

LEMMA EndIsVisible ==
    ASSUME IInv, NEW w \in Writers, NEW o \in Ended \ {"committed"}, End(w, o)
    PROVE  VisibleWriter(w)'
<1>1. pc'[w] = o
  BY DEF End, IInv, TypeOK
<1> QED
  BY <1>1, LeavingIsVisible DEF Ended

-----------------------------------------------------------------------------
LEMMA VLoadTableStep ==
    ASSUME IInv, NEW w \in Writers, LoadTable(w)
    PROVE  VisibleWriter(w)'
<1>1. CASE pc' = [pc EXCEPT ![w] = "act"] /\ staged' = [staged EXCEPT ![w] = << >>]
  <2>1. pc'[w] = "act" /\ staged'[w] = << >>
    BY <1>1 DEF IInv, TypeOK
  <2>2. Len(Tx[w]) \in Nat
    BY TxAssumption
  <2> QED
    BY <2>1, <2>2 DEF VisibleWriter, StagedAsAsked, StagedLists, AppendIndices
<1>2. CASE End(w, "failed")
  BY <1>2, EndIsVisible DEF Ended
<1> QED
  BY <1>1, <1>2 DEF LoadTable

(* Staging the next action of the transaction. *)
LEMMA VStageStep ==
    ASSUME IInv, NEW w \in Writers, VisibleWriter(w), pc[w] = "act", work[w] # None,
           Len(staged[w]) < Len(Tx[w]), NEW c \in ActionCommit, Stage(w, c),
           c.kind = Tx[w][Len(staged[w]) + 1].kind, tables' = tables,
           StorageGrows(lists, lists'),
           c.kind = "append" =>
               /\ \A n \in Nat : [type |-> "UuidMatch", uuid |-> n] \in c.reqs => n <= tables
               /\ Shows(lists'[c.snapshot.list], w, Len(staged[w]) + 1)
    PROVE  VisibleWriter(w)'
<1> DEFINE l == Len(staged[w]) + 1
<1>1. TypeOK /\ StagedAsAsked(w) /\ StagedLists(w) /\ Chained(w)
  BY DEF IInv, WriterInv, VisibleWriter
<1>2. /\ pc' = pc /\ staged'[w][l] = c
      /\ AppendIndices(w)' = AppendIndices(w) \cup (IF c.kind = "append" THEN {l} ELSE {})
      /\ \A i \in AppendIndices(w) : staged'[w][i] = staged[w][i]
  BY <1>1, StageEffect
<1>3. /\ staged'[w] = Append(staged[w], c) /\ staged[w] \in Seq(ActionCommit)
      /\ Len(staged[w]) \in Nat /\ Len(Tx[w]) \in Nat
  BY <1>1, TxAssumption DEF Stage, TypeOK
<1>4. /\ Len(staged'[w]) = l /\ l <= Len(Tx[w])
      /\ \A i \in DOMAIN staged'[w] : i # l => i \in DOMAIN staged[w] /\ staged'[w][i] = staged[w][i]
  BY <1>3
<1>5. StagedAsAsked(w)'
  <2>1. \A i \in DOMAIN staged'[w] : staged'[w][i].kind = Tx[w][i].kind
    BY <1>1, <1>2, <1>4 DEF StagedAsAsked
  <2>2. ASSUME NEW i \in AppendIndices(w)', NEW n \in Nat,
               [type |-> "UuidMatch", uuid |-> n] \in staged'[w][i].reqs
        PROVE  n <= tables
    BY <1>1, <1>2, <2>2 DEF StagedAsAsked, Requires
  <2> QED
    BY <1>4, <2>1, <2>2 DEF StagedAsAsked, Requires
<1>6. StagedLists(w)'
  <2>1. ASSUME NEW i \in AppendIndices(w)' PROVE Shows(lists'[staged'[w][i].snapshot.list], w, i)
    <3>1. CASE i \in AppendIndices(w)
      BY <1>1, <1>2, <3>1, ZenonT(60) DEF StagedLists, Chained, StorageGrows
    <3>2. CASE i = l /\ c.kind = "append"
      BY <1>2, <3>2
    <3> QED
      BY <1>2, <2>1, <3>1, <3>2
  <2> QED
    BY <2>1 DEF StagedLists, Shows
<1> QED
  BY <1>2, <1>5, <1>6 DEF VisibleWriter

LEMMA VFastAppendStep ==
    ASSUME IInv, HInv, RInv, NEW w \in Writers, VisibleWriter(w), pc[w] = "act", work[w] # None,
           Len(staged[w]) < Len(Tx[w]), NEW a \in Actions, a = Tx[w][Len(staged[w]) + 1],
           a.kind = "append", FastAppend(w, a), tables' = tables
    PROVE  VisibleWriter(w)'
<1> DEFINE m == work[w]
           l == Len(staged[w]) + 1
           uuid == <<w, serial[w], l>>
           mfs == ManifestList(m, uuid, a.files)
<1>1. TypeOK /\ m \in Metadata /\ m.uuid <= tables
  BY DEF IInv, HInv, LinearWriter, TypeOK
<1>2. CASE End(w, "failed")
  BY <1>2, EndIsVisible DEF Ended
<1>3. CASE /\ WriteManifestList(uuid, mfs)
           /\ \E id \in SnapshotIds \ KnownIds(m) : Stage(w, AppendCommit(m, id, uuid, a.files))
  <2>1. uuid \notin DOMAIN lists
    BY NameIsNew
  <2>2. lists'[uuid] = mfs /\ StorageGrows(lists, lists')
    <3> HIDE DEF uuid, mfs
    <3> QED
      BY <1>3, <2>1, WritingGrows
  <2>3. Shows(mfs, w, l)
    <3>1. /\ AddedManifest(m, uuid, a.files) \in mfs
          /\ AddedManifest(m, uuid, a.files).files = a.files
          /\ AddedManifest(m, uuid, a.files).uuid[1] = w
      BY DEF ManifestList, AddedManifest
    <3> HIDE DEF mfs
    <3> QED
      BY <3>1 DEF Shows
  <2>4. PICK id \in SnapshotIds \ KnownIds(m) : Stage(w, AppendCommit(m, id, uuid, a.files))
    BY <1>3
  <2> DEFINE c == AppendCommit(m, id, uuid, a.files)
  <2>5. uuid \in CommitUuids /\ a.files \in SUBSET Files
    <3>1. serial[w] \in Nat /\ Len(staged[w]) \in Nat
      BY <1>1 DEF TypeOK
    <3> QED
      BY <3>1 DEF CommitUuids, Actions
  <2>6. TotalDataFiles(m, id, a.files) \in Nat
    BY <2>5, FilesAreCounted DEF TotalDataFiles
  <2>7. NewSnapshot(m, id, uuid, a.files) \in Snapshot
    BY <1>1, <2>5, <2>6, NextSequenceNumberType, FilesAreCounted
       DEF NewSnapshot, Snapshot, Metadata
  <2>8. c \in ActionCommit
    BY <1>1, <2>7 DEF AppendCommit, ActionCommit, Requirement, Metadata
  <2>9. /\ c.kind = "append" /\ c.snapshot.list = uuid
        /\ \A n \in Nat : [type |-> "UuidMatch", uuid |-> n] \in c.reqs => n = m.uuid
    BY DEF AppendCommit, NewSnapshot
  <2> HIDE DEF c, mfs, uuid, m
  <2> QED
    BY <1>1, <2>2, <2>3, <2>4, <2>8, <2>9, VStageStep DEF c, m
<1> QED
  BY <1>2, <1>3 DEF FastAppend

LEMMA VRunActionStep ==
    ASSUME IInv, HInv, RInv, NEW w \in Writers, VisibleWriter(w), RunAction(w)
    PROVE  VisibleWriter(w)'
<1> DEFINE a == Tx[w][Len(staged[w]) + 1]
           m == work[w]
<1>1. /\ TypeOK /\ pc[w] = "act" /\ m # None /\ tables' = tables
      /\ Len(staged[w]) < Len(Tx[w])
  BY DEF RunAction, IInv, WriterInv
<1>2. a \in Actions
  BY <1>1, TxAssumption DEF RunAction, TypeOK
<1>3. m \in Metadata
  BY <1>1 DEF TypeOK
<1>4. CASE End(w, "failed")
  BY <1>4, EndIsVisible DEF Ended
<1>5. CASE a.kind = "append" /\ FastAppend(w, a)
  BY <1>1, <1>2, <1>5, VFastAppendStep
<1>6. ASSUME NEW c \in ActionCommit, c.kind # "append", c.kind = a.kind, Stage(w, c),
             UNCHANGED lists
      PROVE  VisibleWriter(w)'
  BY <1>1, <1>6, SameStorageGrows, VStageStep
<1>7. CASE a.kind = "sort" /\ Stage(w, SortCommit(m, a)) /\ UNCHANGED lists
  <2>1. SortCommit(m, a) \in ActionCommit /\ SortCommit(m, a).kind = "sort"
    BY <1>2, <1>3, <1>7 DEF SortCommit, ActionCommit, Requirement, Metadata, Actions
  <2> QED
    BY <1>6, <1>7, <2>1
<1>8. CASE a.kind = "props" /\ Stage(w, PropsCommit(w, a)) /\ UNCHANGED lists
  <2>1. PropsCommit(w, a) \in ActionCommit /\ PropsCommit(w, a).kind = "props"
    BY <1>2, <1>8 DEF PropsCommit, ActionCommit, Actions
  <2> QED
    BY <1>6, <1>8, <2>1
<1> QED
  BY <1>4, <1>5, <1>7, <1>8 DEF RunAction, ReplaceSortOrder, UpdateTableProperties

LEMMA VUpdateTableStep ==
    ASSUME IInv, NEW w \in Writers, VisibleWriter(w), UpdateTable(w)
    PROVE  VisibleWriter(w)'
<1>1. /\ TypeOK /\ pc[w] = "act" /\ Len(staged[w]) = Len(Tx[w])
      /\ UNCHANGED <<tables, lists, staged>>
      /\ StagedAsAsked(w) /\ StagedLists(w)
  BY DEF UpdateTable, IInv, VisibleWriter
<1>2. CASE merge' = [meta |-> table, done |-> 0] /\ pc' = [pc EXCEPT ![w] = "merge"]
  <2>1. pc'[w] = "merge" /\ merge'.done = 0 /\ AppendIndices(w)' = AppendIndices(w)
    BY <1>1, <1>2 DEF TypeOK, AppendIndices
  <2>2. \A i \in AppendIndices(w) : ~(i <= 0)
    BY <1>1 DEF AppendIndices, TypeOK
  <2>3. MergesShown(w)'
    BY <2>1, <2>2 DEF MergesShown
  <2>4. StagedAsAsked(w)' /\ StagedLists(w)'
    BY <1>1, <2>1 DEF StagedAsAsked, StagedLists, Requires
  <2> QED
    BY <1>1, <2>1, <2>3, <2>4 DEF VisibleWriter
<1>3. CASE pc' = [pc EXCEPT ![w] = "load"]
  <2>1. pc'[w] = "load"
    BY <1>1, <1>3 DEF TypeOK
  <2> QED
    BY <2>1, LeavingIsVisible
<1>4. ASSUME NEW o \in Ended \ {"committed"}, End(w, o) PROVE VisibleWriter(w)'
  BY <1>4, EndIsVisible
<1> QED
  BY <1>2, <1>3, <1>4 DEF UpdateTable, Conflict, Ended

(* An append that is merged is main. *)
LEMMA MergedMain ==
    ASSUME NEW m \in Metadata, NEW c \in ActionCommit, c.kind = "append"
    PROVE  LET n == ApplyCommit(c, m)
           IN  n.current = c.id /\ n.snapshots[c.id] = c.snapshot /\ c.id # None
<1>1. /\ ApplyCommit(c, m).current = c.id
      /\ ApplyCommit(c, m).snapshots = [m.snapshots EXCEPT ![c.id] = c.snapshot]
  BY ApplyAppend
<1>2. c.id \in SnapshotIds /\ c.id # None
  BY NoneAssumption DEF ActionCommit
<1>3. m.snapshots \in [SnapshotIds -> Snapshot \cup {None}]
  BY DEF Metadata
<1> QED
  BY <1>1, <1>2, <1>3

LEMMA VApplyUpdatesStep ==
    ASSUME IInv, RInv, NEW w \in Writers, VisibleWriter(w), ApplyUpdates(w)
    PROVE  VisibleWriter(w)'
<1> DEFINE c == staged[w][merge.done + 1]
           m == merge.meta
           n == ApplyCommit(c, m)
<1>1. /\ TypeOK /\ pc[w] = "merge" /\ merge.done < Len(staged[w])
      /\ UNCHANGED <<tables, lists, staged>>
  BY DEF ApplyUpdates, IInv
<1>2. /\ Merging(w) /\ Chained(w) /\ m \in Metadata /\ Numbered(lists, m) /\ MergesShown(w)
      /\ StagedAsAsked(w) /\ StagedLists(w) /\ Len(staged[w]) = Len(Tx[w]) /\ StagedTight(w)
  BY <1>1 DEF IInv, WriterInv, RInv, RetainingWriter, MergesAll, Merging, TypeOK, VisibleWriter
<1>3. AppendIndices(w)' = AppendIndices(w)
  BY <1>1 DEF AppendIndices
<1>4. CASE CanApply(c, m) /\ MergeCommit(c) /\ UNCHANGED <<pc, lock>>
  <2>1. /\ merge.done + 1 \in DOMAIN staged[w] /\ c \in ActionCommit /\ merge.done \in Nat
        /\ \A i \in AppendIndices(w) : i \in Nat
    <3>1. staged[w] \in Seq(ActionCommit) /\ merge.done \in Nat
      BY <1>1 DEF TypeOK
    <3>2. merge.done + 1 \in DOMAIN staged[w] /\ Len(staged[w]) \in Nat
      BY <1>1, <3>1
    <3> QED
      BY <3>1, <3>2 DEF AppendIndices
  <2>2. merge'.meta = n /\ merge'.done = merge.done + 1 /\ pc' = pc
    BY <1>4 DEF MergeCommit
  <2>3. ASSUME NEW i \in AppendIndices(w), i <= merge.done + 1
        PROVE  Shows(Reached(lists, n), w, i)
    <3>1. CASE c.kind = "append"
      <4>1. merge.done + 1 \in AppendIndices(w)
        BY <2>1, <3>1 DEF AppendIndices
      <4>2. i = merge.done + 1
        BY <1>2, <4>1, OneAppendHolds DEF Merging
      <4>3. Reached(lists, n) = lists[c.snapshot.list]
        <5>1. n.current = c.id /\ n.snapshots[c.id] = c.snapshot /\ c.id # None
          BY <1>2, <2>1, <3>1, MergedMain
        <5> QED
          BY <5>1 DEF Reached
      <4> QED
        BY <1>2, <4>1, <4>2, <4>3 DEF StagedLists
    <3>2. CASE c.kind # "append"
      <4>1. i # merge.done + 1
        BY <3>2 DEF AppendIndices
      <4>2. i <= merge.done
        BY <2>1, <2>3, <4>1
      <4>3. Reached(lists, n) = Reached(lists, m)
        <5> HIDE DEF c, m
        <5> QED
          BY <1>2, <2>1, <3>2, OtherIsNumbered
      <4> QED
        BY <1>2, <4>2, <4>3 DEF MergesShown
    <3> QED
      BY <3>1, <3>2
  <2> HIDE DEF n
  <2>4. MergesShown(w)'
    BY <1>1, <1>3, <2>2, <2>3 DEF MergesShown
  <2>5. StagedAsAsked(w)' /\ StagedLists(w)'
    BY <1>1, <1>2, <1>3 DEF StagedAsAsked, StagedLists, Requires
  <2> QED
    BY <1>1, <1>2, <2>2, <2>4, <2>5 DEF VisibleWriter
<1>5. CASE End(w, "failed")
  BY <1>5, EndIsVisible DEF Ended
<1> QED
  BY <1>4, <1>5 DEF ApplyUpdates

LEMMA VWriteMetadataStep ==
    ASSUME IInv, NEW w \in Writers, VisibleWriter(w), WriteMetadata(w)
    PROVE  VisibleWriter(w)'
<1>1. /\ TypeOK /\ pc[w] = "merge" /\ merge.done = Len(staged[w])
      /\ UNCHANGED <<tables, merge, lists, staged>>
  BY DEF WriteMetadata, IInv
<1>2. /\ Merging(w) /\ Chained(w) /\ MergesShown(w) /\ StagedAsAsked(w)
      /\ Len(staged[w]) = Len(Tx[w]) /\ staged[w] \in Seq(ActionCommit)
  BY <1>1 DEF IInv, WriterInv, VisibleWriter, TypeOK
<1>3. AppendIndices(w)' = AppendIndices(w) /\ \A i \in AppendIndices(w) : i <= Len(staged[w])
  BY <1>1, <1>2 DEF AppendIndices
<1>4. CASE End(w, "committed") /\ FlipPointer(w)
  <2>1. pc'[w] = "committed"
    BY <1>1, <1>4 DEF End, TypeOK
  <2>2. table' = merge.meta
    BY <1>1, <1>4, PublishedTable
  <2>3. \A i, j \in AppendIndices(w) : i = j
    BY <1>2, OneAppendHolds DEF Merging
  <2>4. Visible(w)'
    BY <1>1, <1>2, <1>3, <2>2, <2>3 DEF Visible, MergesShown
  <2>5. StagedAsAsked(w)'
    BY <1>1, <1>2, <1>3 DEF StagedAsAsked, Requires
  <2> QED
    BY <1>1, <1>2, <2>1, <2>4, <2>5 DEF VisibleWriter
<1>5. ASSUME NEW o \in Ended \ {"committed"}, End(w, o) PROVE VisibleWriter(w)'
  BY <1>5, EndIsVisible
<1> QED
  BY <1>4, <1>5 DEF WriteMetadata, FailToWrite, Ended

-----------------------------------------------------------------------------
LEMMA OthersStay ==
    ASSUME IInv, NEW w \in Writers, Step(w) \/ Cancel(w) \/ Resubmit(w),
           NEW v \in Writers \ {w}
    PROVE  /\ pc'[v] = pc[v] /\ staged'[v] = staged[v]
           /\ pc[v] = "merge" => merge' = merge
<1>1. TypeOK
  BY DEF IInv
<1>2. pc[v] = "merge" => lock = v /\ lock # None /\ pc[w] # "merge"
  BY MergerHoldsLock
<1>3. CASE LoadTable(w)
  BY <1>1, <1>3 DEF LoadTable, End, TypeOK
<1>4. CASE RunAction(w)
  BY <1>1, <1>4 DEF RunAction, FastAppend, ReplaceSortOrder, UpdateTableProperties, Stage, End, TypeOK
<1>5. CASE UpdateTable(w)
  BY <1>1, <1>2, <1>5 DEF UpdateTable, Conflict, End, TypeOK
<1>6. CASE ApplyUpdates(w)
  BY <1>1, <1>2, <1>6 DEF ApplyUpdates, End, TypeOK
<1>7. CASE WriteMetadata(w)
  BY <1>1, <1>7 DEF WriteMetadata, FailToWrite, End, TypeOK
<1>8. CASE Cancel(w) \/ Resubmit(w)
  BY <1>1, <1>8 DEF Cancel, Resubmit, End, TypeOK
<1> QED
  BY <1>3, <1>4, <1>5, <1>6, <1>7, <1>8 DEF Step

LEMMA StepKeepsVInv == IInv /\ HInv /\ RInv /\ VInv /\ [Next]_vars => VInv'
<1> SUFFICES ASSUME IInv, HInv, RInv, VInv, [Next]_vars, NEW v \in Writers
             PROVE  VisibleWriter(v)'
  BY DEF VInv
<1>0. VisibleWriter(v) /\ TypeOK
  BY DEF VInv, IInv
<1>1. ASSUME NEW w \in Writers, Step(w) \/ Cancel(w) \/ Resubmit(w), v # w
      PROVE  VisibleWriter(v)'
  BY <1>0, <1>1, OthersStay, VisibleStill
<1>2. CASE Step(v)
  BY <1>0, <1>2, VLoadTableStep, VRunActionStep, VUpdateTableStep, VApplyUpdatesStep,
     VWriteMetadataStep DEF Step
<1>3. CASE Cancel(v)
  BY <1>3, EndIsVisible DEF Cancel, Ended
<1>4. CASE Resubmit(v)
  <2>1. pc'[v] = "load"
    BY <1>0, <1>4 DEF Resubmit, TypeOK
  <2> QED
    BY <2>1, LeavingIsVisible
<1>5. CASE UNCHANGED <<pc, staged, merge>>
  BY <1>0, <1>5, VisibleStill
<1>6. CASE DropTable \/ CreateTable \/ Finished \/ UNCHANGED vars
  BY <1>5, <1>6 DEF DropTable, CreateTable, Finished, vars
<1> QED
  BY <1>1, <1>2, <1>3, <1>4, <1>6 DEF Next

LEMMA VInvHolds == Spec => []VInv
<1>1. Init => VInv
  <2> SUFFICES ASSUME Init, NEW w \in Writers PROVE VisibleWriter(w)
    BY DEF VInv
  <2>1. /\ staged[w] = << >> /\ pc[w] \notin {"act", "merge"}
        /\ pc[w] = "committed" => Tx[w] = << >>
    BY DEF Init
  <2>2. AppendIndices(w) = {} /\ Len(Tx[w]) \in Nat
    BY <2>1, TxAssumption DEF AppendIndices
  <2> QED
    BY <2>1, <2>2 DEF VisibleWriter, StagedAsAsked, Visible
<1>2. IInv /\ HInv /\ RInv /\ VInv /\ [Next]_vars => VInv'
  BY StepKeepsVInv
<1> QED
  BY <1>1, <1>2, IInvHolds, HInvHolds, RInvHolds, PTL DEF Spec

(* A commit that returned Ok added each of its appends exactly once, and    *)
(* they are there for as long as the table is, if every append checks for   *)
(* duplicates.                                                              *)
THEOREM SuccessShows ==
    ASSUME EveryAppendChecks
    PROVE  Spec => []SuccessIsVisible
<1>1. ASSUME IInv, RInv, VInv, NEW w \in Writers, pc[w] = "committed", table # None,
             NEW j \in DOMAIN staged[w], staged[w][j].kind = "append",
             [type |-> "UuidMatch", uuid |-> table.uuid] \in staged[w][j].reqs,
             NEW i \in DOMAIN Tx[w], Tx[w][i].kind = "append"
      PROVE  Cardinality({mf \in Contribution(w) : mf.files = Tx[w][i].files}) = 1
  <2> DEFINE mine == {mf \in Contribution(w) : mf.files = Tx[w][i].files}
  <2>1. Visible(w) /\ StagedAsAsked(w) /\ Len(staged[w]) = Len(Tx[w])
    BY <1>1 DEF VInv, VisibleWriter
  <2>2. i \in AppendIndices(w) /\ j \in AppendIndices(w)
    <3>1. staged[w] \in Seq(ActionCommit) /\ Tx[w] \in Seq(Actions)
      BY <1>1, TxAssumption DEF IInv, TypeOK
    <3>2. i \in DOMAIN staged[w]
      BY <1>1, <2>1, <3>1
    <3> QED
      BY <1>1, <2>1, <3>2 DEF StagedAsAsked, AppendIndices
  <2>3. i = j
    BY <2>1, <2>2 DEF Visible
  <2>4. Reached(lists, table) = ManifestsOf(table)
    BY DEF Reached, ManifestsOf
  <2>5. PICK mf \in ManifestsOf(table) : mf.uuid[1] = w /\ mf.files = Tx[w][i].files
    BY <1>1, <2>1, <2>2, <2>3, <2>4 DEF Visible, Requires, Shows
  <2>6. mf \in mine
    BY <1>1, <2>5 DEF Contribution
  <2>7. GoodList(ManifestsOf(table))
    BY <1>1, MainIsGood
  <2>8. ASSUME NEW x \in mine PROVE x = mf
    <3>1. x \in ManifestsOf(table) /\ x.files = mf.files
      BY <1>1, <2>5, <2>8 DEF Contribution
    <3> QED
      BY <2>5, <2>7, <3>1 DEF GoodList
  <2>9. mine = {mf}
    BY <2>6, <2>8
  <2> QED
    BY <2>9, FS_Singleton
<1>2. ASSUME IInv, RInv, VInv PROVE SuccessIsVisible
  BY <1>1, <1>2 DEF SuccessIsVisible
<1> QED
  BY <1>2, IInvHolds, RInvHolds, VInvHolds, PTL

-----------------------------------------------------------------------------
(***************************************************************************)
(* Transaction implements AtomicTable, for any number of writers, retries,  *)
(* failures and lost answers.                                               *)
(*                                                                          *)
(* The argument.  The history is the log of the table, each snapshot read   *)
(* through the manifest its list was written with; lists are never written  *)
(* twice, so it changes only when the pointer flips.  By then the metadata  *)
(* that was merged is the table, which nobody else could change, with every *)
(* action of the transaction on it.  A file the append found nowhere is in  *)
(* no manifest of the list it carried over, and the table still reaches no  *)
(* more than that list, because its parent is still main.                   *)
(***************************************************************************)
(* Each list has one manifest of its own, and the others are of lists       *)
(* written before it.                                                       *)
OwnManifests ==
    \A u \in DOMAIN lists :
        /\ \E mf \in lists[u] : mf.uuid = u
        /\ \A a, b \in lists[u] : a.uuid = u /\ b.uuid = u => a = b
        /\ \A mf \in lists[u] : mf.uuid \in DOMAIN lists

(* Main reaches what any snapshot of m has reached. *)
AllReached(L, m) ==
    \A id \in KnownIds(m) : L[m.snapshots[id].list] \subseteq Reached(L, m)

(* The list named u was written for the append a of w: it has a manifest of *)
(* the files, and of none of them another one if the append looked.         *)
WrittenFor(w, a, L, u) ==
    /\ u[1] = w
    /\ \E mf \in L[u] : mf.uuid = u /\ mf.files = a.files
    /\ a.checkDuplicate => \A mf \in L[u] : mf.uuid # u => mf.files \cap a.files = {}

(* c is what running a made of it. *)
Stands(w, c, a, L) ==
    /\ c.kind = "append" => WrittenFor(w, a, L, c.snapshot.list)
    /\ c.kind = "sort" => c.order = a.order
    /\ c.kind = "props" =>
          c.by = w /\ c.set = a.set /\ c.remove = a.remove /\ a.set \cap a.remove = {}

StagedExactly(w) == \A i \in DOMAIN staged[w] : Stands(w, staged[w][i], Tx[w][i], lists)

(* No snapshot of the table has a list w is still to publish. *)
Unpublished(w) ==
    table # None =>
        \A i \in AppendIndices(w) : \A id \in KnownIds(table) :
            table.snapshots[id].list # staged[w][i].snapshot.list

(* The actions of w up to the n-th that sort, and that set or remove k. *)
Sorts(w, n) == {i \in DOMAIN Tx[w] : i <= n /\ Tx[w][i].kind = "sort"}
Touching(w, n, k) ==
    {i \in DOMAIN Tx[w] :
        i <= n /\ Tx[w][i].kind = "props" /\ k \in Tx[w][i].set \cup Tx[w][i].remove}

IsLast(i, S) == i \in S /\ \A j \in S : j <= i

(* m is the table after the first n actions of w. *)
OrderAt(w, n, m) ==
    \/ Sorts(w, n) = {} /\ m.order = table.order
    \/ \E i \in Sorts(w, n) : IsLast(i, Sorts(w, n)) /\ m.order = Tx[w][i].order

PropAt(w, n, m, k) ==
    \/ Touching(w, n, k) = {} /\ m.props[k] = table.props[k]
    \/ \E i \in Touching(w, n, k) :
          /\ IsLast(i, Touching(w, n, k))
          /\ m.props[k] = IF k \in Tx[w][i].set THEN w ELSE None

SnapshotsAt(w, n, m) ==
    /\ (\A i \in AppendIndices(w) : ~(i <= n)) =>
          m.log = table.log /\ m.snapshots = table.snapshots /\ m.current = table.current
    /\ \A i \in AppendIndices(w) : i <= n =>
          LET c == staged[w][i]
          IN  /\ c.id \notin KnownIds(table) /\ m.current = c.id
              /\ m.log = Append(table.log, c.id)
              /\ m.snapshots = [table.snapshots EXCEPT ![c.id] = c.snapshot]

MergedExactly(w) ==
    /\ OrderAt(w, merge.done, merge.meta)
    /\ \A k \in PropertyKeys : PropAt(w, merge.done, merge.meta, k)
    /\ SnapshotsAt(w, merge.done, merge.meta)

ExactWriter(w) ==
    /\ pc[w] \in {"act", "merge"} => StagedExactly(w) /\ Unpublished(w)
    /\ pc[w] = "merge" => MergedExactly(w)

FInv ==
    /\ OwnManifests
    /\ table # None => AllReached(lists, table)
    /\ \A w \in Writers : ExactWriter(w)

-----------------------------------------------------------------------------

(* What a list was written for stays true of it. *)
LEMMA StandsStill ==
    ASSUME NEW w, NEW c, NEW a, NEW L, NEW M, StorageGrows(L, M), Stands(w, c, a, L),
           c.kind = "append" => c.snapshot.list \in DOMAIN L
    PROVE  Stands(w, c, a, M)
BY DEF Stands, WrittenFor, StorageGrows

LEMMA ReachesStill ==
    ASSUME NEW L, NEW M, NEW m, Listed(L, m), StorageGrows(L, M), AllReached(L, m)
    PROVE  AllReached(M, m)
<1>1. Reached(M, m) = Reached(L, m)
  BY ReachedStill
<1> QED
  BY <1>1 DEF AllReached, Listed, StorageGrows

(* A new list is made of one manifest of its own and those of a list. *)
LEMMA WritingOwnsOne ==
    ASSUME OwnManifests, NEW uuid, uuid \notin DOMAIN lists, NEW m, Sound(m), NEW F,
           WriteManifestList(uuid, ManifestList(m, uuid, F))
    PROVE  OwnManifests'
<1> DEFINE mfs == ManifestList(m, uuid, F)
           own == AddedManifest(m, uuid, F)
<1>1. /\ DOMAIN lists' = DOMAIN lists \cup {uuid} /\ lists'[uuid] = mfs
      /\ \A u \in DOMAIN lists : lists'[u] = lists[u]
  BY WritingGrows DEF StorageGrows
<1>2. \A mf \in mfs : mf = own \/ mf \in ManifestsOf(m)
  BY DEF ManifestList
<1>3. own \in mfs /\ own.uuid = uuid
  BY DEF ManifestList, AddedManifest
<1>4. \A mf \in ManifestsOf(m) : mf.uuid \in DOMAIN lists
  BY DEF ManifestsOf, Sound, OwnManifests
<1>5. \A mf \in mfs : (mf.uuid = uuid => mf = own) /\ mf.uuid \in DOMAIN lists'
  BY <1>1, <1>2, <1>3, <1>4
<1> HIDE DEF mfs, own
<1> QED
  BY <1>1, <1>3, <1>5 DEF OwnManifests

-----------------------------------------------------------------------------
(* What an ActionCommit changes beside the snapshots. *)
LEMMA AppendSettings ==
    ASSUME NEW m \in Metadata, NEW c \in ActionCommit, c.kind = "append"
    PROVE  ApplyCommit(c, m).order = m.order /\ ApplyCommit(c, m).props = m.props
<1> DEFINE a == AddSnapshot(m, c.id, c.snapshot)
<1>1. a.order = m.order /\ a.props = m.props /\ DOMAIN a = DOMAIN m
  BY DEF AddSnapshot, Metadata
<1>2. SetSnapshotRef(a, c.id).order = a.order /\ SetSnapshotRef(a, c.id).props = a.props
  <2> HIDE DEF a
  <2> QED
    BY <1>1 DEF SetSnapshotRef, Metadata
<1> QED
  BY <1>1, <1>2 DEF ApplyCommit

LEMMA SortSettings ==
    ASSUME NEW m \in Metadata, NEW c \in ActionCommit, c.kind = "sort"
    PROVE  ApplyCommit(c, m).order = c.order /\ ApplyCommit(c, m).props = m.props
BY DEF ApplyCommit, SetDefaultSortOrder, Metadata

LEMMA PropsSettings ==
    ASSUME NEW m \in Metadata, NEW c \in ActionCommit, c.kind = "props", NEW k \in PropertyKeys
    PROVE  /\ ApplyCommit(c, m).order = m.order
           /\ ApplyCommit(c, m).props[k] =
                IF k \in c.remove THEN None ELSE IF k \in c.set THEN c.by ELSE m.props[k]
BY DEF ApplyCommit, UpdateProperties, Metadata

(* The n-th action makes the next step of each setting. *)
LEMMA NextSettings ==
    ASSUME TypeOK, NEW w \in Writers, NEW d \in Nat, d + 1 \in DOMAIN Tx[w],
           NEW c \in ActionCommit, c.kind = Tx[w][d + 1].kind,
           Stands(w, c, Tx[w][d + 1], lists), NEW m \in Metadata,
           OrderAt(w, d, m), \A k \in PropertyKeys : PropAt(w, d, m, k)
    PROVE  /\ OrderAt(w, d + 1, ApplyCommit(c, m))
           /\ \A k \in PropertyKeys : PropAt(w, d + 1, ApplyCommit(c, m), k)
<1> DEFINE n == ApplyCommit(c, m)
           a == Tx[w][d + 1]
<1>0. DOMAIN Tx[w] \subseteq Nat
  BY TxAssumption
<1>1. OrderAt(w, d + 1, n)
  <2>1. CASE c.kind = "sort"
    <3>1. n.order = a.order
      BY <2>1, SortSettings DEF Stands
    <3>2. d + 1 \in Sorts(w, d + 1)
      <4>1. d + 1 <= d + 1 /\ a.kind = "sort"
        BY <2>1
      <4> HIDE DEF n
      <4> QED
        BY <4>1 DEF Sorts
    <3>3. IsLast(d + 1, Sorts(w, d + 1))
      BY <3>2 DEF Sorts, IsLast
    <3> HIDE DEF n
    <3> QED
      BY <3>1, <3>2, <3>3 DEF OrderAt
  <2>2. CASE c.kind # "sort"
    <3>1. n.order = m.order
      <4>1. CASE c.kind = "append"
        BY <4>1, AppendSettings
      <4>2. CASE c.kind = "props"
        BY <4>2 DEF ApplyCommit, UpdateProperties, Metadata
      <4> QED
        BY <2>2, <4>1, <4>2 DEF ActionCommit
    <3>2. Sorts(w, d + 1) = Sorts(w, d)
      BY <2>2, <1>0 DEF Sorts
    <3> HIDE DEF n
    <3> QED
      BY <3>1, <3>2 DEF OrderAt
  <2> QED
    BY <2>1, <2>2
<1>2. ASSUME NEW k \in PropertyKeys PROVE PropAt(w, d + 1, n, k)
  <2>0. PropAt(w, d, m, k)
    OBVIOUS
  <2>1. CASE c.kind = "props" /\ k \in a.set \cup a.remove
    <3>1. n.props[k] = IF k \in a.set THEN w ELSE None
      <4>1. /\ c.by = w /\ c.set = a.set /\ c.remove = a.remove /\ a.set \cap a.remove = {}
        BY <2>1 DEF Stands
      <4>2. n.props[k] =
              IF k \in c.remove THEN None ELSE IF k \in c.set THEN c.by ELSE m.props[k]
        BY <2>1, PropsSettings
      <4> HIDE DEF n
      <4> QED
        BY <2>1, <4>1, <4>2
    <3>2. d + 1 \in Touching(w, d + 1, k)
      <4>1. d + 1 <= d + 1 /\ a.kind = "props"
        BY <2>1
      <4> HIDE DEF n
      <4> QED
        BY <2>1, <4>1 DEF Touching
    <3>3. IsLast(d + 1, Touching(w, d + 1, k))
      BY <3>2 DEF Touching, IsLast
    <3> HIDE DEF n
    <3> QED
      BY <3>1, <3>2, <3>3 DEF PropAt
  <2>2. CASE ~(c.kind = "props" /\ k \in a.set \cup a.remove)
    <3>1. n.props[k] = m.props[k]
      <4>1. CASE c.kind = "append"
        BY <4>1, AppendSettings
      <4>2. CASE c.kind = "sort"
        BY <4>2, SortSettings
      <4>3. CASE c.kind = "props"
        BY <2>2, <4>3, PropsSettings DEF Stands
      <4> QED
        BY <4>1, <4>2, <4>3 DEF ActionCommit
    <3>2. Touching(w, d + 1, k) = Touching(w, d, k)
      BY <2>2, <1>0 DEF Touching
    <3> HIDE DEF n
    <3> QED
      BY <2>0, <3>1, <3>2 DEF PropAt
  <2> QED
    BY <2>1, <2>2
<1> QED
  BY <1>1, <1>2

-----------------------------------------------------------------------------
(* What is staged fits the transaction, also where it is merged. *)
LEMMA StagedFits ==
    ASSUME TypeOK, VInv, NEW w \in Writers, pc[w] \in {"act", "merge"}
    PROVE  /\ staged[w] \in Seq(ActionCommit) /\ DOMAIN staged[w] \subseteq DOMAIN Tx[w]
           /\ \A i \in DOMAIN staged[w] : staged[w][i].kind = Tx[w][i].kind
           /\ pc[w] = "merge" => DOMAIN staged[w] = DOMAIN Tx[w]
<1>1. staged[w] \in Seq(ActionCommit) /\ Tx[w] \in Seq(Actions)
  BY TxAssumption DEF TypeOK
<1>2. StagedAsAsked(w) /\ (pc[w] = "merge" => Len(staged[w]) = Len(Tx[w]))
  BY DEF VInv, VisibleWriter
<1> QED
  BY <1>1, <1>2 DEF StagedAsAsked

(* The table that is published has one snapshot more, or none. *)
LEMMA FlipEffect ==
    ASSUME IInv, HInv, VInv, FInv, NEW w \in Writers, WriteMetadata(w), FlipPointer(w)
    PROVE  /\ pc[w] = "merge" /\ table # None /\ table' # None
           /\ table \in Metadata /\ table' \in Metadata
           /\ UNCHANGED <<lists, staged, submits>>
           /\ OrderAt(w, Len(Tx[w]), table')
           /\ \A k \in PropertyKeys : PropAt(w, Len(Tx[w]), table', k)
           /\ \/ /\ AppendIndices(w) = {}
                 /\ table'.log = table.log /\ table'.snapshots = table.snapshots
                 /\ table'.current = table.current
              \/ \E i \in AppendIndices(w) :
                    /\ AppendIndices(w) = {i}
                    /\ LET c == staged[w][i]
                       IN  /\ c \in ActionCommit /\ c.kind = "append"
                           /\ c.id \notin KnownIds(table) /\ table'.current = c.id
                           /\ table'.log = Append(table.log, c.id)
                           /\ table'.snapshots = [table.snapshots EXCEPT ![c.id] = c.snapshot]
<1>1. /\ TypeOK /\ pc[w] = "merge" /\ merge.done = Len(staged[w])
      /\ UNCHANGED <<lists, staged, submits>>
  BY DEF WriteMetadata, IInv
<1>2. table' = merge.meta
  BY <1>1, PublishedTable
<1>3. Merging(w) /\ Chained(w) /\ MergedExactly(w) /\ Len(staged[w]) = Len(Tx[w])
  BY <1>1 DEF IInv, WriterInv, FInv, ExactWriter, VInv, VisibleWriter
<1>4. /\ table # None /\ merge.meta # None /\ table \in Metadata /\ merge.meta \in Metadata
      /\ staged[w] \in Seq(ActionCommit)
  BY <1>1, <1>3 DEF Merging, TypeOK
<1>5. \A i \in AppendIndices(w) : i <= merge.done /\ staged[w][i] \in ActionCommit
  BY <1>1, <1>4 DEF AppendIndices
<1>6. CASE AppendIndices(w) = {}
  BY <1>1, <1>2, <1>3, <1>4, <1>6 DEF MergedExactly, SnapshotsAt
<1>7. ASSUME NEW i \in AppendIndices(w)
      PROVE  /\ AppendIndices(w) = {i} /\ staged[w][i] \in ActionCommit
             /\ staged[w][i].kind = "append"
  BY <1>3, <1>5, <1>7, OneAppendHolds DEF Merging, AppendIndices
<1>8. CASE AppendIndices(w) # {}
  <2>1. PICK i \in AppendIndices(w) : TRUE
    BY <1>8
  <2>2. LET c == staged[w][i]
        IN  /\ c.id \notin KnownIds(table) /\ table'.current = c.id
            /\ table'.log = Append(table.log, c.id)
            /\ table'.snapshots = [table.snapshots EXCEPT ![c.id] = c.snapshot]
    BY <1>2, <1>3, <1>5 DEF MergedExactly, SnapshotsAt
  <2> QED
    BY <1>1, <1>2, <1>3, <1>4, <1>7, <2>2 DEF MergedExactly
<1> QED
  BY <1>6, <1>8

(* After the flip, main still reaches what any snapshot reached. *)
LEMMA FlipReaches ==
    ASSUME IInv, HInv, RInv, VInv, FInv, NEW w \in Writers, WriteMetadata(w), FlipPointer(w)
    PROVE  AllReached(lists', table')
<1>1. /\ pc[w] = "merge" /\ table \in Metadata /\ lists' = lists /\ table # None
  BY FlipEffect
<1>2. Reached(lists, table) \subseteq Reached(lists, table')
  <2>1. table' = merge.meta
    BY <1>1, PublishedTable DEF WriteMetadata
  <2> QED
    BY <1>1, <2>1 DEF RInv, RetainingWriter, MergesAll
<1>3. AllReached(lists, table)
  BY <1>1 DEF FInv
<1>4. CASE table'.snapshots = table.snapshots
  BY <1>1, <1>2, <1>3, <1>4 DEF AllReached, KnownIds
<1>5. ASSUME NEW c \in ActionCommit, c.kind = "append", table'.current = c.id,
             table'.snapshots = [table.snapshots EXCEPT ![c.id] = c.snapshot]
      PROVE  AllReached(lists, table')
  <2>1. c.id \in SnapshotIds /\ c.id # None
    BY <1>5, NoneAssumption DEF ActionCommit
  <2>2. \A id \in KnownIds(table') :
           id = c.id \/ (id \in KnownIds(table) /\ table'.snapshots[id] = table.snapshots[id])
    BY <1>1, <1>5 DEF KnownIds, Metadata
  <2> QED
    BY <1>2, <1>3, <1>5, <2>1, <2>2 DEF AllReached, Reached
<1> QED
  BY <1>1, <1>4, <1>5, FlipEffect

(* No step of another writer publishes a list of w. *)
LEMMA UnpublishedStill ==
    ASSUME IInv, HInv, RInv, VInv, FInv, [Next]_vars, NEW w \in Writers,
           pc[w] \in {"act", "merge"}, Unpublished(w), staged'[w] = staged[w],
           ~(WriteMetadata(w) /\ FlipPointer(w))
    PROVE  Unpublished(w)'
<1>1. AppendIndices(w)' = AppendIndices(w)
  BY DEF AppendIndices
<1>2. CASE table' = table \/ table' = None
  BY <1>1, <1>2 DEF Unpublished
<1>3. CASE CreateTable
  <2>1. KnownIds(table') = {}
    BY <1>3, NewMetadataIsSound DEF CreateTable, IInv, TypeOK
  <2> QED
    BY <2>1 DEF Unpublished
<1>4. ASSUME NEW v \in Writers \ {w}, WriteMetadata(v), FlipPointer(v)
      PROVE  Unpublished(w)'
  <2>1. pc[v] = "merge" /\ table \in Metadata /\ table # None
    BY <1>4, FlipEffect
  <2>2. StagedExactly(v) /\ StagedExactly(w)
    BY <2>1 DEF FInv, ExactWriter
  <2>3. \A i \in AppendIndices(w) : staged[w][i].snapshot.list[1] = w
    BY <2>2 DEF StagedExactly, Stands, WrittenFor, AppendIndices
  <2>4. CASE table'.snapshots = table.snapshots
    BY <1>1, <2>1, <2>4 DEF Unpublished, KnownIds
  <2>5. ASSUME NEW i \in AppendIndices(v), staged[v][i] \in ActionCommit,
               table'.snapshots =
                   [table.snapshots EXCEPT ![staged[v][i].id] = staged[v][i].snapshot]
        PROVE  Unpublished(w)'
    <3> DEFINE c == staged[v][i]
    <3>1. c.snapshot.list[1] = v
      BY <2>2 DEF StagedExactly, Stands, WrittenFor, AppendIndices
    <3>2. \A id \in KnownIds(table') :
             table'.snapshots[id] = c.snapshot
             \/ (id \in KnownIds(table) /\ table'.snapshots[id] = table.snapshots[id])
      BY <2>1, <2>5 DEF KnownIds, Metadata
    <3> HIDE DEF c
    <3> QED
      BY <1>1, <1>4, <2>1, <2>3, <3>1, <3>2 DEF Unpublished
  <2> QED
    BY <1>4, <2>4, <2>5, FlipEffect
<1>5. \/ table' = table \/ table' = None \/ CreateTable
      \/ \E v \in Writers : WriteMetadata(v) /\ FlipPointer(v)
  BY DEF Next, Step, LoadTable, RunAction, UpdateTable, ApplyUpdates, MergeCommit,
     WriteMetadata, FailToWrite, Cancel, Resubmit, Finished, DropTable, vars
<1> QED
  BY <1>2, <1>3, <1>4, <1>5

(* A writer whose own place and commits do not change. *)
LEMMA ExactStill ==
    ASSUME IInv, HInv, RInv, VInv, FInv, [Next]_vars, NEW w \in Writers,
           pc'[w] = pc[w], staged'[w] = staged[w],
           pc[w] = "merge" => UNCHANGED <<table, merge>>
    PROVE  ExactWriter(w)'
<1>1. AppendIndices(w)' = AppendIndices(w) /\ StorageGrows(lists, lists')
  BY StorageOnlyGrows DEF AppendIndices
<1>2. ExactWriter(w) /\ TypeOK
  BY DEF FInv, IInv
<1>3. ASSUME pc[w] \in {"act", "merge"} PROVE StagedExactly(w)'
  <2>1. Chained(w) /\ StagedExactly(w)
    BY <1>2, <1>3 DEF IInv, WriterInv, ExactWriter
  <2>2. \A i \in DOMAIN staged[w] : Stands(w, staged[w][i], Tx[w][i], lists')
    BY <1>1, <2>1, StandsStill DEF StagedExactly, Chained, AppendIndices
  <2> QED
    BY <2>2 DEF StagedExactly, Stands, WrittenFor
<1>4. ASSUME pc[w] \in {"act", "merge"} PROVE Unpublished(w)'
  <2>1. ~(WriteMetadata(w) /\ FlipPointer(w))
    <3>1. WriteMetadata(w) /\ FlipPointer(w) => pc'[w] # pc[w]
      BY <1>2 DEF WriteMetadata, FailToWrite, End, TypeOK
    <3> QED
      BY <3>1
  <2> QED
    BY <1>2, <1>4, <2>1, UnpublishedStill DEF ExactWriter
<1>5. ASSUME pc[w] = "merge" PROVE MergedExactly(w)'
  BY <1>1, <1>2, <1>5 DEF ExactWriter, MergedExactly, OrderAt, PropAt, SnapshotsAt
<1> QED
  BY <1>3, <1>4, <1>5 DEF ExactWriter

-----------------------------------------------------------------------------
(* A writer that leaves commit, or starts it again, has nothing to show. *)
LEMMA LeavingIsExact ==
    ASSUME NEW w, pc'[w] \notin {"act", "merge"}
    PROVE  ExactWriter(w)'
BY DEF ExactWriter

LEMMA FLoadTableStep ==
    ASSUME IInv, NEW w \in Writers, LoadTable(w)
    PROVE  ExactWriter(w)'
<1>1. CASE pc' = [pc EXCEPT ![w] = "act"] /\ staged' = [staged EXCEPT ![w] = << >>]
  <2>1. pc'[w] = "act" /\ staged'[w] = << >>
    BY <1>1 DEF IInv, TypeOK
  <2> QED
    BY <2>1 DEF ExactWriter, StagedExactly, Unpublished, AppendIndices
<1>2. CASE End(w, "failed")
  BY <1>2, EndLeaves, LeavingIsExact DEF Ended
<1> QED
  BY <1>1, <1>2 DEF LoadTable

(* Staging the next action of the transaction. *)
LEMMA FStageStep ==
    ASSUME IInv, HInv, RInv, FInv, NEW w \in Writers, pc[w] = "act", work[w] # None,
           NEW c \in ActionCommit, Stage(w, c), UNCHANGED table,
           StorageGrows(lists, lists'), Stands(w, c, Tx[w][Len(staged[w]) + 1], lists'),
           c.kind = "append" => c.snapshot.list \notin DOMAIN lists
    PROVE  ExactWriter(w)'
<1> DEFINE l == Len(staged[w]) + 1
<1>1. TypeOK /\ Chained(w) /\ StagedExactly(w) /\ Unpublished(w)
  BY DEF IInv, WriterInv, FInv, ExactWriter
<1>2. /\ pc' = pc /\ staged'[w][l] = c
      /\ AppendIndices(w)' = AppendIndices(w) \cup (IF c.kind = "append" THEN {l} ELSE {})
      /\ \A i \in AppendIndices(w) : staged'[w][i] = staged[w][i]
  BY <1>1, StageEffect
<1>3. staged'[w] = Append(staged[w], c) /\ staged[w] \in Seq(ActionCommit)
  BY <1>1 DEF Stage, TypeOK
<1>4. \A i \in DOMAIN staged'[w] :
         i = l \/ (i \in DOMAIN staged[w] /\ staged'[w][i] = staged[w][i])
  BY <1>3
<1>5. StagedExactly(w)'
  <2>1. \A i \in DOMAIN staged[w] : Stands(w, staged[w][i], Tx[w][i], lists')
    BY <1>1, StandsStill DEF StagedExactly, Chained, AppendIndices
  <2>2. \A i \in DOMAIN staged'[w] : Stands(w, staged'[w][i], Tx[w][i], lists')
    BY <1>2, <1>4, <2>1
  <2> QED
    BY <2>2 DEF StagedExactly, Stands, WrittenFor
<1>6. Unpublished(w)'
  <2>1. table # None => \A id \in KnownIds(table) : table.snapshots[id].list \in DOMAIN lists
    BY DEF IInv, Sound
  <2> HIDE DEF l
  <2> QED
    BY <1>1, <1>2, <2>1 DEF Unpublished
<1> QED
  BY <1>2, <1>5, <1>6 DEF ExactWriter

LEMMA FFastAppendStep ==
    ASSUME IInv, HInv, RInv, FInv, NEW w \in Writers, pc[w] = "act", work[w] # None,
           NEW a \in Actions, a = Tx[w][Len(staged[w]) + 1], a.kind = "append",
           FastAppend(w, a), UNCHANGED table
    PROVE  ExactWriter(w)' /\ OwnManifests'
<1> DEFINE m == work[w]
           uuid == <<w, serial[w], Len(staged[w]) + 1>>
           mfs == ManifestList(m, uuid, a.files)
<1>1. TypeOK /\ m \in Metadata /\ Sound(m) /\ OwnManifests
  BY DEF IInv, WriterInv, FInv, TypeOK
<1>2. CASE End(w, "failed") /\ UNCHANGED lists
  BY <1>1, <1>2, EndLeaves, LeavingIsExact DEF Ended, OwnManifests
<1>3. CASE /\ WriteManifestList(uuid, mfs) /\ ~RefusesAppend(a, m)
           /\ \E id \in SnapshotIds \ KnownIds(m) : Stage(w, AppendCommit(m, id, uuid, a.files))
  <2>1. uuid \notin DOMAIN lists
    BY NameIsNew
  <2>2. lists'[uuid] = mfs /\ StorageGrows(lists, lists')
    <3> HIDE DEF uuid, mfs
    <3> QED
      BY <1>3, <2>1, WritingGrows
  <2>3. OwnManifests'
    <3> HIDE DEF uuid, m
    <3> QED
      BY <1>1, <1>3, <2>1, WritingOwnsOne
  <2>4. WrittenFor(w, a, lists', uuid)
    <3> DEFINE own == AddedManifest(m, uuid, a.files)
    <3>1. uuid[1] = w /\ own \in mfs /\ own.files = a.files /\ own.uuid = uuid
      BY DEF ManifestList, AddedManifest
    <3>2. \A mf \in mfs : mf = own \/ mf \in ManifestsOf(m)
      BY DEF ManifestList
    <3>3. a.checkDuplicate => \A mf \in ManifestsOf(m) : mf.files \cap a.files = {}
      BY <1>3 DEF RefusesAppend, FilesOf
    <3> HIDE DEF own, mfs, uuid
    <3> QED
      BY <2>2, <3>1, <3>2, <3>3 DEF WrittenFor
  <2>5. PICK id \in SnapshotIds \ KnownIds(m) : Stage(w, AppendCommit(m, id, uuid, a.files))
    BY <1>3
  <2> DEFINE c == AppendCommit(m, id, uuid, a.files)
  <2>6. uuid \in CommitUuids /\ a.files \in SUBSET Files
    <3>1. serial[w] \in Nat /\ Len(staged[w]) \in Nat
      BY <1>1 DEF TypeOK
    <3> QED
      BY <3>1 DEF CommitUuids, Actions
  <2>7. TotalDataFiles(m, id, a.files) \in Nat
    BY <2>6, FilesAreCounted DEF TotalDataFiles
  <2>8. NewSnapshot(m, id, uuid, a.files) \in Snapshot
    BY <1>1, <2>6, <2>7, NextSequenceNumberType, FilesAreCounted
       DEF NewSnapshot, Snapshot, Metadata
  <2>9. c \in ActionCommit
    BY <1>1, <2>8 DEF AppendCommit, ActionCommit, Requirement, Metadata
  <2>10. c.kind = "append" /\ c.snapshot.list = uuid
    BY DEF AppendCommit, NewSnapshot
  <2>11. Stands(w, c, a, lists')
    BY <2>4, <2>10 DEF Stands
  <2> HIDE DEF c, mfs, uuid, m
  <2> QED
    BY <2>1, <2>2, <2>3, <2>5, <2>9, <2>10, <2>11, FStageStep DEF c, m
<1> QED
  BY <1>2, <1>3 DEF FastAppend

LEMMA FRunActionStep ==
    ASSUME IInv, HInv, RInv, FInv, NEW w \in Writers, RunAction(w)
    PROVE  ExactWriter(w)' /\ OwnManifests'
<1> DEFINE a == Tx[w][Len(staged[w]) + 1]
           m == work[w]
<1>1. /\ TypeOK /\ pc[w] = "act" /\ m # None /\ table' = table
      /\ OwnManifests
  BY DEF RunAction, IInv, WriterInv, FInv
<1>2. a \in Actions
  BY <1>1, TxAssumption DEF RunAction, TypeOK
<1>3. m \in Metadata
  BY <1>1 DEF TypeOK
<1>4. CASE End(w, "failed") /\ UNCHANGED lists
  BY <1>1, <1>4, EndLeaves, LeavingIsExact DEF Ended, OwnManifests
<1>5. CASE a.kind = "append" /\ FastAppend(w, a)
  BY <1>1, <1>2, <1>5, FFastAppendStep
<1>6. ASSUME NEW c \in ActionCommit, c.kind # "append", Stage(w, c), UNCHANGED lists,
             Stands(w, c, a, lists)
      PROVE  ExactWriter(w)' /\ OwnManifests'
  BY <1>1, <1>6, SameStorageGrows, FStageStep DEF OwnManifests
<1>7. CASE a.kind = "sort" /\ Stage(w, SortCommit(m, a)) /\ UNCHANGED lists
  <2>1. SortCommit(m, a) \in ActionCommit /\ SortCommit(m, a).kind = "sort"
    BY <1>2, <1>3, <1>7 DEF SortCommit, ActionCommit, Requirement, Metadata, Actions
  <2>2. Stands(w, SortCommit(m, a), a, lists)
    BY <2>1 DEF Stands, SortCommit
  <2> QED
    BY <1>6, <1>7, <2>1, <2>2
<1>8. CASE /\ a.kind = "props" /\ a.set \cap a.remove = {}
           /\ Stage(w, PropsCommit(w, a)) /\ UNCHANGED lists
  <2>1. PropsCommit(w, a) \in ActionCommit /\ PropsCommit(w, a).kind = "props"
    BY <1>2, <1>8 DEF PropsCommit, ActionCommit, Actions
  <2>2. Stands(w, PropsCommit(w, a), a, lists)
    BY <1>8, <2>1 DEF Stands, PropsCommit
  <2> QED
    BY <1>6, <1>8, <2>1, <2>2
<1>9. \/ a.kind = "append" /\ FastAppend(w, a)
      \/ a.kind = "sort" /\ Stage(w, SortCommit(m, a)) /\ UNCHANGED lists
      \/ /\ a.kind = "props" /\ a.set \cap a.remove = {}
         /\ Stage(w, PropsCommit(w, a)) /\ UNCHANGED lists
      \/ End(w, "failed") /\ UNCHANGED lists
  BY DEF RunAction, ReplaceSortOrder, UpdateTableProperties
<1> QED
  BY <1>4, <1>5, <1>7, <1>8, <1>9

LEMMA FUpdateTableStep ==
    ASSUME IInv, VInv, FInv, NEW w \in Writers, UpdateTable(w)
    PROVE  ExactWriter(w)'
<1>1. /\ TypeOK /\ pc[w] = "act" /\ UNCHANGED <<table, lists, staged>>
      /\ StagedExactly(w) /\ Unpublished(w)
  BY DEF UpdateTable, IInv, FInv, ExactWriter
<1>2. CASE merge' = [meta |-> table, done |-> 0] /\ pc' = [pc EXCEPT ![w] = "merge"]
  <2>1. pc'[w] = "merge" /\ merge'.done = 0 /\ merge'.meta = table
    BY <1>1, <1>2 DEF TypeOK
  <2>2. AppendIndices(w)' = AppendIndices(w) /\ \A i \in AppendIndices(w) : ~(i <= 0)
    BY <1>1 DEF AppendIndices, TypeOK
  <2>3. Sorts(w, 0) = {} /\ \A k : Touching(w, 0, k) = {}
    <3>1. \A i \in DOMAIN Tx[w] : ~(i <= 0)
      BY TxAssumption
    <3> QED
      BY <3>1 DEF Sorts, Touching
  <2>4. MergedExactly(w)'
    BY <1>1, <2>1, <2>2, <2>3 DEF MergedExactly, OrderAt, PropAt, SnapshotsAt
  <2>5. StagedExactly(w)' /\ Unpublished(w)'
    BY <1>1, <2>2 DEF StagedExactly, Unpublished, Stands, WrittenFor
  <2> QED
    BY <2>4, <2>5 DEF ExactWriter
<1>3. CASE pc' = [pc EXCEPT ![w] = "load"]
  <2>1. pc'[w] = "load"
    BY <1>1, <1>3 DEF TypeOK
  <2> QED
    BY <2>1, LeavingIsExact
<1>4. ASSUME NEW o \in Ended, End(w, o) PROVE ExactWriter(w)'
  BY <1>4, EndLeaves, LeavingIsExact
<1> QED
  BY <1>2, <1>3, <1>4 DEF UpdateTable, Conflict, Ended

LEMMA FApplyUpdatesStep ==
    ASSUME IInv, HInv, VInv, FInv, NEW w \in Writers, ApplyUpdates(w)
    PROVE  ExactWriter(w)'
<1> DEFINE d == merge.done
           c == staged[w][d + 1]
           m == merge.meta
           n == ApplyCommit(c, m)
<1>1. /\ TypeOK /\ pc[w] = "merge" /\ d < Len(staged[w]) /\ UNCHANGED <<lists, staged>>
  BY DEF ApplyUpdates, IInv
<1>2. /\ Merging(w) /\ Chained(w) /\ m \in Metadata /\ d \in Nat
      /\ StagedExactly(w) /\ Unpublished(w) /\ MergedExactly(w)
      /\ table \in Metadata
  BY <1>1 DEF IInv, WriterInv, FInv, ExactWriter, Merging, TypeOK
<1>3. AppendIndices(w)' = AppendIndices(w)
  BY <1>1 DEF AppendIndices
<1>4. CASE CanApply(c, m) /\ MergeCommit(c) /\ UNCHANGED <<pc, lock>>
  <2>1. merge'.meta = n /\ merge'.done = d + 1 /\ pc' = pc /\ table' = table
    BY <1>4 DEF MergeCommit
  <2>2. /\ d + 1 \in DOMAIN staged[w] /\ d + 1 \in DOMAIN Tx[w] /\ c \in ActionCommit
        /\ c.kind = Tx[w][d + 1].kind
    <3>1. /\ staged[w] \in Seq(ActionCommit) /\ DOMAIN staged[w] \subseteq DOMAIN Tx[w]
          /\ \A i \in DOMAIN staged[w] : staged[w][i].kind = Tx[w][i].kind
      BY <1>1, StagedFits
    <3>2. d + 1 \in DOMAIN staged[w]
      BY <1>1, <1>2, <3>1
    <3> QED
      BY <3>1, <3>2
  <2>3. Stands(w, c, Tx[w][d + 1], lists)
    BY <1>2, <2>2 DEF StagedExactly
  <2>4. OrderAt(w, d + 1, n) /\ \A k \in PropertyKeys : PropAt(w, d + 1, n, k)
    <3>1. OrderAt(w, d, m) /\ \A k \in PropertyKeys : PropAt(w, d, m, k)
      BY <1>2 DEF MergedExactly
    <3> HIDE DEF c, d, m
    <3> QED
      BY <1>1, <1>2, <2>2, <2>3, <3>1, NextSettings
  <2>5. SnapshotsAt(w, d + 1, n)
    <3>0. SnapshotsAt(w, d, m) /\ \A i \in AppendIndices(w) : i \in Nat
      BY <1>1, <1>2 DEF MergedExactly, AppendIndices, TypeOK
    <3>1. CASE c.kind = "append"
      <4>1. d + 1 \in AppendIndices(w)
        BY <2>2, <3>1 DEF AppendIndices
      <4>2. \A i \in AppendIndices(w) : i = d + 1
        BY <1>2, <4>1, OneAppendHolds DEF Merging
      <4>3. \A i \in AppendIndices(w) : ~(i <= d)
        BY <1>2, <4>2
      <4>4. m.log = table.log /\ m.snapshots = table.snapshots /\ m.current = table.current
        BY <3>0, <4>3 DEF SnapshotsAt
      <4>5. c.id \notin KnownIds(m) /\ c.id \in SnapshotIds
        BY <1>4, <2>2, <3>1 DEF CanApply, CanAddSnapshot, ActionCommit
      <4>6. m.current # c.id
        BY <1>2, <4>5, NoneAssumption DEF Merging, Sound
      <4>7. /\ n.current = c.id /\ n.log = Append(m.log, c.id)
            /\ n.snapshots = [m.snapshots EXCEPT ![c.id] = c.snapshot]
        <5> HIDE DEF c, m
        <5> QED
          BY <1>2, <2>2, <3>1, <4>6, ApplyAppend, ApplyAppendFields
      <4>8. KnownIds(m) = KnownIds(table)
        BY <4>4 DEF KnownIds
      <4>9. d + 1 <= d + 1
        BY <1>2
      <4>10. \A i \in AppendIndices(w) : staged[w][i] = c
        BY <4>2
      <4> HIDE DEF n, c, m, d
      <4> QED
        BY <4>1, <4>2, <4>4, <4>5, <4>7, <4>8, <4>9, <4>10 DEF SnapshotsAt
    <3>2. CASE c.kind # "append"
      <4>1. n.current = m.current /\ n.log = m.log /\ n.snapshots = m.snapshots
        <5> HIDE DEF c, m
        <5> QED
          BY <1>2, <2>2, <3>2, ApplyOther, ApplyOtherFields
      <4>2. d + 1 \notin AppendIndices(w)
        BY <3>2 DEF AppendIndices
      <4>3. \A i \in AppendIndices(w) : i <= d + 1 <=> i <= d
        BY <1>2, <3>0, <4>2
      <4> HIDE DEF n, c, m, d
      <4> QED
        BY <3>0, <4>1, <4>3 DEF SnapshotsAt
    <3> QED
      BY <3>1, <3>2
  <2>6. MergedExactly(w)'
    <3> HIDE DEF n, c, m, d
    <3> QED
      BY <1>1, <1>3, <2>1, <2>4, <2>5, ZenonT(60)
         DEF MergedExactly, OrderAt, PropAt, SnapshotsAt
  <2>7. StagedExactly(w)' /\ Unpublished(w)'
    BY <1>1, <1>2, <1>3, <2>1 DEF StagedExactly, Unpublished, Stands, WrittenFor
  <2> QED
    BY <2>6, <2>7 DEF ExactWriter
<1>5. CASE End(w, "failed")
  BY <1>5, EndLeaves, LeavingIsExact DEF Ended
<1> QED
  BY <1>4, <1>5 DEF ApplyUpdates

-----------------------------------------------------------------------------
(* A writer that is merging sees nobody else change the table. *)
LEMMA MergerKeepsTable ==
    ASSUME IInv, [Next]_vars, NEW v \in Writers, pc[v] = "merge",
           \A w \in Writers : Step(w) => w # v
    PROVE  table' = table
<1>1. lock = v /\ lock # None /\ \A w \in Writers : pc[w] = "merge" => w = v
  BY MergerHoldsLock
<1>2. ~DropTable /\ ~CreateTable
  BY <1>1 DEF DropTable, CreateTable
<1>3. ASSUME NEW w \in Writers, Step(w) PROVE table' = table
  <2>1. pc[w] # "merge"
    BY <1>1, <1>3
  <2> QED
    BY <1>3, <2>1 DEF Step, LoadTable, RunAction, UpdateTable, ApplyUpdates, WriteMetadata
<1> QED
  BY <1>2, <1>3 DEF Next, Cancel, Resubmit, Finished, vars

LEMMA StepKeepsWriters ==
    ASSUME IInv, HInv, RInv, VInv, FInv, [Next]_vars, NEW v \in Writers
    PROVE  ExactWriter(v)'
<1>0. TypeOK
  BY DEF IInv
<1>1. CASE Step(v)
  <2>1. CASE WriteMetadata(v)
    <3>1. pc'[v] \notin {"act", "merge"}
      BY <1>0, <2>1 DEF WriteMetadata, FailToWrite, End, TypeOK
    <3> QED
      BY <3>1, LeavingIsExact
  <2> QED
    BY <1>1, <2>1, FLoadTableStep, FRunActionStep, FUpdateTableStep, FApplyUpdatesStep DEF Step
<1>2. CASE Cancel(v)
  BY <1>2, EndLeaves, LeavingIsExact DEF Cancel, Ended
<1>3. CASE Resubmit(v)
  <2>1. pc'[v] = "load"
    BY <1>0, <1>3 DEF Resubmit, TypeOK
  <2> QED
    BY <2>1, LeavingIsExact
<1>4. CASE ~Step(v) /\ ~Cancel(v) /\ ~Resubmit(v)
  <2>1. /\ pc'[v] = pc[v] /\ staged'[v] = staged[v]
        /\ pc[v] = "merge" => merge' = merge
    <3>1. ASSUME NEW w \in Writers, Step(w) \/ Cancel(w) \/ Resubmit(w)
          PROVE  /\ pc'[v] = pc[v] /\ staged'[v] = staged[v]
                 /\ pc[v] = "merge" => merge' = merge
      <4>1. v # w
        BY <1>4, <3>1
      <4> QED
        BY <3>1, <4>1, OthersStay
    <3>2. CASE DropTable \/ CreateTable \/ Finished \/ UNCHANGED vars
      BY <3>2 DEF DropTable, CreateTable, Finished, vars
    <3> QED
      BY <3>1, <3>2 DEF Next
  <2>2. pc[v] = "merge" => table' = table
    BY <1>4, MergerKeepsTable
  <2> QED
    BY <2>1, <2>2, ExactStill
<1> QED
  BY <1>1, <1>2, <1>3, <1>4

LEMMA StepKeepsFInv == IInv /\ HInv /\ RInv /\ VInv /\ FInv /\ [Next]_vars => FInv'
<1> SUFFICES ASSUME IInv, HInv, RInv, VInv, FInv, [Next]_vars PROVE FInv'
  OBVIOUS
<1>1. \A v \in Writers : ExactWriter(v)'
  BY StepKeepsWriters
<1>2. OwnManifests'
  <2>1. CASE UNCHANGED lists
    BY <2>1 DEF FInv, OwnManifests
  <2>2. ASSUME NEW w \in Writers, RunAction(w) PROVE OwnManifests'
    BY <2>2, FRunActionStep
  <2> QED
    BY <2>1, <2>2 DEF Next, Step, LoadTable, UpdateTable, ApplyUpdates, WriteMetadata, Cancel,
                      Resubmit, DropTable, CreateTable, Finished, vars
<1>3. table' # None => AllReached(lists', table')
  <2>1. StorageGrows(lists, lists')
    BY StorageOnlyGrows
  <2>2. CASE table' = table
    BY <2>1, <2>2, SoundIsListed, ReachesStill DEF IInv, FInv
  <2>3. CASE CreateTable
    <3>1. KnownIds(table') = {}
      BY <2>3, NewMetadataIsSound DEF CreateTable, IInv, TypeOK
    <3> QED
      BY <3>1 DEF AllReached
  <2>4. ASSUME NEW v \in Writers, WriteMetadata(v), FlipPointer(v)
        PROVE  AllReached(lists', table')
    BY <2>4, FlipReaches
  <2>5. \/ table' = table \/ table' = None \/ CreateTable
        \/ \E v \in Writers : WriteMetadata(v) /\ FlipPointer(v)
    BY DEF Next, Step, LoadTable, RunAction, UpdateTable, ApplyUpdates, MergeCommit,
       WriteMetadata, FailToWrite, Cancel, Resubmit, Finished, DropTable, vars
  <2> QED
    BY <2>2, <2>3, <2>4, <2>5
<1> QED
  BY <1>1, <1>2, <1>3 DEF FInv

LEMMA FInvHolds == Spec => []FInv
<1>1. Init => FInv
  <2> SUFFICES ASSUME Init PROVE FInv
    OBVIOUS
  <2>1. OwnManifests
    BY DEF Init, OwnManifests
  <2>2. AllReached(lists, table)
    BY NewMetadataIsSound DEF Init, AllReached
  <2>3. \A w \in Writers : pc[w] \notin {"act", "merge"}
    BY DEF Init
  <2> QED
    BY <2>1, <2>2, <2>3 DEF FInv, ExactWriter
<1>2. IInv /\ HInv /\ RInv /\ VInv /\ FInv /\ [Next]_vars => FInv'
  BY StepKeepsFInv
<1> QED
  BY <1>1, <1>2, IInvHolds, HInvHolds, RInvHolds, VInvHolds, PTL DEF Spec

-----------------------------------------------------------------------------
(* The append of a snapshot of the table: what its own manifest says. *)
LEMMA AppendOfOwn ==
    ASSUME FInv, NEW id, NEW u, table.snapshots[id].list = u, u \in DOMAIN lists,
           NEW mf \in lists[u], mf.uuid = u
    PROVE  AppendOf(id) = [by |-> u[1], files |-> mf.files]
<1>1. (CHOOSE x \in lists[u] : x.uuid = u) = mf
  BY DEF FInv, OwnManifests
<1> QED
  BY <1>1 DEF AppendOf

(* The history changes only with the table. *)
LEMMA HistoryStays ==
    ASSUME IInv, HInv, StorageGrows(lists, lists'), table' = table
    PROVE  UNCHANGED <<History, Order, Props>>
<1>1. Order' = Order /\ Props' = Props
  BY DEF Order, Props
<1>2. CASE table = None
  BY <1>1, <1>2 DEF History
<1>3. CASE table # None
  <2>1. \A i \in DOMAIN table.log : table.log[i] \in KnownIds(table)
    BY <1>3 DEF HInv, Linear
  <2>2. \A id \in KnownIds(table) : table.snapshots[id].list \in DOMAIN lists
    BY <1>3 DEF IInv, Sound
  <2>3. \A id \in KnownIds(table) : AppendOf(id)' = AppendOf(id)
    BY <2>2 DEF AppendOf, StorageGrows
  <2>4. History' = [i \in DOMAIN table.log |-> AppendOf(table.log[i])']
    BY <1>3 DEF History
  <2>5. \A i \in DOMAIN table.log : AppendOf(table.log[i])' = AppendOf(table.log[i])
    BY <2>1, <2>3 DEF AppendOf
  <2>6. History' = History
    BY <1>3, <2>4, <2>5 DEF History
  <2> QED
    BY <1>1, <2>6
<1> QED
  BY <1>2, <1>3

-----------------------------------------------------------------------------
(* Every step is a step of AtomicTable, or none. *)

Refused == {"conflict", "failed", "cancelled"}

LEMMA OutcomeOfEnd ==
    ASSUME TypeOK, NEW w \in Writers, NEW o \in Ended, End(w, o)
    PROVE  Outcome' = [Outcome EXCEPT ![w] = o]
BY DEF Outcome, End, TypeOK, InFlight, Ended

LEMMA RefusalSimulated ==
    ASSUME TypeOK, NEW w \in Writers, pc[w] \in InFlight, NEW o \in Refused, End(w, o),
           UNCHANGED <<History, Order, Props, table, submits>>
    PROVE  AbstractTable!Refuse(w)
<1>1. Outcome[w] = "pending" /\ o \in Ended
  BY DEF Outcome, Refused, Ended
<1>2. Outcome' = [Outcome EXCEPT ![w] = o]
  BY <1>1, OutcomeOfEnd
<1> QED
  BY <1>1, <1>2 DEF AbstractTable!Refuse, Refused

(* A transaction that appends once, or not at all. *)
LEMMA OneInOrder ==
    ASSUME NEW w \in Writers
    PROVE  /\ AbstractTable!Appends(w) = {} => << >> \in AbstractTable!AppendsInOrder(w)
           /\ \A x : AbstractTable!Appends(w) = {x} => <<x>> \in AbstractTable!AppendsInOrder(w)
<1>1. Len(Tx[w]) \in Nat /\ DOMAIN Tx[w] = 1..Len(Tx[w])
  BY TxAssumption
<1>2. CASE AbstractTable!Appends(w) = {}
  <2>1. << >> \in [1..0 -> {}] /\ 0 \in 0..Len(Tx[w])
    BY <1>1
  <2>2. << >> \in UNION {[1..n -> AbstractTable!Appends(w)] : n \in 0..Len(Tx[w])}
    BY <1>2, <2>1
  <2> QED
    BY <1>2, <2>2 DEF AbstractTable!AppendsInOrder
<1>3. ASSUME NEW x, AbstractTable!Appends(w) = {x} PROVE <<x>> \in AbstractTable!AppendsInOrder(w)
  <2>1. x \in DOMAIN Tx[w]
    BY <1>3 DEF AbstractTable!Appends
  <2>2. <<x>> \in [1..1 -> {x}] /\ 1 \in 0..Len(Tx[w])
    BY <1>1, <2>1
  <2>3. <<x>> \in UNION {[1..n -> AbstractTable!Appends(w)] : n \in 0..Len(Tx[w])}
    BY <1>3, <2>2
  <2>4. DOMAIN <<x>> = {1} /\ <<x>>[1] = x
    OBVIOUS
  <2> QED
    BY <1>3, <2>3, <2>4 DEF AbstractTable!AppendsInOrder
<1> QED
  BY <1>2, <1>3

LEMMA HistoryIsASequence ==
    ASSUME IInv
    PROVE  History \in Seq({AppendOf(id) : id \in SnapshotIds})
<1>1. CASE table = None
  BY <1>1 DEF History
<1>2. CASE table # None
  <2>1. table.log \in Seq(SnapshotIds)
    BY <1>2 DEF IInv, TypeOK, Metadata
  <2>2. /\ DOMAIN table.log = 1..Len(table.log) /\ Len(table.log) \in Nat
        /\ \A i \in DOMAIN table.log : AppendOf(table.log[i]) \in {AppendOf(id) : id \in SnapshotIds}
    BY <2>1
  <2>3. History = [i \in 1..Len(table.log) |-> AppendOf(table.log[i])]
    BY <1>2, <2>2 DEF History
  <2> DEFINE S == {AppendOf(id) : id \in SnapshotIds}
  <2>4. \A i \in 1..Len(table.log) : AppendOf(table.log[i]) \in S
    BY <2>2
  <2> HIDE DEF S
  <2>5. History \in [1..Len(table.log) -> S]
    BY <2>3, <2>4
  <2>6. History \in Seq(S)
    BY <2>2, <2>5
  <2> QED
    BY <2>6 DEF S
<1> QED
  BY <1>1, <1>2

(* The history after the flip. *)
LEMMA FlipHistory ==
    ASSUME IInv, HInv, RInv, VInv, FInv, NEW w \in Writers, WriteMetadata(w), FlipPointer(w)
    PROVE  \/ AppendIndices(w) = {} /\ History' = History
           \/ \E i \in AppendIndices(w) :
                 /\ AppendIndices(w) = {i}
                 /\ History' = Append(History, [by |-> w, files |-> Tx[w][i].files])
<1>1. /\ pc[w] = "merge" /\ table # None /\ table' # None
      /\ table \in Metadata /\ table' \in Metadata
      /\ UNCHANGED <<lists, staged, submits>>
  BY FlipEffect
<1>2. /\ table.log \in Seq(SnapshotIds) /\ table.snapshots \in [SnapshotIds -> Snapshot \cup {None}]
      /\ History = [i \in DOMAIN table.log |-> AppendOf(table.log[i])]
      /\ History' = [i \in DOMAIN table'.log |-> AppendOf(table.log[i])']
  BY <1>1 DEF Metadata, History
<1>3. \A i \in DOMAIN table.log : table.log[i] \in KnownIds(table)
  BY <1>1 DEF HInv, Linear
<1>4. CASE /\ AppendIndices(w) = {}
           /\ table'.log = table.log /\ table'.snapshots = table.snapshots
  <2>1. \A i \in DOMAIN table.log : AppendOf(table.log[i])' = AppendOf(table.log[i])
    BY <1>1, <1>4 DEF AppendOf
  <2> QED
    BY <1>2, <1>4, <2>1
<1>5. ASSUME NEW i \in AppendIndices(w), NEW c \in ActionCommit, staged[w][i] = c,
             c.kind = "append", c.id \notin KnownIds(table),
             table'.log = Append(table.log, c.id),
             table'.snapshots = [table.snapshots EXCEPT ![c.id] = c.snapshot]
      PROVE  History' = Append(History, [by |-> w, files |-> Tx[w][i].files])
  <2> DEFINE r == [by |-> w, files |-> Tx[w][i].files]
             H == {AppendOf(id) : id \in SnapshotIds} \cup {r}
  <2>1. PICK l \in Nat : l = Len(table.log)
    BY <1>2
  <2>2. AppendOf(c.id)' = r
    <3> DEFINE u == c.snapshot.list
    <3>1. WrittenFor(w, Tx[w][i], lists, u) /\ u \in DOMAIN lists
      BY <1>1, <1>5 DEF FInv, ExactWriter, StagedExactly, Stands, AppendIndices,
                  IInv, WriterInv, Chained
    <3>2. PICK mf \in lists[u] : mf.uuid = u /\ mf.files = Tx[w][i].files
      BY <3>1 DEF WrittenFor
    <3>3. (CHOOSE x \in lists[u] : x.uuid = u) = mf /\ u[1] = w
      BY <3>1, <3>2 DEF FInv, OwnManifests, WrittenFor
    <3>4. c.id \in SnapshotIds /\ table'.snapshots[c.id] = c.snapshot
      BY <1>2, <1>5 DEF ActionCommit
    <3> QED
      BY <1>1, <3>2, <3>3, <3>4 DEF AppendOf
  <2>3. /\ DOMAIN table'.log = 1..(l + 1) /\ DOMAIN table.log = 1..l
        /\ table'.log[l + 1] = c.id /\ c.id \in SnapshotIds
        /\ \A j \in 1..l : table'.log[j] = table.log[j]
    BY <1>2, <1>5, <2>1 DEF ActionCommit
  <2>4. \A j \in 1..l : AppendOf(table.log[j])' = History[j]
    <3>1. ASSUME NEW j \in 1..l
          PROVE  table'.snapshots[table'.log[j]] = table.snapshots[table.log[j]]
      <4>1. table.log[j] \in KnownIds(table) /\ table.log[j] \in SnapshotIds
        BY <1>3, <2>3 DEF KnownIds
      <4> QED
        BY <1>2, <1>5, <2>3, <4>1
    <3> QED
      BY <1>1, <1>2, <2>3, <3>1 DEF AppendOf
  <2>5. AppendOf(table.log[l + 1])' = r
    BY <2>2, <2>3 DEF AppendOf
  <2>6. \A j \in 1..(l + 1) : History'[j] = IF j = l + 1 THEN r ELSE History[j]
    <3>1. \A j \in 1..(l + 1) : j # l + 1 => j \in 1..l
      OBVIOUS
    <3>2. \A j \in 1..(l + 1) : History'[j] = AppendOf(table.log[j])'
      BY <1>2, <2>3
    <3> HIDE DEF r
    <3> QED
      BY <2>4, <2>5, <3>1, <3>2
  <2>7. History \in Seq(H) /\ r \in H /\ Len(History) = l
    <3>1. History \in Seq({AppendOf(id) : id \in SnapshotIds})
      BY HistoryIsASequence
    <3>2. Len(History) = l
      BY <1>2, <2>3, <3>1
    <3> QED
      BY <3>1, <3>2
  <2> HIDE DEF H, r
  <2>8. /\ Append(History, r) \in Seq(H) /\ Len(Append(History, r)) = l + 1
        /\ \A j \in 1..(l + 1) :
              Append(History, r)[j] = IF j = l + 1 THEN r ELSE History[j]
    BY <2>7
  <2>9. Append(History, r) = [j \in 1..(l + 1) |-> Append(History, r)[j]]
    <3> DEFINE A == Append(History, r)
    <3>1. A \in Seq(H) /\ Len(A) = l + 1
      BY <2>8
    <3> HIDE DEF A
    <3>2. A = [j \in 1..Len(A) |-> A[j]]
      BY <3>1
    <3> QED
      BY <3>1, <3>2 DEF A
  <2>10. History' = [j \in 1..(l + 1) |-> History'[j]]
    BY <1>2, <2>3
  <2>11. History' = Append(History, r)
    BY <2>6, <2>8, <2>9, <2>10
  <2> QED
    BY <2>11 DEF r
<1> QED
  BY <1>4, <1>5, FlipEffect

(* The files an append was to check are in no append of the history. *)
LEMMA FlipIsNew ==
    ASSUME IInv, HInv, RInv, VInv, FInv, NEW w \in Writers, WriteMetadata(w), FlipPointer(w),
           NEW i \in AppendIndices(w), Tx[w][i].checkDuplicate, NEW j \in DOMAIN History
    PROVE  History[j].files \cap Tx[w][i].files = {}
<1>1. /\ pc[w] = "merge" /\ table # None /\ table \in Metadata
  BY FlipEffect
<1> DEFINE c == staged[w][i]
           id == table.log[j]
           u == table.snapshots[id].list
<1>2. /\ History = [k \in DOMAIN table.log |-> AppendOf(table.log[k])]
      /\ j \in DOMAIN table.log
  BY <1>1 DEF History
<1>3. id \in KnownIds(table) /\ u \in DOMAIN lists
  <2>1. id \in KnownIds(table)
    BY <1>1, <1>2 DEF HInv, Linear
  <2> QED
    BY <1>1, <2>1 DEF IInv, Sound
<1>4. PICK mf \in lists[u] : mf.uuid = u
  BY <1>3 DEF FInv, OwnManifests
<1>5. History[j].files = mf.files
  <2>1. AppendOf(id) = [by |-> u[1], files |-> mf.files]
    BY <1>3, <1>4, AppendOfOwn
  <2> QED
    BY <1>2, <2>1
<1>6. mf \in lists[c.snapshot.list]
  <2>1. Reached(lists, table) \subseteq Reached(lists, table')
    <3>1. table' = merge.meta
      BY <1>1, PublishedTable DEF WriteMetadata
    <3> QED
      BY <1>1, <3>1 DEF RInv, RetainingWriter, MergesAll
  <2>2. mf \in Reached(lists, table)
    BY <1>1, <1>3, <1>4 DEF FInv, AllReached
  <2>3. Reached(lists, table') = lists[c.snapshot.list]
    <3>1. /\ c \in ActionCommit /\ table'.current = c.id
          /\ table'.snapshots = [table.snapshots EXCEPT ![c.id] = c.snapshot]
      <4>1. \A k \in AppendIndices(w) : AppendIndices(w) = {k} => k = i
        OBVIOUS
      <4>2. AppendIndices(w) # {}
        OBVIOUS
      <4> QED
        BY <4>1, <4>2, FlipEffect
    <3>2. c.id \in SnapshotIds /\ c.id # None
      <4>1. c.kind = "append"
        BY DEF AppendIndices
      <4> QED
        BY <3>1, <4>1, NoneAssumption DEF ActionCommit
    <3> HIDE DEF c
    <3> QED
      BY <1>1, <3>1, <3>2 DEF Reached, Metadata
  <2> QED
    BY <2>1, <2>2, <2>3
<1>7. u # c.snapshot.list
  BY <1>1, <1>3 DEF FInv, ExactWriter, Unpublished
<1>8. WrittenFor(w, Tx[w][i], lists, c.snapshot.list)
  BY <1>1 DEF FInv, ExactWriter, StagedExactly, Stands, AppendIndices
<1> HIDE DEF c, u
<1> QED
  BY <1>4, <1>5, <1>6, <1>7, <1>8 DEF WrittenFor

(* What the last action on each setting left is there. *)
LEMMA FlipSettings ==
    ASSUME IInv, HInv, VInv, FInv, NEW w \in Writers, WriteMetadata(w), FlipPointer(w)
    PROVE  /\ Order' = AbstractTable!OrderAfter(w)
           /\ Props' = [k \in PropertyKeys |-> AbstractTable!PropAfter(w, k)]
<1>1. /\ table # None /\ table' # None /\ table' \in Metadata
      /\ OrderAt(w, Len(Tx[w]), table')
      /\ \A k \in PropertyKeys : PropAt(w, Len(Tx[w]), table', k)
  BY FlipEffect
<1>2. DOMAIN Tx[w] \subseteq Nat /\ \A i \in DOMAIN Tx[w] : i <= Len(Tx[w])
  BY TxAssumption
<1>3. Order' = AbstractTable!OrderAfter(w)
  <2> DEFINE sorts == {i \in DOMAIN Tx[w] : Tx[w][i].kind = "sort"}
  <2>1. Sorts(w, Len(Tx[w])) = sorts
    BY <1>2 DEF Sorts
  <2>2. \/ sorts = {} /\ table'.order = table.order
        \/ \E i \in sorts : (\A j \in sorts : j <= i) /\ table'.order = Tx[w][i].order
    BY <1>1, <2>1 DEF OrderAt, IsLast
  <2>3. ASSUME NEW i \in sorts, \A j \in sorts : j <= i
        PROVE  (CHOOSE k \in sorts : \A j \in sorts : j <= k) = i
    <3>1. \A k \in sorts : (\A j \in sorts : j <= k) => k = i
      BY <1>2, <2>3
    <3> HIDE DEF sorts
    <3> QED
      BY <2>3, <3>1
  <2>4. Order = table.order /\ Order' = table'.order
    BY <1>1 DEF Order
  <2>5. AbstractTable!OrderAfter(w) =
          IF sorts = {} THEN Order
          ELSE Tx[w][CHOOSE k \in sorts : \A j \in sorts : j <= k].order
    BY DEF AbstractTable!OrderAfter
  <2> HIDE DEF sorts
  <2> QED
    BY <2>2, <2>3, <2>4, <2>5
<1>4. ASSUME NEW k \in PropertyKeys PROVE Props'[k] = AbstractTable!PropAfter(w, k)
  <2> DEFINE touching == {i \in DOMAIN Tx[w] :
                             Tx[w][i].kind = "props"
                             /\ k \in Tx[w][i].set \cup Tx[w][i].remove}
             last == CHOOSE i \in touching : \A j \in touching : j <= i
  <2>1. Touching(w, Len(Tx[w]), k) = touching
    BY <1>2 DEF Touching
  <2>2. \/ touching = {} /\ table'.props[k] = table.props[k]
        \/ \E i \in touching :
              /\ \A j \in touching : j <= i
              /\ table'.props[k] = IF k \in Tx[w][i].set THEN w ELSE None
    BY <1>1, <2>1 DEF PropAt, IsLast
  <2>3. ASSUME NEW i \in touching, \A j \in touching : j <= i
        PROVE  last = i
    <3>1. \A m \in touching : (\A j \in touching : j <= m) => m = i
      BY <1>2, <2>3
    <3> HIDE DEF touching
    <3> QED
      BY <2>3, <3>1
  <2>4. Props = table.props /\ Props' = table'.props
    BY <1>1 DEF Props
  <2>5. AbstractTable!PropAfter(w, k) =
          IF touching = {} THEN Props[k]
          ELSE IF k \in Tx[w][last].set THEN w ELSE None
    BY DEF AbstractTable!PropAfter
  <2> HIDE DEF touching, last
  <2> QED
    BY <2>2, <2>3, <2>4, <2>5
<1>5. Props' = [k \in PropertyKeys |-> Props'[k]]
  BY <1>1 DEF Props, Metadata
<1> QED
  BY <1>3, <1>4, <1>5

LEMMA CommitSimulated ==
    ASSUME IInv, HInv, RInv, VInv, FInv, NEW w \in Writers, WriteMetadata(w), FlipPointer(w),
           NEW o \in {"committed", "unknown"}, End(w, o)
    PROVE  AbstractTable!Commit(w)
<1>1. /\ TypeOK /\ pc[w] = "merge" /\ table # None /\ table' # None /\ submits' = submits
      /\ DOMAIN staged[w] = DOMAIN Tx[w]
      /\ \A i \in DOMAIN staged[w] : staged[w][i].kind = Tx[w][i].kind
  <2>1. pc[w] = "merge"
    BY FlipEffect
  <2> QED
    BY <2>1, FlipEffect, StagedFits DEF IInv
<1>2. AbstractTable!Appends(w) = AppendIndices(w)
  BY <1>1 DEF AbstractTable!Appends, AppendIndices
<1>3. Outcome[w] = "pending" /\ Outcome' = [Outcome EXCEPT ![w] = o]
  <2>1. o \in Ended
    BY DEF Ended
  <2> QED
    BY <1>1, <2>1, OutcomeOfEnd DEF Outcome, InFlight
<1>4. \A i \in AppendIndices(w) : Tx[w][i].checkDuplicate =>
         \A j \in DOMAIN History : History[j].files \cap Tx[w][i].files = {}
  BY FlipIsNew
<1>5. \E s \in AbstractTable!AppendsInOrder(w) :
         History' = History \o [i \in DOMAIN s |-> [by |-> w, files |-> Tx[w][s[i]].files]]
  <2> DEFINE S == {AppendOf(id) : id \in SnapshotIds}
  <2>0. History \in Seq(S)
    BY <1>1, HistoryIsASequence
  <2>1. CASE AppendIndices(w) = {} /\ History' = History
    <3>1. [i \in DOMAIN << >> |-> [by |-> w, files |-> Tx[w][<< >>[i]].files]] = << >>
      OBVIOUS
    <3>2. History \o << >> = History
      <4> HIDE DEF S
      <4> QED
        BY <2>0
    <3>3. << >> \in AbstractTable!AppendsInOrder(w)
      BY <1>2, <2>1, OneInOrder
    <3> QED
      BY <2>1, <3>1, <3>2, <3>3
  <2>2. ASSUME NEW x \in AppendIndices(w), AppendIndices(w) = {x},
               History' = Append(History, [by |-> w, files |-> Tx[w][x].files])
        PROVE  \E s \in AbstractTable!AppendsInOrder(w) :
                  History' = History \o [i \in DOMAIN s |-> [by |-> w, files |-> Tx[w][s[i]].files]]
    <3> DEFINE r == [by |-> w, files |-> Tx[w][x].files]
    <3>1. [i \in DOMAIN <<x>> |-> [by |-> w, files |-> Tx[w][<<x>>[i]].files]] = <<r>>
      <4>1. DOMAIN <<x>> = 1..1 /\ <<x>>[1] = x
        OBVIOUS
      <4>2. \A i \in 1..1 : [by |-> w, files |-> Tx[w][<<x>>[i]].files] = r
        BY <4>1
      <4>3. <<r>> = [i \in 1..1 |-> r]
        <5> HIDE DEF r
        <5> QED
          OBVIOUS
      <4> HIDE DEF r
      <4> QED
        BY <4>1, <4>2, <4>3
    <3>2. Append(History, r) = History \o <<r>>
      <4> HIDE DEF S, r
      <4>1. PICK T : History \in Seq(T) /\ r \in T
        <5>1. History \in Seq(S \cup {r})
          BY <2>0
        <5> QED
          BY <5>1
      <4> QED
        BY <4>1
    <3>3. <<x>> \in AbstractTable!AppendsInOrder(w)
      BY <1>2, <2>2, OneInOrder
    <3> QED
      BY <2>2, <3>1, <3>2, <3>3
  <2> QED
    BY <2>1, <2>2, FlipHistory
<1>6. /\ Order' = AbstractTable!OrderAfter(w)
      /\ Props' = [k \in PropertyKeys |-> AbstractTable!PropAfter(w, k)]
  BY FlipSettings
<1> QED
  BY <1>1, <1>2, <1>3, <1>4, <1>5, <1>6 DEF AbstractTable!Commit

LEMMA StepSimulated ==
    ASSUME IInv, HInv, RInv, VInv, FInv, [Next]_vars
    PROVE  [AbstractTable!Next]_AbstractTable!vars
<1>1. TypeOK /\ StorageGrows(lists, lists')
  BY StorageOnlyGrows DEF IInv
<1>2. table' = table => UNCHANGED <<History, Order, Props>>
  BY <1>1, HistoryStays
<1>3. ASSUME UNCHANGED <<table, submits, Outcome>> PROVE UNCHANGED AbstractTable!vars
  BY <1>2, <1>3 DEF AbstractTable!vars
<1>4. ASSUME NEW w \in Writers, pc[w] \in InFlight, NEW o \in Refused, End(w, o),
             UNCHANGED <<table, submits>>
      PROVE  AbstractTable!Next
  BY <1>1, <1>2, <1>4, RefusalSimulated DEF AbstractTable!Next
<1>5. ASSUME NEW w \in Writers, NEW p \in InFlight, pc[w] \in InFlight,
             pc' = [pc EXCEPT ![w] = p], UNCHANGED <<table, submits>>
      PROVE  UNCHANGED AbstractTable!vars
  <2>1. Outcome' = Outcome
    BY <1>1, <1>5 DEF Outcome, TypeOK
  <2> QED
    BY <1>3, <1>5, <2>1
<1>6. UNCHANGED pc => Outcome' = Outcome
  BY DEF Outcome
<1>7. ASSUME NEW w \in Writers, Step(w) PROVE [AbstractTable!Next]_AbstractTable!vars
  <2>1. CASE LoadTable(w)
    BY <1>4, <1>5, <2>1 DEF LoadTable, InFlight, Refused
  <2>2. CASE RunAction(w)
    BY <1>3, <1>4, <1>6, <2>2 DEF RunAction, FastAppend, ReplaceSortOrder, UpdateTableProperties,
                                  Stage, InFlight, Refused
  <2>3. CASE UpdateTable(w)
    BY <1>4, <1>5, <2>3 DEF UpdateTable, Conflict, InFlight, Refused
  <2>4. CASE ApplyUpdates(w)
    BY <1>3, <1>4, <1>6, <2>4 DEF ApplyUpdates, MergeCommit, InFlight, Refused
  <2>5. CASE WriteMetadata(w)
    <3>1. CASE FailToWrite(w)
      BY <1>4, <2>5, <3>1 DEF WriteMetadata, FailToWrite, InFlight, Refused
    <3>2. ASSUME NEW o \in {"committed", "unknown"}, FlipPointer(w), End(w, o)
          PROVE  AbstractTable!Next
      BY <2>5, <3>2, CommitSimulated DEF AbstractTable!Next
    <3> QED
      BY <2>5, <3>1, <3>2 DEF WriteMetadata
  <2> QED
    BY <1>7, <2>1, <2>2, <2>3, <2>4, <2>5 DEF Step
<1>8. ASSUME NEW w \in Writers, Cancel(w) PROVE AbstractTable!Next
  BY <1>4, <1>8 DEF Cancel, Refused
<1>9. ASSUME NEW w \in Writers, Resubmit(w) PROVE AbstractTable!Next
  <2>1. UNCHANGED <<History, Order, Props>> /\ table # None
    BY <1>2, <1>9 DEF Resubmit
  <2>2. Outcome[w] \notin {"pending", "committed"}
    BY <1>9 DEF Resubmit, Outcome, InFlight, Ended
  <2>3. Outcome' = [Outcome EXCEPT ![w] = "pending"]
    BY <1>1, <1>9 DEF Resubmit, Outcome, TypeOK, InFlight
  <2> QED
    BY <1>9, <2>1, <2>2, <2>3 DEF Resubmit, AbstractTable!Resubmit, AbstractTable!Next
<1>10. CASE DropTable
  <2>1. AbstractTable!Empty' /\ table # None /\ table' = None
    BY <1>10 DEF DropTable, AbstractTable!Empty, History, Order, Props
  <2> QED
    BY <1>6, <1>10, <2>1 DEF DropTable, AbstractTable!Drop, AbstractTable!Next
<1>11. CASE CreateTable
  <2>1. table' = NewMetadata(tables + 1) /\ tables + 1 \in Nat
    BY <1>1, <1>11 DEF CreateTable, TypeOK
  <2>2. table' # None
    BY <2>1, NewMetadataIsSound, NoneAssumption
  <2>3. table'.log = << >> /\ table'.order = None /\ table'.props = [k \in PropertyKeys |-> None]
    BY <2>1 DEF NewMetadata
  <2>4. AbstractTable!Empty'
    BY <2>2, <2>3 DEF AbstractTable!Empty, History, Order, Props
  <2> QED
    BY <1>6, <1>11, <2>2, <2>4 DEF CreateTable, AbstractTable!Create, AbstractTable!Next
<1>12. CASE Finished \/ UNCHANGED vars
  BY <1>3, <1>6, <1>12 DEF Finished, vars
<1> QED
  BY <1>7, <1>8, <1>9, <1>10, <1>11, <1>12 DEF Next

(* Every behaviour of the optimistic protocol, whatever fails, is cancelled *)
(* or loses its answer, is one in which transactions take effect as a whole *)
(* and in some order: a commit happens when the pointer flips.              *)
THEOREM TransactionsAreAtomic == Spec => ImplementsAtomicTable
<1>1. Init => AbstractTable!Init
  <2> SUFFICES ASSUME Init PROVE AbstractTable!Init
    OBVIOUS
  <2>1. table = NewMetadata(1) /\ table # None
    BY NewMetadataIsSound, NoneAssumption DEF Init
  <2>2. table.log = << >> /\ table.order = None /\ table.props = [k \in PropertyKeys |-> None]
    BY <2>1 DEF NewMetadata
  <2>3. AbstractTable!Empty
    BY <2>1, <2>2 DEF AbstractTable!Empty, History, Order, Props
  <2>4. Outcome = [w \in Writers |-> IF Tx[w] = << >> THEN "committed" ELSE "pending"]
    BY DEF Init, Outcome, InFlight
  <2> QED
    BY <2>1, <2>3, <2>4 DEF Init, AbstractTable!Init
<1>2. IInv /\ HInv /\ RInv /\ VInv /\ FInv /\ [Next]_vars
        => [AbstractTable!Next]_AbstractTable!vars
  BY StepSimulated
<1> QED
  BY <1>1, <1>2, IInvHolds, HInvHolds, RInvHolds, VInvHolds, FInvHolds, PTL
     DEF Spec, ImplementsAtomicTable, AbstractTable!Spec
=============================================================================
