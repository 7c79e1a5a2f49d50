------------------------------- MODULE Writers -------------------------------
(* The writers of data files: a rolling writer for each partition, under a      *)
(* clustered, a fanout or an unpartitioned writer.  Opening, writing and        *)
(* closing a Parquet file may each fail; the caller may stop at an error or go  *)
(* on with the next batch.                                                      *)
EXTENDS Integers, Sequences, FiniteSets

CONSTANTS
    None,
    Partitions,
    TargetFileSize, \* in batches
    MaxBatches,
    MaxFaults

(* A data file, and a rolling writer: the file that is open, if any, and      *)
(* those it has closed.                                                       *)
DataFile == [name: Nat, begun: BOOLEAN, batches: SUBSET Nat, size: Nat]
RollingWriter == [inner: DataFile \cup {None}, files: SUBSET DataFile]

ASSUME WriterAssumption ==
    /\ None \notin Partitions \cup DataFile \cup RollingWriter
    /\ {TargetFileSize, MaxBatches, MaxFaults} \subseteq Nat

VARIABLES
    kind,       \* of the partitioning writer
    writers,    \* rolling writer of each partition, or None
    current,    \* partition of the clustered writer, or None
    closed,     \* partitions it has closed
    output,     \* data files of the writers closed so far
    names,      \* file names generated, counted for all rolling writers
    faults,
    input,      \* partitions of the batches written, in order
    acked,      \* batches whose write succeeded
    result      \* of close: "open" before it

vars == <<kind, writers, current, closed, output, names, faults, input, acked, result>>

(* A writer without a partition keeps its rows under None. *)
Keys == Partitions \cup {None}

-----------------------------------------------------------------------------
(* A rolling writer.  An attempt is the writer after it, the names and faults it took, and       *)
(* whether it succeeded; what may happen is a set of attempts.                *)

NewWriter == [inner |-> None, files |-> {}]
Attempt(w, n, f, ok) == [writer |-> w, names |-> n, faults |-> f, ok |-> ok]

Then(attempts, Step(_)) ==
    {a \in attempts : ~a.ok} \cup UNION {Step(a) : a \in {b \in attempts : b.ok}}

(* The name is taken before the file is made; the file is begun at its first   *)
(* write.                                                                       *)
NewFile(name) == [name |-> name, begun |-> FALSE, batches |-> {}, size |-> 0]

\* Mutant: the counter of names stands still.
OpenFileSameName(a) ==
    {[a EXCEPT !.writer.inner = NewFile(a.names + 1)],
     [a EXCEPT !.faults = @ + 1, !.ok = FALSE]}

OpenFile(a) ==
    {[a EXCEPT !.writer.inner = NewFile(a.names + 1), !.names = @ + 1],
     [a EXCEPT !.names = @ + 1, !.faults = @ + 1, !.ok = FALSE]}

(* A writer once its file is closed: a file never begun is none. *)
Finished(w) ==
    [inner |-> None,
     files |-> IF w.inner = None \/ ~w.inner.begun THEN w.files ELSE w.files \cup {w.inner}]

(* The open file is given up first, closed or not. *)
CloseFile(a) ==
    {[a EXCEPT !.writer = Finished(@)],
     [a EXCEPT !.writer.inner = None, !.faults = @ + 1, !.ok = FALSE]}

EnsureOpen(a) == IF a.writer.inner = None THEN OpenFile(a) ELSE {a}

\* Mutant: the file is dropped when the next one is begun.
RollOverForgetting(a) ==
    IF a.writer.inner.size > TargetFileSize THEN OpenFile(a) ELSE {a}

RollOver(a) ==
    IF a.writer.inner.size > TargetFileSize THEN Then(CloseFile(a), OpenFile) ELSE {a}

(* A write that fails may have begun the file, with its rows in it or not. *)
WriteBatch(a, b) ==
    LET begun == [a EXCEPT !.writer.inner.begun = TRUE]
        with == [begun EXCEPT !.writer.inner.batches = @ \cup {b}, !.writer.inner.size = @ + 1]
    IN  {with} \cup {[x EXCEPT !.faults = @ + 1, !.ok = FALSE] : x \in {a, begun, with}}

RollingWrite(w, b) ==
    LET Batch(a) == WriteBatch(a, b)
    IN  Then(Then(EnsureOpen(Attempt(w, names, faults, TRUE)), RollOver), Batch)

RollingClose(w) ==
    LET start == Attempt(w, names, faults, TRUE)
    IN  IF w.inner = None \/ ~w.inner.begun THEN {[start EXCEPT !.writer = Finished(w)]}
        ELSE CloseFile(start)

DataFiles(w, p) == {[name |-> f.name, batches |-> f.batches, partition |-> p] : f \in w.files}

Allowed(attempts) == {a \in attempts : a.faults <= MaxFaults}

-----------------------------------------------------------------------------
Init ==
    /\ kind \in {"clustered", "fanout", "unpartitioned"}
    /\ writers = [p \in Keys |-> None]
    /\ current = None
    /\ closed = {}
    /\ output = {}
    /\ names = 0
    /\ faults = 0
    /\ input = << >>
    /\ acked = {}
    /\ result = "open"

Batch == Len(input) + 1

CanWrite(k, p) ==
    /\ kind = k /\ result = "open" /\ Len(input) < MaxBatches
    /\ input' = Append(input, p)

(* What the caller learns of a write. *)
Acknowledge(ok) == acked' = IF ok THEN acked \cup {Batch} ELSE acked

(* The last step of a write: into writer w of partition p. *)
WriteInto(ws, p) ==
    \E a \in Allowed(RollingWrite(ws[p], Batch)) :
        /\ writers' = [ws EXCEPT ![p] = a.writer]
        /\ names' = a.names /\ faults' = a.faults
        /\ Acknowledge(a.ok)

WriterFor(p) == IF writers[p] = None THEN [writers EXCEPT ![p] = NewWriter] ELSE writers

FanoutWrite(p) ==
    /\ CanWrite("fanout", p)
    /\ WriteInto(WriterFor(p), p)
    /\ UNCHANGED <<kind, current, closed, output, result>>

UnpartitionedWrite ==
    /\ CanWrite("unpartitioned", None)
    /\ WriteInto(WriterFor(None), None)
    /\ UNCHANGED <<kind, current, closed, output, result>>

(***************************************************************************)
(* The clustered writer                                                     *)
(***************************************************************************)
NotSorted(p) ==
    /\ CanWrite("clustered", p)
    /\ p \in closed
    /\ Acknowledge(FALSE)
    /\ UNCHANGED <<kind, writers, current, closed, output, names, faults, result>>

\* Mutant: a writer that has none yet is not given one.
NeedNewWriterIfOther(p) == current # None /\ current # p

NeedNewWriter(p) == current # p

WriteCurrent(p) ==
    /\ CanWrite("clustered", p)
    /\ p \notin closed /\ ~NeedNewWriter(p)
    /\ IF writers[p] = None
       THEN /\ result' = "panic"
            /\ UNCHANGED <<writers, names, faults, acked>>
       ELSE /\ WriteInto(writers, p)
            /\ UNCHANGED result
    /\ UNCHANGED <<kind, current, closed, output>>

\* Mutant: it is the partition that comes that is recorded as closed.
ClosedByNext(p) == {p}

ClosedBy(p) == {current}

(* The previous writer is taken out before it is closed, its partition after. *)
SwitchWriter(p) ==
    LET previous == IF current = None THEN None ELSE writers[current]
        taken == IF current = None THEN writers ELSE [writers EXCEPT ![current] = None]
    IN  /\ CanWrite("clustered", p)
        /\ p \notin closed /\ NeedNewWriter(p)
        /\ IF previous = None
           THEN /\ WriteInto([taken EXCEPT ![p] = NewWriter], p)
                /\ current' = p
                /\ UNCHANGED <<closed, output>>
           ELSE \E c \in Allowed(RollingClose(previous)) :
                  IF c.ok
                  THEN /\ output' = output \cup DataFiles(c.writer, current)
                       /\ closed' = closed \cup ClosedBy(p)
                       /\ current' = p
                       /\ WriteInto([taken EXCEPT ![p] = NewWriter], p)
                  ELSE /\ writers' = taken
                       /\ faults' = c.faults
                       /\ Acknowledge(FALSE)
                       /\ UNCHANGED <<current, closed, output, names>>
        /\ UNCHANGED <<kind, result>>

(***************************************************************************)
(* Close: of whatever writers there are; the first failure loses them all.  *)
(***************************************************************************)
Close ==
    LET open == {p \in Keys : writers[p] # None}
    IN  /\ result = "open"
        /\ \/ /\ output' = output \cup UNION {DataFiles(Finished(writers[p]), p) : p \in open}
              /\ result' = "ok"
              /\ UNCHANGED faults
           \/ /\ faults < MaxFaults
              /\ \E p \in open : \E a \in RollingClose(writers[p]) : ~a.ok
              /\ faults' = faults + 1
              /\ result' = "error"
              /\ UNCHANGED output
        /\ writers' = [p \in Keys |-> None]
        /\ UNCHANGED <<kind, current, closed, names, input, acked>>

Next ==
    \/ \E p \in Partitions : FanoutWrite(p) \/ NotSorted(p) \/ WriteCurrent(p) \/ SwitchWriter(p)
    \/ UnpartitionedWrite
    \/ Close

Spec == Init /\ [][Next]_vars

-----------------------------------------------------------------------------

Refused == DOMAIN input \ acked

(* No row is in two files, each is in a file of its partition, and no two files  *)
(* have one name, whatever failed before and however the caller went on.         *)
RowsOnceInTheirPartition ==
    /\ \A f, g \in output : f # g => f.name # g.name /\ f.batches \cap g.batches = {}
    /\ \A f \in output : \A b \in f.batches : f.partition = input[b]

(* Rows whose write succeeded are missing from a successful close only if a      *)
(* later write was refused: of the same partition, or of any in the clustered    *)
(* writer, which closes the writer of one partition at the write to another.     *)
LossIsReported ==
    result = "ok" =>
        \A b \in acked \ UNION {f.batches : f \in output} :
            \E e \in Refused : e > b /\ (input[e] = input[b] \/ kind = "clustered")

(* Without a fault a write is refused only if a partition comes back after       *)
(* another one, and only by the clustered writer.                                *)
RefusesOnlyUnsorted ==
    faults = 0 /\ result # "panic" /\ Refused # {} =>
        /\ kind = "clustered"
        /\ \E i, j, k \in DOMAIN input :
              i < j /\ j < k /\ input[i] = input[k] /\ input[j] # input[i]

(* The clustered writer panics only at a write that follows a refused one.       *)
PanicsOnlyAfterErrors == result = "panic" => \E e \in Refused : e < Len(input)
=============================================================================
