---------------------------- MODULE WritersProofs -----------------------------
(***************************************************************************)
(* Theorems about Writers, for any partitions, any order of the batches and *)
(* any failures.                                                            *)
(*                                                                          *)
(* The argument.  Every file there is, open, closed or handed over, has a   *)
(* name and rows of its own, because names only go up and a batch goes into *)
(* one open file.  A row that was accepted is handed over, or in a file that*)
(* will be, or a batch that was refused has come after it.                  *)
(***************************************************************************)
EXTENDS Writers, TLAPS

(* The files of a writer, their names and their rows; a file that was never  *)
(* begun is lost when the writer is closed.                                  *)
Pieces(w) == w.files \cup (IF w.inner = None THEN {} ELSE {w.inner})
Names(w) == {f.name : f \in Pieces(w)}
Rows(w) == UNION {f.batches : f \in Pieces(w)}
Kept(w) == UNION {f.batches : f \in Finished(w).files}

Apart(F) == \A f, g \in F : f # g => f.name # g.name /\ f.batches \cap g.batches = {}

(* The files of w are apart, have been named so far and hold rows of B.      *)
Good(w, n, B) ==
    /\ w \in RollingWriter
    /\ Apart(Pieces(w)) /\ w.inner \notin w.files
    /\ Names(w) \subseteq 1..n
    /\ Rows(w) \subseteq B

BatchesOf(in, p) == {b \in DOMAIN in : in[b] = p}
Held(ws) == {p \in Keys : ws[p] # None}

OutputFile == [name: Nat, batches: SUBSET Nat, partition: Keys]

TypeInv ==
    /\ kind \in {"clustered", "fanout", "unpartitioned"}
    /\ writers \in [Keys -> RollingWriter \cup {None}]
    /\ current \in Keys /\ closed \subseteq Partitions
    /\ output \subseteq OutputFile
    /\ names \in Nat /\ faults \in Nat
    /\ input \in Seq(Keys) /\ acked \subseteq DOMAIN input
    /\ result \in {"open", "ok", "error", "panic"}

(* No two files, of the writers ws or handed over, share a name or a row.    *)
AllApart(ws, n, in, out) ==
    /\ \A p \in Held(ws) : Good(ws[p], n, BatchesOf(in, p))
    /\ \A p, q \in Held(ws) : p # q => Names(ws[p]) \cap Names(ws[q]) = {}
    /\ Apart(out)
    /\ \A f \in out :
          /\ f.name \in 1..n /\ f.batches \subseteq BatchesOf(in, f.partition)
          /\ \A p \in Held(ws) :
                f.name \notin Names(ws[p]) /\ f.batches \cap Rows(ws[p]) = {}

FilesApart == AllApart(writers, names, input, output)

Delivered == UNION {f.batches : f \in output}

Overtaken(b) == \E e \in Refused : e > b /\ (input[e] = input[b] \/ kind = "clustered")

(* The writer of the partition of b has b in a file that it can close.       *)
HeldFor(ws, b) == input[b] \in Held(ws) /\ b \in Kept(ws[input[b]])

(* A row that was accepted is handed over, held for it, or known to be lost. *)
AckedIsKept ==
    \A b \in acked :
        \/ b \in Delivered \/ Overtaken(b)
        \/ result = "open" /\ HeldFor(writers, b)
        \/ result \in {"error", "panic"}

(* A partition that was closed came before another one.                      *)
ClosedWasLeft ==
    /\ current # None => \E i \in DOMAIN input : input[i] = current
    /\ \A p \in closed :
          /\ kind = "clustered"
          /\ \E i, j \in DOMAIN input : i < j /\ input[i] = p /\ input[j] # p

(* The clustered writer holds one at most, and is without it only after an   *)
(* error.                                                                    *)
OneAtATime == kind = "clustered" => \A p \in Held(writers) : p = current /\ p # None

MissingAfterError ==
    result = "open" /\ current # None /\ current \notin Held(writers) => Refused # {}

WInv ==
    /\ TypeInv /\ FilesApart /\ AckedIsKept /\ ClosedWasLeft /\ OneAtATime
    /\ MissingAfterError /\ RefusesOnlyUnsorted /\ PanicsOnlyAfterErrors

-----------------------------------------------------------------------------
(* Attempts at a write.                                                      *)

Attempts == [writer: RollingWriter, names: Nat, faults: Nat, ok: BOOLEAN]

(* x follows a: its names are new, its rows those of a and R, and it loses   *)
(* what a kept only with a fault.                                            *)
Advances(a, x, R) ==
    /\ x \in Attempts /\ a.names <= x.names
    /\ Names(x.writer) \subseteq Names(a.writer) \cup (a.names + 1)..x.names
    /\ Rows(x.writer) \subseteq Rows(a.writer) \cup R
    /\ IF x.ok THEN x.faults = a.faults /\ Kept(a.writer) \subseteq Kept(x.writer)
       ELSE x.faults > a.faults

LEMMA NoneIsNone ==
    ASSUME NEW f \in DataFile \cup RollingWriter
    PROVE  f # None
BY WriterAssumption

(* What the files of a writer without an open one, or with it closed, are. *)
LEMMA PiecesOf ==
    ASSUME NEW w \in RollingWriter
    PROVE  /\ w.inner = None => Pieces(w) = w.files
           /\ w.inner # None => Pieces(w) = w.files \cup {w.inner} /\ w.inner \in DataFile
           /\ Finished(w) \in RollingWriter /\ Finished(w).inner = None
           /\ Finished(w).files \subseteq Pieces(w) /\ Pieces(Finished(w)) = Finished(w).files
           /\ w.files \subseteq Finished(w).files
<1>1. w.inner \in DataFile \cup {None} /\ w.files \subseteq DataFile
  BY DEF RollingWriter
<1> QED
  BY <1>1 DEF Pieces, Finished, RollingWriter

LEMMA OpenFileAdvances ==
    ASSUME NEW a \in Attempts, a.ok, NEW B, Good(a.writer, a.names, B), a.writer.inner = None,
           NEW x \in OpenFile(a)
    PROVE  /\ Advances(a, x, {}) /\ Good(x.writer, x.names, B)
           /\ x.ok => x.writer.inner # None
<1> DEFINE w == a.writer
           new == NewFile(a.names + 1)
<1>1. /\ w \in RollingWriter /\ w.files \subseteq DataFile /\ Pieces(w) = w.files
      /\ a.names \in Nat /\ a.faults \in Nat
  BY PiecesOf DEF Attempts, RollingWriter
<1>2. new \in DataFile /\ new # None /\ new.name = a.names + 1 /\ new.batches = {}
  <2>1. new \in DataFile
    BY <1>1 DEF NewFile, DataFile
  <2> QED
    BY <2>1, NoneIsNone DEF NewFile
<1>3. CASE x = [a EXCEPT !.writer.inner = new, !.names = @ + 1]
  <2>1. /\ x.writer = [w EXCEPT !.inner = new] /\ x.names = a.names + 1
        /\ x.faults = a.faults /\ x.ok = a.ok
    BY <1>3 DEF Attempts
  <2>2. x.writer \in RollingWriter /\ x.writer.inner = new /\ x.writer.files = w.files
    BY <1>1, <1>2, <2>1 DEF RollingWriter
  <2>3. Pieces(x.writer) = w.files \cup {new}
    BY <1>2, <2>2 DEF Pieces
  <2>4. \A f \in w.files : f.name \in 1..a.names /\ f.batches \subseteq B
    BY <1>1 DEF Good, Names, Rows
  <2>5. \A f \in w.files : f.name # new.name
    BY <1>1, <1>2, <2>4
  <2> HIDE DEF w, new
  <2>6. Names(x.writer) = Names(w) \cup {a.names + 1} /\ Rows(x.writer) = Rows(w)
    BY <1>1, <1>2, <2>3 DEF Names, Rows
  <2>7. Good(x.writer, x.names, B)
    <3>1. Apart(Pieces(x.writer))
      BY <1>1, <1>2, <2>3, <2>5 DEF Good, Apart, w
    <3>2. x.writer.inner \notin x.writer.files
      BY <2>2, <2>5
    <3>3. Names(x.writer) \subseteq 1..x.names
      BY <1>1, <2>1, <2>6 DEF Good, w
    <3> QED
      BY <2>2, <2>6, <3>1, <3>2, <3>3 DEF Good, w
  <2>8. Kept(w) \subseteq Kept(x.writer)
    BY <1>1, <2>2, PiecesOf DEF Kept, Finished, w
  <2>9. x \in Attempts
    <3>1. x = [writer |-> x.writer, names |-> x.names, faults |-> x.faults, ok |-> x.ok]
      BY <1>3 DEF Attempts
    <3>2. x.names \in Nat /\ x.faults \in Nat /\ x.ok \in BOOLEAN
      BY <1>1, <2>1
    <3> QED
      BY <2>2, <3>1, <3>2 DEF Attempts
  <2> QED
    BY <1>1, <1>2, <2>1, <2>2, <2>6, <2>7, <2>8, <2>9 DEF Advances, w
<1>4. CASE x = [a EXCEPT !.names = @ + 1, !.faults = @ + 1, !.ok = FALSE]
  <2>1. x = [writer |-> w, names |-> a.names + 1, faults |-> a.faults + 1, ok |-> FALSE]
    BY <1>4 DEF Attempts
  <2>2. Good(w, x.names, B)
    BY <1>1, <2>1 DEF Good
  <2>3. x \in Attempts
    BY <1>1, <2>1 DEF Attempts
  <2> QED
    BY <1>1, <2>1, <2>2, <2>3 DEF Advances
<1> QED
  BY <1>3, <1>4 DEF OpenFile

(* A writer left with some of its files, all of them closed. *)
LEMMA ClosedIsGood ==
    ASSUME NEW w, NEW n, NEW B, Good(w, n, B), NEW v \in RollingWriter, v.inner = None,
           v.files \subseteq Pieces(w)
    PROVE  Good(v, n, B) /\ Names(v) \subseteq Names(w) /\ Rows(v) \subseteq Rows(w)
<1>1. Pieces(v) \subseteq Pieces(w) /\ v.files \subseteq DataFile
  BY PiecesOf DEF RollingWriter
<1>2. v.inner \notin v.files
  BY <1>1, NoneIsNone
<1>3. Names(v) \subseteq Names(w) /\ Rows(v) \subseteq Rows(w)
  BY <1>1 DEF Names, Rows
<1> QED
  BY <1>1, <1>2, <1>3 DEF Good, Apart

LEMMA CloseFileAdvances ==
    ASSUME NEW a \in Attempts, a.ok, NEW B, Good(a.writer, a.names, B), NEW x \in CloseFile(a)
    PROVE  /\ Advances(a, x, {}) /\ Good(x.writer, x.names, B)
           /\ x.writer.inner = None
           /\ x.ok => x.names = a.names /\ x.writer = Finished(a.writer)
<1> DEFINE w == a.writer
<1>1. w \in RollingWriter /\ a.names \in Nat /\ a.faults \in Nat
  BY DEF Attempts
<1>2. CASE x = [a EXCEPT !.writer = Finished(@)]
  <2>1. x = [writer |-> Finished(w), names |-> a.names, faults |-> a.faults, ok |-> a.ok]
    BY <1>2 DEF Attempts
  <2>2. /\ Finished(w) \in RollingWriter /\ Finished(w).inner = None
        /\ Finished(w).files \subseteq Pieces(w)
    BY <1>1, PiecesOf
  <2>3. Kept(Finished(w)) = Kept(w)
    <3>1. Finished(Finished(w)).files = Finished(w).files
      BY <2>2 DEF Finished
    <3> QED
      BY <3>1 DEF Kept
  <2>4. x \in Attempts
    BY <1>1, <2>1, <2>2 DEF Attempts
  <2> QED
    BY <1>1, <2>1, <2>2, <2>3, <2>4, ClosedIsGood DEF Advances
<1>3. CASE x = [a EXCEPT !.writer.inner = None, !.faults = @ + 1, !.ok = FALSE]
  <2> DEFINE v == [w EXCEPT !.inner = None]
  <2>1. x = [writer |-> v, names |-> a.names, faults |-> a.faults + 1, ok |-> FALSE]
    BY <1>3 DEF Attempts
  <2>2. v \in RollingWriter /\ v.inner = None /\ v.files \subseteq Pieces(w)
    BY <1>1 DEF RollingWriter, Pieces
  <2> HIDE DEF v
  <2>3. x \in Attempts
    BY <1>1, <2>1, <2>2 DEF Attempts
  <2> QED
    BY <1>1, <2>1, <2>2, <2>3, ClosedIsGood DEF Advances
<1> QED
  BY <1>2, <1>3 DEF CloseFile

(* The open file of w with the rows of batch b, or without. *)
LEMMA FilledIsGood ==
    ASSUME NEW w, NEW n, NEW B, Good(w, n, B), w.inner # None, NEW b \in B, b \notin Rows(w),
           NEW f \in DataFile, f.name = w.inner.name, f.batches \subseteq w.inner.batches \cup {b},
           NEW v, v = [inner |-> f, files |-> w.files]
    PROVE  /\ v \in RollingWriter /\ Good(v, n, B)
           /\ Names(v) = Names(w) /\ Rows(v) \subseteq Rows(w) \cup {b}
<1>1. /\ w \in RollingWriter /\ Pieces(w) = w.files \cup {w.inner} /\ w.inner \notin w.files
      /\ \A g \in w.files : g # w.inner /\ g \in Pieces(w)
  BY PiecesOf DEF Good
<1>2. v \in RollingWriter /\ v.inner = f /\ v.files = w.files /\ f # None
  BY <1>1, NoneIsNone DEF RollingWriter
<1>3. Pieces(v) = w.files \cup {f}
  BY <1>2 DEF Pieces
<1>4. Names(v) = Names(w) /\ Rows(v) \subseteq Rows(w) \cup {b}
  BY <1>1, <1>3 DEF Names, Rows
<1>5. \A g \in w.files : g.name # f.name /\ g.batches \cap f.batches = {}
  <2>1. \A g \in w.files :
           g.name # w.inner.name /\ g.batches \cap w.inner.batches = {} /\ b \notin g.batches
    BY <1>1 DEF Good, Apart, Rows
  <2> QED
    BY <2>1
<1>6. \A g, h \in w.files : g # h => g.name # h.name /\ g.batches \cap h.batches = {}
  BY <1>1 DEF Good, Apart
<1>7. Apart(Pieces(v))
  BY <1>3, <1>5, <1>6 DEF Apart
<1>8. v.inner \notin v.files
  BY <1>2, <1>5
<1> QED
  BY <1>2, <1>4, <1>7, <1>8 DEF Good

LEMMA WriteBatchAdvances ==
    ASSUME NEW a \in Attempts, a.ok, NEW B, Good(a.writer, a.names, B), a.writer.inner # None,
           NEW b \in B, b \in Nat, b \notin Rows(a.writer), NEW x \in WriteBatch(a, b)
    PROVE  /\ Advances(a, x, {b}) /\ Good(x.writer, x.names, B)
           /\ x.ok => b \in Kept(x.writer)
<1> DEFINE w == a.writer
           After(h) == [inner |-> h, files |-> w.files]
<1>1. w \in RollingWriter /\ a.names \in Nat /\ a.faults \in Nat /\ w.inner \in DataFile
  BY PiecesOf DEF Attempts
<1>2. PICK f : f = [w.inner EXCEPT !.begun = TRUE]
  OBVIOUS
<1>3. PICK g : g = [f EXCEPT !.batches = @ \cup {b}, !.size = @ + 1]
  OBVIOUS
<1>4. /\ f \in DataFile /\ f.name = w.inner.name /\ f.batches = w.inner.batches
      /\ g \in DataFile /\ g.name = w.inner.name /\ g.batches = w.inner.batches \cup {b}
      /\ g.begun
  <2>1. f \in DataFile /\ f.name = w.inner.name /\ f.batches = w.inner.batches /\ f.begun
    BY <1>1, <1>2 DEF DataFile
  <2>2. g = [name |-> f.name, begun |-> f.begun, batches |-> f.batches \cup {b},
             size |-> f.size + 1]
    BY <1>3, <2>1 DEF DataFile
  <2>3. /\ f.name \in Nat /\ f.batches \cup {b} \in SUBSET Nat /\ f.size + 1 \in Nat
        /\ f.begun \in BOOLEAN
    BY <2>1 DEF DataFile
  <2>4. g \in DataFile
    BY <2>2, <2>3 DEF DataFile
  <2> QED
    BY <2>1, <2>2, <2>4
<1>5. \/ x = [writer |-> After(g), names |-> a.names, faults |-> a.faults, ok |-> a.ok]
      \/ \E v \in {w, After(f), After(g)} :
            x = [writer |-> v, names |-> a.names, faults |-> a.faults + 1, ok |-> FALSE]
  <2> DEFINE Record(v) == [writer |-> v, names |-> a.names, faults |-> a.faults, ok |-> a.ok]
  <2>1. PICK begun : begun = [a EXCEPT !.writer.inner.begun = TRUE]
    OBVIOUS
  <2>2. PICK with : with = [begun EXCEPT !.writer.inner.batches = @ \cup {b},
                                         !.writer.inner.size = @ + 1]
    OBVIOUS
  <2>3. begun = Record(After(f))
    <3>1. PICK v : v = [w EXCEPT !.inner.begun = TRUE]
      OBVIOUS
    <3>2. v = After(f)
      BY <1>1, <1>2, <3>1 DEF RollingWriter
    <3>3. begun = Record(v)
      BY <2>1, <3>1 DEF Attempts
    <3> QED
      BY <3>2, <3>3
  <2>4. with = Record(After(g))
    <3>1. PICK v : v = [After(f) EXCEPT !.inner.batches = @ \cup {b}, !.inner.size = @ + 1]
      OBVIOUS
    <3>2. v = After(g)
      BY <1>3, <3>1
    <3>3. with = Record(v)
      BY <2>2, <2>3, <3>1
    <3> QED
      BY <3>2, <3>3
  <2>5. x = with \/ \E y \in {a, begun, with} : x = [y EXCEPT !.faults = @ + 1, !.ok = FALSE]
    BY <2>1, <2>2 DEF WriteBatch
  <2>6. a = Record(w)
    BY DEF Attempts
  <2>7. CASE x = with
    BY <2>4, <2>7
  <2>8. ASSUME NEW v \in {w, After(f), After(g)},
               x = [Record(v) EXCEPT !.faults = @ + 1, !.ok = FALSE]
        PROVE  x = [writer |-> v, names |-> a.names, faults |-> a.faults + 1, ok |-> FALSE]
    BY <2>8
  <2> HIDE DEF After, w, Record
  <2>9. \A y \in {a, begun, with} : \E v \in {w, After(f), After(g)} : y = Record(v)
    BY <2>3, <2>4, <2>6
  <2> QED
    BY <2>5, <2>7, <2>8, <2>9
<1>6. ASSUME NEW v \in {w, After(f), After(g)}
      PROVE  /\ v \in RollingWriter /\ Good(v, a.names, B)
             /\ Names(v) = Names(w) /\ Rows(v) \subseteq Rows(w) \cup {b}
  BY <1>1, <1>4, FilledIsGood
<1>7. Kept(w) \cup {b} \subseteq Kept(After(g))
  <2>1. /\ Finished(After(g)).files = w.files \cup {g}
        /\ Finished(w).files \subseteq w.files \cup {w.inner}
    BY <1>1, <1>4, NoneIsNone DEF Finished
  <2> QED
    BY <1>4, <2>1 DEF Kept
<1> HIDE DEF After
<1>8. CASE x = [writer |-> After(g), names |-> a.names, faults |-> a.faults, ok |-> a.ok]
  BY <1>1, <1>6, <1>7, <1>8 DEF Advances, Attempts
<1>9. ASSUME NEW v \in {w, After(f), After(g)},
             x = [writer |-> v, names |-> a.names, faults |-> a.faults + 1, ok |-> FALSE]
      PROVE  Advances(a, x, {b}) /\ Good(x.writer, x.names, B) /\ ~x.ok
  BY <1>1, <1>6, <1>9 DEF Advances, Attempts
<1> QED
  BY <1>5, <1>8, <1>9

(* One attempt after another. *)
LEMMA AdvancesOn ==
    ASSUME NEW a \in Attempts, NEW x, NEW y, NEW R, NEW S,
           Advances(a, x, R), x.ok, Advances(x, y, S)
    PROVE  Advances(a, y, R \cup S)
<1>1. /\ a.names \in Nat /\ x.names \in Nat /\ y.names \in Nat
      /\ a.faults \in Nat /\ x.faults \in Nat /\ y.faults \in Nat
  BY DEF Attempts, Advances
<1>2. Names(y.writer) \subseteq Names(a.writer) \cup (a.names + 1)..y.names
  <2>1. (a.names + 1)..x.names \subseteq (a.names + 1)..y.names
    BY <1>1 DEF Advances
  <2>2. (x.names + 1)..y.names \subseteq (a.names + 1)..y.names
    BY <1>1 DEF Advances
  <2> QED
    BY <2>1, <2>2 DEF Advances
<1>3. Rows(y.writer) \subseteq Rows(a.writer) \cup R \cup S
  BY DEF Advances
<1> QED
  BY <1>1, <1>2, <1>3 DEF Advances

LEMMA AdvancesInPlace ==
    ASSUME NEW a \in Attempts, a.ok
    PROVE  Advances(a, a, {})
BY DEF Advances, Attempts

LEMMA EnsureOpenAdvances ==
    ASSUME NEW a \in Attempts, a.ok, NEW B, Good(a.writer, a.names, B), NEW x \in EnsureOpen(a)
    PROVE  /\ Advances(a, x, {}) /\ Good(x.writer, x.names, B)
           /\ x.ok => x.writer.inner # None
BY OpenFileAdvances, AdvancesInPlace DEF EnsureOpen

LEMMA RollOverAdvances ==
    ASSUME NEW a \in Attempts, a.ok, NEW B, Good(a.writer, a.names, B), a.writer.inner # None,
           NEW x \in RollOver(a)
    PROVE  /\ Advances(a, x, {}) /\ Good(x.writer, x.names, B)
           /\ x.ok => x.writer.inner # None
<1>1. CASE x = a
  BY <1>1, AdvancesInPlace
<1>2. CASE x \in CloseFile(a) /\ ~x.ok
  BY <1>2, CloseFileAdvances
<1>3. ASSUME NEW c \in CloseFile(a), c.ok, x \in OpenFile(c)
      PROVE  /\ Advances(a, x, {}) /\ Good(x.writer, x.names, B)
             /\ x.ok => x.writer.inner # None
  <2>1. /\ Advances(a, c, {}) /\ Good(c.writer, c.names, B) /\ c.writer.inner = None
    BY <1>3, CloseFileAdvances
  <2>2. c \in Attempts
    BY <2>1 DEF Advances
  <2>3. /\ Advances(c, x, {}) /\ Good(x.writer, x.names, B)
        /\ x.ok => x.writer.inner # None
    BY <1>3, <2>1, <2>2, OpenFileAdvances
  <2>4. Advances(a, x, {} \cup {})
    BY <1>3, <2>1, <2>3, AdvancesOn
  <2> QED
    BY <2>3, <2>4
<1> QED
  BY <1>1, <1>2, <1>3 DEF RollOver, Then

LEMMA RollingWriteAdvances ==
    ASSUME names \in Nat, faults \in Nat, NEW w, NEW B, Good(w, names, B),
           NEW b \in B, b \in Nat, b \notin Rows(w), NEW x \in RollingWrite(w, b)
    PROVE  /\ Advances(Attempt(w, names, faults, TRUE), x, {b})
           /\ Good(x.writer, x.names, B)
           /\ x.ok => b \in Kept(x.writer)
<1> DEFINE start == Attempt(w, names, faults, TRUE)
<1>1. start \in Attempts /\ start.ok /\ start.writer = w /\ start.names = names
  BY DEF Attempts, Attempt, Good
<1>2. \/ x \in EnsureOpen(start) /\ ~x.ok
      \/ \E e \in EnsureOpen(start) : e.ok /\ x \in RollOver(e) /\ ~x.ok
      \/ \E e \in EnsureOpen(start) : e.ok /\
            \E r \in RollOver(e) : r.ok /\ x \in WriteBatch(r, b)
  BY DEF RollingWrite, Then
<1> HIDE DEF start
<1>3. CASE x \in EnsureOpen(start) /\ ~x.ok
  <2>1. Advances(start, x, {}) /\ Good(x.writer, x.names, B)
    BY <1>1, <1>3, EnsureOpenAdvances
  <2> QED
    BY <1>3, <2>1 DEF Advances, start
<1>4. ASSUME NEW e \in EnsureOpen(start), e.ok, NEW r \in RollOver(e)
      PROVE  /\ e \in Attempts /\ Advances(start, r, {}) /\ Good(r.writer, r.names, B)
             /\ r.ok => r.writer.inner # None
  <2>1. Advances(start, e, {}) /\ Good(e.writer, e.names, B) /\ e.writer.inner # None
    BY <1>1, <1>4, EnsureOpenAdvances
  <2>2. e \in Attempts
    BY <2>1 DEF Advances
  <2>3. /\ Advances(e, r, {}) /\ Good(r.writer, r.names, B)
        /\ r.ok => r.writer.inner # None
    BY <1>4, <2>1, <2>2, RollOverAdvances
  <2>4. Advances(start, r, {} \cup {})
    BY <1>1, <1>4, <2>1, <2>3, AdvancesOn
  <2> QED
    BY <2>2, <2>3, <2>4
<1>5. ASSUME NEW e \in EnsureOpen(start), e.ok, x \in RollOver(e), ~x.ok
      PROVE  /\ Advances(start, x, {b}) /\ Good(x.writer, x.names, B)
  BY <1>4, <1>5 DEF Advances
<1>6. ASSUME NEW e \in EnsureOpen(start), e.ok, NEW r \in RollOver(e), r.ok,
             x \in WriteBatch(r, b)
      PROVE  /\ Advances(start, x, {b}) /\ Good(x.writer, x.names, B)
             /\ x.ok => b \in Kept(x.writer)
  <2>1. /\ Advances(start, r, {}) /\ Good(r.writer, r.names, B) /\ r.writer.inner # None
    BY <1>4, <1>6
  <2>2. r \in Attempts /\ b \notin Rows(r.writer)
    BY <1>1, <2>1 DEF Advances
  <2>3. /\ Advances(r, x, {b}) /\ Good(x.writer, x.names, B)
        /\ x.ok => b \in Kept(x.writer)
    BY <1>6, <2>1, <2>2, WriteBatchAdvances
  <2>4. Advances(start, x, {} \cup {b})
    BY <1>1, <1>6, <2>1, <2>3, AdvancesOn
  <2> QED
    BY <2>3, <2>4
<1> QED
  <2>1. CASE \E e \in EnsureOpen(start) : e.ok /\ x \in RollOver(e) /\ ~x.ok
    BY <1>5, <2>1 DEF start
  <2>2. CASE \E e \in EnsureOpen(start) : e.ok /\
               \E r \in RollOver(e) : r.ok /\ x \in WriteBatch(r, b)
    BY <1>6, <2>2 DEF start
  <2> QED
    BY <1>2, <1>3, <2>1, <2>2 DEF start

(* Closing a writer keeps what it can, or tells of a fault. *)
LEMMA RollingCloseIs ==
    ASSUME names \in Nat, faults \in Nat, NEW w, NEW B, Good(w, names, B),
           NEW x \in RollingClose(w)
    PROVE  /\ x.names = names
           /\ x.ok \in BOOLEAN /\ x.faults \in Nat
           /\ x.ok => x.faults = faults /\ x.writer = Finished(w)
           /\ ~x.ok => x.faults = faults + 1
<1>1. CASE x = [Attempt(w, names, faults, TRUE) EXCEPT !.writer = Finished(w)]
  BY <1>1 DEF Attempt
<1>2. CASE x \in CloseFile(Attempt(w, names, faults, TRUE))
  <2> DEFINE start == Attempt(w, names, faults, TRUE)
  <2>1. start \in Attempts /\ start.ok /\ start.writer = w /\ start.names = names
    BY DEF Attempts, Attempt, Good
  <2>2. start.faults = faults
    BY DEF Attempt
  <2>3. CASE x = [start EXCEPT !.writer = Finished(@)]
    BY <2>1, <2>2, <2>3 DEF Attempts
  <2>4. CASE x = [start EXCEPT !.writer.inner = None, !.faults = @ + 1, !.ok = FALSE]
    <3> HIDE DEF start
    <3> QED
      BY <2>1, <2>2, <2>4 DEF Attempts
  <2> QED
    BY <1>2, <2>3, <2>4 DEF CloseFile
<1> QED
  BY <1>1, <1>2 DEF RollingClose

-----------------------------------------------------------------------------
(* The files of several writers.                                             *)

LEMMA NewWriterIsGood ==
    ASSUME NEW n \in Nat, NEW B
    PROVE  Good(NewWriter, n, B) /\ Names(NewWriter) = {} /\ Rows(NewWriter) = {}
           /\ NewWriter # None
<1>1. NewWriter \in RollingWriter
  BY DEF NewWriter, RollingWriter
<1>2. Pieces(NewWriter) = {}
  BY DEF Pieces, NewWriter
<1> QED
  BY <1>1, <1>2, NoneIsNone DEF Good, Apart, Names, Rows, NewWriter

LEMMA GoodGrows ==
    ASSUME NEW w, NEW m \in Nat, NEW n \in Nat, m <= n, NEW A, NEW B, A \subseteq B, Good(w, m, A)
    PROVE  Good(w, n, B)
<1>1. 1..m \subseteq 1..n
  OBVIOUS
<1> QED
  BY <1>1 DEF Good

LEMMA BatchesAreApart ==
    ASSUME NEW in, NEW p, NEW q, p # q
    PROVE  BatchesOf(in, p) \cap BatchesOf(in, q) = {}
BY DEF BatchesOf

(* Writers of which some are closed and handed over, and some are new. *)
LEMMA HandOver ==
    ASSUME NEW ws, NEW n \in Nat, NEW in, NEW out, AllApart(ws, n, in, out),
           NEW S \in SUBSET Held(ws), NEW vs,
           \A q \in Held(vs) : \/ q \in Held(ws) \ S /\ vs[q] = ws[q]
                               \/ vs[q] = NewWriter
    PROVE  AllApart(vs, n, in, out \cup UNION {DataFiles(Finished(ws[p]), p) : p \in S})
<1> DEFINE new == UNION {DataFiles(Finished(ws[p]), p) : p \in S}
<1>1. ASSUME NEW f \in new
      PROVE  \E p \in S : /\ f.partition = p
                          /\ \E g \in Pieces(ws[p]) : f = [name |-> g.name, batches |-> g.batches,
                                                          partition |-> p]
  <2>1. PICK p \in S : f \in DataFiles(Finished(ws[p]), p)
    OBVIOUS
  <2>2. ws[p] \in RollingWriter
    BY DEF AllApart, Good
  <2> QED
    BY <2>1, <2>2, PiecesOf DEF DataFiles
<1> HIDE DEF new
<1>2. ASSUME NEW f \in new
      PROVE  /\ f.partition \in S /\ f.name \in Names(ws[f.partition])
             /\ f.batches \subseteq Rows(ws[f.partition])
  BY <1>1 DEF Names, Rows
<1>3. ASSUME NEW p \in Held(ws)
      PROVE  Names(ws[p]) \subseteq 1..n /\ Rows(ws[p]) \subseteq BatchesOf(in, p)
  BY DEF AllApart, Good
<1>4. \A q \in Held(vs) : Good(vs[q], n, BatchesOf(in, q))
  BY NewWriterIsGood DEF AllApart
<1>5. \A q \in Held(vs) : \/ q \in Held(ws) \ S /\ vs[q] = ws[q]
                          \/ Names(vs[q]) = {} /\ Rows(vs[q]) = {}
  BY NewWriterIsGood
<1>6. ASSUME NEW p \in Held(vs), NEW q \in Held(vs), p # q
      PROVE  Names(vs[p]) \cap Names(vs[q]) = {}
  BY <1>5, <1>6 DEF AllApart
<1>7. ASSUME NEW f \in out, NEW g \in new
      PROVE  f.name # g.name /\ f.batches \cap g.batches = {}
  BY <1>2 DEF AllApart
<1>8. ASSUME NEW f \in new, NEW g \in new, f # g
      PROVE  f.name # g.name /\ f.batches \cap g.batches = {}
  <2>1. CASE f.partition = g.partition
    <3>1. Apart(Pieces(ws[f.partition]))
      BY <1>2 DEF AllApart, Good
    <3> QED
      BY <1>1, <1>8, <2>1, <3>1 DEF Apart
  <2>2. CASE f.partition # g.partition
    <3>1. Names(ws[f.partition]) \cap Names(ws[g.partition]) = {}
      BY <1>2, <2>2 DEF AllApart
    <3>2. f.batches \subseteq BatchesOf(in, f.partition) /\ g.batches \subseteq BatchesOf(in, g.partition)
      BY <1>2, <1>3
    <3> QED
      BY <1>2, <2>2, <3>1, <3>2, BatchesAreApart
  <2> QED
    BY <2>1, <2>2
<1>9. Apart(out \cup new)
  BY <1>7, <1>8 DEF Apart, AllApart
<1>10. ASSUME NEW f \in out \cup new, NEW q \in Held(vs)
       PROVE  f.name \notin Names(vs[q]) /\ f.batches \cap Rows(vs[q]) = {}
  <2>1. CASE f \in out
    BY <1>5, <2>1 DEF AllApart
  <2>2. CASE f \in new /\ q \in Held(ws) \ S /\ vs[q] = ws[q]
    <3>1. Names(ws[f.partition]) \cap Names(ws[q]) = {}
      BY <1>2, <2>2 DEF AllApart
    <3>2. f.batches \subseteq BatchesOf(in, f.partition) /\ Rows(ws[q]) \subseteq BatchesOf(in, q)
      BY <1>2, <1>3, <2>2
    <3> QED
      BY <1>2, <2>2, <3>1, <3>2, BatchesAreApart
  <2> QED
    BY <1>5, <2>1, <2>2
<1>11. ASSUME NEW f \in out \cup new
       PROVE  f.name \in 1..n /\ f.batches \subseteq BatchesOf(in, f.partition)
  BY <1>2, <1>3 DEF AllApart
<1> QED
  BY <1>4, <1>6, <1>9, <1>10, <1>11 DEF AllApart, new

(* Writers of which some are given up, and some are new. *)
LEMMA TakeOut ==
    ASSUME NEW ws, NEW n \in Nat, NEW in, NEW out, AllApart(ws, n, in, out), NEW vs,
           \A q \in Held(vs) : \/ q \in Held(ws) /\ vs[q] = ws[q]
                               \/ vs[q] = NewWriter
    PROVE  AllApart(vs, n, in, out)
<1> DEFINE new(S) == UNION {DataFiles(Finished(ws[p]), p) : p \in S}
<1>1. PICK S : S = {}
  OBVIOUS
<1>2. S \in SUBSET Held(ws) /\ new(S) = {}
  BY <1>1
<1>3. \A q \in Held(vs) : (q \in Held(ws) \ S /\ vs[q] = ws[q]) \/ vs[q] = NewWriter
  BY <1>1
<1>4. AllApart(vs, n, in, out \cup new(S))
  BY <1>2, <1>3, HandOver
<1> QED
  BY <1>2, <1>4

(* The batch being written comes last. *)
LEMMA InputGrows ==
    ASSUME input \in Seq(Keys), NEW p \in Keys, input' = Append(input, p)
    PROVE  /\ input' \in Seq(Keys) /\ Batch \in Nat \ {0}
           /\ DOMAIN input = 1..Len(input) /\ DOMAIN input' = DOMAIN input \cup {Batch}
           /\ Batch \notin DOMAIN input /\ \A b \in DOMAIN input : b < Batch
           /\ \A b \in DOMAIN input : input'[b] = input[b]
           /\ input'[Batch] = p
           /\ \A q : BatchesOf(input, q) \subseteq BatchesOf(input', q)
           /\ Batch \in BatchesOf(input', p)
BY DEF Batch, BatchesOf

(* What the last step of a write comes to: the rows are taken, or the write  *)
(* is refused after a fault.                                                 *)
Written(ws, p) ==
    /\ writers' \in [Keys -> RollingWriter \cup {None}]
    /\ names' \in Nat /\ faults' \in Nat
    /\ Held(writers') = Held(ws) /\ \A q \in Keys \ {p} : writers'[q] = ws[q]
    /\ \/ /\ acked' = acked \cup {Batch} /\ faults' = faults
          /\ Kept(ws[p]) \cup {Batch} \subseteq Kept(writers'[p])
       \/ acked' = acked /\ faults' > faults

LEMMA WriteIntoIs ==
    ASSUME names \in Nat, faults \in Nat, input \in Seq(Keys), NEW p \in Keys,
           NEW ws \in [Keys -> RollingWriter \cup {None}], ws[p] # None,
           NEW out, AllApart(ws, names, input, out),
           input' = Append(input, p), WriteInto(ws, p)
    PROVE  Written(ws, p) /\ AllApart(writers', names', input', out)
<1> DEFINE B == BatchesOf(input', p)
           start == Attempt(ws[p], names, faults, TRUE)
<1>1. PICK a \in RollingWrite(ws[p], Batch) :
         /\ writers' = [ws EXCEPT ![p] = a.writer]
         /\ names' = a.names /\ faults' = a.faults
         /\ Acknowledge(a.ok)
  BY DEF WriteInto, Allowed
<1>2. /\ p \in Held(ws) /\ ws[p] \in RollingWriter
      /\ Good(ws[p], names, BatchesOf(input, p))
  BY DEF Held, AllApart, Good
<1>3. \A q \in Held(ws) : Rows(ws[q]) \subseteq DOMAIN input /\ Names(ws[q]) \subseteq 1..names
  BY DEF AllApart, Good, BatchesOf
<1>4. /\ Advances(start, a, {Batch}) /\ Good(a.writer, a.names, B)
      /\ a.ok => Batch \in Kept(a.writer)
  <2>1. Good(ws[p], names, B)
    BY <1>2, InputGrows, GoodGrows
  <2>2. Batch \in B /\ Batch \in Nat /\ Batch \notin Rows(ws[p])
    BY <1>2, <1>3, InputGrows
  <2> HIDE DEF B
  <2> QED
    BY <1>1, <2>1, <2>2, RollingWriteAdvances DEF Batch
<1>5. /\ a.writer \in RollingWriter /\ a.names \in Nat /\ a.faults \in Nat /\ a.ok \in BOOLEAN
      /\ names <= a.names
      /\ Names(a.writer) \subseteq Names(ws[p]) \cup (names + 1)..a.names
      /\ Rows(a.writer) \subseteq Rows(ws[p]) \cup {Batch}
      /\ IF a.ok THEN a.faults = faults /\ Kept(ws[p]) \subseteq Kept(a.writer)
         ELSE a.faults > faults
  BY <1>4 DEF Advances, Attempts, Attempt
<1>6. /\ writers' \in [Keys -> RollingWriter \cup {None}]
      /\ writers'[p] = a.writer /\ a.writer # None
      /\ \A q \in Keys \ {p} : writers'[q] = ws[q]
      /\ Held(writers') = Held(ws)
  <2>1. a.writer # None
    BY <1>5, NoneIsNone
  <2>2. /\ writers' \in [Keys -> RollingWriter \cup {None}]
        /\ writers'[p] = a.writer
        /\ \A q \in Keys \ {p} : writers'[q] = ws[q]
    BY <1>1, <1>5
  <2> QED
    BY <2>1, <2>2 DEF Held
<1>7. Written(ws, p)
  BY <1>1, <1>4, <1>5, <1>6 DEF Written, Acknowledge
<1>8. AllApart(writers', names', input', out)
  <2>1. \A q \in Held(writers') : Good(writers'[q], names', BatchesOf(input', q))
    <3>1. ASSUME NEW q \in Held(writers'), q # p
          PROVE  Good(ws[q], a.names, BatchesOf(input', q))
      BY <1>5, <1>6, <3>1, InputGrows, GoodGrows DEF AllApart
    <3> QED
      BY <1>1, <1>4, <1>6, <3>1 DEF Held
  <2>2. ASSUME NEW q \in Held(ws), q # p
        PROVE  Names(a.writer) \cap Names(ws[q]) = {}
    <3>1. Names(ws[p]) \cap Names(ws[q]) = {}
      BY <1>2, <2>2 DEF AllApart
    <3>2. (names + 1)..a.names \cap 1..names = {}
      BY <1>5
    <3> QED
      BY <1>3, <1>5, <3>1, <3>2
  <2>3. ASSUME NEW q \in Held(writers'), NEW r \in Held(writers'), q # r
        PROVE  Names(writers'[q]) \cap Names(writers'[r]) = {}
    BY <1>6, <2>2, <2>3 DEF AllApart, Held
  <2>4. ASSUME NEW f \in out
        PROVE  /\ f.name \in 1..names' /\ f.batches \subseteq BatchesOf(input', f.partition)
               /\ f.name \notin Names(a.writer) /\ f.batches \cap Rows(a.writer) = {}
    <3>1. /\ f.name \in 1..names /\ f.batches \subseteq BatchesOf(input, f.partition)
          /\ f.name \notin Names(ws[p]) /\ f.batches \cap Rows(ws[p]) = {}
      BY <1>2 DEF AllApart
    <3>2. f.name \in 1..a.names /\ f.name \notin (names + 1)..a.names
      BY <1>5, <3>1
    <3>3. Batch \notin f.batches
      BY <3>1, InputGrows DEF BatchesOf
    <3>4. f.batches \subseteq BatchesOf(input', f.partition)
      BY <3>1, InputGrows
    <3> QED
      BY <1>1, <1>5, <3>1, <3>2, <3>3, <3>4
  <2>5. ASSUME NEW f \in out, NEW q \in Held(writers')
        PROVE  f.name \notin Names(writers'[q]) /\ f.batches \cap Rows(writers'[q]) = {}
    BY <1>6, <2>4 DEF AllApart, Held
  <2> QED
    BY <2>1, <2>3, <2>4, <2>5 DEF AllApart
<1> QED
  BY <1>7, <1>8

-----------------------------------------------------------------------------
(* The invariant, and that each action preserves it.                         *)

LEMMA WInvInit == Init => WInv
<1> SUFFICES ASSUME Init PROVE WInv
  OBVIOUS
<1>1. Held(writers) = {} /\ DOMAIN input = {} /\ Refused = {}
  BY DEF Init, Held, Refused
<1>2. TypeInv
  BY <1>1 DEF Init, TypeInv, Keys
<1>3. FilesApart
  BY <1>1 DEF Init, FilesApart, AllApart, Apart
<1> QED
  BY <1>1, <1>2, <1>3 DEF Init, WInv, AckedIsKept, ClosedWasLeft, OneAtATime, MissingAfterError,
                          RefusesOnlyUnsorted, PanicsOnlyAfterErrors

(* A refused batch stays one. *)
LEMMA RefusedGrows ==
    ASSUME TypeInv, NEW p \in Keys, input' = Append(input, p), kind' = kind,
           acked' \in {acked, acked \cup {Batch}}
    PROVE  /\ acked' \subseteq DOMAIN input' /\ Refused \subseteq Refused'
           /\ acked' = acked => Batch \in Refused'
           /\ acked' = acked \cup {Batch} => Refused' \subseteq Refused
           /\ \A b \in DOMAIN input : Overtaken(b) => Overtaken(b)'
<1>1. input \in Seq(Keys) /\ acked \subseteq DOMAIN input
  BY DEF TypeInv
<1>2. /\ DOMAIN input' = DOMAIN input \cup {Batch} /\ Batch \notin DOMAIN input
      /\ \A b \in DOMAIN input : input'[b] = input[b]
  BY <1>1, InputGrows
<1>3. /\ acked' \subseteq DOMAIN input' /\ Refused \subseteq Refused'
      /\ acked' = acked => Batch \in Refused'
      /\ acked' = acked \cup {Batch} => Refused' \subseteq Refused
  BY <1>1, <1>2 DEF Refused
<1>4. ASSUME NEW b \in DOMAIN input, Overtaken(b)
      PROVE  Overtaken(b)'
  <2>1. PICK e \in Refused : e > b /\ (input[e] = input[b] \/ kind = "clustered")
    BY <1>4 DEF Overtaken
  <2>2. e \in Refused' /\ input'[e] = input[e] /\ input'[b] = input[b]
    BY <1>2, <1>3 DEF Refused
  <2> QED
    BY <2>1, <2>2 DEF Overtaken
<1> QED
  BY <1>3, <1>4

(* What was said of the batches before stays true of them. *)
LEMMA HistoryStays ==
    ASSUME TypeInv, ClosedWasLeft, RefusesOnlyUnsorted, result = "open",
           NEW p \in Keys, input' = Append(input, p), kind' = kind,
           acked' \in {acked, acked \cup {Batch}}
    PROVE  /\ \A q \in Keys : (\E i \in DOMAIN input : input[i] = q)
                                => \E i \in DOMAIN input' : input'[i] = q
           /\ \A q \in closed :
                \E i, j \in DOMAIN input' : i < j /\ input'[i] = q /\ input'[j] # q
           /\ faults = 0 /\ Refused # {} =>
                /\ kind = "clustered"
                /\ \E i, j, k \in DOMAIN input' :
                      i < j /\ j < k /\ input'[i] = input'[k] /\ input'[j] # input'[i]
<1>1. DOMAIN input \subseteq DOMAIN input' /\ \A b \in DOMAIN input : input'[b] = input[b]
  BY InputGrows DEF TypeInv
<1>2. \A q \in closed :
         \E i, j \in DOMAIN input' : i < j /\ input'[i] = q /\ input'[j] # q
  BY <1>1 DEF ClosedWasLeft
<1>3. faults = 0 /\ Refused # {} =>
         /\ kind = "clustered"
         /\ \E i, j, k \in DOMAIN input' :
               i < j /\ j < k /\ input'[i] = input'[k] /\ input'[j] # input'[i]
  BY <1>1 DEF RefusesOnlyUnsorted
<1> QED
  BY <1>1, <1>2, <1>3

(* A write that closes no writer. *)
LEMMA WriteStep ==
    ASSUME WInv, result = "open", NEW p \in Keys, input' = Append(input, p),
           WriteInto(WriterFor(p), p), UNCHANGED <<kind, current, closed, output, result>>,
           kind = "clustered" => p = current /\ p # None
    PROVE  WInv'
<1> DEFINE ws == WriterFor(p)
<1>1. TypeInv /\ FilesApart
  BY DEF WInv
<1>2. /\ ws \in [Keys -> RollingWriter \cup {None}] /\ ws[p] # None
      /\ \A q \in Keys \ {p} : ws[q] = writers[q]
      /\ ws[p] = writers[p] \/ (writers[p] = None /\ ws[p] = NewWriter)
  BY <1>1, NewWriterIsGood DEF WriterFor, TypeInv, Good
<1>3. AllApart(ws, names, input, output)
  <2>1. \A q \in Held(ws) : \/ q \in Held(writers) /\ ws[q] = writers[q]
                           \/ ws[q] = NewWriter
    BY <1>2 DEF Held
  <2> QED
    BY <1>1, <2>1, TakeOut DEF FilesApart, TypeInv
<1> HIDE DEF ws
<1>4. Written(ws, p) /\ AllApart(writers', names', input', output)
  BY <1>1, <1>2, <1>3, WriteIntoIs DEF TypeInv, ws
<1>5. acked' \in {acked, acked \cup {Batch}} /\ faults' >= faults /\ faults \in Nat
  BY <1>1, <1>4 DEF Written, TypeInv
<1>6. /\ acked' \subseteq DOMAIN input' /\ Refused \subseteq Refused'
      /\ acked' = acked => Batch \in Refused'
      /\ acked' = acked \cup {Batch} => Refused' \subseteq Refused
      /\ \A b \in DOMAIN input : Overtaken(b) => Overtaken(b)'
  BY <1>1, <1>5, RefusedGrows
<1>7. TypeInv'
  BY <1>1, <1>4, <1>6, InputGrows DEF TypeInv, Written
<1>8. FilesApart'
  BY <1>4 DEF FilesApart
<1>9. Held(writers) \subseteq Held(writers') /\ Held(writers') \subseteq Held(writers) \cup {p}
      /\ p \in Held(writers')
  BY <1>2, <1>4 DEF Held, Written
<1>10. AckedIsKept'
  <2>1. ASSUME NEW b \in acked, HeldFor(writers, b)
        PROVE  HeldFor(writers, b)' \/ Overtaken(b)'
    <3>1. b \in DOMAIN input /\ input'[b] = input[b] /\ b < Batch /\ input[b] \in Keys
      BY <1>1, InputGrows DEF TypeInv
    <3>2. CASE input[b] # p
      BY <1>2, <1>4, <1>9, <2>1, <3>1, <3>2 DEF HeldFor, Written
    <3>3. CASE input[b] = p /\ acked' = acked
      <4>1. Batch \in Refused' /\ input'[Batch] = p /\ Batch > b
        BY <1>1, <1>6, <3>1, <3>3, InputGrows DEF TypeInv
      <4> QED
        BY <3>1, <3>3, <4>1 DEF Overtaken
    <3>4. CASE input[b] = p /\ acked' # acked
      <4>1. ws[p] = writers[p]
        BY <1>2, <2>1, <3>4 DEF HeldFor, Held
      <4> QED
        BY <1>4, <1>9, <2>1, <3>1, <3>4, <4>1 DEF HeldFor, Written
    <3> QED
      BY <3>2, <3>3, <3>4
  <2>2. ASSUME NEW b, b = Batch, acked' # acked
        PROVE  HeldFor(writers, b)'
    <3>1. b \in Kept(writers'[p]) /\ input'[b] = p
      BY <1>1, <1>4, <2>2, InputGrows DEF TypeInv, Written
    <3> QED
      BY <1>9, <3>1 DEF HeldFor
  <2>3. ASSUME NEW b \in acked'
        PROVE  \/ b \in Delivered' \/ Overtaken(b)'
               \/ result' = "open" /\ HeldFor(writers, b)'
    <3>1. CASE b \in acked
      <4>1. b \in Delivered \/ Overtaken(b) \/ HeldFor(writers, b)
        BY <3>1 DEF AckedIsKept, WInv
      <4> QED
        BY <1>1, <1>6, <2>1, <3>1, <4>1 DEF Delivered, TypeInv
    <3>2. CASE b \notin acked
      BY <1>5, <2>2, <2>3, <3>2
    <3> QED
      BY <3>1, <3>2
  <2> QED
    BY <2>3 DEF AckedIsKept
<1>11. ClosedWasLeft'
  BY <1>1, <1>5, HistoryStays DEF WInv, ClosedWasLeft, TypeInv
<1>12. OneAtATime'
  BY <1>9 DEF OneAtATime, WInv
<1>13. MissingAfterError'
  BY <1>6, <1>9 DEF MissingAfterError, WInv
<1>14. RefusesOnlyUnsorted'
  <2>1. CASE acked' = acked \cup {Batch} /\ faults' = faults
    BY <1>1, <1>5, <1>6, <2>1, HistoryStays DEF WInv, RefusesOnlyUnsorted
  <2>2. CASE faults' > faults
    BY <1>5, <2>2 DEF RefusesOnlyUnsorted
  <2> QED
    BY <1>4, <2>1, <2>2 DEF Written
<1>15. PanicsOnlyAfterErrors'
  BY DEF PanicsOnlyAfterErrors
<1> QED
  BY <1>7, <1>8, <1>10, <1>11, <1>12, <1>13, <1>14, <1>15 DEF WInv

LEMMA ApartStays ==
    ASSUME NEW ws, NEW n, NEW in, NEW in2, NEW out, AllApart(ws, n, in, out), n \in Nat,
           \A q : BatchesOf(in, q) \subseteq BatchesOf(in2, q)
    PROVE  AllApart(ws, n, in2, out)
<1>1. \A q \in Held(ws) : Good(ws[q], n, BatchesOf(in2, q))
  BY GoodGrows DEF AllApart
<1>2. \A f \in out : f.batches \subseteq BatchesOf(in2, f.partition)
  BY DEF AllApart
<1> QED
  BY <1>1, <1>2 DEF AllApart

(* A write the clustered writer refuses before it has a file to write to. *)
LEMMA RefusedStep ==
    ASSUME WInv, result = "open", kind = "clustered", NEW p \in Partitions,
           input' = Append(input, p), acked' = acked,
           UNCHANGED <<kind, current, closed, output, names>>,
           faults' \in Nat, faults' >= faults,
           writers' \in [Keys -> RollingWriter \cup {None}],
           \A q \in Held(writers') : q \in Held(writers) /\ writers'[q] = writers[q],
           result' \in {"open", "panic"}, result' = "panic" => Refused # {},
           faults' = 0 => result' = "panic" \/ p \in closed
    PROVE  WInv'
<1>1. TypeInv /\ FilesApart /\ p \in Keys
  BY DEF WInv, Keys
<1>2. /\ acked' \subseteq DOMAIN input' /\ Refused \subseteq Refused' /\ Batch \in Refused'
      /\ \A b \in DOMAIN input : Overtaken(b) => Overtaken(b)'
  BY <1>1, RefusedGrows
<1>3. TypeInv'
  BY <1>1, <1>2, InputGrows DEF TypeInv
<1>4. FilesApart'
  <2>1. AllApart(writers', names, input, output)
    BY <1>1, TakeOut DEF FilesApart, TypeInv
  <2>2. AllApart(writers', names, input', output)
    BY <1>1, <2>1, InputGrows, ApartStays DEF TypeInv
  <2> QED
    BY <2>2 DEF FilesApart
<1>5. AckedIsKept'
  <2>1. ASSUME NEW b \in acked'
        PROVE  Overtaken(b)'
    BY <1>1, <1>2, InputGrows DEF TypeInv, Overtaken
  <2> QED
    BY <2>1 DEF AckedIsKept
<1>6. ClosedWasLeft'
  BY <1>1, HistoryStays DEF WInv, ClosedWasLeft, TypeInv
<1>7. OneAtATime'
  BY DEF OneAtATime, WInv
<1>8. MissingAfterError'
  BY <1>2 DEF MissingAfterError
<1>9. RefusesOnlyUnsorted'
  <2>1. ASSUME p \in closed
        PROVE  \E i, j, k \in DOMAIN input' :
                  i < j /\ j < k /\ input'[i] = input'[k] /\ input'[j] # input'[i]
    <3>1. PICK i \in DOMAIN input, j \in DOMAIN input : i < j /\ input[i] = p /\ input[j] # p
      BY <2>1 DEF WInv, ClosedWasLeft
    <3> QED
      BY <1>1, <3>1, InputGrows DEF TypeInv
  <2> QED
    BY <2>1 DEF RefusesOnlyUnsorted
<1>10. PanicsOnlyAfterErrors'
  <2>1. ASSUME result' = "panic"
        PROVE  \E e \in Refused' : e < Len(input')
    <3>1. PICK e : e \in Refused
      BY <2>1
    <3>2. e \in Refused' /\ e < Batch /\ Len(input') = Batch
      BY <1>1, <1>2, <3>1, InputGrows DEF TypeInv, Refused, Batch
    <3> QED
      BY <3>2
  <2> QED
    BY <2>1 DEF PanicsOnlyAfterErrors
<1> QED
  BY <1>3, <1>4, <1>5, <1>6, <1>7, <1>8, <1>9, <1>10 DEF WInv

(* The files of the writers of S, once these are closed. *)
HandedOver(ws, S) == UNION {DataFiles(Finished(ws[q]), q) : q \in S}

LEMMA HandedOverIs ==
    ASSUME NEW ws \in [Keys -> RollingWriter \cup {None}], NEW S \in SUBSET Held(ws)
    PROVE  /\ HandedOver(ws, S) \subseteq OutputFile
           /\ \A q \in S : Kept(ws[q]) \subseteq UNION {f.batches : f \in HandedOver(ws, S)}
<1>1. ASSUME NEW q \in S
      PROVE  ws[q] \in RollingWriter /\ q \in Keys /\ Finished(ws[q]).files \subseteq DataFile
  <2>1. ws[q] \in RollingWriter /\ q \in Keys
    BY DEF Held
  <2>2. Finished(ws[q]) \in RollingWriter
    BY <2>1, PiecesOf
  <2> QED
    BY <2>1, <2>2 DEF RollingWriter
<1>2. ASSUME NEW f \in HandedOver(ws, S)
      PROVE  f \in OutputFile
  <2>1. PICK q \in S : f \in DataFiles(Finished(ws[q]), q)
    BY DEF HandedOver
  <2>2. PICK g \in DataFile : f = [name |-> g.name, batches |-> g.batches, partition |-> q]
    BY <1>1, <2>1 DEF DataFiles
  <2> QED
    BY <1>1, <2>2 DEF OutputFile, DataFile
<1>3. ASSUME NEW q \in S, NEW b \in Kept(ws[q])
      PROVE  \E f \in HandedOver(ws, S) : b \in f.batches
  <2>1. PICK g \in Finished(ws[q]).files : b \in g.batches
    BY DEF Kept
  <2>2. PICK f : f = [name |-> g.name, batches |-> g.batches, partition |-> q]
    OBVIOUS
  <2>3. f \in DataFiles(Finished(ws[q]), q) /\ b \in f.batches
    BY <2>1, <2>2 DEF DataFiles
  <2> QED
    BY <2>3 DEF HandedOver
<1> QED
  BY <1>2, <1>3

(* The clustered writer turns to p: whatever it held is handed over. *)
LEMMA SwitchStep ==
    ASSUME WInv, result = "open", kind = "clustered", NEW p \in Partitions, p # current,
           input' = Append(input, p), UNCHANGED <<kind, result>>,
           output' = output \cup HandedOver(writers, Held(writers)),
           closed' = closed \cup Held(writers), current' = p,
           NEW ws \in [Keys -> RollingWriter \cup {None}], Held(ws) = {p}, ws[p] = NewWriter,
           WriteInto(ws, p)
    PROVE  WInv'
<1>1. TypeInv /\ FilesApart /\ p \in Keys /\ p # None
  BY WriterAssumption DEF WInv, Keys
<1>2. PICK S : S = Held(writers)
  OBVIOUS
<1>3. \A q \in S : q = current /\ q # None /\ q \in Partitions
  BY <1>2 DEF WInv, OneAtATime, Held, Keys
<1>4. AllApart(ws, names, input, output')
  <2>1. \A q \in Held(ws) : (q \in Held(writers) \ S /\ ws[q] = writers[q]) \/ ws[q] = NewWriter
    OBVIOUS
  <2>2. AllApart(ws, names, input, output \cup HandedOver(writers, S))
    BY <1>1, <1>2, <2>1, HandOver DEF FilesApart, TypeInv, HandedOver
  <2> QED
    BY <1>2, <2>2
<1>5. Written(ws, p) /\ AllApart(writers', names', input', output')
  BY <1>1, <1>4, WriteIntoIs, NewWriterIsGood DEF TypeInv
<1>6. acked' \in {acked, acked \cup {Batch}} /\ faults' >= faults /\ faults \in Nat
  BY <1>1, <1>5 DEF Written, TypeInv
<1>7. /\ acked' \subseteq DOMAIN input' /\ Refused \subseteq Refused'
      /\ acked' = acked => Batch \in Refused'
      /\ acked' = acked \cup {Batch} => Refused' \subseteq Refused
      /\ \A b \in DOMAIN input : Overtaken(b) => Overtaken(b)'
  BY <1>1, <1>6, RefusedGrows
<1>8. TypeInv'
  <2>1. output' \subseteq OutputFile
    BY <1>1, HandedOverIs DEF TypeInv
  <2>2. closed' \subseteq Partitions
    BY <1>1, <1>2, <1>3 DEF TypeInv
  <2> QED
    BY <1>1, <1>5, <1>7, <2>1, <2>2, InputGrows DEF TypeInv, Written
<1>9. FilesApart'
  BY <1>5 DEF FilesApart
<1>10. AckedIsKept'
  <2>1. ASSUME NEW b \in acked, HeldFor(writers, b)
        PROVE  b \in Delivered'
    <3>1. b \in UNION {f.batches : f \in HandedOver(writers, Held(writers))}
      BY <1>1, <2>1, HandedOverIs DEF HeldFor, TypeInv
    <3> QED
      BY <3>1 DEF Delivered
  <2>2. ASSUME NEW b, b = Batch, acked' # acked
        PROVE  HeldFor(writers, b)'
    <3>1. b \in Kept(writers'[p]) /\ input'[b] = p /\ p \in Held(writers')
      BY <1>1, <1>5, <2>2, InputGrows DEF TypeInv, Written
    <3> QED
      BY <3>1 DEF HeldFor
  <2>3. ASSUME NEW b \in acked'
        PROVE  \/ b \in Delivered' \/ Overtaken(b)'
               \/ result' = "open" /\ HeldFor(writers, b)'
    <3>1. CASE b \in acked
      <4>1. b \in Delivered \/ Overtaken(b) \/ HeldFor(writers, b)
        BY <3>1 DEF AckedIsKept, WInv
      <4>2. Delivered \subseteq Delivered'
        BY DEF Delivered
      <4> QED
        BY <1>1, <1>7, <2>1, <3>1, <4>1, <4>2 DEF TypeInv
    <3>2. CASE b \notin acked
      BY <1>6, <2>2, <2>3, <3>2
    <3> QED
      BY <3>1, <3>2
  <2> QED
    BY <2>3 DEF AckedIsKept
<1>11. ClosedWasLeft'
  <2>1. input'[Batch] = p /\ Batch \in DOMAIN input'
    BY <1>1, InputGrows DEF TypeInv
  <2>2. ASSUME NEW q \in S
        PROVE  \E i, j \in DOMAIN input' : i < j /\ input'[i] = q /\ input'[j] # q
    <3>1. PICK i \in DOMAIN input : input[i] = q
      BY <1>3 DEF WInv, ClosedWasLeft
    <3>2. i \in DOMAIN input' /\ input'[i] = q /\ i < Batch
      BY <1>1, <3>1, InputGrows DEF TypeInv
    <3> QED
      BY <1>3, <2>1, <3>2
  <2>3. \A q \in closed :
           \E i, j \in DOMAIN input' : i < j /\ input'[i] = q /\ input'[j] # q
    BY <1>1, <1>6, HistoryStays DEF WInv
  <2> QED
    BY <1>2, <2>1, <2>2, <2>3 DEF ClosedWasLeft
<1>12. OneAtATime'
  BY <1>1, <1>5 DEF OneAtATime, Written
<1>13. MissingAfterError'
  BY <1>5 DEF MissingAfterError, Written
<1>14. RefusesOnlyUnsorted'
  <2>1. CASE acked' = acked \cup {Batch} /\ faults' = faults
    BY <1>1, <1>6, <1>7, <2>1, HistoryStays DEF WInv, RefusesOnlyUnsorted
  <2>2. CASE faults' > faults
    BY <1>6, <2>2 DEF RefusesOnlyUnsorted
  <2> QED
    BY <1>5, <2>1, <2>2 DEF Written
<1>15. PanicsOnlyAfterErrors'
  BY DEF PanicsOnlyAfterErrors
<1> QED
  BY <1>8, <1>9, <1>10, <1>11, <1>12, <1>13, <1>14, <1>15 DEF WInv

LEMMA FanoutPreserves ==
    ASSUME WInv, NEW p \in Partitions, FanoutWrite(p)
    PROVE  WInv'
BY WriteStep DEF FanoutWrite, CanWrite, Keys

LEMMA UnpartitionedPreserves ==
    ASSUME WInv, UnpartitionedWrite
    PROVE  WInv'
BY WriteStep DEF UnpartitionedWrite, CanWrite, Keys

LEMMA NotSortedPreserves ==
    ASSUME WInv, NEW p \in Partitions, NotSorted(p)
    PROVE  WInv'
BY RefusedStep DEF NotSorted, CanWrite, Acknowledge, WInv, TypeInv

LEMMA WriteCurrentPreserves ==
    ASSUME WInv, NEW p \in Partitions, WriteCurrent(p)
    PROVE  WInv'
<1>1. /\ kind = "clustered" /\ result = "open" /\ p = current /\ p # None
      /\ input' = Append(input, p) /\ UNCHANGED <<kind, current, closed, output>>
      /\ p \in Keys
  BY WriterAssumption DEF WriteCurrent, CanWrite, NeedNewWriter, Keys
<1>2. CASE writers[p] = None
  <2>1. result' = "panic" /\ UNCHANGED <<writers, names, faults, acked>>
    BY <1>2 DEF WriteCurrent
  <2>2. Refused # {}
    BY <1>1, <1>2 DEF WInv, MissingAfterError, Held
  <2> QED
    BY <1>1, <2>1, <2>2, RefusedStep DEF WInv, TypeInv
<1>3. CASE writers[p] # None
  <2>1. WriteInto(writers, p) /\ UNCHANGED result
    BY <1>3 DEF WriteCurrent
  <2>2. WriterFor(p) = writers
    BY <1>3 DEF WriterFor
  <2> QED
    BY <1>1, <2>1, <2>2, WriteStep
<1> QED
  BY <1>2, <1>3

LEMMA SwitchWriterPreserves ==
    ASSUME WInv, NEW p \in Partitions, SwitchWriter(p)
    PROVE  WInv'
<1> DEFINE previous == IF current = None THEN None ELSE writers[current]
           taken == IF current = None THEN writers ELSE [writers EXCEPT ![current] = None]
           ws == [taken EXCEPT ![p] = NewWriter]
<1>1. /\ kind = "clustered" /\ result = "open" /\ p # current /\ p # None /\ p \in Keys
      /\ input' = Append(input, p) /\ UNCHANGED <<kind, result>>
  BY WriterAssumption DEF SwitchWriter, CanWrite, NeedNewWriter, Keys
<1>2. /\ TypeInv /\ FilesApart /\ current \in Keys
      /\ \A q \in Held(writers) : q = current /\ q # None
  BY <1>1 DEF WInv, TypeInv, OneAtATime
<1>3. /\ taken \in [Keys -> RollingWriter \cup {None}]
      /\ Held(taken) = {}
  BY <1>2 DEF TypeInv, Held
<1> HIDE DEF taken
<1>4. /\ ws \in [Keys -> RollingWriter \cup {None}] /\ ws[p] = NewWriter
      /\ Held(ws) = {p}
  <2>1. NewWriter \in RollingWriter /\ NewWriter # None
    BY NewWriterIsGood, <1>2 DEF TypeInv, Good
  <2> QED
    BY <1>1, <1>3, <2>1 DEF Held
<1> HIDE DEF ws
<1>5. CASE previous = None
  <2>1. /\ WriteInto(ws, p) /\ current' = p /\ UNCHANGED <<closed, output>>
    BY <1>5 DEF SwitchWriter, taken, ws
  <2>2. Held(writers) = {}
    BY <1>2, <1>5 DEF Held
  <2>3. HandedOver(writers, Held(writers)) = {}
    BY <2>2 DEF HandedOver
  <2> QED
    BY <1>1, <1>4, <2>1, <2>2, <2>3, SwitchStep
<1>6. ASSUME previous # None
      PROVE  /\ current # None /\ Held(writers) = {current} /\ previous = writers[current]
             /\ Good(previous, names, BatchesOf(input, current))
  BY <1>2, <1>6 DEF Held, FilesApart, AllApart
<1>7. ASSUME previous # None, NEW c \in RollingClose(previous)
      PROVE  /\ c.ok \in BOOLEAN /\ c.faults \in Nat
             /\ c.ok => c.writer = Finished(previous)
             /\ ~c.ok => c.faults = faults + 1
  BY <1>2, <1>6, <1>7, RollingCloseIs DEF TypeInv
<1>8. ASSUME previous # None, NEW c \in RollingClose(previous), c.ok,
             output' = output \cup DataFiles(c.writer, current),
             closed' = closed \cup ClosedBy(p), current' = p, WriteInto(ws, p)
      PROVE  WInv'
  <2>1. HandedOver(writers, Held(writers)) = DataFiles(c.writer, current)
    BY <1>6, <1>7, <1>8 DEF HandedOver
  <2>2. closed' = closed \cup Held(writers)
    BY <1>6, <1>8 DEF ClosedBy
  <2> QED
    BY <1>1, <1>4, <1>8, <2>1, <2>2, SwitchStep
<1>9. ASSUME previous # None, NEW c \in RollingClose(previous), ~c.ok,
             writers' = taken, faults' = c.faults, Acknowledge(FALSE),
             UNCHANGED <<current, closed, output, names>>
      PROVE  WInv'
  <2>1. faults' = faults + 1 /\ faults \in Nat
    BY <1>2, <1>7, <1>9 DEF TypeInv
  <2> QED
    BY <1>1, <1>3, <1>9, <2>1, RefusedStep DEF Acknowledge
<1>10. CASE previous # None
  <2>1. \E c \in RollingClose(previous) :
           IF c.ok
           THEN /\ output' = output \cup DataFiles(c.writer, current)
                /\ closed' = closed \cup ClosedBy(p)
                /\ current' = p
                /\ WriteInto(ws, p)
           ELSE /\ writers' = taken
                /\ faults' = c.faults
                /\ Acknowledge(FALSE)
                /\ UNCHANGED <<current, closed, output, names>>
    BY <1>10 DEF SwitchWriter, Allowed, taken, ws
  <2> QED
    BY <1>8, <1>9, <1>10, <2>1
<1> QED
  BY <1>5, <1>10

LEMMA ClosePreserves ==
    ASSUME WInv, Close
    PROVE  WInv'
<1>1. /\ result = "open" /\ writers' = [p \in Keys |-> None]
      /\ UNCHANGED <<kind, current, closed, names, input, acked>>
      /\ \/ /\ output' = output \cup HandedOver(writers, Held(writers))
            /\ result' = "ok" /\ faults' = faults
         \/ faults' = faults + 1 /\ result' = "error" /\ output' = output
  BY DEF Close, HandedOver, Held
<1>2. TypeInv /\ FilesApart
  BY DEF WInv
<1>3. Held(writers') = {}
  BY <1>1 DEF Held
<1>4. TypeInv'
  BY <1>1, <1>2, HandedOverIs DEF TypeInv
<1>5. FilesApart'
  <2>1. CASE output' = output \cup HandedOver(writers, Held(writers))
    <3>1. PICK S : S = Held(writers)
      OBVIOUS
    <3>2. AllApart(writers', names, input, output \cup HandedOver(writers, S))
      BY <1>2, <1>3, <3>1, HandOver DEF FilesApart, TypeInv, HandedOver
    <3> QED
      BY <1>1, <2>1, <3>1, <3>2 DEF FilesApart
  <2>2. CASE output' = output
    <3>1. AllApart(writers', names, input, output)
      BY <1>2, <1>3, TakeOut DEF FilesApart, TypeInv
    <3> QED
      BY <1>1, <2>2, <3>1 DEF FilesApart
  <2> QED
    BY <1>1, <2>1, <2>2
<1>6. AckedIsKept'
  <2>1. CASE result' = "error"
    BY <2>1 DEF AckedIsKept
  <2>2. CASE output' = output \cup HandedOver(writers, Held(writers))
    <3>1. ASSUME NEW b \in acked
          PROVE  b \in Delivered \/ Overtaken(b) \/ HeldFor(writers, b)
      BY <1>1 DEF WInv, AckedIsKept
    <3>2. ASSUME NEW b, HeldFor(writers, b)
          PROVE  b \in UNION {f.batches : f \in HandedOver(writers, Held(writers))}
      BY <1>2, <3>2, HandedOverIs DEF HeldFor, TypeInv
    <3>3. ASSUME NEW b \in acked
          PROVE  b \in Delivered' \/ Overtaken(b)'
      BY <1>1, <2>2, <3>1, <3>2 DEF Delivered, Overtaken, Refused
    <3> QED
      BY <1>1, <3>3 DEF AckedIsKept
  <2> QED
    BY <1>1, <2>1, <2>2
<1>7. ClosedWasLeft'
  BY <1>1 DEF WInv, ClosedWasLeft
<1>8. OneAtATime' /\ MissingAfterError' /\ PanicsOnlyAfterErrors'
  BY <1>1, <1>3 DEF OneAtATime, MissingAfterError, PanicsOnlyAfterErrors
<1>9. RefusesOnlyUnsorted'
  BY <1>1, <1>2 DEF WInv, RefusesOnlyUnsorted, Refused, TypeInv
<1> QED
  BY <1>4, <1>5, <1>6, <1>7, <1>8, <1>9 DEF WInv

LEMMA WInvNext == WInv /\ [Next]_vars => WInv'
<1> SUFFICES ASSUME WInv, [Next]_vars PROVE WInv'
  OBVIOUS
<1>1. CASE Next
  BY <1>1, FanoutPreserves, UnpartitionedPreserves, NotSortedPreserves, WriteCurrentPreserves,
     SwitchWriterPreserves, ClosePreserves DEF Next
<1>2. CASE UNCHANGED vars
  BY <1>2 DEF vars, WInv, TypeInv, FilesApart, AckedIsKept, ClosedWasLeft, OneAtATime,
     MissingAfterError, RefusesOnlyUnsorted, PanicsOnlyAfterErrors, Delivered, Overtaken,
     Refused, HeldFor
<1> QED
  BY <1>1, <1>2

(* The invariant of every run of a writer: no two files share a name or a    *)
(* row, and a row that was accepted is handed over, held or known to be lost. *)
THEOREM WInvHolds == Spec => []WInv
BY WInvInit, WInvNext, PTL DEF Spec

(* Whatever fails and however the caller goes on, the files handed over have  *)
(* names of their own, no row is in two of them, and each row is in a file of *)
(* its partition: names only go up, and a batch goes into one open file.      *)
THEOREM RowsAreWrittenOnce == Spec => []RowsOnceInTheirPartition
<1>1. WInv => RowsOnceInTheirPartition
  BY DEF WInv, FilesApart, AllApart, Apart, BatchesOf, RowsOnceInTheirPartition
<1> QED
  BY <1>1, WInvHolds, PTL

(* After a close that succeeded, a row whose write succeeded is in a file     *)
(* unless a later write was refused that could have told its caller so.       *)
THEOREM LossesAreReported == Spec => []LossIsReported
<1>1. WInv => LossIsReported
  BY DEF WInv, AckedIsKept, Delivered, Overtaken, LossIsReported
<1> QED
  BY <1>1, WInvHolds, PTL

(* Where nothing fails only a partition that comes back is refused, and only  *)
(* by the clustered writer.                                                   *)
THEOREM OnlyUnsortedIsRefused == Spec => []RefusesOnlyUnsorted
<1>1. WInv => RefusesOnlyUnsorted
  BY DEF WInv
<1> QED
  BY <1>1, WInvHolds, PTL

(* The clustered writer is without a writer for its current partition, and    *)
(* panics, only once a write has been refused.                                *)
THEOREM PanicsFollowErrors == Spec => []PanicsOnlyAfterErrors
<1>1. WInv => PanicsOnlyAfterErrors
  BY DEF WInv
<1> QED
  BY <1>1, WInvHolds, PTL
=============================================================================
