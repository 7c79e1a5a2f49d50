----------------------------- MODULE ReadProofs -----------------------------
(***************************************************************************)
(* Theorems about the read of a file: the pass over its position deletes,   *)
(* for any layout of row groups, any choice among them and any set of       *)
(* deleted positions; the rows that are returned, for any verdicts that     *)
(* reject nothing wanted; and such verdicts, for one leaf of a filter: the  *)
(* evaluators of statistics and the projections to partitions, for all true *)
(* statistics, all transforms and all values.  How verdicts on leaves add   *)
(* up to one on a filter is defined by recursion and is left to TLC.        *)
(*                                                                          *)
(* Position deletes.  The iterator only moves on, so what it has left lies  *)
(* in its bitmap or a later one; the file lies in the first.  Skipping to   *)
(* the end of a row group then drops exactly the deletes before it, and the *)
(* cached position is among those still to come or is replaced by one that  *)
(* is.  So at each row group the deletes ahead are those of the file that   *)
(* are not before it, and the rows selected are those not deleted.          *)
(*                                                                          *)
(* The read.  A row group with a wanted row is selected, and nothing of      *)
(* another split.  The selections of pages and of deletes both count the    *)
(* rows of the selected row groups in their order, from the same offsets.   *)
(*                                                                          *)
(* Statistics.  The order of values is decided where two of them part, from *)
(* which it is strict, total and transitive, and respects beginnings.  What *)
(* is true of bounds then decides each operator; what is true of counts     *)
(* decides the tests for NULL and NaN.                                      *)
(*                                                                          *)
(* Transforms.  Every transform but bucket, void and identity rounds by a   *)
(* monotone function, so a literal moved to the next value inside the range *)
(* has its partition on the right side of those of the rows.                *)
(***************************************************************************)
EXTENDS FileRead, Metrics, Transforms,
        SequenceTheorems, FiniteSetTheorems, WellFoundedInduction, TLAPS

LOCAL INSTANCE FiniteSetsExt

-----------------------------------------------------------------------------
(***************************************************************************)
(* Position deletes                                                         *)
(***************************************************************************)
(* The cached position is the first of those still to come. *)
CachedIsFirst ==
    IF deletes.next = None THEN deletes.iter.rest = {}
    ELSE /\ deletes.next \in Nat
         /\ \A x \in deletes.iter.rest : deletes.next < x

(* An iterator is in the bitmap of what it has last returned. *)
IterInv(it) ==
    /\ it = [rest |-> it.rest, bitmap |-> it.bitmap]
    /\ it.rest \in SUBSET Nat
    /\ it.bitmap \in Nat
    /\ \A x \in it.rest : BitmapOf(x) >= it.bitmap

(* No delete of the file is forgotten and none comes back: ahead are those that *)
(* are not before the row group.  Beyond the file some may have been passed.    *)
NothingForgotten ==
    /\ \A x \in Ahead : x >= deletes.base
    /\ Ahead \subseteq sc.posDeleted
    /\ \A x \in sc.posDeleted : deletes.base <= x /\ x < BitmapRows => x \in Ahead

(* The selection so far says of each row of the selected row groups before n    *)
(* whether it is deleted.  offset[g] is where those of row group g begin.       *)
Offsets(offset, n) ==
    /\ offset[1] = 0
    /\ \A g \in 1..(n - 1) : offset[g + 1] = offset[g] + SelectedRows(g)
RowsRight(first, g) ==
    \A i \in 1..sc.groups[g] :
        deletes.rows[first + i] <=> GroupBase(g) + i - 1 \notin sc.posDeleted
Right(offset, n) == \A g \in 1..(n - 1) : IsSelected(g) => RowsRight(offset[g], g)
ExactUpTo(n) ==
    \E offset \in [1..n -> Nat] :
        /\ Offsets(offset, n)
        /\ Len(deletes.rows) = offset[n]
        /\ \A g \in 1..n : offset[g] <= offset[n]
        /\ Right(offset, n)

AllGroups == Len(sc.groups) + 1

(* What the pass starts from, and what it keeps until decoding.                 *)
TypeInv ==
    /\ sc \in Scenarios
    /\ selected \in {None} \cup SUBSET (1..Len(sc.groups))

BeforeInv ==
    phase \notin {"deleteRows", "decode", "done"} =>
        deletes = [iter |-> IterOf(sc.posDeleted), next |-> None, base |-> 0, rows |-> << >>]

Fields == deletes = [iter |-> deletes.iter, next |-> deletes.next,
                    base |-> deletes.base, rows |-> deletes.rows]
PassInv ==
    phase = "deleteRows" =>
        /\ Fields
        /\ at[1] \in 1..AllGroups
        /\ deletes.base = GroupBase(at[1])
        /\ CachedIsFirst
        /\ IterInv(deletes.iter)
        /\ NothingForgotten
        /\ deletes.rows \in Seq(BOOLEAN)
        /\ ExactUpTo(at[1])

(* At the end of the pass the selection is right for every row that is read.   *)
SelectionIsExact ==
    phase = "decode" /\ sc.posDeleted # {} => ExactUpTo(AllGroups)

DInv == TypeInv /\ (phase = "deletes" => at = <<1, 1>>) /\ BeforeInv /\ PassInv /\ SelectionIsExact

-----------------------------------------------------------------------------
(* A set of positions has a first one, be it finite or not. *)
LEMMA LeastOf ==
    ASSUME NEW T \in SUBSET Nat, T # {}
    PROVE  \E n \in T : \A m \in T : n <= m
<1> DEFINE R == {p \in Nat \X Nat : p[1] < p[2]}
<1>1. IsWellFoundedOn(R, Nat)
  BY NatLessThanWellFounded DEF OpToRel
<1>2. \E x \in T : \A y \in T : <<y, x>> \notin R
  <2> HIDE DEF R
  <2> QED
    BY <1>1, WFMin
<1>3. PICK x \in T : \A y \in T : <<y, x>> \notin R
  BY <1>2
<1>4. ASSUME NEW y \in T
      PROVE  x <= y
  <2>1. x \in Nat /\ y \in Nat /\ <<y, x>> \notin R
    BY <1>3
  <2>2. ~(y < x)
    BY <2>1
  <2> QED
    BY <2>1, <2>2
<1> QED
  BY <1>4

(* Bitmaps are in the order of the positions, the file in the first. *)
LEMMA Bitmaps ==
    ASSUME NEW x \in Nat
    PROVE  /\ BitmapOf(x) \in Nat
           /\ x < BitmapRows => BitmapOf(x) = 0 /\ x % BitmapRows = x
           /\ x >= BitmapRows => BitmapOf(x) > 0
           /\ \A y \in Nat : x <= y => BitmapOf(x) <= BitmapOf(y)
  BY DeleteVectorAssumption DEF BitmapOf

LEMMA FirstOf ==
    ASSUME NEW it, it.rest \in SUBSET Nat, it.rest # {}
    PROVE  /\ NextOf(it) \in it.rest
           /\ \A x \in it.rest : NextOf(it) <= x
           /\ AfterNext(it) = [rest |-> it.rest \ {NextOf(it)}, bitmap |-> BitmapOf(NextOf(it))]
<1>1. PICK n \in it.rest : \A x \in it.rest : n <= x
  BY LeastOf
<1>2. \A x \in it.rest : (\A y \in it.rest : x <= y) => x = n
  BY <1>1
<1>3. Min(it.rest) = n
  BY <1>1, <1>2 DEF Min
<1> QED
  BY <1>1, <1>3 DEF NextOf, AfterNext

(* Taking the next position: it is the first, and what is left comes after it. *)
LEMMA Taken ==
    ASSUME NEW it, it = [rest |-> it.rest, bitmap |-> it.bitmap],
           it.rest \in SUBSET Nat, it.bitmap \in Nat \/ it.rest # {}
    PROVE  /\ IterInv(AfterNext(it))
           /\ NextOf(it) = None => it.rest = {} /\ AfterNext(it).rest = {}
           /\ NextOf(it) # None =>
                 /\ NextOf(it) \in it.rest
                 /\ AfterNext(it).rest = it.rest \ {NextOf(it)}
                 /\ \A x \in AfterNext(it).rest : NextOf(it) < x
<1>1. CASE it.rest = {}
  <2>1. NextOf(it) = None /\ AfterNext(it) = it
    BY <1>1 DEF NextOf, AfterNext
  <2>2. IterInv(it)
    BY <1>1 DEF IterInv
  <2> QED
    BY <1>1, <2>1, <2>2
<1>2. CASE it.rest # {}
  <2> DEFINE n == NextOf(it)
  <2>1. n \in it.rest /\ \A x \in it.rest : n <= x
    BY <1>2, FirstOf
  <2>2. AfterNext(it) = [rest |-> it.rest \ {n}, bitmap |-> BitmapOf(n)]
    BY <1>2, FirstOf
  <2>3. n \in Nat /\ n # None
    BY <2>1, DeleteVectorAssumption
  <2>4. \A x \in it.rest \ {n} : n < x /\ BitmapOf(x) >= BitmapOf(n)
    BY <2>1, <2>3, Bitmaps
  <2>5. BitmapOf(n) \in Nat
    BY <2>3, Bitmaps
  <2> HIDE DEF n
  <2>6. IterInv(AfterNext(it))
    BY <2>2, <2>4, <2>5 DEF IterInv
  <2> QED
    BY <2>1, <2>2, <2>3, <2>4, <2>6 DEF n
<1> QED
  BY <1>1, <1>2

(* Advancing to a position of the file drops what is before it, of the file    *)
(* nothing else.                                                               *)
LEMMA Advanced ==
    ASSUME NEW it, IterInv(it), NEW pos \in Nat, pos < BitmapRows
    PROVE  LET next == AdvanceTo(it, pos)
           IN  /\ IterInv(next)
               /\ next.rest \subseteq {x \in it.rest : pos <= x}
               /\ \A x \in it.rest : pos <= x /\ x < BitmapRows => x \in next.rest
<1> DEFINE left == {x \in it.rest : \/ BitmapOf(x) > it.bitmap
                                    \/ BitmapOf(x) = it.bitmap
                                       /\ x % BitmapRows >= pos % BitmapRows}
<1>1. it.bitmap \in Nat /\ it.bitmap # None /\ it.rest \in SUBSET Nat
  BY DeleteVectorAssumption DEF IterInv
<1>2. BitmapOf(pos) = 0 /\ pos % BitmapRows = pos
  BY Bitmaps
<1>3. AdvanceTo(it, pos) = [bitmap |-> it.bitmap, rest |-> left]
  <2>1. it.bitmap >= BitmapOf(pos) /\ ~(it.bitmap < BitmapOf(pos))
    BY <1>1, <1>2
  <2> QED
    BY <1>1, <2>1 DEF AdvanceTo
<1>4. ASSUME NEW x \in left
      PROVE  pos <= x
  <2>1. x \in it.rest /\ x \in Nat /\ BitmapOf(x) \in Nat
    BY <1>1, Bitmaps
  <2>2. CASE x < BitmapRows
    BY <1>1, <1>2, <2>1, <2>2, Bitmaps
  <2>3. CASE x >= BitmapRows
    BY <2>1, <2>3, DeleteVectorAssumption
  <2> QED
    BY <2>1, <2>2, <2>3, DeleteVectorAssumption
<1>5. ASSUME NEW x \in it.rest, pos <= x, x < BitmapRows
      PROVE  x \in left
  <2>1. x \in Nat /\ BitmapOf(x) = 0 /\ x % BitmapRows = x
    BY <1>1, <1>5, Bitmaps
  <2>2. it.bitmap = 0
    BY <1>1, <2>1 DEF IterInv
  <2> QED
    BY <1>2, <1>5, <2>1, <2>2
<1>6. IterInv([bitmap |-> it.bitmap, rest |-> left]) /\ left \subseteq it.rest
  BY DEF IterInv
<1> HIDE DEF left
<1> QED
  BY <1>3, <1>4, <1>5, <1>6

-----------------------------------------------------------------------------
LEMMA Elements ==
    ASSUME NEW S, NEW s \in Seq(S)
    PROVE  Len(s) \in Nat /\ \A i \in 1..Len(s) : s[i] \in S
  OBVIOUS

LEMMA Appended ==
    ASSUME NEW S, NEW s \in Seq(S), NEW t \in Seq(S)
    PROVE  /\ s \o t \in Seq(S)
           /\ Len(s \o t) = Len(s) + Len(t)
           /\ \A i \in 1..Len(s) : (s \o t)[i] = s[i]
           /\ \A i \in 1..Len(t) : (s \o t)[Len(s) + i] = t[i]
  OBVIOUS

LEMMA RowGroup ==
    ASSUME TypeInv, NEW g \in 1..Len(sc.groups)
    PROVE  /\ Len(sc.groups) \in Nat /\ g + 1 \in 1..AllGroups
           /\ GroupBase(g) \in Nat /\ sc.groups[g] \in Nat /\ sc.groups[g] > 0
           /\ GroupBase(g + 1) = GroupBase(g) + sc.groups[g]
           /\ GroupBase(g + 1) < BitmapRows
<1>1. IsFile(sc)
  BY ScenarioAssumption DEF TypeInv
<1> DEFINE groups == sc.groups
           starts == sc.starts
<1>2. /\ groups \in Seq(Nat \ {0}) /\ starts \in Seq(Nat)
      /\ Len(starts) = Len(groups) + 1
      /\ starts[g + 1] = starts[g] + groups[g]
      /\ \A h \in 1..Len(starts) : starts[h] < BitmapRows
      /\ g \in 1..Len(groups)
  BY <1>1 DEF IsFile
<1> HIDE DEF groups, starts
<1>3. g \in 1..Len(starts) /\ g + 1 \in 1..Len(starts) /\ Len(groups) \in Nat
  BY <1>2
<1>4. starts[g] \in Nat /\ groups[g] \in Nat \ {0}
  <2>1. \A h \in 1..Len(starts) : starts[h] \in Nat
    BY <1>2, Elements
  <2>2. \A h \in 1..Len(groups) : groups[h] \in Nat \ {0}
    BY <1>2, Elements
  <2> QED
    BY <1>2, <1>3, <2>1, <2>2
<1>5. groups[g] \in Nat /\ groups[g] > 0 /\ starts[g + 1] < BitmapRows
  <2>1. starts[g + 1] < BitmapRows
    BY <1>2, <1>3, Zenon
  <2> QED
    BY <1>4, <2>1
<1>6. Len(groups) \in Nat /\ g + 1 \in 1..(Len(groups) + 1)
  BY <1>2, <1>3
<1> QED
  BY <1>2, <1>4, <1>5, <1>6 DEF AllGroups, GroupBase, groups, starts

(* While row groups are left the pass is at one of the file.                    *)
LEMMA AtRowGroup ==
    ASSUME TypeInv, GroupsLeft, at[1] \in 1..AllGroups
    PROVE  at[1] \in 1..Len(sc.groups)
<1>1. IsFile(sc)
  BY ScenarioAssumption DEF TypeInv
<1>2. SelectedGroups \subseteq 1..Len(sc.groups)
  BY DEF SelectedGroups, TypeInv
<1> QED
  BY <1>1, <1>2 DEF GroupsLeft, AllGroups, IsFile

LEMMA Inside ==
    ASSUME NEW first \in Nat, NEW size \in Nat, NEW n \in Nat, first + size <= n,
           NEW i \in 1..size
    PROVE  first + i \in 1..n
  OBVIOUS

(* The selection of the row groups passed, with that of one more.               *)
LEMMA OneMoreGroup ==
    ASSUME TypeInv, NEW g \in 1..Len(sc.groups), ExactUpTo(g),
           deletes.rows \in Seq(BOOLEAN), UNCHANGED <<sc, selected>>,
           deletes'.rows = IF IsSelected(g)
                           THEN deletes.rows \o [i \in 1..sc.groups[g] |->
                                                    GroupBase(g) + i - 1 \notin sc.posDeleted]
                           ELSE deletes.rows
    PROVE  (deletes.rows \in Seq(BOOLEAN))' /\ ExactUpTo(g + 1)'
<1> DEFINE size == sc.groups[g]
           kept == [i \in 1..size |-> GroupBase(g) + i - 1 \notin sc.posDeleted]
           rows == deletes.rows
<1>1. size \in Nat /\ g \in Nat
  BY RowGroup
<1>2. kept \in Seq(BOOLEAN) /\ Len(kept) = size
  <2>1. kept \in [1..size -> BOOLEAN]
    OBVIOUS
  <2> HIDE DEF kept, size
  <2> QED
    BY <1>1, <2>1
<1>3. /\ Len(rows) \in Nat
      /\ Len(rows \o kept) = Len(rows) + size
      /\ \A i \in 1..Len(rows) : (rows \o kept)[i] = rows[i]
      /\ \A i \in 1..size : (rows \o kept)[Len(rows) + i] = kept[i]
      /\ rows \o kept \in Seq(BOOLEAN)
  <2> HIDE DEF kept, size
  <2>1. rows \in Seq(BOOLEAN) /\ kept \in Seq(BOOLEAN)
    BY <1>2
  <2> HIDE DEF rows
  <2>2. Len(rows) \in Nat
    BY <2>1, Elements
  <2>3. /\ rows \o kept \in Seq(BOOLEAN)
        /\ Len(rows \o kept) = Len(rows) + Len(kept)
        /\ \A i \in 1..Len(rows) : (rows \o kept)[i] = rows[i]
        /\ \A i \in 1..Len(kept) : (rows \o kept)[Len(rows) + i] = kept[i]
    BY <2>1, Appended
  <2> QED
    BY <1>2, <2>2, <2>3, Zenon
<1>4. PICK offset \in [1..g -> Nat] :
         /\ Offsets(offset, g)
         /\ Len(rows) = offset[g]
         /\ \A h \in 1..g : offset[h] <= offset[g]
         /\ Right(offset, g)
  BY DEF ExactUpTo
<1>5. SelectedRows(g) \in Nat
  BY <1>1 DEF SelectedRows
<1>6. PICK more \in [1..(g + 1) -> Nat] :
         /\ \A h \in 1..g : more[h] = offset[h]
         /\ more[g + 1] = offset[g] + SelectedRows(g)
  <2> DEFINE m == [h \in 1..(g + 1) |-> IF h = g + 1 THEN offset[g] + SelectedRows(g)
                                       ELSE offset[h]]
  <2>1. m \in [1..(g + 1) -> Nat]
    BY <1>1, <1>5
  <2>2. (\A h \in 1..g : m[h] = offset[h]) /\ m[g + 1] = offset[g] + SelectedRows(g)
    BY <1>1
  <2> QED
    BY <2>1, <2>2
<1>7. Offsets(more, g + 1)
  BY <1>1, <1>4, <1>6 DEF Offsets
<1>8. \A h \in 1..(g + 1) : more[h] <= more[g + 1]
  BY <1>1, <1>4, <1>5, <1>6
<1>9. (deletes.rows \in Seq(BOOLEAN))' /\ Len(deletes'.rows) = more[g + 1]
  <2>1. CASE IsSelected(g)
    BY <1>1, <1>3, <1>4, <1>6, <2>1 DEF SelectedRows
  <2>2. CASE ~IsSelected(g)
    BY <1>1, <1>4, <1>6, <2>2 DEF SelectedRows
  <2> QED
    BY <2>1, <2>2
<1>10. ASSUME NEW h \in 1..g, IsSelected(h), NEW i \in 1..sc.groups[h]
       PROVE  deletes'.rows[more[h] + i] <=> GroupBase(h) + i - 1 \notin sc.posDeleted
  <2>1. CASE h = g
    <3>1. deletes'.rows[Len(rows) + i] = kept[i]
      BY <1>3, <1>10, <2>1
    <3>2. more[h] = Len(rows)
      BY <1>1, <1>4, <1>6, <2>1
    <3>3. kept[i] <=> GroupBase(h) + i - 1 \notin sc.posDeleted
      BY <1>10, <2>1
    <3> QED
      BY <3>1, <3>2, <3>3
  <2>2. CASE h # g
    <3>1. h \in 1..(g - 1) /\ more[h] = offset[h]
      BY <1>1, <1>6, <2>2
    <3>2. rows[offset[h] + i] <=> GroupBase(h) + i - 1 \notin sc.posDeleted
      BY <1>4, <1>10, <3>1 DEF Right, RowsRight
    <3>3. offset[h] + i \in 1..Len(rows)
      <4>1. offset[h + 1] = offset[h] + sc.groups[h] /\ h + 1 \in 1..g
        BY <1>1, <1>4, <1>10, <3>1, SMTT(30) DEF Offsets, SelectedRows
      <4>2. offset[h] \in Nat /\ offset[h + 1] \in Nat /\ offset[h + 1] <= Len(rows)
        <5>1. h \in 1..g
          BY <3>1
        <5> QED
          BY <1>4, <4>1, <5>1
      <4>3. sc.groups[h] \in Nat
        <5>1. h \in 1..Len(sc.groups)
          BY <3>1, RowGroup
        <5> QED
          BY <5>1, RowGroup
      <4>4. Len(rows) \in Nat
        BY <1>3
      <4> QED
        BY <4>1, <4>2, <4>3, <4>4, Inside
    <3>4. deletes'.rows[offset[h] + i] = rows[offset[h] + i]
      BY <1>3, <3>3
    <3> QED
      BY <3>1, <3>2, <3>4
  <2> QED
    BY <2>1, <2>2
<1>11. \A h : IsSelected(h)' = IsSelected(h) /\ GroupBase(h)' = GroupBase(h)
  BY DEF IsSelected, SelectedGroups, GroupBase
<1>12. Offsets(more, g + 1)'
  BY <1>7, <1>11 DEF Offsets, SelectedRows
<1>13. Right(more, g + 1)'
  <2>1. g + 1 - 1 = g
    BY <1>1
  <2>2. \A h \in 1..g : IsSelected(h) => RowsRight(more[h], h)'
    BY <1>10, <1>11 DEF RowsRight
  <2> QED
    BY <1>11, <2>1, <2>2 DEF Right
<1>14. ExactUpTo(g + 1)'
  BY <1>6, <1>8, <1>9, <1>12, <1>13 DEF ExactUpTo
<1> QED
  BY <1>9, <1>14

(* Row groups that are not selected add nothing. *)
LEMMA NoMoreGroups ==
    ASSUME TypeInv, NEW n \in 1..AllGroups, ExactUpTo(n),
           \A g \in n..Len(sc.groups) : ~IsSelected(g)
    PROVE  ExactUpTo(AllGroups)
<1>1. AllGroups \in Nat /\ Len(sc.groups) \in Nat /\ AllGroups = Len(sc.groups) + 1
  BY ScenarioAssumption DEF TypeInv, AllGroups, IsFile
<1>2. PICK offset \in [1..n -> Nat] :
         /\ Offsets(offset, n)
         /\ Len(deletes.rows) = offset[n]
         /\ \A g \in 1..n : offset[g] <= offset[n]
         /\ Right(offset, n)
  BY DEF ExactUpTo
<1>3. PICK more \in [1..AllGroups -> Nat] :
         /\ \A g \in 1..n : more[g] = offset[g]
         /\ \A g \in n..AllGroups : more[g] = offset[n]
  <2> DEFINE m == [g \in 1..AllGroups |-> IF g < n THEN offset[g] ELSE offset[n]]
  <2>1. m \in [1..AllGroups -> Nat]
    BY <1>1
  <2>2. (\A g \in 1..n : m[g] = offset[g]) /\ (\A g \in n..AllGroups : m[g] = offset[n])
    BY <1>1
  <2> QED
    BY <2>1, <2>2
<1>4. Offsets(more, AllGroups)
  <2>1. ASSUME NEW g \in 1..(AllGroups - 1)
        PROVE  more[g + 1] = more[g] + SelectedRows(g)
    <3>1. CASE g < n
      BY <1>1, <1>2, <1>3, <3>1 DEF Offsets
    <3>2. CASE g >= n
      <4>1. SelectedRows(g) = 0
        BY <1>1, <3>2 DEF SelectedRows
      <4> QED
        BY <1>1, <1>3, <3>2, <4>1
    <3> QED
      BY <1>1, <3>1, <3>2
  <2>2. more[1] = 0
    BY <1>1, <1>2, <1>3 DEF Offsets
  <2> QED
    BY <2>1, <2>2 DEF Offsets
<1>5. Right(more, AllGroups)
  <2>1. ASSUME NEW g \in 1..(AllGroups - 1), IsSelected(g)
        PROVE  RowsRight(more[g], g)
    <3>1. g \in 1..(n - 1)
      BY <1>1, <2>1
    <3>2. more[g] = offset[g]
      BY <1>1, <1>3, <3>1
    <3> QED
      BY <1>2, <2>1, <3>1, <3>2 DEF Right
  <2> QED
    BY <2>1 DEF Right
<1>6. /\ Len(deletes.rows) = more[AllGroups]
      /\ \A g \in 1..AllGroups : more[g] <= more[AllGroups]
  BY <1>1, <1>2, <1>3
<1> QED
  BY <1>3, <1>4, <1>5, <1>6 DEF ExactUpTo

-----------------------------------------------------------------------------
(* The pass begins with every delete of the file ahead. *)
LEMMA Starts ==
    ASSUME DInv, StartDeletes
    PROVE  PassInv'
<1> DEFINE it == IterOf(sc.posDeleted)
<1>1. /\ deletes = [iter |-> it, next |-> None, base |-> 0, rows |-> << >>]
      /\ sc.posDeleted \in SUBSET Nat /\ sc.posDeleted # {} /\ sc.starts[1] = 0
      /\ Len(sc.groups) \in Nat
  BY ScenarioAssumption DEF DInv, TypeInv, BeforeInv, StartDeletes, IsFile
<1>2. /\ deletes' = [iter |-> AfterNext(it), next |-> NextOf(it), base |-> 0, rows |-> << >>]
      /\ at' = <<1, 1>> /\ sc' = sc
  BY <1>1 DEF StartDeletes, Goto
<1>3. it.rest = sc.posDeleted /\ it = [rest |-> it.rest, bitmap |-> it.bitmap]
  BY DEF IterOf
<1>4. /\ IterInv(AfterNext(it))
      /\ NextOf(it) \in sc.posDeleted /\ NextOf(it) \in Nat /\ NextOf(it) # None
      /\ AfterNext(it).rest = sc.posDeleted \ {NextOf(it)}
      /\ \A x \in AfterNext(it).rest : NextOf(it) < x
  BY <1>1, <1>3, Taken, DeleteVectorAssumption
<1> HIDE DEF it
<1>5. CachedIsFirst'
  BY <1>2, <1>4 DEF CachedIsFirst
<1>6. Ahead' = sc.posDeleted
  BY <1>1, <1>2, <1>4, DeleteVectorAssumption DEF Ahead
<1>7. NothingForgotten'
  BY <1>1, <1>2, <1>6 DEF NothingForgotten
<1>8. IterInv(deletes.iter)'
  BY <1>2, <1>4 DEF IterInv, BitmapOf
<1>9. ExactUpTo(1)'
  <2> DEFINE o == [g \in 1..1 |-> 0]
  <2>1. o \in [1..1 -> Nat] /\ o[1] = 0 /\ \A g \in 1..1 : o[g] <= o[1]
    OBVIOUS
  <2>2. Offsets(o, 1)' /\ Right(o, 1)'
    BY DEF Offsets, Right
  <2>3. Len(deletes'.rows) = o[1]
    BY <1>2
  <2> HIDE DEF o
  <2> QED
    BY <2>1, <2>2, <2>3 DEF ExactUpTo
<1>10. Fields'
  BY <1>2 DEF Fields
<1> QED
  BY <1>1, <1>2, <1>5, <1>7, <1>8, <1>9, <1>10 DEF PassInv, AllGroups, GroupBase

(* What both kinds of row groups need to know of the one the pass is at. *)
LEMMA Here ==
    ASSUME DInv, phase = "deleteRows", GroupsLeft
    PROVE  /\ at[1] \in 1..Len(sc.groups) /\ at[1] + 1 \in 1..AllGroups
           /\ deletes.base = GroupBase(at[1]) /\ GroupBase(at[1]) \in Nat
           /\ sc.groups[at[1]] \in Nat
           /\ GroupEnd = GroupBase(at[1] + 1)
           /\ GroupEnd \in Nat /\ GroupEnd < BitmapRows /\ deletes.base <= GroupEnd
           /\ sc.posDeleted \in SUBSET Nat
           /\ TypeInv /\ PassInv
<1>1. TypeInv /\ PassInv /\ at[1] \in 1..AllGroups /\ deletes.base = GroupBase(at[1])
  BY DEF DInv, PassInv
<1>2. at[1] \in 1..Len(sc.groups)
  BY <1>1, AtRowGroup
<1>3. sc.posDeleted \in SUBSET Nat
  BY <1>1, ScenarioAssumption DEF TypeInv, IsFile
<1> QED
  BY <1>1, <1>2, <1>3, RowGroup DEF GroupEnd

(* A row group that is not read. *)
LEMMA Skips ==
    ASSUME DInv, SkipGroup
    PROVE  PassInv'
<1> DEFINE it == AdvanceTo(deletes.iter, GroupEnd)
           stale == deletes.next # None /\ deletes.next < GroupEnd
<1>g. PICK g : g = at[1]
  OBVIOUS
<1>1. phase = "deleteRows" /\ GroupsLeft /\ ~IsSelected(g)
  BY <1>g DEF SkipGroup
<1>2. /\ Fields /\ CachedIsFirst /\ IterInv(deletes.iter) /\ NothingForgotten
      /\ deletes.rows \in Seq(BOOLEAN) /\ ExactUpTo(g)
  BY <1>1, <1>g, Here DEF PassInv
<1>3. /\ deletes' = [iter |-> IF stale THEN AfterNext(it) ELSE it,
                     next |-> IF stale THEN NextOf(it) ELSE deletes.next,
                     base |-> GroupEnd, rows |-> deletes.rows]
      /\ at' = <<g + 1, 1>> /\ UNCHANGED <<sc, phase, selected>>
  BY <1>2, <1>g DEF SkipGroup, NextGroup, Fields
<1>4. /\ IterInv(it)
      /\ it.rest \subseteq {x \in deletes.iter.rest : GroupEnd <= x}
      /\ \A x \in deletes.iter.rest : GroupEnd <= x /\ x < BitmapRows => x \in it.rest
  BY <1>1, <1>2, Here, Advanced
<1> HIDE DEF it
<1>5. /\ CachedIsFirst' /\ IterInv(deletes.iter)'
      /\ Ahead' \subseteq {x \in Ahead : GroupEnd <= x}
      /\ \A x \in Ahead : GroupEnd <= x /\ x < BitmapRows => x \in Ahead'
  <2>1. CASE stale
    <3>1. /\ IterInv(AfterNext(it))
          /\ NextOf(it) = None => it.rest = {} /\ AfterNext(it).rest = {}
          /\ NextOf(it) # None =>
                /\ NextOf(it) \in it.rest
                /\ AfterNext(it).rest = it.rest \ {NextOf(it)}
                /\ \A x \in AfterNext(it).rest : NextOf(it) < x
      BY <1>4, Taken DEF IterInv
    <3>2. deletes'.iter = AfterNext(it) /\ deletes'.next = NextOf(it)
      BY <1>3, <2>1
    <3>3. CachedIsFirst'
      BY <1>4, <3>1, <3>2 DEF CachedIsFirst, IterInv
    <3>4. Ahead' = it.rest
      BY <1>4, <3>1, <3>2, DeleteVectorAssumption DEF Ahead, IterInv
    <3>5. IterInv(deletes.iter)'
      BY <3>1, <3>2 DEF IterInv, BitmapOf
    <3>6. Ahead = (deletes.iter.rest \cup {deletes.next}) /\ deletes.next < GroupEnd
          /\ deletes.next \in Nat
      BY <1>2, <2>1, DeleteVectorAssumption DEF Ahead, CachedIsFirst, IterInv
    <3>7. ASSUME NEW x \in Ahead, GroupEnd <= x, x < BitmapRows
          PROVE  x \in Ahead'
      <4>1. x # deletes.next
        BY <3>6, <3>7, Here, <1>1
      <4> QED
        BY <1>4, <3>4, <3>6, <3>7, <4>1
    <3> QED
      BY <1>4, <3>3, <3>4, <3>5, <3>6, <3>7
  <2>2. CASE ~stale
    <3>1. deletes'.iter = it /\ deletes'.next = deletes.next
      BY <1>3, <2>2
    <3>2. CachedIsFirst'
      BY <1>2, <1>4, <3>1 DEF CachedIsFirst
    <3>3. IterInv(deletes.iter)'
      BY <1>4, <3>1 DEF IterInv, BitmapOf
    <3>4. deletes.next # None => deletes.next \in Nat /\ deletes.next >= GroupEnd
      BY <1>1, <1>2, <2>2, Here DEF CachedIsFirst
    <3>5. Ahead' \subseteq {x \in Ahead : GroupEnd <= x}
      BY <1>4, <3>1, <3>4 DEF Ahead
    <3>6. \A x \in Ahead : GroupEnd <= x /\ x < BitmapRows => x \in Ahead'
      BY <1>4, <3>1 DEF Ahead
    <3> QED
      BY <3>2, <3>3, <3>5, <3>6
  <2> QED
    BY <2>1, <2>2
<1>6. NothingForgotten'
  BY <1>1, <1>2, <1>3, <1>5, Here DEF NothingForgotten
<1>7. (deletes.rows \in Seq(BOOLEAN))' /\ ExactUpTo(g + 1)'
  BY <1>1, <1>2, <1>3, <1>g, Here, OneMoreGroup
<1>8. /\ Fields' /\ at'[1] = g + 1
      /\ deletes'.base = GroupBase(g + 1)' /\ (g + 1 \in 1..AllGroups)'
  BY <1>1, <1>3, <1>g, Here DEF Fields, GroupBase, AllGroups
<1> QED
  BY <1>5, <1>6, <1>7, <1>8 DEF PassInv

(* A row group that is read. *)
LEMMA Selects ==
    ASSUME DInv, DeleteInGroup
    PROVE  PassInv'
<1> DEFINE dead == {x \in Ahead : x < GroupEnd}
           left == [deletes.iter EXCEPT !.rest = Ahead \ dead]
           kept == [i \in 1..sc.groups[at[1]] |-> deletes.base + i - 1 \notin dead]
<1>g. PICK g : g = at[1]
  OBVIOUS
<1>1. phase = "deleteRows" /\ GroupsLeft /\ IsSelected(g)
  BY <1>g DEF DeleteInGroup
<1>2. /\ Fields /\ CachedIsFirst /\ IterInv(deletes.iter) /\ NothingForgotten
      /\ deletes.rows \in Seq(BOOLEAN) /\ ExactUpTo(g)
  BY <1>1, <1>g, Here DEF PassInv
<1>3. /\ deletes' = [rows |-> deletes.rows \o kept, base |-> GroupEnd,
                     iter |-> IF dead = {} THEN deletes.iter ELSE AfterNext(left),
                     next |-> IF dead = {} THEN deletes.next ELSE NextOf(left)]
      /\ at' = <<g + 1, 1>> /\ UNCHANGED <<sc, phase, selected>>
  BY <1>g DEF DeleteInGroup, NextGroup
<1>4. kept = [i \in 1..sc.groups[g] |-> GroupBase(g) + i - 1 \notin sc.posDeleted]
  <2>1. ASSUME NEW i \in 1..sc.groups[g]
        PROVE  deletes.base + i - 1 \in dead <=> GroupBase(g) + i - 1 \in sc.posDeleted
    <3>1. PICK x : x = GroupBase(g) + i - 1
      OBVIOUS
    <3>2. /\ deletes.base = GroupBase(g) /\ x \in Nat /\ deletes.base <= x
          /\ x < GroupEnd /\ x < BitmapRows
      BY <1>1, <1>g, <3>1, Here, DeleteVectorAssumption, SMTT(30) DEF GroupEnd
    <3> QED
      BY <1>2, <3>1, <3>2 DEF NothingForgotten
  <2> QED
    BY <1>1, <1>g, <2>1, Here
<1>5. Ahead \in SUBSET Nat /\ \A x \in Ahead \ dead : GroupEnd <= x
  BY <1>1, <1>2, Here DEF Ahead, CachedIsFirst, IterInv
<1>6. CachedIsFirst' /\ IterInv(deletes.iter)' /\ Ahead' = Ahead \ dead
  <2>1. CASE dead = {}
    <3>1. deletes'.iter = deletes.iter /\ deletes'.next = deletes.next
      BY <1>3, <2>1
    <3> QED
      BY <1>2, <2>1, <3>1 DEF CachedIsFirst, IterInv, BitmapOf, Ahead
  <2>2. CASE dead # {}
    <3>1. deletes'.iter = AfterNext(left) /\ deletes'.next = NextOf(left)
      BY <1>3, <2>2
    <3>2. /\ left = [rest |-> left.rest, bitmap |-> left.bitmap]
          /\ left.rest = Ahead \ dead /\ left.bitmap \in Nat
      <4>1. /\ deletes.iter = [rest |-> deletes.iter.rest, bitmap |-> deletes.iter.bitmap]
            /\ deletes.iter.bitmap \in Nat
        BY <1>2 DEF IterInv
      <4>2. left = [rest |-> Ahead \ dead, bitmap |-> deletes.iter.bitmap]
        BY <4>1
      <4> QED
        BY <4>1, <4>2
    <3> HIDE DEF left
    <3>3. /\ IterInv(AfterNext(left))
          /\ NextOf(left) = None => left.rest = {} /\ AfterNext(left).rest = {}
          /\ NextOf(left) # None =>
                /\ NextOf(left) \in left.rest
                /\ AfterNext(left).rest = left.rest \ {NextOf(left)}
                /\ \A x \in AfterNext(left).rest : NextOf(left) < x
      BY <1>5, <3>2, Taken
    <3>4. CachedIsFirst'
      BY <1>5, <3>1, <3>2, <3>3 DEF CachedIsFirst
    <3>5. IterInv(deletes.iter)'
      BY <3>1, <3>3 DEF IterInv, BitmapOf
    <3>6. Ahead' = left.rest
      BY <1>5, <3>1, <3>2, <3>3, DeleteVectorAssumption DEF Ahead
    <3> QED
      BY <3>2, <3>4, <3>5, <3>6
  <2> QED
    BY <2>1, <2>2
<1> HIDE DEF left, kept
<1>7. NothingForgotten'
  <2>1. ASSUME NEW x \in sc.posDeleted, GroupEnd <= x, x < BitmapRows
        PROVE  x \in Ahead \ dead
    <3>1. deletes.base <= x /\ ~(x < GroupEnd)
      BY <1>1, <2>1, Here
    <3> QED
      BY <1>2, <2>1, <3>1 DEF NothingForgotten
  <2>2. Ahead \ dead \subseteq sc.posDeleted
    BY <1>2 DEF NothingForgotten
  <2> HIDE DEF dead
  <2> QED
    BY <1>3, <1>5, <1>6, <2>1, <2>2 DEF NothingForgotten
<1>8. (deletes.rows \in Seq(BOOLEAN))' /\ ExactUpTo(g + 1)'
  BY <1>1, <1>2, <1>3, <1>4, <1>g, Here, OneMoreGroup
<1>9. /\ Fields' /\ at'[1] = g + 1
      /\ deletes'.base = GroupBase(g + 1)' /\ (g + 1 \in 1..AllGroups)'
  BY <1>1, <1>3, <1>g, Here DEF Fields, GroupBase, AllGroups
<1> QED
  BY <1>6, <1>7, <1>8, <1>9 DEF PassInv

-----------------------------------------------------------------------------
LEMMA SameSelection ==
    ASSUME UNCHANGED <<sc, selected>>, deletes'.rows = deletes.rows, NEW n, ExactUpTo(n)
    PROVE  ExactUpTo(n)'
<1>1. \A g : IsSelected(g)' = IsSelected(g) /\ GroupBase(g)' = GroupBase(g)
  BY DEF IsSelected, SelectedGroups, GroupBase
<1>2. \A first, g : RowsRight(first, g) => RowsRight(first, g)'
  BY <1>1 DEF RowsRight
<1>3. \A offset : Right(offset, n) => Right(offset, n)'
  BY <1>1, <1>2 DEF Right
<1>4. \A offset : Offsets(offset, n) => Offsets(offset, n)'
  BY <1>1 DEF Offsets, SelectedRows
<1> QED
  BY <1>3, <1>4 DEF ExactUpTo

(* The pass ends with the selection of all the row groups that are read. *)
LEMMA Ends ==
    ASSUME DInv, DeletesApplied
    PROVE  SelectionIsExact'
<1>1. phase = "deleteRows" /\ ~GroupsLeft /\ UNCHANGED <<sc, selected, deletes>>
  BY DEF DeletesApplied
<1>2. PICK n \in 1..AllGroups : n = at[1] /\ ExactUpTo(n) /\ TypeInv
  BY <1>1 DEF DInv, PassInv
<1>3. \A g \in n..Len(sc.groups) : ~IsSelected(g)
  BY <1>1, <1>2 DEF GroupsLeft, IsSelected
<1>4. ExactUpTo(AllGroups)
  BY <1>2, <1>3, NoMoreGroups
<1> QED
  BY <1>1, <1>4, SameSelection DEF SelectionIsExact, AllGroups

LEMMA InitDInv == DeletesInit => DInv
  BY DEF DeletesInit, DInv, TypeInv, BeforeInv, PassInv, SelectionIsExact

LEMMA StepDInv == DInv /\ [DeletesNext]_deleteVars => DInv'
<1> SUFFICES ASSUME DInv, [DeletesNext]_deleteVars
             PROVE  DInv'
  OBVIOUS
<1>1. CASE BeforeDeletes
  BY <1>1 DEF BeforeDeletes, DInv, TypeInv, BeforeInv, PassInv, SelectionIsExact
<1>2. CASE NoDeletes
  BY <1>2 DEF NoDeletes, Goto, DInv, TypeInv, BeforeInv, PassInv, SelectionIsExact
<1>3. CASE StartDeletes
  BY <1>3, Starts DEF StartDeletes, Goto, DInv, TypeInv, BeforeInv, SelectionIsExact
<1>4. CASE SkipGroup
  BY <1>4, Skips DEF SkipGroup, NextGroup, DInv, TypeInv, BeforeInv, SelectionIsExact
<1>5. CASE DeleteInGroup
  BY <1>5, Selects DEF DeleteInGroup, NextGroup, DInv, TypeInv, BeforeInv, SelectionIsExact
<1>6. CASE DeletesApplied
  BY <1>6, Ends DEF DeletesApplied, Goto, DInv, TypeInv, BeforeInv, PassInv
<1>7. CASE AfterDeletes
  BY <1>7 DEF AfterDeletes, DInv, TypeInv, BeforeInv, PassInv, SelectionIsExact
<1>8. CASE UNCHANGED deleteVars
  <2>1. UNCHANGED <<sc, phase, selected, at, deletes>>
    BY <1>8 DEF deleteVars
  <2>2. PassInv'
    <3>1. CASE phase = "deleteRows"
      <4>1. ExactUpTo(at[1])'
        <5>1. PICK n : n = at[1] /\ ExactUpTo(n)
          BY <3>1 DEF DInv, PassInv
        <5> QED
          BY <2>1, <5>1, SameSelection
      <4> QED
        BY <2>1, <3>1, <4>1 DEF DInv, PassInv, Fields, CachedIsFirst, IterInv, BitmapOf,
           NothingForgotten, Ahead, AllGroups, GroupBase
    <3>2. CASE phase # "deleteRows"
      BY <2>1, <3>2 DEF PassInv
    <3> QED
      BY <3>1, <3>2
  <2>3. SelectionIsExact'
    BY <2>1, SameSelection DEF DInv, SelectionIsExact, AllGroups
  <2> QED
    BY <2>1, <2>2, <2>3 DEF DInv, TypeInv, BeforeInv
<1> QED
  BY <1>1, <1>2, <1>3, <1>4, <1>5, <1>6, <1>7, <1>8 DEF DeletesNext

(* All of it at every step of a read. *)
THEOREM DInvHolds == DeletesSpec => []DInv
  BY InitDInv, StepDInv, PTL DEF DeletesSpec

(* The loop that selects the rows around the deletes of a row group comes to an *)
(* end: the position it begins with is never before the row group.              *)
THEOREM LoopsEnd == DeletesSpec => []NeverSpins
<1>1. DInv => NeverSpins
  BY DEF DInv, PassInv, NeverSpins, NothingForgotten, CachedIsFirst, Ahead
<1> QED
  BY <1>1, DInvHolds, PTL

(* Whatever row groups are read, the iterator and its cached position have      *)
(* ahead of them all the deletes of the file that are still to come.            *)
THEOREM NoDeleteIsForgotten == DeletesSpec => [](phase = "deleteRows" => NothingForgotten)
<1>1. DInv => (phase = "deleteRows" => NothingForgotten)
  BY DEF DInv, PassInv
<1> QED
  BY <1>1, DInvHolds, PTL

(* A read that has position deletes decodes with a selection that takes, of each *)
(* row group it reads and in their order, the rows that are not deleted, and     *)
(* says so of every row once.                                                    *)
THEOREM SelectionsAreExact == DeletesSpec => []SelectionIsExact
<1>1. DInv => SelectionIsExact
  BY DEF DInv
<1> QED
  BY <1>1, DInvHolds, PTL

-----------------------------------------------------------------------------
(***************************************************************************)
(* The read of a file                                                       *)
(***************************************************************************)
(* Each step of a read is one of the pass over the deletes, or one that the     *)
(* pass allows for before and after it.                                         *)
LEMMA ReadStep == DInv /\ [Next]_vars => [DeletesNext]_deleteVars
<1> SUFFICES ASSUME DInv, [Next]_vars
             PROVE  [DeletesNext]_deleteVars
  OBVIOUS
<1> USE DEF Goto, DInv, TypeInv
<1>1. CASE EvalManifest
  BY <1>1 DEF EvalManifest, PassOrSkip, DeletesNext, BeforeDeletes
<1>2. CASE EvalPartition
  BY <1>2 DEF EvalPartition, PassOrSkip, DeletesNext, BeforeDeletes
<1>3. CASE EvalMetrics
  BY <1>3 DEF EvalMetrics, PassOrSkip, DeletesNext, BeforeDeletes
<1>4. CASE SelectByteRange
  <2>1. selected' \in {None} \cup SUBSET (1..Len(sc.groups))
    BY <1>4 DEF SelectByteRange
  <2> QED
    BY <1>4, <2>1 DEF SelectByteRange, DeletesNext, BeforeDeletes
<1>5. CASE SelectRowGroup
  <2>1. SelectedGroups \in SUBSET (1..Len(sc.groups))
    BY DEF SelectedGroups
  <2>2. selected' \in SUBSET (1..Len(sc.groups))
    BY <1>5, <2>1 DEF SelectRowGroup
  <2> QED
    BY <1>5, <2>2 DEF SelectRowGroup, DeletesNext, BeforeDeletes
<1>6. CASE RowGroupsSelected
  BY <1>6 DEF RowGroupsSelected, DeletesNext, BeforeDeletes
<1>7. CASE SkipPages
  BY <1>7 DEF SkipPages, DeletesNext, BeforeDeletes
<1>8. CASE SelectPage
  BY <1>8 DEF SelectPage, DeletesNext, BeforeDeletes
<1>9. CASE PagesSelected
  BY <1>9 DEF PagesSelected, DeletesNext, BeforeDeletes
<1>10. CASE Decode
  BY <1>10 DEF Decode, DeletesNext, AfterDeletes
<1>11. CASE UNCHANGED vars
  BY <1>11 DEF vars
<1> QED
  BY <1>1, <1>2, <1>3, <1>4, <1>5, <1>6, <1>7, <1>8, <1>9, <1>10, <1>11
     DEF Next, Finished, DeletesNext

LEMMA DInvOfRead == Spec => []DInv
<1>1. Init => DInv
  BY InitDInv DEF Init
<1>2. DInv /\ [Next]_vars => DInv'
  BY ReadStep, StepDInv
<1> QED
  BY <1>1, <1>2, PTL DEF Spec

(* Whichever of the pruning steps are switched on, and whatever they conclude,  *)
(* no read goes round its position deletes.                                     *)
THEOREM NoReadSkipsDeletes == Spec => DeletesAreMerged
<1>1. DInv /\ [Next]_vars => [DeletesNext]_deleteVars
  BY ReadStep
<1>2. Spec => [][DeletesNext]_deleteVars
  BY <1>1, DInvOfRead, PTL DEF Spec
<1> QED
  BY <1>2 DEF DeletesAreMerged

(* Where the rows of a row group begin in a selection: the recursion is the     *)
(* only solution of its equations.                                              *)
LEMMA OffsetsExist ==
    ASSUME TypeInv, NEW n \in 1..AllGroups
    PROVE  \E offset \in [1..n -> Nat] : Offsets(offset, n)
<1> DEFINE T == {m \in Nat : m \in 1..AllGroups /\ ~ \E offset \in [1..m -> Nat] : Offsets(offset, m)}
<1>1. SUFFICES ASSUME T # {} PROVE FALSE
  <2>1. n \in Nat
    BY ScenarioAssumption DEF TypeInv, AllGroups, IsFile
  <2> QED
    BY <1>1, <2>1
<1>2. PICK m \in T : \A k \in T : m <= k
  BY <1>1, LeastOf
<1>3. m # 1
  <2> DEFINE o == [g \in 1..1 |-> 0]
  <2>1. o \in [1..1 -> Nat] /\ Offsets(o, 1)
    BY DEF Offsets
  <2> QED
    BY <1>2, <2>1
<1>4. m - 1 \in 1..AllGroups /\ m \in Nat /\ m - 1 \in Nat /\ m - 1 \in 1..Len(sc.groups)
  <2>1. Len(sc.groups) \in Nat
    BY ScenarioAssumption DEF TypeInv, IsFile
  <2> QED
    BY <1>2, <1>3, <2>1 DEF AllGroups
<1>5. PICK o \in [1..(m - 1) -> Nat] : Offsets(o, m - 1)
  <2>1. m - 1 \notin T
    BY <1>2, <1>4
  <2> QED
    BY <1>4, <2>1
<1>6. SelectedRows(m - 1) \in Nat
  BY <1>4, RowGroup DEF SelectedRows
<1> DEFINE more == [g \in 1..m |-> IF g = m THEN o[m - 1] + SelectedRows(m - 1) ELSE o[g]]
<1>7. more \in [1..m -> Nat]
  BY <1>4, <1>5, <1>6
<1>8. Offsets(more, m)
  BY <1>4, <1>5 DEF Offsets
<1> QED
  BY <1>2, <1>7, <1>8

LEMMA OffsetsAgree ==
    ASSUME TypeInv, NEW o, NEW p,
           Offsets(o, AllGroups), Offsets(p, AllGroups), NEW g \in 1..AllGroups
    PROVE  o[g] = p[g]
<1> DEFINE T == {m \in Nat : m \in 1..AllGroups /\ o[m] # p[m]}
<1>0. AllGroups \in Nat
  BY ScenarioAssumption DEF TypeInv, AllGroups, IsFile
<1>1. SUFFICES ASSUME T # {} PROVE FALSE
  <2>1. g \in Nat
    BY <1>0
  <2> QED
    BY <1>1, <2>1
<1>2. PICK m \in T : \A k \in T : m <= k
  BY <1>1, LeastOf
<1>3. m # 1
  BY <1>2 DEF Offsets
<1>4. m - 1 \in 1..AllGroups /\ m - 1 \in 1..(AllGroups - 1) /\ m \in Nat /\ m - 1 \in Nat
  BY <1>0, <1>2, <1>3
<1>5. o[m - 1] = p[m - 1]
  BY <1>2, <1>4
<1>6. /\ o[(m - 1) + 1] = o[m - 1] + SelectedRows(m - 1)
      /\ p[(m - 1) + 1] = p[m - 1] + SelectedRows(m - 1)
  BY <1>4 DEF Offsets
<1>7. (m - 1) + 1 = m
  BY <1>4
<1> QED
  BY <1>2, <1>5, <1>6, <1>7

LEMMA RowsBeforeIs ==
    ASSUME TypeInv
    PROVE  /\ Offsets(RowsBefore, AllGroups)
           /\ \A g \in 1..AllGroups : RowsBefore[g] \in Nat
<1> DEFINE Solves(f) == f = [g \in 1..(Len(sc.groups) + 1) |->
                                IF g = 1 THEN 0 ELSE f[g - 1] + SelectedRows(g - 1)]
<1>0. Len(sc.groups) \in Nat /\ AllGroups = Len(sc.groups) + 1
  BY ScenarioAssumption DEF TypeInv, AllGroups, IsFile
<1>1. PICK offset \in [1..AllGroups -> Nat] : Offsets(offset, AllGroups)
  BY <1>0, OffsetsExist
<1>2. Solves(offset)
  <2>1. ASSUME NEW g \in 1..AllGroups
        PROVE  offset[g] = IF g = 1 THEN 0 ELSE offset[g - 1] + SelectedRows(g - 1)
    <3>1. CASE g = 1
      BY <1>1, <3>1 DEF Offsets
    <3>2. CASE g # 1
      <4>1. g - 1 \in 1..(AllGroups - 1) /\ (g - 1) + 1 = g
        BY <1>0, <3>2
      <4> QED
        BY <1>1, <3>2, <4>1 DEF Offsets
    <3> QED
      BY <3>1, <3>2
  <2> QED
    BY <1>0, <1>1, <2>1
<1>3. RowsBefore = CHOOSE f : Solves(f)
  BY DEF RowsBefore
<1>4. Solves(RowsBefore)
  <2> HIDE DEF Solves
  <2> QED
    BY <1>2, <1>3
<1>5. Offsets(RowsBefore, AllGroups)
  <2>1. RowsBefore[1] = 0
    BY <1>0, <1>4
  <2>2. ASSUME NEW g \in 1..(AllGroups - 1)
        PROVE  RowsBefore[g + 1] = RowsBefore[g] + SelectedRows(g)
    <3>1. g + 1 \in 1..(Len(sc.groups) + 1) /\ g + 1 # 1 /\ (g + 1) - 1 = g
      BY <1>0
    <3> QED
      BY <1>4, <3>1
  <2> QED
    BY <2>1, <2>2 DEF Offsets
<1>6. ASSUME NEW g \in 1..AllGroups
      PROVE  RowsBefore[g] \in Nat
  BY <1>1, <1>5, OffsetsAgree
<1> QED
  BY <1>5, <1>6

LEMMA RowsBeforeSame ==
    ASSUME UNCHANGED <<sc, selected>>
    PROVE  RowsBefore' = RowsBefore
<1>1. \A g : SelectedRows(g)' = SelectedRows(g)
  BY DEF SelectedRows, IsSelected, SelectedGroups
<1>2. sc' = sc
  OBVIOUS
<1> QED
  BY <1>1, <1>2 DEF RowsBefore

(* Of what the row groups and the rows read have in common: they are of the     *)
(* split, and not deleted.                                                      *)
Planning == {"manifest", "partition", "metrics", "byteRange"}
Choosing == {"rowGroups", "pages", "deletes", "deleteRows", "decode"}

LiveInv ==
    /\ phase \in Planning \cup Choosing \cup {"done"}
    /\ phase \in Planning => selected = None
    /\ phase # "done" => out = {}
    /\ phase \in Choosing => \A g \in SelectedGroups : GroupInSplit(g)
    /\ OnlyLiveRows

(* What is chosen from a byte range are the row groups that begin in it.        *)
LEMMA ByteRange ==
    ASSUME DInv, SelectByteRange
    PROVE  /\ SelectedGroups' \subseteq 1..Len(sc.groups)
           /\ \A g \in 1..Len(sc.groups) : g \in SelectedGroups' <=> GroupInSplit(g)
<1>1. TypeInv /\ IsRead(sc) /\ UNCHANGED sc
  BY ReadAssumption DEF DInv, TypeInv, SelectByteRange
<1>2. CASE WholeFile
  <2>1. selected' = None
    BY <1>2 DEF SelectByteRange
  <2> QED
    BY <1>1, <1>2, <2>1 DEF SelectedGroups, GroupInSplit
<1>3. CASE ~WholeFile
  <2> DEFINE chosen == {g \in 1..Len(sc.groups) : Overlaps(g)}
  <2>1. selected' = chosen
    BY <1>3 DEF SelectByteRange
  <2>2. chosen # None
    <3>1. IsFile(sc) /\ chosen \in SUBSET (1..Len(sc.groups))
      BY <1>1, ScenarioAssumption DEF TypeInv
    <3> QED
      BY <3>1 DEF IsFile
  <2>3. ASSUME NEW g \in 1..Len(sc.groups)
        PROVE  Overlaps(g) <=> GroupInSplit(g)
    <3>1. GroupBase(g) \in Nat /\ GroupBase(g + 1) \in Nat /\ GroupBase(g) < GroupBase(g + 1)
      BY <1>1, RowGroup
    <3>2. /\ sc.start \in Nat /\ sc.length \in Nat
          /\ sc.start <= 1 + GroupBase(g) \/ 1 + GroupBase(g + 1) <= sc.start
      BY <1>1 DEF IsRead, GroupBase
    <3> QED
      BY <1>3, <3>1, <3>2 DEF Overlaps, GroupInSplit
  <2> QED
    BY <2>1, <2>2, <2>3 DEF SelectedGroups
<1> QED
  BY <1>2, <1>3

(* The evaluator of row groups only drops the one it is asked about.            *)
LEMMA DropsOne ==
    ASSUME DInv, SelectRowGroup
    PROVE  \E might \in GroupOutcomes(sc, at[1]) :
              SelectedGroups' = IF might THEN SelectedGroups ELSE SelectedGroups \ {at[1]}
<1>1. IsFile(sc) /\ TypeInv
  BY ScenarioAssumption DEF DInv, TypeInv
<1>2. SelectedGroups \in SUBSET (1..Len(sc.groups))
  BY <1>1 DEF SelectedGroups, TypeInv
<1>3. PICK might \in GroupOutcomes(sc, at[1]) :
         selected' = IF might THEN SelectedGroups ELSE SelectedGroups \ {at[1]}
  BY DEF SelectRowGroup
<1>4. selected' # None
  <2>1. selected' \in SUBSET (1..Len(sc.groups))
    BY <1>2, <1>3
  <2> QED
    BY <1>1, <2>1 DEF IsFile
<1>5. SelectedGroups' = selected'
  BY <1>4 DEF SelectedGroups
<1> QED
  BY <1>3, <1>5

LEMMA SameSplit ==
    ASSUME UNCHANGED sc
    PROVE  \A g : GroupInSplit(g)' = GroupInSplit(g)
  BY DEF GroupInSplit, WholeFile, GroupBase

(* A row that a selection is asked about is that of its offset in the row group. *)
LEMMA RowOfGroup ==
    ASSUME TypeInv, NEW g \in 1..Len(sc.groups), NEW pos \in Positions, InGroup(pos, g)
    PROVE  \E i \in 1..sc.groups[g] :
              /\ pos = GroupBase(g) + i - 1
              /\ pos + 1 = GroupBase(g) + i
              /\ RowsBefore[g] + pos - GroupBase(g) + 1 = RowsBefore[g] + i
<1>1. /\ GroupBase(g) \in Nat /\ sc.groups[g] \in Nat
      /\ GroupBase(g + 1) = GroupBase(g) + sc.groups[g]
  BY RowGroup
<1>2. RowsBefore[g] \in Nat
  <2>1. g \in 1..AllGroups
    BY RowGroup DEF AllGroups
  <2> QED
    BY <2>1, RowsBeforeIs
<1>3. pos \in Nat /\ GroupBase(g) <= pos /\ pos < GroupBase(g) + sc.groups[g]
  <2>1. Len(sc.rows) \in Int
    <3>1. IsRead(sc) /\ IsFile(sc)
      BY ReadAssumption, ScenarioAssumption DEF TypeInv
    <3> QED
      BY <3>1 DEF IsRead, IsFile
  <2>2. pos \in Nat
    BY <2>1 DEF Positions
  <2> QED
    BY <1>1, <2>2 DEF InGroup
<1> DEFINE i == pos - GroupBase(g) + 1
<1>4. i \in 1..sc.groups[g]
  BY <1>1, <1>3
<1>5. /\ pos = GroupBase(g) + i - 1
      /\ pos + 1 = GroupBase(g) + i
      /\ RowsBefore[g] + pos - GroupBase(g) + 1 = RowsBefore[g] + i
  BY <1>1, <1>2, <1>3
<1> QED
  BY <1>4, <1>5

(* What the pass over the deletes says of a row that is decoded.                *)
LEMMA DeletesSay ==
    ASSUME DInv, phase = "decode", sc.posDeleted # {},
           NEW g \in SelectedGroups, g \in 1..Len(sc.groups),
           NEW pos \in Positions, InGroup(pos, g)
    PROVE  deletes.rows[RowsBefore[g] + pos - GroupBase(g) + 1] <=> pos \notin sc.posDeleted
<1>1. TypeInv /\ Len(sc.groups) \in Nat /\ AllGroups = Len(sc.groups) + 1 /\ IsSelected(g)
  BY ScenarioAssumption DEF DInv, TypeInv, AllGroups, IsFile, IsSelected
<1>2. PICK offset \in [1..AllGroups -> Nat] : Offsets(offset, AllGroups) /\ Right(offset, AllGroups)
  BY DEF DInv, SelectionIsExact, ExactUpTo
<1>3. RowsBefore[g] = offset[g]
  BY <1>1, <1>2, RowsBeforeIs, OffsetsAgree
<1>4. RowsRight(RowsBefore[g], g)
  BY <1>1, <1>2, <1>3 DEF Right
<1>5. PICK i \in 1..sc.groups[g] :
         pos = GroupBase(g) + i - 1 /\ RowsBefore[g] + pos - GroupBase(g) + 1 = RowsBefore[g] + i
  BY <1>1, RowOfGroup
<1> QED
  BY <1>4, <1>5 DEF RowsRight

LEMMA InitLiveInv == Init => LiveInv
  BY DEF Init, DeletesInit, LiveInv, Planning, Choosing, OnlyLiveRows

LEMMA StepLiveInv ==
    ASSUME \A s \in Scenarios : NoDeletedValuePasses(s), DInv, LiveInv, [Next]_vars
    PROVE  LiveInv'
<1> USE DEF Goto, Planning, Choosing
<1>0. SelectedGroups \subseteq 1..Len(sc.groups)
  BY DEF DInv, TypeInv, SelectedGroups
<1>1. CASE EvalManifest
  BY <1>1 DEF EvalManifest, PassOrSkip, LiveInv, OnlyLiveRows
<1>2. CASE EvalPartition
  BY <1>2 DEF EvalPartition, PassOrSkip, LiveInv, OnlyLiveRows
<1>3. CASE EvalMetrics
  BY <1>3 DEF EvalMetrics, PassOrSkip, LiveInv, OnlyLiveRows
<1>4. CASE SelectByteRange
  <2>1. (\A g \in SelectedGroups : GroupInSplit(g))'
    BY <1>4, ByteRange, SameSplit DEF SelectByteRange
  <2> QED
    BY <1>4, <2>1 DEF SelectByteRange, LiveInv, OnlyLiveRows
<1>5. CASE SelectRowGroup
  <2>1. (\A g \in SelectedGroups : GroupInSplit(g))'
    <3>1. SelectedGroups' \subseteq SelectedGroups
      BY <1>5, DropsOne
    <3> QED
      BY <1>5, <3>1, SameSplit DEF SelectRowGroup, LiveInv
  <2> QED
    BY <1>5, <2>1 DEF SelectRowGroup, LiveInv, OnlyLiveRows
<1>6. CASE Decode
  <2>1. phase = "decode" /\ phase' = "done" /\ UNCHANGED <<sc, selected>>
    BY <1>6 DEF Decode
  <2>2. OnlyLiveRows'
    <3>1. ASSUME NEW pos \in out'
          PROVE  InSplit(pos) /\ Live(pos)
      <4>1. PICK g \in SelectedGroups : pos \in Positions /\ InGroup(pos, g) /\ Decodes(pos, g)
        BY <1>6, <3>1 DEF Decode
      <4>2. g \in 1..Len(sc.groups) /\ GroupInSplit(g)
        BY <1>0, <2>1, <4>1 DEF LiveInv
      <4>3. pos \notin sc.posDeleted
        BY <2>1, <4>1, <4>2, DeletesSay DEF Decodes
      <4>4. sc.rows[pos + 1] \notin sc.eqDeleted
        <5>1. pos + 1 \in 1..Len(sc.rows)
          <6>1. Len(sc.rows) \in Int
            <7>1. IsRead(sc) /\ IsFile(sc)
              BY ReadAssumption, ScenarioAssumption DEF DInv, TypeInv
            <7> QED
              BY <7>1 DEF IsRead, IsFile
          <6> QED
            BY <4>1, <6>1 DEF Positions
        <5>2. NoDeletedValuePasses(sc)
          BY DEF DInv, TypeInv
        <5> QED
          BY <4>1, <5>1, <5>2 DEF Decodes, NoDeletedValuePasses
      <4> QED
        BY <4>1, <4>2, <4>3, <4>4 DEF InSplit, Live
    <3>2. \A pos : InSplit(pos)' = InSplit(pos) /\ Live(pos)' = Live(pos)
      BY <2>1, SameSplit DEF InSplit, InGroup, GroupBase, Live
    <3> QED
      BY <3>1, <3>2 DEF OnlyLiveRows
  <2> QED
    BY <2>1, <2>2 DEF LiveInv
<1>7. CASE UNCHANGED vars
  BY <1>7 DEF vars, deleteVars, LiveInv, OnlyLiveRows, SelectedGroups, GroupInSplit, WholeFile,
     GroupBase, InSplit, InGroup, Live
<1>8. ASSUME phase \in Choosing, phase' \in Choosing, UNCHANGED <<sc, selected, out>>
      PROVE  LiveInv'
  BY <1>8, SameSplit DEF LiveInv, OnlyLiveRows, SelectedGroups
<1>9. CASE RowGroupsSelected \/ SkipPages \/ SelectPage \/ PagesSelected
  BY <1>8, <1>9 DEF RowGroupsSelected, SkipPages, SelectPage, PagesSelected
<1>10. CASE UNCHANGED unread /\ (NoDeletes \/ StartDeletes \/ SkipGroup \/ DeleteInGroup \/ DeletesApplied)
  BY <1>8, <1>10 DEF unread, NoDeletes, StartDeletes, SkipGroup, DeleteInGroup, NextGroup,
     DeletesApplied
<1> QED
  BY <1>1, <1>2, <1>3, <1>4, <1>5, <1>6, <1>7, <1>9, <1>10 DEF Next, Finished

(* If the row filter drops the values that equality deletes name, a read        *)
(* returns nothing that is deleted, by value or by position, and nothing of     *)
(* another split of the file, for any layout, split and choice of row groups.   *)
THEOREM OnlyLiveRowsReturn ==
    ASSUME \A s \in Scenarios : NoDeletedValuePasses(s)
    PROVE  Spec => []OnlyLiveRows
<1>1. DInv /\ LiveInv /\ [Next]_vars => LiveInv'
  BY StepLiveInv
<1>2. Spec => []LiveInv
  BY <1>1, InitLiveInv, DInvOfRead, PTL DEF Spec
<1>3. LiveInv => OnlyLiveRows
  BY DEF LiveInv
<1> QED
  BY <1>2, <1>3, PTL

WantedAt(pos) == pos \in Positions /\ Wanted(sc, sc.rows[pos + 1])

(* The selection of pages covers the first rows of a row group, and has those   *)
(* of them that are wanted.                                                     *)
Keeps(g, count) ==
    /\ RowsBefore[g] + count <= Len(pageRows)
    /\ \A i \in 1..count : WantedAt(GroupBase(g) + i - 1) => pageRows[RowsBefore[g] + i]

PagesInv ==
    phase = "pages" =>
        LET g == at[1]
            count == IF g = AllGroups THEN 0 ELSE sc.pages[g][at[2]]
        IN  /\ g \in 1..AllGroups
            /\ g # AllGroups => at[2] \in 1..(Len(sc.pages[g]) - 1)
            /\ g # AllGroups /\ ~IsSelected(g) => at[2] = 1
            /\ pageRows \in Seq(BOOLEAN)
            /\ Len(pageRows) = RowsBefore[g] + count
            /\ \A h \in 1..(g - 1) : IsSelected(h) => Keeps(h, sc.groups[h])
            /\ Keeps(g, count)

WantedChosen ==
    phase \in Choosing =>
        \A pos \in Positions, g \in 1..Len(sc.groups) :
            WantedAt(pos) /\ InGroup(pos, g) /\ GroupInSplit(g) => IsSelected(g)

KeepInv ==
    /\ phase \in Planning \cup Choosing \cup {"done"}
    /\ phase \in Planning \cup {"rowGroups"} => pageRows = << >>
    /\ WantedChosen
    /\ PagesInv
    /\ sc.rowSelection /\ phase \in {"deletes", "deleteRows", "decode"} =>
          \A g \in SelectedGroups : Keeps(g, sc.groups[g])
    /\ NoRowLost

(* The pages of a row group: in order, from its first row to its last.          *)
LEMMA PagesOf ==
    ASSUME TypeInv, NEW g \in 1..Len(sc.groups)
    PROVE  /\ Len(sc.pages[g]) \in Nat /\ Len(sc.pages[g]) > 1
           /\ \A n \in 1..Len(sc.pages[g]) : sc.pages[g][n] \in Nat
           /\ sc.pages[g][1] = 0
           /\ sc.pages[g][Len(sc.pages[g])] = sc.groups[g]
           /\ \A n \in 1..(Len(sc.pages[g]) - 1) : sc.pages[g][n] < sc.pages[g][n + 1]
<1> DEFINE begins == sc.pages[g]
<1>1. IsRead(sc)
  BY ReadAssumption DEF TypeInv
<1>2. /\ begins \in Seq(Nat) /\ Len(begins) > 1 /\ begins[1] = 0
      /\ begins[Len(begins)] = sc.groups[g]
      /\ \A n \in 1..(Len(begins) - 1) : begins[n] < begins[n + 1]
  BY <1>1 DEF IsRead
<1> HIDE DEF begins
<1>3. Len(begins) \in Nat /\ \A n \in 1..Len(begins) : begins[n] \in Nat
  BY <1>2, Elements
<1> QED
  BY <1>2, <1>3 DEF begins

(* What the evaluators owe the read, for one wanted row.                        *)
LEMMA VerdictsOn ==
    ASSUME TypeInv, VerdictsKeep(sc), NEW pos \in Positions, WantedAt(pos)
    PROVE  /\ ManifestMight(sc) /\ PartitionMight(sc)
           /\ \A might \in FileOutcomes(sc) : might
           /\ RowPasses(sc, sc.rows[pos + 1])
           /\ \A g \in 1..Len(sc.groups) : InGroup(pos, g) =>
                 \A might \in GroupOutcomes(sc, g) : might
           /\ \A g \in 1..Len(sc.groups) : \A n \in 1..(Len(sc.pages[g]) - 1) :
                 GroupBase(g) + sc.pages[g][n] <= pos /\ pos < GroupBase(g) + sc.pages[g][n + 1] =>
                    \A might \in PageOutcomes(sc, g, n) : might
<1>1. Len(sc.rows) \in Int
  <2>1. IsRead(sc) /\ IsFile(sc)
    BY ReadAssumption, ScenarioAssumption DEF TypeInv
  <2> QED
    BY <2>1 DEF IsRead, IsFile
<1>2. pos \in 0..(Len(sc.rows) - 1) /\ pos \in Nat /\ pos + 1 \in 1..Len(sc.rows)
      /\ Wanted(sc, sc.rows[pos + 1])
  BY <1>1 DEF Positions, WantedAt
<1>3. ASSUME NEW from \in Nat, NEW to \in Nat, from <= pos, pos < to
      PROVE  HoldsWanted(sc, from, to)
  <2>1. pos \in from..(to - 1)
    BY <1>2, <1>3
  <2> QED
    BY <1>2, <2>1 DEF HoldsWanted
<1>4. HoldsWanted(sc, 0, Len(sc.rows))
  BY <1>2 DEF HoldsWanted
<1>5. ASSUME NEW g \in 1..Len(sc.groups), InGroup(pos, g), NEW might \in GroupOutcomes(sc, g)
      PROVE  might
  <2>1. GroupBase(g) \in Nat /\ GroupBase(g + 1) \in Nat
    BY RowGroup
  <2>2. HoldsWanted(sc, sc.starts[g], sc.starts[g + 1])
    BY <1>3, <1>5, <2>1 DEF InGroup, GroupBase
  <2> QED
    BY <1>5, <2>2 DEF VerdictsKeep
<1>6. ASSUME NEW g \in 1..Len(sc.groups), NEW n \in 1..(Len(sc.pages[g]) - 1),
             GroupBase(g) + sc.pages[g][n] <= pos, pos < GroupBase(g) + sc.pages[g][n + 1],
             NEW might \in PageOutcomes(sc, g, n)
      PROVE  might
  <2>1. GroupBase(g) + sc.pages[g][n] \in Nat /\ GroupBase(g) + sc.pages[g][n + 1] \in Nat
    <3>1. n \in 1..Len(sc.pages[g]) /\ n + 1 \in 1..Len(sc.pages[g])
      BY PagesOf
    <3>2. sc.pages[g][n] \in Nat /\ sc.pages[g][n + 1] \in Nat /\ GroupBase(g) \in Nat
      BY <3>1, PagesOf, RowGroup
    <3> QED
      BY <3>2
  <2>2. HoldsWanted(sc, sc.starts[g] + sc.pages[g][n], sc.starts[g] + sc.pages[g][n + 1])
    BY <1>3, <1>6, <2>1 DEF GroupBase
  <2>3. PageOutcomes(sc, g, n) \subseteq {TRUE}
    BY <2>2 DEF VerdictsKeep, Allowed
  <2> QED
    BY <1>6, <2>3
<1>7. ManifestMight(sc) /\ PartitionMight(sc) /\ FileOutcomes(sc) \subseteq {TRUE}
  BY <1>4 DEF VerdictsKeep
<1>8. RowPasses(sc, sc.rows[pos + 1])
  BY <1>2 DEF VerdictsKeep
<1> QED
  BY <1>5, <1>6, <1>7, <1>8

(* What is kept stays kept: the selection only grows at its end.                *)
LEMMA StaysKept ==
    ASSUME UNCHANGED <<sc, selected>>, NEW g, NEW count \in Nat, RowsBefore[g] \in Nat,
           Len(pageRows) \in Nat, Len(pageRows') \in Nat, Len(pageRows) <= Len(pageRows'),
           \A i \in 1..Len(pageRows) : pageRows'[i] = pageRows[i],
           Keeps(g, count)
    PROVE  Keeps(g, count)'
<1>1. RowsBefore' = RowsBefore
  BY RowsBeforeSame
<1>2. \A pos : WantedAt(pos)' = WantedAt(pos)
  BY DEF WantedAt, Wanted, Positions
<1>3. GroupBase(g)' = GroupBase(g)
  BY DEF GroupBase
<1>4. ASSUME NEW i \in 1..count, WantedAt(GroupBase(g) + i - 1)
      PROVE  pageRows'[RowsBefore[g] + i]
  <2>1. RowsBefore[g] + i \in 1..Len(pageRows)
    BY DEF Keeps
  <2>2. pageRows[RowsBefore[g] + i]
    BY <1>4 DEF Keeps
  <2> QED
    BY <2>1, <2>2
<1>5. RowsBefore[g] + count <= Len(pageRows')
  BY DEF Keeps
<1> QED
  BY <1>1, <1>2, <1>3, <1>4, <1>5 DEF Keeps

LEMMA PagesInOrder ==
    ASSUME TypeInv, NEW g \in 1..Len(sc.groups), NEW n \in 1..Len(sc.pages[g])
    PROVE  sc.pages[g][n] <= sc.groups[g]
<1> DEFINE begins == sc.pages[g]
           T == {m \in Nat : m < Len(begins) /\ begins[Len(begins) - m] > sc.groups[g]}
<1>1. /\ Len(begins) \in Nat /\ \A m \in 1..Len(begins) : begins[m] \in Nat
      /\ begins[Len(begins)] = sc.groups[g] /\ sc.groups[g] \in Nat
      /\ \A m \in 1..(Len(begins) - 1) : begins[m] < begins[m + 1]
  BY PagesOf, RowGroup
<1> HIDE DEF begins
<1>2. SUFFICES ASSUME T # {} PROVE FALSE
  <2>1. n \in 1..Len(begins) /\ Len(begins) - n \in Nat /\ Len(begins) - n < Len(begins)
        /\ Len(begins) - (Len(begins) - n) = n
    BY <1>1 DEF begins
  <2>2. Len(begins) - n \notin T
    BY <1>2
  <2>3. ~(begins[n] > sc.groups[g])
    BY <2>1, <2>2
  <2> QED
    BY <1>1, <2>1, <2>3 DEF begins
<1>3. PICK m \in T : \A k \in T : m <= k
  BY <1>2, LeastOf
<1>4. m # 0
  BY <1>1, <1>3
<1>5. m - 1 \in Nat /\ m - 1 < Len(begins) /\ m - 1 \notin T /\ m \in Nat
  <2>1. m \in Nat /\ m < Len(begins)
    BY <1>3
  <2>2. m - 1 \in Nat /\ m - 1 < Len(begins) /\ ~(m <= m - 1)
    BY <1>1, <1>4, <2>1
  <2> HIDE DEF T
  <2> QED
    BY <1>3, <2>1, <2>2
<1>6. Len(begins) - m \in 1..(Len(begins) - 1) /\ Len(begins) - (m - 1) = (Len(begins) - m) + 1
  BY <1>1, <1>3, <1>4, <1>5
<1>7. begins[Len(begins) - m] < begins[(Len(begins) - m) + 1]
  BY <1>1, <1>6
<1>8. ~(begins[(Len(begins) - m) + 1] > sc.groups[g])
  BY <1>5, <1>6
<1>9. begins[Len(begins) - m] > sc.groups[g]
  BY <1>3
<1>10. /\ begins[Len(begins) - m] \in Nat /\ begins[(Len(begins) - m) + 1] \in Nat
  BY <1>1, <1>6
<1> QED
  BY <1>1, <1>7, <1>8, <1>9, <1>10

(* The rows of one page are added to the selection.                             *)
LEMMA PageSelected ==
    ASSUME TypeInv, VerdictsKeep(sc), PagesInv, SelectPage,
           NEW g, NEW n, g = at[1], n = at[2]
    PROVE  /\ g \in 1..Len(sc.groups) /\ n \in 1..(Len(sc.pages[g]) - 1)
           /\ (pageRows \in Seq(BOOLEAN))'
           /\ Len(pageRows') = RowsBefore[g] + sc.pages[g][n + 1]
           /\ \A h \in 1..(g - 1) : IsSelected(h) => Keeps(h, sc.groups[h])'
           /\ Keeps(g, sc.pages[g][n + 1])'
<1> DEFINE begins == sc.pages[g]
           size == begins[n + 1] - begins[n]
<1>1. phase = "pages" /\ GroupsLeft /\ IsSelected(g) /\ UNCHANGED <<sc, selected>>
  BY DEF SelectPage
<1>2. g \in 1..Len(sc.groups) /\ g # AllGroups
  <2>1. at[1] \in 1..AllGroups
    BY <1>1 DEF PagesInv
  <2>2. at[1] \in 1..Len(sc.groups)
    BY <1>1, <2>1, AtRowGroup
  <2>3. Len(sc.groups) \in Nat
    BY ScenarioAssumption DEF TypeInv, IsFile
  <2> QED
    BY <2>2, <2>3 DEF AllGroups
<1>3. /\ n \in 1..(Len(begins) - 1) /\ pageRows \in Seq(BOOLEAN)
      /\ Len(pageRows) = RowsBefore[g] + begins[n]
      /\ \A h \in 1..(g - 1) : IsSelected(h) => Keeps(h, sc.groups[h])
      /\ Keeps(g, begins[n])
  BY <1>1, <1>2 DEF PagesInv
<1>4. PICK might \in PageOutcomes(sc, g, n) : pageRows' = pageRows \o AllRows(size, might)
  BY DEF SelectPage
<1>5. /\ Len(begins) \in Nat /\ n + 1 \in 1..Len(begins) /\ n \in 1..Len(begins)
      /\ begins[n] \in Nat /\ begins[n + 1] \in Nat /\ begins[n] < begins[n + 1]
  <2>1. Len(begins) \in Nat
    BY <1>2, PagesOf
  <2>2. n + 1 \in 1..Len(begins) /\ n \in 1..Len(begins)
    BY <1>3, <2>1
  <2> QED
    BY <1>2, <1>3, <2>1, <2>2, PagesOf
<1>6. size \in Nat /\ begins[n] + size = begins[n + 1]
  <2>1. PICK b \in Nat, c \in Nat : b = begins[n] /\ c = begins[n + 1] /\ b < c
    BY <1>5
  <2>2. c - b \in Nat /\ b + (c - b) = c
    BY <2>1
  <2> QED
    BY <2>1, <2>2
<1> DEFINE page == AllRows(size, might)
<1>7. page \in Seq(BOOLEAN) /\ Len(page) = size /\ \A i \in 1..size : page[i] = might
  <2>1. might \in BOOLEAN
    BY <1>2, <1>3, <1>4 DEF VerdictsKeep, Allowed
  <2> HIDE DEF size
  <2> QED
    BY <1>6, <2>1 DEF AllRows
<1> HIDE DEF page, size
<1>8. /\ pageRows' \in Seq(BOOLEAN)
      /\ Len(pageRows') = Len(pageRows) + size
      /\ \A i \in 1..Len(pageRows) : pageRows'[i] = pageRows[i]
      /\ \A i \in 1..size : pageRows'[Len(pageRows) + i] = might
      /\ Len(pageRows) \in Nat
  <2>1. Len(pageRows) \in Nat
    BY <1>3, Elements
  <2>2. pageRows' = pageRows \o page
    BY <1>4 DEF page
  <2>3. /\ pageRows \o page \in Seq(BOOLEAN)
        /\ Len(pageRows \o page) = Len(pageRows) + Len(page)
        /\ \A i \in 1..Len(pageRows) : (pageRows \o page)[i] = pageRows[i]
        /\ \A i \in 1..Len(page) : (pageRows \o page)[Len(pageRows) + i] = page[i]
    <3>1. pageRows \in Seq(BOOLEAN) /\ page \in Seq(BOOLEAN)
      BY <1>3, <1>7
    <3>2. PICK rows \in Seq(BOOLEAN), more \in Seq(BOOLEAN) : rows = pageRows /\ more = page
      BY <3>1
    <3>3. /\ rows \o more \in Seq(BOOLEAN)
          /\ Len(rows \o more) = Len(rows) + Len(more)
          /\ \A i \in 1..Len(rows) : (rows \o more)[i] = rows[i]
          /\ \A i \in 1..Len(more) : (rows \o more)[Len(rows) + i] = more[i]
      BY Appended
    <3> QED
      BY <3>2, <3>3
  <2> QED
    BY <1>7, <2>1, <2>2, <2>3
<1>9. /\ RowsBefore[g] \in Nat /\ \A h \in 1..(g - 1) : RowsBefore[h] \in Nat
      /\ g \in Nat /\ \A h \in 1..(g - 1) : sc.groups[h] \in Nat
  <2>1. g \in Nat /\ Len(sc.groups) \in Nat
    BY <1>2, RowGroup
  <2>2. \A h \in 1..g : h \in 1..Len(sc.groups) /\ h \in 1..AllGroups
    BY <1>2, <2>1 DEF AllGroups
  <2>3. \A h \in 1..g : RowsBefore[h] \in Nat /\ sc.groups[h] \in Nat
    BY <2>2, RowsBeforeIs, RowGroup
  <2>4. g \in 1..g /\ \A h \in 1..(g - 1) : h \in 1..g
    BY <1>2, <2>1
  <2> QED
    BY <2>1, <2>3, <2>4
<1>10. Len(pageRows') \in Nat /\ Len(pageRows) <= Len(pageRows')
  BY <1>6, <1>8
<1>11. Len(pageRows') = RowsBefore[g] + begins[n + 1]
  <2>1. PICK a \in Nat, b \in Nat, c \in Nat, d \in Nat :
           a = RowsBefore[g] /\ b = begins[n] /\ c = size /\ d = begins[n + 1]
    BY <1>5, <1>6, <1>9
  <2>2. Len(pageRows') = (a + b) + c /\ b + c = d
    BY <1>3, <1>6, <1>8, <2>1
  <2>3. Len(pageRows') = a + d
    BY <2>2
  <2> QED
    BY <2>1, <2>3
<1>12. ASSUME NEW h \in 1..(g - 1), IsSelected(h)
       PROVE  Keeps(h, sc.groups[h])'
  <2>1. Keeps(h, sc.groups[h]) /\ sc.groups[h] \in Nat /\ RowsBefore[h] \in Nat
    BY <1>3, <1>9, <1>12
  <2>2. PICK count \in Nat : count = sc.groups[h] /\ Keeps(h, count)
    BY <2>1
  <2>3. Keeps(h, count)'
    BY <1>1, <1>8, <1>10, <2>1, <2>2, StaysKept
  <2> QED
    BY <1>1, <2>2, <2>3 DEF Keeps
<1>13. Keeps(g, begins[n + 1])'
  <2>1. Keeps(g, begins[n])'
    <3>1. PICK count \in Nat : count = begins[n] /\ Keeps(g, count)
      BY <1>3, <1>5
    <3>2. Keeps(g, count)'
      BY <1>1, <1>8, <1>9, <1>10, <3>1, StaysKept
    <3> QED
      BY <1>1, <3>1, <3>2 DEF Keeps
  <2>2. RowsBefore' = RowsBefore /\ GroupBase(g)' = GroupBase(g) /\ sc' = sc
    BY <1>1, RowsBeforeSame DEF GroupBase
  <2>3. RowsBefore[g] + begins[n + 1] <= Len(pageRows')
    BY <1>5, <1>9, <1>11
  <2>4. ASSUME NEW i \in 1..begins[n + 1], WantedAt(GroupBase(g) + i - 1)
        PROVE  pageRows'[RowsBefore[g] + i]
    <3>1. CASE i <= begins[n]
      <4>1. i \in 1..begins[n]
        BY <1>5, <3>1
      <4>2. WantedAt(GroupBase(g) + i - 1)'
        BY <2>2, <2>4 DEF WantedAt, Wanted, Positions
      <4> QED
        BY <2>1, <2>2, <4>1, <4>2 DEF Keeps
    <3>2. CASE i > begins[n]
      <4>1. PICK k \in 1..size : i = begins[n] + k /\ k \in Int
        <5>1. /\ i - begins[n] \in 1..size /\ i = begins[n] + (i - begins[n])
              /\ i - begins[n] \in Int
          <6>1. PICK b \in Nat, c \in Nat, d \in Nat :
                   b = begins[n] /\ c = begins[n + 1] /\ d = size /\ b + d = c
            BY <1>5, <1>6
          <6>2. i \in Nat /\ b < i /\ i <= c
            BY <3>2, <6>1
          <6>3. i - b \in 1..d /\ i = b + (i - b) /\ i - b \in Int
            BY <6>1, <6>2
          <6> QED
            BY <6>1, <6>3
        <5> QED
          BY <5>1
      <4>2. pageRows'[Len(pageRows) + k] = might
        BY <1>8, <4>1
      <4>4. Len(pageRows) + k = RowsBefore[g] + i
        <5>1. PICK a \in Nat, b \in Nat : a = RowsBefore[g] /\ b = begins[n]
          BY <1>5, <1>9
        <5>2. (a + b) + k = a + (b + k)
          BY <4>1, <5>1
        <5> QED
          BY <1>3, <4>1, <5>1, <5>2
      <4>3. might
        <5> DEFINE pos == GroupBase(g) + i - 1
        <5>1. /\ GroupBase(g) \in Nat /\ GroupBase(g + 1) = GroupBase(g) + sc.groups[g]
              /\ sc.groups[g] \in Nat
          BY <1>2, RowGroup
        <5>2. begins[n + 1] <= sc.groups[g]
          BY <1>2, <1>3, <1>5, PagesInOrder
        <5>3. /\ GroupBase(g) <= pos /\ pos < GroupBase(g + 1)
              /\ GroupBase(g) + begins[n] <= pos /\ pos < GroupBase(g) + begins[n + 1]
          <6>1. PICK a \in Nat, b \in Nat, c \in Nat, d \in Nat :
                   a = GroupBase(g) /\ b = begins[n] /\ c = begins[n + 1] /\ d = sc.groups[g]
            BY <1>5, <5>1
          <6>2. i \in Nat /\ b < i /\ i <= c /\ c <= d /\ GroupBase(g + 1) = a + d
            BY <3>2, <5>1, <5>2, <6>1
          <6>3. a <= a + i - 1 /\ a + i - 1 < a + d /\ a + b <= a + i - 1 /\ a + i - 1 < a + c
            BY <6>2
          <6> QED
            BY <6>1, <6>2, <6>3
        <5>4. pos \in Positions /\ WantedAt(pos)
          BY <2>4 DEF WantedAt
        <5> HIDE DEF pos
        <5> QED
          BY <1>2, <1>3, <1>4, <5>3, <5>4, VerdictsOn
      <4> QED
        BY <4>2, <4>3, <4>4
    <3> QED
      BY <1>5, <3>1, <3>2
  <2>5. \A i : WantedAt(GroupBase(g) + i - 1)' = WantedAt(GroupBase(g) + i - 1)
    BY <2>2 DEF WantedAt, Wanted, Positions
  <2> QED
    BY <2>2, <2>3, <2>4, <2>5 DEF Keeps
<1> QED
  BY <1>1, <1>2, <1>3, <1>8, <1>11, <1>12, <1>13

LEMMA SameRows ==
    ASSUME UNCHANGED <<sc, selected, pageRows>>
    PROVE  \A g, count : Keeps(g, count) => Keeps(g, count)'
<1>1. RowsBefore' = RowsBefore
  BY RowsBeforeSame
<1> QED
  BY <1>1 DEF Keeps, WantedAt, Wanted, Positions, GroupBase

LEMMA SameChoice ==
    ASSUME UNCHANGED <<sc, selected>>, WantedChosen, phase \in Choosing \/ phase' \notin Choosing
    PROVE  WantedChosen'
  BY SameSplit DEF WantedChosen, WantedAt, Wanted, Positions, InGroup, GroupBase, IsSelected,
     SelectedGroups

LEMMA FirstRow == TypeInv => RowsBefore[1] = 0
  BY RowsBeforeIs DEF Offsets

(* The selection of pages begins with nothing, at the first page.               *)
LEMMA PagesBegin ==
    ASSUME TypeInv', UNCHANGED sc, at' = <<1, 1>>, pageRows' = << >>
    PROVE  PagesInv'
<1>1. RowsBefore'[1] = 0
  <2>1. (RowsBefore[1] = 0)'
    BY FirstRow, PTL
  <2> QED
    BY <2>1
<1>2. IsRead(sc) /\ IsFile(sc) /\ Len(sc.groups) \in Nat
  <2>1. sc \in Scenarios
    BY DEF TypeInv
  <2>2. IsRead(sc) /\ IsFile(sc)
    BY <2>1, ReadAssumption, ScenarioAssumption
  <2> QED
    BY <2>2 DEF IsFile
<1>3. Len(pageRows') = 0 /\ (pageRows \in Seq(BOOLEAN))'
  OBVIOUS
<1>4. Keeps(1, 0)'
  BY <1>1, <1>3 DEF Keeps
<1>5. CASE AllGroups = 1
  BY <1>1, <1>2, <1>3, <1>4, <1>5 DEF PagesInv, AllGroups
<1>6. CASE AllGroups # 1
  <2>1. 1 \in 1..Len(sc.groups)
    BY <1>2, <1>6 DEF AllGroups
  <2>2. /\ sc.pages[1] \in Seq(Nat)
        /\ sc.pages[1][1] = 0 /\ Len(sc.pages[1]) > 1
    BY <1>2, <2>1 DEF IsRead
  <2>3. Len(sc.pages[1]) \in Nat
    BY <2>2
  <2>4. 1 \in 1..(Len(sc.pages[1]) - 1)
    BY <2>2, <2>3
  <2> QED
    BY <1>1, <1>2, <1>3, <1>4, <1>6, <2>2, <2>4 DEF PagesInv, AllGroups
<1> QED
  BY <1>5, <1>6

(* It goes on with the first page of the next row group.                        *)
LEMMA PagesContinue ==
    ASSUME TypeInv, UNCHANGED <<sc, selected>>, NEW g \in 1..Len(sc.groups),
           at' = <<g + 1, 1>>, (pageRows \in Seq(BOOLEAN))', Len(pageRows') = RowsBefore[g + 1],
           \A h \in 1..g : IsSelected(h) => Keeps(h, sc.groups[h])'
    PROVE  PagesInv'
<1>1. /\ RowsBefore' = RowsBefore /\ AllGroups' = AllGroups
      /\ \A h : IsSelected(h)' = IsSelected(h)
  BY RowsBeforeSame DEF AllGroups, IsSelected, SelectedGroups
<1>2. Len(sc.groups) \in Nat /\ g \in Nat /\ g + 1 \in 1..AllGroups /\ (g + 1) - 1 = g
  BY RowGroup DEF AllGroups
<1>3. RowsBefore[g + 1] \in Nat
  BY <1>2, RowsBeforeIs
<1>4. Keeps(g + 1, 0)'
  BY <1>1, <1>3 DEF Keeps
<1>5. CASE g + 1 = AllGroups
  BY <1>1, <1>2, <1>3, <1>4, <1>5 DEF PagesInv
<1>6. CASE g + 1 # AllGroups
  <2>1. g + 1 \in 1..Len(sc.groups)
    BY <1>2, <1>6 DEF AllGroups
  <2>2. sc.pages[g + 1][1] = 0 /\ 1 \in 1..(Len(sc.pages[g + 1]) - 1)
    BY <2>1, PagesOf
  <2>3. RowsBefore[g + 1] + 0 = RowsBefore[g + 1]
    BY <1>3
  <2> QED
    BY <1>1, <1>2, <1>4, <1>6, <2>2, <2>3 DEF PagesInv
<1> QED
  BY <1>5, <1>6

LEMMA SkipPagesKeeps ==
    ASSUME TypeInv, PagesInv, SkipPages
    PROVE  PagesInv'
<1>1. PICK g : g = at[1]
  OBVIOUS
<1>2. /\ phase = "pages" /\ GroupsLeft /\ ~IsSelected(g) /\ UNCHANGED <<sc, selected, pageRows>>
      /\ at' = <<g + 1, 1>>
  BY <1>1 DEF SkipPages
<1>3. g \in 1..Len(sc.groups) /\ g # AllGroups
  <2>1. at[1] \in 1..Len(sc.groups)
    BY <1>2, AtRowGroup DEF PagesInv
  <2>2. Len(sc.groups) \in Nat
    BY ScenarioAssumption DEF TypeInv, IsFile
  <2> QED
    BY <1>1, <2>1, <2>2 DEF AllGroups
<1>4. /\ pageRows \in Seq(BOOLEAN) /\ Len(pageRows) = RowsBefore[g] + sc.pages[g][1]
      /\ \A h \in 1..(g - 1) : IsSelected(h) => Keeps(h, sc.groups[h])
  BY <1>1, <1>2, <1>3 DEF PagesInv
<1>5. RowsBefore[g + 1] = RowsBefore[g] + 0 /\ RowsBefore[g] \in Nat
  <2>1. g \in 1..(AllGroups - 1) /\ g \in 1..AllGroups
    BY <1>3, RowGroup DEF AllGroups
  <2> QED
    BY <1>2, <2>1, RowsBeforeIs DEF Offsets, SelectedRows
<1>6. Len(pageRows') = RowsBefore[g + 1]
  BY <1>2, <1>3, <1>4, <1>5, PagesOf
<1>7. \A h \in 1..g : IsSelected(h) => Keeps(h, sc.groups[h])'
  <2>1. \A h \in 1..g : IsSelected(h) => h \in 1..(g - 1)
    BY <1>2, <1>3, RowGroup
  <2> QED
    BY <1>2, <1>4, <2>1, SameRows DEF Keeps
<1> QED
  BY <1>2, <1>3, <1>4, <1>6, <1>7, PagesContinue

LEMMA SelectPageKeeps ==
    ASSUME TypeInv, VerdictsKeep(sc), PagesInv, SelectPage
    PROVE  PagesInv'
<1>1. PICK g, n : g = at[1] /\ n = at[2]
  OBVIOUS
<1>2. /\ g \in 1..Len(sc.groups) /\ n \in 1..(Len(sc.pages[g]) - 1)
      /\ (pageRows \in Seq(BOOLEAN))'
      /\ Len(pageRows') = RowsBefore[g] + sc.pages[g][n + 1]
      /\ \A h \in 1..(g - 1) : IsSelected(h) => Keeps(h, sc.groups[h])'
      /\ Keeps(g, sc.pages[g][n + 1])'
  BY <1>1, PageSelected
<1>3. /\ IsSelected(g) /\ UNCHANGED <<sc, selected, phase>>
      /\ at' = IF n + 1 < Len(sc.pages[g]) THEN <<g, n + 1>> ELSE <<g + 1, 1>>
  BY <1>1 DEF SelectPage
<1>4. /\ RowsBefore' = RowsBefore /\ AllGroups' = AllGroups
      /\ \A h : IsSelected(h)' = IsSelected(h)
  BY <1>3, RowsBeforeSame DEF AllGroups, IsSelected, SelectedGroups
<1>5. Len(sc.pages[g]) \in Nat /\ n + 1 \in Nat /\ Len(sc.groups) \in Nat
  BY <1>2, PagesOf, RowGroup
<1>6. CASE n + 1 < Len(sc.pages[g])
  <2>1. n + 1 \in 1..(Len(sc.pages[g]) - 1) /\ g \in 1..AllGroups /\ g # AllGroups
    BY <1>2, <1>5, <1>6 DEF AllGroups
  <2>2. at' = <<g, n + 1>>
    BY <1>3, <1>6
  <2> QED
    BY <1>2, <1>3, <1>4, <2>1, <2>2 DEF PagesInv
<1>7. CASE ~(n + 1 < Len(sc.pages[g]))
  <2>1. n + 1 = Len(sc.pages[g])
    BY <1>2, <1>5, <1>7
  <2>2. sc.pages[g][n + 1] = sc.groups[g]
    BY <1>2, <2>1, PagesOf
  <2>3. RowsBefore[g + 1] = RowsBefore[g] + sc.groups[g]
    <3>1. g \in 1..(AllGroups - 1)
      BY <1>2, <1>5 DEF AllGroups
    <3> QED
      BY <1>3, <3>1, RowsBeforeIs DEF Offsets, SelectedRows
  <2>4. \A h \in 1..g : IsSelected(h) => Keeps(h, sc.groups[h])'
    <3>1. \A h \in 1..g : h = g \/ h \in 1..(g - 1)
      BY <1>2, <1>5
    <3>2. Keeps(g, sc.groups[g])'
      BY <1>2, <1>3, <2>2 DEF Keeps
    <3> QED
      BY <1>2, <3>1, <3>2
  <2>5. at' = <<g + 1, 1>>
    BY <1>3, <1>7
  <2> QED
    BY <1>2, <1>3, <2>2, <2>3, <2>4, <2>5, PagesContinue
<1> QED
  BY <1>6, <1>7

LEMMA InitKeepInv == Init => KeepInv
  BY DEF Init, DeletesInit, KeepInv, Planning, Choosing, WantedChosen, PagesInv, NoRowLost

(* A wanted row that a read returns to is decoded.                              *)
LEMMA DecodesWanted ==
    ASSUME DInv, KeepInv, VerdictsKeep(sc), Decode
    PROVE  NoRowLost'
<1>1. TypeInv /\ phase = "decode" /\ UNCHANGED sc
  BY DEF DInv, Decode
<1>2. ASSUME NEW pos \in Positions, InSplit(pos), Live(pos), Asked(sc, sc.rows[pos + 1])
      PROVE  pos \in out'
  <2>1. PICK g \in 1..Len(sc.groups) : InGroup(pos, g) /\ GroupInSplit(g)
    BY <1>2 DEF InSplit
  <2>2. Wanted(sc, sc.rows[pos + 1]) /\ WantedAt(pos)
    BY <1>2 DEF Live, Wanted, WantedAt
  <2>3. g \in SelectedGroups
    BY <1>1, <2>1, <2>2 DEF KeepInv, WantedChosen, Choosing, IsSelected
  <2>4. PICK i \in 1..sc.groups[g] :
           /\ pos = GroupBase(g) + i - 1
           /\ RowsBefore[g] + pos - GroupBase(g) + 1 = RowsBefore[g] + i
    BY <1>1, <2>1, RowOfGroup
  <2>5. sc.rowSelection => pageRows[RowsBefore[g] + i]
    <3>1. sc.rowSelection => Keeps(g, sc.groups[g])
      BY <1>1, <2>3 DEF KeepInv
    <3> QED
      BY <2>2, <2>4, <3>1 DEF Keeps
  <2>6. sc.posDeleted # {} => deletes.rows[RowsBefore[g] + pos - GroupBase(g) + 1]
    BY <1>1, <1>2, <2>1, <2>3, DeletesSay DEF Live
  <2>7. RowPasses(sc, sc.rows[pos + 1])
    BY <1>1, <1>2, <2>2, VerdictsOn
  <2>8. Decodes(pos, g)
    BY <2>4, <2>5, <2>6, <2>7 DEF Decodes
  <2> QED
    BY <1>2, <2>1, <2>3, <2>8 DEF Decode
<1> QED
  BY <1>1, <1>2 DEF NoRowLost, Positions, InSplit, InGroup, GroupBase, GroupInSplit, WholeFile, Live

(* A step that skips everything has no wanted row to skip.                      *)
LEMMA SkipsNothingWanted ==
    ASSUME UNCHANGED sc, \A pos : ~WantedAt(pos)
    PROVE  NoRowLost'
<1>1. \A pos \in Positions : Live(pos) => ~Asked(sc, sc.rows[pos + 1])
  BY DEF Live, WantedAt, Wanted
<1> QED
  BY <1>1 DEF NoRowLost, Positions, InSplit, InGroup, GroupBase, GroupInSplit, WholeFile, Live

LEMMA StillChosen ==
    ASSUME UNCHANGED sc,
           \A pos \in Positions, g \in 1..Len(sc.groups) :
              WantedAt(pos) /\ InGroup(pos, g) /\ GroupInSplit(g) => g \in SelectedGroups'
    PROVE  WantedChosen'
<1>1. \A pos : WantedAt(pos)' = WantedAt(pos)
  BY DEF WantedAt, Wanted, Positions
<1>2. \A pos, g : InGroup(pos, g)' = InGroup(pos, g) /\ GroupInSplit(g)' = GroupInSplit(g)
  BY SameSplit DEF InGroup, GroupBase
<1> QED
  BY <1>1, <1>2 DEF WantedChosen, IsSelected, Positions

LEMMA StepKeepInv ==
    ASSUME \A s \in Scenarios : VerdictsKeep(s), DInv, DInv', KeepInv, [Next]_vars
    PROVE  KeepInv'
<1> USE DEF Goto, Planning, Choosing
<1>0. TypeInv /\ VerdictsKeep(sc) /\ TypeInv'
  BY DEF DInv, TypeInv
<1>1. CASE EvalManifest
  <2>1. \A pos : WantedAt(pos) => ManifestMight(sc)
    BY <1>0, VerdictsOn DEF WantedAt
  <2>2. phase' = "done" => NoRowLost'
    BY <1>1, <2>1, SkipsNothingWanted DEF EvalManifest, PassOrSkip
  <2> QED
    BY <1>1, <2>2 DEF EvalManifest, PassOrSkip, KeepInv, WantedChosen, PagesInv, NoRowLost
<1>2. CASE EvalPartition
  <2>1. \A pos : WantedAt(pos) => PartitionMight(sc)
    BY <1>0, VerdictsOn DEF WantedAt
  <2>2. phase' = "done" => NoRowLost'
    BY <1>2, <2>1, SkipsNothingWanted DEF EvalPartition, PassOrSkip
  <2> QED
    BY <1>2, <2>2 DEF EvalPartition, PassOrSkip, KeepInv, WantedChosen, PagesInv, NoRowLost
<1>3. CASE EvalMetrics
  <2>1. \A pos : WantedAt(pos) => \A might \in FileOutcomes(sc) : might
    BY <1>0, VerdictsOn DEF WantedAt
  <2>2. phase' = "done" => NoRowLost'
    BY <1>3, <2>1, SkipsNothingWanted DEF EvalMetrics, PassOrSkip
  <2> QED
    BY <1>3, <2>2 DEF EvalMetrics, PassOrSkip, KeepInv, WantedChosen, PagesInv, NoRowLost
<1>4. CASE SelectByteRange
  <2>1. /\ phase = "byteRange" /\ UNCHANGED <<sc, pageRows>> /\ at' = <<1, 1>>
        /\ phase' \in {"rowGroups", "pages", "deletes"}
        /\ phase' = "deletes" => ~sc.rowSelection
    BY <1>4 DEF SelectByteRange
  <2>2. pageRows' = << >>
    BY <2>1 DEF KeepInv
  <2>3. WantedChosen'
    BY <1>0, <1>4, <2>1, ByteRange, StillChosen
  <2>4. PagesInv'
    BY <1>0, <2>1, <2>2, PagesBegin
  <2> QED
    BY <2>1, <2>2, <2>3, <2>4 DEF KeepInv, NoRowLost
<1>5. CASE SelectRowGroup
  <2>1. /\ phase = "rowGroups" /\ phase' = "rowGroups" /\ UNCHANGED <<sc, pageRows>>
    BY <1>5 DEF SelectRowGroup
  <2>2. PICK might \in GroupOutcomes(sc, at[1]) :
           SelectedGroups' = IF might THEN SelectedGroups ELSE SelectedGroups \ {at[1]}
    BY <1>0, <1>5, DropsOne
  <2>3. ASSUME NEW pos \in Positions, NEW g \in 1..Len(sc.groups),
               WantedAt(pos), InGroup(pos, g), GroupInSplit(g)
        PROVE  g \in SelectedGroups'
    <3>1. g \in SelectedGroups
      BY <2>1, <2>3 DEF KeepInv, WantedChosen, IsSelected
    <3>2. g = at[1] => might
      BY <1>0, <2>2, <2>3, VerdictsOn
    <3> QED
      BY <2>2, <3>1, <3>2
  <2>4. WantedChosen'
    BY <2>1, <2>3, StillChosen
  <2> QED
    BY <2>1, <2>4 DEF KeepInv, PagesInv, NoRowLost
<1>6. CASE RowGroupsSelected
  <2>1. /\ phase = "rowGroups" /\ UNCHANGED <<sc, selected, pageRows>> /\ at' = <<1, 1>>
        /\ phase' \in {"pages", "deletes"}
        /\ phase' = "deletes" => ~sc.rowSelection
    BY <1>6 DEF RowGroupsSelected
  <2>2. pageRows' = << >>
    BY <2>1 DEF KeepInv
  <2>3. PagesInv'
    BY <1>0, <2>1, <2>2, PagesBegin
  <2>4. WantedChosen'
    BY <2>1, SameChoice DEF KeepInv
  <2> QED
    BY <2>1, <2>2, <2>3, <2>4 DEF KeepInv, NoRowLost
<1>7. ASSUME phase = "pages", phase' = "pages", UNCHANGED <<sc, selected>>, PagesInv'
      PROVE  KeepInv'
  BY <1>7, SameChoice DEF KeepInv, NoRowLost
<1>8. CASE SkipPages
  BY <1>0, <1>7, <1>8, SkipPagesKeeps DEF SkipPages, KeepInv
<1>9. CASE SelectPage
  BY <1>0, <1>7, <1>9, SelectPageKeeps DEF SelectPage, KeepInv
<1>10. CASE PagesSelected
  <2>1. /\ phase = "pages" /\ phase' = "deletes" /\ ~GroupsLeft
        /\ UNCHANGED <<sc, selected, pageRows>>
    BY <1>10 DEF PagesSelected
  <2>2. at[1] \in 1..AllGroups /\ \A h \in 1..(at[1] - 1) : IsSelected(h) => Keeps(h, sc.groups[h])
    BY <2>1 DEF KeepInv, PagesInv
  <2>3. \A g \in SelectedGroups : Keeps(g, sc.groups[g])'
    <3>1. SelectedGroups \subseteq 1..Len(sc.groups) /\ Len(sc.groups) \in Nat
      BY <1>0, ScenarioAssumption DEF TypeInv, SelectedGroups, IsFile
    <3>2. \A g \in SelectedGroups : g \in 1..(at[1] - 1)
      BY <2>1, <2>2, <3>1 DEF GroupsLeft, AllGroups
    <3> QED
      BY <2>1, <2>2, <3>2, SameRows DEF IsSelected, Keeps
  <2>4. SelectedGroups' = SelectedGroups
    BY <2>1 DEF SelectedGroups
  <2>5. WantedChosen'
    BY <2>1, SameChoice DEF KeepInv
  <2> QED
    BY <2>1, <2>3, <2>4, <2>5 DEF KeepInv, PagesInv, NoRowLost, Keeps
<1>11. CASE Decode
  <2>1. NoRowLost'
    BY <1>0, <1>11, DecodesWanted
  <2> QED
    BY <1>11, <2>1 DEF Decode, KeepInv, WantedChosen, PagesInv
<1>12. ASSUME phase \in {"deletes", "deleteRows"}, phase' \in {"deleteRows", "decode"},
              UNCHANGED <<sc, selected, pageRows, out>>
       PROVE  KeepInv'
  <2>1. WantedChosen'
    BY <1>12, SameChoice DEF KeepInv
  <2>2. sc.rowSelection => \A g \in SelectedGroups : Keeps(g, sc.groups[g])
    BY <1>12 DEF KeepInv
  <2>3. sc.rowSelection => \A g \in SelectedGroups : Keeps(g, sc.groups[g])'
    BY <1>12, <2>2, SameRows DEF Keeps
  <2>4. SelectedGroups' = SelectedGroups
    BY <1>12 DEF SelectedGroups
  <2> QED
    BY <1>12, <2>1, <2>3, <2>4 DEF KeepInv, PagesInv, NoRowLost, Keeps
<1>13. CASE UNCHANGED unread /\ (NoDeletes \/ StartDeletes \/ SkipGroup \/ DeleteInGroup \/ DeletesApplied)
  BY <1>12, <1>13 DEF unread, NoDeletes, StartDeletes, SkipGroup, DeleteInGroup, NextGroup,
     DeletesApplied
<1>14. CASE UNCHANGED vars
  <2>1. UNCHANGED <<sc, phase, selected, at, pageRows, out>>
    BY <1>14 DEF vars, deleteVars
  <2>2. RowsBefore' = RowsBefore /\ SelectedGroups' = SelectedGroups /\ AllGroups' = AllGroups
    BY <2>1, RowsBeforeSame DEF SelectedGroups, AllGroups
  <2>3. WantedChosen'
    BY <2>1, <2>2, SameSplit DEF KeepInv, WantedChosen, WantedAt, Wanted, Positions, InGroup,
       GroupBase, IsSelected
  <2>4. PagesInv'
    BY <2>1, <2>2 DEF KeepInv, PagesInv, Keeps, WantedAt, Wanted, Positions, GroupBase, IsSelected
  <2>5. NoRowLost'
    BY <2>1 DEF KeepInv, NoRowLost, Positions, InSplit, InGroup, GroupBase, GroupInSplit, WholeFile,
       Live
  <2>6. (sc.rowSelection /\ phase \in {"deletes", "deleteRows", "decode"} =>
            \A g \in SelectedGroups : Keeps(g, sc.groups[g]))'
    BY <2>1, <2>2 DEF KeepInv, Keeps, WantedAt, Wanted, Positions, GroupBase
  <2> QED
    BY <2>1, <2>3, <2>4, <2>5, <2>6 DEF KeepInv
<1> QED
  BY <1>1, <1>2, <1>3, <1>4, <1>5, <1>6, <1>8, <1>9, <1>10, <1>11, <1>13, <1>14 DEF Next, Finished

(* If no step rejects what a wanted row is in, a read returns every live row of *)
(* the split that the filter is true of, for any layout of row groups and       *)
(* pages, any split and any deletes.                                            *)
THEOREM NoRowIsLost ==
    ASSUME \A s \in Scenarios : VerdictsKeep(s)
    PROVE  Spec => []NoRowLost
<1>1. DInv /\ DInv' /\ KeepInv /\ [Next]_vars => KeepInv'
  BY StepKeepInv
<1>2. Spec => []KeepInv
  BY <1>1, InitKeepInv, DInvOfRead, PTL DEF Spec
<1>3. KeepInv => NoRowLost
  BY DEF KeepInv
<1> QED
  BY <1>2, <1>3, PTL

-----------------------------------------------------------------------------
(***************************************************************************)
(* The order of values                                                      *)
(***************************************************************************)
(* Numbers and strings, the values that have bounds. *)
Ordinary == Seq(Int)

LEMMA OrdinaryIsNot ==
    ASSUME NEW v \in Ordinary
    PROVE  v # NaN /\ v # None
BY DatumAssumption DEF Ordinary

(* Where two values part: they agree on k characters and not on one more. *)
PartAt(a, b, k) ==
    /\ k \in Nat /\ k <= Len(a) /\ k <= Len(b)
    /\ \A i \in 1..k : a[i] = b[i]
    /\ k < Len(a) /\ k < Len(b) => a[k + 1] # b[k + 1]

LEMMA TheyPart ==
    ASSUME NEW a \in Ordinary, NEW b \in Ordinary
    PROVE  \E k \in Nat : PartAt(a, b, k)
<1> USE DEF Ordinary
<1> DEFINE T == {k \in Nat : /\ k <= Len(a) /\ k <= Len(b)
                             /\ k < Len(a) /\ k < Len(b) => a[k + 1] # b[k + 1]}
<1>1. Len(a) \in Nat /\ Len(b) \in Nat
  OBVIOUS
<1>2. (IF Len(a) <= Len(b) THEN Len(a) ELSE Len(b)) \in T
  BY <1>1
<1>3. PICK k \in T : \A m \in T : k <= m
  BY <1>2, LeastOf
<1>4. \A i \in 1..k : a[i] = b[i]
  <2> SUFFICES ASSUME NEW i \in 1..k, a[i] # b[i] PROVE FALSE
    OBVIOUS
  <2>1. i - 1 \in Nat /\ i - 1 < Len(a) /\ i - 1 < Len(b) /\ a[(i - 1) + 1] # b[(i - 1) + 1]
    BY <1>1, <1>3
  <2>2. i - 1 \in T
    BY <2>1
  <2> HIDE DEF T
  <2>3. k <= i - 1 /\ k \in Nat
    BY <1>3, <2>2 DEF T
  <2> QED
    BY <2>3
<1> QED
  BY <1>3, <1>4 DEF PartAt

(* The beginning of a value. *)
LEMMA TakeIs ==
    ASSUME NEW s \in Ordinary, NEW n \in Nat
    PROVE  /\ Take(s, n) \in Ordinary
           /\ Len(Take(s, n)) = IF n < Len(s) THEN n ELSE Len(s)
           /\ \A i \in 1..Len(Take(s, n)) : Take(s, n)[i] = s[i]
<1> USE DEF Ordinary, Take
<1>1. CASE n < Len(s)
  <2>1. /\ SubSeq(s, 1, n) \in Seq(Int)
        /\ Len(SubSeq(s, 1, n)) = n
        /\ \A i \in 1..n : SubSeq(s, 1, n)[i] = s[i]
    BY <1>1
  <2> QED
    BY <1>1, <2>1
<1>2. CASE ~(n < Len(s))
  BY <1>2
<1> QED
  BY <1>1, <1>2

LEMMA StartsWithIs ==
    ASSUME NEW s \in Ordinary, NEW p \in Ordinary
    PROVE  StartsWith(s, p) <=> Len(p) <= Len(s) /\ \A i \in 1..Len(p) : s[i] = p[i]
<1>1. Len(p) \in Nat /\ Len(s) \in Nat
  BY DEF Ordinary
<1>2. /\ Take(s, Len(p)) \in Ordinary
      /\ Len(Take(s, Len(p))) = IF Len(p) < Len(s) THEN Len(p) ELSE Len(s)
      /\ \A i \in 1..Len(Take(s, Len(p))) : Take(s, Len(p))[i] = s[i]
  BY <1>1, TakeIs
<1>3. ASSUME Len(p) <= Len(s), \A i \in 1..Len(p) : s[i] = p[i]
      PROVE  Take(s, Len(p)) = p
  <2>1. Len(Take(s, Len(p))) = Len(p)
    BY <1>1, <1>2, <1>3
  <2>2. \A i \in 1..Len(Take(s, Len(p))) : Take(s, Len(p))[i] = p[i]
    BY <1>2, <1>3, <2>1
  <2> QED
    BY <1>2, <2>1, <2>2, SeqEqual DEF Ordinary
<1>4. ASSUME Len(p) <= Len(s), Take(s, Len(p)) = p
      PROVE  \A i \in 1..Len(p) : s[i] = p[i]
  BY <1>2, <1>4
<1> QED
  BY <1>3, <1>4 DEF StartsWith

(* The order looks at the place where they part. *)
LEMMA LessIs ==
    ASSUME NEW a \in Ordinary, NEW b \in Ordinary, NEW k, PartAt(a, b, k)
    PROVE  Less(a, b) <=> k < Len(b) /\ (k = Len(a) \/ a[k + 1] < b[k + 1])
<1>1. a # NaN /\ b # NaN /\ Len(a) \in Nat /\ Len(b) \in Nat
  BY OrdinaryIsNot DEF Ordinary
<1>2. Less(a, b) <=> \/ Len(a) < Len(b) /\ \A i \in 1..Len(a) : b[i] = a[i]
                     \/ \E i \in 1..Len(a) : /\ i <= Len(b)
                                             /\ a[i] < b[i]
                                             /\ \A j \in 1..(i - 1) : a[j] = b[j]
  BY <1>1, StartsWithIs DEF Less
<1>3. \A i \in 1..Len(a) : a[i] \in Int
  BY DEF Ordinary
<1>4. ASSUME Less(a, b) PROVE k < Len(b) /\ (k = Len(a) \/ a[k + 1] < b[k + 1])
  <2>1. CASE Len(a) < Len(b) /\ \A i \in 1..Len(a) : b[i] = a[i]
    <3>1. k = Len(a)
      BY <1>1, <2>1 DEF PartAt
    <3> QED
      BY <2>1, <3>1
  <2>2. ASSUME NEW i \in 1..Len(a), i <= Len(b), a[i] < b[i], \A j \in 1..(i - 1) : a[j] = b[j]
        PROVE  k + 1 = i
    <3>1. ~(i <= k)
      BY <1>3, <2>2 DEF PartAt
    <3>2. ~(k + 1 < i)
      BY <1>1, <2>2 DEF PartAt
    <3> QED
      BY <1>1, <3>1, <3>2 DEF PartAt
  <2>3. CASE ~(Len(a) < Len(b) /\ \A i \in 1..Len(a) : b[i] = a[i])
    <3>1. PICK i \in 1..Len(a) : i <= Len(b) /\ a[i] < b[i] /\ \A j \in 1..(i - 1) : a[j] = b[j]
      BY <1>2, <1>4, <2>3
    <3>2. k + 1 = i
      BY <2>2, <3>1
    <3> QED
      BY <1>1, <3>1, <3>2 DEF PartAt
  <2> QED
    BY <2>1, <2>3
<1>5. ASSUME k < Len(b), k = Len(a) PROVE Less(a, b)
  <2>1. Len(a) < Len(b) /\ \A i \in 1..Len(a) : b[i] = a[i]
    BY <1>5 DEF PartAt
  <2> QED
    BY <1>2, <2>1
<1>6. ASSUME k < Len(b), k # Len(a), a[k + 1] < b[k + 1] PROVE Less(a, b)
  <2>1. k \in Nat /\ k + 1 \in 1..Len(a) /\ k + 1 <= Len(b) /\ \A j \in 1..k : a[j] = b[j]
    BY <1>1, <1>6 DEF PartAt
  <2>2. \E i \in 1..Len(a) : i <= Len(b) /\ a[i] < b[i] /\ \A j \in 1..(i - 1) : a[j] = b[j]
    <3>1. (k + 1) - 1 = k
      BY <2>1
    <3> QED
      BY <1>6, <2>1, <3>1
  <2> QED
    BY <1>2, <2>2
<1> QED
  BY <1>4, <1>5, <1>6
LEMMA PartEitherWay ==
    ASSUME NEW a, NEW b, NEW k, PartAt(a, b, k)
    PROVE  PartAt(b, a, k)
BY DEF PartAt

(* It is a strict and total order. *)
LEMMA LessIsTotal ==
    ASSUME NEW a \in Ordinary, NEW b \in Ordinary
    PROVE  Less(a, b) \/ Less(b, a) \/ a = b
<1>1. PICK k \in Nat : PartAt(a, b, k)
  BY TheyPart
<1>2. /\ Less(a, b) <=> k < Len(b) /\ (k = Len(a) \/ a[k + 1] < b[k + 1])
      /\ Less(b, a) <=> k < Len(a) /\ (k = Len(b) \/ b[k + 1] < a[k + 1])
  BY <1>1, LessIs, PartEitherWay
<1>3. /\ Len(a) \in Nat /\ Len(b) \in Nat
      /\ \A i \in 1..Len(a) : a[i] \in Int
      /\ \A i \in 1..Len(b) : b[i] \in Int
  BY DEF Ordinary
<1>4. CASE k = Len(a) /\ k = Len(b)
  BY <1>1, <1>4, SeqEqual DEF Ordinary, PartAt
<1>5. CASE k < Len(a) /\ k < Len(b)
  <2>1. k + 1 \in 1..Len(a) /\ k + 1 \in 1..Len(b) /\ a[k + 1] # b[k + 1]
    BY <1>1, <1>3, <1>5 DEF PartAt
  <2>2. a[k + 1] \in Int /\ b[k + 1] \in Int
    BY <1>3, <2>1
  <2> QED
    BY <1>2, <1>5, <2>1, <2>2
<1> QED
  BY <1>1, <1>2, <1>3, <1>4, <1>5 DEF PartAt

LEMMA LessIsStrict ==
    ASSUME NEW a \in Ordinary, NEW b \in Ordinary, Less(a, b)
    PROVE  ~Less(b, a) /\ a # b
<1>1. PICK k \in Nat : PartAt(a, b, k)
  BY TheyPart
<1>2. /\ k < Len(b) /\ (k = Len(a) \/ a[k + 1] < b[k + 1])
      /\ Less(b, a) <=> k < Len(a) /\ (k = Len(b) \/ b[k + 1] < a[k + 1])
  BY <1>1, LessIs, PartEitherWay
<1>3. /\ Len(a) \in Nat /\ Len(b) \in Nat
      /\ \A i \in 1..Len(a) : a[i] \in Int
      /\ \A i \in 1..Len(b) : b[i] \in Int
  BY DEF Ordinary
<1>4. CASE k = Len(a)
  BY <1>2, <1>3, <1>4
<1>5. CASE k # Len(a)
  <2>1. k + 1 \in 1..Len(a) /\ k + 1 \in 1..Len(b)
    BY <1>1, <1>2, <1>3, <1>5 DEF PartAt
  <2>2. a[k + 1] \in Int /\ b[k + 1] \in Int /\ a[k + 1] < b[k + 1]
    BY <1>2, <1>3, <1>5, <2>1
  <2> QED
    BY <1>2, <1>3, <2>1, <2>2
<1> QED
  BY <1>4, <1>5

LEMMA LessIsTransitive ==
    ASSUME NEW a \in Ordinary, NEW b \in Ordinary, NEW c \in Ordinary, Less(a, b), Less(b, c)
    PROVE  Less(a, c)
<1>1. PICK k \in Nat : PartAt(a, b, k)
  BY TheyPart
<1>2. PICK m \in Nat : PartAt(b, c, m)
  BY TheyPart
<1>3. /\ k < Len(b) /\ (k = Len(a) \/ a[k + 1] < b[k + 1])
      /\ m < Len(c) /\ (m = Len(b) \/ b[m + 1] < c[m + 1])
  BY <1>1, <1>2, LessIs
<1>4. /\ Len(a) \in Nat /\ Len(b) \in Nat /\ Len(c) \in Nat
      /\ \A i \in 1..Len(a) : a[i] \in Int
      /\ \A i \in 1..Len(b) : b[i] \in Int
      /\ \A i \in 1..Len(c) : c[i] \in Int
  BY DEF Ordinary
<1>5. CASE k < m
  <2>1. b[k + 1] = c[k + 1]
    BY <1>2, <1>5 DEF PartAt
  <2>2. k < Len(a) => k + 1 \in 1..Len(a) /\ k + 1 \in 1..Len(b)
    BY <1>3, <1>4
  <2>3. k < Len(a) => a[k + 1] # c[k + 1]
    BY <1>3, <1>4, <2>1, <2>2
  <2>4. \A i \in 1..k : a[i] = c[i]
    BY <1>1, <1>2, <1>5 DEF PartAt
  <2>5. PartAt(a, c, k) /\ k < Len(c)
    BY <1>1, <1>3, <1>4, <1>5, <2>3, <2>4 DEF PartAt
  <2> QED
    BY <1>3, <2>1, <2>5, LessIs
<1>6. CASE k = m
  <2>1. m + 1 \in 1..Len(b) /\ m + 1 \in 1..Len(c) /\ b[m + 1] < c[m + 1]
    BY <1>3, <1>4, <1>6
  <2>2. b[m + 1] \in Int /\ c[m + 1] \in Int
    BY <1>4, <2>1
  <2>3. k < Len(a) => k + 1 \in 1..Len(a) /\ a[k + 1] \in Int
    BY <1>4
  <2>4. k < Len(a) => a[k + 1] < c[k + 1]
    BY <1>3, <1>4, <1>6, <2>1, <2>2, <2>3
  <2>5. k < Len(a) => a[k + 1] # c[k + 1]
    BY <1>6, <2>2, <2>3, <2>4
  <2>6. \A i \in 1..k : a[i] = c[i]
    BY <1>1, <1>2, <1>6 DEF PartAt
  <2>7. PartAt(a, c, k) /\ k < Len(c) /\ (k = Len(a) \/ k < Len(a))
    BY <1>1, <1>3, <1>4, <1>6, <2>5, <2>6 DEF PartAt
  <2> QED
    BY <2>4, <2>7, LessIs
<1>7. CASE m < k
  <2>1. m + 1 \in 1..k /\ a[m + 1] = b[m + 1] /\ m # Len(b) /\ m < Len(a)
    BY <1>1, <1>3, <1>4, <1>7 DEF PartAt
  <2>2. a[m + 1] < c[m + 1]
    BY <1>3, <2>1
  <2>3. m + 1 \in 1..Len(a) /\ m + 1 \in 1..Len(c) /\ a[m + 1] # c[m + 1]
    BY <1>3, <1>4, <2>1, <2>2
  <2>4. \A i \in 1..m : a[i] = c[i]
    BY <1>1, <1>2, <1>7 DEF PartAt
  <2>5. PartAt(a, c, m) /\ m < Len(c)
    BY <1>3, <1>4, <2>1, <2>3, <2>4 DEF PartAt
  <2> QED
    BY <2>2, <2>5, LessIs
<1> QED
  BY <1>5, <1>6, <1>7

(* What is not below a lower value is not below it. *)
LEMMA NotLess ==
    ASSUME NEW a \in Ordinary, NEW b \in Ordinary, NEW c \in Ordinary, ~Less(a, b), ~Less(b, c)
    PROVE  ~Less(a, c)
BY LessIsTotal, LessIsStrict, LessIsTransitive

LEMMA NotLessThanLess ==
    ASSUME NEW a \in Ordinary, NEW b \in Ordinary, NEW c \in Ordinary,
           (~Less(b, a) /\ Less(b, c)) \/ (Less(a, b) /\ ~Less(c, b))
    PROVE  Less(a, c)
BY LessIsTotal, LessIsStrict, LessIsTransitive

(* Beginnings are in the order of what they begin. *)
LEMMA TakeKeepsOrder ==
    ASSUME NEW a \in Ordinary, NEW b \in Ordinary, NEW n \in Nat, ~Less(a, b)
    PROVE  ~Less(Take(a, n), Take(b, n))
<1> DEFINE ta == Take(a, n)
           tb == Take(b, n)
<1>1. /\ Len(a) \in Nat /\ Len(b) \in Nat
      /\ \A i \in 1..Len(a) : a[i] \in Int
      /\ \A i \in 1..Len(b) : b[i] \in Int
  BY DEF Ordinary
<1>2. /\ ta \in Ordinary /\ tb \in Ordinary
      /\ Len(ta) = IF n < Len(a) THEN n ELSE Len(a)
      /\ Len(tb) = IF n < Len(b) THEN n ELSE Len(b)
      /\ \A i \in 1..Len(ta) : ta[i] = a[i]
      /\ \A i \in 1..Len(tb) : tb[i] = b[i]
  BY TakeIs
<1> HIDE DEF ta, tb
<1> SUFFICES ASSUME Less(ta, tb) PROVE FALSE
  BY DEF ta, tb
<1>3. PICK k \in Nat : PartAt(ta, tb, k)
  BY <1>2, TheyPart
<1>4. k < Len(tb) /\ (k = Len(ta) \/ ta[k + 1] < tb[k + 1])
  BY <1>2, <1>3, LessIs
<1>5. \A i \in 1..k : a[i] = b[i]
  <2> SUFFICES ASSUME NEW i \in 1..k PROVE a[i] = b[i]
    OBVIOUS
  <2>1. i \in 1..Len(ta) /\ i \in 1..Len(tb) /\ ta[i] = tb[i]
    BY <1>1, <1>2, <1>3 DEF PartAt
  <2> QED
    BY <1>2, <2>1
<1>6. k < Len(b) /\ k <= Len(a)
  BY <1>1, <1>2, <1>3, <1>4 DEF PartAt
<1>7. CASE k = Len(ta)
  <2>1. k = Len(a)
    BY <1>1, <1>2, <1>4, <1>7
  <2>2. PartAt(a, b, k)
    BY <1>5, <1>6, <2>1 DEF PartAt
  <2> QED
    BY <1>6, <2>1, <2>2, LessIs
<1>8. CASE k # Len(ta)
  <2>1. k + 1 \in 1..Len(ta) /\ k + 1 \in 1..Len(tb) /\ k < Len(a)
    BY <1>1, <1>2, <1>3, <1>4, <1>8 DEF PartAt
  <2>2. a[k + 1] < b[k + 1]
    BY <1>2, <1>4, <1>8, <2>1
  <2>3. a[k + 1] \in Int /\ b[k + 1] \in Int
    BY <1>1, <1>6, <2>1
  <2>4. PartAt(a, b, k)
    BY <1>5, <1>6, <2>2, <2>3 DEF PartAt
  <2> QED
    BY <1>6, <2>2, <2>4, LessIs
<1> QED
  BY <1>7, <1>8
-----------------------------------------------------------------------------
(***************************************************************************)
(* Statistics and what they are asked                                       *)
(***************************************************************************)
(* A column: numbers or strings, with NULLs, and with NaNs if it is floating. *)
Column(values, floating) ==
    /\ values \in SUBSET (Ordinary \cup {None, NaN})
    /\ NaN \in values => floating

FileColumn(rows, floating) ==
    /\ rows \in Seq(Ordinary \cup {None, NaN})
    /\ Column(ValuesOf(rows), floating)

(* A leaf of a bound filter: its literals are of the column, none is NaN, and *)
(* only strings are asked for prefixes.                                       *)
UnaryOps == {"isNull", "notNull", "isNaN", "notNaN"}
LiteralOps == Inequalities \cup {"eq", "notEq"}
PrefixOps == {"startsWith", "notStartsWith"}
SetOps == {"in", "notIn"}
LeafFits(p, floating) ==
    /\ p.op \in UnaryOps \cup LiteralOps \cup PrefixOps \cup SetOps
    /\ p.op \in LiteralOps => p.lit \in Ordinary
    /\ p.op \in PrefixOps => p.lit \in Ordinary /\ ~floating
    /\ p.op \in SetOps => p.lits \in SUBSET Ordinary

Below(bound, values) ==
    bound = None \/ (bound \in Ordinary /\ \A v \in Reals(values) : ~Less(v, bound))
Above(bound, values) ==
    bound = None \/ (bound \in Ordinary /\ \A v \in Reals(values) : ~Less(bound, v))

(* What is known is true. *)
Describes(m, rows) ==
    /\ {"values", "nans"} \subseteq DOMAIN m
    /\ m.rows = Len(rows)
    /\ m.values \in {None, Len(rows)}
    /\ m.nulls \in {None, CountOf(rows, None)}
    /\ m.nans \in {None, CountOf(rows, NaN)}
    /\ Below(m.lower, ValuesOf(rows))
    /\ Above(m.upper, ValuesOf(rows))

LEMMA TrueStatsDescribe ==
    ASSUME NEW rows, NEW bounds \in SUBSET Ordinary,
           NEW m \in {Unknown(rows)} \cup TrueStats(rows, bounds)
    PROVE  Describes(m, rows)
<1>1. PICK counted \in BOOLEAN, nansCounted \in BOOLEAN,
            lower \in {None} \cup LowerBounds(ValuesOf(rows), bounds),
            upper \in {None} \cup UpperBounds(ValuesOf(rows), bounds) :
         m = StatsWith(rows, counted, nansCounted, lower, upper)
  <2>1. CASE m = Unknown(rows)
    BY <2>1 DEF Unknown
  <2>2. CASE m \in TrueStats(rows, bounds)
    <3>1. PICK counted \in BOOLEAN, nansCounted \in BOOLEAN,
               lower \in {None} \cup LowerBounds(ValuesOf(rows), bounds),
               upper \in {None} \cup UpperBounds(ValuesOf(rows), bounds) :
            m = StatsWith(rows, counted, counted /\ nansCounted, lower, upper)
      BY <2>2 DEF TrueStats
    <3>2. (counted /\ nansCounted) \in BOOLEAN
      OBVIOUS
    <3> QED
      BY <3>1, <3>2
  <2> QED
    BY <2>1, <2>2
<1>2. Below(lower, ValuesOf(rows)) /\ Above(upper, ValuesOf(rows))
  BY DEF LowerBounds, UpperBounds, Below, Above
<1> QED
  BY <1>1, <1>2 DEF StatsWith, Describes

LEMMA Counting ==
    ASSUME NEW S, NEW rows \in Seq(S), NEW v
    PROVE  /\ CountOf(rows, v) \in Nat
           /\ CountOf(rows, v) = 0 => v \notin ValuesOf(rows)
           /\ CountOf(rows, v) = Len(rows) => \A w \in ValuesOf(rows) : w = v
<1> DEFINE D == {i \in DOMAIN rows : rows[i] = v}
<1>1. DOMAIN rows = 1..Len(rows) /\ Len(rows) \in Nat
  OBVIOUS
<1>2. IsFiniteSet(1..Len(rows)) /\ Cardinality(1..Len(rows)) = Len(rows)
  BY <1>1, FS_Interval
<1>3. D \subseteq 1..Len(rows)
  BY <1>1
<1> HIDE DEF D
<1>4. IsFiniteSet(D) /\ Cardinality(D) \in Nat /\ (Cardinality(D) = Len(rows) => D = 1..Len(rows))
  BY <1>2, <1>3, FS_Subset, FS_CardinalityType
<1>5. Cardinality(D) = 0 => D = {}
  BY <1>4, FS_EmptySet
<1>6. CountOf(rows, v) = Cardinality(D)
  BY DEF CountOf, D
<1>7. D = {} => v \notin ValuesOf(rows)
  BY DEF ValuesOf, D
<1>8. D = 1..Len(rows) => \A w \in ValuesOf(rows) : w = v
  BY <1>1 DEF ValuesOf, D
<1> QED
  BY <1>4, <1>5, <1>6, <1>7, <1>8

(* What the counts say. *)
LEMMA CountsSay ==
    ASSUME NEW S, NEW rows \in Seq(S), NEW m, Describes(m, rows), NEW v \in ValuesOf(rows)
    PROVE  /\ v = None => MayContainNull(m) /\ m.nulls # 0
           /\ v = NaN => MayContainNaN(m)
           /\ v # None => ~ContainsNullsOnly(m) /\ m.nulls # m.rows
           /\ v # NaN => ~ContainsNaNsOnly(m)
<1>1. Len(rows) \in Nat
  OBVIOUS
<1> QED
  BY <1>1, Counting, DatumAssumption
     DEF Describes, MayContainNull, MayContainNaN, ContainsNullsOnly, ContainsNaNsOnly

LEMMA SqlMeans ==
    ASSUME NEW floating, NEW v, NEW p, LeafFits(p, floating), SqlTruth(v, p) = "t"
    PROVE  /\ Holds(v, p)
           /\ v = None => p.op \in UnaryOps
           /\ v = NaN => p.op \notin Inequalities
<1>1. ~(v = None /\ p.op \notin UnaryOps) /\ ~(v = NaN /\ p.op \in Inequalities)
  BY DEF SqlTruth, UnaryOps
<1>2. ~(p.op \in Inequalities /\ p.lit \in {BelowMin, AboveMax})
  BY DatumAssumption DEF LeafFits, LiteralOps, Ordinary
<1> QED
  BY <1>1, <1>2 DEF SqlTruth, UnaryOps
-----------------------------------------------------------------------------
(***************************************************************************)
(* Bounds                                                                   *)
(***************************************************************************)
Bounded(v, lower, upper) ==
    /\ lower = None \/ (lower \in Ordinary /\ ~Less(v, lower))
    /\ upper = None \/ (upper \in Ordinary /\ ~Less(upper, v))

LEMMA BoundsBound ==
    ASSUME NEW rows, NEW m, Describes(m, rows), NEW v \in ValuesOf(rows), v \in Ordinary
    PROVE  Bounded(v, m.lower, m.upper)
BY OrdinaryIsNot DEF Describes, Below, Above, Reals, Bounded

LEMMA BoundsAreNotNaN ==
    ASSUME NEW v, NEW lower, NEW upper, Bounded(v, lower, upper)
    PROVE  lower # NaN /\ upper # NaN
BY OrdinaryIsNot, DatumAssumption DEF Bounded

LEMMA InequalityKeeps ==
    ASSUME NEW v \in Ordinary, NEW lower, NEW upper, Bounded(v, lower, upper),
           NEW p, p.op \in Inequalities, p.lit \in Ordinary, Compares(v, p.op, p.lit)
    PROVE  VisitInequality(lower, upper, p)
<1>1. CASE p.op = "lt" /\ lower # None
  <2>1. Less(v, p.lit) /\ lower \in Ordinary /\ ~Less(v, lower)
    BY <1>1 DEF Compares, Bounded
  <2>2. Less(lower, p.lit)
    BY <2>1, NotLessThanLess
  <2> QED
    BY <1>1, <2>2 DEF VisitInequality, Compares
<1>2. CASE p.op = "le" /\ lower # None
  <2>1. ~Less(p.lit, v) /\ lower \in Ordinary /\ ~Less(v, lower)
    BY <1>2 DEF Compares, Bounded
  <2>2. ~Less(p.lit, lower)
    BY <2>1, NotLess
  <2> QED
    BY <1>2, <2>2 DEF VisitInequality, Compares
<1>3. CASE p.op = "gt" /\ upper # None
  <2>1. Less(p.lit, v) /\ upper \in Ordinary /\ ~Less(upper, v)
    BY <1>3 DEF Compares, Bounded
  <2>2. Less(p.lit, upper)
    BY <2>1, NotLessThanLess
  <2> QED
    BY <1>3, <2>2 DEF VisitInequality, Compares
<1>4. CASE p.op = "ge" /\ upper # None
  <2>1. ~Less(v, p.lit) /\ upper \in Ordinary /\ ~Less(upper, v)
    BY <1>4 DEF Compares, Bounded
  <2>2. ~Less(upper, p.lit)
    BY <2>1, NotLess
  <2> QED
    BY <1>4, <2>2 DEF VisitInequality, Compares
<1> QED
  BY <1>1, <1>2, <1>3, <1>4 DEF Inequalities, VisitInequality

(* If both bounds are on one side of a literal, so is every value.           *)
LEMMA InequalityIsCertain ==
    ASSUME NEW v \in Ordinary, NEW lower, NEW upper, Bounded(v, lower, upper),
           NEW p, p.lit \in Ordinary,
           \/ p.op \in {"lt", "le"} /\ upper # None /\ Compares(upper, p.op, p.lit)
           \/ p.op \in {"gt", "ge"} /\ lower # None /\ Compares(lower, p.op, p.lit)
    PROVE  Compares(v, p.op, p.lit)
<1>1. CASE p.op = "lt"
  <2>1. Less(upper, p.lit) /\ upper \in Ordinary /\ ~Less(upper, v)
    BY <1>1 DEF Compares, Bounded
  <2>2. Less(v, p.lit)
    BY <2>1, NotLessThanLess
  <2> QED
    BY <1>1, <2>2 DEF Compares
<1>2. CASE p.op = "le"
  <2>1. ~Less(p.lit, upper) /\ upper \in Ordinary /\ ~Less(upper, v)
    BY <1>2 DEF Compares, Bounded
  <2>2. ~Less(p.lit, v)
    BY <2>1, NotLess
  <2> QED
    BY <1>2, <2>2 DEF Compares
<1>3. CASE p.op = "gt"
  <2>1. Less(p.lit, lower) /\ lower \in Ordinary /\ ~Less(v, lower)
    BY <1>3 DEF Compares, Bounded
  <2>2. Less(p.lit, v)
    BY <2>1, NotLessThanLess
  <2> QED
    BY <1>3, <2>2 DEF Compares
<1>4. CASE p.op = "ge"
  <2>1. ~Less(lower, p.lit) /\ lower \in Ordinary /\ ~Less(v, lower)
    BY <1>4 DEF Compares, Bounded
  <2>2. ~Less(v, p.lit)
    BY <2>1, NotLess
  <2> QED
    BY <1>4, <2>2 DEF Compares
<1> QED
  BY <1>1, <1>2, <1>3, <1>4

(* Bounds begin around the prefix of any value they bound ... *)
LEMMA PrefixKeeps ==
    ASSUME NEW v \in Ordinary, NEW lower, NEW upper, Bounded(v, lower, upper),
           NEW prefix \in Ordinary, StartsWith(v, prefix)
    PROVE  PrefixMightMatch(lower, upper, prefix)
<1>1. Take(v, Len(prefix)) = prefix /\ Len(prefix) \in Nat
  BY DEF StartsWith, Ordinary
<1>2. ASSUME lower # None PROVE ~Less(prefix, Take(lower, Len(prefix)))
  BY <1>1, <1>2, TakeKeepsOrder DEF Bounded
<1>3. ASSUME upper # None PROVE ~Less(Take(upper, Len(prefix)), prefix)
  BY <1>1, <1>3, TakeKeepsOrder DEF Bounded
<1> QED
  BY <1>2, <1>3 DEF PrefixMightMatch

(* ... and what lies between two values with a prefix has it, too. *)
LEMMA PrefixIsCommon ==
    ASSUME NEW v \in Ordinary, NEW lower, NEW upper, Bounded(v, lower, upper),
           NEW prefix \in Ordinary, BoundsHavePrefix(lower, upper, prefix)
    PROVE  StartsWith(v, prefix)
<1>1. /\ lower \in Ordinary /\ upper \in Ordinary /\ ~Less(v, lower) /\ ~Less(upper, v)
      /\ Take(lower, Len(prefix)) = prefix /\ Take(upper, Len(prefix)) = prefix
      /\ Len(prefix) \in Nat
  BY DEF Bounded, BoundsHavePrefix, StartsWith, Ordinary
<1>2. ~Less(Take(v, Len(prefix)), prefix) /\ ~Less(prefix, Take(v, Len(prefix)))
  BY <1>1, TakeKeepsOrder
<1>3. /\ Take(v, Len(prefix)) \in Ordinary
      /\ Len(Take(v, Len(prefix))) = IF Len(prefix) < Len(v) THEN Len(prefix) ELSE Len(v)
  BY <1>1, TakeIs
<1>4. Take(v, Len(prefix)) = prefix
  BY <1>2, <1>3, LessIsTotal
<1>5. Len(v) \in Nat
  BY DEF Ordinary
<1> QED
  BY <1>1, <1>3, <1>4, <1>5 DEF StartsWith
-----------------------------------------------------------------------------
(***************************************************************************)
(* The evaluators                                                           *)
(***************************************************************************)
LEMMA EqKeeps ==
    ASSUME NEW rows, NEW m, Describes(m, rows), NEW v \in ValuesOf(rows), v \in Ordinary
    PROVE  EqMightMatch(m, v)
BY BoundsBound, BoundsAreNotNaN DEF EqMightMatch, Bounded

LEMMA InKeeps ==
    ASSUME NEW rows, NEW m, Describes(m, rows), NEW v \in ValuesOf(rows), v \in Ordinary,
           NEW lits, v \in lits
    PROVE  InMightMatch(m, lits) /\ PageInMightMatch(m.lower, m.upper, lits)
BY BoundsBound, BoundsAreNotNaN DEF InMightMatch, PageInMightMatch, Bounded

(* A value of which a leaf other than a test for NULL or NaN is true. *)
LEMMA TrueOfOrdinary ==
    ASSUME NEW floating, NEW values, Column(values, floating), NEW v \in values,
           NEW p, LeafFits(p, floating), SqlTruth(v, p) = "t",
           p.op \notin UnaryOps \cup {"notEq", "notIn"}
    PROVE  v \in Ordinary
<1>1. Holds(v, p) /\ v # None
  BY SqlMeans
<1>2. CASE p.op \in Inequalities
  BY <1>1, <1>2, SqlMeans DEF Column
<1>3. CASE p.op = "eq"
  BY <1>1, <1>3 DEF Holds, LeafFits, LiteralOps, Inequalities
<1>4. CASE p.op = "in"
  BY <1>1, <1>4 DEF Holds, LeafFits, SetOps, Inequalities
<1>5. CASE p.op \in PrefixOps
  BY <1>1, <1>5 DEF LeafFits, Column
<1> QED
  BY <1>2, <1>3, <1>4, <1>5 DEF LeafFits, LiteralOps, PrefixOps, SetOps

LEMMA InclusiveKeeps ==
    ASSUME NEW floating, NEW rows, FileColumn(rows, floating), NEW m, Describes(m, rows),
           NEW p, LeafFits(p, floating), NEW v \in ValuesOf(rows), SqlTruth(v, p) = "t"
    PROVE  InclusiveMetrics(m, p)
<1>1. /\ Holds(v, p)
      /\ v = None => p.op \in UnaryOps
  BY SqlMeans
<1>2. /\ v = None => MayContainNull(m)
      /\ v = NaN => MayContainNaN(m)
      /\ v # None => ~ContainsNullsOnly(m)
      /\ v # NaN => ~ContainsNaNsOnly(m)
  BY CountsSay DEF FileColumn
<1>3. p.op \notin UnaryOps \cup {"notEq", "notIn"} => v \in Ordinary /\ v # None /\ v # NaN
  BY TrueOfOrdinary, OrdinaryIsNot DEF FileColumn
<1>4. v \in Ordinary => Bounded(v, m.lower, m.upper)
  BY BoundsBound
<1>5. CASE p.op \in UnaryOps
  <2>1. CASE p.op = "isNull"
    BY <1>1, <1>2, <2>1, DatumAssumption DEF Inequalities, Holds, InclusiveMetrics
  <2>2. CASE p.op = "notNull"
    BY <1>1, <1>2, <2>2, DatumAssumption DEF Inequalities, Holds, InclusiveMetrics
  <2>3. CASE p.op = "isNaN"
    BY <1>1, <1>2, <2>3, DatumAssumption DEF Inequalities, Holds, InclusiveMetrics
  <2>4. CASE p.op = "notNaN"
    BY <1>1, <1>2, <2>4, DatumAssumption DEF Inequalities, Holds, InclusiveMetrics
  <2> QED
    BY <1>5, <2>1, <2>2, <2>3, <2>4 DEF UnaryOps
<1>6. CASE p.op \in Inequalities
  <2>1. v \in Ordinary /\ v # None /\ v # NaN /\ Compares(v, p.op, p.lit) /\ p.lit \in Ordinary
    BY <1>1, <1>3, <1>6 DEF Inequalities, UnaryOps, LiteralOps, LeafFits, Holds
  <2>2. VisitInequality(m.lower, m.upper, p)
    BY <1>4, <1>6, <2>1, InequalityKeeps
  <2> QED
    BY <1>2, <1>6, <2>1, <2>2 DEF Inequalities, InclusiveMetrics
<1>7. CASE p.op = "eq"
  <2>1. v \in Ordinary /\ v # None /\ v # NaN /\ v = p.lit
    BY <1>1, <1>3, <1>7 DEF Inequalities, UnaryOps, Holds
  <2>2. EqMightMatch(m, p.lit)
    BY <2>1, EqKeeps
  <2> QED
    BY <1>2, <1>7, <2>1, <2>2 DEF Inequalities, InclusiveMetrics
<1>8. CASE p.op = "in"
  <2>1. v \in Ordinary /\ v # None /\ v # NaN /\ v \in p.lits
    BY <1>1, <1>3, <1>8 DEF Inequalities, UnaryOps, Holds
  <2>2. InMightMatch(m, p.lits)
    BY <2>1, InKeeps
  <2> QED
    BY <1>2, <1>8, <2>1, <2>2 DEF Inequalities, InclusiveMetrics
<1>9. CASE p.op = "startsWith"
  <2>1. v \in Ordinary /\ v # None /\ StartsWith(v, p.lit) /\ p.lit \in Ordinary
    BY <1>1, <1>3, <1>9 DEF Inequalities, UnaryOps, PrefixOps, LeafFits, Holds
  <2>2. PrefixMightMatch(m.lower, m.upper, p.lit)
    BY <1>4, <2>1, PrefixKeeps
  <2> QED
    BY <1>2, <1>9, <2>1, <2>2 DEF Inequalities, InclusiveMetrics
<1>10. CASE p.op = "notStartsWith"
  <2>1. v \in Ordinary /\ v # None /\ ~StartsWith(v, p.lit) /\ p.lit \in Ordinary
    BY <1>1, <1>3, <1>10 DEF Inequalities, UnaryOps, PrefixOps, LeafFits, Holds
  <2>2. ~BoundsHavePrefix(m.lower, m.upper, p.lit)
    BY <1>4, <2>1, PrefixIsCommon
  <2> QED
    BY <1>10, <2>2 DEF Inequalities, InclusiveMetrics
<1>11. CASE p.op \in {"notEq", "notIn"}
  BY <1>11 DEF Inequalities, InclusiveMetrics
<1> QED
  BY <1>5, <1>6, <1>7, <1>8, <1>9, <1>10, <1>11 DEF LeafFits, LiteralOps, PrefixOps, SetOps

LEMMA RowGroupKeeps ==
    ASSUME NEW floating, NEW rows, FileColumn(rows, floating), NEW m, Describes(m, rows),
           NEW p, LeafFits(p, floating), NEW v \in ValuesOf(rows), SqlTruth(v, p) = "t"
    PROVE  RowGroupMetrics(m, p)
<1>1. Describes([m EXCEPT !.values = m.rows, !.nans = None], rows)
  <2> DEFINE known == [m EXCEPT !.values = m.rows, !.nans = None]
  <2>1. /\ known.rows = m.rows /\ known.lower = m.lower /\ known.upper = m.upper
        /\ known.values = m.rows /\ known.nulls = m.nulls /\ known.nans = None
        /\ {"values", "nans"} \subseteq DOMAIN known
    BY DEF Describes
  <2> HIDE DEF known
  <2>2. Describes(known, rows)
    BY <2>1 DEF Describes
  <2> QED
    BY <2>2 DEF known
<1>2. InclusiveMetrics([m EXCEPT !.values = m.rows, !.nans = None], p)
  BY <1>1, InclusiveKeeps
<1> QED
  BY <1>2 DEF RowGroupMetrics

LEMMA PageKeeps ==
    ASSUME NEW floating, NEW rows, FileColumn(rows, floating), NEW m, Describes(m, rows),
           NEW p, LeafFits(p, floating), NEW v \in ValuesOf(rows), SqlTruth(v, p) = "t"
    PROVE  PageMetrics(m, p, floating)
<1>1. /\ Holds(v, p)
      /\ v = None => p.op \in UnaryOps
  BY SqlMeans
<1>2. /\ v = None => m.nulls # 0
      /\ v # None => m.nulls # m.rows
  BY CountsSay DEF FileColumn
<1>3. p.op \notin UnaryOps \cup {"notEq", "notIn"} => v \in Ordinary /\ v # None /\ v # NaN
  BY TrueOfOrdinary, OrdinaryIsNot DEF FileColumn
<1>4. v \in Ordinary => Bounded(v, m.lower, m.upper)
  BY BoundsBound
<1>5. CASE p.op \in UnaryOps
  <2>1. CASE p.op = "isNull"
    BY <1>1, <1>2, <2>1 DEF Inequalities, Holds, PageMetrics, FileColumn, Column
  <2>2. CASE p.op = "notNull"
    BY <1>1, <1>2, <2>2 DEF Inequalities, Holds, PageMetrics, FileColumn, Column
  <2>3. CASE p.op = "isNaN"
    BY <1>1, <1>2, <2>3 DEF Inequalities, Holds, PageMetrics, FileColumn, Column
  <2>4. CASE p.op = "notNaN"
    BY <1>1, <1>2, <2>4 DEF Inequalities, Holds, PageMetrics, FileColumn, Column
  <2> QED
    BY <1>5, <2>1, <2>2, <2>3, <2>4 DEF UnaryOps
<1>6. CASE p.op \in Inequalities
  <2>1. v \in Ordinary /\ v # None /\ Compares(v, p.op, p.lit) /\ p.lit \in Ordinary
    BY <1>1, <1>3, <1>6 DEF Inequalities, UnaryOps, LiteralOps, LeafFits, Holds
  <2>2. VisitInequality(m.lower, m.upper, p)
    BY <1>4, <1>6, <2>1, InequalityKeeps
  <2> QED
    BY <1>2, <1>6, <2>1, <2>2 DEF Inequalities, PageMetrics
<1>7. CASE p.op = "eq"
  <2>1. v \in Ordinary /\ v # None /\ v = p.lit
    BY <1>1, <1>3, <1>7 DEF Inequalities, UnaryOps, Holds
  <2> QED
    BY <1>2, <1>4, <1>7, <2>1 DEF Inequalities, PageMetrics, Bounded
<1>8. CASE p.op = "in"
  <2>1. v \in Ordinary /\ v # None /\ v \in p.lits
    BY <1>1, <1>3, <1>8 DEF Inequalities, UnaryOps, Holds
  <2>2. PageInMightMatch(m.lower, m.upper, p.lits)
    BY <2>1, InKeeps
  <2> QED
    BY <1>2, <1>8, <2>1, <2>2 DEF Inequalities, PageMetrics
<1>9. CASE p.op = "startsWith"
  <2>1. v \in Ordinary /\ v # None /\ StartsWith(v, p.lit) /\ p.lit \in Ordinary
    BY <1>1, <1>3, <1>9 DEF Inequalities, UnaryOps, PrefixOps, LeafFits, Holds
  <2>2. PrefixMightMatch(m.lower, m.upper, p.lit)
    BY <1>4, <2>1, PrefixKeeps
  <2> QED
    BY <1>2, <1>9, <2>1, <2>2 DEF Inequalities, PageMetrics
<1>10. CASE p.op = "notStartsWith"
  <2>1. v \in Ordinary /\ v # None /\ ~StartsWith(v, p.lit) /\ p.lit \in Ordinary
    BY <1>1, <1>3, <1>10 DEF Inequalities, UnaryOps, PrefixOps, LeafFits, Holds
  <2>2. ~BoundsHavePrefix(m.lower, m.upper, p.lit)
    BY <1>4, <2>1, PrefixIsCommon
  <2> QED
    BY <1>10, <2>2 DEF Inequalities, PageMetrics
<1>11. CASE p.op \in {"notEq", "notIn"}
  BY <1>11 DEF Inequalities, PageMetrics
<1> QED
  BY <1>5, <1>6, <1>7, <1>8, <1>9, <1>10, <1>11 DEF LeafFits, LiteralOps, PrefixOps, SetOps

(***************************************************************************)
(* Strict: of every row                                                     *)
(***************************************************************************)
LEMMA EqualBounds ==
    ASSUME NEW v \in Ordinary, NEW lit \in Ordinary, Bounded(v, lit, lit)
    PROVE  v = lit
BY LessIsTotal, OrdinaryIsNot DEF Bounded

LEMMA OutsideIsNot ==
    ASSUME NEW rows, NEW m, Describes(m, rows), NEW v \in ValuesOf(rows),
           NEW lit \in Ordinary, OutsideOfBounds(m, lit)
    PROVE  v # lit
<1> SUFFICES ASSUME v = lit PROVE FALSE
  OBVIOUS
<1>1. Bounded(lit, m.lower, m.upper)
  BY BoundsBound
<1> QED
  BY <1>1 DEF OutsideOfBounds, Bounded

LEMMA StrictHolds ==
    ASSUME NEW floating, NEW rows, FileColumn(rows, floating), NEW m, Describes(m, rows),
           NEW p, LeafFits(p, floating), StrictMetrics(m, p), NEW v \in ValuesOf(rows)
    PROVE  Holds(v, p)
<1>1. /\ ~MayContainNull(m) => v # None
      /\ ~MayContainNaN(m) => v # NaN
      /\ ContainsNullsOnly(m) => v = None
      /\ ContainsNaNsOnly(m) => v = NaN
  BY CountsSay DEF FileColumn
<1>2. v # None /\ v # NaN => v \in Ordinary
  BY DEF FileColumn, Column
<1>3. v \in Ordinary => Bounded(v, m.lower, m.upper)
  BY BoundsBound
<1>4. None # NaN
  BY DatumAssumption
<1>5. CASE p.op \in UnaryOps
  <2>1. CASE p.op = "isNull"
    BY <1>1, <2>1 DEF Inequalities, Holds, StrictMetrics
  <2>2. CASE p.op = "notNull"
    BY <1>1, <2>2 DEF Inequalities, Holds, StrictMetrics
  <2>3. CASE p.op = "isNaN"
    BY <1>1, <2>3 DEF Inequalities, Holds, StrictMetrics
  <2>4. CASE p.op = "notNaN"
    BY <1>1, <1>4, <2>4 DEF Inequalities, Holds, StrictMetrics
  <2> QED
    BY <1>5, <2>1, <2>2, <2>3, <2>4 DEF UnaryOps
<1>6. CASE p.op \in {"lt", "le"}
  <2>1. /\ ~MayContainNull(m) /\ ~MayContainNaN(m)
        /\ m.upper # None /\ Compares(m.upper, p.op, p.lit) /\ p.lit \in Ordinary
    BY <1>6 DEF Inequalities, StrictMetrics, LeafFits, LiteralOps
  <2>2. Compares(v, p.op, p.lit) /\ v # None
    BY <1>1, <1>2, <1>3, <1>6, <2>1, InequalityIsCertain
  <2> QED
    BY <1>6, <2>2 DEF Inequalities, Holds
<1>7. CASE p.op \in {"gt", "ge"}
  <2>1. /\ ~MayContainNull(m) /\ ~MayContainNaN(m)
        /\ m.lower # None /\ Compares(m.lower, p.op, p.lit) /\ p.lit \in Ordinary
    BY <1>7 DEF Inequalities, StrictMetrics, LeafFits, LiteralOps
  <2>2. Compares(v, p.op, p.lit) /\ v # None
    BY <1>1, <1>2, <1>3, <1>7, <2>1, InequalityIsCertain
  <2> QED
    BY <1>7, <2>2 DEF Inequalities, Holds
<1>8. CASE p.op = "eq"
  <2>1. /\ ~MayContainNull(m) /\ ~MayContainNaN(m)
        /\ m.lower = p.lit /\ m.upper = p.lit /\ p.lit \in Ordinary
    BY <1>8 DEF Inequalities, StrictMetrics, LeafFits, LiteralOps
  <2>2. v = p.lit
    BY <1>1, <1>2, <1>3, <2>1, EqualBounds
  <2> QED
    BY <1>8, <2>2 DEF Inequalities, Holds
<1>9. CASE p.op = "in"
  <2>1. /\ ~MayContainNull(m) /\ ~MayContainNaN(m)
        /\ m.lower \in p.lits /\ m.upper = m.lower /\ m.lower \in Ordinary
    BY <1>9 DEF Inequalities, StrictMetrics, LeafFits, SetOps
  <2>2. v = m.lower
    BY <1>1, <1>2, <1>3, <2>1, EqualBounds
  <2> QED
    BY <1>9, <2>1, <2>2 DEF Inequalities, Holds
<1>10. CASE p.op = "notEq"
  <2>1. \/ ContainsNullsOnly(m) \/ ContainsNaNsOnly(m)
        \/ OutsideOfBounds(m, p.lit)
    BY <1>10 DEF Inequalities, StrictMetrics
  <2>2. p.lit \in Ordinary /\ p.lit # None /\ p.lit # NaN
    BY <1>10, OrdinaryIsNot DEF LeafFits, LiteralOps
  <2>3. v # p.lit
    BY <1>1, <2>1, <2>2, OutsideIsNot
  <2> QED
    BY <1>10, <2>3 DEF Inequalities, Holds
<1>11. CASE p.op = "notIn"
  <2>1. \/ ContainsNullsOnly(m) \/ ContainsNaNsOnly(m)
        \/ \A l \in p.lits : OutsideOfBounds(m, l)
    BY <1>11 DEF Inequalities, StrictMetrics
  <2>2. \A l \in p.lits : l \in Ordinary /\ l # None /\ l # NaN
    BY <1>11, OrdinaryIsNot DEF LeafFits, SetOps
  <2>3. \A l \in p.lits : v # l
    BY <1>1, <2>1, <2>2, OutsideIsNot
  <2> QED
    BY <1>11, <2>3 DEF Inequalities, Holds
<1>12. p.op \notin PrefixOps
  BY DEF PrefixOps, StrictMetrics, Inequalities
<1> QED
  BY <1>5, <1>6, <1>7, <1>8, <1>9, <1>10, <1>11, <1>12
     DEF LeafFits, LiteralOps, SetOps, Inequalities

-----------------------------------------------------------------------------
(***************************************************************************)
(* Summaries of partitions                                                  *)
(***************************************************************************)
\* up: ordered by Less; otherwise the other way round
Earlier(up, a, b) == IF up THEN Less(a, b) ELSE Less(b, a)
HasFirst(up, S) == \E v \in S : \A w \in S : ~Earlier(up, w, v)

LEMMA Firsts ==
    ASSUME NEW up \in BOOLEAN, NEW Values \in SUBSET Ordinary,
           IsFiniteSet(Values), Values # {}
    PROVE  HasFirst(up, Values)
<1> DEFINE Bad == {n \in Nat : \E S \in SUBSET Ordinary :
                      IsFiniteSet(S) /\ S # {} /\ Cardinality(S) = n /\ ~HasFirst(up, S)}
<1> SUFFICES ASSUME ~HasFirst(up, Values) PROVE FALSE
  OBVIOUS
<1>1. Cardinality(Values) \in Bad
  BY FS_CardinalityType
<1>2. PICK n \in Bad : \A m \in Bad : n <= m
  <2> HIDE DEF Bad
  <2>1. Bad \in SUBSET Nat
    BY DEF Bad
  <2> QED
    BY <1>1, <2>1, LeastOf
<1>3. PICK S \in SUBSET Ordinary :
         IsFiniteSet(S) /\ S # {} /\ Cardinality(S) = n /\ ~HasFirst(up, S)
  BY <1>2
<1>4. PICK x \in S : TRUE
  BY <1>3
<1>5. ~Earlier(up, x, x)
  BY <1>3, <1>4, LessIsStrict DEF Earlier
<1>6. CASE S \ {x} = {}
  <2>1. S = {x}
    BY <1>4, <1>6
  <2> QED
    BY <1>3, <1>5, <2>1 DEF HasFirst
<1>7. CASE S \ {x} # {}
  <2>1. IsFiniteSet(S \ {x}) /\ Cardinality(S \ {x}) = n - 1 /\ n - 1 \in Nat /\ n \in Nat
    <3>1. IsFiniteSet(S \ {x}) /\ Cardinality(S \ {x}) = Cardinality(S) - 1
      BY <1>3, <1>4, FS_RemoveElement
    <3>2. Cardinality(S \ {x}) \in Nat /\ Cardinality(S) \in Nat
      BY <1>3, <3>1, FS_CardinalityType
    <3> QED
      BY <1>3, <3>1, <3>2
  <2>2. ~(n - 1 \in Bad)
    <3> HIDE DEF Bad
    <3>1. n - 1 \in Bad => n <= n - 1
      BY <1>2
    <3> QED
      BY <2>1, <3>1
  <2>3. HasFirst(up, S \ {x})
    BY <1>3, <1>7, <2>1, <2>2
  <2>4. PICK y \in S \ {x} : \A w \in S \ {x} : ~Earlier(up, w, y)
    BY <2>3 DEF HasFirst
  <2>5. CASE Earlier(up, x, y)
    <3>1. \A w \in S \ {x} : ~Earlier(up, w, x)
      <4> SUFFICES ASSUME NEW w \in S \ {x} PROVE ~Earlier(up, w, x)
        OBVIOUS
      <4>1. x \in Ordinary /\ y \in Ordinary /\ w \in Ordinary
        BY <1>3, <1>4, <2>4
      <4>2. Earlier(up, x, y) /\ ~Earlier(up, w, y)
        BY <2>4, <2>5
      <4>3. Earlier(up, x, w)
        BY <4>1, <4>2, NotLessThanLess DEF Earlier
      <4> QED
        BY <4>1, <4>3, LessIsStrict DEF Earlier
    <3>2. \A w \in S : ~Earlier(up, w, x)
      BY <1>5, <3>1
    <3> QED
      BY <1>3, <1>4, <3>2 DEF HasFirst
  <2>6. CASE ~Earlier(up, x, y)
    <3>1. \A w \in S : ~Earlier(up, w, y)
      BY <2>4, <2>6
    <3> QED
      BY <1>3, <2>4, <3>1 DEF HasFirst
  <2> QED
    BY <2>5, <2>6
<1> QED
  BY <1>6, <1>7

LEMMA SummaryIs ==
    ASSUME NEW floating, NEW parts, Column(parts, floating), IsFiniteSet(parts)
    PROVE  LET s == SummaryOf(parts)
           IN  /\ s.nulls <=> None \in parts
               /\ s.nans = (NaN \in parts)
               /\ Reals(parts) = {} => s.lower = None /\ s.upper = None
               /\ Reals(parts) # {} =>
                      /\ s.lower \in Reals(parts) /\ s.upper \in Reals(parts)
                      /\ \A v \in Reals(parts) : ~Less(v, s.lower) /\ ~Less(s.upper, v)
<1> DEFINE reals == Reals(parts)
           least == CHOOSE v \in reals : v \in LowerBounds(parts, reals)
           greatest == CHOOSE v \in reals : v \in UpperBounds(parts, reals)
<1>1. reals \in SUBSET Ordinary /\ IsFiniteSet(reals)
  BY FS_Subset DEF Column, Reals
<1>2. ASSUME reals # {}
      PROVE  /\ least \in reals /\ \A v \in reals : ~Less(v, least)
             /\ greatest \in reals /\ \A v \in reals : ~Less(greatest, v)
  <2>1. PICK v \in reals : \A w \in reals : ~Less(w, v)
    BY <1>1, <1>2, Firsts DEF HasFirst, Earlier
  <2>2. PICK u \in reals : \A w \in reals : ~Less(u, w)
    BY <1>1, <1>2, Firsts DEF HasFirst, Earlier
  <2>3. v \in LowerBounds(parts, reals) /\ u \in UpperBounds(parts, reals)
    BY <2>1, <2>2 DEF LowerBounds, UpperBounds
  <2>4. least \in LowerBounds(parts, reals) /\ greatest \in UpperBounds(parts, reals)
    BY <2>1, <2>2, <2>3
  <2> QED
    BY <2>4 DEF LowerBounds, UpperBounds
<1>3. /\ SummaryOf(parts).nulls = (None \in parts) /\ SummaryOf(parts).nans = (NaN \in parts)
      /\ SummaryOf(parts).lower = IF reals = {} THEN None ELSE least
      /\ SummaryOf(parts).upper = IF reals = {} THEN None ELSE greatest
  <2> DEFINE nulls == None \in parts
             nans == NaN \in parts
             lower == IF reals = {} THEN None ELSE least
             upper == IF reals = {} THEN None ELSE greatest
  <2>1. SummaryOf(parts) = [nulls |-> nulls, nans |-> nans, lower |-> lower, upper |-> upper]
    BY DEF SummaryOf
  <2> HIDE DEF nulls, nans, lower, upper
  <2>2. /\ SummaryOf(parts).nulls = nulls /\ SummaryOf(parts).nans = nans
        /\ SummaryOf(parts).lower = lower /\ SummaryOf(parts).upper = upper
    BY <2>1
  <2> QED
    BY <2>2 DEF nulls, nans, lower, upper
<1> HIDE DEF least, greatest
<1>4. /\ SummaryOf(parts).nulls <=> None \in parts
      /\ SummaryOf(parts).nans = (NaN \in parts)
      /\ SummaryOf(parts).lower = IF reals = {} THEN None ELSE least
      /\ SummaryOf(parts).upper = IF reals = {} THEN None ELSE greatest
  <2> HIDE DEF reals
  <2> QED
    BY <1>3, Zenon
<1> QED
  BY <1>2, <1>4

LEMMA SummaryKeeps ==
    ASSUME NEW floating, NEW parts, Column(parts, floating), IsFiniteSet(parts),
           NEW p, LeafFits(p, floating), NEW v \in parts, SqlTruth(v, p) = "t"
    PROVE  SummaryMightMatch(SummaryOf(parts), p, floating)
<1> DEFINE s == SummaryOf(parts)
<1>1. /\ Holds(v, p)
      /\ v = None => p.op \in UnaryOps
  BY SqlMeans
<1>2. /\ s.nulls <=> None \in parts
      /\ s.nans = (NaN \in parts)
      /\ Reals(parts) = {} => s.lower = None /\ s.upper = None
      /\ Reals(parts) # {} =>
            /\ s.lower \in Reals(parts) /\ s.upper \in Reals(parts)
            /\ \A w \in Reals(parts) : ~Less(w, s.lower) /\ ~Less(s.upper, w)
  BY SummaryIs
<1> HIDE DEF s
<1>3. p.op \notin UnaryOps \cup {"notEq", "notIn"} => v \in Ordinary
  BY TrueOfOrdinary
<1>4. v \in Ordinary => /\ v # None /\ v # NaN /\ v \in Reals(parts)
                        /\ s.lower # None /\ s.upper # None
                        /\ Bounded(v, s.lower, s.upper)
  BY <1>2, OrdinaryIsNot DEF Reals, Bounded, Column
<1>5. v \in Ordinary \/ v = None \/ v = NaN
  BY DEF Column
<1>6. SummaryMightMatch(s, p, floating)
  <2>1. CASE p.op = "isNull"
    BY <1>1, <1>2, <2>1 DEF Inequalities, Holds, SummaryMightMatch
  <2>2. CASE p.op = "notNull"
    <3>1. v # None
      BY <1>1, <2>2 DEF Inequalities, Holds
    <3>2. ~AreAllNull(s, floating)
      BY <1>2, <1>4, <1>5, <3>1 DEF AreAllNull, Column
    <3> QED
      BY <2>2, <3>2 DEF Inequalities, SummaryMightMatch
  <2>3. CASE p.op = "isNaN"
    <3>1. v = NaN
      BY <1>1, <2>3 DEF Inequalities, Holds
    <3>2. s.nans # FALSE /\ ~AreAllNull(s, floating)
      BY <1>2, <3>1 DEF AreAllNull, Column
    <3> QED
      BY <2>3, <3>2 DEF Inequalities, SummaryMightMatch
  <2>4. CASE p.op = "notNaN"
    <3>1. v # NaN
      BY <1>1, <2>4 DEF Inequalities, Holds
    <3>2. s.nulls \/ s.lower # None
      BY <1>2, <1>4, <1>5, <3>1
    <3> QED
      BY <2>4, <3>2 DEF Inequalities, SummaryMightMatch
  <2>5. CASE p.op \in Inequalities
    <3>1. /\ v \in Ordinary /\ p.lit \in Ordinary /\ p.lit # NaN
          /\ Compares(v, p.op, p.lit)
      BY <1>1, <1>3, <2>5, OrdinaryIsNot DEF Inequalities, UnaryOps, LiteralOps, LeafFits, Holds
    <3>2. VisitInequality(s.lower, s.upper, p)
      BY <1>4, <2>5, <3>1, InequalityKeeps
    <3>3. CASE p.op \in {"lt", "le"}
      <4>1. s.lower # None /\ Compares(s.lower, p.op, p.lit)
        BY <1>4, <3>1, <3>2, <3>3 DEF VisitInequality
      <4> QED
        BY <3>3, <4>1 DEF Inequalities, SummaryMightMatch
    <3>4. CASE p.op \in {"gt", "ge"}
      <4>1. s.upper # None /\ Compares(s.upper, p.op, p.lit)
        BY <1>4, <3>1, <3>2, <3>4 DEF VisitInequality
      <4> QED
        BY <3>4, <4>1 DEF Inequalities, SummaryMightMatch
    <3> QED
      BY <2>5, <3>3, <3>4 DEF Inequalities
  <2>6. CASE p.op = "eq"
    <3>1. v \in Ordinary /\ v = p.lit
      BY <1>1, <1>3, <2>6 DEF Inequalities, UnaryOps, Holds
    <3> QED
      BY <1>4, <2>6, <3>1 DEF Inequalities, SummaryMightMatch, Bounded
  <2>7. CASE p.op = "in"
    <3>1. v \in Ordinary /\ v \in p.lits
      BY <1>1, <1>3, <2>7 DEF Inequalities, UnaryOps, Holds
    <3> QED
      BY <1>4, <2>7, <3>1 DEF Inequalities, SummaryMightMatch, Bounded
  <2>8. CASE p.op = "startsWith"
    <3>1. v \in Ordinary /\ StartsWith(v, p.lit) /\ p.lit \in Ordinary
      BY <1>1, <1>3, <2>8 DEF Inequalities, UnaryOps, PrefixOps, LeafFits, Holds
    <3>2. PrefixMightMatch(s.lower, s.upper, p.lit)
      BY <1>4, <3>1, PrefixKeeps
    <3> QED
      BY <1>4, <2>8, <3>1, <3>2 DEF Inequalities, SummaryMightMatch
  <2>9. CASE p.op = "notStartsWith"
    <3>1. v \in Ordinary /\ ~StartsWith(v, p.lit) /\ p.lit \in Ordinary
      BY <1>1, <1>3, <1>4, <2>9 DEF Inequalities, UnaryOps, PrefixOps, LeafFits, Holds
    <3>2. ~BoundsHavePrefix(s.lower, s.upper, p.lit)
      BY <1>4, <3>1, PrefixIsCommon
    <3> QED
      BY <2>9, <3>2 DEF Inequalities, SummaryMightMatch
  <2>10. CASE p.op \in {"notEq", "notIn"}
    BY <2>10 DEF Inequalities, SummaryMightMatch
  <2> QED
    BY <2>1, <2>2, <2>3, <2>4, <2>5, <2>6, <2>7, <2>8, <2>9, <2>10
       DEF LeafFits, UnaryOps, LiteralOps, PrefixOps, SetOps
<1> QED
  BY <1>6 DEF s

-----------------------------------------------------------------------------
(* Whatever is known of the rows of a data file, a row group or a page, as long  *)
(* as it is true: none is skipped for a leaf of the filter that a row satisfies. *)
THEOREM StatisticsLoseNoRow ==
    ASSUME NEW floating, NEW rows, FileColumn(rows, floating),
           NEW bounds \in SUBSET Ordinary,
           NEW m \in {Unknown(rows)} \cup TrueStats(rows, bounds),
           NEW p, LeafFits(p, floating),
           NEW v \in ValuesOf(rows), SqlTruth(v, p) = "t"
    PROVE  InclusiveMetrics(m, p) /\ RowGroupMetrics(m, p) /\ PageMetrics(m, p, floating)
BY TrueStatsDescribe, InclusiveKeeps, RowGroupKeeps, PageKeeps

(* What the strict evaluator says of all rows is so of each of them. *)
THEOREM StrictStatisticsAreCertain ==
    ASSUME NEW floating, NEW rows, FileColumn(rows, floating),
           NEW bounds \in SUBSET Ordinary,
           NEW m \in {Unknown(rows)} \cup TrueStats(rows, bounds),
           NEW p, LeafFits(p, floating), StrictMetrics(m, p)
    PROVE  \A v \in ValuesOf(rows) : Holds(v, p)
BY TrueStatsDescribe, StrictHolds

(* A manifest is not skipped for a leaf that one of its partitions satisfies. *)
THEOREM SummariesLoseNoPartition ==
    ASSUME NEW floating, NEW parts, Column(parts, floating), IsFiniteSet(parts),
           NEW p, LeafFits(p, floating),
           NEW v \in parts, SqlTruth(v, p) = "t"
    PROVE  SummaryMightMatch(SummaryOf(parts), p, floating)
BY SummaryKeeps

-----------------------------------------------------------------------------
(***************************************************************************)
(* Numbers and units of time                                                *)
(***************************************************************************)
Number(n) == <<n>>
Numbers == {Number(n) : n \in Int}

LEMMA NumberIs ==
    ASSUME NEW n \in Int
    PROVE  Number(n) \in Ordinary /\ Len(Number(n)) = 1 /\ Number(n)[1] = n
BY DEF Number, Ordinary

LEMMA NumbersAre ==
    ASSUME NEW v \in Numbers
    PROVE  v \in Ordinary /\ v[1] \in Int /\ v = Number(v[1]) /\ Len(v) = 1
BY NumberIs DEF Numbers

LEMMA LessOfNumbers ==
    ASSUME NEW a \in Numbers, NEW b \in Numbers
    PROVE  Less(a, b) <=> a[1] < b[1]
<1>1. /\ a \in Ordinary /\ a[1] \in Int /\ Len(a) = 1
      /\ b \in Ordinary /\ b[1] \in Int /\ Len(b) = 1
  BY NumbersAre
<1>2. CASE a[1] = b[1]
  <2>1. PartAt(a, b, 1)
    BY <1>1, <1>2 DEF PartAt
  <2> QED
    BY <1>1, <1>2, <2>1, LessIs
<1>3. CASE a[1] # b[1]
  <2>1. PartAt(a, b, 0)
    BY <1>1, <1>3 DEF PartAt
  <2>2. Less(a, b) <=> 0 < Len(b) /\ (0 = Len(a) \/ a[0 + 1] < b[0 + 1])
    BY <1>1, <2>1, LessIs
  <2> QED
    BY <1>1, <2>2
<1> QED
  BY <1>2, <1>3

(* Rounding down to a multiple, and counting units, keep the order. *)
LEMMA Rounding ==
    ASSUME NEW a \in Int, NEW w \in Nat \ {0}
    PROVE  /\ a \div w \in Int /\ a % w \in Int
           /\ a = w * (a \div w) + (a % w) /\ 0 <= a % w /\ a % w < w
OBVIOUS

LEMMA UnitsKeepOrder ==
    ASSUME NEW a \in Int, NEW b \in Int, NEW w \in Nat \ {0}, a <= b
    PROVE  a \div w <= b \div w
OBVIOUS

LEMMA MultiplesKeepOrder ==
    ASSUME NEW a \in Int, NEW b \in Int, NEW w \in Nat \ {0}, a <= b
    PROVE  a - (a % w) <= b - (b % w)
OBVIOUS

(* Counted back from the epoch or not, a month is the same. *)
LEMMA MonthOfIs ==
    ASSUME NEW v \in Int, NEW length \in Nat \ {0}
    PROVE  MonthOf(v, length) = v \div length
<1>1. v \div length \in Int
  BY Rounding
<1>2. ASSUME NEW q \in Int
      PROVE  /\ q = (q % 12) + 12 * (q \div 12)
             /\ q = -((12 - (q % 12)) + 12 * (-(q \div 12) - 1))
  OBVIOUS
<1> QED
  BY <1>1, <1>2 DEF MonthOf

LEMMA DayOfTimestampIs ==
    ASSUME NEW v \in Nat
    PROVE  DayOfTimestamp(v) = v \div (TicksPerSecond * SecondsPerDay)
<1> DEFINE T == TicksPerSecond
           D == TicksPerSecond * SecondsPerDay
<1>1. T \in Nat \ {0} /\ D \in Nat \ {0}
  BY TransformAssumption
<1> HIDE DEF T, D
<1>2. /\ v \div T \in Nat /\ v % T \in Nat /\ (v \div T) * T + (v % T) = v
  BY <1>1
<1>3. TruncDiv(v, T) = v \div T /\ TruncDiv(v, D) = v \div D
  BY DEF TruncDiv
<1>4. DayOfTimestamp(v) = TruncDiv(TruncDiv(v, T) * T + (v % T), D)
  BY DEF DayOfTimestamp, T, D
<1> QED
  BY <1>2, <1>3, <1>4 DEF D
-----------------------------------------------------------------------------
(***************************************************************************)
(* Transforms                                                               *)
(***************************************************************************)
Rounds == {"truncate", "day", "hour", "month"}
TransformFits(t, floating) ==
    /\ t.kind \in {"identity", "void", "bucket"} \cup Rounds
    /\ t.kind \in {"bucket", "truncate"} => t.width \in Nat \ {0}
    /\ t.type = "string" => t.kind \in {"identity", "void", "truncate"}
    /\ floating => t.kind \in {"identity", "void"}

(* Values a column under a transform has: day is off in some of the last seconds *)
(* before a midnight before the epoch, so its timestamps are not negative.       *)
ValueFits(v, t) ==
    /\ v \in Ordinary
    /\ t.kind \in {"bucket"} \cup Rounds /\ t.type # "string" => v \in Numbers
    /\ t.kind = "day" /\ t.type # "date" => v[1] >= 0

(* Prefixes have no wide characters: their length is compared with the width. *)
LiteralsFit(p, t) ==
    /\ p.op \in LiteralOps => ValueFits(p.lit, t)
    /\ p.op \in SetOps => \A l \in p.lits : ValueFits(l, t)
    /\ p.op \in PrefixOps /\ t.kind \in Rounds => t.type = "string" /\ ByteLen(p.lit) = Len(p.lit)

LEMMA Lengths ==
    ASSUME NEW t
    PROVE  Ticks(t) * MonthLength(t) \in Nat \ {0}
<1> DEFINE days == SecondsPerMonth \div SecondsPerDay
<1>1. days \in Nat \ {0}
  <2>1. /\ SecondsPerMonth \in Nat \ {0} /\ SecondsPerDay \in Nat \ {0}
        /\ SecondsPerDay <= SecondsPerMonth
    BY TransformAssumption
  <2>2. SecondsPerDay \div SecondsPerDay <= days /\ days \in Int
    BY <2>1, UnitsKeepOrder, Rounding
  <2>3. SecondsPerDay \div SecondsPerDay = 1
    BY <2>1
  <2> QED
    BY <2>2, <2>3
<1>2. Ticks(t) \in Nat \ {0} /\ MonthLength(t) \in Nat \ {0}
  BY <1>1, TransformAssumption DEF Ticks, MonthLength
<1> QED
  BY <1>2

(* A number is rounded by a monotone function. *)
Rounded(t, n) ==
    CASE t.kind = "truncate" -> n - (n % t.width)
      [] t.kind = "day" -> IF t.type = "date" THEN n ELSE DayOfTimestamp(n)
      [] t.kind = "hour" -> n \div (TicksPerSecond * SecondsPerHour)
      [] t.kind = "month" -> n \div (Ticks(t) * MonthLength(t))

LEMMA RoundedIs ==
    ASSUME NEW t, NEW floating, TransformFits(t, floating), t.kind \in Rounds,
           NEW n \in Int, t.kind = "day" /\ t.type # "date" => n >= 0
    PROVE  Rounded(t, n) \in Int
<1>1. CASE t.kind = "truncate"
  BY <1>1, Rounding DEF Rounded, TransformFits
<1>2. CASE t.kind = "day"
  <2>1. TicksPerSecond * SecondsPerDay \in Nat \ {0}
    BY TransformAssumption
  <2>2. t.type # "date" => DayOfTimestamp(n) \in Int
    BY <1>2, <2>1, DayOfTimestampIs, Rounding
  <2> QED
    BY <1>2, <2>2 DEF Rounded
<1>3. CASE t.kind = "hour"
  <2>1. TicksPerSecond * SecondsPerHour \in Nat \ {0}
    BY TransformAssumption
  <2> QED
    BY <1>3, <2>1, Rounding DEF Rounded
<1>4. CASE t.kind = "month"
  BY <1>4, Lengths, Rounding DEF Rounded
<1> QED
  BY <1>1, <1>2, <1>3, <1>4 DEF Rounds

LEMMA RoundedKeepsOrder ==
    ASSUME NEW t, NEW floating, TransformFits(t, floating), t.kind \in Rounds,
           NEW m \in Int, NEW n \in Int, m <= n, t.kind = "day" /\ t.type # "date" => m >= 0
    PROVE  Rounded(t, m) <= Rounded(t, n)
<1>1. CASE t.kind = "truncate"
  BY <1>1, MultiplesKeepOrder DEF Rounded, TransformFits
<1>2. CASE t.kind = "day"
  <2>1. TicksPerSecond * SecondsPerDay \in Nat \ {0}
    BY TransformAssumption
  <2>2. t.type # "date" => DayOfTimestamp(m) <= DayOfTimestamp(n)
    BY <1>2, <2>1, DayOfTimestampIs, UnitsKeepOrder
  <2> QED
    BY <1>2, <2>2 DEF Rounded
<1>3. CASE t.kind = "hour"
  <2>1. TicksPerSecond * SecondsPerHour \in Nat \ {0}
    BY TransformAssumption
  <2> QED
    BY <1>3, <2>1, UnitsKeepOrder DEF Rounded
<1>4. CASE t.kind = "month"
  BY <1>4, Lengths, UnitsKeepOrder DEF Rounded
<1> QED
  BY <1>1, <1>2, <1>3, <1>4 DEF Rounds

LEMMA ApplyToNumber ==
    ASSUME NEW t, NEW floating, TransformFits(t, floating), t.kind \in Rounds,
           t.type # "string", NEW n \in Int
    PROVE  /\ Apply(t, Number(n)) = Number(Rounded(t, n))
           /\ (t.kind = "day" /\ t.type # "date" => n >= 0)
                  => Apply(t, Number(n)) \in Numbers
<1>1. Number(n)[1] = n /\ Number(n) # None
  BY NumberIs, OrdinaryIsNot
<1>2. Apply(t, Number(n)) = Number(Rounded(t, n))
  <2>1. CASE t.kind = "truncate"
    BY <1>1, <2>1 DEF Apply, Rounded, Number
  <2>2. CASE t.kind = "day"
    BY <1>1, <2>2 DEF Apply, Rounded, Number
  <2>3. CASE t.kind = "hour"
    BY <1>1, <2>3 DEF Apply, Rounded, Number
  <2>4. CASE t.kind = "month"
    <3>1. MonthOf(n, Ticks(t) * MonthLength(t)) = n \div (Ticks(t) * MonthLength(t))
      BY Lengths, MonthOfIs
    <3> QED
      BY <1>1, <2>4, <3>1 DEF Apply, Rounded, Number
  <2> QED
    BY <2>1, <2>2, <2>3, <2>4 DEF Rounds
<1>3. (t.kind = "day" /\ t.type # "date" => n >= 0) => Apply(t, Number(n)) \in Numbers
  BY <1>2, RoundedIs DEF Numbers
<1> QED
  BY <1>2, <1>3

LEMMA ApplyIs ==
    ASSUME NEW t, NEW floating, TransformFits(t, floating), t.kind \in Rounds,
           NEW v, ValueFits(v, t)
    PROVE  /\ Apply(t, v) \in Ordinary
           /\ t.type = "string" => Apply(t, v) = Take(v, t.width)
           /\ t.type # "string" => /\ v \in Numbers /\ Apply(t, v) \in Numbers
                                   /\ Apply(t, v)[1] = Rounded(t, v[1])
<1>1. v \in Ordinary /\ v # None
  BY OrdinaryIsNot DEF ValueFits
<1>2. CASE t.type = "string"
  <2>1. t.kind = "truncate" /\ t.width \in Nat
    BY <1>2 DEF TransformFits, Rounds
  <2>2. Apply(t, v) = Take(v, t.width)
    BY <1>1, <1>2, <2>1 DEF Apply
  <2> QED
    BY <1>1, <1>2, <2>1, <2>2, TakeIs
<1>3. CASE t.type # "string"
  <2>1. v \in Numbers /\ (t.kind = "day" /\ t.type # "date" => v[1] >= 0)
    BY <1>3 DEF ValueFits
  <2>2. v[1] \in Int /\ v = Number(v[1])
    BY <2>1, NumbersAre
  <2>3. Apply(t, v) = Number(Rounded(t, v[1])) /\ Apply(t, v) \in Numbers
    BY <1>3, <2>1, <2>2, ApplyToNumber
  <2>4. Apply(t, v)[1] = Rounded(t, v[1])
    BY <2>3 DEF Number
  <2> QED
    BY <1>3, <2>1, <2>3, <2>4, NumbersAre
<1> QED
  BY <1>2, <1>3

LEMMA ApplyKeepsOrder ==
    ASSUME NEW t, NEW floating, TransformFits(t, floating), t.kind \in Rounds,
           NEW u, ValueFits(u, t), NEW v, ValueFits(v, t), ~Less(v, u)
    PROVE  ~Less(Apply(t, v), Apply(t, u))
<1>1. CASE t.type = "string"
  <2>1. u \in Ordinary /\ v \in Ordinary /\ t.width \in Nat
    BY <1>1 DEF ValueFits, TransformFits, Rounds
  <2> QED
    BY <1>1, <2>1, ApplyIs, TakeKeepsOrder
<1>2. CASE t.type # "string"
  <2>1. /\ u \in Numbers /\ Apply(t, u) \in Numbers /\ Apply(t, u)[1] = Rounded(t, u[1])
        /\ v \in Numbers /\ Apply(t, v) \in Numbers /\ Apply(t, v)[1] = Rounded(t, v[1])
    BY <1>2, ApplyIs
  <2>2. u[1] \in Int /\ v[1] \in Int /\ Apply(t, u)[1] \in Int /\ Apply(t, v)[1] \in Int
    BY <2>1, NumbersAre
  <2>3. u[1] <= v[1]
    BY <2>1, <2>2, LessOfNumbers
  <2>4. Rounded(t, u[1]) <= Rounded(t, v[1])
    BY <1>2, <2>2, <2>3, RoundedKeepsOrder DEF ValueFits
  <2> QED
    BY <2>1, <2>2, <2>4, LessOfNumbers
<1> QED
  BY <1>1, <1>2

(* A string begins as its beginning does. *)
LEMMA PrefixOfTaken ==
    ASSUME NEW v \in Ordinary, NEW prefix \in Ordinary, NEW n \in Nat
    PROVE  /\ StartsWith(v, prefix) => StartsWith(Take(v, n), Take(prefix, n))
           /\ Len(prefix) < n /\ StartsWith(Take(v, n), prefix) => StartsWith(v, prefix)
           /\ Len(prefix) = n /\ Take(v, n) = prefix => StartsWith(v, prefix)
           /\ Len(prefix) = n /\ StartsWith(v, prefix) => Take(v, n) = prefix
           /\ Len(prefix) <= n => Take(prefix, n) = prefix
<1>1. /\ Len(v) \in Nat /\ Len(prefix) \in Nat
  BY DEF Ordinary
<1>2. /\ Take(v, n) \in Ordinary
      /\ Len(Take(v, n)) = IF n < Len(v) THEN n ELSE Len(v)
      /\ \A i \in 1..Len(Take(v, n)) : Take(v, n)[i] = v[i]
  BY TakeIs
<1>3. /\ Take(prefix, n) \in Ordinary
      /\ Len(Take(prefix, n)) = IF n < Len(prefix) THEN n ELSE Len(prefix)
      /\ \A i \in 1..Len(Take(prefix, n)) : Take(prefix, n)[i] = prefix[i]
  BY TakeIs
<1>4. StartsWith(v, prefix) <=> Len(prefix) <= Len(v) /\ \A i \in 1..Len(prefix) : v[i] = prefix[i]
  BY StartsWithIs
<1>5. StartsWith(Take(v, n), Take(prefix, n)) <=>
          /\ Len(Take(prefix, n)) <= Len(Take(v, n))
          /\ \A i \in 1..Len(Take(prefix, n)) : Take(v, n)[i] = Take(prefix, n)[i]
  BY <1>2, <1>3, StartsWithIs
<1>6. StartsWith(Take(v, n), prefix) <=>
          /\ Len(prefix) <= Len(Take(v, n))
          /\ \A i \in 1..Len(prefix) : Take(v, n)[i] = prefix[i]
  BY <1>2, StartsWithIs
<1>7. StartsWith(v, prefix) => StartsWith(Take(v, n), Take(prefix, n))
  <2> SUFFICES ASSUME StartsWith(v, prefix) PROVE StartsWith(Take(v, n), Take(prefix, n))
    OBVIOUS
  <2>1. Len(Take(prefix, n)) <= Len(Take(v, n))
    BY <1>1, <1>2, <1>3, <1>4
  <2>2. \A i \in 1..Len(Take(prefix, n)) : Take(v, n)[i] = Take(prefix, n)[i]
    <3> SUFFICES ASSUME NEW i \in 1..Len(Take(prefix, n)) PROVE Take(v, n)[i] = Take(prefix, n)[i]
      OBVIOUS
    <3>1. i \in 1..Len(Take(v, n)) /\ i \in 1..Len(prefix)
      BY <1>1, <1>2, <1>3, <2>1
    <3> QED
      BY <1>2, <1>3, <1>4, <3>1
  <2> QED
    BY <1>5, <2>1, <2>2
<1>8. StartsWith(Take(v, n), prefix) => StartsWith(v, prefix)
  <2> SUFFICES ASSUME StartsWith(Take(v, n), prefix) PROVE StartsWith(v, prefix)
    OBVIOUS
  <2>1. Len(prefix) <= Len(v)
    BY <1>1, <1>2, <1>6
  <2>2. \A i \in 1..Len(prefix) : v[i] = prefix[i]
    <3> SUFFICES ASSUME NEW i \in 1..Len(prefix) PROVE v[i] = prefix[i]
      OBVIOUS
    <3>1. i \in 1..Len(Take(v, n))
      BY <1>1, <1>2, <1>6
    <3> QED
      BY <1>2, <1>6, <3>1
  <2> QED
    BY <1>4, <2>1, <2>2
<1>9. Len(prefix) = n => (Take(v, n) = prefix <=> StartsWith(v, prefix))
  <2>1. Len(prefix) = n /\ Take(v, n) = prefix => Len(prefix) <= Len(v)
    BY <1>1, <1>2
  <2> QED
    BY <2>1 DEF StartsWith
<1>10. Len(prefix) <= n => Take(prefix, n) = prefix
  BY <1>1 DEF Take
<1> QED
  BY <1>7, <1>8, <1>9, <1>10

-----------------------------------------------------------------------------
(***************************************************************************)
(* Inclusive projection                                                     *)
(***************************************************************************)
LEMMA PlusIs ==
    ASSUME NEW x \in Numbers, NEW n \in Int
    PROVE  /\ Plus(x, n) \in Numbers
           /\ Plus(x, n)[1] = x[1] + n
<1>1. x[1] \in Int
  BY NumbersAre
<1>2. Plus(x, n) = Number(x[1] + n) /\ x[1] + n \in Int
  BY <1>1 DEF Plus, Number
<1> QED
  BY <1>2, NumberIs DEF Numbers

LEMMA OneMore ==
    ASSUME NEW x \in Numbers
    PROVE  /\ Plus(x, 1) \in Numbers /\ Plus(x, 1)[1] = x[1] + 1
           /\ Plus(x, -1) \in Numbers /\ Plus(x, -1)[1] = x[1] - 1
<1>1. 1 \in Int /\ -1 \in Int
  OBVIOUS
<1>2. Plus(x, 1) \in Numbers /\ Plus(x, 1)[1] = x[1] + 1
  BY <1>1, PlusIs, Zenon
<1>3. Plus(x, -1) \in Numbers /\ Plus(x, -1)[1] = x[1] + (-1)
  BY <1>1, PlusIs, Zenon
<1>4. x[1] \in Int
  BY NumbersAre
<1> QED
  BY <1>2, <1>3, <1>4

(* The literal is moved to the next value inside the range. *)
LEMMA BoundaryIsInside ==
    ASSUME NEW t, NEW floating, TransformFits(t, floating), t.kind \in Rounds,
           NEW p, p.op \in Inequalities, ValueFits(p.lit, t),
           NEW v, ValueFits(v, t), Compares(v, p.op, p.lit)
    PROVE  /\ ValueFits(AdjustBoundary(t, p), t)
           /\ p.op \in {"lt", "le"} => ~Less(AdjustBoundary(t, p), v)
           /\ p.op \in {"gt", "ge"} => ~Less(v, AdjustBoundary(t, p))
<1>1. v \in Ordinary /\ p.lit \in Ordinary
  BY DEF ValueFits
<1>2. CASE AdjustBoundary(t, p) = p.lit
  BY <1>1, <1>2, LessIsStrict DEF Compares
<1>3. CASE AdjustBoundary(t, p) # p.lit
  <2>1. /\ t.type # "string"
        /\ \/ p.op = "lt" /\ AdjustBoundary(t, p) = Plus(p.lit, -1)
           \/ p.op = "gt" /\ AdjustBoundary(t, p) = Plus(p.lit, 1)
    BY <1>3 DEF AdjustBoundary, Inequalities
  <2>2. v \in Numbers /\ p.lit \in Numbers
    BY <2>1 DEF ValueFits
  <2>3. v[1] \in Int /\ p.lit[1] \in Int
    BY <2>2, NumbersAre
  <2>4. /\ AdjustBoundary(t, p) \in Numbers
        /\ AdjustBoundary(t, p)[1] = IF p.op = "lt" THEN p.lit[1] - 1 ELSE p.lit[1] + 1
    <3>1. Plus(p.lit, 1) \in Numbers /\ Plus(p.lit, 1)[1] = p.lit[1] + 1
      BY <2>2, OneMore
    <3>2. Plus(p.lit, -1) \in Numbers /\ Plus(p.lit, -1)[1] = p.lit[1] - 1
      BY <2>2, OneMore
    <3> QED
      BY <2>1, <3>1, <3>2
  <2>5. CASE p.op = "lt"
    <3>1. v[1] < p.lit[1]
      BY <2>2, <2>5, LessOfNumbers DEF Compares
    <3>2. v[1] <= AdjustBoundary(t, p)[1] /\ AdjustBoundary(t, p)[1] \in Int
      BY <2>3, <2>4, <2>5, <3>1
    <3>3. ~Less(AdjustBoundary(t, p), v)
      BY <2>2, <2>3, <2>4, <3>2, LessOfNumbers
    <3>4. ValueFits(AdjustBoundary(t, p), t)
      BY <2>3, <2>4, <3>2, NumbersAre DEF ValueFits
    <3> QED
      BY <2>5, <3>3, <3>4
  <2>6. CASE p.op = "gt"
    <3>1. p.lit[1] < v[1]
      BY <2>2, <2>6, LessOfNumbers DEF Compares
    <3>2. AdjustBoundary(t, p)[1] <= v[1] /\ AdjustBoundary(t, p)[1] \in Int
          /\ p.lit[1] <= AdjustBoundary(t, p)[1]
      BY <2>3, <2>4, <2>6, <3>1
    <3>3. ~Less(v, AdjustBoundary(t, p))
      BY <2>2, <2>3, <2>4, <3>2, LessOfNumbers
    <3>4. t.kind = "day" /\ t.type # "date" => p.lit[1] >= 0
      BY DEF ValueFits
    <3>5. ValueFits(AdjustBoundary(t, p), t)
      BY <2>3, <2>4, <3>2, <3>4, NumbersAre DEF ValueFits
    <3> QED
      BY <2>6, <3>3, <3>5
  <2> QED
    BY <2>1, <2>5, <2>6
<1> QED
  BY <1>2, <1>3

(* The literal is moved by one only for times, and away from the range. *)
LEMMA AdjustsTimeOfNumbers ==
    ASSUME NEW t, NEW floating, TransformFits(t, floating), t.kind \in Rounds,
           NEW b, ValueFits(b, t), AdjustsTime(t, Apply(t, b))
    PROVE  /\ Apply(t, b) \in Numbers /\ Plus(Apply(t, b), 1) \in Ordinary
           /\ Less(Apply(t, b), Plus(Apply(t, b), 1))
<1>1. t.type # "string"
  BY DEF AdjustsTime, TransformFits
<1>2. Apply(t, b) \in Numbers
  BY <1>1, ApplyIs
<1>3. Apply(t, b)[1] \in Int
  BY <1>2, NumbersAre
<1>4. Plus(Apply(t, b), 1) \in Numbers /\ Plus(Apply(t, b), 1)[1] = Apply(t, b)[1] + 1
  BY <1>2, PlusIs
<1> QED
  BY <1>2, <1>3, <1>4, LessOfNumbers, NumbersAre

LEMMA HoldsOf ==
    ASSUME NEW y, NEW op, NEW lit
    PROVE  /\ op \in Inequalities =>
                  (Holds(y, LeafOf(op, lit)) <=> y # None /\ Compares(y, op, lit))
           /\ Holds(y, LeafOf("eq", lit)) <=> y = lit
           /\ Holds(y, LeafOf("notEq", lit)) <=> y # lit
           /\ Holds(y, LeafOf("startsWith", lit)) <=> y # None /\ StartsWith(y, lit)
           /\ Holds(y, LeafOf("notStartsWith", lit)) <=> y = None \/ ~StartsWith(y, lit)
<1>1. op \in Inequalities => (Holds(y, LeafOf(op, lit)) <=> y # None /\ Compares(y, op, lit))
  BY DEF Holds, LeafOf, Inequalities
<1>2. Holds(y, LeafOf("eq", lit)) <=> y = lit
  BY DEF Holds, LeafOf, Inequalities
<1>3. Holds(y, LeafOf("notEq", lit)) <=> y # lit
  BY DEF Holds, LeafOf, Inequalities
<1>4. Holds(y, LeafOf("startsWith", lit)) <=> y # None /\ StartsWith(y, lit)
  BY DEF Holds, LeafOf, Inequalities
<1>5. Holds(y, LeafOf("notStartsWith", lit)) <=> y = None \/ ~StartsWith(y, lit)
  BY DEF Holds, LeafOf, Inequalities
<1> QED
  BY <1>1, <1>2, <1>3, <1>4, <1>5

LEMMA HoldsIs ==
    ASSUME NEW v, NEW p
    PROVE  /\ p.op \in Inequalities => (Holds(v, p) <=> v # None /\ Compares(v, p.op, p.lit))
           /\ p.op = "notEq" => (Holds(v, p) <=> v # p.lit)
           /\ p.op = "startsWith" => (Holds(v, p) <=> v # None /\ StartsWith(v, p.lit))
           /\ p.op = "notStartsWith" => (Holds(v, p) <=> v = None \/ ~StartsWith(v, p.lit))
<1>1. p.op \in Inequalities => (Holds(v, p) <=> v # None /\ Compares(v, p.op, p.lit))
  BY DEF Holds, Inequalities
<1>2. p.op = "notEq" => (Holds(v, p) <=> v # p.lit)
  BY DEF Holds, Inequalities
<1>3. p.op = "startsWith" => (Holds(v, p) <=> v # None /\ StartsWith(v, p.lit))
  BY DEF Holds, Inequalities
<1>4. p.op = "notStartsWith" => (Holds(v, p) <=> v = None \/ ~StartsWith(v, p.lit))
  BY DEF Holds, Inequalities
<1> QED
  BY <1>1, <1>2, <1>3, <1>4

LEMMA LiteralFits ==
    ASSUME NEW floating, NEW op \in LiteralOps, NEW x \in Ordinary
    PROVE  LeafFits(LeafOf(op, x), floating)
BY DEF LeafFits, LeafOf, LiteralOps, Inequalities, UnaryOps, PrefixOps, SetOps

LEMMA SetFits ==
    ASSUME NEW floating, NEW op \in SetOps, NEW xs \in SUBSET Ordinary
    PROVE  LeafFits(LeafIn(op, xs), floating)
BY DEF LeafFits, LeafIn, LiteralOps, Inequalities, UnaryOps, PrefixOps, SetOps

LEMMA PrefixFits ==
    ASSUME NEW floating, ~floating, NEW op \in PrefixOps, NEW x \in Ordinary
    PROVE  LeafFits(LeafOf(op, x), floating)
BY DEF LeafFits, LeafOf, LiteralOps, Inequalities, UnaryOps, PrefixOps, SetOps

LEMMA ProjectInequality ==
    ASSUME NEW t, NEW floating, TransformFits(t, floating), t.kind \in Rounds,
           NEW p, p.op \in Inequalities, ValueFits(p.lit, t),
           NEW v, ValueFits(v, t), Compares(v, p.op, p.lit)
    PROVE  LeafFits(ProjectBinary(t, p), floating) /\ Holds(Apply(t, v), ProjectBinary(t, p))
<1> DEFINE b == AdjustBoundary(t, p)
           x == Apply(t, b)
           y == Apply(t, v)
<1>1. /\ ValueFits(b, t)
      /\ p.op \in {"lt", "le"} => ~Less(b, v)
      /\ p.op \in {"gt", "ge"} => ~Less(v, b)
  BY BoundaryIsInside
<1>2. x \in Ordinary /\ y \in Ordinary /\ y # None
  BY <1>1, ApplyIs, OrdinaryIsNot
<1>3. /\ p.op \in {"lt", "le"} => ~Less(x, y)
      /\ p.op \in {"gt", "ge"} => ~Less(y, x)
  BY <1>1, ApplyKeepsOrder
<1>4. AdjustsTime(t, x) => Plus(x, 1) \in Ordinary /\ Less(x, Plus(x, 1))
  BY <1>1, AdjustsTimeOfNumbers
<1>5. AdjustOperator(t, p) = IF p.op \in {"lt", "le"} THEN "le" ELSE "ge"
  BY DEF AdjustOperator, Inequalities
<1>6. ProjectBinary(t, p) = IF p.op \in {"lt", "le"} /\ AdjustsTime(t, x)
                           THEN LeafOf(AdjustOperator(t, p), Plus(x, 1))
                           ELSE LeafOf(AdjustOperator(t, p), x)
  BY DEF ProjectBinary, Inequalities
<1> HIDE DEF b, x, y
<1>7. CASE p.op \in {"lt", "le"}
  <2>1. PICK z \in Ordinary : ProjectBinary(t, p) = LeafOf("le", z) /\ ~Less(z, y)
    <3>1. CASE AdjustsTime(t, x)
      <4>1. ProjectBinary(t, p) = LeafOf("le", Plus(x, 1))
        BY <1>5, <1>6, <1>7, <3>1
      <4>2. ~Less(Plus(x, 1), y)
        BY <1>2, <1>3, <1>4, <1>7, <3>1, LessIsTransitive
      <4> QED
        BY <1>4, <3>1, <4>1, <4>2
    <3>2. CASE ~AdjustsTime(t, x)
      BY <1>2, <1>3, <1>5, <1>6, <1>7, <3>2
    <3> QED
      BY <3>1, <3>2
  <2> QED
    BY <1>2, <2>1, LiteralFits DEF Holds, LeafOf, LiteralOps, Inequalities, Compares, y
<1>8. CASE p.op \in {"gt", "ge"}
  <2>1. ProjectBinary(t, p) = LeafOf("ge", x) /\ ~Less(y, x)
    BY <1>3, <1>5, <1>6, <1>8
  <2> QED
    BY <1>2, <2>1, LiteralFits DEF Holds, LeafOf, LiteralOps, Inequalities, Compares, y
<1> QED
  BY <1>7, <1>8 DEF Inequalities

LEMMA ProjectEq ==
    ASSUME NEW t, NEW floating, TransformFits(t, floating), t.kind \in Rounds,
           NEW p, p.op = "eq", ValueFits(p.lit, t)
    PROVE  LeafFits(ProjectBinary(t, p), floating) /\ Holds(Apply(t, p.lit), ProjectBinary(t, p))
<1>1. AdjustBoundary(t, p) = p.lit /\ AdjustOperator(t, p) = "eq"
  BY DEF AdjustBoundary, AdjustOperator
<1> DEFINE x == Apply(t, p.lit)
<1>2. ProjectBinary(t, p) = IF AdjustsTime(t, x) THEN LeafIn("in", {x, Plus(x, 1)})
                                                ELSE LeafOf("eq", x)
  BY <1>1 DEF ProjectBinary
<1>3. x \in Ordinary /\ (AdjustsTime(t, x) => Plus(x, 1) \in Ordinary)
  BY ApplyIs, AdjustsTimeOfNumbers
<1> HIDE DEF x
<1>4. Holds(x, LeafIn("in", {x, Plus(x, 1)})) /\ Holds(x, LeafOf("eq", x))
  BY DEF Holds, LeafIn, LeafOf, Inequalities
<1>5. AdjustsTime(t, x) => LeafFits(LeafIn("in", {x, Plus(x, 1)}), floating)
  BY <1>3, SetFits DEF SetOps
<1>6. LeafFits(LeafOf("eq", x), floating)
  BY <1>3, LiteralFits DEF LiteralOps
<1> QED
  BY <1>2, <1>4, <1>5, <1>6 DEF x

LEMMA ProjectPrefix ==
    ASSUME NEW t, NEW floating, TransformFits(t, floating), t.kind \in Rounds,
           NEW p, p.op \in PrefixOps, p.lit \in Ordinary, LiteralsFit(p, t),
           NEW v, ValueFits(v, t), Holds(v, p), v # None, ~floating
    PROVE  \/ ProjectBinary(t, p) = True
           \/ LeafFits(ProjectBinary(t, p), floating) /\ Holds(Apply(t, v), ProjectBinary(t, p))
<1>1. /\ t.type = "string" /\ t.kind = "truncate" /\ t.width \in Nat \ {0}
      /\ ByteLen(p.lit) = Len(p.lit) /\ Len(p.lit) \in Nat /\ v \in Ordinary
  BY DEF LiteralsFit, TransformFits, Rounds, Ordinary, ValueFits
<1>2. /\ AdjustBoundary(t, p) = p.lit
      /\ Apply(t, p.lit) = Take(p.lit, t.width) /\ Apply(t, v) = Take(v, t.width)
  BY <1>1, OrdinaryIsNot DEF AdjustBoundary, Apply
<1>3. /\ Take(v, t.width) \in Ordinary /\ Take(v, t.width) # None
      /\ Take(p.lit, t.width) \in Ordinary
  BY <1>1, TakeIs, OrdinaryIsNot
<1>4. /\ StartsWith(v, p.lit) => StartsWith(Take(v, t.width), Take(p.lit, t.width))
      /\ Len(p.lit) < t.width /\ StartsWith(Take(v, t.width), p.lit) => StartsWith(v, p.lit)
      /\ Len(p.lit) = t.width /\ Take(v, t.width) = p.lit => StartsWith(v, p.lit)
      /\ Len(p.lit) = t.width /\ StartsWith(v, p.lit) => Take(v, t.width) = p.lit
      /\ Len(p.lit) <= t.width => Take(p.lit, t.width) = p.lit
  BY <1>1, PrefixOfTaken
<1>5. /\ LeafFits(LeafOf("eq", p.lit), floating)
      /\ LeafFits(LeafOf("notEq", p.lit), floating)
      /\ LeafFits(LeafOf("startsWith", Take(p.lit, t.width)), floating)
      /\ LeafFits(LeafOf("notStartsWith", Take(p.lit, t.width)), floating)
  BY <1>3, LiteralFits, PrefixFits DEF LiteralOps, PrefixOps
<1>6. CASE p.op = "startsWith"
  <2>1. StartsWith(v, p.lit)
    BY <1>6 DEF Holds, Inequalities
  <2>2. CASE Len(p.lit) = t.width
    <3>1. ProjectBinary(t, p) = LeafOf("eq", p.lit)
      BY <1>1, <1>2, <1>4, <1>6, <2>2 DEF ProjectBinary, AdjustOperator
    <3> QED
      BY <1>2, <1>4, <1>5, <2>1, <2>2, <3>1, HoldsOf
  <2>3. CASE Len(p.lit) # t.width
    <3>1. ProjectBinary(t, p) = LeafOf("startsWith", Take(p.lit, t.width))
      BY <1>1, <1>2, <1>6, <2>3 DEF ProjectBinary, AdjustOperator
    <3> QED
      BY <1>2, <1>3, <1>4, <1>5, <2>1, <3>1, HoldsOf
  <2> QED
    BY <2>2, <2>3
<1>7. CASE p.op = "notStartsWith"
  <2>1. ~StartsWith(v, p.lit)
    BY <1>7 DEF Holds, Inequalities
  <2>2. CASE Len(p.lit) = t.width
    <3>1. ProjectBinary(t, p) = LeafOf("notEq", p.lit)
      BY <1>1, <1>2, <1>4, <1>7, <2>2 DEF ProjectBinary, AdjustOperator
    <3> QED
      BY <1>2, <1>4, <1>5, <2>1, <2>2, <3>1, HoldsOf
  <2>3. CASE Len(p.lit) > t.width
    BY <1>1, <1>7, <2>3 DEF ProjectBinary
  <2>4. CASE Len(p.lit) < t.width
    <3>1. ProjectBinary(t, p) = LeafOf("notStartsWith", p.lit)
      BY <1>1, <1>2, <1>4, <1>7, <2>4 DEF ProjectBinary, AdjustOperator
    <3>2. Take(p.lit, t.width) = p.lit
      BY <1>1, <1>4, <2>4
    <3>3. ~StartsWith(Take(v, t.width), p.lit)
      BY <1>4, <2>1, <2>4
    <3>4. Holds(Apply(t, v), LeafOf("notStartsWith", p.lit))
      BY <1>2, <3>3, HoldsOf
    <3> QED
      BY <1>5, <3>1, <3>2, <3>4
  <2> QED
    BY <1>1, <2>2, <2>3, <2>4
<1> QED
  BY <1>6, <1>7 DEF PrefixOps

LEMMA PartitionsAreOrdinary ==
    ASSUME NEW t, NEW floating, TransformFits(t, floating), t.kind \notin {"identity", "void"},
           NEW v, ValueFits(v, t)
    PROVE  Apply(t, v) \in Ordinary
<1>1. CASE t.kind = "bucket"
  <2>1. v \in Numbers /\ v # None /\ t.width \in Nat \ {0}
    BY <1>1, NumbersAre, OrdinaryIsNot DEF TransformFits, ValueFits
  <2>2. v[1] % t.width \in Int
    BY <2>1, NumbersAre, Rounding
  <2>3. Apply(t, v) = Number(v[1] % t.width)
    BY <1>1, <2>1 DEF Apply, Number
  <2> QED
    BY <2>2, <2>3, NumberIs
<1>2. CASE t.kind \in Rounds
  BY <1>2, ApplyIs
<1> QED
  BY <1>1, <1>2 DEF TransformFits

LEMMA UnarySays ==
    ASSUME NEW v, v \notin {None, NaN}, NEW p, p.op \in UnaryOps
    PROVE  Holds(v, p) <=> p.op \in {"notNull", "notNaN"}
<1>1. p.op = "isNull" => ~Holds(v, p)
  BY DEF Holds, Inequalities
<1>2. p.op = "notNull" => Holds(v, p)
  BY DEF Holds, Inequalities
<1>3. p.op = "isNaN" => ~Holds(v, p)
  BY DEF Holds, Inequalities
<1>4. p.op = "notNaN" => Holds(v, p)
  BY DEF Holds, Inequalities
<1> QED
  BY <1>1, <1>2, <1>3, <1>4 DEF UnaryOps

(* Only NULL has the partition value NULL. *)
LEMMA UnaryIsOfValue ==
    ASSUME NEW t, NEW floating, TransformFits(t, floating), t.kind \notin {"identity", "void"},
           NEW p, p.op \in UnaryOps,
           NEW v, v = None \/ (v = NaN /\ floating) \/ ValueFits(v, t)
    PROVE  Holds(Apply(t, v), p) <=> Holds(v, p)
<1>1. v # NaN
  <2>1. ~floating
    BY Zenon DEF TransformFits
  <2>2. ValueFits(v, t) => v \in Ordinary
    BY DEF ValueFits
  <2> QED
    BY <2>1, <2>2, OrdinaryIsNot, DatumAssumption
<1>2. CASE v = None
  BY <1>2, DatumAssumption DEF Apply
<1>3. CASE v # None
  <2>1. ValueFits(v, t)
    BY <1>1, <1>3
  <2>2. Apply(t, v) \in Ordinary
    BY <2>1, PartitionsAreOrdinary
  <2>3. Apply(t, v) # None /\ Apply(t, v) # NaN
    BY <2>2, OrdinaryIsNot
  <2>4. v \notin {None, NaN} /\ Apply(t, v) \notin {None, NaN}
    BY <1>1, <1>3, <2>3
  <2> QED
    BY <2>4, UnarySays
<1> QED
  BY <1>2, <1>3

(* What a leaf is projected to is a leaf again, and selects the partition. *)
LEMMA Projected ==
    ASSUME NEW t, NEW floating, TransformFits(t, floating),
           NEW p, LeafFits(p, floating), LiteralsFit(p, t),
           NEW v, v = None \/ (v = NaN /\ floating) \/ ValueFits(v, t),
           Holds(v, p), v = None => p.op \in UnaryOps
    PROVE  \/ ProjectLeaf(t, p) = True
           \/ LeafFits(ProjectLeaf(t, p), floating) /\ Holds(Apply(t, v), ProjectLeaf(t, p))
<1>1. CASE t.kind = "void"
  BY <1>1 DEF ProjectLeaf
<1>2. CASE t.kind = "identity"
  <2>1. ProjectLeaf(t, p) = p
    BY <1>2 DEF ProjectLeaf
  <2>2. Apply(t, v) = v
    BY <1>2 DEF Apply
  <2> QED
    BY <2>1, <2>2
<1>3. CASE t.kind \notin {"identity", "void"} /\ p.op \in UnaryOps
  <2>1. ProjectLeaf(t, p) = p
    BY <1>3 DEF ProjectLeaf, Unary, UnaryOps
  <2> QED
    BY <1>3, <2>1, UnaryIsOfValue
<1>4. CASE t.kind \notin {"identity", "void"} /\ p.op \notin UnaryOps
  <2>1. ~floating
    BY <1>4, Zenon DEF TransformFits
  <2>2. v # None /\ ValueFits(v, t) /\ t.kind \in {"bucket"} \cup Rounds
    BY <1>4, <2>1 DEF TransformFits
  <2>3. /\ p.op \in LiteralOps => Apply(t, p.lit) \in Ordinary
        /\ p.op \in SetOps => \A l \in p.lits : Apply(t, l) \in Ordinary
    BY <1>4, PartitionsAreOrdinary DEF LiteralsFit
  <2>4. CASE p.op = "in"
    <3> DEFINE more == {Plus(x, 1) : x \in {y \in {Apply(t, l) : l \in p.lits} : AdjustsTime(t, y)}}
               xs == {Apply(t, l) : l \in p.lits} \cup more
    <3>1. ProjectLeaf(t, p) = LeafIn("in", xs)
      BY <1>4, <2>4 DEF ProjectLeaf, ProjectSet, Unary, UnaryOps
    <3>2. v \in p.lits
      BY <2>4 DEF Holds, Inequalities
    <3>3. more \in SUBSET Ordinary
      <4> SUFFICES ASSUME NEW l \in p.lits, AdjustsTime(t, Apply(t, l))
                   PROVE  Plus(Apply(t, l), 1) \in Ordinary
        OBVIOUS
      <4>1. t.kind \in Rounds
        BY DEF AdjustsTime, Rounds
      <4>2. ValueFits(l, t)
        BY <2>4 DEF LiteralsFit, SetOps
      <4> QED
        BY <4>1, <4>2, AdjustsTimeOfNumbers
    <3>4. Apply(t, v) \in xs /\ xs \in SUBSET Ordinary
      BY <2>3, <2>4, <3>2, <3>3 DEF SetOps
    <3> HIDE DEF more, xs
    <3>5. Holds(Apply(t, v), LeafIn("in", xs))
      BY <3>4 DEF Holds, LeafIn, Inequalities
    <3> QED
      BY <3>1, <3>4, <3>5, SetFits DEF SetOps
  <2>5. CASE p.op = "notIn"
    BY <1>4, <2>5 DEF ProjectLeaf, Unary, UnaryOps
  <2>6. CASE p.op \in LiteralOps \cup PrefixOps /\ t.kind = "bucket"
    <3>1. p.op # "eq" => ProjectLeaf(t, p) = True
      BY <1>4, <2>6 DEF ProjectLeaf, Unary, UnaryOps, LiteralOps, PrefixOps, Inequalities
    <3>2. p.op = "eq" => ProjectLeaf(t, p) = LeafOf("eq", Apply(t, p.lit)) /\ v = p.lit
      BY <1>4, <2>6 DEF ProjectLeaf, Unary, UnaryOps, Holds, Inequalities
    <3>3. Holds(Apply(t, p.lit), LeafOf("eq", Apply(t, p.lit)))
      BY HoldsOf
    <3>4. p.op = "eq" => LeafFits(LeafOf("eq", Apply(t, p.lit)), floating)
      BY <2>3, LiteralFits DEF LiteralOps
    <3> QED
      BY <3>1, <3>2, <3>3, <3>4
  <2>7. CASE p.op \in LiteralOps \cup PrefixOps /\ t.kind \in Rounds
    <3>1. ProjectLeaf(t, p) = ProjectBinary(t, p)
      BY <1>4, <2>7 DEF ProjectLeaf, Unary, UnaryOps, LiteralOps, PrefixOps, Inequalities, Rounds
    <3>2. CASE p.op \in Inequalities
      <4>1. ValueFits(p.lit, t) /\ Compares(v, p.op, p.lit)
        BY <3>2, HoldsIs DEF LiteralsFit, LiteralOps
      <4> QED
        BY <2>2, <2>7, <3>1, <3>2, <4>1, ProjectInequality
    <3>3. CASE p.op = "eq"
      <4>1. v = p.lit /\ ValueFits(p.lit, t)
        BY <3>3 DEF Holds, Inequalities, LiteralsFit, LiteralOps
      <4> QED
        BY <2>7, <3>1, <3>3, <4>1, ProjectEq
    <3>4. CASE p.op = "notEq"
      BY <3>1, <3>4 DEF ProjectBinary
    <3>5. CASE p.op \in PrefixOps
      <4>1. p.lit \in Ordinary
        BY <3>5 DEF LeafFits
      <4> QED
        BY <2>1, <2>2, <2>7, <3>1, <3>5, <4>1, ProjectPrefix
    <3> QED
      BY <2>7, <3>2, <3>3, <3>4, <3>5 DEF LiteralOps
  <2> QED
    BY <1>4, <2>2, <2>4, <2>5, <2>6, <2>7 DEF LeafFits, SetOps
<1> QED
  BY <1>1, <1>2, <1>3, <1>4

(* The partition of a row that a leaf selects is selected by its projection. *)
THEOREM ProjectionLosesNoRow ==
    ASSUME NEW t, NEW floating, TransformFits(t, floating),
           NEW p, LeafFits(p, floating), LiteralsFit(p, t),
           NEW v, v = None \/ (v = NaN /\ floating) \/ ValueFits(v, t),
           SqlTruth(v, p) = "t"
    PROVE  ProjectLeaf(t, p) = True \/ Holds(Apply(t, v), ProjectLeaf(t, p))
BY SqlMeans, Projected

LEMMA SqlKnows ==
    ASSUME NEW floating, NEW v, NEW p, LeafFits(p, floating), Holds(v, p),
           v = None => p.op \in UnaryOps, v = NaN => p.op \notin Inequalities
    PROVE  SqlTruth(v, p) = "t"
<1>1. ~(v = None /\ p.op \notin UnaryOps) /\ ~(v = NaN /\ p.op \in Inequalities)
  OBVIOUS
<1>2. ~(p.op \in Inequalities /\ p.lit \in {BelowMin, AboveMax})
  BY DatumAssumption DEF LeafFits, LiteralOps, Ordinary
<1> QED
  BY <1>1, <1>2 DEF SqlTruth, UnaryOps

LEMMA UnaryStaysUnary ==
    ASSUME NEW t, NEW p, p.op \in UnaryOps
    PROVE  ProjectLeaf(t, p) \in {True, p}
BY DEF ProjectLeaf, Unary, UnaryOps

(* A manifest that has the partition of a row is not skipped for a leaf that the *)
(* row satisfies, whatever other partitions it has: the projection of the leaf   *)
(* and the summary of the partitions, each right by itself, fit together.        *)
THEOREM ManifestsLoseNoRow ==
    ASSUME NEW t, NEW floating, TransformFits(t, floating),
           NEW p, LeafFits(p, floating), LiteralsFit(p, t),
           NEW v, v = None \/ (v = NaN /\ floating) \/ ValueFits(v, t),
           SqlTruth(v, p) = "t",
           NEW parts, Column(parts, floating), IsFiniteSet(parts), Apply(t, v) \in parts
    PROVE  \/ ProjectLeaf(t, p) = True
           \/ SummaryMightMatch(SummaryOf(parts), ProjectLeaf(t, p), floating)
<1> DEFINE q == ProjectLeaf(t, p)
           x == Apply(t, v)
<1> SUFFICES ASSUME q # True PROVE SummaryMightMatch(SummaryOf(parts), q, floating)
  OBVIOUS
<1>1. /\ Holds(v, p)
      /\ v = None => p.op \in UnaryOps
      /\ v = NaN => p.op \notin Inequalities
  BY SqlMeans
<1>2. LeafFits(q, floating) /\ Holds(x, q)
  BY <1>1, Projected
<1>3. (x = None => q.op \in UnaryOps) /\ (x = NaN => q.op \notin Inequalities)
  <2>1. CASE p.op \in UnaryOps
    <3>1. q = p
      BY <2>1, UnaryStaysUnary
    <3> QED
      BY <2>1, <3>1 DEF UnaryOps, Inequalities
  <2>2. CASE p.op \notin UnaryOps /\ t.kind = "identity"
    <3>1. q = p /\ x = v
      BY <2>2 DEF ProjectLeaf, Apply
    <3> QED
      BY <1>1, <2>2, <3>1
  <2>3. CASE p.op \notin UnaryOps /\ t.kind # "identity"
    <3>1. t.kind # "void"
      BY DEF ProjectLeaf
    <3>2. ~floating
      BY <2>3, <3>1, Zenon DEF TransformFits
    <3>3. ValueFits(v, t)
      BY <1>1, <2>3, <3>2
    <3>4. x # None /\ x # NaN
      BY <2>3, <3>1, <3>3, PartitionsAreOrdinary, OrdinaryIsNot
    <3> QED
      BY <3>4
  <2> QED
    BY <2>1, <2>2, <2>3
<1> HIDE DEF q, x
<1>4. SqlTruth(x, q) = "t"
  BY <1>2, <1>3, SqlKnows
<1>5. x \in parts
  BY DEF x
<1> QED
  BY <1>2, <1>4, <1>5, SummariesLoseNoPartition
-----------------------------------------------------------------------------
(***************************************************************************)
(* Strict projection                                                        *)
(***************************************************************************)
(* Of numbers, the partition of the next literal decides <= and >=. *)
LEMMA NumberStrict ==
    ASSUME NEW t, NEW floating, TransformFits(t, floating), t.kind \in Rounds, t.type # "string",
           NEW p, p.op \in Inequalities, ValueFits(p.lit, t),
           NEW v, ValueFits(v, t), Holds(Apply(t, v), TruncateNumberStrict(t, p))
    PROVE  Compares(v, p.op, p.lit)
<1>1. v \in Numbers /\ p.lit \in Numbers /\ v[1] \in Int /\ p.lit[1] \in Int
  BY NumbersAre DEF ValueFits
<1>2. CASE p.op = "lt"
  <2>1. TruncateNumberStrict(t, p) = LeafOf("lt", Apply(t, p.lit))
    BY <1>2 DEF TruncateNumberStrict
  <2>2. Less(Apply(t, v), Apply(t, p.lit))
    BY <2>1, HoldsOf DEF Compares, Inequalities
  <2> QED
    BY <1>2, <2>2, ApplyKeepsOrder DEF Compares
<1>3. CASE p.op = "gt"
  <2>1. TruncateNumberStrict(t, p) = LeafOf("gt", Apply(t, p.lit))
    BY <1>3 DEF TruncateNumberStrict
  <2>2. Less(Apply(t, p.lit), Apply(t, v))
    BY <2>1, HoldsOf DEF Compares, Inequalities
  <2> QED
    BY <1>3, <2>2, ApplyKeepsOrder DEF Compares
<1>4. CASE p.op = "le"
  <2> DEFINE b == Plus(p.lit, 1)
  <2>1. b \in Numbers /\ b[1] = p.lit[1] + 1 /\ b[1] \in Int
    BY <1>1, OneMore
  <2>2. ValueFits(b, t)
    <3>1. t.kind = "day" /\ t.type # "date" => p.lit[1] >= 0
      BY DEF ValueFits
    <3> QED
      BY <1>1, <2>1, <3>1, NumbersAre DEF ValueFits
  <2>3. TruncateNumberStrict(t, p) = LeafOf("lt", Apply(t, b))
    BY <1>4 DEF TruncateNumberStrict
  <2> HIDE DEF b
  <2>4. Less(Apply(t, v), Apply(t, b))
    BY <2>3, HoldsOf DEF Compares, Inequalities
  <2>5. Less(v, b)
    BY <2>2, <2>4, ApplyKeepsOrder
  <2>6. ~Less(p.lit, v)
    BY <1>1, <2>1, <2>5, LessOfNumbers
  <2> QED
    BY <1>4, <2>6 DEF Compares
<1>5. CASE p.op = "ge"
  <2> DEFINE b == Plus(p.lit, -1)
  <2>1. b \in Numbers /\ b[1] = p.lit[1] - 1 /\ b[1] \in Int
    BY <1>1, OneMore
  <2>2. TruncateNumberStrict(t, p) = LeafOf("gt", Apply(t, b))
    BY <1>5 DEF TruncateNumberStrict
  <2> HIDE DEF b
  <2>3. Less(Apply(t, b), Apply(t, v))
    BY <2>2, HoldsOf DEF Compares, Inequalities
  <2>4. CASE t.kind = "day" /\ t.type # "date" /\ p.lit[1] = 0
    <3>1. v[1] >= 0
      BY <2>4 DEF ValueFits
    <3> QED
      BY <1>1, <1>5, <2>4, <3>1, LessOfNumbers DEF Compares
  <2>5. CASE ~(t.kind = "day" /\ t.type # "date" /\ p.lit[1] = 0)
    <3>1. t.kind = "day" /\ t.type # "date" => p.lit[1] >= 0
      BY DEF ValueFits
    <3>2. ValueFits(b, t)
      BY <1>1, <2>1, <2>5, <3>1, NumbersAre DEF ValueFits
    <3>3. Less(b, v)
      BY <2>3, <3>2, ApplyKeepsOrder
    <3>4. ~Less(v, p.lit)
      BY <1>1, <2>1, <3>3, LessOfNumbers
    <3> QED
      BY <1>5, <3>4 DEF Compares
  <2> QED
    BY <2>4, <2>5
<1> QED
  BY <1>2, <1>3, <1>4, <1>5 DEF Inequalities

LEMMA ArrayStrict ==
    ASSUME NEW t, NEW floating, TransformFits(t, floating), t.kind \in Rounds, t.type = "string",
           NEW p, p.op \in Inequalities, ValueFits(p.lit, t),
           NEW v, ValueFits(v, t), Holds(Apply(t, v), TruncateArrayStrict(t, p))
    PROVE  Compares(v, p.op, p.lit)
<1>1. v \in Ordinary /\ p.lit \in Ordinary
  BY DEF ValueFits
<1>2. CASE p.op \in {"lt", "le"}
  <2>1. TruncateArrayStrict(t, p) = LeafOf("lt", Apply(t, p.lit))
    BY <1>2 DEF TruncateArrayStrict
  <2>2. Less(Apply(t, v), Apply(t, p.lit))
    BY <2>1, HoldsOf DEF Compares, Inequalities
  <2>3. Less(v, p.lit)
    BY <2>2, ApplyKeepsOrder
  <2> QED
    BY <1>1, <1>2, <2>3, LessIsStrict DEF Compares
<1>3. CASE p.op \in {"gt", "ge"}
  <2>1. TruncateArrayStrict(t, p) = LeafOf("gt", Apply(t, p.lit))
    BY <1>3 DEF TruncateArrayStrict
  <2>2. Less(Apply(t, p.lit), Apply(t, v))
    BY <2>1, HoldsOf DEF Compares, Inequalities
  <2>3. Less(p.lit, v)
    BY <2>2, ApplyKeepsOrder
  <2> QED
    BY <1>1, <1>3, <2>3, LessIsStrict DEF Compares
<1> QED
  BY <1>2, <1>3 DEF Inequalities

LEMMA PrefixStrict ==
    ASSUME NEW t, NEW floating, TransformFits(t, floating), t.kind \in Rounds,
           NEW p, p.op \in PrefixOps, p.lit \in Ordinary, LiteralsFit(p, t),
           NEW v, ValueFits(v, t),
           TruncatePrefixStrict(t, p) # False, Holds(Apply(t, v), TruncatePrefixStrict(t, p))
    PROVE  Holds(v, p)
<1>1. /\ t.type = "string" /\ t.kind = "truncate" /\ t.width \in Nat \ {0}
      /\ ByteLen(p.lit) = Len(p.lit) /\ Len(p.lit) \in Nat /\ v \in Ordinary
  BY DEF LiteralsFit, TransformFits, Rounds, Ordinary, ValueFits
<1>2. /\ Apply(t, p.lit) = Take(p.lit, t.width) /\ Apply(t, v) = Take(v, t.width)
      /\ v # None
  BY <1>1, OrdinaryIsNot DEF Apply
<1>3. Take(v, t.width) # None
  BY <1>1, TakeIs, OrdinaryIsNot
<1>4. /\ StartsWith(v, p.lit) => StartsWith(Take(v, t.width), Take(p.lit, t.width))
      /\ Len(p.lit) < t.width /\ StartsWith(Take(v, t.width), p.lit) => StartsWith(v, p.lit)
      /\ Len(p.lit) = t.width /\ Take(v, t.width) = p.lit => StartsWith(v, p.lit)
      /\ Len(p.lit) = t.width /\ StartsWith(v, p.lit) => Take(v, t.width) = p.lit
      /\ Len(p.lit) <= t.width => Take(p.lit, t.width) = p.lit
  BY <1>1, PrefixOfTaken
<1>5. CASE Len(p.lit) < t.width
  <2>1. TruncatePrefixStrict(t, p) = p
    BY <1>1, <1>5 DEF TruncatePrefixStrict
  <2>2. Holds(Take(v, t.width), p)
    BY <1>2, <2>1
  <2> QED
    BY <1>1, <1>2, <1>3, <1>4, <1>5, <2>2, HoldsIs DEF PrefixOps
<1>6. CASE Len(p.lit) = t.width
  <2>1. TruncatePrefixStrict(t, p) =
            LeafOf(IF p.op = "startsWith" THEN "eq" ELSE "notEq", p.lit)
    BY <1>1, <1>6 DEF TruncatePrefixStrict
  <2> QED
    BY <1>2, <1>4, <1>6, <2>1, HoldsOf, HoldsIs DEF PrefixOps
<1>7. CASE Len(p.lit) > t.width
  <2>1. /\ p.op = "notStartsWith"
        /\ TruncatePrefixStrict(t, p) = LeafOf("notStartsWith", Take(p.lit, t.width))
    BY <1>1, <1>2, <1>7 DEF TruncatePrefixStrict
  <2> QED
    BY <1>2, <1>3, <1>4, <2>1, HoldsOf, HoldsIs
<1> QED
  BY <1>1, <1>5, <1>6, <1>7

(* Of a partition that the strict projection selects all rows satisfy the leaf. *)
THEOREM StrictProjectionIsCertain ==
    ASSUME NEW t, NEW floating, TransformFits(t, floating),
           NEW p, LeafFits(p, floating), LiteralsFit(p, t),
           NEW v, v = None \/ (v = NaN /\ floating) \/ ValueFits(v, t),
           StrictProjectLeaf(t, p) # False, Holds(Apply(t, v), StrictProjectLeaf(t, p))
    PROVE  Holds(v, p)
<1>1. t.kind # "void"
  BY DEF StrictProjectLeaf
<1>2. CASE t.kind = "identity"
  <2>1. StrictProjectLeaf(t, p) = p
    BY <1>2 DEF StrictProjectLeaf
  <2>2. Apply(t, v) = v
    BY <1>2 DEF Apply
  <2> QED
    BY <2>1, <2>2
<1>3. CASE t.kind # "identity" /\ p.op \in UnaryOps
  <2>1. StrictProjectLeaf(t, p) = p
    BY <1>1, <1>3 DEF StrictProjectLeaf, Unary, UnaryOps
  <2> QED
    BY <1>1, <1>3, <2>1, UnaryIsOfValue
<1>4. CASE t.kind # "identity" /\ p.op \notin UnaryOps
  <2>1. t.kind \in {"bucket"} \cup Rounds
    BY <1>1, <1>4 DEF TransformFits
  <2>2. v = None \/ ValueFits(v, t)
    <3>1. ~floating
      BY <1>1, <1>4, Zenon DEF TransformFits
    <3> QED
      BY <3>1
  <2>3. CASE p.op \in SetOps
    <3>1. /\ p.op = "notIn"
          /\ StrictProjectLeaf(t, p) = LeafIn("notIn", {Apply(t, l) : l \in p.lits})
      BY <1>1, <1>4, <2>3 DEF StrictProjectLeaf, Unary, UnaryOps, SetOps
    <3>2. Apply(t, v) \notin {Apply(t, l) : l \in p.lits}
      BY <3>1 DEF Holds, LeafIn, Inequalities
    <3>3. v \notin p.lits
      BY <3>2
    <3> QED
      BY <3>1, <3>3 DEF Holds, Inequalities
  <2>4. CASE p.op = "eq"
    BY <1>1, <1>4, <2>4
       DEF StrictProjectLeaf, TruncateArrayStrict, TruncateNumberStrict, Unary
  <2>5. CASE p.op = "notEq"
    <3>1. StrictProjectLeaf(t, p) = LeafOf("notEq", Apply(t, p.lit))
      BY <1>1, <1>4, <2>5
         DEF StrictProjectLeaf, TruncateArrayStrict, TruncateNumberStrict, Unary
    <3>2. Apply(t, v) # Apply(t, p.lit)
      BY <3>1, HoldsOf
    <3>3. v # p.lit
      BY <3>2
    <3> QED
      BY <2>5, <3>3, HoldsIs
  <2>6. CASE p.op \in Inequalities
    <3>1. /\ t.kind \in Rounds
          /\ StrictProjectLeaf(t, p) = IF t.type = "string" THEN TruncateArrayStrict(t, p)
                                                            ELSE TruncateNumberStrict(t, p)
      BY <1>1, <1>4, <2>1, <2>6 DEF StrictProjectLeaf, Unary, Inequalities
    <3>2. ValueFits(p.lit, t)
      BY <2>6 DEF LiteralsFit, LiteralOps
    <3>3. v # None
      <4>1. PICK op, lit : op \in Inequalities /\ StrictProjectLeaf(t, p) = LeafOf(op, lit)
        BY <2>6, <3>1 DEF TruncateArrayStrict, TruncateNumberStrict, Inequalities
      <4>2. Apply(t, v) # None
        BY <4>1, HoldsOf
      <4> QED
        BY <4>2 DEF Apply
    <3>4. Compares(v, p.op, p.lit)
      BY <2>2, <2>6, <3>1, <3>2, <3>3, NumberStrict, ArrayStrict
    <3> QED
      BY <2>6, <3>3, <3>4, HoldsIs
  <2>7. CASE p.op \in PrefixOps
    <3>1. t.kind \in Rounds /\ StrictProjectLeaf(t, p) = TruncatePrefixStrict(t, p)
      BY <1>1, <1>4, <2>1, <2>7 DEF StrictProjectLeaf, Unary, PrefixOps
    <3>2. p.lit \in Ordinary
      BY <2>7 DEF LeafFits
    <3>3. CASE v = None
      <4>1. Apply(t, v) = None
        BY <3>3 DEF Apply
      <4>2. p.op # "startsWith"
        <5> SUFFICES ASSUME p.op = "startsWith" PROVE FALSE
          OBVIOUS
        <5>1. TruncatePrefixStrict(t, p) \in {p, LeafOf("eq", p.lit)}
          BY <3>1 DEF TruncatePrefixStrict
        <5>2. ~Holds(None, p) /\ ~Holds(None, LeafOf("eq", p.lit))
          BY <3>2, HoldsIs, HoldsOf, OrdinaryIsNot
        <5> QED
          BY <3>1, <4>1, <5>1, <5>2
      <4> QED
        BY <2>7, <3>3, <4>2, HoldsIs DEF PrefixOps
    <3>4. CASE v # None
      BY <2>2, <2>7, <3>1, <3>2, <3>4, PrefixStrict
    <3> QED
      BY <3>3, <3>4
  <2> QED
    BY <1>4, <2>3, <2>4, <2>5, <2>6, <2>7 DEF LeafFits, LiteralOps
<1> QED
  BY <1>2, <1>3, <1>4
=============================================================================
