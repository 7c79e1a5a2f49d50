------------------------------- MODULE FileRead -------------------------------
(* One data file of a table scanned with a filter: what planning and the reader *)
(* skip - its manifest, its partition, the file, row groups, pages, deleted and *)
(* filtered rows - and which rows are left.  The scenario says what the file    *)
(* holds and what was asked.  What is made of the filter at each of these steps *)
(* is a parameter here; FilteredRead has the evaluators of the code.            *)
EXTENDS PositionDeletes

CONSTANTS
    ManifestMight(_),       \* may a row of the answer be in the manifest of the file,
    PartitionMight(_),      \* in its partition,
    FileOutcomes(_),        \* in the file, as its metrics, whichever they are, say,
    GroupOutcomes(_, _),    \* in a row group,
    PageOutcomes(_, _, _),  \* in a page of a row group?
    RowPasses(_, _),        \* does the row filter let a value pass?
    Asked(_, _)             \* is the filter true of a value, as SQL has it?

(* Where each page of a row group begins, and the end of the last.  Offsets of  *)
(* a byte range are counted in rows, after a header of 1; it begins with a row  *)
(* group.                                                                       *)
IsRead(s) ==
    /\ Len(s.rows) = s.starts[Len(s.groups) + 1]
    /\ s.start \in Nat /\ s.length \in Nat
    /\ \A g \in 1..Len(s.groups) :
          /\ s.start <= 1 + s.starts[g] \/ 1 + s.starts[g + 1] <= s.start
          /\ s.pages[g] \in Seq(Nat)
          /\ Len(s.pages[g]) > 1
          /\ s.pages[g][1] = 0
          /\ s.pages[g][Len(s.pages[g])] = s.groups[g]
          /\ \A n \in 1..(Len(s.pages[g]) - 1) : s.pages[g][n] < s.pages[g][n + 1]

ASSUME ReadAssumption == \A s \in Scenarios : IsRead(s)

VARIABLES
    pageRows,   \* row selection of the filter, over the rows of selected groups
    out         \* positions of the rows returned

vars == <<deleteVars, pageRows, out>>
unread == <<pageRows, out>>

Positions == 0..(Len(sc.rows) - 1)
InGroup(pos, g) == GroupBase(g) <= pos /\ pos < GroupBase(g + 1)

Init ==
    /\ DeletesInit
    /\ pageRows = << >>
    /\ out = {}

(***************************************************************************)
(* Planning                                                                 *)
(***************************************************************************)
PassOrSkip(passes, next) ==
    /\ Goto(IF passes THEN next ELSE "done")
    /\ UNCHANGED <<sc, selected, pageRows, deletes, out>>

EvalManifest ==
    /\ phase = "manifest"
    /\ PassOrSkip(ManifestMight(sc), "partition")

EvalPartition ==
    /\ phase = "partition"
    /\ PassOrSkip(PartitionMight(sc), "metrics")

EvalMetrics ==
    /\ phase = "metrics"
    /\ \E might \in FileOutcomes(sc) : PassOrSkip(might, "byteRange")

(***************************************************************************)
(* Row groups and pages                                                     *)
(***************************************************************************)
WholeFile == sc.start = 0 /\ sc.length = 0
Overlaps(g) == 1 + GroupBase(g) < sc.start + sc.length /\ sc.start < 1 + GroupBase(g + 1)

\* Mutant: only the row groups that end in the byte range.
SelectByteRangeWhole ==
    /\ phase = "byteRange"
    /\ selected' = IF WholeFile THEN None
                   ELSE {g \in 1..Len(sc.groups) :
                            Overlaps(g) /\ 1 + GroupBase(g + 1) < sc.start + sc.length}
    /\ Goto(IF sc.rowGroupFiltering THEN "rowGroups"
            ELSE IF sc.rowSelection THEN "pages" ELSE "deletes")
    /\ UNCHANGED <<sc, pageRows, deletes, out>>

\* Mutant: deletes are part of the row selection that can be switched off.
SelectByteRangeNoDeletes ==
    /\ phase = "byteRange"
    /\ selected' = IF WholeFile THEN None ELSE {g \in 1..Len(sc.groups) : Overlaps(g)}
    /\ Goto(IF sc.rowGroupFiltering THEN "rowGroups"
            ELSE IF sc.rowSelection THEN "pages" ELSE "decode")
    /\ UNCHANGED <<sc, pageRows, deletes, out>>

SelectByteRange ==
    /\ phase = "byteRange"
    /\ selected' = IF WholeFile THEN None ELSE {g \in 1..Len(sc.groups) : Overlaps(g)}
    /\ Goto(IF sc.rowGroupFiltering THEN "rowGroups"
            ELSE IF sc.rowSelection THEN "pages" ELSE "deletes")
    /\ UNCHANGED <<sc, pageRows, deletes, out>>

(* The evaluator is asked about every row group, of which none is empty; those *)
(* of the byte range that it rejects are dropped.                              *)
SelectRowGroup ==
    LET g == at[1]
    IN  /\ phase = "rowGroups"
        /\ g <= Len(sc.groups)
        /\ \E might \in GroupOutcomes(sc, g) :
              selected' = IF might THEN SelectedGroups ELSE SelectedGroups \ {g}
        /\ at' = <<g + 1, 1>>
        /\ UNCHANGED <<sc, phase, pageRows, deletes, out>>

RowGroupsSelected ==
    /\ phase = "rowGroups"
    /\ at[1] > Len(sc.groups)
    /\ Goto(IF sc.rowSelection THEN "pages" ELSE "deletes")
    /\ UNCHANGED <<sc, selected, pageRows, deletes, out>>

AllRows(n, keep) == [i \in 1..n |-> keep]

SkipPages ==
    /\ phase = "pages"
    /\ GroupsLeft /\ ~IsSelected(at[1])
    /\ at' = <<at[1] + 1, 1>>
    /\ UNCHANGED <<sc, phase, selected, pageRows, deletes, out>>

SelectPage ==
    LET g == at[1]
        begins == sc.pages[g]
        n == at[2]
    IN  /\ phase = "pages"
        /\ GroupsLeft /\ IsSelected(g)
        /\ \E might \in PageOutcomes(sc, g, n) :
              pageRows' = pageRows \o AllRows(begins[n + 1] - begins[n], might)
        /\ at' = IF n + 1 < Len(begins) THEN <<g, n + 1>> ELSE <<g + 1, 1>>
        /\ UNCHANGED <<sc, phase, selected, deletes, out>>

PagesSelected ==
    /\ phase = "pages"
    /\ ~GroupsLeft
    /\ Goto("deletes")
    /\ UNCHANGED <<sc, selected, pageRows, deletes, out>>

(***************************************************************************)
(* The rows                                                                 *)
(***************************************************************************)
(* Row selections count the rows of the selected row groups only: how many are *)
(* before a row group.                                                         *)
SelectedRows(g) == IF IsSelected(g) THEN sc.groups[g] ELSE 0
RowsBefore[g \in 1..(Len(sc.groups) + 1)] ==
    IF g = 1 THEN 0 ELSE RowsBefore[g - 1] + SelectedRows(g - 1)

Decodes(pos, g) ==
    LET i == RowsBefore[g] + pos - GroupBase(g) + 1
    IN  /\ sc.rowSelection => pageRows[i]
        /\ sc.posDeleted # {} => deletes.rows[i]
        /\ RowPasses(sc, sc.rows[pos + 1])

Decode ==
    /\ phase = "decode"
    /\ out' = {pos \in Positions : \E g \in SelectedGroups : InGroup(pos, g) /\ Decodes(pos, g)}
    /\ Goto("done")
    /\ UNCHANGED <<sc, selected, pageRows, deletes>>

(* The scenario is over. *)
Finished == phase = "done" /\ UNCHANGED vars

Next ==
    \/ EvalManifest \/ EvalPartition \/ EvalMetrics
    \/ SelectByteRange
    \/ SelectRowGroup \/ RowGroupsSelected
    \/ SkipPages \/ SelectPage \/ PagesSelected
    \/ NoDeletes /\ UNCHANGED unread
    \/ StartDeletes /\ UNCHANGED unread
    \/ SkipGroup /\ UNCHANGED unread
    \/ DeleteInGroup /\ UNCHANGED unread
    \/ DeletesApplied /\ UNCHANGED unread
    \/ Decode
    \/ Finished

Spec == Init /\ [][Next]_vars

-----------------------------------------------------------------------------

(* The rows of the split: those of the row groups that begin in it. *)
GroupInSplit(g) ==
    WholeFile \/ (sc.start <= 1 + GroupBase(g) /\ 1 + GroupBase(g) < sc.start + sc.length)
InSplit(pos) == \E g \in 1..Len(sc.groups) : InGroup(pos, g) /\ GroupInSplit(g)

(* What the evaluators owe the read.  They reject nothing that holds a wanted    *)
(* row: manifest, partition, file, row group or page; and the row filter lets   *)
(* the row pass.                                                                *)
Wanted(s, v) == v \notin s.eqDeleted /\ Asked(s, v)
HoldsWanted(s, from, to) == \E pos \in from..(to - 1) : Wanted(s, s.rows[pos + 1])
Allowed(wanted) == IF wanted THEN {TRUE} ELSE BOOLEAN

VerdictsKeep(s) ==
    /\ HoldsWanted(s, 0, Len(s.rows)) =>
          ManifestMight(s) /\ PartitionMight(s) /\ FileOutcomes(s) \subseteq {TRUE}
    /\ \A g \in 1..Len(s.groups) :
          LET Row(n) == s.starts[g] + s.pages[g][n]
          IN  /\ HoldsWanted(s, s.starts[g], s.starts[g + 1]) => GroupOutcomes(s, g) \subseteq {TRUE}
              /\ \A n \in 1..(Len(s.pages[g]) - 1) :
                    PageOutcomes(s, g, n) \subseteq Allowed(HoldsWanted(s, Row(n), Row(n + 1)))
    /\ \A n \in 1..Len(s.rows) : Wanted(s, s.rows[n]) => RowPasses(s, s.rows[n])

(* The row filter lets no value pass that an equality delete names. *)
NoDeletedValuePasses(s) ==
    \A n \in 1..Len(s.rows) : RowPasses(s, s.rows[n]) => s.rows[n] \notin s.eqDeleted

Live(pos) == pos \notin sc.posDeleted /\ sc.rows[pos + 1] \notin sc.eqDeleted

(* Pruning and deletes lose nothing: whatever true statistics the file has,    *)
(* every live row of the split that satisfies the filter is returned, though   *)
(* six places on the way may each skip it for all its neighbours.              *)
NoRowLost ==
    phase = "done" =>
        \A pos \in Positions :
            InSplit(pos) /\ Live(pos) /\ Asked(sc, sc.rows[pos + 1]) => pos \in out

(* Nothing deleted comes back, by position or by value, and nothing of another *)
(* split of the file: one that is read by another task.                        *)
OnlyLiveRows ==
    phase = "done" => \A pos \in out : InSplit(pos) /\ Live(pos)

(* Whichever of the pruning steps are switched on, no read goes round its       *)
(* position deletes: planning leads to the pass over them or to no rows at all, *)
(* and leaves it what the theorems about the pass assume: the first row group,  *)
(* an iterator nobody has moved, a choice among the row groups of the file.     *)
DeletesAreMerged == [][DeletesNext]_deleteVars
=============================================================================
