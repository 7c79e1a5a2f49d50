--------------------------- MODULE PositionDeletes ---------------------------
(* The row selection that leaves out the rows a file has deleted by position:  *)
(* one pass over the row groups with an iterator over the delete vector, the   *)
(* next deleted position cached ahead of it, and a running count of rows.      *)
(* It is part of the read of a file (FileRead), which shares its state.        *)
EXTENDS DeleteVector

CONSTANT Scenarios      \* set of records, built in MCFilteredRead

(* Where each row group begins, and the end of the last: no file reaches the   *)
(* second bitmap, of 2^32 rows, though the delete file may name any position.  *)
IsFile(s) ==
    /\ s.groups \in Seq(Nat \ {0})
    /\ s.starts \in Seq(Nat)
    /\ Len(s.starts) = Len(s.groups) + 1
    /\ s.starts[1] = 0
    /\ \A g \in 1..Len(s.groups) : s.starts[g + 1] = s.starts[g] + s.groups[g]
    /\ \A g \in 1..Len(s.starts) : s.starts[g] < BitmapRows
    /\ s.posDeleted \in SUBSET Nat
    /\ \A chosen \in SUBSET (1..Len(s.groups)) : chosen # None

ASSUME ScenarioAssumption == \A s \in Scenarios : IsFile(s)

VARIABLES
    sc,         \* the scenario
    phase,      \* of planning and reading
    selected,   \* row groups selected, in their order, None for all of them
    at,         \* row group and page the loop of the phase has come to
    deletes     \* iterator, its cached next position, rows of the row groups passed,
                \* and the row selection so far

deleteVars == <<sc, phase, selected, at, deletes>>

GroupBase(g) == sc.starts[g]
SelectedGroups == IF selected = None THEN 1..Len(sc.groups) ELSE selected
IsSelected(g) == g \in SelectedGroups
GroupsLeft == \E g \in SelectedGroups : g >= at[1]

Goto(p) ==
    /\ phase' = p
    /\ at' = <<1, 1>>

DeletesInit ==
    /\ sc \in Scenarios
    /\ phase = "manifest"
    /\ selected = None
    /\ at = <<1, 1>>
    /\ deletes = [iter |-> IterOf(sc.posDeleted), next |-> None, base |-> 0, rows |-> << >>]

(* The next position is taken from the iterator before the first row group. *)
StartDeletes ==
    /\ phase = "deletes"
    /\ sc.posDeleted # {}
    /\ Goto("deleteRows")
    /\ deletes' = [deletes EXCEPT !.next = NextOf(deletes.iter), !.iter = AfterNext(@)]
    /\ UNCHANGED <<sc, selected>>

NoDeletes ==
    /\ phase = "deletes"
    /\ sc.posDeleted = {}
    /\ Goto("decode")
    /\ UNCHANGED <<sc, selected, deletes>>

GroupEnd == deletes.base + sc.groups[at[1]]

NextGroup ==
    /\ at' = <<at[1] + 1, 1>>
    /\ UNCHANGED <<sc, phase, selected>>

\* Mutant: the cached position is kept although it was skipped.
SkipGroupKeepNext ==
    /\ phase = "deleteRows"
    /\ GroupsLeft /\ ~IsSelected(at[1])
    /\ deletes' = [deletes EXCEPT !.iter = AdvanceTo(@, GroupEnd), !.base = GroupEnd]
    /\ NextGroup

\* Mutant: the cached position is replaced although it is still to come.
SkipGroupTakeNext ==
    LET iter == AdvanceTo(deletes.iter, GroupEnd)
    IN  /\ phase = "deleteRows"
        /\ GroupsLeft /\ ~IsSelected(at[1])
        /\ deletes' = [deletes EXCEPT !.iter = AfterNext(iter), !.next = NextOf(iter),
                                      !.base = GroupEnd]
        /\ NextGroup

(* The iterator skips the deletes of a row group that is not read; the cached *)
(* position is replaced only if it was one of them.                           *)
SkipGroup ==
    LET iter == AdvanceTo(deletes.iter, GroupEnd)
        stale == deletes.next # None /\ deletes.next < GroupEnd
    IN  /\ phase = "deleteRows"
        /\ GroupsLeft /\ ~IsSelected(at[1])
        /\ deletes' = [deletes EXCEPT !.iter = IF stale THEN AfterNext(iter) ELSE iter,
                                      !.next = IF stale THEN NextOf(iter) ELSE @,
                                      !.base = GroupEnd]
        /\ NextGroup

(* The positions still to come: the cached one and those of the iterator. *)
Ahead == (deletes.iter.rest \cup {deletes.next}) \ {None}

(* Select what precedes each delete, skip the deleted.  With a cached position *)
(* that lies before the row group the loop of the code never ends: no step.    *)
DeleteInGroup ==
    LET dead == {x \in Ahead : x < GroupEnd}
        left == [deletes.iter EXCEPT !.rest = Ahead \ dead]
        kept == [i \in 1..sc.groups[at[1]] |-> deletes.base + i - 1 \notin dead]
    IN  /\ phase = "deleteRows"
        /\ GroupsLeft /\ IsSelected(at[1])
        /\ deletes.next # None => deletes.next >= deletes.base
        /\ deletes' = [rows |-> deletes.rows \o kept,
                       base |-> GroupEnd,
                       iter |-> IF dead = {} THEN deletes.iter ELSE AfterNext(left),
                       next |-> IF dead = {} THEN deletes.next ELSE NextOf(left)]
        /\ NextGroup

DeletesApplied ==
    /\ phase = "deleteRows"
    /\ ~GroupsLeft
    /\ Goto("decode")
    /\ UNCHANGED <<sc, selected, deletes>>

(* The rest of the read, as far as the deletes see it: planning and the choice *)
(* of row groups before them, decoding after them.                             *)
BeforeDeletes ==
    /\ phase \notin {"deletes", "deleteRows", "decode", "done"}
    /\ phase' \notin {"deleteRows", "decode"}
    /\ phase' = "deletes" => at' = <<1, 1>>
    /\ selected' \in {None} \cup SUBSET (1..Len(sc.groups))
    /\ UNCHANGED <<sc, deletes>>

AfterDeletes ==
    /\ phase = "decode"
    /\ phase' = "done"
    /\ UNCHANGED <<sc, selected, deletes>>

DeletesNext ==
    \/ BeforeDeletes
    \/ NoDeletes \/ StartDeletes \/ SkipGroup \/ DeleteInGroup \/ DeletesApplied
    \/ AfterDeletes

DeletesSpec == DeletesInit /\ [][DeletesNext]_deleteVars

-----------------------------------------------------------------------------

(* The loop that selects the rows around the deletes of a row group would spin *)
(* for ever on a cached position that lies before it.                          *)
NeverSpins ==
    phase = "deleteRows" /\ GroupsLeft /\ deletes.next # None
        => deletes.next >= GroupBase(at[1])
=============================================================================
