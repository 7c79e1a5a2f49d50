----------------------------- MODULE MCScanPlan -----------------------------
(* Instances of ScanPlan for TLC. *)
EXTENDS ScanPlan

Live(name, content, seq, partition) ==
    [name |-> name, content |-> content, seq |-> seq, partition |-> partition,
     spec |-> IF partition = << >> THEN 0 ELSE 1, alive |-> TRUE, filter |-> "keep"]

Manifest(content, entries) == [content |-> content, loads |-> TRUE, entries |-> entries]

(* Two partitions; the deletes of the second commit reach the files of the  *)
(* first one, its position delete also those of its own.                    *)
TwoCommits ==
    <<Manifest("data", <<Live("a", "data", 1, <<"p">>), Live("b", "data", 1, <<"q">>),
                         Live("c", "data", 2, <<"p">>)>>),
      Manifest("deletes", <<Live("x", "pos", 2, <<"p">>), Live("y", "eq", 2, << >>)>>)>>

(* Four manifests, of which two are loaded at a time. *)
FourManifests ==
    <<Manifest("data", <<Live("a", "data", 1, <<"p">>), Live("b", "data", 1, <<"q">>)>>),
      Manifest("deletes", <<Live("x", "pos", 2, <<"p">>)>>),
      Manifest("data", <<Live("c", "data", 2, <<"p">>)>>),
      Manifest("deletes", <<Live("y", "eq", 2, << >>), Live("z", "eq", 2, <<"p">>)>>)>>

(* The variants of a list with one thing wrong, ... *)
Faults(l) ==
    LET places == UNION {{m} \X DOMAIN l[m].entries : m \in DOMAIN l}
    IN  {[l EXCEPT ![m].loads = FALSE] : m \in DOMAIN l}
        \cup {[l EXCEPT ![e[1]].entries[e[2]].filter = "error"] : e \in places}
        \cup {[l EXCEPT ![e[1]].entries[e[2]].content =
                   IF @ = "data" THEN "pos" ELSE "data"] : e \in places}

(* ... with one entry pruned, dead, or written under another partition spec, *)
Prunings(l) ==
    LET places == UNION {{m} \X DOMAIN l[m].entries : m \in DOMAIN l}
    IN  {[l EXCEPT ![e[1]].entries[e[2]].filter = "prune"] : e \in places}
        \cup {[l EXCEPT ![e[1]].entries[e[2]].alive = FALSE] : e \in places}
        \cup {[l EXCEPT ![e[1]].entries[e[2]].spec = 2] : e \in places}

(* ... and with two things wrong. *)
DoubleFaults(l) == UNION {Faults(v) : v \in Faults(l)}

ScansOf(lists, limitManifests, limitEntries, runtimes) ==
    [list: lists, limitManifests: {limitManifests}, limitEntries: {limitEntries},
     threads: runtimes]

(* All single faults, on one thread and on several; two manifests at a time; *)
(* and two faults under the limits that a single processor gets by default,  *)
(* as the browser does.                                                      *)
ManyScans ==
    ScansOf({TwoCommits} \cup Faults(TwoCommits) \cup Prunings(TwoCommits), 1, 2, BOOLEAN)
    \cup ScansOf({FourManifests} \cup {v \in Faults(FourManifests) :
                     \E m \in DOMAIN v : ~v[m].loads}, 2, 2, {FALSE})
    \cup ScansOf(DoubleFaults(TwoCommits), 1, 1, {FALSE})

SoundScan == ScansOf({TwoCommits}, 2, 2, {TRUE})
=============================================================================
