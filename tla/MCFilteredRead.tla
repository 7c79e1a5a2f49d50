---------------------------- MODULE MCFilteredRead ----------------------------
(* Small files and all the predicates that matter for them. *)
EXTENDS FilteredRead

N(n) == <<n>>
Identity == [kind |-> "identity", type |-> "int", width |-> 0]

(* One row group of one page, nothing deleted, all of it read. *)
Base ==
    [rows |-> <<N(0)>>, present |-> TRUE, floating |-> FALSE, required |-> FALSE,
     filter |-> True, eqDeleted |-> {}, posDeleted |-> {},
     groups |-> <<1>>, starts |-> <<0, 1>>, pages |-> <<<<0, 1>>>>, stats |-> "any", bounds |-> {},
     transform |-> [kind |-> "void", type |-> "int", width |-> 0], others |-> {},
     start |-> 0, length |-> 0, rowGroupFiltering |-> TRUE, rowSelection |-> TRUE]

OneGroup(s) ==
    [s EXCEPT !.groups = <<Len(s.rows)>>, !.starts = <<0, Len(s.rows)>>,
              !.pages = <<<<0, Len(s.rows)>>>>]

Comparing(lits) ==
    {LeafOf(op, l) : op \in Inequalities \cup {"eq", "notEq"}, l \in lits}
InSets(sets) == {LeafIn(op, ls) : op \in {"in", "notIn"}, ls \in sets}
Prefixes(lits) == {LeafOf(op, l) : op \in {"startsWith", "notStartsWith"}, l \in lits}

(* Numbers, NULL and NaN in one page. *)
Numbers ==
    LET lits == {N(1), N(2)}
        leaves == {Leaf("isNull"), Leaf("notNull"), Leaf("isNaN")} \cup Comparing(lits)
                  \cup InSets({{}, {N(1)}, {N(0), N(2)}, {N(0), N(1), N(3)}})
                  \cup {LeafOf(op, x) : op \in {"lt", "le", "gt", "ge", "eq", "notEq"},
                                       x \in {BelowMin, AboveMax}}
        some == {LeafOf("lt", N(1)), LeafOf("eq", N(2)), Leaf("isNull")}
        compound == {Not(And(p, Not(q))) : p \in some, q \in some}
                    \cup {Or(Not(p), q) : p \in some, q \in some}
    IN  {OneGroup([Base EXCEPT !.rows = r, !.filter = f, !.floating = TRUE,
                               !.bounds = {N(0), N(1), N(2)}]) :
            r \in {<<v>> : v \in {None, NaN, N(1)}}
                  \cup [1..2 -> {None, NaN, N(0), N(1), N(2)}],
            f \in leaves \cup compound}

(* Strings, with bounds cut off to one character. *)
Strings ==
    LET strings == {<< >>, <<1>>, <<2>>, <<1, 1>>, <<1, 2>>, <<2, 1>>}
        leaves == Comparing({<<1>>, <<1, 2>>}) \cup Prefixes({<<1>>, <<1, 2>>})
                  \cup InSets({{<<1>>, <<2, 1>>}})
    IN  {OneGroup([Base EXCEPT !.rows = r, !.filter = f, !.bounds = {<< >>, <<1>>, <<2>>, <<3>>}]) :
            r \in {<<s, t>> : s \in strings, t \in strings \cup {None}}, f \in leaves}

(* A column that files written before it do not have. *)
Missing ==
    {OneGroup([Base EXCEPT !.rows = <<None, None>>, !.present = FALSE, !.filter = f,
                           !.eqDeleted = d]) :
        d \in {{}, {None}},
        f \in {Leaf("isNull"), Leaf("notNull"), Leaf("isNaN"), Leaf("notNaN")}
              \cup Comparing({N(1)}) \cup Prefixes({<<1>>}) \cup InSets({{N(1), N(2)}, {N(1), N(2), N(3)}})}

Transformed(ts, values, leaves, others) ==
    {OneGroup([Base EXCEPT !.rows = <<v>>, !.transform = t, !.filter = f, !.others = o]) :
        t \in ts, v \in values \cup {None}, f \in leaves, o \in others}

(* Partitioned files; the manifest may hold a file of another partition. *)
Partitioned ==
    LET numbers == {N(n) : n \in -3..3}
        times == {N(n) : n \in -9..9}
        lastYears == {N(-97), N(-96)}
        Plain(lits, sets) == {Leaf("isNull"), Leaf("notNull")} \cup Comparing(lits) \cup InSets(sets)
        One(kind, type, width) == {[kind |-> kind, type |-> type, width |-> width]}
    IN  Transformed(One("identity", "int", 0) \cup One("bucket", "int", 2)
                        \cup One("truncate", "int", 2) \cup One("truncate", "int", 3),
                    numbers, Plain({N(-2), N(-1), N(1), N(2)}, {{N(-1), N(2)}}),
                    {{}, {None}, {N(0)}})
        \cup Transformed(One("day", "timestamp", 0) \cup One("hour", "timestamp", 0)
                        \cup One("month", "timestamp", 0) \cup One("day", "timestamptz", 0)
                        \cup One("month", "timestamptz", 0),
                    times, Plain({N(n) : n \in {-8, -5, -4, -3, -1, 0, 1, 4, 7}},
                                 {{N(-5), N(-1)}, {N(0), N(4)}}), {{}, {N(0)}})
        \cup Transformed(One("month", "timestamp", 0), times \cup lastYears,
                    Comparing({N(-97), N(-96), N(-8), N(0)}), {{}})
        \cup Transformed(One("day", "date", 0) \cup One("month", "date", 0),
                    {N(n) : n \in -5..5}, Plain({N(n) : n \in -4..4}, {{N(-3), N(2)}}), {{}})
        \cup Transformed(One("truncate", "string", 1) \cup One("truncate", "string", 2),
                    {<< >>, <<1>>, <<1, 2>>, <<1, 2, 1>>, <<1, 2, 2>>, <<2>>},
                    {Leaf("isNull")} \cup Comparing({<<1>>, <<1, 2>>, <<1, 2, 1>>})
                    \cup Prefixes({<<1>>, <<1, 2>>, <<1, 2, 1>>}), {{}, {<<2>>}})

(* Six rows in row groups and pages, any of them deleted by position. *)
Layouts ==
    LET grouped == {[groups |-> <<2, 2, 2>>, starts |-> <<0, 2, 4, 6>>, pages |-> <<<<0, 1, 2>>, <<0, 2>>, <<0, 1, 2>>>>],
                    [groups |-> <<3, 1, 2>>, starts |-> <<0, 3, 4, 6>>, pages |-> <<<<0, 2, 3>>, <<0, 1>>, <<0, 2>>>>]}
    IN  {[Base EXCEPT !.rows = <<N(0), N(1), N(1), N(0), N(2), N(1)>>, !.filter = f,
                      !.groups = l.groups, !.starts = l.starts, !.pages = l.pages, !.posDeleted = d,
                      !.start = IF whole THEN 0 ELSE 1 + l.groups[1],
                      !.length = IF whole THEN 0 ELSE l.groups[2],
                      !.rowGroupFiltering = rg, !.rowSelection = pg,
                      !.bounds = {N(0), N(2)}] :
            l \in grouped, f \in {True, LeafOf("eq", N(1)), LeafOf("gt", N(0))},
            d \in SUBSET (0..5) \cup {{1, 4, 8}}, whole \in BOOLEAN, rg \in BOOLEAN, pg \in BOOLEAN}

(* Equality deletes; rows are NULL only where the deletes name NULL. *)
EqualityDeletes(values) ==
    {OneGroup([Base EXCEPT !.rows = r, !.filter = f, !.eqDeleted = d, !.bounds = {N(0), N(1), N(2)}]) :
        r \in [1..2 -> values], f \in {True, LeafOf("ge", N(1)), Leaf("notNull")},
        d \in {{N(1)}, {N(1), N(2)}, {None}, {None, N(0)}}}

Covered ==
    Numbers \cup Strings \cup Missing \cup Partitioned \cup Layouts
    \cup EqualityDeletes({N(0), N(1), N(2)})
    \cup {s \in EqualityDeletes({None, N(1)}) : s.eqDeleted = {None}}

(* Rows that are NULL where an equality delete names a value. *)
NullsAndDeletes == EqualityDeletes({None, N(0), N(1)})
==============================================================================
