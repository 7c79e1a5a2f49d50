----------------------------- MODULE FilteredRead -----------------------------
(* The evaluators in the read of a file: what is made of the filter at each of *)
(* its steps (the parameters of FileRead), for any statistics that are true.   *)
EXTENDS FileRead, Predicates, Metrics

LOCAL INSTANCE FiniteSetsExt

RowsOfGroup(s, g) == SubSeq(s.rows, s.starts[g] + 1, s.starts[g + 1])
RowsOfPage(s, g, n) ==
    SubSeq(s.rows, s.starts[g] + s.pages[g][n] + 1, s.starts[g] + s.pages[g][n + 1])

(* What can be known of rows: nothing, or anything that is true. *)
PossibleStats(s, rows) ==
    IF s.stats = "none" \/ ~s.present THEN {Unknown(rows)} ELSE TrueStats(rows, s.bounds)

(***************************************************************************)
(* Predicates                                                               *)
(***************************************************************************)
Filter(s) == Bind(RewriteNot(s.filter), s.required)
PartitionFilter(s) == Bind(RewriteNot(Project(s.transform, Filter(s))), FALSE)

(* One predicate for every row of the equality delete files. *)
DeletePredicate(s) ==
    LET keep(v) == RewriteNot(Not(IF v = None THEN Leaf("isNull") ELSE LeafOf("eq", v)))
    IN  Bind(FoldSet(LAMBDA v, p : And(p, keep(v)), True, s.eqDeleted), s.required)

FinalPredicate(s) ==
    IF DeletePredicate(s) = True THEN Filter(s)
    ELSE [op |-> "and", args |-> <<Filter(s), DeletePredicate(s)>>]

Evaluates(p, Leaf3(_)) == Visit(p, [l \in LeavesOf(p) |-> Leaf3(l)]) = "t"

(* What an evaluator may conclude from statistics of the rows. *)
Outcomes(s, p, rows, Might(_, _)) ==
    {Visit(p, [l \in LeavesOf(p) |-> Verdict(Might(m, l))]) = "t" : m \in PossibleStats(s, rows)}

(***************************************************************************)
(* Planning                                                                 *)
(***************************************************************************)
(* All rows of a file have the same partition value. *)
PartitionValue(s) == Apply(s.transform, s.rows[1])

(* The manifest holds other files too: their partition values are s.others. *)
PartitionSummary(s) == SummaryOf(s.others \cup {PartitionValue(s)})

ManifestEvaluator(s) ==
    LET Might(l) == Verdict(SummaryMightMatch(PartitionSummary(s), l, s.floating))
    IN  Evaluates(PartitionFilter(s), Might)

ExpressionEvaluator(s) == PartitionHolds(PartitionFilter(s), PartitionValue(s))

InclusiveMetricsEvaluator(s) == Outcomes(s, Filter(s), s.rows, InclusiveMetrics)

(***************************************************************************)
(* Reading                                                                  *)
(***************************************************************************)
RowGroupEvaluator(s, g) ==
    Outcomes(s, FinalPredicate(s), RowsOfGroup(s, g), RowGroupMetrics)

(* A file without the column has no column index for it to be asked about. *)
PageIndexEvaluator(s, g, n) ==
    LET Might(m, l) == IF s.present THEN PageMetrics(m, l, s.floating)
                                    ELSE PageOfMissingColumn(l, s.floating)
    IN  Outcomes(s, FinalPredicate(s), RowsOfPage(s, g, n), Might)

(* NaN is after everything and equal to itself; only the tests for NaN do not *)
(* look at the column.                                                        *)
RowTruth(v, p) ==
    CASE p.op = "isNaN" -> "t"
      [] p.op = "notNaN" -> "f"
      [] v = None /\ p.op \notin {"isNull", "notNull", "isNaN", "notNaN"} -> "u"
      [] OTHER -> Verdict(Holds(v, p))

TruthOfMissingColumn(p) ==
    Verdict(p.op \in {"isNull", "notNaN", "lt", "le", "notStartsWith", "notIn"})

RowFilter(s, v) ==
    LET Truth(l) == IF s.present THEN RowTruth(v, l) ELSE TruthOfMissingColumn(l)
    IN  Evaluates(FinalPredicate(s), Truth)

(* What the user asked, before the filter is rewritten or bound. *)
SqlFilter(s, v) == SqlTrue(s.filter, v)

-----------------------------------------------------------------------------

(* No evaluator says more than the rows bear out.  Where the strict evaluator   *)
(* of metrics or the strict projection says that all rows match, every row of   *)
(* the file does; and none of the steps of the read rejects what holds a row of *)
(* the answer or passes a value that is deleted, which is all that the theorems *)
(* about the read assume.                                                       *)
EvaluatorsAreSound ==
    /\ phase = "manifest" => VerdictsKeep(sc) /\ NoDeletedValuePasses(sc)
    /\ phase = "metrics" =>
          LET p == Filter(sc)
              all == \A i \in DOMAIN sc.rows :
                        Visit(p, [l \in LeavesOf(p) |-> Verdict(Holds(sc.rows[i], l))]) = "t"
          IN  /\ TRUE \in Outcomes(sc, p, sc.rows, StrictMetrics) => all
              /\ PartitionHolds(StrictProject(sc.transform, p), PartitionValue(sc)) => all
=============================================================================
