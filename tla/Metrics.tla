------------------------------- MODULE Metrics -------------------------------
(* What the evaluators conclude from statistics about one leaf of a predicate: *)
(* of a data file, a row group, a page, or the partitions of a manifest.       *)
(* Statistics are a record of rows (their number), values, nulls and nans      *)
(* (counts or None), lower and upper (bounds or None).                         *)
EXTENDS Datums

CONSTANT InPredicateLimit   \* 200 in the code

ASSUME MetricsAssumption == InPredicateLimit \in Nat

(***************************************************************************)
(* What can be known of rows: any counts, and any bounds that hold.        *)
(***************************************************************************)
Reals(values) == values \ {None, NaN}
ValuesOf(rows) == {rows[i] : i \in DOMAIN rows}
CountOf(rows, v) == Cardinality({i \in DOMAIN rows : rows[i] = v})

StatsWith(rows, counted, nansCounted, lower, upper) ==
    [rows |-> Len(rows), lower |-> lower, upper |-> upper,
     values |-> IF counted THEN Len(rows) ELSE None,
     nulls |-> IF counted THEN CountOf(rows, None) ELSE None,
     nans |-> IF nansCounted THEN CountOf(rows, NaN) ELSE None]
Unknown(rows) == StatsWith(rows, FALSE, FALSE, None, None)

LowerBounds(values, bounds) ==
    {b \in bounds : Reals(values) # {} /\ \A v \in Reals(values) : ~Less(v, b)}
UpperBounds(values, bounds) ==
    {b \in bounds : Reals(values) # {} /\ \A v \in Reals(values) : ~Less(b, v)}
TrueStats(rows, bounds) ==
    {StatsWith(rows, counted, counted /\ nansCounted, lower, upper) :
        counted \in BOOLEAN, nansCounted \in BOOLEAN,
        lower \in {None} \cup LowerBounds(ValuesOf(rows), bounds),
        upper \in {None} \cup UpperBounds(ValuesOf(rows), bounds)}

ContainsNullsOnly(m) == m.nulls # None /\ m.nulls = m.values
ContainsNaNsOnly(m) == m.nans # None /\ m.nans = m.values
MayContainNull(m) == m.nulls = None \/ m.nulls > 0
MayContainNaN(m) == m.nans = None \/ m.nans > 0

\* Mutant: the other bound.
VisitInequalityOfOtherBound(lower, upper, p) ==
    LET bound == IF p.op \in {"lt", "le"} THEN upper ELSE lower
    IN  p.lit = NaN \/ bound = None \/ Compares(bound, p.op, p.lit)

(* The bound that decides an inequality, unless the literal is NaN. *)
VisitInequality(lower, upper, p) ==
    LET bound == IF p.op \in {"lt", "le"} THEN lower ELSE upper
    IN  p.lit = NaN \/ bound = None \/ Compares(bound, p.op, p.lit)

PrefixMightMatch(lower, upper, prefix) ==
    /\ lower = None \/ ~Less(prefix, Take(lower, Len(prefix)))
    /\ upper = None \/ ~Less(Take(upper, Len(prefix)), prefix)

(* Both bounds begin with the prefix, and so does all that lies between. *)
BoundsHavePrefix(lower, upper, prefix) ==
    /\ lower # None /\ StartsWith(lower, prefix)
    /\ upper # None /\ StartsWith(upper, prefix)

(***************************************************************************)
(* Data files and row groups: may a row match?                             *)
(***************************************************************************)
EqMightMatch(m, lit) ==
    \/ m.lower = NaN
    \/ /\ m.lower = None \/ ~Less(lit, m.lower)
       /\ m.upper \in {None, NaN} \/ ~Less(m.upper, lit)

InMightMatch(m, lits) ==
    \/ Cardinality(lits) > InPredicateLimit
    \/ m.lower = NaN
    \/ /\ m.lower = None \/ \E l \in lits : ~Less(l, m.lower)
       /\ m.upper \in {None, NaN} \/ \E l \in lits : ~Less(m.upper, l)

InclusiveMetrics(m, p) ==
    CASE p.op = "isNull" -> MayContainNull(m)
      [] p.op = "notNull" -> ~ContainsNullsOnly(m)
      [] p.op = "isNaN" -> MayContainNaN(m) /\ ~ContainsNullsOnly(m)
      [] p.op = "notNaN" -> ~ContainsNaNsOnly(m)
      [] p.op \in Inequalities ->
            /\ ~ContainsNullsOnly(m) /\ ~ContainsNaNsOnly(m)
            /\ VisitInequality(m.lower, m.upper, p)
      [] p.op = "eq" ->
            ~ContainsNullsOnly(m) /\ ~ContainsNaNsOnly(m) /\ EqMightMatch(m, p.lit)
      [] p.op = "in" ->
            ~ContainsNullsOnly(m) /\ ~ContainsNaNsOnly(m) /\ InMightMatch(m, p.lits)
      [] p.op = "startsWith" ->
            ~ContainsNullsOnly(m) /\ PrefixMightMatch(m.lower, m.upper, p.lit)
      [] p.op = "notStartsWith" ->
            MayContainNull(m) \/ ~BoundsHavePrefix(m.lower, m.upper, p.lit)
      [] OTHER -> TRUE

(* A row group counts its rows as values and knows no NaN counts. *)
RowGroupMetrics(m, p) ==
    \/ p.op \in {"isNaN", "notNaN"}
    \/ InclusiveMetrics([m EXCEPT !.values = m.rows, !.nans = None], p)

(***************************************************************************)
(* Pages: as row groups, but NaN bounds are not told from others.          *)
(***************************************************************************)
PageInMightMatch(lower, upper, lits) ==
    \E l \in lits : /\ lower = None \/ ~Less(l, lower)
                    /\ upper = None \/ ~Less(upper, l)

PageMetrics(m, p, floating) ==
    LET AllNull == m.nulls = m.rows
        NoneNull == ~AllNull /\ m.nulls = 0
    IN  CASE p.op = "isNull" -> ~NoneNull
          [] p.op = "notNull" -> ~AllNull
          [] p.op = "isNaN" -> floating
          [] p.op \in Inequalities -> ~AllNull /\ VisitInequality(m.lower, m.upper, p)
          [] p.op = "eq" -> /\ ~AllNull
                            /\ m.lower = None \/ ~Less(p.lit, m.lower)
                            /\ m.upper = None \/ ~Less(m.upper, p.lit)
          [] p.op = "in" -> \/ Cardinality(p.lits) > InPredicateLimit
                            \/ ~AllNull /\ PageInMightMatch(m.lower, m.upper, p.lits)
          [] p.op = "startsWith" -> ~AllNull /\ PrefixMightMatch(m.lower, m.upper, p.lit)
          [] p.op = "notStartsWith" ->
                ~NoneNull \/ ~BoundsHavePrefix(m.lower, m.upper, p.lit)
          [] OTHER -> TRUE

(* A column the file does not have is taken for NULL, inequalities excepted. *)
PageOfMissingColumn(p, floating) ==
    CASE p.op = "isNaN" -> floating
      [] p.op = "in" -> Cardinality(p.lits) > InPredicateLimit
      [] OTHER -> p.op \notin {"notNull", "eq", "startsWith"}

(***************************************************************************)
(* Data files: must every row match?  (Nothing calls it yet.)              *)
(***************************************************************************)
OutsideOfBounds(m, lit) ==
    \/ m.lower # None /\ Less(lit, m.lower)
    \/ m.upper \notin {None, NaN} /\ Less(m.upper, lit)

StrictMetrics(m, p) ==
    LET Plain == ~MayContainNull(m) /\ ~MayContainNaN(m)
        OneKindOfNothing == ContainsNullsOnly(m) \/ ContainsNaNsOnly(m)
    IN  CASE p.op = "isNull" -> ContainsNullsOnly(m)
          [] p.op = "notNull" -> ~MayContainNull(m)
          [] p.op = "isNaN" -> ContainsNaNsOnly(m)
          [] p.op = "notNaN" -> ~MayContainNaN(m) \/ ContainsNullsOnly(m)
          [] p.op \in {"lt", "le"} ->
                Plain /\ m.upper # None /\ Compares(m.upper, p.op, p.lit)
          [] p.op \in {"gt", "ge"} ->
                /\ Plain /\ m.lower # None /\ Compares(m.lower, p.op, p.lit)
                /\ ~(p.op = "gt" /\ m.lower = NaN)
          [] p.op = "eq" -> Plain /\ m.lower = p.lit /\ m.upper = p.lit
          [] p.op = "in" -> Plain /\ m.lower \in p.lits /\ m.upper = m.lower
          [] p.op = "notEq" ->
                OneKindOfNothing \/ (m.lower # NaN /\ OutsideOfBounds(m, p.lit))
          [] p.op = "notIn" ->
                \/ OneKindOfNothing
                \/ m.lower # NaN /\ \A l \in p.lits : OutsideOfBounds(m, l)
          [] OTHER -> FALSE

(***************************************************************************)
(* Manifests: a summary of one partition field is a record of nulls and    *)
(* nans (whether there are any; nans may be None), lower and upper.        *)
(***************************************************************************)
SummaryOf(parts) ==
    LET reals == Reals(parts)
    IN  [nulls |-> None \in parts,
         nans |-> NaN \in parts,
         lower |-> IF reals = {} THEN None
                   ELSE CHOOSE v \in reals : v \in LowerBounds(parts, reals),
         upper |-> IF reals = {} THEN None
                   ELSE CHOOSE v \in reals : v \in UpperBounds(parts, reals)]

AreAllNull(s, floating) ==
    s.nulls /\ s.lower = None /\ (floating => s.nans = FALSE)

SummaryMightMatch(s, p, floating) ==
    CASE p.op = "isNull" -> s.nulls
      [] p.op = "notNull" -> ~AreAllNull(s, floating)
      [] p.op = "isNaN" -> s.nans # FALSE /\ ~AreAllNull(s, floating)
      [] p.op = "notNaN" -> ~(s.nans = TRUE /\ ~s.nulls /\ s.lower = None)
      [] p.op \in {"lt", "le"} -> s.lower # None /\ Compares(s.lower, p.op, p.lit)
      [] p.op \in {"gt", "ge"} -> s.upper # None /\ Compares(s.upper, p.op, p.lit)
      [] p.op = "eq" -> /\ s.lower # None /\ s.upper # None
                        /\ ~Less(p.lit, s.lower) /\ ~Less(s.upper, p.lit)
      [] p.op = "in" ->
            /\ s.lower # None
            /\ \/ Cardinality(p.lits) > InPredicateLimit
               \/ /\ \E l \in p.lits : ~Less(l, s.lower)
                  /\ s.upper = None \/ \E l \in p.lits : ~Less(s.upper, l)
      [] p.op = "startsWith" ->
            s.lower # None /\ s.upper # None /\ PrefixMightMatch(s.lower, s.upper, p.lit)
      [] p.op = "notStartsWith" ->
            \/ s.nulls \/ s.lower = None \/ s.upper = None
            \/ ~BoundsHavePrefix(s.lower, s.upper, p.lit)
      [] OTHER -> TRUE
=============================================================================
