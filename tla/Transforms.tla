------------------------------ MODULE Transforms ------------------------------
(* Partition transforms of one column, and the projection of a predicate on    *)
(* the column to one on the partition value.  A transform is a record of kind, *)
(* type (of the column) and width (of truncate, number of buckets).  "month"   *)
(* stands for year and month, whose projections are the same code; their units *)
(* have equal lengths here.                                                    *)
EXTENDS Datums

CONSTANTS
    TicksPerSecond,     \* 10^6 or 10^9
    SecondsPerHour,     \* 3600
    SecondsPerDay,      \* 86400
    SecondsPerMonth

ASSUME TransformAssumption ==
    /\ \A n \in {TicksPerSecond, SecondsPerHour, SecondsPerDay, SecondsPerMonth} :
          n \in Nat \ {0}
    /\ SecondsPerDay <= SecondsPerMonth

(* Division as in Rust and chrono: towards zero. *)
TruncDiv(a, b) == IF a >= 0 THEN a \div b ELSE -((-a) \div b)

(* Seconds are cut off before a tick is added to negative timestamps, so most  *)
(* of the last second of a day before 1970 falls on the next day.              *)
DayOfTimestamp(v) ==
    LET secs == TruncDiv(v, TicksPerSecond)
        ticks == (IF v >= 0 THEN v ELSE v + 1) % TicksPerSecond
        days == TruncDiv(secs * TicksPerSecond + ticks, TicksPerSecond * SecondsPerDay)
    IN  IF v >= 0 THEN days ELSE days - 1

\* Mutant: the month before the epoch is not counted from the end of its year.
MonthOfUnmirrored(v, length) ==
    LET year == (v \div length) \div 12
        month0 == (v \div length) % 12
    IN  IF v > 0 THEN month0 + 12 * year ELSE -(month0 + 12 * (-year - 1))

(* The calendar gives year and month of the year; up to the epoch the code *)
(* counts the months back from it.                                          *)
MonthOf(v, length) ==
    LET year == (v \div length) \div 12
        month0 == (v \div length) % 12
    IN  IF v > 0 THEN month0 + 12 * year ELSE -((12 - month0) + 12 * (-year - 1))

(* Of dates, whose unit is the day, only months are modelled. *)
Ticks(t) == IF t.type = "date" THEN 1 ELSE TicksPerSecond
MonthLength(t) == IF t.type = "date" THEN SecondsPerMonth \div SecondsPerDay
                                     ELSE SecondsPerMonth

(* The hash of bucket is opaque: remainders stand for it. *)
Apply(t, v) ==
    IF v = None THEN None ELSE
    CASE t.kind = "identity" -> v
      [] t.kind = "bucket" -> <<(v[1] % t.width)>>
      [] t.kind = "truncate" -> IF t.type = "string" THEN Take(v, t.width)
                                                     ELSE <<v[1] - (v[1] % t.width)>>
      [] t.kind = "day" -> IF t.type = "date" THEN v ELSE <<DayOfTimestamp(v[1])>>
      [] t.kind = "hour" -> <<v[1] \div (TicksPerSecond * SecondsPerHour)>>
      [] t.kind = "month" -> <<MonthOf(v[1], Ticks(t) * MonthLength(t))>>
      [] t.kind = "void" -> None

Unary == {"isNull", "notNull", "isNaN", "notNaN"}
Plus(v, n) == <<v[1] + n>>

(***************************************************************************)
(* Inclusive: a row that satisfies the predicate lies in a partition that   *)
(* satisfies the projection.                                                *)
(***************************************************************************)
AdjustBoundary(t, p) ==
    IF t.type \notin {"int", "date", "timestamp"} THEN p.lit ELSE
    CASE p.op = "lt" -> Plus(p.lit, -1)
      [] p.op = "gt" -> Plus(p.lit, 1)
      [] OTHER -> p.lit

(* Lengths are those of the encoding, widths count characters. *)
AdjustOperator(t, p) ==
    CASE p.op = "lt" -> "le"
      [] p.op = "gt" -> "ge"
      [] p.op = "startsWith" /\ ByteLen(p.lit) = t.width -> "eq"
      [] p.op = "notStartsWith" /\ ByteLen(p.lit) = t.width -> "notEq"
      [] OTHER -> p.op

(* Writers are expected that rounded negative values up. *)
AdjustsTime(t, x) ==
    /\ t.kind = "month" \/ (t.kind = "day" /\ t.type = "timestamp")
    /\ x[1] < 0

ProjectBinary(t, p) ==
    LET x == Apply(t, AdjustBoundary(t, p))
        op == AdjustOperator(t, p)
    IN  CASE p.op \in {"lt", "le"} /\ AdjustsTime(t, x) -> LeafOf(op, Plus(x, 1))
          [] p.op = "eq" /\ AdjustsTime(t, x) -> LeafIn("in", {x, Plus(x, 1)})
          [] p.op = "notEq" -> True
          [] p.op = "notStartsWith" /\ ByteLen(p.lit) > t.width -> True
          [] OTHER -> LeafOf(op, x)

ProjectSet(t, p) ==
    LET xs == {Apply(t, l) : l \in p.lits}
    IN  LeafIn("in", xs \cup {Plus(x, 1) : x \in {y \in xs : AdjustsTime(t, y)}})

ProjectLeaf(t, p) ==
    IF t.kind = "void" THEN True
    ELSE IF t.kind = "identity" \/ p.op \in Unary THEN p ELSE
    CASE p.op = "in" -> ProjectSet(t, p)
      [] p.op = "notIn" -> True
      [] OTHER -> IF t.kind # "bucket" THEN ProjectBinary(t, p)
                  ELSE IF p.op = "eq" THEN LeafOf("eq", Apply(t, p.lit)) ELSE True

(***************************************************************************)
(* Strict: every row of a partition that satisfies the projection satisfies *)
(* the predicate.  (Nothing calls it yet.)                                  *)
(***************************************************************************)
\* Mutant: as the inclusive projection, without moving the literal.
TruncateNumberUnmoved(t, p) ==
    IF p.op \in Inequalities \cup {"notEq"} THEN LeafOf(p.op, Apply(t, p.lit)) ELSE False

TruncateNumberStrict(t, p) ==
    CASE p.op \in {"lt", "gt", "notEq"} -> LeafOf(p.op, Apply(t, p.lit))
      [] p.op = "le" -> LeafOf("lt", Apply(t, Plus(p.lit, 1)))
      [] p.op = "ge" -> LeafOf("gt", Apply(t, Plus(p.lit, -1)))
      [] OTHER -> False

TruncateArrayStrict(t, p) ==
    CASE p.op \in {"lt", "le"} -> LeafOf("lt", Apply(t, p.lit))
      [] p.op \in {"gt", "ge"} -> LeafOf("gt", Apply(t, p.lit))
      [] p.op = "notEq" -> LeafOf("notEq", Apply(t, p.lit))
      [] OTHER -> False

TruncatePrefixStrict(t, p) ==
    CASE ByteLen(p.lit) < t.width -> p
      [] ByteLen(p.lit) = t.width ->
            LeafOf(IF p.op = "startsWith" THEN "eq" ELSE "notEq", p.lit)
      [] OTHER -> IF p.op = "notStartsWith" THEN LeafOf(p.op, Apply(t, p.lit)) ELSE False

StrictProjectLeaf(t, p) ==
    IF t.kind = "void" THEN False
    ELSE IF t.kind = "identity" \/ p.op \in Unary THEN p ELSE
    CASE p.op = "in" -> False
      [] p.op = "notIn" -> LeafIn("notIn", {Apply(t, l) : l \in p.lits})
      [] OTHER ->
            IF t.kind = "bucket"
            THEN IF p.op = "notEq" THEN LeafOf("notEq", Apply(t, p.lit)) ELSE False
            ELSE IF p.op \in {"startsWith", "notStartsWith"} THEN TruncatePrefixStrict(t, p)
            ELSE IF t.type = "string" THEN TruncateArrayStrict(t, p)
            ELSE TruncateNumberStrict(t, p)
=============================================================================
