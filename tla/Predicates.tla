------------------------------ MODULE Predicates ------------------------------
(* Predicates over one column: how they are combined, negated and bound to a *)
(* schema, and how a visitor evaluates them from its verdicts on the leaves. *)
EXTENDS Transforms

Not(p) == [op |-> "not", args |-> <<p>>]

(* Constants are folded when predicates are combined. *)
And(p, q) ==
    IF p = False \/ q = False THEN False
    ELSE IF p = True THEN q
    ELSE IF q = True THEN p
    ELSE [op |-> "and", args |-> <<p, q>>]

Or(p, q) ==
    IF p = True \/ q = True THEN True
    ELSE IF p = False THEN q
    ELSE IF q = False THEN p
    ELSE [op |-> "or", args |-> <<p, q>>]

NegatedOp ==
    [true |-> "false", isNull |-> "notNull", isNaN |-> "notNaN", lt |-> "ge", le |-> "gt",
     eq |-> "notEq", in |-> "notIn", startsWith |-> "notStartsWith",
     false |-> "true", notNull |-> "isNull", notNaN |-> "isNaN", ge |-> "lt", gt |-> "le",
     notEq |-> "eq", notIn |-> "in", notStartsWith |-> "startsWith"]

(* De Morgan; a negated NOT is what stands below it, unchanged. *)
RECURSIVE Negate(_)
Negate(p) ==
    CASE p.op = "not" -> p.args[1]
      [] p.op = "and" -> [op |-> "or", args |-> <<Negate(p.args[1]), Negate(p.args[2])>>]
      [] p.op = "or" -> [op |-> "and", args |-> <<Negate(p.args[1]), Negate(p.args[2])>>]
      [] OTHER -> [p EXCEPT !.op = NegatedOp[p.op]]

(* Bottom up, so that no NOT is left for Negate to meet. *)
RECURSIVE RewriteNot(_)
RewriteNot(p) ==
    CASE p.op = "not" -> Negate(RewriteNot(p.args[1]))
      [] p.op = "and" -> And(RewriteNot(p.args[1]), RewriteNot(p.args[2]))
      [] p.op = "or" -> Or(RewriteNot(p.args[1]), RewriteNot(p.args[2]))
      [] OTHER -> p

(* A literal that does not fit the column decides the comparison ... *)
BindBinary(p) ==
    CASE \/ p.lit = AboveMax /\ p.op \in {"lt", "le", "notEq"}
         \/ p.lit = BelowMin /\ p.op \in {"gt", "ge", "notEq"} -> True
      [] \/ p.lit = AboveMax /\ p.op \in {"gt", "ge", "eq"}
         \/ p.lit = BelowMin /\ p.op \in {"lt", "le", "eq"} -> False
      [] OTHER -> p

(* ... and so does the number of literals in a set, if it is small. *)
BindSet(p) ==
    CASE p.lits = {} -> IF p.op = "in" THEN False ELSE True
      [] Cardinality(p.lits) = 1 ->
            LeafOf(IF p.op = "in" THEN "eq" ELSE "notEq", CHOOSE l \in p.lits : TRUE)
      [] OTHER -> p

BindUnary(p, required) ==
    CASE required /\ p.op = "isNull" -> False
      [] required /\ p.op = "notNull" -> True
      [] OTHER -> p

RECURSIVE Bind(_, _)
Bind(p, required) ==
    CASE p.op \in {"true", "false"} -> p
      [] p.op = "and" -> And(Bind(p.args[1], required), Bind(p.args[2], required))
      [] p.op = "or" -> Or(Bind(p.args[1], required), Bind(p.args[2], required))
      [] p.op = "not" -> LET inner == Bind(p.args[1], required)
                         IN  IF inner \in {True, False} THEN Negate(inner) ELSE Not(inner)
      [] p.op \in {"in", "notIn"} -> BindSet(p)
      [] p.op \in {"isNull", "notNull", "isNaN", "notNaN"} -> BindUnary(p, required)
      [] OTHER -> BindBinary(p)

(* The projections of a bound filter to one on the partition values. *)
RECURSIVE Project(_, _)
Project(t, p) ==
    CASE p \in {True, False} -> p
      [] p.op = "and" -> And(Project(t, p.args[1]), Project(t, p.args[2]))
      [] p.op = "or" -> Or(Project(t, p.args[1]), Project(t, p.args[2]))
      [] OTHER -> ProjectLeaf(t, p)

RECURSIVE StrictProject(_, _)
StrictProject(t, p) ==
    CASE p \in {True, False} -> p
      [] p.op = "and" -> And(StrictProject(t, p.args[1]), StrictProject(t, p.args[2]))
      [] p.op = "or" -> Or(StrictProject(t, p.args[1]), StrictProject(t, p.args[2]))
      [] OTHER -> StrictProjectLeaf(t, p)

RECURSIVE LeavesOf(_)
LeavesOf(p) ==
    CASE p.op \in {"true", "false"} -> {}
      [] p.op = "not" -> LeavesOf(p.args[1])
      [] p.op \in {"and", "or"} -> LeavesOf(p.args[1]) \cup LeavesOf(p.args[2])
      [] OTHER -> {p}

(* The value of a predicate, given the values "t", "f" or "u" of its leaves. *)
RECURSIVE Visit(_, _)
Visit(p, verdict) ==
    CASE p = True -> "t"
      [] p = False -> "f"
      [] p.op = "not" -> LET v == Visit(p.args[1], verdict)
                         IN  IF v = "t" THEN "f" ELSE IF v = "f" THEN "t" ELSE "u"
      [] p.op = "and" -> LET vs == {Visit(p.args[1], verdict), Visit(p.args[2], verdict)}
                         IN  IF "f" \in vs THEN "f" ELSE IF "u" \in vs THEN "u" ELSE "t"
      [] p.op = "or" -> LET vs == {Visit(p.args[1], verdict), Visit(p.args[2], verdict)}
                        IN  IF "t" \in vs THEN "t" ELSE IF "u" \in vs THEN "u" ELSE "f"
      [] OTHER -> verdict[p]

Verdict(b) == IF b THEN "t" ELSE "f"

(* A partition with a value: what both evaluators of entries make of it. *)
PartitionHolds(p, x) == Visit(p, [l \in LeavesOf(p) |-> Verdict(Holds(x, l))]) = "t"

(* The rows a query asks for: those of which SQL knows the predicate true. *)
SqlTrue(p, v) == Visit(p, [l \in LeavesOf(p) |-> SqlTruth(v, l)]) = "t"
=============================================================================
