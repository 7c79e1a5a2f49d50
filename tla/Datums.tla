------------------------------- MODULE Datums -------------------------------
(* Values of a column, their order, and the part of a predicate that looks at *)
(* one value.  A number is <<n>>, a string is the sequence of its characters; *)
(* a column holds one or the other.                                           *)
EXTENDS Integers, Sequences, FiniteSets

CONSTANTS
    None,       \* NULL in a row; absent in metrics and bounds
    NaN,        \* the only NaN: the sign of a NaN is left out
    BelowMin,   \* a literal below what the type of the column can hold
    AboveMax,   \* a literal above it
    WideChars   \* characters that take two bytes; the others take one

ASSUME DatumAssumption ==
    /\ \A v \in {None, NaN, BelowMin, AboveMax} : v \notin Seq(Int)
    /\ None # NaN /\ None \notin Nat
    /\ WideChars \subseteq Int

Take(s, n) == IF n < Len(s) THEN SubSeq(s, 1, n) ELSE s

StartsWith(s, prefix) == Len(prefix) <= Len(s) /\ Take(s, Len(prefix)) = prefix

ByteLen(s) == Len(s) + Cardinality({i \in DOMAIN s : s[i] \in WideChars})

(* Numbers as usual, strings by their characters, NaN after everything. *)
Less(a, b) ==
    IF a = NaN \/ b = NaN
    THEN a # NaN
    ELSE \/ Len(a) < Len(b) /\ StartsWith(b, a)
         \/ \E i \in 1..Len(a) :
               /\ i <= Len(b)
               /\ a[i] < b[i]
               /\ \A j \in 1..(i - 1) : a[j] = b[j]

(* <, <=, > and >= *)
Compares(a, op, b) ==
    \/ op = "lt" /\ Less(a, b)
    \/ op = "le" /\ ~Less(b, a)
    \/ op = "gt" /\ Less(b, a)
    \/ op = "ge" /\ ~Less(a, b)

Inequalities == {"lt", "le", "gt", "ge"}

Leaf(op) == [op |-> op]
LeafOf(op, lit) == [op |-> op, lit |-> lit]
LeafIn(op, lits) == [op |-> op, lits |-> lits]
True == Leaf("true")
False == Leaf("false")

(* What a predicate says of one value, in two-valued logic. *)
Holds(v, p) ==
    CASE p.op = "isNull" -> v = None
      [] p.op = "notNull" -> v # None
      [] p.op = "isNaN" -> v = NaN
      [] p.op = "notNaN" -> v # NaN
      [] p.op \in Inequalities -> v # None /\ Compares(v, p.op, p.lit)
      [] p.op = "eq" -> v = p.lit
      [] p.op = "notEq" -> v # p.lit
      [] p.op = "startsWith" -> v # None /\ StartsWith(v, p.lit)
      [] p.op = "notStartsWith" -> v = None \/ ~StartsWith(v, p.lit)
      [] p.op = "in" -> v \in p.lits
      [] p.op = "notIn" -> v \notin p.lits

(* The same in SQL, where nothing but the tests for them is known of a NULL, *)
(* and no inequality of a NaN: "t", "f" or "u" for unknown.                  *)
SqlTruth(v, p) ==
    CASE \/ v = None /\ p.op \notin {"isNull", "notNull", "isNaN", "notNaN"}
         \/ v = NaN /\ p.op \in Inequalities -> "u"
      [] OTHER ->
            LET holds == IF p.op \in Inequalities /\ p.lit \in {BelowMin, AboveMax}
                         THEN p.op \in IF p.lit = BelowMin THEN {"gt", "ge"} ELSE {"lt", "le"}
                         ELSE Holds(v, p)
            IN  IF holds THEN "t" ELSE "f"
=============================================================================
