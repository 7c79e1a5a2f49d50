---------------------------- MODULE MCTransaction ----------------------------
(* Instances of Transaction for TLC. *)
EXTENDS TransactionRefinement, TLC

CONSTANTS w1, w2, w3, f1, f2, f3, k1, k2, o1, o2

AppendFiles(fs) == [kind |-> "append", files |-> fs, checkDuplicate |-> TRUE]
SetKeys(ks) == [kind |-> "props", set |-> ks, remove |-> {}]
SortBy(o) == [kind |-> "sort", order |-> o]

(* Two writers, each with a file of its own: a file meets itself when an    *)
(* append whose answer was lost is submitted again.                         *)
TxApart == w1 :> <<AppendFiles({f1})>> @@ w2 :> <<AppendFiles({f2})>>

(* Transactions of several actions that meet on main, on the sort order and *)
(* on the properties.                                                       *)
TxMixed ==
    w1 :> <<SortBy(o1), AppendFiles({f1}), SetKeys({k1, k2})>>
    @@ w2 :> <<SortBy(o2), SetKeys({k2})>>
    @@ w3 :> <<AppendFiles({f3}), [kind |-> "props", set |-> {}, remove |-> {k2}]>>
=============================================================================
