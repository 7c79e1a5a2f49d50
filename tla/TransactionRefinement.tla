------------------------ MODULE TransactionRefinement ------------------------
(***************************************************************************)
(* Transaction implements AtomicTable: the history is the snapshot log, and *)
(* a commit takes effect at the step that flips the catalog's pointer.      *)
(***************************************************************************)
EXTENDS Transaction

(* The append a snapshot of the log stands for: the manifest in its list    *)
(* that was written with it.                                                *)
AppendOf(id) ==
    LET uuid == table.snapshots[id].list
    IN  [by |-> uuid[1],
         files |-> (CHOOSE mf \in lists[uuid] : mf.uuid = uuid).files]

History ==
    IF table = None THEN << >>
    ELSE [i \in DOMAIN table.log |-> AppendOf(table.log[i])]

Order == IF table = None THEN None ELSE table.order

Props == IF table = None THEN [k \in PropertyKeys |-> None] ELSE table.props

(* What the application of w knows of its transaction. *)
Outcome == [w \in Writers |-> IF pc[w] \in InFlight THEN "pending" ELSE pc[w]]

AbstractTable ==
    INSTANCE AtomicTable WITH
        history <- History, order <- Order, props <- Props, exists <- table # None,
        outcome <- Outcome, tries <- submits

(* Every behaviour of the optimistic protocol, with its retries, partial    *)
(* failures, cancellations and lost answers, is one in which transactions   *)
(* take effect atomically and in some order.                                *)
ImplementsAtomicTable == AbstractTable!Spec
=============================================================================
