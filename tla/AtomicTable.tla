----------------------------- MODULE AtomicTable -----------------------------
(***************************************************************************)
(* What Transaction::commit promises: a table is a history of appends, a    *)
(* sort order and properties, and a transaction takes effect as a whole in  *)
(* one step, against the table as it is at that step, or not at all.        *)
(***************************************************************************)
EXTENDS Integers, Sequences

CONSTANTS Writers, PropertyKeys, None, Tx, MaxSubmits

VARIABLES
    history,   \* the appends in the table, oldest first: writer and files
    order,     \* the default sort order
    props,     \* the table properties
    exists,    \* whether the table is there
    outcome,   \* what each writer has been told
    tries      \* times each writer submitted its transaction

vars == <<history, order, props, exists, outcome, tries>>

Appends(w) == {i \in DOMAIN Tx[w] : Tx[w][i].kind = "append"}

(* The appends of w, the first of them first. *)
AppendsInOrder(w) ==
    {s \in UNION {[1..n -> Appends(w)] : n \in 0..Len(Tx[w])} :
        /\ \A i, j \in DOMAIN s : i < j => s[i] < s[j]
        /\ \A a \in Appends(w) : \E i \in DOMAIN s : s[i] = a}

(* The default sort order after the transaction: that of its last sort. *)
OrderAfter(w) ==
    LET sorts == {i \in DOMAIN Tx[w] : Tx[w][i].kind = "sort"}
    IN  IF sorts = {} THEN order
        ELSE Tx[w][CHOOSE i \in sorts : \A j \in sorts : j <= i].order

(* The value of k after the transaction: what its last action on k left. *)
PropAfter(w, k) ==
    LET touching == {i \in DOMAIN Tx[w] :
                        Tx[w][i].kind = "props"
                        /\ k \in Tx[w][i].set \cup Tx[w][i].remove}
        last == CHOOSE i \in touching : \A j \in touching : j <= i
    IN  IF touching = {} THEN props[k]
        ELSE IF k \in Tx[w][last].set THEN w ELSE None

Empty ==
    /\ history = << >> /\ order = None
    /\ props = [k \in PropertyKeys |-> None]

Init ==
    /\ Empty /\ exists = TRUE
    /\ outcome = [w \in Writers |-> IF Tx[w] = << >> THEN "committed" ELSE "pending"]
    /\ tries = [w \in Writers |-> 1]

(* The whole transaction at once.  Files that are to be checked are new. *)
Commit(w) ==
    /\ outcome[w] = "pending" /\ exists
    /\ \A i \in Appends(w) :
          Tx[w][i].checkDuplicate =>
              \A j \in DOMAIN history : history[j].files \cap Tx[w][i].files = {}
    /\ \E s \in AppendsInOrder(w) :
          history' = history \o [i \in DOMAIN s |-> [by |-> w, files |-> Tx[w][s[i]].files]]
    /\ order' = OrderAfter(w)
    /\ props' = [k \in PropertyKeys |-> PropAfter(w, k)]
    /\ \E o \in {"committed", "unknown"} : outcome' = [outcome EXCEPT ![w] = o]
    /\ UNCHANGED <<exists, tries>>

Refuse(w) ==
    /\ outcome[w] = "pending"
    /\ \E o \in {"conflict", "failed", "cancelled"} :
          outcome' = [outcome EXCEPT ![w] = o]
    /\ UNCHANGED <<history, order, props, exists, tries>>

Resubmit(w) ==
    /\ outcome[w] \notin {"pending", "committed"} /\ exists
    /\ tries[w] < MaxSubmits
    /\ outcome' = [outcome EXCEPT ![w] = "pending"]
    /\ tries' = [tries EXCEPT ![w] = @ + 1]
    /\ UNCHANGED <<history, order, props, exists>>

(* The table is dropped, and an empty one created in its place. *)
Drop == exists /\ exists' = FALSE /\ Empty' /\ UNCHANGED <<outcome, tries>>
Create == ~exists /\ exists' = TRUE /\ Empty' /\ UNCHANGED <<outcome, tries>>

Next ==
    \/ \E w \in Writers : Commit(w) \/ Refuse(w) \/ Resubmit(w)
    \/ Drop \/ Create

Spec == Init /\ [][Next]_vars
=============================================================================
