----------------------------- MODULE DeleteVector -----------------------------
(* The iterator over a delete vector: positions in ascending order, stored in  *)
(* one bitmap for every BitmapRows positions (2^32 in the code).  It is the    *)
(* positions still to come and the bitmap it is in, None before the first.     *)
EXTENDS Datums

CONSTANT BitmapRows

LOCAL INSTANCE FiniteSetsExt

ASSUME DeleteVectorAssumption == BitmapRows \in Nat \ {0} /\ None \notin Nat

BitmapOf(pos) == pos \div BitmapRows

IterOf(positions) == [rest |-> positions, bitmap |-> None]

NextOf(it) == IF it.rest = {} THEN None ELSE Min(it.rest)

AfterNext(it) ==
    IF it.rest = {} THEN it
    ELSE [rest |-> it.rest \ {Min(it.rest)}, bitmap |-> BitmapOf(Min(it.rest))]

(* Not before the first call of next.  The offset within the bitmap of pos is *)
(* also skipped in a later bitmap; without one, nothing more is skipped.      *)
AdvanceTo(it, pos) ==
    LET hi == BitmapOf(pos)
        later == {b \in {BitmapOf(x) : x \in it.rest} : b > it.bitmap}
        ahead == {b \in later : b >= hi}
        reached == IF it.bitmap >= hi \/ later = {} THEN it.bitmap
                   ELSE IF ahead # {} THEN Min(ahead) ELSE Max(later)
    IN  IF it.bitmap = None THEN it
        ELSE [bitmap |-> reached,
              rest |-> {x \in it.rest :
                           \/ BitmapOf(x) > reached
                           \/ /\ BitmapOf(x) = reached
                              /\ reached < hi \/ x % BitmapRows >= pos % BitmapRows}]
=============================================================================
