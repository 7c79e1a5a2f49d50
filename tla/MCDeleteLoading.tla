--------------------------- MODULE MCDeleteLoading ---------------------------
(* Instances of DeleteLoading for TLC. *)
EXTENDS DeleteLoading, TLC

CONSTANTS p, q, e, g

Kinds == p :> "pos" @@ q :> "pos" @@ e :> "eq" @@ g :> "eq"

(* Three tasks that share position and equality deletes, listed in          *)
(* different orders; p has rows of the first two files, q of none.          *)
Shared == <<<<p, e>>, <<e, q, p>>, <<q, g>>>>
Rows == p :> {1, 2} @@ q :> {} @@ e :> {} @@ g :> {}

ReadsOf(bads, badFiles, limits, runtimes) ==
    [deletes: {Shared}, kind: {Kinds}, rows: {Rows}, bad: bads,
     badFiles: badFiles, limit: limits, threads: runtimes]

(* Nothing or one file that cannot be read; one and two at a time. *)
ManyReads ==
    ReadsOf({{}, {p}, {e}}, {{}}, {1, 2}, BOOLEAN)
    \cup ReadsOf({{}}, {{2}}, {2}, BOOLEAN)
    \cup ReadsOf({{}}, {{}}, {3}, {FALSE})
=============================================================================
