-------------------------- MODULE MCColumnProjection --------------------------
(* Tables of up to three columns. *)
EXTENDS ColumnProjection, TLC

CONSTANTS a, b, c

(* The first and the third column have one type, until it is promoted. *)
Mixed == <<"int", "float", "int">>
AnyNames == Permutations(Names)
Same == <<"int", "int", "int">>
=============================================================================
