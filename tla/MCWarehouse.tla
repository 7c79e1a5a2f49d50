----------------------------- MODULE MCWarehouse -----------------------------
(* Instances of Warehouse for TLC. *)
EXTENDS Warehouse, TLC

CONSTANTS c1, c2

(* A namespace with another inside it, and a table of the same name in each.*)
Outer == <<"a">>
Inner == <<"a", "b">>
AllNamespaces == {Outer, Inner}
T == [ns |-> Outer, name |-> "t"]
V == [ns |-> Inner, name |-> "t"]
TwoIdents == {T, V}
OneDir == {T}
AnyClients == Permutations(Clients)
=============================================================================
