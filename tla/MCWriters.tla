------------------------------ MODULE MCWriters ------------------------------
EXTENDS Writers, TLC

CONSTANTS p1, p2, p3

AnyPartitions == Permutations(Partitions)
=============================================================================
