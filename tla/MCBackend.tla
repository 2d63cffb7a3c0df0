------------------------------ MODULE MCBackend ------------------------------
(* Backend with two captures that investigations share or select alone.    *)
EXTENDS Backend, TLC

CONSTANTS c1, c2

TwoCaptures == {<<c1, c2>>, <<c1, c1>>}

BackendSymmetry == Permutations(Jobs) \cup Permutations(Investigations)
                     \cup Permutations(StorageIds)
=============================================================================
