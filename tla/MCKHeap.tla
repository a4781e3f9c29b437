------------------------------ MODULE MCKHeap -------------------------------
(* KHeap for TLC: the clients are interchangeable. *)
EXTENDS KHeap, TLC

Symmetry == Permutations(Client)
=============================================================================
