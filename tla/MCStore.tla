------------------------------ MODULE MCStore ------------------------------
(* The store on small instances; the constants are given in the cfg files. *)
EXTENDS Store, TLC

Symmetric == Permutations(Values)
=============================================================================
