------------------------------ MODULE MCSessions ------------------------------
(* Sessions for TLC: three requests of any kind, interchangeable.             *)
EXTENDS Sessions, TLC

MCSymmetry == Permutations(Requests)
=============================================================================
