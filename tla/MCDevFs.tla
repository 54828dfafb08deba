------------------------------ MODULE MCDevFs ------------------------------
(* Three names, for a directory whose list has a middle.                   *)
EXTENDS DevFs
CONSTANTS n1, n2, n3
MCNames == {n1, n2, n3}
MCSymmetry == Permutations(MCNames)
=============================================================================
