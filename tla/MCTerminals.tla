------------------------------ MODULE MCTerminals ------------------------------
(* Terminals for TLC: the shells are interchangeable.                      *)
EXTENDS Terminals

Symmetry == Permutations(Shell)
================================================================================
