----------------------------- MODULE MCSessionHost -----------------------------
(* Instances of SessionHost for TLC.                                       *)
EXTENDS SessionHost, TLC

\* Sessions, processes and requests are interchangeable.
Symmetry ==
  Permutations(Session) \cup Permutations(Proc) \cup Permutations(Gate)
================================================================================
