---------------------------- MODULE MCEventRouter ----------------------------
(* EventRouter for TLC: subscriptions are interchangeable, and so are the  *)
(* streams.                                                                *)
EXTENDS EventRouter, TLC

Symmetry == Permutations(Subs) \cup Permutations(Streams)
================================================================================
