---- MODULE MCOrchestrator ----
EXTENDS Orchestrator, TLC
(* Two rungs below the threshold of the door, as in                        *)
(* V0_COMPACTION_STEWARD_CONFIG.                                           *)
Ladder == <<1, 2>>
Symmetry == Permutations(Session)
====
