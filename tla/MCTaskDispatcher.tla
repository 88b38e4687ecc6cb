---------------------------- MODULE MCTaskDispatcher ----------------------------
(***************************************************************************)
(* TaskDispatcher with the workflow the repository ships:                  *)
(* daemon/extensions/vimes-tasks/vimes-extension.toml.                     *)
(***************************************************************************)
EXTENDS TaskDispatcher

ShippedNode == {"backlog", "planning", "plan-ready", "implementing", "review", "done",
                "manual-review", "blocked-external", "quarantined", "cancelled"}

From(n, targets) == {n} \X targets

ShippedEdge ==
  From("backlog", {"planning"})
  \cup From("planning", {"plan-ready", "backlog", "quarantined"})
  \cup From("plan-ready", {"implementing", "planning", "backlog"})
  \cup From("implementing", {"review", "quarantined"})
  \cup From("review", {"done", "implementing", "quarantined"})
  \cup From("quarantined", {"backlog", "planning", "implementing"})
  \cup ((ShippedNode \ {"done", "cancelled", "manual-review", "blocked-external"})
          \X {"blocked-external"})
  \cup From("blocked-external", ShippedNode
          \ {"done", "blocked-external", "quarantined", "manual-review"})
  \cup ((ShippedNode \ {"done", "cancelled"}) \X {"cancelled"})
  \cup From("cancelled", {"backlog"})
  \cup From("manual-review", {"done", "implementing"})

ShippedForbidden == {<<"quarantined", "done">>}

Table(kind, report, requires, onPass, onFail) ==
  [kind |-> kind, report |-> report, requires |-> requires, understood |-> TRUE,
   onPass |-> onPass, onFail |-> onFail]

ShippedAcceptance == [n \in ShippedNode |->
  CASE n = "planning"     -> Table("artifact", None, {"plan"}, "plan-ready", None)
    [] n = "implementing" -> Table("report", "report_completion", {}, "review", None)
    [] n = "review"       -> Table("rubric", "report_review", {}, "done", "implementing")
    [] OTHER              -> None]

ShippedArmsPlan == {"planning"}
================================================================================
