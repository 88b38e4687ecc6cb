------------------------------ MODULE TaskWorkflow ------------------------------
(***************************************************************************)
(* The pure half of the task loop: may a task move (core/src/extensions/   *)
(* proposeMove.ts), where does evidence send it (extensions/acceptance.ts  *)
(* with daemon/src/acceptanceRouting.ts), at which stages is it dispatched *)
(* (core/src/tasks/dispatchDecision.ts).  The workflow is data, as parsed  *)
(* from the manifest of an extension.                                      *)
(***************************************************************************)
EXTENDS Naturals, FiniteSets

CONSTANTS
  Node,        \* the declared nodes
  Edge,        \* the declared edges, wildcards expanded
  Forbidden,   \* pairs with a refusal of their own
  Acceptance,  \* the acceptance table of a node, or None
  ArmsPlan,    \* nodes whose briefing captures the plan
  None

ASSUME WorkflowAssumption ==
  /\ Edge \subseteq Node \X Node /\ Forbidden \subseteq Node \X Node
  /\ ArmsPlan \subseteq Node
  /\ DOMAIN Acceptance = Node
  /\ {None, "rest", "unevaluable"} \cap Node = {}

--------------------------------------------------------------------------------
(* proposeMove: the first rule that applies is the answer.                 *)

Exits(n) == {e \in Edge : e[1] = n}

Refusal(from, to) ==
  IF from \notin Node \/ to \notin Node THEN "unknown-node"
  ELSE IF from = to THEN "same-node"
  ELSE IF Exits(from) = {} THEN "terminal-node"
  ELSE IF <<from, to>> \in Forbidden THEN "forbidden"
  ELSE IF <<from, to>> \notin Edge THEN "illegal-edge"
  ELSE "none"

Accepts(from, to) == Refusal(from, to) = "none"

--------------------------------------------------------------------------------
(* evaluateAcceptance: evidence against the table of the node it is for.   *)
(* A report carries the verdict of a review, the criteria it passed and    *)
(* failed, or None (a completion); a capture names what was captured.      *)

Report(verb, verdict) == [kind |-> "report", verb |-> verb, verdict |-> verdict]
Capture(names) == [kind |-> "captures", recorded |-> names]

RouteTo(n) == IF n = None THEN "rest" ELSE n   \* no target: the task stays

Answers(table, evidence) ==
  table.report # None /\ evidence.kind = "report" /\ evidence.verb = table.report

Passes(verdict, criteria) == verdict.failed = {} /\ criteria \subseteq verdict.passed

Rubric(table, evidence, criteria) ==
  IF ~table.understood \/ ~Answers(table, evidence) \/ evidence.verdict = None
  THEN "unevaluable"
  ELSE RouteTo(IF Passes(evidence.verdict, criteria) THEN table.onPass ELSE table.onFail)

ReportFiled(table, evidence) ==
  IF Answers(table, evidence) THEN RouteTo(table.onPass) ELSE "unevaluable"

Artifact(table, evidence) ==
  IF table.requires = {} \/ evidence.kind # "captures" \/ ~table.understood
  THEN "unevaluable"
  ELSE IF table.requires \subseteq evidence.recorded THEN RouteTo(table.onPass) ELSE "rest"

Evaluate(table, evidence, criteria) ==
  CASE table.kind = "rubric"   -> Rubric(table, evidence, criteria)
    [] table.kind = "report"   -> ReportFiled(table, evidence)
    [] table.kind = "artifact" -> Artifact(table, evidence)
    [] OTHER                   -> "unevaluable"   \* scalar, human-gate: dormant

\* The node proposed by evidence for node n, or what stands in its place.
Outcome(n, evidence, criteria) ==
  IF Acceptance[n] = None THEN "unevaluable" ELSE Evaluate(Acceptance[n], evidence, criteria)

Declares(n, verb) == Acceptance[n] # None /\ Acceptance[n].report = verb

--------------------------------------------------------------------------------
(* decideDispatch and what asks for it.                                    *)

Dispatchable == {"planning", "implementing", "review"}
ShouldDispatchOnTransition(to, by) ==
  to \in {"planning", "implementing"} /\ by \in {"human", "orchestrator"}
================================================================================
