------------------------------- MODULE TaskBoard --------------------------------
(***************************************************************************)
(* What the task loop promises, whoever acts on it: a task moves only      *)
(* along the edges of its workflow, and the dispatcher starts a run of it  *)
(* only when no run it started before is still driving.                    *)
(***************************************************************************)
CONSTANTS Task, Node, Edge, Run, None

VARIABLES
  stage,   \* where each task is, None before it is created
  driving  \* the runs the dispatcher started for it that still drive

board == <<stage, driving>>

Init ==
  /\ stage = [t \in Task |-> None]
  /\ driving = [t \in Task |-> {}]

Create(t) ==
  /\ stage[t] = None
  /\ \E n \in Node : stage' = [stage EXCEPT ![t] = n]
  /\ UNCHANGED driving

\* A promotion may start a run in the step in which it moves the task.
Moved(t) == \E n \in Node :
  <<stage[t], n>> \in Edge /\ stage' = [stage EXCEPT ![t] = n]
Started(t) == \E r \in Run :
  driving[t] = {} /\ driving' = [driving EXCEPT ![t] = {r}]

Step(t) ==
  /\ stage[t] # None
  /\ Moved(t) \/ UNCHANGED stage
  /\ Started(t) \/ UNCHANGED driving

Ends == \* of some runs, of all of them when the daemon dies
  /\ \A t \in Task : driving'[t] \subseteq driving[t]
  /\ driving' = [t \in Task |-> driving'[t]]
  /\ UNCHANGED stage

Next == (\E t \in Task : Create(t) \/ Step(t)) \/ Ends

Spec == Init /\ [][Next]_board
================================================================================
