----------------------------- MODULE TaskDispatcher -----------------------------
(***************************************************************************)
(* The task loop: instances and their moves (daemon/src/instanceWriter.ts, *)
(* instanceApi.ts, core/src/projections/instances.ts) and the dispatcher   *)
(* that runs them (daemon/src/taskDispatcher.ts), over a session host of   *)
(* which only "is this process live" matters.                              *)
(*                                                                         *)
(* Everything here is synchronous except the dispatch of an isolated task, *)
(* which awaits git twice: for the checkout, in whose follow-up the run is *)
(* spawned, and for the compensation of a failed follow-up.  The await of  *)
(* a plain dispatch is a microtask, and nothing gets in between.           *)
(***************************************************************************)
EXTENDS TaskWorkflow, Sequences

CONSTANTS
  Task,       \* the tasks ever created
  Run,        \* the sessions ever spawned for one
  Call,       \* concurrent calls of dispatchTask that may be awaiting git
  Criterion   \* acceptance criteria

ASSUME LoopAssumption ==
  /\ None \notin [stage : Node, isolated : BOOLEAN, criteria : SUBSET Criterion]
  /\ None \notin [passed : SUBSET Criterion, failed : SUBSET Criterion]

\* Which tables finish a task is the manifest's choice; the shipped one leaves it
\* to passed reviews.
ASSUME FinishAssumption == \A n \in Node : Acceptance[n] # None =>
  /\ Acceptance[n].onFail # "done"
  /\ Acceptance[n].onPass = "done" => Acceptance[n].kind = "rubric"

VARIABLES
  task,      \* LOG: the record of each task, None before it is created
  refs,      \* LOG: its attached runs in order, each with the node it is for
  filed,     \* LOG: the last report or capture of each task, with the run it is from
  live,      \* runs with a process
  used,      \* runs ever spawned
  resumed,   \* runs a human ever resumed
  call,      \* where each call is, and for which task and node
  inFlight   \* tasks being dispatched

record == <<task, refs, filed>>
runs == <<live, used, resumed>>
calls == <<call, inFlight>>
vars == <<record, runs, calls>>

--------------------------------------------------------------------------------
TaskRecord == [stage : Node, isolated : BOOLEAN, criteria : SUBSET Criterion]
Ref == [run : Run, node : Node]
Verdict == [passed : SUBSET Criterion, failed : SUBSET Criterion]
Filing == [run : Run, node : Node, attempt : Nat, verdict : Verdict \cup {None}]
Idle == [pc |-> "idle"]
CallState == {Idle} \cup [pc : {"checkout", "compensate"}, task : Task, node : Node]

Created(t) == task[t] # None
Refs(t) == {refs[t][i] : i \in DOMAIN refs[t]}
RunsOf(t) == {ref.run : ref \in Refs(t)}
HasLiveRun(t) == RunsOf(t) \cap live # {}
\* The numbers of the runs of t at node n.
AttemptsAt(t, n) == {i \in DOMAIN refs[t] : refs[t][i].node = n}

Init ==
  /\ task = [t \in Task |-> None]
  /\ refs = [t \in Task |-> <<>>]
  /\ filed = [t \in Task |-> None]
  /\ live = {} /\ used = {} /\ resumed = {}
  /\ call = [c \in Call |-> Idle]
  /\ inFlight = {}

--------------------------------------------------------------------------------
(* Humans and orchestrators write instances.                               *)

Create(t, n, isolated, criteria) ==
  /\ ~Created(t)
  /\ task' = [task EXCEPT
        ![t] = [stage |-> n, isolated |-> isolated, criteria |-> criteria]]
  /\ UNCHANGED <<refs, filed, runs, calls>>

Amend(t, criteria) ==
  /\ Created(t)
  /\ task' = [task EXCEPT ![t].criteria = criteria]
  /\ UNCHANGED <<refs, filed, runs, calls>>

--------------------------------------------------------------------------------
(* Dispatch.                                                               *)

\* What the synchronous prefix lets through: not in flight, at a dispatchable
\* stage, no live run.  The gates and the briefing preflight may still say no,
\* in which case nothing but a dispatch_refused may be left behind.
MayStart(t, n) ==
  /\ t \notin inFlight
  /\ n \in Dispatchable
  /\ ~HasLiveRun(t)

Release_OnSuccess(t, spawned) ==   \* mutant: a lock not released in finally
  IF spawned THEN inFlight \ {t} ELSE inFlight
Release(t, spawned) == inFlight \ {t}

Settle(c, spawned) ==
  /\ call' = [call EXCEPT ![c] = Idle]
  /\ inFlight' = Release(call[c].task, spawned)

Attach_Bare(t, r, n) == refs' = [refs EXCEPT ![t] = Append(@, r)]   \* mutant: without its node
Attach(t, r, n) == refs' = [refs EXCEPT ![t] = Append(@, [run |-> r, node |-> n])]

\* A process starts; its attachment may fail to be appended to the log.
SpawnRun(t, r, n, attached) ==
  /\ r \notin used
  /\ used' = used \cup {r} /\ live' = live \cup {r}
  /\ IF attached THEN Attach(t, r, n) ELSE UNCHANGED refs
  /\ UNCHANGED resumed

\* The dispatch of a plain task, from decision to attachment.
DispatchPlain(t, n) ==
  /\ MayStart(t, n)
  /\ \E r \in Run, attached \in BOOLEAN : SpawnRun(t, r, n, attached)
  /\ UNCHANGED calls

Claim_NotHeld(t) == inFlight   \* mutant: the claim given up at the await
Claim(t) == inFlight \cup {t}

\* Of an isolated one, from decision to the await of its checkout.
DispatchIsolated(c, t, n) ==
  /\ MayStart(t, n)
  /\ call[c] = Idle
  /\ call' = [call EXCEPT ![c] = [pc |-> "checkout", task |-> t, node |-> n]]
  /\ inFlight' = Claim(t)
  /\ UNCHANGED <<refs, runs>>

StartDispatch(t, n) ==
  IF task[t].isolated THEN \E c \in Call : DispatchIsolated(c, t, n)
  ELSE DispatchPlain(t, n)

Dispatch(t) ==
  /\ Created(t)
  /\ StartDispatch(t, task[t].stage)
  /\ UNCHANGED <<task, filed>>

\* No checkout, and git has cleaned up after itself.
CheckoutFails(c) ==
  /\ call[c].pc = "checkout"
  /\ Settle(c, FALSE)
  /\ UNCHANGED <<record, runs>>

\* The follow-up of the checkout, in the lock of its project: it spawns and
\* attaches the run, then attaches the session to the node of the checkout.
CheckoutSpawns(c) ==
  /\ call[c].pc = "checkout"
  /\ \E r \in Run : SpawnRun(call[c].task, r, call[c].node, TRUE)
  /\ Settle(c, TRUE)
  /\ UNCHANGED <<task, filed>>

\* Any part of it may fail: no process, a process that cannot be attached to
\* the task, or not to the node.  The checkout is compensated all the same.
FollowUpFails(c) ==
  /\ call[c].pc = "checkout"
  /\ \/ UNCHANGED <<refs, runs>>
     \/ \E r \in Run, attached \in BOOLEAN :
          SpawnRun(call[c].task, r, call[c].node, attached)
  /\ call' = [call EXCEPT ![c].pc = "compensate"]
  /\ UNCHANGED <<task, filed, inFlight>>

Compensated(c) ==
  /\ call[c].pc = "compensate"
  /\ Settle(c, FALSE)
  /\ UNCHANGED <<record, runs>>

--------------------------------------------------------------------------------
(* Moves.                                                                  *)

Mover == {"human", "orchestrator", "dispatcher"}   \* what a request may say

MovedTo(t, n) == task' = [task EXCEPT ![t].stage = n]

\* POST .../moves: an accepted promotion dispatches in the same breath, as far
\* as the dispatcher lets it.  A refused move leaves an event and nothing else.
Move(t, n) ==
  /\ Created(t) /\ Accepts(task[t].stage, n)
  /\ MovedTo(t, n)
  /\ UNCHANGED filed
  /\ \/ /\ \E by \in Mover : ShouldDispatchOnTransition(n, by)
        /\ StartDispatch(t, n)
     \/ UNCHANGED <<refs, runs, calls>>

\* The outcome of evidence is proposed from wherever the task is by now.
Adjudicate(t, outcome) ==
  IF outcome \in Node /\ Accepts(task[t].stage, outcome) THEN MovedTo(t, outcome)
  ELSE UNCHANGED task

--------------------------------------------------------------------------------
(* Runs report.  Only a process the dispatcher started has the tools to.   *)

Attempt_Moves(t, n) == Len(refs[t])   \* mutant: counted over another key
Attempt(t, n) == Cardinality(AttemptsAt(t, n))

Covered_Listed(t, verdict) ==   \* mutant: what the report lists
  IF verdict = None THEN {} ELSE verdict.passed \cup verdict.failed
Covered(t, verdict) == task[t].criteria

File(t, r, n, verdict) == filed' = [filed EXCEPT
  ![t] = [run |-> r, node |-> n, attempt |-> Attempt(t, n), verdict |-> verdict]]

Reporting(t, r, n) == r \in live \ resumed /\ [run |-> r, node |-> n] \in Refs(t)

FileReport(t, r, n, verb, verdict) ==
  /\ Reporting(t, r, n) /\ Declares(n, verb)
  /\ File(t, r, n, verdict)
  /\ Adjudicate(t, Outcome(n, Report(verb, verdict), Covered(t, verdict)))
  /\ UNCHANGED <<refs, runs, calls>>

RecordReview(t, r, n) == \E verdict \in Verdict :
  FileReport(t, r, n, "report_review", verdict)

RecordCompletion(t, r, n) == FileReport(t, r, n, "report_completion", None)

RecordPlan(t, r, n) ==
  /\ Reporting(t, r, n) /\ n \in ArmsPlan
  /\ File(t, r, n, None)
  /\ Adjudicate(t, Outcome(n, Capture({"plan"}), task[t].criteria))
  /\ UNCHANGED <<refs, runs, calls>>

--------------------------------------------------------------------------------
(* Processes end; a human resumes one; the daemon dies with all of them.   *)

RunEnds(r) ==
  /\ r \in live
  /\ live' = live \ {r}
  /\ UNCHANGED <<record, used, resumed, calls>>

ResumeByHand(r) ==
  /\ r \in used \ live
  /\ live' = live \cup {r} /\ resumed' = resumed \cup {r}
  /\ UNCHANGED <<record, used, calls>>

Crash ==
  /\ live' = {}
  /\ call' = [c \in Call |-> Idle] /\ inFlight' = {}
  /\ UNCHANGED <<record, used, resumed>>

--------------------------------------------------------------------------------
Human(t) ==
  \/ \E n \in Node, isolated \in BOOLEAN, criteria \in SUBSET Criterion :
       Create(t, n, isolated, criteria)
  \/ \E criteria \in SUBSET Criterion : Amend(t, criteria)
  \/ \E n \in Node : Move(t, n)
  \/ Dispatch(t)

Reports(t) == \E ref \in Refs(t) :
  \/ RecordReview(t, ref.run, ref.node)
  \/ RecordCompletion(t, ref.run, ref.node)
  \/ RecordPlan(t, ref.run, ref.node)

Awaited(c) == CheckoutFails(c) \/ CheckoutSpawns(c) \/ FollowUpFails(c) \/ Compensated(c)

Next ==
  \/ \E t \in Task : Human(t) \/ Reports(t)
  \/ \E c \in Call : Awaited(c)
  \/ \E r \in Run : RunEnds(r) \/ ResumeByHand(r)
  \/ Crash

Spec == Init /\ [][Next]_vars

\* Every git command ends; see CheckoutCoordinator.
FairSpec == Spec /\ \A c \in Call : WF_vars(Awaited(c))

--------------------------------------------------------------------------------
TypeOK ==
  /\ task \in [Task -> TaskRecord \cup {None}]
  /\ refs \in [Task -> Seq(Ref)]
  /\ filed \in [Task -> Filing \cup {None}]
  /\ live \subseteq used /\ resumed \subseteq used /\ used \subseteq Run
  /\ call \in [Call -> CallState]
  /\ inFlight \subseteq Task

\* The identity a report is filed under names the run that filed it: its number
\* among the runs of that node (events.ts: "attributable to a specific run").
ReportsNameTheirRun == \A t \in Task : filed[t] # None =>
  \E i \in AttemptsAt(t, filed[t].node) :
    /\ refs[t][i].run = filed[t].run
    /\ filed[t].attempt = Cardinality({j \in AttemptsAt(t, filed[t].node) : j <= i})

\* A review takes a task to done only by passing every criterion the task has by
\* then, amended meanwhile or not, and failing none.
DoneIsReviewed == [][\A t \in Task :
  (/\ filed'[t] # filed[t] /\ Created(t)
   /\ task[t].stage # "done" /\ task'[t].stage = "done")
    => Passes(filed'[t].verdict, task[t].criteria)]_vars

\* The loop keeps the promises of TaskBoard.  A run resumed by hand no longer
\* counts as the dispatcher's, nor one whose attachment was never recorded.
Board == INSTANCE TaskBoard WITH
  stage   <- [t \in Task |-> IF Created(t) THEN task[t].stage ELSE None],
  driving <- [t \in Task |-> (RunsOf(t) \cap live) \ resumed]
ImplementsBoard == Board!Spec

\* Whatever becomes of a dispatch, its task can be dispatched again.
DispatchesSettle == \A t \in Task : t \in inFlight ~> t \notin inFlight
================================================================================
