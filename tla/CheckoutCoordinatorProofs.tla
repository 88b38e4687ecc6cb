---------------------- MODULE CheckoutCoordinatorProofs ------------------------
(***************************************************************************)
(* Proofs about CheckoutCoordinator, for any number of operations,         *)
(* branches and commits, and any surroundings.                             *)
(*                                                                         *)
(* One inductive invariant carries every theorem.  Its core is that an     *)
(* operation past its first step holds the lock, that what it is doing     *)
(* fits what it was asked for, and that a node is born only in the step    *)
(* that leaves "record", so that no removal is ever about a checkout that  *)
(* is still being made.                                                    *)
(***************************************************************************)
EXTENDS CheckoutCoordinator, SequenceTheorems, TLAPS

CheckoutStage == {"resolve", "add", "record", "undo", "unbranch"}
RemovalStage == {"list", "remove", "audit"}
Stage == {"idle", "queued", "done"} \cup CheckoutStage \cup RemovalStage
Unrecorded == {"idle", "queued", "resolve", "add", "record"}

\* An operation past "queued" is the one at the head of the chain.
LockInv == \A o \in Op : pc[o] \in CheckoutStage \cup RemovalStage => Holds(o)

\* The stage of an operation fits its request.
StageInv ==
  \A o \in Op :
    /\ pc[o] = "idle" => request[o] = NoRequest
    /\ pc[o] \in CheckoutStage => request[o].kind \in {"create", "open"}
    /\ pc[o] = "unbranch" => request[o].kind = "create"
    /\ pc[o] \in RemovalStage => request[o].kind = "remove"
    /\ request[o].kind = "remove" => node[request[o].node] # None

\* A node is born when its operation leaves "record"; only then can it have
\* sessions attached or be audited.
BirthInv ==
  \A o \in Op :
    /\ pc[o] \in Unrecorded => node[o] = None
    /\ pc[o] \in {"idle", "queued", "resolve", "add"} => worktree[o] = None
    /\ pc[o] = "record" => worktree[o] # None
    /\ o \in attached => node[o] # None
    /\ audit[o] # 0 => node[o] # None

\* The branches of humans are all there.
BranchInv == \A b \in Branch : tip[b] # None

\* An attached session has its directory and holds it; no compensation and no
\* removal past its gate is about such a checkout.
TenantInv ==
  /\ attached \subseteq tenants
  /\ \A n \in attached : worktree[n] # None
  /\ \A o \in Op :
       /\ pc[o] = "undo" => o \notin attached
       /\ pc[o] \in {"list", "remove"} => request[o].node \notin attached

\* An audited directory is gone, and one about to be audited is gone and has not
\* been audited before.
AuditInv ==
  /\ \A n \in Op : audit[n] <= 1 /\ (audit[n] # 0 => worktree[n] = None)
  /\ \A o \in Op : pc[o] = "audit" =>
       audit[request[o].node] = 0 /\ worktree[request[o].node] = None

\* OrphansAreExplained but for the lock, which LockInv adds.
OrphanInv ==
  \A n \in Op : worktree[n] # None /\ node[n] = None =>
    pc[n] \in {"record", "undo"} \/ n \in lost

\* What a create has on disk is the commit it resolved until its node is born, and
\* the commit its node records from then on.
CommitInv ==
  \A n \in Op : Created(n) /\ worktree[n] # None =>
    /\ pc[n] = "record" => worktree[n].commit = commit[n]
    /\ node[n] # None => node[n].resolvedCommit = worktree[n].commit

IInv ==
  /\ TypeOK /\ LockInv /\ StageInv /\ BirthInv /\ BranchInv
  /\ TenantInv /\ AuditInv /\ OrphanInv /\ CommitInv

--------------------------------------------------------------------------------
(* Requests, the chain, and the types of what a checkout is made of.       *)

\* The fields of a request, by its kind.
LEMMA RequestTypes ==
  ASSUME NEW r \in Request \cup {NoRequest}
  PROVE  /\ r.kind \in {"none", "create", "open", "remove"}
         /\ r.kind \in {"create", "open"} => r.branch \in Branch
         /\ r.kind = "remove" => r.node \in Op
         /\ r.kind = "none" <=> r = NoRequest
<1>1. CASE r \in [kind : {"create"}, branch : Branch, dispatched : BOOLEAN]
  BY <1>1 DEF NoRequest
<1>2. CASE r \in [kind : {"open"}, branch : Branch, dispatched : {FALSE}]
  BY <1>2 DEF NoRequest
<1>3. CASE r \in [kind : {"remove"}, node : Op]
  BY <1>3 DEF NoRequest
<1>4. CASE r = NoRequest
  BY <1>4 DEF NoRequest
<1> QED
  BY <1>1, <1>2, <1>3, <1>4 DEF Request

\* How the operation that holds the lock moves on.
LEMMA Moves ==
  ASSUME TypeOK, NEW o \in Op, Holds(o)
  PROVE  /\ \A s \in Stage : Goto(o, s) => pc' \in [Op -> Stage] /\ queue' \in Seq(Op)
         /\ \A x : Settle(o, x) => pc' \in [Op -> Stage] /\ queue' \in Seq(Op)
<1>1. Tail(queue) \in Seq(Op)
  BY HeadTailProperties DEF TypeOK, Holds
<1>2. pc \in [Op -> Stage] /\ queue \in Seq(Op) /\ "done" \in Stage
  BY DEF TypeOK, Stage, CheckoutStage, RemovalStage
<1> QED
  BY <1>1, <1>2 DEF Goto, Settle, Unlocked

\* What a checkout of operation o is made of.
LEMMA CheckoutTypes ==
  ASSUME TypeOK, StageInv, BranchInv, NEW o \in Op, pc[o] \in CheckoutStage
  PROVE  /\ request[o].branch \in Branch /\ Resolved(o) \in Nat
         /\ AddedBranch(o) \in Branch \cup Op /\ AddedCommit(o) \in Nat
         /\ Created(o) => AddedBranch(o) = o
         /\ ~Created(o) => AddedBranch(o) \in Branch /\ AddedCommit(o) = tip[AddedBranch(o)]
<1>1. request[o] \in Request \cup {NoRequest} /\ request[o].kind \in {"create", "open"}
  BY DEF TypeOK, StageInv
<1>2. request[o].branch \in Branch
  BY <1>1, RequestTypes
<1>3. tip[request[o].branch] \in Nat
  BY <1>2 DEF TypeOK, BranchInv
<1> QED
  BY <1>2, <1>3 DEF TypeOK, Resolved, AddedBranch, AddedCommit, Created

--------------------------------------------------------------------------------
(* Type correctness.                                                       *)

LEMMA RefuseTypes ==
  ASSUME TypeOK, NEW o \in Op, Holds(o), Refuse(o)
  PROVE  TypeOK'
<1>1. pc' \in [Op -> Stage] /\ queue' \in Seq(Op)
  BY Moves DEF Refuse
<1> QED
  BY <1>1 DEF TypeOK, Refuse, Stage, CheckoutStage, RemovalStage, log, disk, scan

LEMMA TypeStep ==
  ASSUME TypeOK, StageInv, BranchInv, Next
  PROVE  TypeOK'
<1> USE DEF Stage, CheckoutStage, RemovalStage, log, disk, scan
<1>1. ASSUME NEW o \in Op, Step(o) PROVE TypeOK'
  <2>0. Holds(o)
    BY <1>1 DEF Step, Begin, Resolve, AddWorktree, RecordCheckout, Undo, DeleteBranch, Gate,
       ListWorktrees, RemoveWorktree, EmitRemoved, At
  <2>1. CASE Refuse(o)
    BY <2>0, <2>1, RefuseTypes
  <2>2. ASSUME Begin(o) \/ Gate(o) \/ ListWorktrees(o), ~Refuse(o) PROVE TypeOK'
    <3>1. PICK s \in Stage : Goto(o, s)
      BY <2>2 DEF Begin, Gate, ListWorktrees, AfterList
    <3>2. UNCHANGED <<request, commit, log, running, disk, lost, scan>>
      BY <2>2 DEF Begin, Gate, ListWorktrees
    <3> QED
      BY <2>0, <3>1, <3>2, Moves DEF TypeOK
  <2>3. ASSUME Resolve(o), ~Refuse(o) PROVE TypeOK'
    <3>1. commit' = [commit EXCEPT ![o] = Resolved(o)] /\ Goto(o, "add")
          /\ UNCHANGED <<request, log, running, disk, lost, scan>>
      BY <2>3 DEF Resolve
    <3>2. Resolved(o) \in Nat
      BY <2>3, CheckoutTypes DEF Resolve, At
    <3> QED
      BY <2>0, <3>1, <3>2, Moves DEF TypeOK
  <2>4. ASSUME AddWorktree(o), ~Refuse(o) PROVE TypeOK'
    <3>1. /\ worktree' = [worktree EXCEPT
                ![o] = [branch |-> AddedBranch(o), commit |-> AddedCommit(o)]]
          /\ tip' = [tip EXCEPT ![AddedBranch(o)] = AddedCommit(o)]
          /\ Goto(o, "record") \/ Settle(o, "refused")
          /\ UNCHANGED lost \/ lost' = lost \cup {o}
          /\ UNCHANGED <<request, commit, log, running, scan>>
      BY <2>4 DEF AddWorktree
    <3>2. AddedBranch(o) \in Branch \cup Op /\ AddedCommit(o) \in Nat
      BY <2>4, CheckoutTypes DEF AddWorktree, At
    <3>3. pc' \in [Op -> Stage] /\ queue' \in Seq(Op) /\ lost' \subseteq Op
      BY <2>0, <3>1, Moves DEF TypeOK
    <3> QED
      BY <3>1, <3>2, <3>3 DEF TypeOK
  <2>5. ASSUME RecordCheckout(o), ~Refuse(o) PROVE TypeOK'
    <3>1. AddedBranch(o) \in Branch \cup Op
      BY <2>5, CheckoutTypes DEF RecordCheckout, At
    <3>2. CASE NoNode(o)
      BY <2>0, <3>2, Moves DEF TypeOK, NoNode
    <3>3. ASSUME ~NoNode(o) PROVE TypeOK'
      <4>0. Born(o)
        BY <2>5, <3>3 DEF RecordCheckout, RecordOutcome
      <4>1. node' \in [Op -> [branch : Branch \cup Op, resolvedCommit : Nat] \cup {None}]
        BY <3>1, <4>0 DEF TypeOK, Born
      <4>2. tenants' \subseteq Op /\ running' \subseteq Op /\ attached' \subseteq Op
        BY <2>5, <3>3 DEF TypeOK, RecordCheckout, RecordOutcome, Spawn
      <4>3. Goto(o, "undo") \/ Settle(o, "ok")
        BY <2>5, <3>3 DEF RecordCheckout, RecordOutcome, Spawn
      <4>4. UNCHANGED <<request, commit, archived, audit, disk, lost, scan>>
        BY <2>5, <3>3 DEF RecordCheckout, RecordOutcome
      <4> QED
        BY <2>0, <4>1, <4>2, <4>3, <4>4, Moves DEF TypeOK
    <3> QED
      BY <3>2, <3>3
  <2>6. ASSUME Undo(o) PROVE TypeOK'
    <3>1. Goto(o, "unbranch") \/ Settle(o, "threw")
      BY <2>6 DEF Undo
    <3> QED
      BY <2>0, <2>6, <3>1, Moves DEF TypeOK, Undo
  <2>7. ASSUME DeleteBranch(o) PROVE TypeOK'
    <3>1. AddedBranch(o) \in Branch \cup Op
      BY <2>7, CheckoutTypes DEF DeleteBranch, At
    <3> QED
      BY <2>0, <2>7, <3>1, Moves DEF TypeOK, DeleteBranch
  <2>8. ASSUME RemoveWorktree(o), ~Refuse(o) PROVE TypeOK'
    <3>1. worktree' = [worktree EXCEPT ![request[o].node] = None] /\ Goto(o, "audit")
          /\ UNCHANGED <<request, commit, log, running, tip, lost, scan>>
      BY <2>8 DEF RemoveWorktree
    <3> QED
      BY <2>0, <3>1, Moves DEF TypeOK
  <2>9. ASSUME EmitRemoved(o) PROVE TypeOK'
    <3>1. audit' \in [Op -> Nat]
      <4>1. request[o].node \in Op
        BY <2>9, RequestTypes DEF EmitRemoved, TypeOK, StageInv, At
      <4>2. audit[request[o].node] + 1 \in Nat
        BY <4>1 DEF TypeOK
      <4>3. UNCHANGED audit
            \/ audit' = [audit EXCEPT ![request[o].node] = audit[request[o].node] + 1]
        BY <2>9 DEF EmitRemoved
      <4> QED
        BY <4>1, <4>2, <4>3 DEF TypeOK
    <3> QED
      BY <2>0, <2>9, <3>1, Moves DEF TypeOK, EmitRemoved
  <2> QED
    BY <1>1, <2>1, <2>2, <2>3, <2>4, <2>5, <2>6, <2>7, <2>8, <2>9 DEF Step
<1>2. ASSUME NEW o \in Op, NEW r \in Request, Enqueue(o, r) PROVE TypeOK'
  BY <1>2, AppendProperties DEF TypeOK, Enqueue
<1>3. CASE Surroundings
  <2>1. ASSUME NEW b \in Branch, MoveBranch(b) PROVE TypeOK'
    BY <2>1 DEF TypeOK, MoveBranch, BranchInv
  <2>2. CASE Crash
    BY <2>2 DEF TypeOK, Crash
  <2> QED
    BY <1>3, <2>1, <2>2 DEF Surroundings, TypeOK, ArchiveProject, ScanClaims, ScanWorktrees,
       HumanSpawn, ProcessEnds
<1> QED
  BY <1>1, <1>2, <1>3 DEF Next

--------------------------------------------------------------------------------
(* The lock: an operation past "queued" is the head of the chain.          *)

\* What the steps of an operation in the lock have in common.
LEMMA StepFrame ==
  ASSUME TypeOK, NEW o \in Op, Step(o)
  PROVE  /\ Holds(o) /\ pc[o] \in {"queued"} \cup CheckoutStage \cup RemovalStage
         /\ request' = request /\ archived' = archived
         /\ \A p \in Op \ {o} : pc'[p] = pc[p]
         /\ queue' = queue \/ (queue' = Tail(queue) /\ pc'[o] = "done")
         /\ \A p \in Op \ {o} : node'[p] = node[p] /\ (p \in attached' <=> p \in attached)
<1> USE DEF log, disk, scan, Refuse, Goto, Settle, Unlocked, At, CheckoutStage, RemovalStage
<1>1. Holds(o) /\ pc[o] \in {"queued"} \cup CheckoutStage \cup RemovalStage
  BY DEF Step, Begin, Resolve, AddWorktree, RecordCheckout, Undo, DeleteBranch, Gate,
     ListWorktrees, RemoveWorktree, EmitRemoved
<1>2. CASE Begin(o) \/ Gate(o) \/ ListWorktrees(o) \/ Resolve(o)
  BY <1>1, <1>2 DEF TypeOK, Begin, Gate, ListWorktrees, Resolve
<1>3. CASE AddWorktree(o)
  BY <1>1, <1>3 DEF TypeOK, AddWorktree
<1>4. CASE RecordCheckout(o)
  BY <1>1, <1>4 DEF TypeOK, RecordCheckout, RecordOutcome, NoNode, Born, Spawn
<1>5. CASE Undo(o) \/ DeleteBranch(o)
  BY <1>1, <1>5 DEF TypeOK, Undo, DeleteBranch
<1>6. CASE RemoveWorktree(o) \/ EmitRemoved(o)
  BY <1>1, <1>6 DEF TypeOK, RemoveWorktree, EmitRemoved
<1> QED
  BY <1>2, <1>3, <1>4, <1>5, <1>6 DEF Step

\* What the surroundings leave alone.
LEMMA SurroundingsFrame ==
  ASSUME Surroundings, ~Crash
  PROVE  UNCHANGED <<queue, pc, request, commit, node, audit, attached, worktree, lost>>
BY DEF Surroundings, ArchiveProject, ScanClaims, ScanWorktrees, MoveBranch, HumanSpawn,
   ProcessEnds, log, disk, scan

LEMMA LockStep ==
  ASSUME TypeOK, LockInv, Next
  PROVE  LockInv'
<1>1. ASSUME NEW o \in Op, Step(o) PROVE LockInv'
  <2>1. \A p \in Op \ {o} : pc'[p] \notin CheckoutStage \cup RemovalStage
    BY <1>1, StepFrame DEF LockInv, Holds
  <2>2. pc'[o] = "done" \/ Holds(o)'
    BY <1>1, StepFrame DEF Holds
  <2> QED
    BY <2>1, <2>2 DEF LockInv, CheckoutStage, RemovalStage
<1>2. ASSUME NEW o \in Op, NEW r \in Request, Enqueue(o, r) PROVE LockInv'
  <2>1. queue # <<>> => Head(queue') = Head(queue)
    BY <1>2, HeadTailAppend DEF Enqueue, TypeOK
  <2>2. queue' # <<>>
    BY <1>2, AppendProperties DEF Enqueue, TypeOK
  <2>3. \A p \in Op : pc'[p] \in CheckoutStage \cup RemovalStage => pc[p] = pc'[p]
    BY <1>2 DEF Enqueue, TypeOK, CheckoutStage, RemovalStage
  <2> QED
    BY <2>1, <2>2, <2>3 DEF LockInv, Holds
<1>3. CASE Crash
  BY <1>3 DEF Crash, LockInv, CheckoutStage, RemovalStage
<1>4. CASE Surroundings /\ ~Crash
  BY <1>4, SurroundingsFrame DEF LockInv, Holds
<1> QED
  BY <1>1, <1>2, <1>3, <1>4 DEF Next, Surroundings

--------------------------------------------------------------------------------
(* Births, stages and branches.                                            *)

\* A node once born keeps its provenance, and only "record" births one.
LEMMA NodeStep ==
  ASSUME TypeOK, StageInv, BranchInv, NEW o \in Op, Step(o)
  PROVE  /\ node'[o] = node[o] \/ (pc[o] = "record" /\ node'[o] # None)
         /\ o \in attached' => o \in attached \/ (pc[o] = "record" /\ node'[o] # None)
         /\ pc[o] = "record" => pc'[o] \in {"undo", "done"}
<1> USE DEF log, disk, scan, Refuse, Goto, Settle, Unlocked, At
<1>1. CASE RecordCheckout(o)
  <2>1. UNCHANGED <<node, attached>> \/ Born(o)
    BY <1>1 DEF RecordCheckout, RecordOutcome, NoNode
  <2>2. AddedBranch(o) \in Branch \cup Op /\ commit[o] \in Nat
    BY <1>1, CheckoutTypes DEF RecordCheckout, CheckoutStage, TypeOK
  <2>3. Born(o) => node'[o] # None
    BY <2>2, DistinctAssumption DEF Born, TypeOK
  <2>4. pc[o] = "record" /\ pc'[o] \in {"undo", "done"}
    BY <1>1 DEF RecordCheckout, RecordOutcome, NoNode, Spawn, TypeOK
  <2> QED
    BY <2>1, <2>3, <2>4
<1>2. CASE Begin(o) \/ Gate(o) \/ ListWorktrees(o) \/ Resolve(o) \/ AddWorktree(o)
  BY <1>2 DEF Begin, Gate, ListWorktrees, Resolve, AddWorktree
<1>3. CASE Undo(o) \/ DeleteBranch(o) \/ RemoveWorktree(o) \/ EmitRemoved(o)
  BY <1>3 DEF Undo, DeleteBranch, RemoveWorktree, EmitRemoved
<1> QED
  BY <1>1, <1>2, <1>3 DEF Step

LEMMA StageStep ==
  ASSUME TypeOK, StageInv, BranchInv, Next
  PROVE  StageInv'
<1>1. ASSUME NEW o \in Op, Step(o) PROVE StageInv'
  <2>1. \A n \in Op : node[n] # None => node'[n] # None
    BY <1>1, StepFrame, NodeStep
  <2>2. request' = request /\ \A p \in Op \ {o} : pc'[p] = pc[p]
    BY <1>1, StepFrame
  <2>3. /\ pc'[o] # "idle"
        /\ pc'[o] \in CheckoutStage => request[o].kind \in {"create", "open"}
        /\ pc'[o] = "unbranch" => request[o].kind = "create"
        /\ pc'[o] \in RemovalStage => request[o].kind = "remove"
    <3> USE DEF Refuse, Goto, Settle, At, CheckoutStage, RemovalStage, TypeOK, StageInv
    <3>1. CASE Begin(o) \/ Resolve(o) \/ AddWorktree(o)
      BY <3>1 DEF Begin, Resolve, AddWorktree
    <3>2. CASE RecordCheckout(o)
      BY <3>2 DEF RecordCheckout, RecordOutcome, NoNode, Spawn
    <3>3. CASE Undo(o) \/ DeleteBranch(o)
      BY <3>3 DEF Undo, DeleteBranch, CompensateBranch, Created
    <3>4. CASE Gate(o) \/ ListWorktrees(o)
      BY <3>4 DEF Gate, ListWorktrees, AfterList
    <3>5. CASE RemoveWorktree(o) \/ EmitRemoved(o)
      BY <3>5 DEF RemoveWorktree, EmitRemoved
    <3> QED
      BY <1>1, <3>1, <3>2, <3>3, <3>4, <3>5 DEF Step
  <2>4. \A p \in Op : request[p].kind = "remove" => request[p].node \in Op
    BY RequestTypes DEF TypeOK
  <2> QED
    BY <2>1, <2>2, <2>3, <2>4 DEF StageInv
<1>2. ASSUME NEW o \in Op, NEW r \in Request, Enqueue(o, r) PROVE StageInv'
  BY <1>2 DEF Enqueue, StageInv, TypeOK, CheckoutStage, RemovalStage, log
<1>3. CASE Crash
  BY <1>3 DEF Crash, StageInv, CheckoutStage, RemovalStage, log
<1>4. CASE Surroundings /\ ~Crash
  BY <1>4, SurroundingsFrame DEF StageInv
<1> QED
  BY <1>1, <1>2, <1>3, <1>4 DEF Next

LEMMA BranchStep ==
  ASSUME TypeOK, StageInv, BranchInv, Next
  PROVE  BranchInv'
<1> USE DEF log, disk, scan, Refuse
<1>1. ASSUME NEW o \in Op, Step(o) PROVE BranchInv'
  <2>1. CASE AddWorktree(o)
    <3>1. AddedBranch(o) \in Branch \cup Op /\ AddedCommit(o) \in Nat
      BY <2>1, CheckoutTypes DEF AddWorktree, At, CheckoutStage
    <3>2. UNCHANGED tip \/ tip' = [tip EXCEPT ![AddedBranch(o)] = AddedCommit(o)]
      BY <2>1 DEF AddWorktree
    <3> QED
      BY <3>1, <3>2, DistinctAssumption DEF BranchInv, TypeOK
  <2>2. CASE DeleteBranch(o)
    <3>1. AddedBranch(o) \in Op
      BY <2>2 DEF DeleteBranch, At, StageInv, AddedBranch, Created
    <3> QED
      BY <2>2, <3>1, DistinctAssumption DEF DeleteBranch, BranchInv, TypeOK
  <2>3. CASE ~AddWorktree(o) /\ ~DeleteBranch(o)
    <3>1. UNCHANGED tip
      BY <1>1, <2>3 DEF Step, Begin, Gate, ListWorktrees, Resolve, RecordCheckout, RecordOutcome,
         NoNode, Undo, RemoveWorktree, EmitRemoved
    <3> QED
      BY <3>1 DEF BranchInv
  <2> QED
    BY <2>1, <2>2, <2>3
<1>2. ASSUME NEW o \in Op, NEW r \in Request, Enqueue(o, r) PROVE BranchInv'
  BY <1>2 DEF Enqueue, BranchInv
<1>3. ASSUME NEW b \in Branch, MoveBranch(b) PROVE BranchInv'
  <2>1. tip[b] + 1 \in Nat
    BY DEF TypeOK, BranchInv
  <2> QED
    BY <1>3, <2>1, DistinctAssumption DEF MoveBranch, BranchInv, TypeOK
<1>4. CASE Surroundings /\ \A b \in Branch : ~MoveBranch(b)
  BY <1>4 DEF Surroundings, BranchInv, Crash, ArchiveProject, ScanClaims, ScanWorktrees,
     HumanSpawn, ProcessEnds
<1> QED
  BY <1>1, <1>2, <1>3, <1>4 DEF Next

\* Only three steps change the disk, each at one place; only one changes the
\* audit, only three change who is at home, and only one marks a checkout lost.
LEMMA DiskFrame ==
  ASSUME NEW o \in Op, Step(o)
  PROVE  /\ UNCHANGED worktree \/ AddWorktree(o) \/ Undo(o) \/ RemoveWorktree(o)
         /\ UNCHANGED lost \/ AddWorktree(o) \/ Undo(o)
         /\ UNCHANGED audit \/ EmitRemoved(o)
         /\ UNCHANGED <<attached, tenants, node>> \/ RecordCheckout(o)
BY DEF Step, Begin, Gate, ListWorktrees, Resolve, AddWorktree, RecordCheckout, RecordOutcome, NoNode,
   Undo, DeleteBranch, RemoveWorktree, EmitRemoved, Refuse, log, disk, scan

\* A checkout that is added is on disk.
LEMMA Added ==
  ASSUME TypeOK, StageInv, BranchInv, NEW o \in Op, AddWorktree(o)
  PROVE  \/ UNCHANGED <<worktree, lost>> /\ pc'[o] = "done"
         \/ /\ worktree'[o] # None /\ \A p \in Op \ {o} : worktree'[p] = worktree[p]
            /\ \/ UNCHANGED lost /\ pc'[o] = "record"
               \/ lost' = lost \cup {o} /\ pc'[o] = "done"
<1>1. CASE Refuse(o)
  BY <1>1 DEF Refuse, Settle, TypeOK, disk
<1>2. CASE ~Refuse(o)
  <2>1. AddedBranch(o) \in Branch \cup Op /\ AddedCommit(o) \in Nat
    BY CheckoutTypes DEF AddWorktree, At, CheckoutStage
  <2>2. worktree' = [worktree EXCEPT
              ![o] = [branch |-> AddedBranch(o), commit |-> AddedCommit(o)]]
    BY <1>2 DEF AddWorktree
  <2>3. worktree'[o] # None /\ \A p \in Op \ {o} : worktree'[p] = worktree[p]
    BY <2>1, <2>2, DistinctAssumption DEF TypeOK
  <2>4. \/ UNCHANGED lost /\ pc'[o] = "record"
        \/ lost' = lost \cup {o} /\ pc'[o] = "done"
    BY <1>2 DEF AddWorktree, Goto, Settle, TypeOK
  <2> QED
    BY <2>3, <2>4
<1> QED
  BY <1>1, <1>2

\* The target of a removal in the lock is a node, born by an operation that has
\* left "record".
LEMMA Target ==
  ASSUME TypeOK, StageInv, BirthInv, NEW o \in Op, pc[o] \in RemovalStage
  PROVE  /\ request[o].node \in Op /\ node[request[o].node] # None
         /\ pc[request[o].node] \notin Unrecorded
BY RequestTypes DEF TypeOK, StageInv, BirthInv

LEMMA BirthStep ==
  ASSUME TypeOK, StageInv, BirthInv, BranchInv, Next
  PROVE  BirthInv'
<1>1. ASSUME NEW o \in Op, Step(o) PROVE BirthInv'
  <2>1. \A p \in Op \ {o} : pc'[p] = pc[p] /\ node'[p] = node[p] /\ (p \in attached' <=> p \in attached)
    BY <1>1, StepFrame
  <2>2. \A p \in Op : audit'[p] # 0 => node'[p] # None
    <3>1. \A p \in Op : node[p] # None => node'[p] # None
      BY <1>1, <2>1, NodeStep
    <3>2. CASE UNCHANGED audit
      BY <3>1, <3>2 DEF BirthInv
    <3>3. CASE EmitRemoved(o)
      <4>1. request[o].node \in Op /\ node[request[o].node] # None
        BY <3>3, Target DEF EmitRemoved, At, RemovalStage
      <4>2. \A p \in Op \ {request[o].node} : audit'[p] = audit[p]
        BY <3>3 DEF EmitRemoved, TypeOK
      <4> QED
        BY <3>1, <4>1, <4>2 DEF BirthInv
    <3> QED
      BY <1>1, <3>2, <3>3, DiskFrame
  <2>3. o \in attached' => node'[o] # None
    BY <1>1, NodeStep DEF BirthInv
  <2>4. pc'[o] \in Unrecorded => node'[o] = None
    <3>1. pc'[o] \in Unrecorded => pc[o] \in Unrecorded
      <4> USE DEF Unrecorded, Goto, Settle, Refuse, At, TypeOK
      <4>1. CASE Begin(o) \/ Resolve(o) \/ AddWorktree(o) \/ Gate(o)
        BY <4>1 DEF Begin, Resolve, AddWorktree, Gate
      <4>2. CASE RecordCheckout(o) \/ Undo(o) \/ DeleteBranch(o)
        BY <4>2 DEF RecordCheckout, RecordOutcome, NoNode, Spawn, Undo, DeleteBranch
      <4>3. CASE ListWorktrees(o) \/ RemoveWorktree(o) \/ EmitRemoved(o)
        BY <4>3 DEF ListWorktrees, AfterList, RemoveWorktree, EmitRemoved
      <4> QED
        BY <1>1, <4>1, <4>2, <4>3 DEF Step
    <3> QED
      BY <1>1, <3>1, NodeStep DEF BirthInv, Unrecorded
  <2>5. \A p \in Op :
          /\ pc'[p] \in {"idle", "queued", "resolve", "add"} => worktree'[p] = None
          /\ pc'[p] = "record" => worktree'[p] # None
    <3>1. CASE AddWorktree(o)
      BY <2>1, <3>1, Added DEF BirthInv, AddWorktree, At
    <3>2. CASE Undo(o)
      <4>1. pc'[o] \in {"unbranch", "done"}
        BY <3>2 DEF Undo, Goto, Settle, TypeOK
      <4>2. \A p \in Op \ {o} : worktree'[p] = worktree[p]
        BY <3>2 DEF Undo, TypeOK
      <4> QED
        BY <2>1, <4>1, <4>2 DEF BirthInv
    <3>3. CASE RemoveWorktree(o)
      <4>1. request[o].node \in Op /\ pc[request[o].node] \notin Unrecorded /\ pc'[o] \in {"audit", "done"}
        BY <3>3, Target DEF RemoveWorktree, At, RemovalStage, Goto, Settle, Refuse, TypeOK
      <4>2. \A p \in Op \ {request[o].node} : worktree'[p] = worktree[p]
        BY <3>3 DEF RemoveWorktree, Refuse, disk, TypeOK
      <4>3. pc'[request[o].node] \notin Unrecorded
        BY <2>1, <4>1 DEF Unrecorded
      <4> QED
        BY <2>1, <4>1, <4>2, <4>3 DEF BirthInv, Unrecorded
    <3>4. CASE UNCHANGED worktree /\ ~AddWorktree(o)
      <4>1. /\ pc'[o] \in {"idle", "queued", "resolve", "add"} => pc[o] \in {"queued", "resolve", "add"}
            /\ pc'[o] # "record"
        <5> USE <3>4 DEF Goto, Settle, Refuse, At, TypeOK
        <5>1. CASE Begin(o) \/ Resolve(o) \/ Gate(o)
          BY <5>1 DEF Begin, Resolve, Gate
        <5>2. CASE RecordCheckout(o) \/ Undo(o) \/ DeleteBranch(o)
          BY <5>2 DEF RecordCheckout, RecordOutcome, NoNode, Spawn, Undo, DeleteBranch
        <5>3. CASE ListWorktrees(o) \/ RemoveWorktree(o) \/ EmitRemoved(o)
          BY <5>3 DEF ListWorktrees, AfterList, RemoveWorktree, EmitRemoved
        <5> QED
          BY <1>1, <5>1, <5>2, <5>3 DEF Step
      <4> QED
        BY <2>1, <3>4, <4>1 DEF BirthInv
    <3> QED
      BY <1>1, <3>1, <3>2, <3>3, <3>4, DiskFrame
  <2>6. \A p \in Op \ {o} : pc'[p] \in Unrecorded => node'[p] = None
    BY <2>1 DEF BirthInv
  <2>7. \A p \in Op : pc'[p] \in Unrecorded => node'[p] = None
    BY <2>4, <2>6
  <2>8. \A p \in Op : p \in attached' => node'[p] # None
    BY <2>1, <2>3 DEF BirthInv
  <2> QED
    BY <2>2, <2>5, <2>7, <2>8 DEF BirthInv
<1>2. ASSUME NEW o \in Op, NEW r \in Request, Enqueue(o, r) PROVE BirthInv'
  BY <1>2 DEF Enqueue, BirthInv, TypeOK, Unrecorded, log, disk
<1>3. CASE Crash
  BY <1>3 DEF Crash, BirthInv, Unrecorded, log, disk
<1>4. CASE Surroundings /\ ~Crash
  BY <1>4, SurroundingsFrame DEF BirthInv
<1> QED
  BY <1>1, <1>2, <1>3, <1>4 DEF Next

--------------------------------------------------------------------------------
(* Attached sessions, audits and orphans.                                  *)

LEMMA TenantStep ==
  ASSUME TypeOK, StageInv, BirthInv, BranchInv, TenantInv, Next
  PROVE  TenantInv'
<1>1. ASSUME NEW o \in Op, Step(o) PROVE TenantInv'
  <2>1. /\ \A p \in Op \ {o} : pc'[p] = pc[p] /\ (p \in attached' <=> p \in attached)
        /\ request' = request
    BY <1>1, StepFrame
  <2>2. CASE RecordCheckout(o)
    <3>1. pc[o] = "record" /\ worktree[o] # None /\ o \notin attached /\ UNCHANGED worktree
      BY <2>2 DEF RecordCheckout, RecordOutcome, NoNode, Refuse, At, BirthInv, Unrecorded, disk
    <3>2. attached' \subseteq tenants' /\ pc'[o] \notin {"list", "remove"}
          /\ (pc'[o] = "undo" => o \notin attached') /\ attached' \subseteq attached \cup {o}
      BY <2>2, <3>1 DEF RecordCheckout, RecordOutcome, NoNode, Spawn, Goto, Settle, log,
         TenantInv, TypeOK
    <3>3. \A p \in Op : pc[p] \in {"list", "remove"} => request[p].node # o
      BY <3>1, Target DEF RemovalStage, Unrecorded
    <3>4. \A n \in attached' : worktree'[n] # None
      BY <3>1, <3>2 DEF TenantInv
    <3>5. \A p \in Op : pc'[p] = "undo" => p \notin attached'
      BY <2>1, <3>2 DEF TenantInv
    <3>6. \A p \in Op : pc'[p] \in {"list", "remove"} => request'[p].node \notin attached'
      BY <2>1, <3>2, <3>3 DEF TenantInv
    <3> QED
      BY <3>2, <3>4, <3>5, <3>6 DEF TenantInv
  <2>3. CASE ~RecordCheckout(o)
    <3>1. UNCHANGED <<attached, tenants, node>>
      BY <1>1, <2>3, DiskFrame
    <3>2. \A n \in attached : worktree'[n] # None
      <4>0. attached \subseteq Op
        BY DEF TypeOK
      <4>1. CASE AddWorktree(o)
        BY <4>0, <4>1, Added DEF TenantInv
      <4>2. CASE Undo(o)
        BY <4>0, <4>2 DEF Undo, At, TenantInv, TypeOK
      <4>3. CASE RemoveWorktree(o)
        BY <4>0, <4>3 DEF RemoveWorktree, At, Refuse, disk, TenantInv, TypeOK
      <4>4. CASE UNCHANGED worktree
        BY <4>4 DEF TenantInv
      <4> QED
        BY <1>1, <4>1, <4>2, <4>3, <4>4, DiskFrame
    <3>3. /\ pc'[o] # "undo"
          /\ pc'[o] \in {"list", "remove"} => request[o].node \notin attached
      <4> USE DEF Goto, Settle, Refuse, At, TypeOK
      <4>1. CASE Begin(o) \/ Resolve(o) \/ AddWorktree(o)
        BY <4>1 DEF Begin, Resolve, AddWorktree
      <4>2. CASE Undo(o) \/ DeleteBranch(o)
        BY <4>2 DEF Undo, DeleteBranch
      <4>3. CASE Gate(o)
        BY <4>3 DEF Gate, InUse, TenantInv
      <4>4. CASE ListWorktrees(o)
        BY <4>4 DEF ListWorktrees, AfterList, TenantInv
      <4>5. CASE RemoveWorktree(o) \/ EmitRemoved(o)
        BY <4>5 DEF RemoveWorktree, EmitRemoved
      <4> QED
        BY <1>1, <2>3, <4>1, <4>2, <4>3, <4>4, <4>5 DEF Step
    <3>4. \A p \in Op : pc'[p] = "undo" => p \notin attached'
      BY <2>1, <3>1, <3>3 DEF TenantInv
    <3>5. \A p \in Op : pc'[p] \in {"list", "remove"} => request'[p].node \notin attached'
      BY <2>1, <3>1, <3>3 DEF TenantInv
    <3> QED
      BY <3>1, <3>2, <3>4, <3>5 DEF TenantInv
  <2> QED
    BY <2>2, <2>3
<1>2. ASSUME NEW o \in Op, NEW r \in Request, Enqueue(o, r) PROVE TenantInv'
  <2>1. /\ \A p \in Op : pc'[p] \in {"undo", "list", "remove"} => pc[p] = pc'[p] /\ p # o
        /\ \A p \in Op \ {o} : request'[p] = request[p]
        /\ UNCHANGED <<attached, tenants, worktree>>
    BY <1>2 DEF Enqueue, TypeOK, log, disk
  <2> QED
    BY <2>1 DEF TenantInv
<1>3. CASE Crash
  BY <1>3 DEF Crash, TenantInv, log, disk
<1>4. CASE Surroundings /\ ~Crash
  <2>1. tenants \subseteq tenants'
    BY <1>4 DEF Surroundings, ArchiveProject, ScanClaims, ScanWorktrees, MoveBranch, HumanSpawn,
       ProcessEnds, log
  <2> QED
    BY <1>4, <2>1, SurroundingsFrame DEF TenantInv
<1> QED
  BY <1>1, <1>2, <1>3, <1>4 DEF Next

LEMMA AuditStep ==
  ASSUME TypeOK, LockInv, StageInv, BirthInv, BranchInv, AuditInv, Next
  PROVE  AuditInv'
<1>1. ASSUME NEW o \in Op, Step(o) PROVE AuditInv'
  <2>1. /\ \A p \in Op \ {o} : pc'[p] = pc[p]
        /\ request' = request /\ Holds(o)
    BY <1>1, StepFrame
  <2>2. \A p \in Op \ {o} : pc'[p] # "audit"
    BY <2>1 DEF LockInv, Holds, RemovalStage
  <2>3. CASE EmitRemoved(o)
    <3>1. /\ pc[o] = "audit" /\ pc'[o] = "done" /\ UNCHANGED worktree
          /\ \/ UNCHANGED audit
             \/ audit' = [audit EXCEPT ![request[o].node] = audit[request[o].node] + 1]
      BY <2>3 DEF EmitRemoved, At, Settle, TypeOK, disk
    <3>2. request[o].node \in Op
      BY <3>1, Target DEF RemovalStage
    <3>3. audit[request[o].node] = 0 /\ worktree[request[o].node] = None
      BY <3>1 DEF AuditInv
    <3>4. \A n \in Op : audit'[n] <= 1 /\ (audit'[n] # 0 => worktree'[n] = None)
      BY <3>1, <3>2, <3>3 DEF AuditInv, TypeOK
    <3> QED
      BY <2>2, <3>1, <3>4 DEF AuditInv
  <2>4. CASE RemoveWorktree(o)
    <3>1. request[o].node \in Op
      BY <2>4, Target DEF RemoveWorktree, At, RemovalStage
    <3>2. CASE Refuse(o)
      BY <2>2, <3>2 DEF Refuse, Settle, AuditInv, TypeOK, log, disk
    <3>3. CASE ~Refuse(o)
      <4>1. /\ worktree[request[o].node] # None
            /\ worktree' = [worktree EXCEPT ![request[o].node] = None]
            /\ UNCHANGED audit
        BY <2>4, <3>3 DEF RemoveWorktree, log
      <4>2. audit[request[o].node] = 0
        BY <3>1, <4>1 DEF AuditInv
      <4> QED
        BY <2>1, <2>2, <3>1, <4>1, <4>2 DEF AuditInv, TypeOK
    <3> QED
      BY <3>2, <3>3
  <2>5. CASE ~EmitRemoved(o) /\ ~RemoveWorktree(o)
    <3>1. UNCHANGED audit
      BY <1>1, <2>5, DiskFrame
    <3>2. pc'[o] # "audit"
      <4> USE DEF Goto, Settle, Refuse, At, TypeOK
      <4>1. CASE Begin(o) \/ Resolve(o) \/ AddWorktree(o) \/ Gate(o)
        BY <4>1 DEF Begin, Resolve, AddWorktree, Gate
      <4>2. CASE RecordCheckout(o) \/ Undo(o) \/ DeleteBranch(o)
        BY <4>2 DEF RecordCheckout, RecordOutcome, NoNode, Spawn, Undo, DeleteBranch
      <4>3. CASE ListWorktrees(o)
        BY <4>3 DEF ListWorktrees, AfterList
      <4> QED
        BY <1>1, <2>5, <4>1, <4>2, <4>3 DEF Step
    <3>3. \A n \in Op : audit[n] # 0 => worktree'[n] = None
      <4>1. CASE AddWorktree(o)
        <5>1. audit[o] = 0
          BY <4>1 DEF AddWorktree, At, BirthInv, Unrecorded
        <5> QED
          BY <4>1, <5>1, Added DEF AuditInv
      <4>2. CASE Undo(o)
        BY <4>2 DEF Undo, AuditInv, TypeOK
      <4>3. CASE UNCHANGED worktree
        BY <4>3 DEF AuditInv
      <4> QED
        BY <1>1, <2>5, <4>1, <4>2, <4>3, DiskFrame
    <3> QED
      BY <2>2, <3>1, <3>2, <3>3 DEF AuditInv
  <2> QED
    BY <2>3, <2>4, <2>5
<1>2. ASSUME NEW o \in Op, NEW r \in Request, Enqueue(o, r) PROVE AuditInv'
  <2>1. /\ \A p \in Op : pc'[p] = "audit" => pc[p] = "audit" /\ p # o
        /\ \A p \in Op \ {o} : request'[p] = request[p]
        /\ UNCHANGED <<audit, worktree>>
    BY <1>2 DEF Enqueue, TypeOK, log, disk
  <2> QED
    BY <2>1 DEF AuditInv
<1>3. CASE Crash
  BY <1>3 DEF Crash, AuditInv, log, disk
<1>4. CASE Surroundings /\ ~Crash
  BY <1>4, SurroundingsFrame DEF AuditInv
<1> QED
  BY <1>1, <1>2, <1>3, <1>4 DEF Next

LEMMA OrphanStep ==
  ASSUME TypeOK, StageInv, BranchInv, OrphanInv, Next
  PROVE  OrphanInv'
<1>1. ASSUME NEW o \in Op, Step(o) PROVE OrphanInv'
  <2>1. /\ \A p \in Op \ {o} : pc'[p] = pc[p] /\ node'[p] = node[p]
        /\ node[o] # None => node'[o] # None
    BY <1>1, StepFrame, NodeStep
  <2>2. CASE AddWorktree(o)
    <3>1. UNCHANGED node /\ pc[o] = "add"
      BY <2>2 DEF AddWorktree, At, Refuse, log
    <3> QED
      BY <2>1, <2>2, <3>1, Added DEF OrphanInv
  <2>3. CASE RecordCheckout(o)
    <3>1. UNCHANGED <<worktree, lost>>
      BY <2>3 DEF RecordCheckout, RecordOutcome, NoNode, disk
    <3>2. NoNode(o) \/ (Born(o) /\ pc'[o] \in {"undo", "done"})
      BY <2>3 DEF RecordCheckout, RecordOutcome, Spawn, Goto, Settle, TypeOK
    <3>3. NoNode(o) => pc'[o] = "undo"
      BY DEF NoNode, Goto, TypeOK
    <3>4. AddedBranch(o) \in Branch \cup Op /\ commit[o] \in Nat
      BY <2>3, CheckoutTypes DEF RecordCheckout, At, CheckoutStage, TypeOK
    <3>5. Born(o) => node'[o] # None
      BY <3>4, DistinctAssumption DEF Born, TypeOK
    <3> QED
      BY <2>1, <3>1, <3>2, <3>3, <3>5 DEF OrphanInv
  <2>4. CASE Undo(o)
    <3>1. \/ worktree'[o] = None /\ UNCHANGED lost
          \/ UNCHANGED worktree /\ lost' = lost \cup {o}
      BY <2>4 DEF Undo, TypeOK
    <3>2. \A p \in Op \ {o} : worktree'[p] = worktree[p]
      BY <2>4 DEF Undo, TypeOK
    <3> QED
      BY <2>1, <3>1, <3>2 DEF OrphanInv
  <2>5. CASE ~AddWorktree(o) /\ ~RecordCheckout(o) /\ ~Undo(o)
    <3>1. pc[o] \notin {"record", "undo"} /\ UNCHANGED lost
      BY <1>1, <2>5, DiskFrame DEF Step, Begin, Resolve, DeleteBranch, Gate, ListWorktrees,
         RemoveWorktree, EmitRemoved, At
    <3>2. \A p \in Op : worktree'[p] # None => worktree[p] # None
      BY <1>1, <2>5, DiskFrame DEF RemoveWorktree, Refuse, disk, TypeOK
    <3> QED
      BY <2>1, <3>1, <3>2 DEF OrphanInv
  <2> QED
    BY <2>2, <2>3, <2>4, <2>5
<1>2. ASSUME NEW o \in Op, NEW r \in Request, Enqueue(o, r) PROVE OrphanInv'
  BY <1>2 DEF Enqueue, OrphanInv, TypeOK, log, disk
<1>3. CASE Crash
  BY <1>3 DEF Crash, OrphanInv, log, disk
<1>4. CASE Surroundings /\ ~Crash
  BY <1>4, SurroundingsFrame DEF OrphanInv
<1> QED
  BY <1>1, <1>2, <1>3, <1>4 DEF Next

LEMMA CommitStep ==
  ASSUME TypeOK, StageInv, BirthInv, BranchInv, CommitInv, Next
  PROVE  CommitInv'
<1>1. ASSUME NEW o \in Op, Step(o) PROVE CommitInv'
  <2>1. /\ \A p \in Op \ {o} : pc'[p] = pc[p] /\ node'[p] = node[p]
        /\ request' = request
    BY <1>1, StepFrame
  <2>2. \A p \in Op \ {o} : commit'[p] = commit[p]
    BY <1>1 DEF Step, Begin, Resolve, AddWorktree, RecordCheckout, RecordOutcome, NoNode, Undo,
       DeleteBranch, Gate, ListWorktrees, RemoveWorktree, EmitRemoved, Refuse, TypeOK
  <2>3. \A p \in Op \ {o} : worktree'[p] = worktree[p] \/ worktree'[p] = None
    BY <1>1, DiskFrame DEF AddWorktree, Undo, RemoveWorktree, Refuse, disk, TypeOK
  <2>4. ASSUME Created(o), worktree'[o] # None
        PROVE  /\ pc'[o] = "record" => worktree'[o].commit = commit'[o]
               /\ node'[o] # None => node'[o].resolvedCommit = worktree'[o].commit
    <3>1. CASE AddWorktree(o)
      <4>1. node'[o] = None /\ commit' = commit
        BY <3>1 DEF AddWorktree, At, Refuse, log, BirthInv, Unrecorded
      <4>2. CASE Refuse(o)
        BY <4>1, <4>2 DEF Refuse, Settle, TypeOK, AddWorktree
      <4>3. CASE ~Refuse(o)
        BY <2>4, <3>1, <4>1, <4>3 DEF AddWorktree, AddedCommit, TypeOK
      <4> QED BY <4>2, <4>3
    <3>2. CASE RecordCheckout(o)
      <4>1. UNCHANGED <<worktree, commit>> /\ pc[o] = "record"
        BY <3>2 DEF RecordCheckout, RecordOutcome, NoNode, At, disk
      <4>2. worktree[o].commit = commit[o]
        BY <2>4, <4>1 DEF CommitInv
      <4>3. pc'[o] \in {"undo", "done"}
        BY <3>2 DEF RecordCheckout, RecordOutcome, NoNode, Spawn, Goto, Settle, TypeOK
      <4>4. UNCHANGED node \/ Born(o)
        BY <3>2 DEF RecordCheckout, RecordOutcome, NoNode, log
      <4>5. UNCHANGED node => node'[o] = None
        BY <4>1 DEF BirthInv, Unrecorded
      <4>6. Born(o) => node'[o].resolvedCommit = commit[o]
        BY DEF Born, TypeOK
      <4> QED BY <4>1, <4>2, <4>3, <4>4, <4>5, <4>6
    <3>3. CASE Resolve(o)
      <4>1. node'[o] = None /\ pc'[o] \in {"add", "done"}
        BY <3>3 DEF Resolve, At, Goto, Refuse, Settle, log, TypeOK, BirthInv, Unrecorded
      <4> QED BY <4>1
    <3>4. CASE ~AddWorktree(o) /\ ~RecordCheckout(o) /\ ~Resolve(o)
      <4>1. UNCHANGED <<node, commit>>
        BY <1>1, <3>4, DiskFrame DEF Step, Begin, Undo, DeleteBranch, Gate, ListWorktrees,
           RemoveWorktree, EmitRemoved, Refuse
      <4>2. worktree'[o] = worktree[o]
        BY <1>1, <2>4, <3>4, DiskFrame DEF Undo, RemoveWorktree, Refuse, disk, TypeOK
      <4>3. pc'[o] # "record"
        BY <1>1, <3>4 DEF Step, Begin, Undo, DeleteBranch, Gate, ListWorktrees, AfterList,
           RemoveWorktree, EmitRemoved, Refuse, Goto, Settle, TypeOK
      <4> QED BY <2>4, <4>1, <4>2, <4>3 DEF CommitInv
    <3> QED BY <3>1, <3>2, <3>3, <3>4
  <2> QED BY <2>1, <2>2, <2>3, <2>4 DEF CommitInv, Created
<1>2. ASSUME NEW o \in Op, NEW r \in Request, Enqueue(o, r) PROVE CommitInv'
  <2>1. node[o] = None /\ worktree[o] = None
    BY <1>2 DEF Enqueue, BirthInv, Unrecorded
  <2> QED BY <1>2, <2>1 DEF Enqueue, CommitInv, Created, TypeOK, log, disk
<1>3. CASE Crash
  BY <1>3 DEF Crash, CommitInv, Created, log, disk
<1>4. CASE Surroundings /\ ~Crash
  BY <1>4, SurroundingsFrame DEF CommitInv, Created
<1> QED
  BY <1>1, <1>2, <1>3, <1>4 DEF Next

--------------------------------------------------------------------------------
(* The theorems.                                                           *)

LEMMA InvariantHoldsInitially ==
  ASSUME Init
  PROVE  IInv
<1>1. TypeOK
  BY CommitAssumption, EmptySeq DEF Init, TypeOK
<1>2. StageInv
  BY DEF Init, StageInv, CheckoutStage, RemovalStage, NoRequest
<1>3. BranchInv
  BY DistinctAssumption DEF Init, BranchInv
<1> QED
  BY <1>1, <1>2, <1>3 DEF Init, IInv, LockInv, BirthInv, TenantInv, AuditInv, OrphanInv, CommitInv,
     Unrecorded, CheckoutStage, RemovalStage

LEMMA InvariantIsKept ==
  ASSUME IInv, [Next]_vars
  PROVE  IInv'
<1>1. CASE Next
  BY <1>1, TypeStep, LockStep, StageStep, BirthStep, BranchStep, TenantStep, AuditStep, OrphanStep,
     CommitStep DEF IInv
<1>2. CASE UNCHANGED vars
  BY <1>2 DEF vars, log, disk, scan, IInv, TypeOK, LockInv, StageInv, BirthInv, BranchInv, TenantInv,
     AuditInv, OrphanInv, CommitInv, Created, Holds
<1> QED
  BY <1>1, <1>2

\* The invariant holds in every state of every behaviour.
LEMMA Invariance == Spec => []IInv
BY InvariantHoldsInitially, InvariantIsKept, PTL DEF Spec

\* Every variable keeps its type, for any operations and any surroundings.
THEOREM CheckoutTypesCorrect == Spec => []TypeOK
<1>1. IInv => TypeOK
  BY DEF IInv
<1> QED
  BY <1>1, Invariance, PTL

\* A7: no removal, compensation or restart takes the directory of a dispatched
\* session that was attached to its checkout.
THEOREM AttachedSessionKeepsDirectory == Spec => []AttachedKeepsDirectory
<1>1. IInv => AttachedKeepsDirectory
  BY DEF IInv, TenantInv, AttachedKeepsDirectory
<1> QED
  BY <1>1, Invariance, PTL

\* A8: an unclaimed checkout is in the making, or was left by a crash or by git.
THEOREM NoUnexplainedOrphan == Spec => []OrphansAreExplained
<1>1. IInv => OrphansAreExplained
  BY DEF IInv, OrphanInv, LockInv, OrphansAreExplained, CheckoutStage
<1> QED
  BY <1>1, Invariance, PTL

\* The audit log says of each checkout at most once that it was removed, and says
\* it only of what is gone.
THEOREM AuditedAtMostOnce == Spec => []RemovalAuditedOnce
<1>1. IInv => RemovalAuditedOnce
  <2>1. ASSUME IInv, NEW n \in Op
        PROVE  audit[n] <= 1 /\ (audit[n] = 1 => worktree[n] = None)
    BY <2>1 DEF IInv, AuditInv
  <2> QED
    BY <2>1 DEF RemovalAuditedOnce
<1> QED
  BY <1>1, Invariance, PTL

\* A6: what a create recorded as its commit is what it checked out, wherever its
\* base ref has moved since it was resolved.
THEOREM CheckedOutAsRecorded == Spec => []CreatedFromRecordedCommit
<1>1. IInv => CreatedFromRecordedCommit
  BY DEF IInv, CommitInv, CreatedFromRecordedCommit
<1> QED
  BY <1>1, Invariance, PTL

\* A10: no step of the coordinator deletes a branch it did not make.
THEOREM HumanBranchesNeverDeleted == Spec => HumanBranchesSurvive
<1>1. IInv' => [\A b \in Branch : tip[b] # None => tip'[b] # None]_vars
  BY DEF IInv, BranchInv
<1> QED
  BY <1>1, Invariance, PTL DEF HumanBranchesSurvive
================================================================================
