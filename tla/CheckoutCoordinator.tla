-------------------------- MODULE CheckoutCoordinator --------------------------
(***************************************************************************)
(* Engine-made git checkouts: daemon/src/checkoutCoordinator.ts, with the  *)
(* two writers it calls (nodeWriter.createCheckoutNode, the nodes stream)  *)
(* and the dispatcher's in-lock spawn (taskDispatcher.spawnIntoCheckout).  *)
(*                                                                         *)
(* One project and its repository: the lock, the repository and the nodes  *)
(* of two projects have nothing in common.  An operation is one action per *)
(* stretch of code between two awaits of git; what only reads and refuses  *)
(* is joined to the read whose answer is kept.  The nodeId an operation    *)
(* mints, the path and the branch derived from it are all named by the     *)
(* operation itself, since a uuid is never drawn twice.                    *)
(***************************************************************************)
EXTENDS Naturals, Sequences

CONSTANTS
  Op,           \* the operations ever requested; also the ids they mint
  Branch,       \* the branches humans made, all of them in the repository
  MaxCommit,    \* bound on how far a branch moves
  Environment,  \* what happens around the coordinator, see EnvironmentAssumption
  None

ASSUME DistinctAssumption ==
  /\ Op \cap Branch = {}
  /\ None \notin Nat \cup [branch : Branch \cup Op, commit : Nat]
                 \cup [branch : Branch \cup Op, resolvedCommit : Nat]
ASSUME CommitAssumption == MaxCommit \in Nat
ASSUME EnvironmentAssumption ==
  Environment \subseteq {"archive", "commit", "crash", "human spawn", "orphan scan"}

VARIABLES
  queue,     \* the promise chain of the project: the head holds the lock
  pc,        \* where each operation is
  request,   \* what it was asked for
  commit,    \* what its ref was resolved to
  archived,  \* DURABLE: the project is archived
  node,      \* DURABLE: the provenance each checkout node was born with
  audit,     \* DURABLE: how many checkout_removed each node has
  attached,  \* DURABLE: nodes with a dispatched session attached
  tenants,   \* DURABLE: checkouts that are the cwd of a session, none ever "dead"
  running,   \* those whose session has a process
  worktree,  \* DISK: the checkout at each derived path
  tip,       \* DISK: the commit of each branch, or None
  lost,      \* HISTORY: checkouts left by a crash or by a failure of git
  claimed,   \* the paths an orphan scan in progress found claimed, or None
  orphans    \* what the last orphan scan reported

log  == <<archived, node, audit, attached, tenants>>
disk == <<worktree, tip>>
scan == <<claimed, orphans>>
vars == <<queue, pc, request, commit, log, running, disk, lost, scan>>

--------------------------------------------------------------------------------
Commit == 0..MaxCommit
Request ==
  [kind : {"create"}, branch : Branch, dispatched : BOOLEAN]
    \cup [kind : {"open"}, branch : Branch, dispatched : {FALSE}]
    \cup [kind : {"remove"}, node : Op]
NoRequest == [kind |-> "none"]

Created(o) == request[o].kind = "create"
Holds(o) == queue # <<>> /\ Head(queue) = o
At(o, step) == Holds(o) /\ pc[o] = step
Goto(o, step) == pc' = [pc EXCEPT ![o] = step] /\ UNCHANGED queue

\* The tail of the chain settles whatever became of the operation, so the next
\* one runs after a throw too.
Unlocked_NotByThrow(o, outcome) ==   \* mutant: .then(operation) alone
  IF outcome = "threw" THEN queue ELSE Tail(queue)
Unlocked(o, outcome) == Tail(queue)
Settle(o, outcome) ==
  /\ pc' = [pc EXCEPT ![o] = "done"]
  /\ queue' = Unlocked(o, outcome)
Refuse(o) == Settle(o, "refused") /\ UNCHANGED <<request, commit, log, running, disk, lost, scan>>

CheckedOut(b) == \E n \in Op : worktree[n] # None /\ worktree[n].branch = b

Init ==
  /\ queue = <<>> /\ pc = [o \in Op |-> "idle"]
  /\ request = [o \in Op |-> NoRequest] /\ commit = [o \in Op |-> 0]
  /\ archived = FALSE
  /\ node = [o \in Op |-> None] /\ audit = [o \in Op |-> 0]
  /\ attached = {} /\ tenants = {} /\ running = {}
  /\ worktree = [o \in Op |-> None]
  /\ tip = [b \in Branch \cup Op |-> IF b \in Branch THEN 0 ELSE None]
  /\ lost = {} /\ claimed = None /\ orphans = {}

--------------------------------------------------------------------------------
(* A request joins the chain.  A removal names a node it could read before. *)

Enqueue(o, r) ==
  /\ pc[o] = "idle"
  /\ r.kind = "remove" => node[r.node] # None
  /\ request' = [request EXCEPT ![o] = r]
  /\ pc' = [pc EXCEPT ![o] = "queued"]
  /\ queue' = Append(queue, o)
  /\ UNCHANGED <<commit, log, running, disk, lost, scan>>

--------------------------------------------------------------------------------
(* create and open.                                                        *)

\* In the lock: the project must be live, and a branch to be opened must not be
\* checked out.  Git may fail at this and at every later step.
Begin(o) ==
  /\ At(o, "queued") /\ request[o].kind \in {"create", "open"}
  /\ \/ /\ ~archived
        /\ request[o].kind = "open" => ~CheckedOut(request[o].branch)
        /\ Goto(o, "resolve")
        /\ UNCHANGED <<request, commit, log, running, disk, lost, scan>>
     \/ Refuse(o)

\* The base ref of a create, the branch of an open, pinned to a commit.
Resolved_Name(o) == request[o].branch   \* mutant: the ref kept for its commit
Resolved(o) == tip[request[o].branch]

Resolve(o) ==
  /\ At(o, "resolve")
  /\ \/ /\ commit' = [commit EXCEPT ![o] = Resolved(o)]
        /\ Goto(o, "add")
        /\ UNCHANGED <<request, log, running, disk, lost, scan>>
     \/ Refuse(o)

\* create adds a new branch at the commit; open checks the branch itself out.
AddedBranch(o) == IF Created(o) THEN o ELSE request[o].branch
AddedCommit_OfRef(o) == tip[request[o].branch]   \* mutant: the ref, not the commit
AddedCommit(o) == IF Created(o) THEN commit[o] ELSE tip[request[o].branch]

\* Git may also report a failure after the checkout was made (a post-checkout
\* hook, a signal): the coordinator takes it for not made.
AddWorktree(o) ==
  /\ At(o, "add")
  /\ \/ /\ ~CheckedOut(AddedBranch(o))
        /\ worktree' = [worktree EXCEPT
              ![o] = [branch |-> AddedBranch(o), commit |-> AddedCommit(o)]]
        /\ tip' = [tip EXCEPT ![AddedBranch(o)] = AddedCommit(o)]
        /\ \/ Goto(o, "record") /\ UNCHANGED lost
           \/ Settle(o, "refused") /\ lost' = lost \cup {o}
        /\ UNCHANGED <<request, commit, log, running, scan>>
     \/ Refuse(o)

\* The writer births the node unless the project was archived while git ran.
\* An append to the log may throw, before or after the node is born.
Born(o) == node' = [node EXCEPT
  ![o] = [branch |-> AddedBranch(o), resolvedCommit |-> commit[o]]]
NoNode(o) ==
  /\ Goto(o, "undo")
  /\ UNCHANGED <<request, commit, log, running, disk, lost, scan>>

\* The dispatcher's spawn, in the lock: it succeeds and is attached, is refused
\* without a session, throws when the session is already logged, or succeeds and
\* then fails to be attached.
Spawn(o) ==
  \/ /\ tenants' = tenants \cup {o} /\ running' = running \cup {o}
     /\ attached' = attached \cup {o}
     /\ Settle(o, "ok")
  \/ /\ UNCHANGED <<tenants, running, attached>> /\ Goto(o, "undo")
  \/ /\ tenants' = tenants \cup {o} /\ UNCHANGED <<running, attached>>
     /\ Goto(o, "undo")
  \/ /\ tenants' = tenants \cup {o} /\ running' = running \cup {o}
     /\ UNCHANGED attached /\ Goto(o, "undo")

RecordOutcome_Uncompensated(o) ==   \* mutant: the refusal returned at once
  IF archived THEN Refuse(o) ELSE NoNode(o)
RecordOutcome(o) == NoNode(o)

RecordCheckout(o) ==
  /\ At(o, "record")
  /\ \/ RecordOutcome(o)
     \/ /\ ~archived /\ Born(o)
        /\ IF request[o].dispatched THEN Spawn(o)
           ELSE Settle(o, "ok") /\ UNCHANGED <<tenants, running, attached>>
        /\ UNCHANGED <<request, commit, archived, audit, disk, lost, scan>>

\* Compensation: the checkout goes, then the branch if it was made by create.
\* A step of it that fails is a warning and leaves what it leaves.
CompensateBranch_Always(o) == TRUE   \* mutant
CompensateBranch(o) == Created(o)

Undo(o) ==
  /\ At(o, "undo")
  /\ \/ worktree' = [worktree EXCEPT ![o] = None] /\ UNCHANGED lost
     \/ UNCHANGED worktree /\ lost' = lost \cup {o}
  /\ IF CompensateBranch(o) THEN Goto(o, "unbranch") ELSE Settle(o, "threw")
  /\ UNCHANGED <<request, commit, log, running, tip, scan>>

DeleteBranch(o) ==
  /\ At(o, "unbranch")
  /\ \/ ~CheckedOut(AddedBranch(o)) /\ tip' = [tip EXCEPT ![AddedBranch(o)] = None]
     \/ UNCHANGED tip
  /\ Settle(o, "threw")
  /\ UNCHANGED <<request, commit, log, running, worktree, lost, scan>>

--------------------------------------------------------------------------------
(* remove.                                                                 *)

\* A session that is not dead holds its directory, whether or not it has a
\* process now; read in the lock.
InUse_ByProcess(n) == n \in running   \* mutant: the process registry is asked
InUse(n) == n \in tenants

Gate(o) ==
  /\ At(o, "queued") /\ request[o].kind = "remove"
  /\ \/ /\ ~InUse(request[o].node)
        /\ Goto(o, "list")
        /\ UNCHANGED <<request, commit, log, running, disk, lost, scan>>
     \/ Refuse(o)

\* What git lists is removed and then audited; what it does not list is a
\* success without an event.
AfterList_AuditAnyway(n) == IF worktree[n] # None THEN "remove" ELSE "audit"   \* mutant
AfterList(n) == IF worktree[n] # None THEN "remove" ELSE "done"

ListWorktrees(o) ==
  /\ At(o, "list")
  /\ \/ /\ AfterList(request[o].node) # "done"
        /\ Goto(o, AfterList(request[o].node))
        /\ UNCHANGED <<request, commit, log, running, disk, lost, scan>>
     \/ Refuse(o)   \* git failed, or there was nothing to remove

RemoveWorktree(o) ==
  /\ At(o, "remove")
  /\ \/ /\ worktree[request[o].node] # None
        /\ worktree' = [worktree EXCEPT ![request[o].node] = None]
        /\ Goto(o, "audit")
        /\ UNCHANGED <<request, commit, log, running, tip, lost, scan>>
     \/ Refuse(o)

EmitRemoved(o) ==
  /\ At(o, "audit")
  /\ \/ audit' = [audit EXCEPT ![request[o].node] = @ + 1] /\ Settle(o, "ok")
     \/ UNCHANGED audit /\ Settle(o, "threw")
  /\ UNCHANGED <<request, commit, archived, node, attached, tenants, running, disk,
                 lost, scan>>

--------------------------------------------------------------------------------
(* The orphan scan takes no lock: the claims are read first, then git is    *)
(* asked.                                                                  *)

ScanClaims ==
  /\ "orphan scan" \in Environment /\ claimed = None
  /\ claimed' = {n \in Op : node[n] # None}
  /\ UNCHANGED <<queue, pc, request, commit, log, running, disk, lost, orphans>>

ScanWorktrees ==
  /\ claimed # None
  /\ claimed' = None
  /\ orphans' = IF archived THEN {} ELSE {n \in Op : worktree[n] # None} \ claimed
  /\ UNCHANGED <<queue, pc, request, commit, log, running, disk, lost>>

--------------------------------------------------------------------------------
(* Around the coordinator.                                                 *)

ArchiveProject ==
  /\ "archive" \in Environment /\ ~archived /\ archived' = TRUE
  /\ UNCHANGED <<queue, pc, request, commit, node, audit, attached, tenants, running,
                 disk, lost, scan>>

\* Somebody commits to a branch, or fetches into it.
MoveBranch(b) ==
  /\ "commit" \in Environment /\ tip[b] < MaxCommit
  /\ tip' = [tip EXCEPT ![b] = @ + 1]
  /\ UNCHANGED <<queue, pc, request, commit, log, running, worktree, lost, scan>>

\* A session spawned by hand in a checkout, which the hub allows where worktreeRoot
\* lies in the project roots: no lock is asked for.
HumanSpawn(n) ==
  /\ "human spawn" \in Environment /\ worktree[n] # None
  /\ tenants' = tenants \cup {n} /\ running' = running \cup {n}
  /\ UNCHANGED <<queue, pc, request, commit, archived, node, audit, attached, disk,
                 lost, scan>>

ProcessEnds(n) ==
  /\ n \in running /\ running' = running \ {n}
  /\ UNCHANGED <<queue, pc, request, commit, log, disk, lost, scan>>

\* The daemon dies and starts again: the chain is gone, log and disk are not.
Crash ==
  /\ "crash" \in Environment
  /\ queue' = <<>>
  /\ pc' = [o \in Op |-> IF pc[o] = "idle" THEN "idle" ELSE "done"]
  /\ lost' = lost \cup {o \in Op : pc[o] \in {"record", "undo"}}
  /\ running' = {} /\ claimed' = None
  /\ UNCHANGED <<request, commit, log, disk, orphans>>

Step(o) ==
  \/ Begin(o) \/ Resolve(o) \/ AddWorktree(o) \/ RecordCheckout(o) \/ Undo(o)
  \/ DeleteBranch(o) \/ Gate(o) \/ ListWorktrees(o) \/ RemoveWorktree(o) \/ EmitRemoved(o)

Surroundings ==
  \/ ArchiveProject \/ ScanClaims \/ ScanWorktrees \/ Crash
  \/ \E b \in Branch : MoveBranch(b)
  \/ \E n \in Op : HumanSpawn(n) \/ ProcessEnds(n)

Next ==
  \/ \E o \in Op : Step(o)
  \/ \E o \in Op, r \in Request : Enqueue(o, r)
  \/ Surroundings

Spec == Init /\ [][Next]_vars

\* Every git command ends, and the code after it runs.
Fairness == \A o \in Op : WF_vars(Step(o))
FairSpec == Spec /\ Fairness

--------------------------------------------------------------------------------
(* Properties.                                                             *)

\* Every variable has its type.
TypeOK ==
  /\ queue \in Seq(Op)
  /\ pc \in [Op -> {"idle", "queued", "resolve", "add", "record", "undo", "unbranch",
                    "list", "remove", "audit", "done"}]
  /\ request \in [Op -> Request \cup {NoRequest}]
  /\ commit \in [Op -> Nat]
  /\ archived \in BOOLEAN
  /\ node \in [Op -> [branch : Branch \cup Op, resolvedCommit : Nat] \cup {None}]
  /\ audit \in [Op -> Nat]
  /\ attached \subseteq Op /\ tenants \subseteq Op /\ running \subseteq Op
  /\ worktree \in [Op -> [branch : Branch \cup Op, commit : Nat] \cup {None}]
  /\ tip \in [Branch \cup Op -> Nat \cup {None}]
  /\ lost \subseteq Op /\ claimed \in (SUBSET Op) \cup {None} /\ orphans \subseteq Op

\* A7: a dispatched session that was attached to its checkout never loses the
\* directory, whatever removals were queued behind its creation, and also after
\* its process has ended or the daemon has restarted.
AttachedKeepsDirectory == \A n \in attached : worktree[n] # None

\* A8: a checkout on disk that no node claims belongs to an operation still in
\* the lock, or was left by a crash or by a failure of git; no failure of the
\* bookkeeping leaves one.
OrphansAreExplained ==
  \A n \in Op : worktree[n] # None /\ node[n] = None =>
    (Holds(n) /\ pc[n] \in {"record", "undo"}) \/ n \in lost

\* A6: what a create recorded as its commit is what it checked out, although the
\* base ref may move at any time.
CreatedFromRecordedCommit ==
  \A n \in Op : Created(n) /\ node[n] # None /\ worktree[n] # None =>
    node[n].resolvedCommit = worktree[n].commit

\* A removal is audited at most once, and only when the directory is gone; two
\* removals of one node, a failure between them and a restart do not add one.
RemovalAuditedOnce ==
  \A n \in Op : audit[n] <= 1 /\ (audit[n] = 1 => worktree[n] = None)

\* A10 and the nuance of compensation: no step deletes a branch of a human.
HumanBranchesSurvive ==
  [][\A b \in Branch : tip[b] # None => tip'[b] # None]_vars

\* The chain is never poisoned: an operation in it is settled, whatever becomes
\* of the ones before it.
EveryOperationSettles == \A o \in Op : pc[o] = "queued" ~> pc[o] = "done"
================================================================================
