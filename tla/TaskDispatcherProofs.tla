------------------------- MODULE TaskDispatcherProofs -------------------------
(* Theorems about TaskDispatcher.                                            *)
EXTENDS TaskDispatcher, FiniteSetTheorems, SequenceTheorems, TLAPS

\* The runs of t that the dispatcher started and that still drive.
Driving(t) == (RunsOf(t) \cap live) \ resumed

Busy(c) == call[c] # Idle

--------------------------------------------------------------------------------
(* The strengthening.  A call in progress holds the lock of its task, nobody  *)
(* else does, and until its follow-up runs no run of that task drives.        *)
LockInv ==
  /\ \A c \in Call, t \in Task :
       Busy(c) /\ call[c].task = t => t \in inFlight /\ Created(t)
  /\ \A c, d \in Call : Busy(c) /\ Busy(d) /\ c # d => call[c].task # call[d].task
  /\ \A c \in Call, t \in Task :
       call[c].pc = "checkout" /\ call[c].task = t => Driving(t) = {}

\* Only the last run of a task can drive: the others had ended when it started.
RunInv == \A t \in Task :
  /\ RunsOf(t) \subseteq used
  /\ \A i \in DOMAIN refs[t] : refs[t][i].run \in live \ resumed => i = Len(refs[t])

RecordInv == \A t \in Task : refs[t] # <<>> => Created(t)

IInv == TypeOK /\ LockInv /\ RunInv /\ RecordInv /\ ReportsNameTheirRun

--------------------------------------------------------------------------------
(* TYPES AND SHAPES *)

LEMMA RefTypes == ASSUME TypeOK, NEW t \in Task
                  PROVE  /\ refs[t] \in Seq(Ref) /\ Len(refs[t]) \in Nat
                         /\ DOMAIN refs[t] = 1 .. Len(refs[t])
                         /\ \A i \in DOMAIN refs[t] :
                              refs[t][i] \in Ref /\ refs[t][i].run \in RunsOf(t)
                         /\ RunsOf(t) \subseteq Run
<1>1. refs[t] \in Seq(Ref)
  BY DEF TypeOK
<1>2. \A i \in DOMAIN refs[t] : refs[t][i] \in Ref
  BY <1>1
<1>3. \A i \in DOMAIN refs[t] : refs[t][i].run \in RunsOf(t)
  BY DEF RunsOf, Refs
<1>4. RunsOf(t) \subseteq Run
  BY <1>2 DEF RunsOf, Refs, Ref
<1> QED BY <1>1, <1>2, <1>3, <1>4

LEMMA AttemptsFinite == ASSUME TypeOK, NEW t \in Task, NEW n
                        PROVE  /\ IsFiniteSet(AttemptsAt(t, n))
                               /\ Cardinality(AttemptsAt(t, n)) \in Nat
<1>1. IsFiniteSet(1 .. Len(refs[t]))
  BY RefTypes, FS_Interval
<1>2. AttemptsAt(t, n) \subseteq 1 .. Len(refs[t])
  BY RefTypes DEF AttemptsAt
<1>3. IsFiniteSet(AttemptsAt(t, n))
  BY <1>1, <1>2, FS_Subset
<1> QED BY <1>3, FS_CardinalityType

LEMMA RecordTypes == ASSUME TypeOK, NEW t \in Task, Created(t)
                     PROVE  task[t] \in TaskRecord
  BY DEF TypeOK, Created

LEMMA CallTypes == ASSUME TypeOK, NEW c \in Call, Busy(c)
                   PROVE  /\ call[c].task \in Task /\ call[c].node \in Node
                          /\ call[c].pc \in {"checkout", "compensate"}
  BY DEF TypeOK, Busy, CallState

LEMMA BusyByPc == ASSUME NEW c \in Call, call[c].pc \in {"checkout", "compensate"}
                  PROVE  Busy(c)
  BY DEF Busy, Idle

--------------------------------------------------------------------------------
(* WHAT A SPAWN DOES *)

\* A spawn for a task none of whose runs drives: at most the new one does then.
LEMMA SpawnEffect ==
  ASSUME TypeOK, RunInv, NEW t \in Task, NEW r \in Run, NEW n \in Node,
         NEW attached \in BOOLEAN, SpawnRun(t, r, n, attached), Driving(t) = {}
  PROVE  /\ refs' \in [Task -> Seq(Ref)]
         /\ live' \subseteq used' /\ resumed' \subseteq used' /\ used' \subseteq Run
         /\ RunInv'
         /\ \A u \in Task \ {t} : refs'[u] = refs[u] /\ Driving(u)' = Driving(u)
         /\ Driving(t)' = {} \/ Driving(t)' = {r}
         /\ \/ refs' = refs
            \/ refs'[t] = Append(refs[t], [run |-> r, node |-> n])
<1>0. /\ used' = used \cup {r} /\ live' = live \cup {r} /\ resumed' = resumed
      /\ r \notin used /\ live \subseteq used /\ resumed \subseteq used /\ used \subseteq Run
  BY DEF SpawnRun, TypeOK
<1>1. CASE attached
  <2>0. refs' = [refs EXCEPT ![t] = Append(refs[t], [run |-> r, node |-> n])]
    BY <1>1 DEF SpawnRun, Attach
  <2>1. /\ refs'[t] = Append(refs[t], [run |-> r, node |-> n])
        /\ \A u \in Task \ {t} : refs'[u] = refs[u]
        /\ refs' \in [Task -> Seq(Ref)]
    <3>1. refs \in [Task -> Seq(Ref)] /\ [run |-> r, node |-> n] \in Ref
      BY DEF TypeOK, Ref
    <3>2. Append(refs[t], [run |-> r, node |-> n]) \in Seq(Ref)
      BY <3>1
    <3> QED BY <2>0, <3>1, <3>2
  <2>2. /\ Len(refs'[t]) = Len(refs[t]) + 1
        /\ DOMAIN refs'[t] = 1 .. Len(refs[t]) + 1
        /\ \A i \in 1 .. Len(refs[t]) : refs'[t][i] = refs[t][i]
        /\ refs'[t][Len(refs[t]) + 1] = [run |-> r, node |-> n]
    BY <2>1, RefTypes, AppendProperties
  <2>3. RunsOf(t)' = RunsOf(t) \cup {r}
    <3>1. RunsOf(t)' = {refs'[t][i].run : i \in DOMAIN refs'[t]}
      BY DEF RunsOf, Refs
    <3>2. RunsOf(t) = {refs[t][i].run : i \in DOMAIN refs[t]}
      BY DEF RunsOf, Refs
    <3>3. DOMAIN refs[t] = 1 .. Len(refs[t]) /\ Len(refs[t]) \in Nat
      BY RefTypes
    <3>4. \A i \in 1 .. Len(refs[t]) : refs'[t][i].run = refs[t][i].run
      BY <2>2
    <3>5. 1 .. Len(refs[t]) + 1 = (1 .. Len(refs[t])) \cup {Len(refs[t]) + 1}
      BY <3>3
    <3>6. RunsOf(t)' = {refs'[t][i].run : i \in 1 .. Len(refs[t])}
                         \cup {refs'[t][Len(refs[t]) + 1].run}
      BY <3>1, <3>5, <2>2
    <3>7. {refs'[t][i].run : i \in 1 .. Len(refs[t])} = RunsOf(t)
      BY <3>2, <3>3, <3>4
    <3> QED BY <3>6, <3>7, <2>2
  <2>4. ASSUME NEW u \in Task \ {t}
        PROVE  RunsOf(u)' = RunsOf(u) /\ Driving(u)' = Driving(u)
    <3>1. RunsOf(u)' = RunsOf(u)
      BY <2>1 DEF RunsOf, Refs
    <3>2. r \notin RunsOf(u)
      BY <1>0 DEF RunInv
    <3> QED BY <3>1, <3>2, <1>0 DEF Driving
  <2>5. Driving(t)' = {r}
    <3>1. r \notin resumed
      BY <1>0
    <3> QED BY <2>3, <3>1, <1>0 DEF Driving
  <2>6. RunInv'
    <3> SUFFICES ASSUME NEW u \in Task
                 PROVE  /\ RunsOf(u)' \subseteq used'
                        /\ \A i \in DOMAIN refs'[u] :
                             refs'[u][i].run \in live' \ resumed' => i = Len(refs'[u])
      BY DEF RunInv
    <3>1. RunsOf(u)' \subseteq used'
      BY <1>0, <2>3, <2>4 DEF RunInv
    <3>2. CASE u = t
      <4>1. ASSUME NEW i \in 1 .. Len(refs[t]) PROVE refs'[t][i].run \notin live' \ resumed'
        <5>1. refs[t][i].run \in RunsOf(t)
          BY RefTypes
        <5>2. refs[t][i].run \notin live \ resumed
          BY <5>1 DEF Driving
        <5>3. refs[t][i].run # r
          BY <5>1, <1>0 DEF RunInv
        <5> QED BY <5>2, <5>3, <1>0, <2>2
      <4>2. Len(refs[t]) \in Nat
        BY RefTypes
      <4> QED BY <3>1, <3>2, <4>1, <4>2, <2>2
    <3>3. CASE u # t
      <4>1. ASSUME NEW i \in DOMAIN refs[u], refs[u][i].run \in live' \ resumed'
            PROVE  i = Len(refs[u])
        <5>1. refs[u][i].run \in used
          BY RefTypes DEF RunInv
        <5> QED BY <5>1, <4>1, <1>0 DEF RunInv
      <4> QED BY <3>1, <3>3, <4>1, <2>1
    <3> QED BY <3>2, <3>3
  <2> QED BY <1>0, <2>1, <2>4, <2>5, <2>6
<1>2. CASE ~attached
  <2>1. refs' = refs /\ \A u \in Task : RunsOf(u)' = RunsOf(u)
    BY <1>2 DEF SpawnRun, RunsOf, Refs
  <2>2. \A u \in Task : Driving(u)' = Driving(u)
    BY <2>1, <1>0 DEF Driving, RunInv
  <2>3. RunInv'
    <3> SUFFICES ASSUME NEW u \in Task
                 PROVE  /\ RunsOf(u)' \subseteq used'
                        /\ \A i \in DOMAIN refs[u] :
                             refs[u][i].run \in live' \ resumed' => i = Len(refs[u])
      BY <2>1 DEF RunInv
    <3>1. \A i \in DOMAIN refs[u] : refs[u][i].run \in used
      BY RefTypes DEF RunInv
    <3> QED BY <3>1, <2>1, <1>0 DEF RunInv
  <2> QED BY <1>0, <2>1, <2>2, <2>3 DEF TypeOK
<1> QED BY <1>1, <1>2

LEMMA RunInvKept == ASSUME RunInv, UNCHANGED <<refs, runs>> PROVE RunInv'
<1>1. \A u \in Task : RunsOf(u)' = RunsOf(u)
  BY DEF RunsOf, Refs
<1> QED BY <1>1 DEF RunInv, runs

LEMMA FilingsKept == ASSUME TypeOK, ReportsNameTheirRun, UNCHANGED <<refs, filed>>
                     PROVE  ReportsNameTheirRun'
<1>1. \A u \in Task, n \in Node : AttemptsAt(u, n)' = AttemptsAt(u, n)
  BY DEF AttemptsAt
<1>2. \A u \in Task : filed[u] # None => filed[u].node \in Node
  BY DEF TypeOK, Filing
<1> QED BY <1>1, <1>2 DEF ReportsNameTheirRun

\* The identities already filed are about runs already there.
LEMMA SpawnKeepsFilings ==
  ASSUME TypeOK, ReportsNameTheirRun, NEW t \in Task, NEW ref \in Ref, filed' = filed,
         refs' \in [Task -> Seq(Ref)],
         \A u \in Task \ {t} : refs'[u] = refs[u],
         refs' = refs \/ refs'[t] = Append(refs[t], ref)
  PROVE  ReportsNameTheirRun'
<1>1. CASE refs' = refs
  BY <1>1, FilingsKept
<1>2. CASE refs'[t] = Append(refs[t], ref)
  <2> SUFFICES ASSUME NEW u \in Task, filed[u] # None
               PROVE  \E i \in AttemptsAt(u, filed[u].node)' :
                        /\ refs'[u][i].run = filed[u].run
                        /\ filed[u].attempt =
                             Cardinality({j \in AttemptsAt(u, filed[u].node)' : j <= i})
    BY DEF ReportsNameTheirRun
  <2> DEFINE n == filed[u].node
  <2>1. PICK i \in AttemptsAt(u, n) :
          /\ refs[u][i].run = filed[u].run
          /\ filed[u].attempt = Cardinality({j \in AttemptsAt(u, n) : j <= i})
    BY DEF ReportsNameTheirRun
  <2>2. CASE u # t
    BY <2>1, <2>2 DEF AttemptsAt
  <2>3. CASE u = t
    <3>1. Len(refs[t]) \in Nat /\ DOMAIN refs[t] = 1 .. Len(refs[t]) /\ refs[t] \in Seq(Ref)
      BY RefTypes
    <3>2. /\ DOMAIN refs'[t] = 1 .. Len(refs[t]) + 1
          /\ \A j \in 1 .. Len(refs[t]) : refs'[t][j] = refs[t][j]
      BY <1>2, <3>1, AppendProperties
    <3>3. i \in 1 .. Len(refs[t]) /\ i \in AttemptsAt(t, n)' /\ refs'[t][i] = refs[t][i]
      BY <2>1, <2>3, <3>1, <3>2 DEF AttemptsAt
    <3>4. {j \in AttemptsAt(t, n)' : j <= i} = {j \in AttemptsAt(t, n) : j <= i}
      BY <3>1, <3>2, <3>3 DEF AttemptsAt
    <3> QED BY <2>1, <2>3, <3>3, <3>4
  <2> QED BY <2>2, <2>3
<1> QED BY <1>1, <1>2

--------------------------------------------------------------------------------
(* STEPS *)

\* In the terms of TaskBoard: nothing starts, or one run of t and no run of it
\* was driving.
DrivingKept == \A u \in Task : Driving(u)' = Driving(u)
DrivingStarted(t) ==
  /\ Driving(t) = {}
  /\ \E r \in Run : Driving(t)' = {r}
  /\ \A u \in Task \ {t} : Driving(u)' = Driving(u)

LEMMA NothingRuns == ASSUME UNCHANGED <<refs, runs>> PROVE DrivingKept
  BY DEF DrivingKept, Driving, RunsOf, Refs, runs

\* A dispatch, up to its end or its first await.
LEMMA DispatchEffect ==
  ASSUME IInv, NEW t \in Task, NEW n \in Node, StartDispatch(t, n), filed' = filed,
         Created(t), \A u \in Task : Created(u) => Created(u)'
  PROVE  /\ refs' \in [Task -> Seq(Ref)]
         /\ live' \subseteq used' /\ resumed' \subseteq used' /\ used' \subseteq Run
         /\ call' \in [Call -> CallState] /\ inFlight' \subseteq Task
         /\ LockInv' /\ RunInv' /\ RecordInv' /\ ReportsNameTheirRun'
         /\ DrivingKept \/ DrivingStarted(t)
<1>0. TypeOK /\ LockInv /\ RunInv /\ RecordInv /\ ReportsNameTheirRun
  BY DEF IInv
<1>1. MayStart(t, n)
  BY DEF StartDispatch, DispatchPlain, DispatchIsolated
<1>2. Driving(t) = {}
  BY <1>1 DEF MayStart, HasLiveRun, Driving
<1>3. \A c \in Call : Busy(c) => call[c].task # t
  BY <1>0, <1>1 DEF MayStart, LockInv
<1>4. CASE DispatchPlain(t, n)
  <2>1. PICK r \in Run, attached \in BOOLEAN : SpawnRun(t, r, n, attached)
    BY <1>4 DEF DispatchPlain
  <2>2. /\ refs' \in [Task -> Seq(Ref)]
        /\ live' \subseteq used' /\ resumed' \subseteq used' /\ used' \subseteq Run
        /\ RunInv'
        /\ \A u \in Task \ {t} : refs'[u] = refs[u] /\ Driving(u)' = Driving(u)
        /\ Driving(t)' = {} \/ Driving(t)' = {r}
        /\ \/ refs' = refs
           \/ refs'[t] = Append(refs[t], [run |-> r, node |-> n])
    BY <1>0, <1>2, <2>1, SpawnEffect
  <2>3. ReportsNameTheirRun'
    <3>1. [run |-> r, node |-> n] \in Ref
      BY DEF Ref
    <3> QED BY <1>0, <2>2, <3>1, SpawnKeepsFilings
  <2>4. UNCHANGED <<call, inFlight>>
    BY <1>4 DEF DispatchPlain, calls
  <2>5. LockInv'
    <3>1. \A c \in Call : Busy(c)' = Busy(c)
      BY <2>4 DEF Busy
    <3>2. ASSUME NEW c \in Call, NEW u \in Task, Busy(c), call[c].task = u
          PROVE  u \in inFlight /\ Created(u)' /\ Driving(u)' = Driving(u)
      BY <1>0, <1>3, <2>2, <3>2 DEF LockInv
    <3>3. \A c \in Call, u \in Task : call[c].pc = "checkout" /\ call[c].task = u
            => Driving(u)' = {}
      BY <1>0, <3>2, BusyByPc DEF LockInv
    <3> QED BY <1>0, <2>4, <3>1, <3>2, <3>3 DEF LockInv
  <2>6. RecordInv'
    BY <1>0, <2>2 DEF RecordInv
  <2> QED BY <1>0, <1>2, <2>2, <2>3, <2>4, <2>5, <2>6 DEF DrivingKept, DrivingStarted, TypeOK
<1>5. CASE \E c \in Call : DispatchIsolated(c, t, n)
  <2>1. PICK c \in Call : DispatchIsolated(c, t, n)
    BY <1>5
  <2>2. /\ call' = [call EXCEPT ![c] = [pc |-> "checkout", task |-> t, node |-> n]]
        /\ inFlight' = inFlight \cup {t}
        /\ UNCHANGED <<refs, runs>>
    BY <2>1 DEF DispatchIsolated, Claim
  <2>3. DrivingKept
    BY <2>2, NothingRuns
  <2>4. /\ call'[c] = [pc |-> "checkout", task |-> t, node |-> n]
        /\ \A d \in Call \ {c} : call'[d] = call[d]
        /\ call' \in [Call -> CallState]
    BY <1>0, <2>2 DEF TypeOK, CallState
  <2>5. RunInv' /\ ReportsNameTheirRun'
    BY <1>0, <2>2, RunInvKept, FilingsKept
  <2>6. LockInv'
    <3>1. ASSUME NEW d \in Call, NEW u \in Task, Busy(d)', call'[d].task = u
          PROVE  u \in inFlight' /\ Created(u)'
      <4>1. CASE d = c
        BY <2>2, <2>4, <3>1, <4>1
      <4>2. CASE d # c
        BY <1>0, <2>2, <2>4, <3>1, <4>2 DEF LockInv, Busy
      <4> QED BY <4>1, <4>2
    <3>2. ASSUME NEW d \in Call, NEW e \in Call, Busy(d)', Busy(e)', d # e
          PROVE  call'[d].task # call'[e].task
      <4>1. \A f \in Call \ {c} : Busy(f)' => Busy(f)
        BY <2>4 DEF Busy
      <4> QED BY <1>0, <1>3, <2>4, <3>2, <4>1 DEF LockInv
    <3>3. ASSUME NEW d \in Call, NEW u \in Task, call'[d].pc = "checkout", call'[d].task = u
          PROVE  Driving(u)' = {}
      <4>1. CASE d = c
        BY <1>2, <2>3, <2>4, <3>3, <4>1 DEF DrivingKept
      <4>2. CASE d # c
        BY <1>0, <2>3, <2>4, <3>3, <4>2 DEF LockInv, DrivingKept
      <4> QED BY <4>1, <4>2
    <3> QED BY <3>1, <3>2, <3>3 DEF LockInv
  <2>7. RecordInv'
    BY <1>0, <2>2 DEF RecordInv
  <2> QED BY <1>0, <2>2, <2>3, <2>4, <2>5, <2>6, <2>7 DEF TypeOK, runs
<1> QED BY <1>4, <1>5 DEF StartDispatch

\* The end of an await: its follow-up ran, or failed, or the call settles.
LEMMA AwaitedEffect ==
  ASSUME IInv, NEW c \in Call, Awaited(c)
  PROVE  /\ UNCHANGED <<task, filed>>
         /\ IInv'
         /\ \/ DrivingKept
            \/ \E t \in Task : Created(t) /\ DrivingStarted(t)
<1>0. TypeOK /\ LockInv /\ RunInv /\ RecordInv /\ ReportsNameTheirRun
  BY DEF IInv
<1>1. Busy(c)
  BY BusyByPc DEF Awaited, CheckoutFails, CheckoutSpawns, FollowUpFails, Compensated
<1>2. UNCHANGED <<task, filed>>
  BY DEF Awaited, CheckoutFails, CheckoutSpawns, FollowUpFails, Compensated, record
<1>3. PICK t \in Task, n \in Node : t = call[c].task /\ n = call[c].node
  BY <1>0, <1>1, CallTypes
<1>a. Created(t) /\ t \in inFlight
  BY <1>0, <1>1, <1>3 DEF LockInv
<1>4. \A u \in Task : Created(u)' = Created(u)
  BY <1>2 DEF Created
<1>5. \A d \in Call \ {c} : Busy(d) => call[d].task # t
  BY <1>0, <1>1, <1>3 DEF LockInv
\* What becomes of the call.
<1>6. \/ call' = [call EXCEPT ![c] = Idle] /\ inFlight' = inFlight \ {t}
      \/ call' = [call EXCEPT ![c].pc = "compensate"] /\ inFlight' = inFlight
  BY <1>3 DEF Awaited, CheckoutFails, CheckoutSpawns, FollowUpFails, Compensated, Settle, Release
<1>7. /\ \A d \in Call \ {c} : call'[d] = call[d]
      /\ call'[c] = Idle \/ call'[c] = [pc |-> "compensate", task |-> t, node |-> n]
      /\ call' \in [Call -> CallState] /\ inFlight' \subseteq Task
  <2>1. call[c] \in [pc : {"checkout", "compensate"}, task : Task, node : Node]
    BY <1>0, <1>1 DEF TypeOK, CallState, Busy
  <2>2. [call[c] EXCEPT !.pc = "compensate"] = [pc |-> "compensate", task |-> t, node |-> n]
    BY <1>3, <2>1
  <2>3. call \in [Call -> CallState] /\ inFlight \subseteq Task
    BY <1>0 DEF TypeOK
  <2>4. Idle \in CallState /\ [pc |-> "compensate", task |-> t, node |-> n] \in CallState
    BY <1>3, <1>a DEF CallState
  <2> QED BY <1>6, <2>2, <2>3, <2>4
\* What becomes of the runs.
<1>8. /\ refs' \in [Task -> Seq(Ref)]
      /\ live' \subseteq used' /\ resumed' \subseteq used' /\ used' \subseteq Run
      /\ RunInv' /\ ReportsNameTheirRun' /\ RecordInv'
      /\ \A u \in Task \ {t} : Driving(u)' = Driving(u)
      /\ DrivingKept \/ DrivingStarted(t)
  <2>1. CASE UNCHANGED <<refs, runs>>
    <3>1. DrivingKept
      BY <2>1, NothingRuns
    <3>2. RunInv' /\ ReportsNameTheirRun'
      BY <1>0, <1>2, <2>1, RunInvKept, FilingsKept
    <3> QED BY <1>0, <1>4, <2>1, <3>1, <3>2 DEF RecordInv, DrivingKept, TypeOK, runs
  <2>2. CASE /\ call[c].pc = "checkout"
             /\ \E r \in Run, attached \in BOOLEAN : SpawnRun(t, r, n, attached)
    <3>1. PICK r \in Run, attached \in BOOLEAN : SpawnRun(t, r, n, attached)
      BY <2>2
    <3>2. Driving(t) = {}
      BY <1>0, <1>3, <1>a, <2>2 DEF LockInv
    <3>3. /\ refs' \in [Task -> Seq(Ref)]
          /\ live' \subseteq used' /\ resumed' \subseteq used' /\ used' \subseteq Run
          /\ RunInv'
          /\ \A u \in Task \ {t} : refs'[u] = refs[u] /\ Driving(u)' = Driving(u)
          /\ Driving(t)' = {} \/ Driving(t)' = {r}
          /\ \/ refs' = refs
             \/ refs'[t] = Append(refs[t], [run |-> r, node |-> n])
      BY <1>0, <1>3, <1>a, <3>1, <3>2, SpawnEffect
    <3>4. [run |-> r, node |-> n] \in Ref
      BY <1>3, <1>a DEF Ref
    <3>5. ReportsNameTheirRun'
      BY <1>0, <1>2, <1>3, <1>a, <3>3, <3>4, SpawnKeepsFilings
    <3>6. RecordInv'
      BY <1>0, <1>3, <1>a, <1>4, <3>3 DEF RecordInv
    <3>7. DrivingKept \/ DrivingStarted(t)
      <4>1. CASE Driving(t)' = {r}
        BY <3>2, <3>3, <4>1 DEF DrivingStarted
      <4>2. CASE Driving(t)' = {}
        BY <3>2, <3>3, <4>2 DEF DrivingKept
      <4> QED BY <3>3, <4>1, <4>2
    <3> QED BY <3>3, <3>5, <3>6, <3>7
  <2>3. \/ UNCHANGED <<refs, runs>>
        \/ /\ call[c].pc = "checkout"
           /\ \E r \in Run, attached \in BOOLEAN : SpawnRun(t, r, n, attached)
    BY <1>3 DEF Awaited, CheckoutFails, CheckoutSpawns, FollowUpFails, Compensated, record
  <2> QED BY <2>1, <2>2, <2>3
<1>9. LockInv'
  <2>1. ASSUME NEW d \in Call, NEW u \in Task, Busy(d)', call'[d].task = u
        PROVE  u \in inFlight' /\ Created(u)'
    <3>1. CASE d = c
      <4>1. call'[c] = [pc |-> "compensate", task |-> t, node |-> n]
        BY <1>7, <2>1, <3>1 DEF Busy
      <4>2. inFlight' = inFlight
        BY <1>6, <4>1, <1>7 DEF Idle, TypeOK
      <4> QED BY <1>3, <1>a, <1>4, <2>1, <3>1, <4>1, <4>2
    <3>2. CASE d # c
      BY <1>0, <1>4, <1>5, <1>6, <1>7, <2>1, <3>2 DEF LockInv, Busy
    <3> QED BY <3>1, <3>2
  <2>2. ASSUME NEW d \in Call, NEW e \in Call, Busy(d)', Busy(e)', d # e
        PROVE  call'[d].task # call'[e].task
    <3>1. \A f \in Call : Busy(f)' => Busy(f) /\ call'[f].task = call[f].task
      BY <1>1, <1>3, <1>7 DEF Busy
    <3> QED BY <1>0, <2>2, <3>1 DEF LockInv
  <2>3. ASSUME NEW d \in Call, NEW u \in Task, call'[d].pc = "checkout", call'[d].task = u
        PROVE  Driving(u)' = {}
    <3>1. d # c /\ call'[d] = call[d]
      BY <1>7, <2>3 DEF Idle
    <3>2. u # t /\ Driving(u) = {}
      BY <1>0, <1>5, <2>3, <3>1, BusyByPc DEF LockInv
    <3> QED BY <1>8, <3>2
  <2> QED BY <2>1, <2>2, <2>3 DEF LockInv
<1>10. TypeOK'
  BY <1>0, <1>2, <1>7, <1>8 DEF TypeOK
<1> QED BY <1>2, <1>3, <1>a, <1>8, <1>9, <1>10 DEF IInv

\* A step that touches neither runs nor calls, and files nothing, keeps the rest.
LEMMA OnlyTasks ==
  ASSUME IInv, UNCHANGED <<refs, filed, runs, calls>>,
         task' \in [Task -> TaskRecord \cup {None}],
         \A u \in Task : Created(u) => Created(u)'
  PROVE  IInv' /\ DrivingKept
<1>0. TypeOK /\ LockInv /\ RunInv /\ RecordInv /\ ReportsNameTheirRun
  BY DEF IInv
<1>1. DrivingKept
  BY NothingRuns
<1>2. RunInv' /\ ReportsNameTheirRun'
  BY <1>0, RunInvKept, FilingsKept
<1>3. LockInv'
  BY <1>0, <1>1 DEF LockInv, DrivingKept, Busy, calls
<1>4. RecordInv' /\ TypeOK'
  BY <1>0 DEF RecordInv, TypeOK, runs, calls
<1> QED BY <1>1, <1>2, <1>3, <1>4 DEF IInv

LEMMA MovingKeepsTypes ==
  ASSUME TypeOK, NEW t \in Task, NEW n \in Node, Created(t), MovedTo(t, n)
  PROVE  /\ task' \in [Task -> TaskRecord \cup {None}]
         /\ \A u \in Task : Created(u)' = Created(u)
         /\ \A u \in Task \ {t} : task'[u] = task[u]
         /\ task'[t].stage = n
<1>1. task \in [Task -> TaskRecord \cup {None}] /\ task[t] \in TaskRecord
  BY RecordTypes DEF TypeOK
<1>2. [task[t] EXCEPT !.stage = n] \in TaskRecord /\ [task[t] EXCEPT !.stage = n].stage = n
  BY <1>1 DEF TaskRecord
<1>3. task' = [task EXCEPT ![t] = [task[t] EXCEPT !.stage = n]]
  BY DEF MovedTo
<1>4. None \notin TaskRecord
  BY LoopAssumption DEF TaskRecord
<1> QED BY <1>1, <1>2, <1>3, <1>4 DEF Created

LEMMA AcceptedIsEdge == ASSUME NEW from, NEW to, Accepts(from, to) PROVE <<from, to>> \in Edge
  BY DEF Accepts, Refusal

\* A report of the run that drives names that run, and nothing else is disturbed.
LEMMA FilingEffect ==
  ASSUME IInv, NEW t \in Task, NEW r \in Run, NEW n \in Node,
         NEW verdict \in Verdict \cup {None}, NEW outcome,
         Reporting(t, r, n), File(t, r, n, verdict), Adjudicate(t, outcome),
         UNCHANGED <<refs, runs, calls>>
  PROVE  /\ IInv' /\ DrivingKept /\ Created(t)
         /\ filed'[t].verdict = verdict
         /\ \A u \in Task \ {t} : filed'[u] = filed[u]
         /\ \/ task' = task
            \/ outcome \in Node /\ Accepts(task[t].stage, outcome) /\ MovedTo(t, outcome)
<1>0. TypeOK /\ LockInv /\ RunInv /\ RecordInv /\ ReportsNameTheirRun
  BY DEF IInv
<1>1. PICK i \in DOMAIN refs[t] : refs[t][i] = [run |-> r, node |-> n]
  BY DEF Reporting, Refs
<1>2. /\ i = Len(refs[t]) /\ Len(refs[t]) \in Nat
      /\ DOMAIN refs[t] = 1 .. Len(refs[t]) /\ refs[t] # <<>>
  BY <1>0, <1>1, RefTypes DEF Reporting, RunInv
<1>3. Created(t)
  BY <1>0, <1>2 DEF RecordInv
<1>4. \/ task' = task
      \/ outcome \in Node /\ Accepts(task[t].stage, outcome) /\ MovedTo(t, outcome)
  BY DEF Adjudicate
<1>5. /\ task' \in [Task -> TaskRecord \cup {None}]
      /\ \A u \in Task : Created(u)' = Created(u)
  <2>1. CASE task' = task
    BY <1>0, <2>1 DEF TypeOK, Created
  <2>2. CASE outcome \in Node /\ MovedTo(t, outcome)
    BY <1>0, <1>3, <2>2, MovingKeepsTypes
  <2> QED BY <1>4, <2>1, <2>2
<1>6. /\ filed'[t] = [run |-> r, node |-> n, attempt |-> Cardinality(AttemptsAt(t, n)),
                      verdict |-> verdict]
      /\ \A u \in Task \ {t} : filed'[u] = filed[u]
      /\ filed' \in [Task -> Filing \cup {None}]
  <2>1. [run |-> r, node |-> n, attempt |-> Cardinality(AttemptsAt(t, n)),
         verdict |-> verdict] \in Filing
    BY <1>0, AttemptsFinite DEF Filing
  <2> QED BY <1>0, <2>1 DEF File, Attempt, TypeOK
<1>7. ReportsNameTheirRun'
  <2> SUFFICES ASSUME NEW u \in Task, filed'[u] # None
               PROVE  \E j \in AttemptsAt(u, filed[u].node)' :
                        /\ refs'[u][j].run = filed'[u].run
                        /\ filed'[u].attempt =
                             Cardinality({k \in AttemptsAt(u, filed[u].node)' : k <= j})
    BY DEF ReportsNameTheirRun
  <2>1. CASE u = t
    <3>1. i \in AttemptsAt(t, n)
      BY <1>1 DEF AttemptsAt
    <3>2. {k \in AttemptsAt(t, n) : k <= i} = AttemptsAt(t, n)
      BY <1>2 DEF AttemptsAt
    <3>3. filed'[u].node = n /\ filed'[u].run = r
          /\ filed'[u].attempt = Cardinality(AttemptsAt(t, n))
      BY <1>6, <2>1
    <3>4. AttemptsAt(u, filed[u].node)' = AttemptsAt(t, n)
      BY <2>1, <3>3 DEF AttemptsAt
    <3>5. {k \in AttemptsAt(u, filed[u].node)' : k <= i} = AttemptsAt(t, n)
      BY <3>2, <3>4
    <3>6. refs'[u][i].run = filed'[u].run
      BY <1>1, <2>1, <3>3
    <3> QED BY <3>1, <3>3, <3>4, <3>5, <3>6
  <2>2. CASE u # t
    <3>1. filed[u] # None /\ filed[u] \in Filing /\ filed'[u] = filed[u]
      BY <1>0, <1>6, <2>2 DEF TypeOK
    <3>2. AttemptsAt(u, filed[u].node)' = AttemptsAt(u, filed[u].node)
      BY <3>1 DEF AttemptsAt
    <3> QED BY <1>0, <3>1, <3>2 DEF ReportsNameTheirRun
  <2> QED BY <2>1, <2>2
<1>8. DrivingKept /\ RunInv'
  BY <1>0, NothingRuns, RunInvKept
<1>9. LockInv'
  BY <1>0, <1>5, <1>8 DEF LockInv, DrivingKept, Busy, calls
<1>10. RecordInv' /\ TypeOK'
  BY <1>0, <1>5, <1>6 DEF RecordInv, TypeOK, runs, calls
<1> QED BY <1>3, <1>4, <1>6, <1>7, <1>8, <1>9, <1>10 DEF IInv

\* Processes may only stop driving; calls may only end, all of them.
LEMMA EndsEffect ==
  ASSUME IInv, \/ \E r \in Run : RunEnds(r) \/ ResumeByHand(r)
               \/ Crash
  PROVE  IInv' /\ UNCHANGED <<task, filed>> /\ \A t \in Task : Driving(t)' \subseteq Driving(t)
<1>0. TypeOK /\ LockInv /\ RunInv /\ RecordInv /\ ReportsNameTheirRun
  BY DEF IInv
<1>1. /\ UNCHANGED <<task, refs, filed, used>>
      /\ resumed \subseteq resumed' /\ resumed' \subseteq used'
      /\ live' \subseteq used' /\ live' \ resumed' \subseteq live \ resumed
  BY <1>0 DEF RunEnds, ResumeByHand, Crash, record, TypeOK
<1>2. \A t \in Task : RunsOf(t)' = RunsOf(t)
  BY <1>1 DEF RunsOf, Refs
<1>3. \A t \in Task : Driving(t)' \subseteq Driving(t)
  BY <1>1, <1>2 DEF Driving
<1>4. RunInv' /\ RecordInv'
  BY <1>0, <1>1, <1>2 DEF RunInv, RecordInv, Created
<1>5. ReportsNameTheirRun'
  BY <1>0, <1>1, FilingsKept
<1>6. /\ call' \in [Call -> CallState] /\ inFlight' \subseteq Task
      /\ UNCHANGED calls \/ call' = [c \in Call |-> Idle]
  BY <1>0 DEF RunEnds, ResumeByHand, Crash, TypeOK, CallState, calls
<1>7. LockInv'
  <2>1. CASE UNCHANGED calls
    <3>1. \A c \in Call : call'[c] = call[c] /\ Busy(c)' = Busy(c)
      BY <2>1 DEF calls, Busy
    <3>2. ASSUME NEW c \in Call, NEW t \in Task, call[c].pc = "checkout", call[c].task = t
          PROVE  Driving(t)' = {}
      BY <1>0, <1>3, <3>2 DEF LockInv
    <3> QED BY <1>0, <1>1, <2>1, <3>1, <3>2 DEF LockInv, Created, calls
  <2>2. CASE call' = [c \in Call |-> Idle]
    BY <2>2 DEF LockInv, Busy, Idle
  <2> QED BY <1>6, <2>1, <2>2
<1>8. TypeOK'
  BY <1>0, <1>1, <1>6 DEF TypeOK
<1> QED BY <1>1, <1>3, <1>4, <1>5, <1>7, <1>8 DEF IInv

--------------------------------------------------------------------------------
(* EVERY STEP, IN THE TERMS OF TASKBOARD *)

StageKept == \A u \in Task :
  Created(u)' = Created(u) /\ (Created(u) => task'[u].stage = task[u].stage)
StageMoved(t) ==
  /\ Created(t) /\ Created(t)'
  /\ task'[t].stage \in Node /\ <<task[t].stage, task'[t].stage>> \in Edge
  /\ \A u \in Task \ {t} : task'[u] = task[u]
StageCreated(t) ==
  /\ ~Created(t) /\ Created(t)' /\ task'[t].stage \in Node
  /\ \A u \in Task \ {t} : task'[u] = task[u]

Effect ==
  \/ StageKept /\ \A t \in Task : Driving(t)' \subseteq Driving(t)
  \/ \E t \in Task : StageCreated(t) /\ DrivingKept
  \/ \E t \in Task : /\ Created(t)
                     /\ StageKept \/ StageMoved(t)
                     /\ DrivingKept \/ DrivingStarted(t)

LEMMA TaskKept == ASSUME UNCHANGED task PROVE StageKept
  BY DEF StageKept, Created

LEMMA MovedAlongEdge ==
  ASSUME TypeOK, NEW t \in Task, NEW n \in Node, Created(t), MovedTo(t, n),
         Accepts(task[t].stage, n)
  PROVE  StageMoved(t)
  BY MovingKeepsTypes, AcceptedIsEdge DEF StageMoved

LEMMA HumanEffect == ASSUME IInv, NEW t \in Task, Human(t)
                     PROVE  IInv' /\ UNCHANGED filed /\ Effect
<1>0. TypeOK /\ None \notin TaskRecord
  BY LoopAssumption DEF IInv, TaskRecord
<1>1. ASSUME NEW n \in Node, NEW isolated \in BOOLEAN, NEW criteria \in SUBSET Criterion,
             Create(t, n, isolated, criteria)
      PROVE  IInv' /\ UNCHANGED filed /\ Effect
  <2> DEFINE new == [stage |-> n, isolated |-> isolated, criteria |-> criteria]
  <2>1. new \in TaskRecord /\ new.stage = n
    BY DEF TaskRecord
  <2>2. task' = [task EXCEPT ![t] = new] /\ ~Created(t) /\ UNCHANGED <<refs, filed, runs, calls>>
    BY <1>1 DEF Create
  <2> HIDE DEF new
  <2>3. /\ task' \in [Task -> TaskRecord \cup {None}] /\ task'[t] = new
        /\ \A u \in Task \ {t} : task'[u] = task[u]
    BY <1>0, <2>1, <2>2 DEF TypeOK
  <2>4. StageCreated(t) /\ \A u \in Task : Created(u) => Created(u)'
    BY <1>0, <2>1, <2>2, <2>3 DEF StageCreated, Created
  <2> QED BY <2>2, <2>3, <2>4, OnlyTasks DEF Effect
<1>2. ASSUME NEW criteria \in SUBSET Criterion, Amend(t, criteria)
      PROVE  IInv' /\ UNCHANGED filed /\ Effect
  <2> DEFINE new == [task[t] EXCEPT !.criteria = criteria]
  <2>1. new \in TaskRecord /\ new.stage = task[t].stage
    BY <1>0, <1>2, RecordTypes DEF TaskRecord, Amend
  <2>2. task' = [task EXCEPT ![t] = new] /\ Created(t) /\ UNCHANGED <<refs, filed, runs, calls>>
    BY <1>2 DEF Amend
  <2> HIDE DEF new
  <2>3. /\ task' \in [Task -> TaskRecord \cup {None}] /\ task'[t] = new
        /\ \A u \in Task \ {t} : task'[u] = task[u]
    BY <1>0, <2>1, <2>2 DEF TypeOK
  <2>4. StageKept /\ \A u \in Task : Created(u) => Created(u)'
    BY <1>0, <2>1, <2>2, <2>3 DEF StageKept, Created
  <2>5. IInv' /\ DrivingKept
    BY <2>2, <2>3, <2>4, OnlyTasks
  <2> QED BY <2>2, <2>4, <2>5 DEF Effect
<1>3. ASSUME NEW n \in Node, Move(t, n)
      PROVE  IInv' /\ UNCHANGED filed /\ Effect
  <2>1. /\ Created(t) /\ Accepts(task[t].stage, n) /\ MovedTo(t, n) /\ UNCHANGED filed
        /\ StartDispatch(t, n) \/ UNCHANGED <<refs, runs, calls>>
    BY <1>3 DEF Move
  <2>2. /\ task' \in [Task -> TaskRecord \cup {None}]
        /\ \A u \in Task : Created(u)' = Created(u)
    BY <1>0, <2>1, MovingKeepsTypes
  <2>3. StageMoved(t)
    BY <1>0, <2>1, MovedAlongEdge
  <2>4. CASE StartDispatch(t, n)
    <3>1. /\ refs' \in [Task -> Seq(Ref)]
          /\ live' \subseteq used' /\ resumed' \subseteq used' /\ used' \subseteq Run
          /\ call' \in [Call -> CallState] /\ inFlight' \subseteq Task
          /\ LockInv' /\ RunInv' /\ RecordInv' /\ ReportsNameTheirRun'
          /\ DrivingKept \/ DrivingStarted(t)
      BY <2>1, <2>2, <2>4, DispatchEffect
    <3>2. TypeOK'
      BY <1>0, <2>1, <2>2, <3>1 DEF TypeOK
    <3> QED BY <2>1, <2>3, <3>1, <3>2 DEF IInv, Effect
  <2>5. CASE UNCHANGED <<refs, runs, calls>>
    BY <2>1, <2>2, <2>3, <2>5, OnlyTasks DEF Effect
  <2> QED BY <2>1, <2>4, <2>5
<1>4. CASE Dispatch(t)
  <2>1. PICK n \in Node : Created(t) /\ StartDispatch(t, n) /\ UNCHANGED <<task, filed>>
    BY <1>0, <1>4, RecordTypes DEF Dispatch, TaskRecord
  <2>2. StageKept /\ \A u \in Task : Created(u) => Created(u)'
    BY <2>1, TaskKept DEF Created
  <2>3. /\ refs' \in [Task -> Seq(Ref)]
        /\ live' \subseteq used' /\ resumed' \subseteq used' /\ used' \subseteq Run
        /\ call' \in [Call -> CallState] /\ inFlight' \subseteq Task
        /\ LockInv' /\ RunInv' /\ RecordInv' /\ ReportsNameTheirRun'
        /\ DrivingKept \/ DrivingStarted(t)
    BY <2>1, <2>2, DispatchEffect
  <2>4. TypeOK'
    BY <1>0, <2>1, <2>3 DEF TypeOK
  <2> QED BY <2>1, <2>2, <2>3, <2>4 DEF IInv, Effect
<1> QED BY <1>1, <1>2, <1>3, <1>4 DEF Human

\* A report, by what it was filed with.
Filed(t, r, n, verdict, evidence) ==
  /\ Reporting(t, r, n) /\ File(t, r, n, verdict)
  /\ Adjudicate(t, Outcome(n, evidence, task[t].criteria))
  /\ UNCHANGED <<refs, runs, calls>>
  /\ evidence.kind = "report" => evidence.verdict = verdict

LEMMA ReportsFile ==
  ASSUME NEW t \in Task, Reports(t), TypeOK
  PROVE  \E r \in Run, n \in Node, verdict \in Verdict \cup {None} :
           \E evidence : Filed(t, r, n, verdict, evidence)
<1>1. PICK ref \in Refs(t) :
        \/ RecordReview(t, ref.run, ref.node)
        \/ RecordCompletion(t, ref.run, ref.node)
        \/ RecordPlan(t, ref.run, ref.node)
  BY DEF Reports
<1>2. ref.run \in Run /\ ref.node \in Node
  BY RefTypes DEF Refs, Ref
<1>3. ASSUME NEW verb, NEW verdict \in Verdict \cup {None},
             FileReport(t, ref.run, ref.node, verb, verdict)
      PROVE  \E evidence : Filed(t, ref.run, ref.node, verdict, evidence)
  <2>1. Report(verb, verdict).verdict = verdict
    BY DEF Report
  <2>2. Filed(t, ref.run, ref.node, verdict, Report(verb, verdict))
    BY <1>3, <2>1 DEF FileReport, Covered, Filed
  <2> QED BY <2>2
<1>4. CASE RecordReview(t, ref.run, ref.node)
  BY <1>2, <1>3, <1>4 DEF RecordReview
<1>5. CASE RecordCompletion(t, ref.run, ref.node)
  BY <1>2, <1>3, <1>5 DEF RecordCompletion
<1>6. CASE RecordPlan(t, ref.run, ref.node)
  <2>1. Capture({"plan"}).kind # "report"
    BY DEF Capture
  <2>2. Filed(t, ref.run, ref.node, None, Capture({"plan"}))
    BY <1>6, <2>1 DEF RecordPlan, Filed
  <2> QED BY <1>2, <2>2
<1> QED BY <1>1, <1>4, <1>5, <1>6

LEMMA ReportsEffect == ASSUME IInv, NEW t \in Task, Reports(t)
                       PROVE  IInv' /\ Effect
<1>0. TypeOK
  BY DEF IInv
<1>1. PICK r \in Run, n \in Node, verdict \in Verdict \cup {None} :
        \E evidence : Filed(t, r, n, verdict, evidence)
  BY <1>0, ReportsFile
<1>a. PICK evidence : Filed(t, r, n, verdict, evidence)
  BY <1>1
<1> DEFINE outcome == Outcome(n, evidence, task[t].criteria)
<1>2. /\ IInv' /\ DrivingKept /\ Created(t)
      /\ \/ task' = task
         \/ outcome \in Node /\ Accepts(task[t].stage, outcome) /\ MovedTo(t, outcome)
  BY <1>a, FilingEffect DEF Filed
<1> HIDE DEF outcome
<1>3. StageKept \/ StageMoved(t)
  BY <1>0, <1>2, TaskKept, MovedAlongEdge
<1> QED BY <1>2, <1>3 DEF Effect

LEMMA StepEffect == ASSUME IInv, [Next]_vars PROVE IInv' /\ Effect
<1>1. ASSUME NEW t \in Task, Human(t) \/ Reports(t) PROVE IInv' /\ Effect
  BY <1>1, HumanEffect, ReportsEffect
<1>2. ASSUME NEW c \in Call, Awaited(c) PROVE IInv' /\ Effect
  <2>1. /\ UNCHANGED task /\ IInv'
        /\ DrivingKept \/ \E t \in Task : Created(t) /\ DrivingStarted(t)
    BY <1>2, AwaitedEffect
  <2> QED BY <2>1, TaskKept DEF Effect, DrivingKept
<1>3. CASE (\E r \in Run : RunEnds(r) \/ ResumeByHand(r)) \/ Crash
  BY <1>3, EndsEffect, TaskKept DEF Effect
<1>4. CASE UNCHANGED vars
  <2>1. UNCHANGED <<task, refs, filed, runs, calls>>
    BY <1>4 DEF vars, record
  <2>2. IInv' /\ DrivingKept
    BY <2>1, OnlyTasks DEF IInv, TypeOK, Created
  <2> QED BY <2>1, <2>2, TaskKept DEF Effect, DrivingKept
<1> QED BY <1>1, <1>2, <1>3, <1>4 DEF Next

LEMMA InitIInv == Init => IInv
<1> SUFFICES ASSUME Init PROVE IInv
  OBVIOUS
<1>1. TypeOK
  BY DEF Init, TypeOK, CallState
<1>2. LockInv /\ ReportsNameTheirRun /\ RecordInv
  BY DEF Init, LockInv, ReportsNameTheirRun, RecordInv, Busy, Idle
<1>3. RunInv
  BY DEF Init, RunInv, RunsOf, Refs
<1> QED BY <1>1, <1>2, <1>3 DEF IInv

THEOREM LoopInvariant == Spec => []IInv
<1>1. IInv /\ [Next]_vars => IInv'
  BY StepEffect
<1> QED BY InitIInv, <1>1, PTL DEF Spec

\* Every record of the loop, and the call that dispatches it, keeps its shape.
THEOREM TaskTypesCorrect == Spec => []TypeOK
<1>1. IInv => TypeOK
  BY DEF IInv
<1> QED BY LoopInvariant, <1>1, PTL

\* A report names the run that filed it, whatever was moved, dispatched again or
\* resumed meanwhile: RunInv leaves only the last run of a task to report.
THEOREM ReportsAttributable == Spec => []ReportsNameTheirRun
<1>1. IInv => ReportsNameTheirRun
  BY DEF IInv
<1> QED BY LoopInvariant, <1>1, PTL

--------------------------------------------------------------------------------
(* WHAT TAKES A TASK TO DONE *)

\* Only a passed rubric routes to done.
LEMMA OutcomeDone ==
  ASSUME NEW n \in Node, NEW evidence, NEW criteria, Outcome(n, evidence, criteria) = "done"
  PROVE  evidence.kind = "report" /\ Passes(evidence.verdict, criteria)
<1> DEFINE table == Acceptance[n]
<1>1. table # None /\ Evaluate(table, evidence, criteria) = "done"
  BY DEF Outcome
<1>2. table.onFail # "done" /\ (table.onPass = "done" => table.kind = "rubric")
  BY <1>1, FinishAssumption
<1> HIDE DEF table
<1>3. \A m : RouteTo(m) = "done" => m = "done"
  BY DEF RouteTo
<1>4. table.kind = "rubric" /\ Rubric(table, evidence, criteria) = "done"
  <2>1. ReportFiled(table, evidence) = "done" => table.onPass = "done"
    BY <1>3 DEF ReportFiled
  <2>2. Artifact(table, evidence) = "done" => table.onPass = "done"
    BY <1>3 DEF Artifact
  <2> QED BY <1>1, <1>2, <2>1, <2>2 DEF Evaluate
<1>5. Answers(table, evidence) /\ Passes(evidence.verdict, criteria)
  BY <1>2, <1>4 DEF Rubric, RouteTo
<1> QED BY <1>5 DEF Answers

LEMMA ReviewedStep ==
  ASSUME IInv, [Next]_vars, NEW t \in Task, filed'[t] # filed[t], Created(t),
         task[t].stage # "done", task'[t].stage = "done"
  PROVE  Passes(filed'[t].verdict, task[t].criteria)
<1>0. TypeOK
  BY DEF IInv
<1>1. PICK u \in Task : Reports(u)
  <2>1. \A u \in Task : Human(u) => UNCHANGED filed
    BY HumanEffect
  <2>2. \A c \in Call : Awaited(c) => UNCHANGED filed
    BY AwaitedEffect
  <2>3. ((\E r \in Run : RunEnds(r) \/ ResumeByHand(r)) \/ Crash) => UNCHANGED filed
    BY EndsEffect
  <2>4. UNCHANGED vars => UNCHANGED filed
    BY DEF vars, record
  <2> QED BY <2>1, <2>2, <2>3, <2>4 DEF Next
<1>2. PICK r \in Run, n \in Node, verdict \in Verdict \cup {None} :
        \E evidence : Filed(u, r, n, verdict, evidence)
  BY <1>0, <1>1, ReportsFile
<1>3. PICK evidence : Filed(u, r, n, verdict, evidence)
  BY <1>2
<1> DEFINE outcome == Outcome(n, evidence, task[u].criteria)
<1>4. /\ filed'[u].verdict = verdict
      /\ \A w \in Task \ {u} : filed'[w] = filed[w]
      /\ (task' = task) \/ (outcome \in Node /\ MovedTo(u, outcome))
  BY <1>3, FilingEffect DEF Filed
<1> HIDE DEF outcome
<1>5. u = t
  BY <1>4
<1>6. outcome = "done"
  BY <1>0, <1>4, <1>5, MovingKeepsTypes
<1>7. evidence.kind = "report" /\ Passes(evidence.verdict, task[u].criteria)
  BY <1>6, OutcomeDone DEF outcome
<1> QED BY <1>3, <1>4, <1>5, <1>7 DEF Filed

\* A report takes a task to done only as the review that passes every criterion
\* the task then has: whatever its table, a late report or an amended task.
THEOREM ReviewedBeforeDone == Spec => DoneIsReviewed
<1>1. IInv /\ [Next]_vars => [\A t \in Task :
        (/\ filed'[t] # filed[t] /\ Created(t)
         /\ task[t].stage # "done" /\ task'[t].stage = "done")
          => Passes(filed'[t].verdict, task[t].criteria)]_vars
  BY ReviewedStep
<1> QED BY LoopInvariant, <1>1, PTL DEF Spec, DoneIsReviewed

--------------------------------------------------------------------------------
(* THE LOOP IMPLEMENTS THE BOARD *)

StageMap == [t \in Task |-> IF Created(t) THEN task[t].stage ELSE None]
DrivingMap == [t \in Task |-> (RunsOf(t) \cap live) \ resumed]

LEMMA StageMapKept == ASSUME StageKept PROVE StageMap' = StageMap
  BY DEF StageMap, StageKept

LEMMA StageMapChanged ==
  ASSUME NEW t \in Task, StageMoved(t) \/ StageCreated(t)
  PROVE  StageMap' = [StageMap EXCEPT ![t] = task'[t].stage]
<1>1. /\ Created(t)'
      /\ \A u \in Task \ {t} : task'[u] = task[u]
  BY DEF StageMoved, StageCreated
<1>2. \A u \in Task \ {t} : Created(u)' = Created(u)
  BY <1>1 DEF Created
<1> QED BY <1>1, <1>2 DEF StageMap

LEMMA DrivingMapKept == ASSUME DrivingKept PROVE DrivingMap' = DrivingMap
  BY DEF DrivingMap, DrivingKept, Driving

LEMMA DrivingMapStarted ==
  ASSUME NEW t \in Task, DrivingStarted(t)
  PROVE  \E r \in Run : DrivingMap[t] = {} /\ DrivingMap' = [DrivingMap EXCEPT ![t] = {r}]
<1>1. PICK r \in Run : Driving(t)' = {r}
  BY DEF DrivingStarted
<1> QED BY <1>1 DEF DrivingStarted, DrivingMap, Driving

LEMMA StepImplementsBoard == ASSUME TypeOK, Effect PROVE [Board!Next]_(Board!board)
<1> USE DEF StageMap, DrivingMap
<1>1. CASE StageKept /\ \A t \in Task : Driving(t)' \subseteq Driving(t)
  <2>1. StageMap' = StageMap
    BY <1>1, StageMapKept
  <2>2. \A t \in Task : DrivingMap'[t] \subseteq DrivingMap[t]
    BY <1>1 DEF Driving
  <2>3. Board!Ends
    BY <2>1, <2>2 DEF Board!Ends
  <2> QED BY <2>3 DEF Board!Next
<1>2. ASSUME NEW t \in Task, StageCreated(t), DrivingKept PROVE Board!Next
  <2>1. StageMap[t] = None
    BY <1>2 DEF StageCreated
  <2>2. Board!Create(t)
    BY <1>2, <2>1, StageMapChanged, DrivingMapKept DEF Board!Create, StageCreated
  <2> QED BY <2>2 DEF Board!Next
<1>3. ASSUME NEW t \in Task, Created(t), StageKept \/ StageMoved(t),
             DrivingKept \/ DrivingStarted(t)
      PROVE  Board!Next
  <2>1. StageMap[t] = task[t].stage /\ StageMap[t] # None
    BY <1>3, RecordTypes, WorkflowAssumption DEF TaskRecord
  <2>2. Board!Moved(t) \/ StageMap' = StageMap
    BY <1>3, <2>1, StageMapKept, StageMapChanged DEF StageMoved, Board!Moved
  <2>3. Board!Started(t) \/ DrivingMap' = DrivingMap
    BY <1>3, DrivingMapKept, DrivingMapStarted DEF Board!Started
  <2> QED BY <2>1, <2>2, <2>3 DEF Board!Next, Board!Step
<1> QED BY <1>1, <1>2, <1>3 DEF Effect

\* The loop implements the board: tasks move along edges only, and no run is
\* started beside one that the dispatcher started and that still drives.
THEOREM LoopImplementsBoard == Spec => ImplementsBoard
<1>1. Init => Board!Init
  BY DEF Init, Board!Init, Created, RunsOf, Refs
<1>2. IInv /\ [Next]_vars => [Board!Next]_(Board!board)
  BY StepEffect, StepImplementsBoard DEF IInv
<1> QED BY LoopInvariant, <1>1, <1>2, PTL DEF Spec, ImplementsBoard, Board!Spec
================================================================================
