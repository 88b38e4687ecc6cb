--------------------------- MODULE SessionHostProofs ---------------------------
(* Theorems about SessionHost.                                             *)
EXTENDS SessionHost, FiniteSetTheorems, TLAPS

\* The record operations used by the actions stay within the record types.
LEMMA RecordTypes ==
  ASSUME NEW rec \in SessionRecord
  PROVE  /\ Adopted(rec) \in SessionRecord
         /\ DriveToDormant(rec) \in SessionRecord
         /\ Recovered(rec) \in SessionRecord
         /\ GuardedLiveness(rec, "running") \in SessionRecord
         /\ GuardedLiveness(rec, "spawning") \in SessionRecord
         /\ Mirror \in SessionRecord /\ Unborn \in SessionRecord
         /\ \A a \in {"none", "gate", "completed"} :
              [rec EXCEPT !.attention = a] \in SessionRecord
  BY DEF SessionRecord, Liveness, Adopted, DriveToDormant, Recovered,
         GuardedLiveness, Mirror, Unborn

LEMMA ProcTypes ==
  ASSUME TypeOK, NEW p \in Proc
  PROVE  /\ Ended(p) \in ProcRecord
         /\ ForgetSettings(Ended(p)) \in ProcRecord
         /\ ForgetSettings([proc[p] EXCEPT !.killed = TRUE]) \in ProcRecord
         /\ [proc[p] EXCEPT !.killed = TRUE] \in ProcRecord
         /\ [proc[p] EXCEPT !.sawResult = TRUE] \in ProcRecord
  BY DEF TypeOK, ProcRecord, Ended, ForgetSettings

\* A session is started with a typed record, and every variable stays typed.
LEMMA StartTypes ==
  ASSUME TypeOK, NEW s \in Session, NEW p \in Proc, NEW rec \in SessionRecord,
         NEW minted \in BOOLEAN, NEW mode \in {"attended", "dispatched", "planning"},
         StartProcess(s, p, rec, minted, mode)
  PROVE  /\ sessions' \in [Session -> SessionRecord]
         /\ settingsFile' \subseteq Session
         /\ liveProcesses' \in [Session -> Proc \cup {None}]
         /\ proc' \in [Proc -> ProcRecord]
         /\ spawnSecrets' \in [Session -> Proc \cup {None}]
         /\ dispatchedSessions' \subseteq Session /\ planCaptureSessions' \subseteq Session
         /\ ptySessions' \subseteq Session /\ dirRefcount' \in Int
<1>1. GuardedLiveness(rec, "running") \in SessionRecord
  BY RecordTypes
<1>2. [state |-> "open", session |-> s, killed |-> FALSE, sawResult |-> FALSE,
       settingsPath |-> minted, mode |-> mode] \in ProcRecord
  BY DEF ProcRecord
<1>3. sessions' \in [Session -> SessionRecord]
  BY <1>1 DEF TypeOK, StartProcess
<1>4. proc' \in [Proc -> ProcRecord]
  BY <1>2 DEF TypeOK, StartProcess
<1>5. ptySessions' \subseteq Session /\ dirRefcount' \in Int
  BY DEF TypeOK, StartProcess, WatchSession, tail
<1> QED
  BY <1>3, <1>4, <1>5 DEF TypeOK, StartProcess, MintHookChannel

LEMMA StartThrowsTypes ==
  ASSUME TypeOK, NEW s \in Session, NEW rec \in SessionRecord,
         NEW minted \in BOOLEAN, StartProcessThrows(s, rec, minted)
  PROVE  /\ sessions' \in [Session -> SessionRecord]
         /\ settingsFile' \subseteq Session
         /\ liveProcesses' \in [Session -> Proc \cup {None}]
         /\ proc' \in [Proc -> ProcRecord]
         /\ spawnSecrets' \in [Session -> Proc \cup {None}]
         /\ dispatchedSessions' \subseteq Session /\ planCaptureSessions' \subseteq Session
         /\ ptySessions' \subseteq Session /\ dirRefcount' \in Int
  BY DEF TypeOK, StartProcessThrows, MintHookChannel, tail, markers

\* The type invariant is inductive on its own.
LEMMA TypeInductive == (Init => TypeOK) /\ (TypeOK /\ [Next]_vars => TypeOK')
<1>1. Init => TypeOK
  BY RecordTypes DEF Init, TypeOK, Unused, ProcRecord, Tool, Unborn, SessionRecord, Liveness
<1>2. TypeOK /\ [Next]_vars => TypeOK'
  <2> SUFFICES ASSUME TypeOK, [Next]_vars PROVE TypeOK'
    OBVIOUS
  <2> USE DEF durable, markers, gates, tail
  <2>1. ASSUME NEW s \in Session, SpawnSession(s) PROVE TypeOK'
    <3>1. PICK channel \in Channel, mode \in Mode, minted \in BOOLEAN :
            \/ \E p \in Proc : StartProcess(s, p, BornRecord(channel), minted, mode)
            \/ StartProcessThrows(s, BornRecord(channel), minted)
      BY <2>1 DEF SpawnSession
    <3>2. BornRecord(channel) \in SessionRecord
      BY SpawnAssumption DEF BornRecord, SessionRecord, Liveness
    <3>3. mode \in {"attended", "dispatched", "planning"}
      BY SpawnAssumption
    <3> QED BY <2>1, <3>1, <3>2, <3>3, StartTypes, StartThrowsTypes DEF SpawnSession, TypeOK
  <2>2. ASSUME NEW s \in Session, ResumeSession(s) PROVE TypeOK'
    <3> DEFINE rec == GuardedLiveness(Adopted(sessions[s]), "spawning")
    <3>1. rec \in SessionRecord
      BY RecordTypes DEF TypeOK
    <3>2. PICK minted \in BOOLEAN :
            \/ \E p \in Proc : StartProcess(s, p, rec, minted, "attended")
            \/ StartProcessThrows(s, rec, minted)
      BY <2>2 DEF ResumeSession
    <3> HIDE DEF rec
    <3> QED BY <2>2, <3>1, <3>2, StartTypes, StartThrowsTypes
            DEF ResumeSession, TypeOK, EmitAdopted
  <2>3. ASSUME NEW s \in Session, AdoptSession(s) PROVE TypeOK'
    BY <2>3, RecordTypes DEF AdoptSession, TypeOK, EmitAdopted
  <2>4. ASSUME NEW s \in Session, KillSession(s) PROVE TypeOK'
    <3>1. liveProcesses[s] \in Proc /\ sessions[s] \in SessionRecord
      BY <2>4 DEF KillSession, TypeOK
    <3> QED BY <2>4, <3>1, RecordTypes, ProcTypes
            DEF KillSession, ReleaseLiveProcess, WithoutEntry, TypeOK
  <2>5. ASSUME NEW s \in Session, ClearAttention(s) PROVE TypeOK'
    BY <2>5, RecordTypes DEF ClearAttention, TypeOK
  <2>6. ASSUME NEW s \in Session, NEW g \in Gate, AnswerGate(s, g) PROVE TypeOK'
    BY <2>6, RecordTypes DEF AnswerGate, TypeOK
  <2>7. ASSUME NEW p \in Proc, SdkResult(p) PROVE TypeOK'
    <3>1. \A s \in Session :
            [DriveToDormant(sessions[s]) EXCEPT !.attention = "completed"] \in SessionRecord
      BY RecordTypes DEF TypeOK
    <3> QED BY <2>7, <3>1, ProcTypes DEF SdkResult, TypeOK
  <2>8. ASSUME NEW p \in Proc, WindDown(p) PROVE TypeOK'
    <3>1. \A s \in Session : DriveToDormant(sessions[s]) \in SessionRecord
      BY RecordTypes DEF TypeOK
    <3> QED BY <2>8, <3>1, ProcTypes
            DEF WindDown, ReleaseLiveProcess, WithoutEntry, TypeOK
  <2>9. ASSUME NEW p \in Proc, PtyExit(p) PROVE TypeOK'
    <3>1. \A s \in Session : DriveToDormant(sessions[s]) \in SessionRecord
      BY RecordTypes DEF TypeOK
    <3>2. proc' \in [Proc -> ProcRecord]
      BY <2>9, ProcTypes DEF PtyExit, ReleaseLiveProcess, TypeOK
    <3>3. ptySessions' \subseteq Session /\ dirRefcount' \in Int
      BY <2>9 DEF PtyExit, UnwatchSession, TypeOK
    <3>4. sessions' \in [Session -> SessionRecord]
      BY <2>9, <3>1 DEF PtyExit, TypeOK
    <3> QED BY <2>9, <3>2, <3>3, <3>4
            DEF PtyExit, ReleaseLiveProcess, WithoutEntry, TypeOK
  <2>10. ASSUME NEW p \in Proc, NEW tool \in Tool, GateDenied(p, tool) PROVE TypeOK'
    BY <2>10 DEF GateDenied, TypeOK
  <2>11. ASSUME NEW p \in Proc, NEW tool \in Tool, NEW g \in Gate, GateFired(p, g, tool)
         PROVE TypeOK'
    BY <2>11, RecordTypes DEF GateFired, TypeOK
  <2>12. ASSUME NEW found \in SUBSET Session, Start(found) PROVE TypeOK'
    <3>1. Cardinality(found \cup Rehydrated) \in Int
      <4>1. IsFiniteSet(found \cup Rehydrated)
        BY SessionAssumption, FS_Subset DEF Rehydrated
      <4> QED BY <4>1, FS_CardinalityType
    <3>2. sessions' \in [Session -> SessionRecord]
      BY <2>12, RecordTypes DEF Start, TypeOK
    <3> QED BY <2>12, <3>1, <3>2 DEF Start, TypeOK, Rehydrated
  <2>13. ASSUME NEW found \in SUBSET Session, DiscoverExternalSessions(found) PROVE TypeOK'
    <3>1. Cardinality(found) \in Int
      BY SessionAssumption, FS_Subset, FS_CardinalityType
    <3>2. sessions' \in [Session -> SessionRecord]
      BY <2>13, RecordTypes DEF DiscoverExternalSessions, TypeOK
    <3> QED BY <2>13, <3>1, <3>2 DEF DiscoverExternalSessions, TypeOK
  <2>14. ASSUME Stop PROVE TypeOK'
    BY <2>14, ProcTypes DEF Stop, TypeOK
  <2>15. ASSUME DaemonExits PROVE TypeOK'
    <3>1. proc' \in [Proc -> ProcRecord]
      BY <2>15, ProcTypes DEF DaemonExits, TypeOK
    <3> QED BY <2>15, <3>1 DEF DaemonExits, TypeOK
  <2>16. CASE UNCHANGED vars
    BY <2>16 DEF vars, TypeOK
  <2> QED
    BY <2>1, <2>2, <2>3, <2>4, <2>5, <2>6, <2>7, <2>8, <2>9, <2>10, <2>11, <2>12, <2>13,
       <2>14, <2>15, <2>16
       DEF Next, Operation, Callback, Lifecycle, ResumeRefusedByPreflight, SendMessage
<1> QED BY <1>1, <1>2, PTL DEF Spec
THEOREM TypeCorrect == Spec => []TypeOK
  BY TypeInductive, PTL DEF Spec

--------------------------------------------------------------------------------
\* The registry and the processes agree: what is registered drives its session,
\* what drives a session is registered, and what was started belongs to a
\* session the log knows.
RegisteredDrives ==
  \A s \in Session : liveProcesses[s] # None =>
    proc[liveProcesses[s]].session = s /\ Driving(liveProcesses[s])
DrivingRegistered ==
  \A p \in Proc : Driving(p) => liveProcesses[proc[p].session] = p
StartedIsBorn ==
  \A p \in Proc : IF proc[p].state = "unused" THEN proc[p] = Unused
                   ELSE proc[p].session \in Session /\ Born(proc[p].session)
DownIsQuiet ==
  host = "down" => \A s \in Session : liveProcesses[s] = None
Registry == RegisteredDrives /\ DrivingRegistered /\ StartedIsBorn /\ DownIsQuiet

\* A liveness that the actions write is never "unborn".
LEMMA StaysBorn ==
  ASSUME NEW rec \in SessionRecord, rec.liveness # "unborn"
  PROVE  /\ Adopted(rec).liveness # "unborn"
         /\ DriveToDormant(rec).liveness # "unborn"
         /\ [DriveToDormant(rec) EXCEPT !.attention = "completed"].liveness # "unborn"
         /\ Recovered(rec).liveness # "unborn"
         /\ GuardedLiveness(rec, "running").liveness # "unborn"
         /\ GuardedLiveness(rec, "spawning").liveness # "unborn"
         /\ \A a \in {"none", "gate", "completed"} :
              [rec EXCEPT !.attention = a].liveness # "unborn"
  BY DEF SessionRecord, Adopted, DriveToDormant, Recovered, GuardedLiveness

LEMMA StartKeepsRegistry ==
  ASSUME TypeOK, Registry, NEW s \in Session, NEW p \in Proc,
         NEW rec \in SessionRecord, rec.liveness # "unborn",
         NEW minted \in BOOLEAN, NEW mode,
         liveProcesses[s] = None, Fresh(p), host # "down", host' = host,
         StartProcess(s, p, rec, minted, mode)
  PROVE  Registry'
<1> DEFINE new == [state |-> "open", session |-> s, killed |-> FALSE, sawResult |-> FALSE,
                   settingsPath |-> minted, mode |-> mode]
<1>1. proc' = [proc EXCEPT ![p] = new] /\ liveProcesses' = [liveProcesses EXCEPT ![s] = p]
  BY DEF StartProcess
<1>2. \A t \in Session : Born(t) \/ t = s => Born(t)'
  BY StaysBorn DEF StartProcess, Born, TypeOK
<1>3. RegisteredDrives'
  BY <1>1 DEF Registry, RegisteredDrives, Driving, Fresh, TypeOK
<1>4. DrivingRegistered'
  BY <1>1, NoneAssumption
     DEF Registry, DrivingRegistered, RegisteredDrives, StartedIsBorn, Driving, Fresh, TypeOK
<1>5. StartedIsBorn'
  BY <1>1, <1>2 DEF Registry, StartedIsBorn, TypeOK
<1> QED BY <1>3, <1>4, <1>5 DEF Registry, DownIsQuiet
LEMMA ReleaseKeepsRegistry ==
  ASSUME TypeOK, Registry, NEW p \in Proc, proc[p].state = "open",
         NEW ended \in ProcRecord, ended.session = proc[p].session,
         ended.state # "unused", ended.state = "open" => ended.killed,
         ReleaseLiveProcess(p, ended), host' = host,
         \A t \in Session : Born(t) => Born(t)'
  PROVE  Registry'
<1>1. proc' = [proc EXCEPT ![p] = ForgetSettings(ended)]
  BY DEF ReleaseLiveProcess
<1>2. /\ ForgetSettings(ended).session = proc[p].session
      /\ ForgetSettings(ended).state # "unused"
      /\ ~(ForgetSettings(ended).state = "open" /\ ~ForgetSettings(ended).killed)
  BY DEF ForgetSettings, ProcRecord
<1>3. proc[p].session \in Session
  BY DEF Registry, StartedIsBorn
<1>4. liveProcesses' = [liveProcesses EXCEPT ![proc[p].session] = IF @ = p THEN None ELSE @]
  BY DEF ReleaseLiveProcess, WithoutEntry
<1> HIDE DEF ForgetSettings
<1>5. RegisteredDrives'
  BY <1>1, <1>2, <1>3, <1>4 DEF Registry, RegisteredDrives, Driving, TypeOK
<1>6. DrivingRegistered'
  BY <1>1, <1>2, <1>3, <1>4 DEF Registry, DrivingRegistered, Driving, StartedIsBorn, TypeOK
<1>7. StartedIsBorn'
  BY <1>1, <1>2, <1>3 DEF Registry, StartedIsBorn, TypeOK
<1>8. DownIsQuiet'
  BY <1>4 DEF Registry, DownIsQuiet, TypeOK
<1> QED BY <1>5, <1>6, <1>7, <1>8 DEF Registry

\* A step that leaves the processes and the registry alone.
LEMMA QuietKeepsRegistry ==
  ASSUME Registry, UNCHANGED <<proc, liveProcesses>>, host' = host,
         \A t \in Session : Born(t) => Born(t)'
  PROVE  Registry'
  BY DEF Registry, RegisteredDrives, DrivingRegistered, StartedIsBorn, DownIsQuiet, Driving

LEMMA RegistryInductive ==
  /\ Init => Registry
  /\ TypeOK /\ Registry /\ [Next]_vars => Registry'
<1>1. Init => Registry
  BY DEF Init, Registry, RegisteredDrives, DrivingRegistered, StartedIsBorn, DownIsQuiet,
         Driving, Unused
<1>2. TypeOK /\ Registry /\ [Next]_vars => Registry'
  <2> SUFFICES ASSUME TypeOK, Registry, [Next]_vars PROVE Registry'
    OBVIOUS
  <2> USE DEF durable, markers, gates, tail
  <2>1. ASSUME NEW s \in Session, SpawnSession(s) PROVE Registry'
    <3>1. PICK channel \in Channel, mode \in Mode, minted \in BOOLEAN :
            \/ \E p \in Proc : Fresh(p) /\ StartProcess(s, p, BornRecord(channel), minted, mode)
            \/ StartProcessThrows(s, BornRecord(channel), minted)
      BY <2>1 DEF SpawnSession
    <3>2. BornRecord(channel) \in SessionRecord /\ BornRecord(channel).liveness # "unborn"
      BY SpawnAssumption DEF BornRecord, SessionRecord, Liveness
    <3>3. liveProcesses[s] = None
      BY <2>1, NoneAssumption
         DEF SpawnSession, Registry, RegisteredDrives, StartedIsBorn, Driving, TypeOK
    <3>4. host # "down" /\ host' = host
      BY <2>1 DEF SpawnSession, Serving
    <3>5. CASE StartProcessThrows(s, BornRecord(channel), minted)
      BY <3>2, <3>4, <3>5, QuietKeepsRegistry DEF StartProcessThrows, Born, TypeOK
    <3> QED BY <3>1, <3>2, <3>3, <3>4, <3>5, StartKeepsRegistry
  <2>2. ASSUME NEW s \in Session, ResumeSession(s) PROVE Registry'
    <3> DEFINE rec == GuardedLiveness(Adopted(sessions[s]), "spawning")
    <3>1. rec \in SessionRecord /\ rec.liveness # "unborn"
      BY <2>2, RecordTypes, StaysBorn DEF TypeOK, ResumeSession, Born
    <3>2. PICK minted \in BOOLEAN :
            \/ \E p \in Proc : Fresh(p) /\ StartProcess(s, p, rec, minted, "attended")
            \/ StartProcessThrows(s, rec, minted)
      BY <2>2 DEF ResumeSession
    <3> HIDE DEF rec
    <3>3. liveProcesses[s] = None /\ host # "down" /\ host' = host
      BY <2>2 DEF ResumeSession, MayResume, Serving
    <3>4. CASE StartProcessThrows(s, rec, minted)
      BY <3>1, <3>3, <3>4, QuietKeepsRegistry DEF StartProcessThrows, Born, TypeOK
    <3> QED BY <3>1, <3>2, <3>3, <3>4, StartKeepsRegistry
  <2>3. ASSUME NEW s \in Session, AdoptSession(s) PROVE Registry'
    BY <2>3, QuietKeepsRegistry, StaysBorn DEF AdoptSession, Born, TypeOK
  <2>4. ASSUME NEW s \in Session, KillSession(s) PROVE Registry'
    <3> DEFINE p == liveProcesses[s]
               ended == [proc[p] EXCEPT !.killed = TRUE]
    <3>1. p \in Proc /\ proc[p].state = "open" /\ ReleaseLiveProcess(p, ended)
      BY <2>4 DEF KillSession, Registry, RegisteredDrives, Driving, TypeOK
    <3>2. ended \in ProcRecord
      BY <3>1, ProcTypes
    <3>3. ended.session = proc[p].session /\ ended.state # "unused" /\ ended.killed
      BY <3>1 DEF ProcRecord, TypeOK
    <3>4. host' = host /\ \A t \in Session : Born(t) => Born(t)'
      BY <2>4, StaysBorn DEF KillSession, Born, TypeOK
    <3> HIDE DEF p, ended
    <3> QED BY <3>1, <3>2, <3>3, <3>4, ReleaseKeepsRegistry
  <2>5. ASSUME NEW s \in Session, ClearAttention(s) PROVE Registry'
    BY <2>5, QuietKeepsRegistry, StaysBorn DEF ClearAttention, Born, TypeOK
  <2>6. ASSUME NEW s \in Session, NEW g \in Gate, AnswerGate(s, g) PROVE Registry'
    BY <2>6, QuietKeepsRegistry, StaysBorn DEF AnswerGate, Born, TypeOK
  <2>7. ASSUME NEW p \in Proc, SdkResult(p) PROVE Registry'
    <3>1. \A q \in Proc : /\ proc'[q].session = proc[q].session
                          /\ proc'[q].state = proc[q].state
                          /\ proc'[q].killed = proc[q].killed
                          /\ proc[q].state = "unused" => proc'[q] = proc[q]
      BY <2>7 DEF SdkResult, TypeOK, ProcRecord
    <3>2. \A t \in Session : Born(t) => Born(t)'
      BY <2>7, StaysBorn DEF SdkResult, Born, TypeOK
    <3>3. UNCHANGED <<host, liveProcesses>>
      BY <2>7 DEF SdkResult
    <3>4. RegisteredDrives' /\ DrivingRegistered'
      BY <3>1, <3>3 DEF Registry, RegisteredDrives, DrivingRegistered, Driving, TypeOK
    <3> QED BY <3>1, <3>2, <3>3, <3>4 DEF Registry, StartedIsBorn, DownIsQuiet
  <2>8. ASSUME NEW p \in Proc, WindDown(p) \/ PtyExit(p) PROVE Registry'
    <3>1. proc[p].state = "open" /\ ReleaseLiveProcess(p, Ended(p))
      BY <2>8 DEF WindDown, PtyExit
    <3>2. Ended(p) \in ProcRecord
      BY ProcTypes
    <3>3. Ended(p).session = proc[p].session /\ Ended(p).state = "gone"
      BY DEF Ended, ProcRecord, TypeOK
    <3>4. host' = host /\ \A t \in Session : Born(t) => Born(t)'
      BY <2>8, StaysBorn DEF WindDown, PtyExit, Born, TypeOK
    <3> HIDE DEF Ended
    <3> QED BY <3>1, <3>2, <3>3, <3>4, ReleaseKeepsRegistry
  <2>9. ASSUME NEW p \in Proc, NEW tool \in Tool, GateDenied(p, tool) PROVE Registry'
    BY <2>9, QuietKeepsRegistry DEF GateDenied, Born
  <2>10. ASSUME NEW p \in Proc, NEW tool \in Tool, NEW g \in Gate, GateFired(p, g, tool)
         PROVE Registry'
    BY <2>10, QuietKeepsRegistry, StaysBorn DEF GateFired, Born, TypeOK
  <2>11. ASSUME NEW found \in SUBSET Session, Start(found) PROVE Registry'
    <3>1. \A t \in Session : Born(t) => Born(t)'
      BY <2>11, StaysBorn DEF Start, Born, TypeOK, Mirror
    <3> QED BY <2>11, <3>1 DEF Start, Registry, RegisteredDrives, DrivingRegistered,
                               StartedIsBorn, DownIsQuiet, Driving
  <2>12. ASSUME NEW found \in SUBSET Session, DiscoverExternalSessions(found) PROVE Registry'
    <3>1. \A t \in Session : Born(t) => Born(t)'
      BY <2>12 DEF DiscoverExternalSessions, Born, TypeOK, Mirror
    <3> QED BY <2>12, <3>1, QuietKeepsRegistry DEF DiscoverExternalSessions
  <2>13. ASSUME Stop PROVE Registry'
    <3> DEFINE live == {p \in Proc : \E s \in Session : liveProcesses[s] = p}
    <3>1. proc' = [p \in Proc |-> IF p \in live THEN [proc[p] EXCEPT !.killed = TRUE]
                                 ELSE proc[p]]
      BY <2>13 DEF Stop
    <3>2. \A q \in Proc : Driving(q) => q \in live
      BY DEF Registry, DrivingRegistered, StartedIsBorn, Driving, Unused
    <3>3. \A q \in live : Driving(q)
      BY NoneAssumption DEF Registry, RegisteredDrives
    <3> HIDE DEF live
    <3>4. \A q \in Proc : /\ proc'[q].session = proc[q].session
                          /\ proc'[q].state = proc[q].state
                          /\ ~Driving(q)'
                          /\ proc[q].state = "unused" => proc'[q] = proc[q]
      BY <3>1, <3>2, <3>3 DEF TypeOK, ProcRecord, Driving
    <3>5. liveProcesses' = [s \in Session |-> None] /\ sessions' = sessions
      BY <2>13 DEF Stop
    <3>6. StartedIsBorn'
      BY <3>4, <3>5 DEF Registry, StartedIsBorn, Born
    <3> QED BY <3>4, <3>5, <3>6
            DEF Registry, RegisteredDrives, DrivingRegistered, DownIsQuiet
  <2>14. ASSUME DaemonExits PROVE Registry'
    <3>1. \A q \in Proc : /\ proc'[q].session = proc[q].session
                          /\ ~Driving(q)'
                          /\ proc'[q].state = "unused" => proc[q].state = "unused"
                          /\ proc[q].state = "unused" => proc'[q] = proc[q]
      BY <2>14 DEF DaemonExits, TypeOK, ProcRecord, Driving, Ended
    <3> QED BY <2>14, <3>1 DEF DaemonExits, Registry, RegisteredDrives, DrivingRegistered,
                               StartedIsBorn, DownIsQuiet, Born
  <2>15. CASE UNCHANGED vars
    BY <2>15, QuietKeepsRegistry DEF vars, Born
  <2> QED
    BY <2>1, <2>2, <2>3, <2>4, <2>5, <2>6, <2>7, <2>8, <2>9, <2>10, <2>11, <2>12, <2>13,
       <2>14, <2>15
       DEF Next, Operation, Callback, Lifecycle, ResumeRefusedByPreflight, SendMessage
<1> QED BY <1>1, <1>2

\* I11 for any number of sessions and processes: no two processes drive one
\* session, however kills, late exits, resumes and restarts interleave.
THEOREM OneProcess == Spec => []OneProcessPerSession
<1>1. Registry => OneProcessPerSession
  BY DEF Registry, DrivingRegistered, OneProcessPerSession
<1> QED BY <1>1, TypeInductive, RegistryInductive, PTL DEF Spec
--------------------------------------------------------------------------------
\* The processes of the lease, seen through the refinement mapping.
DrivingSet == {p \in Proc : Driving(p)}
SpentSet == {p \in Proc : proc[p].state # "unused"}

LEMMA StartAcquires ==
  ASSUME TypeOK, Registry, NEW s \in Session, NEW p \in Proc, NEW rec,
         NEW minted \in BOOLEAN, NEW mode,
         liveProcesses[s] = None, Fresh(p), StartProcess(s, p, rec, minted, mode)
  PROVE  Lease!Acquire(s, p)
<1>1. /\ proc' = [proc EXCEPT ![p] =
           [state |-> "open", session |-> s, killed |-> FALSE, sawResult |-> FALSE,
            settingsPath |-> minted, mode |-> mode]]
      /\ liveProcesses' = [liveProcesses EXCEPT ![s] = p]
  BY DEF StartProcess
<1>2. DrivingSet' = DrivingSet \cup {p} /\ SpentSet' = SpentSet \cup {p} /\ p \notin SpentSet
  BY <1>1 DEF DrivingSet, SpentSet, Driving, Fresh, TypeOK
<1> QED BY <1>1, <1>2 DEF Lease!Acquire, DrivingSet, SpentSet

LEMMA ReleaseReleases ==
  ASSUME TypeOK, Registry, NEW p \in Proc, proc[p].state = "open",
         NEW ended \in ProcRecord, ended.state # "unused",
         ended.state = "open" => ended.killed, ReleaseLiveProcess(p, ended)
  PROVE  Lease!Release({p})
<1>1. proc' = [proc EXCEPT ![p] = ForgetSettings(ended)]
  BY DEF ReleaseLiveProcess
<1>2. /\ ForgetSettings(ended).state # "unused"
      /\ ~(ForgetSettings(ended).state = "open" /\ ~ForgetSettings(ended).killed)
  BY DEF ForgetSettings, ProcRecord
<1>3. DrivingSet' = DrivingSet \ {p} /\ SpentSet' = SpentSet
  BY <1>1, <1>2 DEF DrivingSet, SpentSet, Driving, TypeOK
<1>4. \A s \in Session : liveProcesses[s] = p => s = proc[p].session
  BY NoneAssumption DEF Registry, RegisteredDrives
<1>5. liveProcesses' = [s \in Session |-> IF liveProcesses[s] \in {p} THEN None
                                         ELSE liveProcesses[s]]
  BY <1>4 DEF ReleaseLiveProcess, WithoutEntry, TypeOK
<1> QED BY <1>3, <1>5 DEF Lease!Release, DrivingSet, SpentSet

\* Every step of the host is a step of the lease or leaves it alone.
LEMMA StepImplementsLease ==
  TypeOK /\ Registry /\ [Next]_vars => [Lease!Next]_(Lease!vars)
<1> SUFFICES ASSUME TypeOK, Registry, [Next]_vars PROVE [Lease!Next]_(Lease!vars)
  OBVIOUS
<1> USE DEF durable, markers, gates, tail
<1>1. ASSUME UNCHANGED <<proc, liveProcesses>> PROVE UNCHANGED Lease!vars
  BY <1>1 DEF Lease!vars, Driving
<1>2. ASSUME NEW s \in Session, SpawnSession(s) \/ ResumeSession(s)
      PROVE  [Lease!Next]_(Lease!vars)
  <2> DEFINE Starts(rec, mode, minted) ==
        \/ \E p \in Proc : Fresh(p) /\ StartProcess(s, p, rec, minted, mode)
        \/ StartProcessThrows(s, rec, minted)
  <2>a. SpawnSession(s) => \E channel \in Channel, mode \in Mode, minted \in BOOLEAN :
                              Starts(BornRecord(channel), mode, minted)
    BY DEF SpawnSession
  <2>b. ResumeSession(s) => \E minted \in BOOLEAN :
          Starts(GuardedLiveness(Adopted(sessions[s]), "spawning"), "attended", minted)
    BY DEF ResumeSession
  <2> HIDE DEF Starts
  <2>1. PICK rec, mode, minted : minted \in BOOLEAN /\ Starts(rec, mode, minted)
    BY <1>2, <2>a, <2>b
  <2>2. liveProcesses[s] = None
    BY <1>2, NoneAssumption DEF SpawnSession, ResumeSession, MayResume, Registry,
                                RegisteredDrives, StartedIsBorn, Driving, TypeOK
  <2>3. CASE StartProcessThrows(s, rec, minted)
    BY <2>3, <1>1 DEF StartProcessThrows
  <2> QED BY <2>1, <2>2, <2>3, StartAcquires DEF Lease!Next, Starts
<1>3. ASSUME NEW s \in Session, KillSession(s) PROVE Lease!Next
  <2> DEFINE p == liveProcesses[s]
             ended == [proc[p] EXCEPT !.killed = TRUE]
  <2>1. p \in Proc /\ proc[p].state = "open" /\ ReleaseLiveProcess(p, ended)
    BY <1>3 DEF KillSession, Registry, RegisteredDrives, Driving, TypeOK
  <2>2. ended \in ProcRecord
    BY <2>1, ProcTypes
  <2>3. ended.state # "unused" /\ ended.killed
    BY <2>1 DEF ProcRecord, TypeOK
  <2> HIDE DEF p, ended
  <2>4. Lease!Release({p})
    BY <2>1, <2>2, <2>3, ReleaseReleases
  <2> QED BY <2>1, <2>4 DEF Lease!Next
<1>4. ASSUME NEW p \in Proc, WindDown(p) \/ PtyExit(p) PROVE Lease!Next
  <2>1. proc[p].state = "open" /\ ReleaseLiveProcess(p, Ended(p))
    BY <1>4 DEF WindDown, PtyExit
  <2>2. Ended(p) \in ProcRecord
    BY ProcTypes
  <2>3. Ended(p).state = "gone"
    BY DEF Ended, ProcRecord, TypeOK
  <2>4. Lease!Release({p})
    BY <2>1, <2>2, <2>3, ReleaseReleases
  <2> QED BY <2>4 DEF Lease!Next
<1>5. ASSUME NEW p \in Proc, SdkResult(p) PROVE UNCHANGED Lease!vars
  <2>1. UNCHANGED liveProcesses
        /\ \A q \in Proc : proc'[q].state = proc[q].state /\ proc'[q].killed = proc[q].killed
    BY <1>5 DEF SdkResult, TypeOK, ProcRecord
  <2> QED BY <2>1 DEF Lease!vars, Driving
<1>6. ASSUME Stop \/ DaemonExits PROVE Lease!Next
  <2>1. liveProcesses' = [s \in Session |-> None]
    BY <1>6 DEF Stop, DaemonExits
  <2>2. TypeOK' /\ Registry'
    BY TypeInductive, RegistryInductive
  <2>3. DrivingSet' = {}
    BY <2>1, <2>2, NoneAssumption
       DEF DrivingSet, Registry, DrivingRegistered, StartedIsBorn, Driving, Unused
  <2>4. SpentSet' = SpentSet
    <3>1. Stop => \A q \in Proc : proc'[q].state = proc[q].state
      BY DEF Stop, TypeOK, ProcRecord
    <3>2. DaemonExits => \A q \in Proc :
            proc'[q].state = IF proc[q].state = "open" THEN "gone" ELSE proc[q].state
      <4>1. \A q \in Proc : Ended(q).state = "gone"
        BY DEF Ended, TypeOK, ProcRecord
      <4> QED BY <4>1 DEF DaemonExits
    <3> QED BY <1>6, <3>1, <3>2 DEF SpentSet
  <2>5. Lease!Release(Proc)
    BY <2>1, <2>3, <2>4 DEF Lease!Release, DrivingSet, SpentSet, TypeOK
  <2> QED BY <2>5 DEF Lease!Next
<1>7. ASSUME NEW s \in Session,
             \/ AdoptSession(s) \/ ClearAttention(s) \/ \E g \in Gate : AnswerGate(s, g)
      PROVE  UNCHANGED Lease!vars
  BY <1>7, <1>1 DEF AdoptSession, ClearAttention, AnswerGate
<1>8. ASSUME NEW p \in Proc, NEW tool \in Tool,
             GateDenied(p, tool) \/ \E g \in Gate : GateFired(p, g, tool)
      PROVE  UNCHANGED Lease!vars
  BY <1>8, <1>1 DEF GateDenied, GateFired
<1>9. ASSUME NEW found \in SUBSET Session, Start(found) \/ DiscoverExternalSessions(found)
      PROVE  UNCHANGED Lease!vars
  BY <1>9, <1>1 DEF Start, DiscoverExternalSessions
<1>10. CASE UNCHANGED vars
  BY <1>10, <1>1 DEF vars
<1> QED
  BY <1>2, <1>3, <1>4, <1>5, <1>6, <1>7, <1>8, <1>9, <1>10
     DEF Next, Operation, Callback, Lifecycle, ResumeRefusedByPreflight, SendMessage

\* The host implements the lease: custody is taken and let go exactly as the
\* abstract specification says, for any sessions and processes.
THEOREM HostImplementsLease == Spec => ImplementsLease
<1>1. Init => Lease!Init
  BY DEF Init, Lease!Init, Driving, Unused
<1> QED
  BY <1>1, TypeInductive, RegistryInductive, StepImplementsLease, PTL
     DEF Spec, ImplementsLease, Lease!Spec

--------------------------------------------------------------------------------
(* The promises of the host beyond the registry, each with the strengthening *)
(* that makes it inductive.                                                 *)

\* What is common to the ways a session gets a process: it had none, its record
\* is the host's, and a process the dispatcher asked for is the session's first.
LEMMA Starting ==
  ASSUME TypeOK, Registry, NEW s \in Session, SpawnSession(s) \/ ResumeSession(s)
  PROVE  /\ liveProcesses[s] = None /\ host # "down" /\ UNCHANGED <<host, gates>>
         /\ externalSessions' = externalSessions \/ externalSessions' = externalSessions \ {s}
         /\ \E rec \in SessionRecord, minted \in BOOLEAN,
               mode \in {"attended", "dispatched", "planning"} :
              /\ rec.custody = "host"
              /\ rec.liveness = "running" => sessions[s].liveness = "running"
              /\ Dispatched(mode) => \A q \in Proc : proc[q].session # s
              /\ \/ \E p \in Proc : Fresh(p) /\ StartProcess(s, p, rec, minted, mode)
                 \/ StartProcessThrows(s, rec, minted)
<1>1. CASE SpawnSession(s)
  <2>1. PICK channel \in Channel, mode \in Mode, minted \in BOOLEAN :
          \/ \E p \in Proc : Fresh(p) /\ StartProcess(s, p, BornRecord(channel), minted, mode)
          \/ StartProcessThrows(s, BornRecord(channel), minted)
    BY <1>1 DEF SpawnSession
  <2>2. /\ BornRecord(channel) \in SessionRecord /\ BornRecord(channel).custody = "host"
        /\ BornRecord(channel).liveness # "running"
        /\ mode \in {"attended", "dispatched", "planning"}
    BY SpawnAssumption DEF BornRecord, SessionRecord, Liveness
  <2>3. \A q \in Proc : proc[q].session # s
    BY <1>1, NoneAssumption DEF SpawnSession, Registry, StartedIsBorn, Unused
  <2>4. liveProcesses[s] = None
    BY <2>3 DEF Registry, RegisteredDrives, TypeOK
  <2>5. host # "down" /\ UNCHANGED <<host, gates, externalSessions>>
    BY <1>1 DEF SpawnSession, Serving
  <2> QED BY <2>1, <2>2, <2>3, <2>4, <2>5
<1>2. CASE ResumeSession(s)
  <2> DEFINE rec == GuardedLiveness(Adopted(sessions[s]), "spawning")
  <2>1. PICK minted \in BOOLEAN :
          \/ \E p \in Proc : Fresh(p) /\ StartProcess(s, p, rec, minted, "attended")
          \/ StartProcessThrows(s, rec, minted)
    BY <1>2 DEF ResumeSession
  <2>2. /\ rec \in SessionRecord /\ rec.custody = "host"
        /\ rec.liveness = "running" => sessions[s].liveness = "running"
    <3>1. Adopted(sessions[s]) \in SessionRecord
      BY RecordTypes DEF TypeOK
    <3>2. rec \in SessionRecord
      BY <3>1, RecordTypes
    <3>3. rec.custody = "host" /\ (rec.liveness = "running" => sessions[s].liveness = "running")
      BY DEF GuardedLiveness, Adopted, TypeOK, SessionRecord
    <3> QED BY <3>2, <3>3
  <2>3. ~Dispatched("attended")
    BY DEF Dispatched
  <2>4. liveProcesses[s] = None /\ host # "down" /\ UNCHANGED <<host, gates>>
    BY <1>2 DEF ResumeSession, MayResume, Serving
  <2>5. externalSessions' = externalSessions \ {s}
    BY <1>2 DEF ResumeSession, EmitAdopted
  <2> HIDE DEF rec
  <2> QED BY <2>1, <2>2, <2>3, <2>4, <2>5
<1> QED BY <1>1, <1>2

\* What the registration of a fresh process writes.
LEMMA StartWrites ==
  ASSUME TypeOK, NEW s \in Session, NEW p \in Proc, NEW rec \in SessionRecord,
         NEW minted \in BOOLEAN, NEW mode, StartProcess(s, p, rec, minted, mode)
  PROVE  /\ proc' = [proc EXCEPT ![p] =
              [state |-> "open", session |-> s, killed |-> FALSE, sawResult |-> FALSE,
               settingsPath |-> minted, mode |-> mode]]
         /\ liveProcesses' = [liveProcesses EXCEPT ![s] = p]
         /\ sessions' = [sessions EXCEPT ![s] = GuardedLiveness(rec, "running")]
  BY DEF StartProcess

--------------------------------------------------------------------------------
\* A registered process of a running session has not seen its result: the result
\* is what takes the session out of "running".
RunningDriven ==
  host = "up" => \A s \in Session : sessions[s].liveness = "running" =>
    liveProcesses[s] # None /\ ~proc[liveProcesses[s]].sawResult

\* A step that starts no run and takes no process away.
LEMMA QuietKeepsRunning ==
  ASSUME RunningDriven, host' = host, UNCHANGED <<proc, liveProcesses>>,
         \A s \in Session :
           sessions'[s].liveness = "running" => sessions[s].liveness = "running"
  PROVE  RunningDriven'
  BY DEF RunningDriven

LEMMA RunningInductive ==
  /\ Init => RunningDriven
  /\ TypeOK /\ Registry /\ RunningDriven /\ [Next]_vars => RunningDriven'
<1>1. Init => RunningDriven
  BY DEF Init, RunningDriven
<1>2. TypeOK /\ Registry /\ RunningDriven /\ [Next]_vars => RunningDriven'
  <2> SUFFICES ASSUME TypeOK, Registry, RunningDriven, [Next]_vars PROVE RunningDriven'
    OBVIOUS
  <2> USE DEF durable, markers, gates, tail
  <2>1. ASSUME NEW s \in Session, SpawnSession(s) \/ ResumeSession(s) PROVE RunningDriven'
    <3>1. PICK rec \in SessionRecord, minted \in BOOLEAN,
               mode \in {"attended", "dispatched", "planning"} :
            /\ rec.liveness = "running" => sessions[s].liveness = "running"
            /\ \/ \E p \in Proc : Fresh(p) /\ StartProcess(s, p, rec, minted, mode)
               \/ StartProcessThrows(s, rec, minted)
      BY <2>1, Starting
    <3>2. host' = host
      BY <2>1, Starting
    <3>3. CASE StartProcessThrows(s, rec, minted)
      BY <3>1, <3>2, <3>3, QuietKeepsRunning DEF StartProcessThrows, TypeOK
    <3>4. ASSUME NEW p \in Proc, Fresh(p), StartProcess(s, p, rec, minted, mode)
          PROVE  RunningDriven'
      <4>1. p # None /\ proc'[p].sawResult = FALSE /\ liveProcesses'[s] = p
        BY <3>4, StartWrites, NoneAssumption DEF TypeOK
      <4>2. \A t \in Session \ {s} :
              /\ sessions'[t] = sessions[t] /\ liveProcesses'[t] = liveProcesses[t]
              /\ liveProcesses[t] # None =>
                   proc'[liveProcesses[t]] = proc[liveProcesses[t]]
        BY <3>4, StartWrites DEF TypeOK, Fresh, Registry, RegisteredDrives, Driving
      <4> QED BY <3>2, <4>1, <4>2 DEF RunningDriven
    <3> QED BY <3>1, <3>3, <3>4
  <2>2. ASSUME NEW s \in Session,
               \/ AdoptSession(s) \/ ClearAttention(s) \/ \E g \in Gate : AnswerGate(s, g)
        PROVE  RunningDriven'
    <3>1. \A t \in Session : sessions'[t].liveness = sessions[t].liveness
      BY <2>2 DEF AdoptSession, ClearAttention, AnswerGate, Adopted, TypeOK, SessionRecord
    <3> QED BY <2>2, <3>1, QuietKeepsRunning DEF AdoptSession, ClearAttention, AnswerGate
  <2>3. ASSUME NEW s \in Session, KillSession(s) PROVE RunningDriven'
    <3> DEFINE p == liveProcesses[s]
    <3>1. p \in Proc /\ proc[p].session = s /\ ReleaseLiveProcess(p, [proc[p] EXCEPT !.killed = TRUE])
      BY <2>3 DEF KillSession, Registry, RegisteredDrives, TypeOK
    <3>2. sessions'[s].liveness # "running"
          /\ \A t \in Session \ {s} : sessions'[t] = sessions[t]
      BY <2>3 DEF KillSession, DriveToDormant, TypeOK, SessionRecord
    <3>3. \A t \in Session \ {s} :
            /\ liveProcesses'[t] = liveProcesses[t]
            /\ liveProcesses[t] # None => proc'[liveProcesses[t]] = proc[liveProcesses[t]]
      BY <3>1 DEF ReleaseLiveProcess, WithoutEntry, Registry, RegisteredDrives, TypeOK
    <3>4. host' = host
      BY <2>3 DEF KillSession
    <3> QED BY <3>2, <3>3, <3>4 DEF RunningDriven
  <2>4. ASSUME NEW p \in Proc, SdkResult(p) PROVE RunningDriven'
    <3> DEFINE s == proc[p].session
    <3>0. s \in Session
      BY <2>4 DEF SdkResult, Registry, StartedIsBorn
    <3>1. sessions'[s].liveness # "running"
          /\ \A t \in Session \ {s} : sessions'[t] = sessions[t]
      BY <2>4, <3>0 DEF SdkResult, DriveToDormant, TypeOK, SessionRecord
    <3>2. \A t \in Session \ {s} : liveProcesses[t] # None =>
            proc'[liveProcesses[t]] = proc[liveProcesses[t]]
      BY <2>4 DEF SdkResult, Registry, RegisteredDrives, TypeOK
    <3>3. UNCHANGED <<host, liveProcesses>>
      BY <2>4 DEF SdkResult
    <3> QED BY <3>0, <3>1, <3>2, <3>3 DEF RunningDriven
  <2>5. ASSUME NEW p \in Proc, WindDown(p) \/ PtyExit(p) PROVE RunningDriven'
    <3> DEFINE s == proc[p].session
    <3>0. s \in Session /\ host' = host /\ ReleaseLiveProcess(p, Ended(p))
      BY <2>5 DEF WindDown, PtyExit, Registry, StartedIsBorn
    <3>1. \A t \in Session \ {s} : sessions'[t] = sessions[t]
      BY <2>5, <3>0 DEF WindDown, PtyExit, TypeOK
    <3>2. \A t \in Session : liveProcesses[t] # p =>
            /\ liveProcesses'[t] = liveProcesses[t]
            /\ liveProcesses[t] # None => proc'[liveProcesses[t]] = proc[liveProcesses[t]]
      BY <3>0 DEF ReleaseLiveProcess, WithoutEntry, TypeOK
    <3>3. \A t \in Session : liveProcesses[t] = p => t = s
      BY NoneAssumption DEF Registry, RegisteredDrives
    <3>4. sessions'[s].liveness = "running" => sessions[s].liveness = "running"
      BY <2>5, <3>0 DEF WindDown, PtyExit, DriveToDormant, TypeOK, SessionRecord
    <3>5. host = "up" /\ liveProcesses[s] = p => sessions'[s].liveness # "running"
      <4>1. CASE WindDown(p) /\ proc[p].sawResult
        BY <3>0, <4>1, NoneAssumption, <3>4 DEF RunningDriven
      <4>2. CASE WindDown(p) /\ ~proc[p].sawResult
        BY <3>0, <4>2 DEF WindDown, LeftRunning, DriveToDormant, TypeOK, SessionRecord
      <4>3. CASE PtyExit(p)
        BY <3>0, <4>3 DEF PtyExit, DriveToDormant, TypeOK, SessionRecord
      <4> QED BY <2>5, <4>1, <4>2, <4>3
    <3> HIDE DEF s
    <3> QED BY <3>0, <3>1, <3>2, <3>3, <3>4, <3>5 DEF RunningDriven
  <2>6. ASSUME NEW p \in Proc, NEW tool \in Tool,
               GateDenied(p, tool) \/ \E g \in Gate : GateFired(p, g, tool)
        PROVE  RunningDriven'
    <3>1. \A t \in Session : sessions'[t].liveness = sessions[t].liveness
      BY <2>6 DEF GateDenied, GateFired, TypeOK, SessionRecord
    <3> QED BY <2>6, <3>1, QuietKeepsRunning DEF GateDenied, GateFired
  <2>7. ASSUME NEW found \in SUBSET Session, Start(found) PROVE RunningDriven'
    <3>1. \A t \in Session : liveProcesses[t] = None
      BY <2>7 DEF Start, Registry, DownIsQuiet
    <3>2. \A t \in Session : Recovered(sessions[t]).liveness # "running"
      BY DEF Recovered, GuardedLiveness, LivenessEdges, TypeOK, SessionRecord
    <3>3. \A t \in Session : sessions'[t].liveness # "running"
      BY <2>7, <3>1, <3>2 DEF Start, Mirror
    <3> QED BY <3>3 DEF RunningDriven
  <2>8. ASSUME NEW found \in SUBSET Session, DiscoverExternalSessions(found)
        PROVE  RunningDriven'
    BY <2>8, QuietKeepsRunning DEF DiscoverExternalSessions, Mirror
  <2>9. CASE Stop \/ DaemonExits
    BY <2>9 DEF Stop, DaemonExits, RunningDriven
  <2>10. CASE UNCHANGED vars
    BY <2>10, QuietKeepsRunning DEF vars
  <2> QED
    BY <2>1, <2>2, <2>3, <2>4, <2>5, <2>6, <2>7, <2>8, <2>9, <2>10
       DEF Next, Operation, Callback, Lifecycle, ResumeRefusedByPreflight, SendMessage
<1> QED BY <1>1, <1>2

\* While the daemon serves, the log never shows a run that nothing drives.
THEOREM RunsAreDriven == Spec => []RunningHasProcess
<1>1. RunningDriven => RunningHasProcess
  BY DEF RunningDriven, RunningHasProcess
<1> QED BY <1>1, TypeInductive, RegistryInductive, RunningInductive, PTL DEF Spec

--------------------------------------------------------------------------------
\* What a step may change of what is mirrored without disturbing the mirrors:
\* nothing becomes external or foreign, nothing external is given a process,
\* asks for attention or is forgotten.
LEMMA MirrorsUndisturbed ==
  ASSUME TypeOK, MirroredNeverDriven, host' \in {host, "stopping"}, host # "down" \/ host' = host,
         \A s \in Session : External(s)' =>
           /\ External(s)
           /\ sessions'[s].attention = sessions[s].attention
           /\ s \in externalSessions => s \in externalSessions'
           /\ \A p \in Proc : proc'[p].session \in {s} => proc[p].session = s
  PROVE  MirroredNeverDriven'
  BY DEF MirroredNeverDriven, External, Serving, TypeOK

LEMMA MirrorInductive ==
  /\ Init => MirroredNeverDriven
  /\ TypeOK /\ Registry /\ MirroredNeverDriven /\ [Next]_vars => MirroredNeverDriven'
<1>1. Init => MirroredNeverDriven
  BY DEF Init, MirroredNeverDriven, External, Unborn
<1>2. TypeOK /\ Registry /\ MirroredNeverDriven /\ [Next]_vars => MirroredNeverDriven'
  <2> SUFFICES ASSUME TypeOK, Registry, MirroredNeverDriven, [Next]_vars
               PROVE  MirroredNeverDriven'
    OBVIOUS
  <2> USE DEF durable, markers, gates, tail
  <2>1. ASSUME NEW s \in Session, SpawnSession(s) \/ ResumeSession(s)
        PROVE  MirroredNeverDriven'
    <3>1. PICK rec \in SessionRecord, minted \in BOOLEAN,
               mode \in {"attended", "dispatched", "planning"} :
            /\ rec.custody = "host"
            /\ \/ \E p \in Proc : Fresh(p) /\ StartProcess(s, p, rec, minted, mode)
               \/ StartProcessThrows(s, rec, minted)
      BY <2>1, Starting
    <3>2. \A t \in Session : t # s => sessions'[t] = sessions[t]
      BY <3>1, StartWrites DEF StartProcessThrows, TypeOK
    <3>3. ~External(s)'
      <4>1. rec.custody = "host" /\ GuardedLiveness(rec, "running").custody = "host"
        BY <3>1 DEF GuardedLiveness, SessionRecord
      <4> QED BY <3>1, <4>1, StartWrites DEF StartProcessThrows, TypeOK, External
    <3>4. \A t \in Session, q \in Proc :
            t # s /\ proc'[q].session = t => proc[q].session = t
      BY <3>1, StartWrites DEF StartProcessThrows, TypeOK
    <3>5. host' = host /\ externalSessions \ {s} \subseteq externalSessions'
      BY <2>1, Starting
    <3> QED BY <3>2, <3>3, <3>4, <3>5, MirrorsUndisturbed DEF External
  <2>2. ASSUME NEW s \in Session, AdoptSession(s) PROVE MirroredNeverDriven'
    <3>1. ~External(s)' /\ \A t \in Session : t # s => sessions'[t] = sessions[t]
      BY <2>2 DEF AdoptSession, External, Adopted, TypeOK, SessionRecord
    <3>2. UNCHANGED <<host, proc>> /\ externalSessions' = externalSessions \ {s}
      BY <2>2 DEF AdoptSession, EmitAdopted
    <3> QED BY <3>1, <3>2, MirrorsUndisturbed DEF External
  <2>3. ASSUME NEW s \in Session, KillSession(s) PROVE MirroredNeverDriven'
    <3>1. \A t \in Session : /\ sessions'[t].custody = sessions[t].custody
                             /\ sessions'[t].attention = sessions[t].attention
      BY <2>3 DEF KillSession, DriveToDormant, TypeOK, SessionRecord
    <3>2. \A q \in Proc : proc'[q].session = proc[q].session
      BY <2>3 DEF KillSession, ReleaseLiveProcess, ForgetSettings, TypeOK, ProcRecord
    <3>3. UNCHANGED <<host, externalSessions>>
      BY <2>3 DEF KillSession
    <3> QED BY <3>1, <3>2, <3>3, MirrorsUndisturbed DEF External
  <2>4. ASSUME NEW p \in Proc, SdkResult(p) \/ WindDown(p) \/ PtyExit(p)
        PROVE  MirroredNeverDriven'
    <3> DEFINE s == proc[p].session
    <3>0. s \in Session /\ ~External(s)
      BY <2>4 DEF SdkResult, WindDown, PtyExit, Registry, StartedIsBorn, MirroredNeverDriven
    <3>1. \A t \in Session : /\ sessions'[t].custody = sessions[t].custody
                             /\ t # s => sessions'[t] = sessions[t]
      <4>1. CASE SdkResult(p)
        BY <4>1, <3>0 DEF SdkResult, DriveToDormant, TypeOK, SessionRecord
      <4>2. CASE WindDown(p) \/ PtyExit(p)
        BY <4>2, <3>0 DEF WindDown, PtyExit, DriveToDormant, TypeOK, SessionRecord
      <4> QED BY <2>4, <4>1, <4>2
    <3>2. \A q \in Proc : proc'[q].session = proc[q].session
      <4>1. CASE SdkResult(p)
        BY <4>1 DEF SdkResult, TypeOK, ProcRecord
      <4>2. CASE WindDown(p) \/ PtyExit(p)
        <5>1. ForgetSettings(Ended(p)).session = proc[p].session
          BY DEF ForgetSettings, Ended, TypeOK, ProcRecord
        <5> QED BY <4>2, <5>1 DEF WindDown, PtyExit, ReleaseLiveProcess, TypeOK
      <4> QED BY <2>4, <4>1, <4>2
    <3>3. UNCHANGED <<host, externalSessions>>
      BY <2>4 DEF SdkResult, WindDown, PtyExit
    <3> HIDE DEF s
    <3> QED BY <3>0, <3>1, <3>2, <3>3, MirrorsUndisturbed DEF External
  <2>5. ASSUME NEW s \in Session, NEW g \in Gate, AnswerGate(s, g) PROVE MirroredNeverDriven'
    <3>1. \A t \in Session : /\ sessions'[t].custody = sessions[t].custody
                             /\ External(t) => sessions'[t] = sessions[t]
      BY <2>5 DEF AnswerGate, TypeOK, SessionRecord, External
    <3> QED BY <2>5, <3>1, MirrorsUndisturbed DEF AnswerGate, External
  <2>6. ASSUME NEW s \in Session, ClearAttention(s) PROVE MirroredNeverDriven'
    <3>1. \A t \in Session : /\ sessions'[t].custody = sessions[t].custody
                             /\ External(t) => sessions'[t].attention = sessions[t].attention
      BY <2>6 DEF ClearAttention, TypeOK, SessionRecord, MirroredNeverDriven, External
    <3> QED BY <2>6, <3>1, MirrorsUndisturbed DEF ClearAttention, External
  <2>7. ASSUME NEW p \in Proc, NEW tool \in Tool, NEW g \in Gate, GateFired(p, g, tool)
        PROVE  MirroredNeverDriven'
    <3>1. proc[p].session \in Session /\ ~External(proc[p].session)
      BY <2>7 DEF GateFired, Asking, Registry, StartedIsBorn, MirroredNeverDriven
    <3>2. \A t \in Session : /\ sessions'[t].custody = sessions[t].custody
                             /\ t # proc[p].session => sessions'[t] = sessions[t]
      BY <2>7, <3>1 DEF GateFired, TypeOK, SessionRecord
    <3> QED BY <2>7, <3>1, <3>2, MirrorsUndisturbed DEF GateFired, External
  <2>8. ASSUME NEW p \in Proc, NEW tool \in Tool, GateDenied(p, tool)
        PROVE  MirroredNeverDriven'
    BY <2>8, MirrorsUndisturbed DEF GateDenied, External
  <2>9. ASSUME NEW found \in SUBSET Session, Start(found) \/ DiscoverExternalSessions(found)
        PROVE  MirroredNeverDriven'
    <3>1. \A t \in found : sessions'[t].attention = "none" /\ t \in externalSessions'
      BY <2>9 DEF Start, DiscoverExternalSessions, Mirror
    <3>2. \A t \in found, q \in Proc : proc[q].session # t
      BY <2>9, NoneAssumption
         DEF Start, DiscoverExternalSessions, Registry, StartedIsBorn, Unused
    <3>3. \A t \in Session \ found :
            /\ sessions'[t].custody = sessions[t].custody
            /\ sessions'[t].attention = sessions[t].attention
      <4>1. \A t \in Session : /\ Recovered(sessions[t]).custody = sessions[t].custody
                               /\ Recovered(sessions[t]).attention = sessions[t].attention
        BY DEF Recovered, GuardedLiveness, TypeOK, SessionRecord
      <4> QED BY <2>9, <4>1 DEF Start, DiscoverExternalSessions
    <3>4. \A t \in Session : External(t) => t \in externalSessions'
      BY <2>9 DEF Start, DiscoverExternalSessions, Rehydrated, MirroredNeverDriven
    <3>5. proc' = proc
      BY <2>9 DEF Start, DiscoverExternalSessions
    <3> QED BY <3>1, <3>2, <3>3, <3>4, <3>5 DEF MirroredNeverDriven, External
  <2>10. CASE Stop
    <3>1. \A q \in Proc : proc'[q].session = proc[q].session
      BY <2>10 DEF Stop, TypeOK, ProcRecord
    <3> QED BY <2>10, <3>1, MirrorsUndisturbed DEF Stop, External
  <2>11. CASE DaemonExits
    <3>1. \A q \in Proc : proc'[q].session = proc[q].session
      BY <2>11 DEF DaemonExits, Ended, TypeOK, ProcRecord
    <3> QED BY <2>11, <3>1 DEF DaemonExits, MirroredNeverDriven, External, Serving
  <2>12. CASE UNCHANGED vars
    BY <2>12 DEF vars, MirroredNeverDriven, External, Serving
  <2> QED
    BY <2>1, <2>2, <2>3, <2>4, <2>5, <2>6, <2>7, <2>8, <2>9, <2>10, <2>11, <2>12
       DEF Next, Operation, Callback, Lifecycle, ResumeRefusedByPreflight, SendMessage
<1> QED BY <1>1, <1>2

\* D10: a mirrored session is driven by no process of the host's and never was,
\* asks for no attention, and is known to the serving host.
THEOREM MirrorsAreLeftAlone == Spec => []MirroredNeverDriven
  BY TypeInductive, RegistryInductive, MirrorInductive, PTL DEF Spec

--------------------------------------------------------------------------------
\* Only an open process names a settings file and, unless the daemon is stopping,
\* only one that drives its session: whoever is let go forgets its file first, so a
\* late exit cannot remove the file of its successor.
SettingsHeld ==
  /\ \A p \in Proc : proc[p].settingsPath => proc[p].state = "open"
  /\ host # "stopping" => \A p \in Proc : proc[p].settingsPath => Driving(p)
  /\ HookChannelStaysWhole

\* A step that leaves the hook channels and the registered processes alone.
LEMMA QuietKeepsSettings ==
  ASSUME SettingsHeld, UNCHANGED <<proc, liveProcesses, settingsFile, spawnSecrets>>,
         host' = host \/ (host = "down" /\ \A s \in Session : liveProcesses[s] = None)
  PROVE  SettingsHeld'
  BY DEF SettingsHeld, HookChannelStaysWhole, Driving

\* Releasing a process that is let go for good.
LEMMA ReleaseKeepsSettings ==
  ASSUME TypeOK, Registry, SettingsHeld, NEW p \in Proc, NEW ended \in ProcRecord,
         proc[p].state = "open", host' = host, UNCHANGED spawnSecrets,
         ReleaseLiveProcess(p, ended)
  PROVE  SettingsHeld'
<1>1. proc' = [proc EXCEPT ![p] = ForgetSettings(ended)] /\ ~ForgetSettings(ended).settingsPath
  BY DEF ReleaseLiveProcess, ForgetSettings, ProcRecord
<1>2. /\ \A q \in Proc : proc'[q].settingsPath => proc'[q].state = "open"
      /\ host # "stopping" => \A q \in Proc : proc'[q].settingsPath => Driving(q)'
  BY <1>1 DEF SettingsHeld, Driving, TypeOK
<1>3. ASSUME host = "up", NEW t \in Session, liveProcesses'[t] # None,
             proc'[liveProcesses'[t]].settingsPath
      PROVE  t \in settingsFile' /\ spawnSecrets'[t] = liveProcesses'[t]
  <2>1. liveProcesses'[t] = liveProcesses[t] /\ liveProcesses[t] \in Proc
    BY <1>3 DEF ReleaseLiveProcess, WithoutEntry, TypeOK
  <2>2. liveProcesses[t] # p /\ proc[liveProcesses[t]].settingsPath
    BY <1>1, <1>3, <2>1 DEF TypeOK
  <2>3. t \in settingsFile /\ spawnSecrets[t] = liveProcesses[t]
    BY <1>3, <2>1, <2>2 DEF SettingsHeld, HookChannelStaysWhole
  <2>4. proc[p].settingsPath => proc[p].session # t
    BY <1>3, <2>1, <2>2 DEF SettingsHeld, Registry, DrivingRegistered
  <2> QED BY <2>1, <2>3, <2>4 DEF ReleaseLiveProcess
<1> QED BY <1>2, <1>3 DEF SettingsHeld, HookChannelStaysWhole

LEMMA SettingsInductive ==
  /\ Init => SettingsHeld
  /\ TypeOK /\ Registry /\ SettingsHeld /\ [Next]_vars => SettingsHeld'
<1>1. Init => SettingsHeld
  BY DEF Init, SettingsHeld, HookChannelStaysWhole, Unused
<1>2. TypeOK /\ Registry /\ SettingsHeld /\ [Next]_vars => SettingsHeld'
  <2> SUFFICES ASSUME TypeOK, Registry, SettingsHeld, [Next]_vars PROVE SettingsHeld'
    OBVIOUS
  <2> USE DEF durable, markers, gates, tail
  <2>1. ASSUME NEW s \in Session, SpawnSession(s) \/ ResumeSession(s) PROVE SettingsHeld'
    <3>1. PICK rec \in SessionRecord, minted \in BOOLEAN,
               mode \in {"attended", "dispatched", "planning"} :
            \/ \E p \in Proc : Fresh(p) /\ StartProcess(s, p, rec, minted, mode)
            \/ StartProcessThrows(s, rec, minted)
      BY <2>1, Starting
    <3>2. host' = host /\ liveProcesses[s] = None
      BY <2>1, Starting
    <3>3. \A t \in Session : /\ t \in settingsFile => t \in settingsFile'
                             /\ t # s => spawnSecrets'[t] = spawnSecrets[t]
      BY <3>1 DEF StartProcess, StartProcessThrows, MintHookChannel, TypeOK
    <3>4. CASE StartProcessThrows(s, rec, minted)
      BY <3>2, <3>3, <3>4 DEF StartProcessThrows, SettingsHeld, HookChannelStaysWhole, Driving
    <3>5. ASSUME NEW p \in Proc, Fresh(p), StartProcess(s, p, rec, minted, mode)
          PROVE  SettingsHeld'
      <4>1. /\ Driving(p)' /\ liveProcesses'[s] = p /\ proc'[p].settingsPath = minted
            /\ \A q \in Proc \ {p} : proc'[q] = proc[q]
        BY <3>5, StartWrites DEF Driving, TypeOK
      <4>2. minted => s \in settingsFile' /\ spawnSecrets'[s] = p
        BY <3>5 DEF StartProcess, MintHookChannel, TypeOK
      <4>3. \A t \in Session \ {s} : /\ liveProcesses'[t] = liveProcesses[t]
                                     /\ liveProcesses[t] # p
        BY <3>5, StartWrites, NoneAssumption
           DEF TypeOK, Fresh, Registry, RegisteredDrives, Driving
      <4>4. /\ \A q \in Proc : proc'[q].settingsPath => proc'[q].state = "open"
            /\ host # "stopping" => \A q \in Proc : proc'[q].settingsPath => Driving(q)'
        BY <4>1 DEF SettingsHeld, Driving
      <4>5. HookChannelStaysWhole'
        BY <3>2, <3>3, <4>1, <4>2, <4>3 DEF SettingsHeld, HookChannelStaysWhole, TypeOK
      <4> QED BY <3>2, <4>4, <4>5 DEF SettingsHeld
    <3> QED BY <3>1, <3>4, <3>5
  <2>2. ASSUME NEW s \in Session,
               \/ AdoptSession(s) \/ ClearAttention(s) \/ \E g \in Gate : AnswerGate(s, g)
        PROVE  SettingsHeld'
    BY <2>2, QuietKeepsSettings DEF AdoptSession, ClearAttention, AnswerGate
  <2>3. ASSUME NEW s \in Session, KillSession(s) PROVE SettingsHeld'
    <3> DEFINE p == liveProcesses[s]
               ended == [proc[p] EXCEPT !.killed = TRUE]
    <3>1. p \in Proc /\ proc[p].state = "open" /\ ReleaseLiveProcess(p, ended)
      BY <2>3 DEF KillSession, Registry, RegisteredDrives, Driving, TypeOK
    <3>2. ended \in ProcRecord
      BY <3>1, ProcTypes
    <3>3. host' = host /\ UNCHANGED spawnSecrets
      BY <2>3 DEF KillSession
    <3> HIDE DEF p, ended
    <3> QED BY <3>1, <3>2, <3>3, ReleaseKeepsSettings
  <2>4. ASSUME NEW p \in Proc, WindDown(p) \/ PtyExit(p) PROVE SettingsHeld'
    <3>1. /\ proc[p].state = "open" /\ ReleaseLiveProcess(p, Ended(p))
          /\ host' = host /\ UNCHANGED spawnSecrets
      BY <2>4 DEF WindDown, PtyExit
    <3>2. Ended(p) \in ProcRecord
      BY ProcTypes
    <3> HIDE DEF Ended
    <3> QED BY <3>1, <3>2, ReleaseKeepsSettings
  <2>5. ASSUME NEW p \in Proc, SdkResult(p) PROVE SettingsHeld'
    <3>1. \A q \in Proc : /\ Driving(q)' <=> Driving(q)
                          /\ proc'[q].state = proc[q].state
                          /\ proc'[q].settingsPath = proc[q].settingsPath
      BY <2>5 DEF SdkResult, Driving, TypeOK, ProcRecord
    <3>2. UNCHANGED <<host, liveProcesses, settingsFile, spawnSecrets>>
      BY <2>5 DEF SdkResult
    <3> QED BY <3>1, <3>2 DEF SettingsHeld, HookChannelStaysWhole, TypeOK
  <2>6. ASSUME NEW p \in Proc, NEW tool \in Tool,
               GateDenied(p, tool) \/ \E g \in Gate : GateFired(p, g, tool)
        PROVE  SettingsHeld'
    BY <2>6, QuietKeepsSettings DEF GateDenied, GateFired
  <2>7. ASSUME NEW found \in SUBSET Session, Start(found) \/ DiscoverExternalSessions(found)
        PROVE  SettingsHeld'
    BY <2>7, QuietKeepsSettings DEF Start, DiscoverExternalSessions, Registry, DownIsQuiet
  <2>8. CASE Stop
    <3>1. \A q \in Proc : /\ proc'[q].state = proc[q].state
                          /\ proc'[q].settingsPath = proc[q].settingsPath
      BY <2>8 DEF Stop, TypeOK, ProcRecord
    <3> QED BY <2>8, <3>1 DEF Stop, SettingsHeld, HookChannelStaysWhole
  <2>9. CASE DaemonExits
    <3>1. \A q \in Proc : proc'[q].settingsPath => proc[q].settingsPath /\ proc[q].state # "open"
      BY <2>9 DEF DaemonExits, Ended, TypeOK, ProcRecord
    <3>2. host' = "down" /\ \A q \in Proc : ~proc'[q].settingsPath
      BY <2>9, <3>1 DEF DaemonExits, SettingsHeld
    <3> QED BY <3>2 DEF SettingsHeld, HookChannelStaysWhole
  <2>10. CASE UNCHANGED vars
    BY <2>10, QuietKeepsSettings DEF vars
  <2> QED
    BY <2>1, <2>2, <2>3, <2>4, <2>5, <2>6, <2>7, <2>8, <2>9, <2>10
       DEF Next, Operation, Callback, Lifecycle, ResumeRefusedByPreflight, SendMessage
<1> QED BY <1>1, <1>2

\* The hook channel of a registered process is whole, whatever a killed
\* predecessor still releases.
THEOREM HookChannelsAreWhole == Spec => []HookChannelStaysWhole
<1>1. SettingsHeld => HookChannelStaysWhole
  BY DEF SettingsHeld
<1> QED BY <1>1, TypeInductive, RegistryInductive, SettingsInductive, PTL DEF Spec

--------------------------------------------------------------------------------
\* A driving process the dispatcher asked for is the only one its session ever
\* had, and the session still carries its markers.  No predecessor can therefore
\* wind down late and take the markers away from under it.
MarkedAlone ==
  \A p \in Proc : Driving(p) /\ Dispatched(proc[p].mode) =>
    /\ proc[p].session \in dispatchedSessions
    /\ PlanCapture(proc[p].mode) => proc[p].session \in planCaptureSessions
    /\ \A q \in Proc : proc[q].session = proc[p].session => q = p
AskedWereStarted ==
  \A g \in Gate : gate[g].proc # None => proc[gate[g].proc].state # "unused"
Unattended == MarkedAlone /\ AskedWereStarted /\ UnattendedNeverAsked

\* A step that raises no request, starts nothing and takes no marker away.
LEMMA QuietKeepsUnattended ==
  ASSUME TypeOK, Unattended, UNCHANGED gate,
         \A q \in Proc :
           /\ proc'[q].session = proc[q].session /\ proc'[q].mode = proc[q].mode
           /\ proc[q].state # "unused" => proc'[q].state # "unused"
           /\ Driving(q)' => /\ Driving(q)
                             /\ proc[q].session \in dispatchedSessions =>
                                  proc[q].session \in dispatchedSessions'
                             /\ proc[q].session \in planCaptureSessions =>
                                  proc[q].session \in planCaptureSessions'
  PROVE  Unattended'
<1>1. MarkedAlone'
  BY DEF Unattended, MarkedAlone
<1>2. \A g \in Gate : gate[g].proc # None => gate[g].proc \in Proc
  BY DEF TypeOK
<1> QED BY <1>1, <1>2 DEF Unattended, AskedWereStarted, UnattendedNeverAsked

LEMMA UnattendedInductive ==
  /\ Init => Unattended
  /\ TypeOK /\ Registry /\ Unattended /\ [Next]_vars => Unattended'
<1>1. Init => Unattended
  BY DEF Init, Unattended, MarkedAlone, AskedWereStarted, UnattendedNeverAsked, Driving, Unused
<1>2. TypeOK /\ Registry /\ Unattended /\ [Next]_vars => Unattended'
  <2> SUFFICES ASSUME TypeOK, Registry, Unattended, [Next]_vars PROVE Unattended'
    OBVIOUS
  <2> USE DEF durable, markers, gates, tail
  <2>1. ASSUME NEW s \in Session, SpawnSession(s) \/ ResumeSession(s) PROVE Unattended'
    <3>1. PICK rec \in SessionRecord, minted \in BOOLEAN,
               mode \in {"attended", "dispatched", "planning"} :
            /\ Dispatched(mode) => \A q \in Proc : proc[q].session # s
            /\ \/ \E p \in Proc : Fresh(p) /\ StartProcess(s, p, rec, minted, mode)
               \/ StartProcessThrows(s, rec, minted)
      BY <2>1, Starting
    <3>2. gate' = gate /\ liveProcesses[s] = None
      BY <2>1, Starting
    <3>3. CASE StartProcessThrows(s, rec, minted)
      BY <3>2, <3>3, QuietKeepsUnattended DEF StartProcessThrows, Driving
    <3>4. ASSUME NEW p \in Proc, Fresh(p), StartProcess(s, p, rec, minted, mode)
          PROVE  Unattended'
      <4>1. /\ proc'[p].session = s /\ proc'[p].mode = mode /\ proc'[p].state = "open"
            /\ \A q \in Proc \ {p} : proc'[q] = proc[q]
        BY <3>4, StartWrites DEF TypeOK
      <4>2. /\ dispatchedSessions \subseteq dispatchedSessions'
            /\ planCaptureSessions \subseteq planCaptureSessions'
            /\ Dispatched(mode) => s \in dispatchedSessions'
            /\ PlanCapture(mode) => s \in planCaptureSessions'
        BY <3>4 DEF StartProcess
      <4>3. \A q \in Proc : Driving(q) => proc[q].session # s
        BY <3>2, NoneAssumption DEF Registry, DrivingRegistered
      <4>4. MarkedAlone'
        BY <3>1, <4>1, <4>2, <4>3 DEF Unattended, MarkedAlone, Driving
      <4>5. \A g \in Gate : gate[g].proc # None =>
              gate[g].proc \in Proc /\ gate[g].proc # p
        BY <3>4 DEF Unattended, AskedWereStarted, Fresh, TypeOK
      <4> QED BY <3>2, <4>1, <4>4, <4>5 DEF Unattended, AskedWereStarted, UnattendedNeverAsked
    <3> QED BY <3>1, <3>3, <3>4
  <2>2. ASSUME NEW s \in Session,
               \/ AdoptSession(s) \/ ClearAttention(s) \/ \E g \in Gate : AnswerGate(s, g)
        PROVE  Unattended'
    BY <2>2, QuietKeepsUnattended DEF AdoptSession, ClearAttention, AnswerGate, Driving
  <2>3. ASSUME NEW s \in Session, KillSession(s) PROVE Unattended'
    <3>1. \A q \in Proc :
            /\ proc'[q].session = proc[q].session /\ proc'[q].mode = proc[q].mode
            /\ proc'[q].state = proc[q].state
            /\ Driving(q)' => Driving(q)
      BY <2>3 DEF KillSession, ReleaseLiveProcess, ForgetSettings, Driving, TypeOK, ProcRecord
    <3> QED BY <2>3, <3>1, QuietKeepsUnattended DEF KillSession
  <2>4. ASSUME NEW p \in Proc, SdkResult(p) PROVE Unattended'
    <3>1. \A q \in Proc :
            /\ proc'[q].session = proc[q].session /\ proc'[q].mode = proc[q].mode
            /\ proc'[q].state = proc[q].state
            /\ Driving(q)' => Driving(q)
      BY <2>4 DEF SdkResult, Driving, TypeOK, ProcRecord
    <3> QED BY <2>4, <3>1, QuietKeepsUnattended DEF SdkResult
  <2>5. ASSUME NEW p \in Proc, WindDown(p) \/ PtyExit(p) PROVE Unattended'
    <3>1. /\ ForgetSettings(Ended(p)).session = proc[p].session
          /\ ForgetSettings(Ended(p)).mode = proc[p].mode
          /\ ForgetSettings(Ended(p)).state = "gone"
      BY DEF ForgetSettings, Ended, TypeOK, ProcRecord
    <3>2. proc' = [proc EXCEPT ![p] = ForgetSettings(Ended(p))] /\ gate' = gate
      BY <2>5 DEF WindDown, PtyExit, ReleaseLiveProcess
    <3> HIDE DEF ForgetSettings, Ended
    <3>3. \A q \in Proc :
            /\ proc'[q].session = proc[q].session /\ proc'[q].mode = proc[q].mode
            /\ proc[q].state # "unused" => proc'[q].state # "unused"
            /\ Driving(q)' => Driving(q) /\ q # p
      BY <3>1, <3>2 DEF Driving, TypeOK
    <3>4. /\ dispatchedSessions \ {proc[p].session} \subseteq dispatchedSessions'
          /\ planCaptureSessions \ {proc[p].session} \subseteq planCaptureSessions'
      BY <2>5 DEF WindDown, PtyExit
    <3>5. MarkedAlone'
      BY <3>3, <3>4 DEF Unattended, MarkedAlone
    <3>6. \A g \in Gate : gate[g].proc # None => gate[g].proc \in Proc
      BY DEF TypeOK
    <3> QED BY <3>2, <3>3, <3>5, <3>6 DEF Unattended, AskedWereStarted, UnattendedNeverAsked
  <2>6. ASSUME NEW p \in Proc, NEW tool \in Tool, GateDenied(p, tool) PROVE Unattended'
    BY <2>6, QuietKeepsUnattended DEF GateDenied, Driving
  <2>7. ASSUME NEW p \in Proc, NEW tool \in Tool, NEW g \in Gate, GateFired(p, g, tool)
        PROVE  Unattended'
    <3>1. Driving(p) /\ ~DeniedUnattended(proc[p].session, tool)
      BY <2>7 DEF GateFired, Asking, Driving
    <3>2. /\ Dispatched(proc[p].mode) => tool # "AskUserQuestion"
          /\ PlanCapture(proc[p].mode) => tool # "ExitPlanMode"
      BY <3>1 DEF Unattended, MarkedAlone, DeniedUnattended, Dispatched, PlanCapture
    <3>3. /\ gate'[g] = [proc |-> p, tool |-> tool]
          /\ \A h \in Gate \ {g} : gate'[h] = gate[h]
          /\ UNCHANGED <<proc, markers>>
      BY <2>7 DEF GateFired, TypeOK
    <3>4. MarkedAlone'
      BY <3>3 DEF Unattended, MarkedAlone, Driving
    <3> QED BY <3>1, <3>2, <3>3, <3>4
            DEF Unattended, AskedWereStarted, UnattendedNeverAsked, Driving
  <2>8. ASSUME NEW found \in SUBSET Session, Start(found) \/ DiscoverExternalSessions(found)
        PROVE  Unattended'
    BY <2>8, QuietKeepsUnattended DEF Start, DiscoverExternalSessions, Driving
  <2>9. CASE Stop \/ DaemonExits
    <3>1. \A q \in Proc :
            /\ proc'[q].session = proc[q].session /\ proc'[q].mode = proc[q].mode
            /\ proc[q].state # "unused" => proc'[q].state # "unused"
      <4>1. CASE Stop
        BY <4>1 DEF Stop, TypeOK, ProcRecord
      <4>2. CASE DaemonExits
        BY <4>2 DEF DaemonExits, Ended, TypeOK, ProcRecord
      <4> QED BY <2>9, <4>1, <4>2
    <3>2. \A q \in Proc : ~Driving(q)'
      <4>1. liveProcesses' = [s \in Session |-> None] /\ gate' = gate
        BY <2>9 DEF Stop, DaemonExits
      <4>2. TypeOK' /\ Registry'
        BY TypeInductive, RegistryInductive
      <4> QED BY <4>1, <4>2, NoneAssumption
              DEF Registry, DrivingRegistered, StartedIsBorn, Driving, Unused
    <3>3. gate' = gate
      BY <2>9 DEF Stop, DaemonExits
    <3> QED BY <3>1, <3>2, <3>3, QuietKeepsUnattended
  <2>10. CASE UNCHANGED vars
    BY <2>10, QuietKeepsUnattended DEF vars, Driving
  <2> QED
    BY <2>1, <2>2, <2>3, <2>4, <2>5, <2>6, <2>7, <2>8, <2>9, <2>10
       DEF Next, Operation, Callback, Lifecycle, ResumeRefusedByPreflight, SendMessage
<1> QED BY <1>1, <1>2

\* D50/D48: an unattended process never waits for a human's answer, and one that
\* captures its plan never waits for the plan's approval.
THEOREM UnattendedRunsNeverWait == Spec => []UnattendedNeverAsked
<1>1. Unattended => UnattendedNeverAsked
  BY DEF Unattended
<1> QED BY <1>1, TypeInductive, RegistryInductive, UnattendedInductive, PTL DEF Spec

--------------------------------------------------------------------------------
\* The sizes of sets of sessions, as far as the tailer's count depends on them.
LEMMA SessionSizes ==
  ASSUME NEW A \in SUBSET Session
  PROVE  /\ Cardinality(A) \in Nat
         /\ \A x : /\ Cardinality(A \cup {x}) <= Cardinality(A) + 1
                   /\ Cardinality(A \ {x}) \in Nat
                   /\ Cardinality(A \ {x}) <= Cardinality(A)
                   /\ x \in A => Cardinality(A \ {x}) = Cardinality(A) - 1
         /\ \A B \in SUBSET Session :
              Cardinality(A \cup B) <= Cardinality(A) + Cardinality(B)
<1>1. \A B \in SUBSET Session : IsFiniteSet(B) /\ Cardinality(B) \in Nat
  BY SessionAssumption, FS_Subset, FS_CardinalityType
<1>2. ASSUME NEW x
      PROVE  /\ Cardinality(A \cup {x}) <= Cardinality(A) + 1
             /\ Cardinality(A \ {x}) \in Nat
             /\ Cardinality(A \ {x}) <= Cardinality(A)
             /\ x \in A => Cardinality(A \ {x}) = Cardinality(A) - 1
  <2>1. Cardinality(A \cup {x}) = IF x \in A THEN Cardinality(A) ELSE Cardinality(A) + 1
    BY <1>1, FS_AddElement
  <2>2. Cardinality(A \ {x}) = IF x \in A THEN Cardinality(A) - 1 ELSE Cardinality(A)
    BY <1>1, FS_RemoveElement
  <2>3. Cardinality(A) \in Nat /\ Cardinality(A \ {x}) \in Nat
    BY <1>1
  <2> QED BY <2>1, <2>2, <2>3
<1>3. ASSUME NEW B \in SUBSET Session
      PROVE  Cardinality(A \cup B) <= Cardinality(A) + Cardinality(B)
  <2>1. Cardinality(A \cup B) = Cardinality(A) + Cardinality(B) - Cardinality(A \cap B)
    BY <1>1, FS_Union
  <2>2. Cardinality(A \cap B) \in Nat /\ Cardinality(A) \in Nat /\ Cardinality(B) \in Nat
    BY <1>1
  <2> QED BY <2>1, <2>2
<1> QED BY <1>1, <1>2, <1>3

\* A step that watches nothing more and counts nothing less.
LEMMA QuietKeepsWatched ==
  ASSUME TypeOK, WatchedDirStaysPolled, UNCHANGED tail, NEW s \in Session,
         externalSessions' = externalSessions \/ externalSessions' = externalSessions \ {s}
  PROVE  WatchedDirStaysPolled'
<1>1. /\ Cardinality(externalSessions') <= Cardinality(externalSessions)
      /\ Cardinality(externalSessions) \in Nat /\ Cardinality(externalSessions') \in Nat
      /\ Cardinality(ptySessions) \in Nat
  <2>1. externalSessions \in SUBSET Session /\ ptySessions \in SUBSET Session
    BY DEF TypeOK
  <2>2. /\ Cardinality(externalSessions) \in Nat /\ Cardinality(ptySessions) \in Nat
        /\ Cardinality(externalSessions \ {s}) \in Nat
        /\ Cardinality(externalSessions \ {s}) <= Cardinality(externalSessions)
    BY <2>1, SessionSizes
  <2>3. CASE externalSessions' = externalSessions
    BY <2>2, <2>3
  <2>4. CASE externalSessions' = externalSessions \ {s}
    BY <2>2, <2>4
  <2> QED BY <2>3, <2>4
<1>2. dirRefcount \in Int /\ UNCHANGED <<ptySessions, dirRefcount>>
  BY DEF TypeOK, tail
<1> QED BY <1>1, <1>2 DEF WatchedDirStaysPolled

LEMMA WatchedInductive ==
  /\ Init => WatchedDirStaysPolled
  /\ TypeOK /\ Registry /\ WatchedDirStaysPolled /\ [Next]_vars => WatchedDirStaysPolled'
<1>1. Init => WatchedDirStaysPolled
  BY FS_EmptySet DEF Init, WatchedDirStaysPolled
<1>2. TypeOK /\ Registry /\ WatchedDirStaysPolled /\ [Next]_vars => WatchedDirStaysPolled'
  <2> SUFFICES ASSUME TypeOK, Registry, WatchedDirStaysPolled, [Next]_vars
               PROVE  WatchedDirStaysPolled'
    OBVIOUS
  <2> USE DEF durable, markers, gates
  <2>0. ASSUME UNCHANGED <<tail, externalSessions>> PROVE WatchedDirStaysPolled'
    BY <2>0 DEF WatchedDirStaysPolled, tail
  <2>1. ASSUME NEW s \in Session, SpawnSession(s) \/ ResumeSession(s)
        PROVE  WatchedDirStaysPolled'
    <3>1. UNCHANGED tail \/ WatchSession(s)
      BY <2>1, Starting DEF StartProcess, StartProcessThrows
    <3>2. externalSessions' = externalSessions \/ externalSessions' = externalSessions \ {s}
      BY <2>1, Starting
    <3>3. CASE WatchSession(s)
      <4>1. /\ Cardinality(externalSessions') <= Cardinality(externalSessions)
            /\ Cardinality(externalSessions) \in Nat /\ Cardinality(externalSessions') \in Nat
            /\ Cardinality(ptySessions) \in Nat
            /\ Cardinality(ptySessions \cup {s}) \in Nat
            /\ Cardinality(ptySessions \cup {s}) <= Cardinality(ptySessions) + 1
        <5>1. /\ externalSessions \in SUBSET Session /\ ptySessions \in SUBSET Session
              /\ ptySessions \cup {s} \in SUBSET Session
          BY DEF TypeOK
        <5>2. /\ Cardinality(externalSessions) \in Nat /\ Cardinality(ptySessions) \in Nat
              /\ Cardinality(externalSessions \ {s}) \in Nat
              /\ Cardinality(externalSessions \ {s}) <= Cardinality(externalSessions)
              /\ Cardinality(ptySessions \cup {s}) \in Nat
              /\ Cardinality(ptySessions \cup {s}) <= Cardinality(ptySessions) + 1
          BY <5>1, SessionSizes
        <5>3. CASE externalSessions' = externalSessions
          BY <5>2, <5>3
        <5>4. CASE externalSessions' = externalSessions \ {s}
          BY <5>2, <5>4
        <5> QED BY <3>2, <5>3, <5>4
      <4>2. dirRefcount \in Int
        BY DEF TypeOK
      <4> QED BY <3>3, <4>1, <4>2 DEF WatchSession, WatchedDirStaysPolled
    <3> QED BY <3>1, <3>2, <3>3, QuietKeepsWatched
  <2>2. ASSUME NEW s \in Session, AdoptSession(s) PROVE WatchedDirStaysPolled'
    BY <2>2, QuietKeepsWatched DEF AdoptSession, EmitAdopted
  <2>3. ASSUME NEW s \in Session,
               \/ KillSession(s) \/ ClearAttention(s) \/ \E g \in Gate : AnswerGate(s, g)
        PROVE  WatchedDirStaysPolled'
    BY <2>0, <2>3 DEF KillSession, ClearAttention, AnswerGate
  <2>4. ASSUME NEW p \in Proc, PtyExit(p) PROVE WatchedDirStaysPolled'
    <3> DEFINE s == proc[p].session
    <3>1. s \in Session
      BY <2>4 DEF PtyExit, Registry, StartedIsBorn
    <3>2. UnwatchSession(s) /\ UNCHANGED externalSessions
      BY <2>4 DEF PtyExit
    <3> HIDE DEF s
    <3>3. /\ Cardinality(ptySessions \ {s}) \in Nat /\ Cardinality(ptySessions) \in Nat
          /\ Cardinality(externalSessions) \in Nat
          /\ Cardinality(ptySessions \ {s}) <= Cardinality(ptySessions)
          /\ s \in ptySessions => Cardinality(ptySessions \ {s}) = Cardinality(ptySessions) - 1
      BY <3>1, SessionSizes DEF TypeOK
    <3>4. dirRefcount \in Int
      BY DEF TypeOK
    <3>5. Cardinality(ptySessions') = Cardinality(ptySessions \ {s})
          /\ Cardinality(externalSessions') = Cardinality(externalSessions)
      BY <3>2 DEF UnwatchSession
    <3> QED BY <3>2, <3>3, <3>4, <3>5 DEF UnwatchSession, WatchedDirStaysPolled
  <2>5. ASSUME NEW p \in Proc,
               \/ SdkResult(p) \/ WindDown(p)
               \/ \E tool \in Tool : GateDenied(p, tool) \/ \E g \in Gate : GateFired(p, g, tool)
        PROVE  WatchedDirStaysPolled'
    BY <2>0, <2>5 DEF SdkResult, WindDown, GateDenied, GateFired
  <2>6. ASSUME NEW more \in SUBSET Session, UNCHANGED ptySessions,
               externalSessions' = externalSessions \cup more,
               dirRefcount' = dirRefcount + Cardinality(more)
        PROVE  WatchedDirStaysPolled'
    <3>1. /\ Cardinality(externalSessions \cup more)
               <= Cardinality(externalSessions) + Cardinality(more)
          /\ Cardinality(externalSessions) \in Nat /\ Cardinality(more) \in Nat
          /\ Cardinality(externalSessions \cup more) \in Nat
          /\ Cardinality(ptySessions) \in Nat
      <4>1. /\ externalSessions \in SUBSET Session /\ ptySessions \in SUBSET Session
            /\ externalSessions \cup more \in SUBSET Session
        BY DEF TypeOK
      <4> QED BY <4>1, SessionSizes
    <3>2. dirRefcount \in Int
      BY DEF TypeOK
    <3> QED BY <2>6, <3>1, <3>2 DEF WatchedDirStaysPolled
  <2>7. ASSUME NEW found \in SUBSET Session, Start(found) PROVE WatchedDirStaysPolled'
    BY <2>6, <2>7 DEF Start, Rehydrated
  <2>8. ASSUME NEW found \in SUBSET Session, DiscoverExternalSessions(found)
        PROVE  WatchedDirStaysPolled'
    BY <2>6, <2>8 DEF DiscoverExternalSessions
  <2>9. CASE Stop
    BY <2>0, <2>9 DEF Stop
  <2>10. CASE DaemonExits
    BY <2>10, FS_EmptySet DEF DaemonExits, WatchedDirStaysPolled
  <2>11. CASE UNCHANGED vars
    BY <2>0, <2>11 DEF vars
  <2> QED
    BY <2>1, <2>2, <2>3, <2>4, <2>5, <2>7, <2>8, <2>9, <2>10, <2>11
       DEF Next, Operation, Callback, Lifecycle, ResumeRefusedByPreflight, SendMessage
<1> QED BY <1>1, <1>2

\* The transcript directory is never unwatched while a terminal session or a
\* mirrored file in it is still followed.
THEOREM WatchedDirIsPolled == Spec => []WatchedDirStaysPolled
  BY TypeInductive, RegistryInductive, WatchedInductive, PTL DEF Spec
================================================================================
