------------------------------ MODULE SessionHost ------------------------------
(***************************************************************************)
(* Custody of Claude processes: daemon/src/sessionHost.ts with its SDK and *)
(* PTY adapters, the part of the tailer they drive, and the per-session    *)
(* facts the event log holds (core/projections/sessions.ts).               *)
(*                                                                         *)
(* The daemon runs on one thread, so a public operation of the host is one *)
(* action.  What interleaves are the callbacks of the children: the result *)
(* of an SDK stream, its end (windDown), the exit of a PTY, a permission   *)
(* request; each may come long after the host let go of the process.       *)
(***************************************************************************)
EXTENDS FiniteSets, Integers

CONSTANTS
  Session,   \* the appSessionIds that can be minted
  Proc,      \* the processes that can be started, each at most once
  Gate,      \* the requestIds of permission requests, each at most once
  Channel,   \* the channels spawned on, among "sdk" and "pty"
  Mode,      \* how spawns are asked for: "attended", "dispatched", "planning"
  None       \* no process

ASSUME NoneAssumption == None \notin Proc /\ None \notin Session
ASSUME SessionAssumption == IsFiniteSet(Session)
ASSUME SpawnAssumption ==
  Channel \subseteq {"sdk", "pty"} /\ Mode \subseteq {"attended", "dispatched", "planning"}

VARIABLES
  host,                \* the daemon: "down", "up", "stopping"
  sessions,            \* DURABLE: the sessions projection of the log
  settingsFile,        \* DURABLE: sessions whose hook-settings file exists
  liveProcesses,       \* the registry: the process that drives a session
  proc,                \* every process ever started
  spawnSecrets,        \* the process whose hook secret the ingress accepts
  dispatchedSessions,  \* sessions marked unattended (D50)
  planCaptureSessions, \* sessions whose ExitPlanMode is captured (D48)
  gate,                \* every permission request ever surfaced
  pendingGates,        \* the requests that can still be answered
  externalSessions,    \* in-memory mirror of custody = "external"
  ptySessions,         \* sessions whose transcript the tailer correlates
  dirRefcount          \* the tailer's count on the one transcript directory

durable == <<sessions, settingsFile>>
markers == <<dispatchedSessions, planCaptureSessions>>
gates   == <<gate, pendingGates>>
tail    == <<ptySessions, dirRefcount>>
vars == <<host, durable, liveProcesses, proc, spawnSecrets, markers, gates,
          externalSessions, tail>>

--------------------------------------------------------------------------------
Liveness == {"spawning", "running", "dormant", "interrupted", "dead"}
Tool == {"AskUserQuestion", "ExitPlanMode", "Bash"}

Unborn == [liveness |-> "unborn", channel |-> "sdk", custody |-> "host",
           attention |-> "none"]
SessionRecord ==
  [liveness : Liveness \cup {"unborn"}, channel : {"sdk", "pty"},
   custody : {"host", "external"}, attention : {"none", "gate", "completed"}]
ProcRecord ==
  [state : {"unused", "open", "gone"}, session : Session \cup {None}, killed : BOOLEAN,
   sawResult : BOOLEAN, settingsPath : BOOLEAN,
   mode : {"attended", "dispatched", "planning"}]

Unused == [state |-> "unused", session |-> None, killed |-> FALSE, sawResult |-> FALSE,
           settingsPath |-> FALSE, mode |-> "attended"]

\* The legal edges of the liveness machine, and the guarded emission of one.
LivenessEdges ==
  {<<"spawning", "running">>, <<"spawning", "interrupted">>, <<"spawning", "dead">>,
   <<"running", "dormant">>, <<"running", "interrupted">>, <<"running", "dead">>,
   <<"dormant", "spawning">>, <<"dormant", "dead">>,
   <<"interrupted", "spawning">>, <<"interrupted", "dead">>}
GuardedLiveness(rec, to) ==
  IF <<rec.liveness, to>> \in LivenessEdges
  THEN [rec EXCEPT !.liveness = to] ELSE rec
DriveToDormant_Idle(rec) ==   \* mutant: the label of the machine before D9
  IF rec.liveness = "running" THEN [rec EXCEPT !.liveness = "idle"] ELSE rec
DriveToDormant(rec) ==
  IF rec.liveness = "running" THEN [rec EXCEPT !.liveness = "dormant"] ELSE rec

Born(s) == sessions[s].liveness # "unborn"
External(s) == sessions[s].custody = "external"
Serving == host \in {"up", "stopping"}   \* stop() closes no door by itself

Init ==
  /\ host = "down"
  /\ sessions = [s \in Session |-> Unborn]
  /\ settingsFile = {}
  /\ liveProcesses = [s \in Session |-> None]
  /\ proc = [p \in Proc |-> Unused]
  /\ spawnSecrets = [s \in Session |-> None]
  /\ dispatchedSessions = {} /\ planCaptureSessions = {}
  /\ gate = [g \in Gate |-> [proc |-> None, tool |-> "Bash"]]
  /\ pendingGates = {}
  /\ externalSessions = {}
  /\ ptySessions = {} /\ dirRefcount = 0

--------------------------------------------------------------------------------
(* Starting a process for session s, whose projected record is rec.        *)

Fresh(p) == proc[p].state = "unused"

\* The hook channel is best effort: without it there is no settings file and
\* the secret registered before is left as it was.
MintHookChannel(s, p, minted) ==
  /\ settingsFile' = IF minted THEN settingsFile \cup {s} ELSE settingsFile
  /\ spawnSecrets' = IF minted THEN [spawnSecrets EXCEPT ![s] = p] ELSE spawnSecrets

\* The tailer is told of a PTY when it is activated; a session it already
\* knows is overwritten, and its directory counted once more.
WatchSession_NotCounted(s) ==   \* mutant: the directory taken for a new one
  /\ ptySessions' = ptySessions \cup {s}
  /\ dirRefcount' = 1
WatchSession(s) ==
  /\ ptySessions' = ptySessions \cup {s}
  /\ dirRefcount' = dirRefcount + 1
UnwatchSession(s) ==
  /\ ptySessions' = ptySessions \ {s}
  /\ dirRefcount' = IF s \in ptySessions THEN dirRefcount - 1 ELSE dirRefcount

\* The dispatcher marks all it spawns unattended; a planning run also arms the
\* capture of its plan.
Dispatched(mode) == mode \in {"dispatched", "planning"}
PlanCapture(mode) == mode = "planning"

StartProcess(s, p, rec, minted, mode) ==
  /\ MintHookChannel(s, p, minted)
  /\ proc' = [proc EXCEPT ![p] =
        [state |-> "open", session |-> s, killed |-> FALSE, sawResult |-> FALSE,
         settingsPath |-> minted, mode |-> mode]]
  /\ dispatchedSessions' =
        IF Dispatched(mode) THEN dispatchedSessions \cup {s} ELSE dispatchedSessions
  /\ planCaptureSessions' =
        IF PlanCapture(mode) THEN planCaptureSessions \cup {s} ELSE planCaptureSessions
  /\ liveProcesses' = [liveProcesses EXCEPT ![s] = p]
  /\ sessions' = [sessions EXCEPT ![s] = GuardedLiveness(rec, "running")]
  /\ IF rec.channel = "pty" THEN WatchSession(s) ELSE UNCHANGED tail

\* The adapter's factory throws: the channel is minted, nothing is registered.
StartProcessThrows(s, rec, minted) ==
  /\ MintHookChannel(s, None, minted)
  /\ sessions' = [sessions EXCEPT ![s] = rec]
  /\ UNCHANGED <<proc, markers, liveProcesses, tail>>

BornRecord(channel) ==
  [liveness |-> "spawning", channel |-> channel, custody |-> "host", attention |-> "none"]

\* A refused preflight mints no session and is not an action: nothing changes.
SpawnSession(s) ==
  /\ Serving /\ ~Born(s)
  /\ \E channel \in Channel, mode \in Mode, minted \in BOOLEAN :
       /\ Dispatched(mode) => channel = "sdk"   \* the dispatcher's only channel
       /\ \/ \E p \in Proc :
               Fresh(p) /\ StartProcess(s, p, BornRecord(channel), minted, mode)
          \/ StartProcessThrows(s, BornRecord(channel), minted)
  /\ UNCHANGED <<host, gates, externalSessions>>

Adopted(rec) == [rec EXCEPT !.custody = "host"]
EmitAdopted(s) == externalSessions' = externalSessions \ {s}

AdoptSession(s) ==
  /\ Serving /\ External(s)
  /\ sessions' = [sessions EXCEPT ![s] = Adopted(@)]
  /\ EmitAdopted(s)
  /\ UNCHANGED <<host, settingsFile, liveProcesses, proc, spawnSecrets, markers,
                 gates, tail>>

\* I11: a session with a live process is never started again.
MayResume_LivenessOnly(s) == sessions[s].liveness # "running"   \* mutant
MayResume(s) == liveProcesses[s] = None

ResumeSession(s) ==
  /\ Serving /\ Born(s) /\ MayResume(s)
  /\ LET rec == GuardedLiveness(Adopted(sessions[s]), "spawning") IN
     \E minted \in BOOLEAN :
       \/ \E p \in Proc : Fresh(p) /\ StartProcess(s, p, rec, minted, "attended")
       \/ StartProcessThrows(s, rec, minted)
  /\ EmitAdopted(s)
  /\ UNCHANGED <<host, gates>>

\* A mirrored session is adopted before the preflight is asked, so a resume it
\* refuses has still taken custody.
ResumeRefusedByPreflight(s) == MayResume(s) /\ AdoptSession(s)

\* A turn sent to a session without a process resumes it, unless it is mirrored
\* or its liveness says somebody else is at it.  Delivery itself is not state.
SendMessage(s) ==
  /\ ~External(s)
  /\ sessions[s].liveness \in {"dormant", "interrupted"}
  /\ ResumeSession(s)

--------------------------------------------------------------------------------
(* The end of a process.                                                   *)

\* What is left of a process that has ended: only its history matters.
Ended(p) == [proc[p] EXCEPT !.state = "gone", !.killed = FALSE, !.sawResult = FALSE,
                            !.settingsPath = FALSE]

\* The registry entry goes only if it is still this process; the settings file
\* goes if this process still names it.
WithoutEntry_AnyProcess(s, p) == [liveProcesses EXCEPT ![s] = None]   \* mutant
WithoutEntry(s, p) == [liveProcesses EXCEPT ![s] = IF @ = p THEN None ELSE @]
ForgetSettings_Keep(rec) == rec                                        \* mutant
ForgetSettings(rec) == [rec EXCEPT !.settingsPath = FALSE]

ReleaseLiveProcess(p, ended) ==
  LET s == proc[p].session IN
  /\ liveProcesses' = WithoutEntry(s, p)
  /\ settingsFile' = IF proc[p].settingsPath THEN settingsFile \ {s} ELSE settingsFile
  /\ proc' = [proc EXCEPT ![p] = ForgetSettings(ended)]

KillSession(s) ==
  LET p == liveProcesses[s] IN
  /\ Serving /\ p # None /\ ~External(s)
  /\ ReleaseLiveProcess(p, [proc[p] EXCEPT !.killed = TRUE])
  /\ sessions' = [sessions EXCEPT ![s] = DriveToDormant(@)]
  /\ UNCHANGED <<host, spawnSecrets, markers, gates, externalSessions, tail>>

\* The result message ends the turn: the session goes dormant while its process
\* is still registered.  The loop that reads the stream does not ask whether the
\* process was killed in the meantime.
SdkResult(p) ==
  LET s == proc[p].session IN
  /\ proc[p].state = "open" /\ sessions[s].channel = "sdk" /\ ~proc[p].sawResult
  /\ proc' = [proc EXCEPT ![p].sawResult = TRUE]
  /\ sessions' = [sessions EXCEPT
                     ![s] = [DriveToDormant(@) EXCEPT !.attention = "completed"]]
  /\ UNCHANGED <<host, settingsFile, liveProcesses, spawnSecrets, markers, gates,
                 externalSessions, tail>>

\* A stream that ended without a result still left its session running.
LeftRunning_AfterKillOnly(p) == host # "stopping" /\ proc[p].killed   \* mutant
LeftRunning(p) == host # "stopping" /\ ~proc[p].sawResult

\* The stream of p has ended, after a result, a kill or an error of its own.
WindDown(p) ==
  LET s == proc[p].session IN
  /\ proc[p].state = "open" /\ sessions[s].channel = "sdk"
  /\ planCaptureSessions' = planCaptureSessions \ {s}
  /\ dispatchedSessions' = dispatchedSessions \ {s}
  /\ ReleaseLiveProcess(p, Ended(p))
  /\ sessions' = IF LeftRunning(p)
                 THEN [sessions EXCEPT ![s] = DriveToDormant(@)] ELSE sessions
  /\ UNCHANGED <<host, spawnSecrets, gates, externalSessions, tail>>

PtyExit(p) ==
  LET s == proc[p].session IN
  /\ proc[p].state = "open" /\ sessions[s].channel = "pty"
  /\ ReleaseLiveProcess(p, Ended(p))
  /\ UnwatchSession(s)
  /\ sessions' = IF host # "stopping"
                 THEN [sessions EXCEPT ![s] = DriveToDormant(@)] ELSE sessions
  /\ UNCHANGED <<host, spawnSecrets, markers, gates, externalSessions>>

--------------------------------------------------------------------------------
(* Permission requests of an SDK stream that is neither killed nor done.   *)

Asking(p) ==
  /\ proc[p].state = "open" /\ ~proc[p].killed /\ ~proc[p].sawResult
  /\ sessions[proc[p].session].channel = "sdk"

\* The requests handleGate denies by itself: no human is involved.
DeniedUnattended_PlanningOnly(s, tool) ==   \* mutant
  s \in planCaptureSessions /\ tool \in {"ExitPlanMode", "AskUserQuestion"}
DeniedUnattended(s, tool) ==
  \/ s \in planCaptureSessions /\ tool = "ExitPlanMode"
  \/ s \in dispatchedSessions /\ tool = "AskUserQuestion"

GateDenied(p, tool) ==
  /\ Asking(p) /\ DeniedUnattended(proc[p].session, tool)
  /\ UNCHANGED <<host, durable, liveProcesses, proc, spawnSecrets, markers, gate,
                 pendingGates, externalSessions, tail>>

GateFired(p, g, tool) ==
  LET s == proc[p].session IN
  /\ Asking(p) /\ ~DeniedUnattended(s, tool)
  /\ gate[g].proc = None
  /\ gate' = [gate EXCEPT ![g] = [proc |-> p, tool |-> tool]]
  /\ pendingGates' = pendingGates \cup {g}
  /\ sessions' = [sessions EXCEPT ![s].attention = "gate"]
  /\ UNCHANGED <<host, settingsFile, liveProcesses, proc, spawnSecrets, markers,
                 externalSessions, tail>>

\* The client names a session and a request; only the request is looked up.
AnswerGate(s, g) ==
  /\ Serving /\ Born(s) /\ ~External(s)
  /\ g \in pendingGates
  /\ pendingGates' = pendingGates \ {g}
  /\ sessions' = [sessions EXCEPT ![s].attention = "none"]
  /\ UNCHANGED <<host, settingsFile, liveProcesses, proc, spawnSecrets, markers,
                 gate, externalSessions, tail>>

ClearAttention(s) ==
  /\ Serving /\ Born(s)
  /\ sessions' = [sessions EXCEPT ![s].attention = "none"]
  /\ UNCHANGED <<host, settingsFile, liveProcesses, proc, spawnSecrets, markers,
                 gates, externalSessions, tail>>

--------------------------------------------------------------------------------
(* Mirrored sessions and the life of the daemon.                           *)

Mirror == [liveness |-> "interrupted", channel |-> "pty", custody |-> "external",
           attention |-> "none"]

\* Every foreign transcript found becomes a mirrored session.
DiscoverExternalSessions(found) ==
  /\ Serving /\ found # {} /\ \A s \in found : ~Born(s)
  /\ sessions' = [s \in Session |-> IF s \in found THEN Mirror ELSE sessions[s]]
  /\ externalSessions' = externalSessions \cup found
  /\ dirRefcount' = dirRefcount + Cardinality(found)
  /\ UNCHANGED <<host, settingsFile, liveProcesses, proc, spawnSecrets, markers,
                 gates, ptySessions>>

\* start(): recovery, rehydration of the mirrors, discovery of new ones.
Recovered(rec) ==
  IF rec.liveness \in {"running", "spawning"}
  THEN GuardedLiveness(rec, "interrupted") ELSE rec

Rehydrated_Forgotten == {}   \* mutant
Rehydrated == {s \in Session : External(s)}

Start(found) ==
  /\ host = "down" /\ \A s \in found : ~Born(s)
  /\ host' = "up"
  /\ sessions' = [s \in Session |->
        IF s \in found THEN Mirror
        ELSE IF liveProcesses[s] = None THEN Recovered(sessions[s]) ELSE sessions[s]]
  /\ externalSessions' = externalSessions \cup found \cup Rehydrated
  /\ dirRefcount' = dirRefcount + Cardinality(found \cup Rehydrated)
  /\ UNCHANGED <<settingsFile, liveProcesses, proc, spawnSecrets, markers, gates,
                 ptySessions>>

\* stop(): every registered process is killed and forgotten, its file removed.
Stop ==
  LET live == {p \in Proc : \E s \in Session : liveProcesses[s] = p} IN
  /\ host = "up"
  /\ host' = "stopping"
  /\ proc' = [p \in Proc |-> IF p \in live THEN [proc[p] EXCEPT !.killed = TRUE]
                             ELSE proc[p]]
  /\ settingsFile' = settingsFile \
        {s \in Session : \E p \in live : proc[p].session = s /\ proc[p].settingsPath}
  /\ liveProcesses' = [s \in Session |-> None]
  /\ spawnSecrets' = [s \in Session |-> None]
  /\ pendingGates' = {} /\ dispatchedSessions' = {} /\ planCaptureSessions' = {}
  /\ UNCHANGED <<sessions, gate, externalSessions, tail>>

\* The daemon's process ends, at the end of its shutdown or in a crash.  Its
\* children die with it; what was in memory is lost.
DaemonExits ==
  /\ Serving
  /\ host' = "down"
  /\ proc' = [p \in Proc |-> IF proc[p].state = "open"
                             THEN Ended(p)
                             ELSE proc[p]]
  /\ liveProcesses' = [s \in Session |-> None]
  /\ spawnSecrets' = [s \in Session |-> None]
  /\ pendingGates' = {} /\ dispatchedSessions' = {} /\ planCaptureSessions' = {}
  /\ externalSessions' = {} /\ ptySessions' = {} /\ dirRefcount' = 0
  /\ UNCHANGED <<durable, gate>>

Operation(s) ==
  \/ SpawnSession(s) \/ ResumeSession(s) \/ ResumeRefusedByPreflight(s)
  \/ SendMessage(s) \/ AdoptSession(s) \/ KillSession(s) \/ ClearAttention(s)
  \/ \E g \in Gate : AnswerGate(s, g)

Callback(p) ==
  \/ SdkResult(p) \/ WindDown(p) \/ PtyExit(p)
  \/ \E tool \in Tool : GateDenied(p, tool) \/ \E g \in Gate : GateFired(p, g, tool)

Lifecycle ==
  \/ \E found \in SUBSET Session : Start(found) \/ DiscoverExternalSessions(found)
  \/ Stop \/ DaemonExits

Next ==
  \/ \E s \in Session : Operation(s)
  \/ \E p \in Proc : Callback(p)
  \/ Lifecycle

Spec == Init /\ [][Next]_vars

--------------------------------------------------------------------------------
(* Properties.                                                             *)

\* Every variable has its type.
TypeOK ==
  /\ host \in {"down", "up", "stopping"}
  /\ sessions \in [Session -> SessionRecord]
  /\ settingsFile \subseteq Session
  /\ liveProcesses \in [Session -> Proc \cup {None}]
  /\ proc \in [Proc -> ProcRecord]
  /\ spawnSecrets \in [Session -> Proc \cup {None}]
  /\ dispatchedSessions \subseteq Session /\ planCaptureSessions \subseteq Session
  /\ gate \in [Gate -> [proc : Proc \cup {None}, tool : Tool]]
  /\ pendingGates \subseteq Gate
  /\ externalSessions \subseteq Session /\ ptySessions \subseteq Session
  /\ dirRefcount \in Int

\* A process the host has neither killed nor seen end.
Driving(p) == proc[p].state = "open" /\ ~proc[p].killed

\* I11: however kills, late exits, resumes and restarts interleave, no two
\* processes drive one session.
OneProcessPerSession ==
  \A p, q \in Proc :
    Driving(p) /\ Driving(q) /\ proc[p].session = proc[q].session => p = q

\* While the daemon serves, the log never shows a run that nothing drives: a
\* "running" session without a process could be neither sent to nor killed.
RunningHasProcess ==
  host = "up" =>
    \A s \in Session : sessions[s].liveness = "running" => liveProcesses[s] # None

\* The hook channel of a registered process is whole (settings file on disk, its
\* secret the accepted one) although a killed predecessor may still release.
HookChannelStaysWhole ==
  host = "up" =>
    \A s \in Session : LET p == liveProcesses[s] IN
      p # None /\ proc[p].settingsPath => s \in settingsFile /\ spawnSecrets[s] = p

\* D50/D48: an unattended process never waits for a human to answer a question,
\* and one that captures its plan never waits for its plan to be approved.
UnattendedNeverAsked ==
  \A g \in Gate : LET p == gate[g].proc IN p # None =>
    /\ Dispatched(proc[p].mode) => gate[g].tool # "AskUserQuestion"
    /\ PlanCapture(proc[p].mode) => gate[g].tool # "ExitPlanMode"

\* D10: what the log calls external is driven by no process of the host's, never
\* was, and never asks for attention; the in-memory mirror agrees with the log.
MirroredNeverDriven ==
  \A s \in Session : External(s) =>
    /\ \A p \in Proc : proc[p].session # s
    /\ sessions[s].attention = "none"
    /\ Serving => s \in externalSessions

\* The transcript directory is counted at least once for every PTY session
\* watched and every file mirrored in it, so it is never unwatched under them.
WatchedDirStaysPolled ==
  dirRefcount >= Cardinality(ptySessions) + Cardinality(externalSessions)

\* The registry is the truth about the processes: an entry appears with a fresh
\* process for a session without one, and goes exactly when its process stops
\* driving, never when an older process of the session ends late.
Lease == INSTANCE ProcessLease
           WITH holder <- liveProcesses,
                driving <- {p \in Proc : Driving(p)},
                spent <- {p \in Proc : proc[p].state # "unused"}
ImplementsLease == Lease!Spec

--------------------------------------------------------------------------------
(* What comments and documents of the repository say, and the code does    *)
(* not do.                                                                 *)

\* "identity-guarded so a re-spawn is never clobbered": a registered process in
\* mid-turn has a session that is running.
RespawnIsNeverClobbered ==
  host = "up" =>
    \A s \in Session : LET p == liveProcesses[s] IN
      p # None /\ ~proc[p].sawResult => sessions[s].liveness = "running"
================================================================================
