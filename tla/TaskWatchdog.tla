------------------------------ MODULE TaskWatchdog ------------------------------
(***************************************************************************)
(* The watchdog of stage runs (daemon/src/taskWatchdog.ts and the decision *)
(* in core/src/tasks/watchdogDecision.ts) and what it judges by: the       *)
(* attention, heartbeat, turn and correction of a session as the           *)
(* projection keeps them (core/src/projections/sessions.ts), and the       *)
(* operations of host and hub that move them (daemon/src/sessionHost.ts,   *)
(* daemon/src/wsHub.ts).                                                   *)
(*                                                                         *)
(* The clock is unbounded.  A timestamp is kept as what the code compares  *)
(* it for: how long ago the last append was, up to the band; and whether   *)
(* the newest mapping and the correction are at or after it, for which it  *)
(* matters what else falls in the millisecond of an append.                *)
(***************************************************************************)
EXTENDS Integers

CONSTANTS
  Session,     \* the stage runs
  Gate,        \* the requestIds pending at once
  Band,        \* staleAfterMs
  MaxEpisodes, \* maxStaleRetries
  None         \* never

ASSUME BandAssumption == Band \in Nat \ {0} /\ MaxEpisodes \in Nat
ASSUME NoneAssumption == None \notin Int

VARIABLES
  sessions,      \* the projection of each session
  mapped,        \* sessions whose newest mapping is of this millisecond
  corrected,     \* sessions whose correction is of this millisecond
  live,          \* the registered process: "none", "open", "ended" (its result is in)
  ghosts,        \* sessions of which a killed process has not wound down
  pendingGates,  \* the requests that can be answered
  asker,         \* the session whose process raised a request
  waiting,       \* requests whose process still waits
  told,          \* HISTORY: reports since the last append or clear, 2 for more
  cleared        \* HISTORY: attention was cleared since the last request was raised

gates   == <<pendingGates, asker, waiting>>
history == <<told, cleared>>
vars == <<sessions, mapped, corrected, live, ghosts, gates, history>>

--------------------------------------------------------------------------------
Unborn == [liveness |-> "unborn", attention |-> "none", silence |-> None,
           boundary |-> FALSE, correction |-> FALSE, turn |-> FALSE, episodes |-> 0]

SessionRecord ==
  [liveness : {"unborn", "spawning", "running", "dormant", "interrupted"},
   attention : {"none", "gate", "completed", "stale"},
   silence : 0..Band \cup {None}, boundary : BOOLEAN, correction : BOOLEAN,
   turn : BOOLEAN, episodes : 0..MaxEpisodes]

TypeOK ==
  /\ sessions \in [Session -> SessionRecord]
  /\ mapped \subseteq Session /\ corrected \subseteq Session
  /\ live \in [Session -> {"none", "open", "ended"}]
  /\ ghosts \subseteq Session
  /\ waiting \subseteq pendingGates /\ pendingGates \subseteq Gate
  /\ asker \in [Gate -> Session \cup {None}]
  /\ told \in [Session -> 0..2] /\ cleared \subseteq Session

Init ==
  /\ sessions = [s \in Session |-> Unborn]
  /\ mapped = {} /\ corrected = {}
  /\ live = [s \in Session |-> "none"] /\ ghosts = {}
  /\ pendingGates = {} /\ waiting = {} /\ asker = [g \in Gate |-> None]
  /\ told = [s \in Session |-> 0] /\ cleared = {}

Born(s) == sessions[s].liveness # "unborn"

--------------------------------------------------------------------------------
(* What an event of session s makes of its record.                         *)

(* An append: the boundary and the correction still cover it only in the   *)
(* millisecond they are of.                                                *)
Heard(s, rec) ==
  [rec EXCEPT !.silence = 0, !.boundary = @ /\ s \in mapped,
              !.correction = @ /\ s \in corrected]

Message(s, rec) == [Heard(s, rec) EXCEPT !.turn = TRUE]
Raised(rec, reason) == [rec EXCEPT !.attention = reason]
Out(rec, to) == [rec EXCEPT !.liveness = to, !.turn = FALSE]
DriveToDormant(rec) == IF rec.liveness = "running" THEN Out(rec, "dormant") ELSE rec

Becomes(s, rec) == sessions' = [sessions EXCEPT ![s] = rec]

(* The history: the session was heard of.                                  *)
Heeded(s) == told' = [told EXCEPT ![s] = 0]

(* A message to the process, and the correction it is when it falls in a   *)
(* turn.                                                                   *)
Deliver(s, rec) ==
  IF rec.turn THEN /\ Becomes(s, [Message(s, rec) EXCEPT !.correction = TRUE])
                   /\ corrected' = corrected \cup {s}
  ELSE Becomes(s, Message(s, rec)) /\ UNCHANGED corrected

--------------------------------------------------------------------------------
(* The host and the hub.                                                   *)

(* The dispatcher spawns the run, attaches it and gives it its             *)
(* instruction, which may be empty.                                        *)
StartRun(s) ==
  LET rec == [Unborn EXCEPT !.liveness = "running"]
  IN  /\ ~Born(s)
      /\ live' = [live EXCEPT ![s] = "open"]
      /\ \/ Becomes(s, rec)
         \/ Becomes(s, Message(s, rec))
      /\ UNCHANGED <<mapped, corrected, ghosts, gates, history>>

Resumed(s, rec) == [rec EXCEPT !.liveness = "running"]

(* Nothing of the session's attention is reset.  A process that cannot be  *)
(* started leaves it spawning.                                             *)
ResumeSession(s) ==
  /\ Born(s) /\ live[s] = "none"
  /\ \/ live' = [live EXCEPT ![s] = "open"] /\ Becomes(s, Resumed(s, sessions[s]))
     \/ /\ sessions[s].liveness # "running" /\ UNCHANGED live
        /\ Becomes(s, [sessions[s] EXCEPT !.liveness = "spawning"])
  /\ UNCHANGED <<mapped, corrected, ghosts, gates, history>>

(* The turn is judged before the send, which may resume the session.       *)
SendMessage(s) ==
  /\ \/ live[s] # "none" /\ UNCHANGED live /\ Deliver(s, sessions[s])
     \/ /\ live[s] = "none" /\ sessions[s].liveness \in {"dormant", "interrupted"}
        /\ live' = [live EXCEPT ![s] = "open"] /\ Deliver(s, Resumed(s, sessions[s]))
  /\ Heeded(s)
  /\ UNCHANGED <<mapped, ghosts, gates, cleared>>

(* At most one killed process of a session winds down at a time.           *)
KillSession(s) ==
  /\ live[s] # "none" /\ s \notin ghosts
  /\ live' = [live EXCEPT ![s] = "none"]
  /\ ghosts' = IF live[s] = "open" THEN ghosts \cup {s} ELSE ghosts
  /\ waiting' = {g \in waiting : asker[g] # s}
  /\ Becomes(s, DriveToDormant(sessions[s]))
  /\ UNCHANGED <<mapped, corrected, pendingGates, asker, history>>

(* Mutant: the request is dropped and the process that asked never told. *)
AnswerGate_Unresolved(s, g) ==
  /\ Born(s) /\ g \in pendingGates
  /\ pendingGates' = pendingGates \ {g} /\ UNCHANGED <<waiting, asker>>
  /\ Becomes(s, Raised(sessions[s], "none"))
  /\ Heeded(s) /\ cleared' = cleared \cup {s}
  /\ UNCHANGED <<mapped, corrected, live, ghosts>>

(* The request is looked up without the session it is answered for.        *)
AnswerGate(s, g) ==
  /\ Born(s) /\ g \in pendingGates
  /\ pendingGates' = pendingGates \ {g} /\ waiting' = waiting \ {g}
  /\ asker' = [asker EXCEPT ![g] = None]
  /\ Becomes(s, Raised(sessions[s], "none"))
  /\ Heeded(s) /\ cleared' = cleared \cup {s}
  /\ UNCHANGED <<mapped, corrected, live, ghosts>>

ClearAttention(s) ==
  /\ Born(s) /\ Becomes(s, Raised(sessions[s], "none"))
  /\ Heeded(s) /\ cleared' = cleared \cup {s}
  /\ UNCHANGED <<mapped, corrected, live, ghosts, gates>>

(* The daemon stops or dies, and starts again.                             *)
Restart ==
  /\ live' = [s \in Session |-> "none"] /\ ghosts' = {}
  /\ pendingGates' = {} /\ waiting' = {} /\ asker' = [g \in Gate |-> None]
  /\ sessions' = [s \in Session |->
       IF sessions[s].liveness \in {"spawning", "running"}
       THEN Out(sessions[s], "interrupted") ELSE sessions[s]]
  /\ UNCHANGED <<mapped, corrected, history>>

--------------------------------------------------------------------------------
(* The stream of a process: the registered one, or one that was killed.    *)

Streaming(s) == live[s] = "open" \/ s \in ghosts

Appends(s) ==
  /\ Streaming(s)
  /\ Becomes(s, Message(s, sessions[s])) /\ Heeded(s)
  /\ UNCHANGED <<mapped, corrected, live, ghosts, gates, cleared>>

(* An init message with a Claude session not yet known.                    *)
Maps(s) ==
  /\ Streaming(s)
  /\ Becomes(s, [Heard(s, sessions[s]) EXCEPT !.boundary = TRUE])
  /\ mapped' = mapped \cup {s} /\ Heeded(s)
  /\ UNCHANGED <<corrected, live, ghosts, gates, cleared>>

GateFires(s, g) ==
  /\ live[s] = "open" /\ g \notin pendingGates
  /\ pendingGates' = pendingGates \cup {g} /\ waiting' = waiting \cup {g}
  /\ asker' = [asker EXCEPT ![g] = s]
  /\ Becomes(s, Raised(Heard(s, sessions[s]), "gate"))
  /\ Heeded(s) /\ cleared' = cleared \ {s}
  /\ UNCHANGED <<mapped, corrected, live, ghosts>>

Completed(s) ==
  DriveToDormant([Raised(Heard(s, sessions[s]), "completed") EXCEPT
                    !.turn = FALSE, !.correction = FALSE])

(* The loop that reads a stream does not ask whether its process was       *)
(* killed.                                                                 *)
Result(s) ==
  /\ \/ /\ live[s] = "open" /\ live' = [live EXCEPT ![s] = "ended"]
        /\ waiting' = {g \in waiting : asker[g] # s} /\ UNCHANGED ghosts
     \/ s \in ghosts /\ ghosts' = ghosts \ {s} /\ UNCHANGED <<live, waiting>>
  /\ Becomes(s, Completed(s)) /\ Heeded(s)
  /\ UNCHANGED <<mapped, corrected, pendingGates, asker, cleared>>

WindDown(s) ==
  /\ \/ /\ live[s] = "open" /\ waiting' = {g \in waiting : asker[g] # s}
        /\ live' = [live EXCEPT ![s] = "none"] /\ UNCHANGED ghosts
        /\ Becomes(s, DriveToDormant(sessions[s]))
     \/ /\ live[s] = "ended" /\ live' = [live EXCEPT ![s] = "none"]
        /\ UNCHANGED <<waiting, ghosts, sessions>>
     \/ /\ s \in ghosts /\ ghosts' = ghosts \ {s} /\ UNCHANGED <<live, waiting>>
        /\ Becomes(s, DriveToDormant(sessions[s]))
  /\ UNCHANGED <<mapped, corrected, pendingGates, asker, history>>

--------------------------------------------------------------------------------
(* The watchdog.                                                           *)

Governed(rec) == rec.liveness \in {"spawning", "running"}

(* Mutants: no reason blocks; every reason of someone else blocks.         *)
Blocking_None(reason) == FALSE
Blocking_AnyReason(reason) == reason \notin {"none", "stale"}
Blocking(reason) == reason \in {"gate", "question"}

assessStageRun(rec) ==
  IF \/ ~Governed(rec) \/ Blocking(rec.attention) \/ rec.boundary \/ rec.correction
     \/ rec.silence = None \/ rec.silence < Band THEN "silent"
  ELSE IF rec.episodes < MaxEpisodes THEN "stale" ELSE "quarantine"

(* Mutant: only the reports of the same check count. *)
AlreadyReported_ThisCheck(rec) == FALSE
AlreadyReported(rec) == rec.attention = "stale"

ToReport(s) == assessStageRun(sessions[s]) # "silent" /\ ~AlreadyReported(sessions[s])

(* Both verdicts are reported, and neither acted on.  The count of         *)
(* episodes only matters up to the limit.                                  *)
checkOnce ==
  /\ sessions' = [s \in Session |->
       IF ToReport(s)
       THEN [Raised(sessions[s], "stale") EXCEPT !.episodes = IF @ < MaxEpisodes THEN @ + 1 ELSE @]
       ELSE sessions[s]]
  /\ told' = [s \in Session |-> IF ToReport(s) /\ told[s] < 2 THEN told[s] + 1 ELSE told[s]]
  /\ UNCHANGED <<mapped, corrected, live, ghosts, gates, cleared>>

Later(silence) == IF silence = None \/ silence = Band THEN silence ELSE silence + 1

(* The clock.                                                              *)
Tick ==
  /\ sessions' = [s \in Session |-> [sessions[s] EXCEPT !.silence = Later(@)]]
  /\ mapped' = {} /\ corrected' = {}
  /\ UNCHANGED <<live, ghosts, gates, history>>

--------------------------------------------------------------------------------
Stream(s) == Appends(s) \/ Maps(s) \/ (\E g \in Gate : GateFires(s, g)) \/ Result(s) \/ WindDown(s)
Human(s) == \/ ResumeSession(s) \/ SendMessage(s) \/ KillSession(s) \/ ClearAttention(s)
            \/ \E g \in Gate : AnswerGate(s, g)
Next == \/ \E s \in Session : StartRun(s) \/ Stream(s) \/ Human(s)
        \/ Restart \/ checkOnce \/ Tick

Spec == Init /\ [][Next]_vars

(* The interval timer of the daemon, and time.                             *)
FairSpec == Spec /\ WF_vars(checkOnce) /\ WF_vars(Tick)

--------------------------------------------------------------------------------
(* A run that stays silent is reported once, however often it is checked:  *)
(* again only after it has spoken or a human has cleared its attention.    *)
OneReportPerSilence == \A s \in Session : told[s] <= 1

WaitsForHuman(s) == \E g \in waiting : asker[g] = s

(* Who is reported is a run that has been silent for the whole band, and   *)
(* that waits for no human unless somebody has cleared its attention since *)
(* it last asked: kills, resumes, restarts and late streams of killed      *)
(* processes notwithstanding.                                              *)
ReportsAreWarranted ==
  [][\A s \in Session : told'[s] > told[s] =>
       /\ sessions[s].silence = Band
       /\ live[s] # "none" \/ sessions[s].liveness = "spawning"
       /\ WaitsForHuman(s) => s \in cleared]_vars

(* A governed run that is silent and that nothing protects.                *)
Unprotected(s) ==
  /\ Governed(sessions[s]) /\ sessions[s].attention # "gate"
  /\ ~sessions[s].boundary /\ ~sessions[s].correction
  /\ sessions[s].silence \notin {None, 0}

(* Unless it is spoken to or speaks first, ends, or comes under protection, *)
(* it is reported: in this very silence, which told counts, whatever stands *)
(* in its attention.  The comments claim that of every silence, for the    *)
(* report "clears the moment the run appends again"                        *)
(* (daemon/src/taskWatchdog.ts:66-67).  No append clears it, so the one    *)
(* exception, due to the code, is a silence begun with a report standing.  *)
SilenceIsReported == \A s \in Session :
  Unprotected(s) /\ sessions[s].attention # "stale" ~> told[s] > 0 \/ ~Unprotected(s)
===============================================================================
