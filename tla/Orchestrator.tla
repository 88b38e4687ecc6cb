------------------------------ MODULE Orchestrator ------------------------------
(***************************************************************************)
(* The standing orchestrator of one project: the route that ensures it     *)
(* (daemon/src/orchestratorApi.ts), and the steward that asks it to bank   *)
(* its state as its context fills and answers the PreCompact hook          *)
(* (daemon/src/compactionSteward.ts and the policy in                      *)
(* core/src/orchestrator/compactionSteward.ts).                            *)
(*                                                                         *)
(* Of the session host it has what these two call and hear: the process    *)
(* of a session, a killed one that has not wound down, and the liveness in *)
(* the log.  Token counts are the rungs they reach.                        *)
(***************************************************************************)
EXTENDS Integers, SequencesExt

CONSTANTS
  Session,    \* ids for the project's orchestrators
  Threshold,  \* the fill at which each rung of the ladder is reached
  Hold,       \* holdThresholdTokens
  MaxFill,    \* bound on the fill
  MaxTime,    \* bound on the clock
  MaxLog,     \* bound on the steward's events in a stream
  None

ASSUME LadderAssumption ==
  /\ Threshold \in Seq(1..MaxFill) /\ Hold \in 1..MaxFill
  /\ \A i, j \in DOMAIN Threshold : i < j => Threshold[i] <= Threshold[j]
ASSUME BoundAssumption == {MaxFill, MaxTime, MaxLog} \subseteq Nat /\ None \notin Int

Level == DOMAIN Threshold
Time == 0..MaxTime

VARIABLES
  up,        \* the daemon runs
  founded,   \* the project's orchestrator sessions, oldest first
  liveness,  \* of each session, as the log has it
  process,   \* the registered stream: "none", "open", "compacted", "ended"
  ghost,     \* the stream of a killed process: "none", "open", "compacted"
  fill,      \* latestContextTokens of each session
  log,       \* nudges and compactions on each stream; level 0 is a compaction
  ledger,    \* the memory of the steward, with the seq it folds next
  watched,   \* sessions whose stream the steward subscribed to
  now,       \* the clock
  notes,     \* when the standing notes were last written
  door,      \* the last answer to a PreCompact hook: "none", "open", "held"
  banked     \* HISTORY: sessions asked and, since, with notes written and kept

host == <<up, founded, liveness, process, ghost>>
vars == <<host, fill, log, ledger, watched, now, notes, door, banked>>

--------------------------------------------------------------------------------
(* The escalation memory: a fold of the stream, from its first event on.   *)

EmptyMemory == [highest |-> 0, first |-> None]
Fresh == [memory |-> EmptyMemory, next |-> 1]

Nudge(l, t) == [level |-> l, at |-> t]
Compaction == [level |-> 0, at |-> None]

First_Latest(memory, entry) == entry.at                         \* mutant
First(memory, entry) == IF memory.first = None THEN entry.at ELSE memory.first

Highest(memory, entry) == Max({memory.highest, entry.level})

Remember(memory, entry) ==
  IF entry = Compaction THEN EmptyMemory
  ELSE [highest |-> Highest(memory, entry), first |-> First(memory, entry)]

Recall(memory, entries) == FoldLeft(Remember, memory, entries)

(* What the ledger makes of the events it has not folded yet.              *)
Current(s) ==
  [memory |-> Recall(ledger[s].memory, SubSeq(log[s], ledger[s].next, Len(log[s]))),
   next |-> Len(log[s]) + 1]

Crossed(f, memory) == {l \in Level : Threshold[l] <= f /\ memory.highest < l}

(* The rung to say now: the lowest crossed one that was not said yet.      *)
Rung_Highest(levels) == Max(levels)                             \* mutant
Rung(levels) == Min(levels)

(* Whether the door holds: past the threshold, having asked, and nothing   *)
(* banked since.  What is unknown opens it; missing notes do not.          *)
Holds(f, memory) ==
  /\ f # None /\ Hold <= f
  /\ memory.first # None
  /\ notes = None \/ notes < memory.first

--------------------------------------------------------------------------------
(* Types, and D56: a project has one orchestrator, whatever became of its  *)
(* process and of the daemon since it was founded.                         *)
TypeOK ==
  /\ up \in BOOLEAN
  /\ founded \in Seq(Session) /\ Len(founded) <= 1
  /\ liveness \in [Session -> {"unborn", "spawning", "running", "dormant", "interrupted"}]
  /\ process \in [Session -> {"none", "open", "compacted", "ended"}]
  /\ ghost \in [Session -> {"none", "open", "compacted"}]
  /\ fill \in [Session -> 0..MaxFill \cup {None}]
  /\ log \in [Session -> Seq([level : Level \cup {0}, at : Time \cup {None}])]
  /\ \A s \in Session :
       /\ ledger[s].memory \in [highest : Level \cup {0}, first : Time \cup {None}]
       /\ ledger[s].next \in 1..Len(log[s]) + 1
  /\ watched \subseteq Session
  /\ now \in Time /\ notes \in Time \cup {None}
  /\ door \in [Session -> {"none", "open", "held"}]
  /\ banked \subseteq Session

Init ==
  /\ up = TRUE /\ founded = <<>>
  /\ liveness = [s \in Session |-> "unborn"]
  /\ process = [s \in Session |-> "none"] /\ ghost = [s \in Session |-> "none"]
  /\ fill = [s \in Session |-> None] /\ log = [s \in Session |-> <<>>]
  /\ ledger = [s \in Session |-> Fresh] /\ watched = {}
  /\ now = 0 /\ notes = None
  /\ door = [s \in Session |-> "none"] /\ banked = {}

Born(s) == liveness[s] # "unborn"

--------------------------------------------------------------------------------
(* The session host.                                                       *)

Started(s) == /\ process' = [process EXCEPT ![s] = "open"]
              /\ liveness' = [liveness EXCEPT ![s] = "running"]

(* A resume that runs to its end, and one whose process cannot be started. *)
Resumed(s) == process[s] = "none" /\ Started(s)
ResumeThrows(s) ==
  /\ process[s] = "none" /\ UNCHANGED process
  /\ liveness' = [liveness EXCEPT ![s] = IF @ = "running" THEN @ ELSE "spawning"]

ToDormant(s) == [liveness EXCEPT ![s] = IF @ = "running" THEN "dormant" ELSE @]

(* What a send does to the host when it is accepted.                       *)
Accepts(s) ==
  \/ process[s] # "none" /\ UNCHANGED <<liveness, process>>
  \/ liveness[s] \in {"dormant", "interrupted"} /\ Resumed(s)

(* And when it is not: there is nothing to send to and no resume, or the   *)
(* resume is refused by the preflight or throws.                           *)
Refuses(s) ==
  /\ process[s] = "none"
  /\ \/ UNCHANGED <<liveness, process>>
     \/ liveness[s] \in {"dormant", "interrupted"} /\ ResumeThrows(s)

steward == <<fill, log, ledger, now, notes, door, banked>>

(* A human resumes the session, or sends to it and thereby resumes it.     *)
ResumeSession(s) ==
  /\ up /\ Born(s)
  /\ Resumed(s) \/ ResumeThrows(s)
  /\ UNCHANGED <<up, founded, ghost, watched, steward>>

(* At most one killed process of a session winds down at a time.           *)
KillSession(s) ==
  /\ up /\ process[s] # "none" /\ ghost[s] = "none"
  /\ process' = [process EXCEPT ![s] = "none"]
  /\ ghost' = [ghost EXCEPT ![s] = IF process[s] = "ended" THEN @ ELSE process[s]]
  /\ liveness' = ToDormant(s)
  /\ UNCHANGED <<up, founded, watched, steward>>

Result(s) ==
  /\ up /\ process[s] = "open"
  /\ process' = [process EXCEPT ![s] = "ended"]
  /\ liveness' = ToDormant(s)
  /\ UNCHANGED <<up, founded, ghost, watched, steward>>

(* A stream that ended without a result drives the session dormant, that   *)
(* of a killed process too, whatever was started since.                    *)
WindDown(s) ==
  /\ up
  /\ \/ /\ process[s] # "none"
        /\ process' = [process EXCEPT ![s] = "none"] /\ UNCHANGED ghost
        /\ liveness' = IF process[s] = "ended" THEN liveness ELSE ToDormant(s)
     \/ /\ ghost[s] # "none"
        /\ ghost' = [ghost EXCEPT ![s] = "none"] /\ UNCHANGED process
        /\ liveness' = ToDormant(s)
  /\ UNCHANGED <<up, founded, watched, steward>>

(* The daemon stops or dies, and its children with it.  The memory of the  *)
(* steward goes.                                                           *)
Dies ==
  /\ up' = FALSE /\ watched' = {} /\ ledger' = [s \in Session |-> Fresh]
  /\ process' = [s \in Session |-> "none"] /\ ghost' = [s \in Session |-> "none"]

DaemonExits ==
  /\ up /\ Dies
  /\ UNCHANGED <<founded, liveness, fill, log, now, notes, door, banked>>

Restart ==
  /\ ~up /\ up' = TRUE
  /\ liveness' = [s \in Session |-> IF liveness[s] \in {"running", "spawning"}
                                    THEN "interrupted" ELSE liveness[s]]
  /\ watched' = {s \in Session : Born(s)}
  /\ UNCHANGED <<founded, process, ghost, steward>>

--------------------------------------------------------------------------------
(* Ensure: the newest session that is not dead stands; nothing in the      *)
(* daemon makes one dead.                                                  *)

Adoptable_NotSpawning(s) == liveness[s] # "spawning"            \* mutant
Adoptable(s) == TRUE

Standing == {i \in DOMAIN founded : Adoptable(founded[i])}
AlreadyLive(s) == liveness[s] \in {"running", "spawning"}

(* The session is in the log, and the steward watches it, before its       *)
(* process is started, which may throw.  Its briefing is an ordinary turn. *)
Found(s) ==
  /\ Standing = {} /\ ~Born(s)
  /\ founded' = Append(founded, s)
  /\ watched' = watched \cup {s}
  /\ \/ Started(s)
     \/ liveness' = [liveness EXCEPT ![s] = "spawning"] /\ UNCHANGED process
  /\ UNCHANGED <<up, ghost, steward>>

(* Of a session that is live already ensure asks nothing; the resume of    *)
(* one whose process has not wound down is refused.                        *)
Ensure(s) ==
  /\ up
  /\ \/ Found(s)
     \/ Standing # {} /\ s = founded[Max(Standing)] /\ ~AlreadyLive(s) /\ ResumeSession(s)

--------------------------------------------------------------------------------
(* The steward.                                                            *)

Reads(stream, s) == stream[s] = "open"

(* A usage block, and what the steward makes of the fill.  The record of a *)
(* nudge follows the acceptance of its turn; the daemon may die between,   *)
(* and then the process has not read the turn either.                      *)
UsageBlock(s) ==
  /\ up
  /\ Reads(process, s) \/ Reads(ghost, s)
  /\ Len(log[s]) < MaxLog
  /\ \E f \in 0..MaxFill :
       LET memory == Current(s).memory
           l == Rung(Crossed(f, memory))
       IN  /\ fill' = [fill EXCEPT ![s] = f]
           /\ \/ /\ Crossed(f, memory) = {} \/ s \notin watched
                 /\ ledger' = IF s \in watched THEN [ledger EXCEPT ![s] = Current(s)] ELSE ledger
                 /\ UNCHANGED <<host, log, watched>>
              \/ /\ Crossed(f, memory) # {} /\ s \in watched
                 /\ \/ Accepts(s) /\ log' = [log EXCEPT ![s] = Append(@, Nudge(l, now))]
                    \/ Refuses(s) /\ UNCHANGED log
                 /\ ledger' = [ledger EXCEPT ![s] = Current(s)]
                 /\ UNCHANGED <<up, founded, ghost, watched>>
              \/ /\ Crossed(f, memory) # {} /\ s \in watched
                 /\ Dies /\ UNCHANGED <<founded, liveness, log>>
  /\ UNCHANGED <<now, notes, door, banked>>

(* The hook of a process that is about to compact.  A relay that gets no   *)
(* answer lets it.                                                         *)
PreCompact(s) ==
  /\ up /\ process[s] = "open"
  /\ \/ /\ door' = [door EXCEPT ![s] = IF Holds(fill[s], Current(s).memory)
                                       THEN "held" ELSE "open"]
        /\ ledger' = [ledger EXCEPT ![s] = Current(s)]
     \/ door' = [door EXCEPT ![s] = "open"] /\ UNCHANGED ledger
  /\ UNCHANGED <<host, fill, log, watched, now, notes, banked>>

(* The transcript is replaced; the host has still to read the boundary.    *)
Compact(s) ==
  /\ process[s] = "open" /\ door[s] = "open"
  /\ process' = [process EXCEPT ![s] = "compacted"]
  /\ door' = [door EXCEPT ![s] = "none"]
  /\ UNCHANGED <<up, founded, liveness, ghost, fill, log, ledger, watched, now, notes, banked>>

CompactionObserved(s) ==
  /\ up /\ Len(log[s]) < MaxLog
  /\ \/ /\ process[s] = "compacted" /\ UNCHANGED ghost
        /\ process' = [process EXCEPT ![s] = "open"]
     \/ /\ ghost[s] = "compacted" /\ UNCHANGED process
        /\ ghost' = [ghost EXCEPT ![s] = "open"]
  /\ log' = [log EXCEPT ![s] = Append(@, Compaction)]
  /\ banked' = banked \ {s}
  /\ UNCHANGED <<up, founded, liveness, fill, ledger, watched, now, notes, door>>

WriteNotes(s) ==
  /\ process[s] = "open"
  /\ notes' = now
  /\ banked' = banked \cup {t \in Session : log[t] # <<>> /\ Last(log[t]) # Compaction}
  /\ UNCHANGED <<host, fill, log, ledger, watched, now, door>>

(* The file goes, or the stat of it fails from now on: no evidence is left *)
(* that anything was banked.                                               *)
LoseNotes ==
  /\ notes # None /\ notes' = None /\ banked' = {}
  /\ UNCHANGED <<host, fill, log, ledger, watched, now, door>>

Tick ==
  /\ now < MaxTime /\ now' = now + 1
  /\ UNCHANGED <<host, fill, log, ledger, watched, notes, door, banked>>

--------------------------------------------------------------------------------
Next ==
  \/ \E s \in Session :
       \/ Ensure(s) \/ ResumeSession(s) \/ KillSession(s) \/ Result(s) \/ WindDown(s)
       \/ UsageBlock(s) \/ PreCompact(s) \/ Compact(s) \/ CompactionObserved(s)
       \/ WriteNotes(s)
  \/ DaemonExits \/ Restart \/ LoseNotes \/ Tick

Spec == Init /\ [][Next]_vars

--------------------------------------------------------------------------------
(* Between two compactions the levels on a stream are 1, 2, ...: none is   *)
(* said twice and none before the one under it, however the fill jumps and *)
(* whatever is refused or forgotten in a restart.                          *)
LadderIsClimbed ==
  \A s \in Session : \A i \in DOMAIN log[s] :
    log[s][i].level # 0 =>
      log[s][i].level = 1 + IF i = 1 THEN 0 ELSE log[s][i - 1].level

(* The hold "lifts the moment you write the notes" (composeFirmNudge) and   *)
(* stays lifted, through later rungs and restarts, until a compaction is   *)
(* observed or the notes are gone.                                         *)
NotesLiftTheHold ==
  [][\A s \in banked : door[s] # "held" => door'[s] # "held"]_vars
================================================================================
