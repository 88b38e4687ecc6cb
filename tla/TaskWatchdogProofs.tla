--------------------------- MODULE TaskWatchdogProofs ---------------------------
(* Theorems about TaskWatchdog: whom the watchdog reports, for any number   *)
(* of runs and requests and any band.                                       *)
EXTENDS TaskWatchdog, TLAPS

(* What holds of each session.  A report stands in its attention until it   *)
(* is taken back; what runs is driven by a process, and only that process   *)
(* waits for a human; while it does, its attention says so, or somebody has *)
(* cleared it, or a late result has ended its run.                          *)
Reported(s) ==
  /\ told[s] <= 1 /\ (told[s] = 1 => sessions[s].attention = "stale")
  /\ ~Born(s) => sessions[s].attention = "none"
Driven(s) ==
  /\ live[s] # "none" \/ s \in ghosts => Born(s)
  /\ sessions[s].liveness = "running" => live[s] = "open"
  /\ sessions[s].liveness = "spawning" => live[s] = "none"
  /\ WaitsForHuman(s) => live[s] = "open"
Asked(s) ==
  WaitsForHuman(s) =>
    s \in cleared \/ sessions[s].attention = "gate" \/ ~Governed(sessions[s])

WatchInv == TypeOK /\ \A s \in Session : Reported(s) /\ Driven(s) /\ Asked(s)

--------------------------------------------------------------------------------
LEMMA InitWatch == ASSUME Init PROVE WatchInv
BY BandAssumption, NoneAssumption
   DEF Init, WatchInv, TypeOK, SessionRecord, Unborn, Reported, Driven, Asked, Born, WaitsForHuman

(* The records the events make are records.                                 *)
LEMMA Records ==
  ASSUME NEW s \in Session, NEW rec \in SessionRecord
  PROVE  /\ Heard(s, rec) \in SessionRecord
         /\ Heard(s, rec).liveness = rec.liveness /\ Heard(s, rec).attention = rec.attention
         /\ Message(s, rec) \in SessionRecord
         /\ Message(s, rec).liveness = rec.liveness /\ Message(s, rec).attention = rec.attention
         /\ DriveToDormant(rec) \in SessionRecord
         /\ DriveToDormant(rec).attention = rec.attention
         /\ DriveToDormant(rec).liveness = IF rec.liveness = "running" THEN "dormant" ELSE rec.liveness
<1>1. /\ Heard(s, rec) \in SessionRecord
      /\ Heard(s, rec).liveness = rec.liveness /\ Heard(s, rec).attention = rec.attention
  <2> DEFINE b == rec.boundary /\ s \in mapped
             c == rec.correction /\ s \in corrected
  <2>1. Heard(s, rec) = [rec EXCEPT !.silence = 0, !.boundary = b, !.correction = c]
    BY DEF Heard
  <2>2. b \in BOOLEAN /\ c \in BOOLEAN /\ 0 \in 0..Band
    BY BandAssumption
  <2> HIDE DEF b, c
  <2> QED BY <2>1, <2>2 DEF SessionRecord
<1>2. /\ Message(s, rec) \in SessionRecord
      /\ Message(s, rec).liveness = rec.liveness /\ Message(s, rec).attention = rec.attention
  <2> DEFINE h == Heard(s, rec)
  <2>1. Message(s, rec) = [h EXCEPT !.turn = TRUE]
    BY DEF Message
  <2> HIDE DEF h
  <2>2. h \in SessionRecord /\ h.liveness = rec.liveness /\ h.attention = rec.attention
    BY <1>1 DEF h
  <2> QED BY <2>1, <2>2 DEF SessionRecord
<1>3. /\ DriveToDormant(rec) \in SessionRecord
      /\ DriveToDormant(rec).attention = rec.attention
      /\ DriveToDormant(rec).liveness = IF rec.liveness = "running" THEN "dormant" ELSE rec.liveness
  BY DEF SessionRecord, DriveToDormant, Out
<1> QED BY <1>1, <1>2, <1>3

(* What a step on session s does to the others: at most a request of theirs *)
(* is answered.                                                             *)
Others(s) == \A t \in Session \ {s} :
  /\ told'[t] = told[t] /\ live'[t] = live[t]
  /\ (t \in ghosts' => t \in ghosts) /\ (t \in cleared => t \in cleared')
  /\ WaitsForHuman(t)' => WaitsForHuman(t)

(* A step on session s preserves the invariant if what it makes of s        *)
(* satisfies it.                                                            *)
LEMMA Step ==
  ASSUME WatchInv, NEW s \in Session, NEW next \in SessionRecord,
         Becomes(s, next), Others(s),
         sessions' \in [Session -> SessionRecord] => TypeOK',
         next.liveness # "unborn",
         told'[s] = 0 \/ (told'[s] = told[s] /\ (told[s] = 1 => next.attention = "stale")),
         next.liveness = "running" \/ WaitsForHuman(s)' => live'[s] = "open",
         next.liveness = "spawning" => live'[s] = "none",
         WaitsForHuman(s)' => s \in cleared' \/ next.attention = "gate" \/ ~Governed(next)
  PROVE  WatchInv'
<1>1. TypeOK' /\ sessions'[s] = next
  BY DEF WatchInv, TypeOK, Becomes
<1>2. Reported(s)' /\ Driven(s)' /\ Asked(s)'
  BY <1>1 DEF WatchInv, Reported, Driven, Asked, Born, Governed
<1>3. ASSUME NEW t \in Session, t # s PROVE Reported(t)' /\ Driven(t)' /\ Asked(t)'
  <2>1. sessions'[t] = sessions[t]
    BY <1>3 DEF Becomes, WatchInv, TypeOK
  <2> QED BY <1>3, <2>1 DEF Others, WatchInv, Reported, Driven, Asked, Born
<1> QED BY <1>1, <1>2, <1>3 DEF WatchInv

(* What a process of s waits for when none of its requests is new.          *)
LEMMA SameRequests ==
  ASSUME NEW s \in Session, waiting' \subseteq waiting, asker' = asker
  PROVE  WaitsForHuman(s)' => WaitsForHuman(s)
BY DEF WaitsForHuman

--------------------------------------------------------------------------------
(* The actions, one by one.                                                 *)

LEMMA StartRunWatch == ASSUME WatchInv, NEW s \in Session, StartRun(s) PROVE WatchInv'
<1> DEFINE rec == [Unborn EXCEPT !.liveness = "running"]
<1>1. PICK made \in {rec, Message(s, rec)} : Becomes(s, made)
  BY DEF StartRun
<1>2. rec \in SessionRecord /\ rec.liveness = "running" /\ rec.attention = "none"
  <2>1. 0 \in 0..MaxEpisodes
    BY BandAssumption
  <2>2. Unborn \in SessionRecord /\ Unborn.attention = "none"
    BY <2>1 DEF SessionRecord, Unborn
  <2> QED BY <2>2 DEF SessionRecord
<1> HIDE DEF rec
<1>3. made \in SessionRecord /\ made.liveness = "running" /\ made.attention = "none"
  BY <1>2, Records
<1>4. ~Born(s) /\ live' = [live EXCEPT ![s] = "open"]
      /\ UNCHANGED <<mapped, corrected, ghosts, gates, history>>
  BY DEF StartRun
<1>5. told'[s] = 0 /\ ~WaitsForHuman(s)'
  <2>1. told[s] = 0 /\ live[s] = "none"
    BY <1>4 DEF WatchInv, Reported, Driven, TypeOK
  <2> QED BY <1>4, <2>1 DEF history, gates, WaitsForHuman, WatchInv, Driven
<1>6. live'[s] = "open" /\ Others(s) /\ (sessions' \in [Session -> SessionRecord] => TypeOK')
  BY <1>4 DEF Others, history, gates, WaitsForHuman, WatchInv, TypeOK
<1> QED BY <1>1, <1>3, <1>5, <1>6, Step

LEMMA ResumeWatch == ASSUME WatchInv, NEW s \in Session, ResumeSession(s) PROVE WatchInv'
<1> DEFINE old == sessions[s]
<1>1. /\ old \in SessionRecord /\ Born(s) /\ live[s] = "none" /\ ~WaitsForHuman(s)
      /\ told[s] <= 1 /\ (told[s] = 1 => old.attention = "stale")
  BY DEF ResumeSession, WatchInv, TypeOK, Driven, Reported
<1>2. UNCHANGED <<mapped, corrected, ghosts, told, cleared, pendingGates, asker, waiting>>
  BY DEF ResumeSession, gates, history
<1>3. ~WaitsForHuman(s)' /\ told'[s] = told[s]
  BY <1>1, <1>2 DEF WaitsForHuman
<1>4. CASE live' = [live EXCEPT ![s] = "open"] /\ Becomes(s, Resumed(s, old))
  <2>1. /\ Resumed(s, old) \in SessionRecord /\ Resumed(s, old).liveness = "running"
        /\ Resumed(s, old).attention = old.attention
    BY <1>1 DEF Resumed, SessionRecord
  <2>2. live'[s] = "open" /\ Others(s) /\ (sessions' \in [Session -> SessionRecord] => TypeOK')
    BY <1>2, <1>4 DEF Others, WaitsForHuman, WatchInv, TypeOK
  <2> QED BY <1>1, <1>3, <1>4, <2>1, <2>2, Step
<1>5. CASE UNCHANGED live /\ Becomes(s, [old EXCEPT !.liveness = "spawning"])
  <2> DEFINE made == [old EXCEPT !.liveness = "spawning"]
  <2>1. made \in SessionRecord /\ made.liveness = "spawning" /\ made.attention = old.attention
    BY <1>1 DEF SessionRecord
  <2>2. /\ Others(s) /\ (sessions' \in [Session -> SessionRecord] => TypeOK')
        /\ live'[s] = "none"
    BY <1>1, <1>2, <1>5 DEF Others, WaitsForHuman, WatchInv, TypeOK
  <2> HIDE DEF made
  <2>3. Becomes(s, made)
    BY <1>5 DEF made
  <2> QED BY <1>1, <1>3, <2>1, <2>2, <2>3, Step
<1> QED BY <1>4, <1>5 DEF ResumeSession

(* A message leaves liveness and attention alone.                           *)
LEMMA Delivered ==
  ASSUME NEW s \in Session, NEW rec \in SessionRecord, Deliver(s, rec)
  PROVE  \E made \in SessionRecord :
           Becomes(s, made) /\ made.liveness = rec.liveness /\ made.attention = rec.attention
<1> DEFINE said == Message(s, rec)
<1>1. said \in SessionRecord /\ said.liveness = rec.liveness /\ said.attention = rec.attention
  BY Records
<1>2. Becomes(s, [said EXCEPT !.correction = TRUE]) \/ Becomes(s, said)
  BY DEF Deliver
<1> HIDE DEF said
<1>3. /\ [said EXCEPT !.correction = TRUE] \in SessionRecord
      /\ [said EXCEPT !.correction = TRUE].liveness = rec.liveness
      /\ [said EXCEPT !.correction = TRUE].attention = rec.attention
  BY <1>1 DEF SessionRecord
<1> QED BY <1>1, <1>2, <1>3

LEMMA SendWatch == ASSUME WatchInv, NEW s \in Session, SendMessage(s) PROVE WatchInv'
<1> DEFINE old == sessions[s]
<1>1. /\ old \in SessionRecord /\ UNCHANGED <<mapped, ghosts, cleared, pendingGates, asker, waiting>>
      /\ told' = [told EXCEPT ![s] = 0] /\ told \in [Session -> 0..2]
      /\ live \in [Session -> {"none", "open", "ended"}]
  BY DEF SendMessage, gates, Heeded, WatchInv, TypeOK
<1>2. corrected' \subseteq Session
  BY DEF SendMessage, Deliver, WatchInv, TypeOK
<1>3. WaitsForHuman(s)' => WaitsForHuman(s)
  BY <1>1 DEF WaitsForHuman
<1>4. PICK rec \in SessionRecord :
        /\ Deliver(s, rec) /\ rec.attention = old.attention
        /\ \/ rec.liveness = old.liveness /\ Born(s) /\ UNCHANGED live
           \/ rec.liveness = "running" /\ live' = [live EXCEPT ![s] = "open"] /\ live[s] = "none"
  <2>1. CASE live[s] # "none" /\ UNCHANGED live /\ Deliver(s, old)
    <3>1. Born(s)
      BY <2>1 DEF WatchInv, Driven
    <3> QED BY <1>1, <2>1, <3>1
  <2>2. CASE /\ live[s] = "none" /\ live' = [live EXCEPT ![s] = "open"]
             /\ Deliver(s, Resumed(s, old))
    <3>1. /\ Resumed(s, old) \in SessionRecord /\ Resumed(s, old).liveness = "running"
          /\ Resumed(s, old).attention = old.attention
      BY <1>1 DEF Resumed, SessionRecord
    <3> QED BY <2>2, <3>1
  <2> QED BY <2>1, <2>2 DEF SendMessage
<1>5. PICK made \in SessionRecord :
        Becomes(s, made) /\ made.liveness = rec.liveness /\ made.attention = rec.attention
  BY <1>4, Delivered
<1>6. Others(s)
  BY <1>1, <1>4 DEF Others, WaitsForHuman
<1>7. sessions' \in [Session -> SessionRecord] => TypeOK'
  <2>1. live' \in [Session -> {"none", "open", "ended"}] /\ told' \in [Session -> 0..2]
    BY <1>1, <1>4
  <2> QED BY <1>1, <1>2, <2>1 DEF WatchInv, TypeOK
<1>8. made.liveness = "running" \/ WaitsForHuman(s)' => live'[s] = "open"
  BY <1>1, <1>3, <1>4, <1>5 DEF WatchInv, Driven
<1>11. made.liveness = "spawning" => live'[s] = "none"
  BY <1>4, <1>5 DEF WatchInv, Driven
<1>9. WaitsForHuman(s)' => s \in cleared' \/ made.attention = "gate" \/ ~Governed(made)
  BY <1>1, <1>3, <1>4, <1>5 DEF WatchInv, Asked, Driven, Governed
<1>10. told'[s] = 0 /\ made.liveness # "unborn"
  BY <1>1, <1>4, <1>5 DEF Born
<1> QED BY <1>5, <1>6, <1>7, <1>8, <1>9, <1>10, <1>11, Step
LEMMA KillWatch == ASSUME WatchInv, NEW s \in Session, KillSession(s) PROVE WatchInv'
<1> DEFINE old == sessions[s]
           made == DriveToDormant(old)
<1>1. /\ old \in SessionRecord /\ Becomes(s, made)
      /\ live' = [live EXCEPT ![s] = "none"] /\ ghosts' \in {ghosts, ghosts \cup {s}}
      /\ waiting' = {g \in waiting : asker[g] # s}
      /\ UNCHANGED <<mapped, corrected, pendingGates, asker, told, cleared>>
  BY DEF KillSession, history, WatchInv, TypeOK
<1>2. /\ made \in SessionRecord /\ made.attention = old.attention
      /\ made.liveness = IF old.liveness = "running" THEN "dormant" ELSE old.liveness
  BY <1>1, Records
<1>3. Born(s) /\ told[s] <= 1 /\ (told[s] = 1 => old.attention = "stale") /\ live'[s] = "none"
  BY <1>1 DEF KillSession, WatchInv, Driven, Reported, TypeOK
<1> HIDE DEF made
<1>4. ~WaitsForHuman(s)'
  BY <1>1 DEF WaitsForHuman
<1>5. Others(s) /\ (sessions' \in [Session -> SessionRecord] => TypeOK')
  BY <1>1 DEF Others, WaitsForHuman, WatchInv, TypeOK
<1>6. made.liveness # "unborn" /\ made.liveness # "running" /\ told'[s] = told[s]
  BY <1>1, <1>2, <1>3 DEF Born
<1> QED BY <1>1, <1>2, <1>3, <1>4, <1>5, <1>6, Step

(* The attention of s is cleared, and perhaps a request answered.           *)
LEMMA ClearedWatch ==
  ASSUME WatchInv, NEW s \in Session, Born(s), Becomes(s, Raised(sessions[s], "none")),
         Heeded(s), cleared' = cleared \cup {s}, UNCHANGED <<mapped, corrected, live, ghosts>>,
         waiting' \subseteq pendingGates', pendingGates' \subseteq pendingGates,
         asker' \in [Gate -> Session \cup {None}], waiting' \subseteq waiting,
         \A g \in waiting' : asker'[g] = asker[g]
  PROVE  WatchInv'
<1> DEFINE old == sessions[s]
           made == Raised(old, "none")
<1>1. made \in SessionRecord /\ made.liveness = old.liveness /\ old.liveness # "unborn"
  BY DEF Raised, SessionRecord, Born, WatchInv, TypeOK
<1>2. told' = [told EXCEPT ![s] = 0] /\ told'[s] = 0 /\ live'[s] = live[s]
  BY DEF Heeded, WatchInv, TypeOK
<1>3. WaitsForHuman(s)' => WaitsForHuman(s)
  BY DEF WaitsForHuman
<1>4. Others(s)
  BY <1>2 DEF Others, WaitsForHuman
<1>5. sessions' \in [Session -> SessionRecord] => TypeOK'
  <2>1. told' \in [Session -> 0..2] /\ cleared' \subseteq Session
    BY <1>2 DEF WatchInv, TypeOK
  <2>2. /\ mapped' = mapped /\ corrected' = corrected /\ live' = live /\ ghosts' = ghosts
        /\ pendingGates' \subseteq Gate
    BY DEF WatchInv, TypeOK
  <2> QED BY <2>1, <2>2 DEF WatchInv, TypeOK
<1>6. /\ made.liveness = "running" \/ WaitsForHuman(s)' => live'[s] = "open"
      /\ made.liveness = "spawning" => live'[s] = "none"
  BY <1>1, <1>2, <1>3 DEF WatchInv, Driven
<1>7. s \in cleared' /\ Becomes(s, made)
  OBVIOUS
<1> HIDE DEF made
<1> QED BY <1>1, <1>2, <1>4, <1>5, <1>6, <1>7, Step

LEMMA AnswerWatch ==
  ASSUME WatchInv, NEW s \in Session, NEW g \in Gate, AnswerGate(s, g) PROVE WatchInv'
<1>1. /\ pendingGates' = pendingGates \ {g} /\ waiting' = waiting \ {g}
      /\ asker' = [asker EXCEPT ![g] = None]
      /\ waiting \subseteq pendingGates /\ pendingGates \subseteq Gate
      /\ asker \in [Gate -> Session \cup {None}]
  BY DEF AnswerGate, WatchInv, TypeOK
<1>2. /\ waiting' \subseteq pendingGates' /\ pendingGates' \subseteq pendingGates
      /\ asker' \in [Gate -> Session \cup {None}] /\ waiting' \subseteq waiting
      /\ \A h \in waiting' : asker'[h] = asker[h]
  BY <1>1
<1> QED BY <1>2, ClearedWatch DEF AnswerGate

LEMMA ClearWatch == ASSUME WatchInv, NEW s \in Session, ClearAttention(s) PROVE WatchInv'
<1>1. /\ waiting' \subseteq pendingGates' /\ pendingGates' \subseteq pendingGates
      /\ asker' \in [Gate -> Session \cup {None}] /\ waiting' \subseteq waiting
      /\ \A h \in waiting' : asker'[h] = asker[h]
  BY DEF ClearAttention, gates, WatchInv, TypeOK
<1> QED BY <1>1, ClearedWatch DEF ClearAttention

(* Nothing runs any more, and nothing waits.                                *)
LEMMA RestartWatch == ASSUME WatchInv, Restart PROVE WatchInv'
<1>1. ASSUME NEW t \in Session
      PROVE  /\ sessions'[t] \in SessionRecord
             /\ sessions'[t].attention = sessions[t].attention
             /\ ~Governed(sessions'[t])
             /\ sessions'[t].liveness = "unborn" <=> sessions[t].liveness = "unborn"
  <2>1. /\ sessions[t] \in SessionRecord
        /\ sessions'[t] = IF sessions[t].liveness \in {"spawning", "running"}
                          THEN Out(sessions[t], "interrupted") ELSE sessions[t]
    BY DEF Restart, WatchInv, TypeOK
  <2>2. CASE sessions[t].liveness \in {"spawning", "running"}
    <3>1. /\ Out(sessions[t], "interrupted") \in SessionRecord
          /\ Out(sessions[t], "interrupted").attention = sessions[t].attention
          /\ Out(sessions[t], "interrupted").liveness = "interrupted"
      BY <2>1 DEF Out, SessionRecord
    <3> QED BY <2>1, <2>2, <3>1 DEF Governed
  <2>3. CASE sessions[t].liveness \notin {"spawning", "running"}
    BY <2>1, <2>3 DEF Governed
  <2> QED BY <2>2, <2>3
<1>2. TypeOK'
  <2>1. sessions' \in [Session -> SessionRecord]
    BY <1>1 DEF Restart
  <2> QED BY <2>1 DEF Restart, WatchInv, TypeOK, history
<1>3. ASSUME NEW t \in Session PROVE Reported(t)' /\ Driven(t)' /\ Asked(t)'
  <2>1. ~WaitsForHuman(t)' /\ live'[t] = "none" /\ t \notin ghosts' /\ told'[t] = told[t]
    BY DEF Restart, WaitsForHuman, history
  <2>2. Reported(t)'
    BY <1>1, <2>1 DEF WatchInv, Reported, Born
  <2>3. Driven(t)' /\ Asked(t)'
    BY <1>1, <2>1 DEF Driven, Asked, Governed
  <2> QED BY <2>2, <2>3
<1> QED BY <1>2, <1>3 DEF WatchInv
--------------------------------------------------------------------------------
(* The stream.                                                              *)

(* An append that leaves attention alone, or raises the completion that     *)
(* ends the run.                                                            *)
LEMMA AppendsWatch == ASSUME WatchInv, NEW s \in Session, Appends(s) PROVE WatchInv'
<1> DEFINE old == sessions[s]
           made == Message(s, old)
<1>1. /\ old \in SessionRecord /\ Becomes(s, made) /\ Born(s)
      /\ told' = [told EXCEPT ![s] = 0] /\ told \in [Session -> 0..2]
      /\ UNCHANGED <<mapped, corrected, live, ghosts, pendingGates, asker, waiting, cleared>>
  BY DEF Appends, Streaming, Heeded, gates, WatchInv, TypeOK, Driven
<1>2. made \in SessionRecord /\ made.liveness = old.liveness /\ made.attention = old.attention
  BY <1>1, Records
<1> HIDE DEF made
<1>3. WaitsForHuman(s)' <=> WaitsForHuman(s)
  BY <1>1 DEF WaitsForHuman
<1>4. told'[s] = 0 /\ Others(s) /\ (sessions' \in [Session -> SessionRecord] => TypeOK')
  BY <1>1 DEF Others, WaitsForHuman, WatchInv, TypeOK
<1>5. /\ made.liveness # "unborn"
      /\ made.liveness = "running" \/ WaitsForHuman(s)' => live'[s] = "open"
      /\ made.liveness = "spawning" => live'[s] = "none"
  BY <1>1, <1>2, <1>3 DEF Born, WatchInv, Driven
<1>6. WaitsForHuman(s)' => s \in cleared' \/ made.attention = "gate" \/ ~Governed(made)
  BY <1>1, <1>2, <1>3 DEF WatchInv, Asked, Governed
<1> QED BY <1>1, <1>2, <1>4, <1>5, <1>6, Step

LEMMA MapsWatch == ASSUME WatchInv, NEW s \in Session, Maps(s) PROVE WatchInv'
<1> DEFINE old == sessions[s]
           heard == Heard(s, old)
           made == [heard EXCEPT !.boundary = TRUE]
<1>1. /\ old \in SessionRecord /\ Becomes(s, made) /\ Born(s)
      /\ told' = [told EXCEPT ![s] = 0] /\ told \in [Session -> 0..2] /\ mapped' = mapped \cup {s}
      /\ UNCHANGED <<corrected, live, ghosts, pendingGates, asker, waiting, cleared>>
  BY DEF Maps, Streaming, Heeded, gates, WatchInv, TypeOK, Driven
<1>2. heard \in SessionRecord /\ heard.liveness = old.liveness /\ heard.attention = old.attention
  BY <1>1, Records
<1> HIDE DEF heard
<1>3. made \in SessionRecord /\ made.liveness = old.liveness /\ made.attention = old.attention
  BY <1>2 DEF SessionRecord
<1> HIDE DEF made
<1>4. WaitsForHuman(s)' <=> WaitsForHuman(s)
  BY <1>1 DEF WaitsForHuman
<1>5. told'[s] = 0 /\ Others(s) /\ (sessions' \in [Session -> SessionRecord] => TypeOK')
  BY <1>1 DEF Others, WaitsForHuman, WatchInv, TypeOK
<1>6. /\ made.liveness # "unborn"
      /\ made.liveness = "running" \/ WaitsForHuman(s)' => live'[s] = "open"
      /\ made.liveness = "spawning" => live'[s] = "none"
  BY <1>1, <1>3, <1>4 DEF Born, WatchInv, Driven
<1>7. WaitsForHuman(s)' => s \in cleared' \/ made.attention = "gate" \/ ~Governed(made)
  BY <1>1, <1>3, <1>4 DEF WatchInv, Asked, Governed
<1> QED BY <1>1, <1>3, <1>5, <1>6, <1>7, Step

LEMMA GateWatch ==
  ASSUME WatchInv, NEW s \in Session, NEW g \in Gate, GateFires(s, g) PROVE WatchInv'
<1> DEFINE old == sessions[s]
           heard == Heard(s, old)
           made == Raised(heard, "gate")
<1>1. /\ old \in SessionRecord /\ Becomes(s, made) /\ Born(s) /\ live[s] = "open"
      /\ told' = [told EXCEPT ![s] = 0] /\ told \in [Session -> 0..2]
      /\ UNCHANGED <<mapped, corrected, live, ghosts>>
      /\ pendingGates' = pendingGates \cup {g} /\ waiting' = waiting \cup {g}
      /\ asker' = [asker EXCEPT ![g] = s] /\ cleared' = cleared \ {s}
      /\ g \notin waiting /\ asker \in [Gate -> Session \cup {None}] /\ waiting \subseteq Gate
  BY DEF GateFires, Heeded, gates, WatchInv, TypeOK, Driven
<1>2. heard \in SessionRecord /\ heard.liveness = old.liveness
  BY <1>1, Records
<1> HIDE DEF heard
<1>3. made \in SessionRecord /\ made.liveness = old.liveness /\ made.attention = "gate"
  BY <1>2 DEF SessionRecord, Raised
<1> HIDE DEF made
<1>4. ASSUME NEW t \in Session \ {s} PROVE WaitsForHuman(t)' => WaitsForHuman(t)
  BY <1>1 DEF WaitsForHuman
<1>5. told'[s] = 0 /\ Others(s)
  BY <1>1, <1>4 DEF Others
<1>6. sessions' \in [Session -> SessionRecord] => TypeOK'
  <2>1. asker' \in [Gate -> Session \cup {None}] /\ told' \in [Session -> 0..2]
    BY <1>1
  <2>2. waiting' \subseteq pendingGates' /\ pendingGates' \subseteq Gate /\ cleared' \subseteq Session
    BY <1>1 DEF WatchInv, TypeOK
  <2> QED BY <1>1, <2>1, <2>2 DEF WatchInv, TypeOK
<1>7. made.liveness \notin {"unborn", "spawning"} /\ live'[s] = "open"
  BY <1>1, <1>3 DEF Born, WatchInv, Driven
<1> QED BY <1>1, <1>3, <1>5, <1>6, <1>7, Step
LEMMA ResultWatch == ASSUME WatchInv, NEW s \in Session, Result(s) PROVE WatchInv'
<1> DEFINE old == sessions[s]
           heard == Heard(s, old)
           raised == Raised(heard, "completed")
           ended == [raised EXCEPT !.turn = FALSE, !.correction = FALSE]
           made == DriveToDormant(ended)
<1>1. /\ old \in SessionRecord /\ Becomes(s, made) /\ Born(s)
      /\ told' = [told EXCEPT ![s] = 0] /\ told \in [Session -> 0..2]
      /\ UNCHANGED <<mapped, corrected, pendingGates, asker, cleared>>
      /\ waiting' \subseteq waiting
  BY DEF Result, Completed, Heeded, WatchInv, TypeOK, Driven
<1>2. heard \in SessionRecord /\ heard.liveness = old.liveness
  BY <1>1, Records
<1> HIDE DEF heard
<1>3. raised \in SessionRecord /\ raised.liveness = old.liveness
  BY <1>2 DEF SessionRecord, Raised
<1> HIDE DEF raised
<1>4. ended \in SessionRecord /\ ended.liveness = old.liveness
  BY <1>3 DEF SessionRecord
<1> HIDE DEF ended
<1>5. /\ made \in SessionRecord
      /\ made.liveness = IF old.liveness = "running" THEN "dormant" ELSE old.liveness
  BY <1>4, Records
<1> HIDE DEF made
<1>6. made.liveness \notin {"unborn", "running"} /\ told'[s] = 0
  BY <1>1, <1>5 DEF Born
<1>7. CASE /\ live[s] = "open" /\ live' = [live EXCEPT ![s] = "ended"]
           /\ waiting' = {g \in waiting : asker[g] # s} /\ UNCHANGED ghosts
  <2>1. ~WaitsForHuman(s)'
    BY <1>1, <1>7 DEF WaitsForHuman
  <2>2. Others(s) /\ (sessions' \in [Session -> SessionRecord] => TypeOK')
    BY <1>1, <1>7 DEF Others, WaitsForHuman, WatchInv, TypeOK
  <2>3. made.liveness # "spawning"
    BY <1>5, <1>7 DEF WatchInv, Driven
  <2> QED BY <1>1, <1>5, <1>6, <2>1, <2>2, <2>3, Step
<1>8. CASE s \in ghosts /\ ghosts' = ghosts \ {s} /\ UNCHANGED <<live, waiting>>
  <2>1. WaitsForHuman(s)' <=> WaitsForHuman(s)
    BY <1>1, <1>8 DEF WaitsForHuman
  <2>2. Others(s) /\ (sessions' \in [Session -> SessionRecord] => TypeOK')
    BY <1>1, <1>8 DEF Others, WaitsForHuman, WatchInv, TypeOK
  <2>3. /\ WaitsForHuman(s)' => live'[s] = "open"
        /\ made.liveness = "spawning" => live'[s] = "none"
    BY <1>5, <1>8, <2>1 DEF WatchInv, Driven
  <2>4. WaitsForHuman(s)' => ~Governed(made)
    BY <1>6, <2>3 DEF Governed
  <2> QED BY <1>1, <1>5, <1>6, <2>2, <2>3, <2>4, Step
<1> QED BY <1>7, <1>8 DEF Result

LEMMA WindDownWatch == ASSUME WatchInv, NEW s \in Session, WindDown(s) PROVE WatchInv'
<1> DEFINE old == sessions[s]
           made == DriveToDormant(old)
<1>1. /\ old \in SessionRecord /\ Born(s)
      /\ told[s] <= 1 /\ (told[s] = 1 => old.attention = "stale")
      /\ UNCHANGED <<mapped, corrected, pendingGates, asker, told, cleared>>
      /\ waiting' \subseteq waiting
  BY DEF WindDown, history, WatchInv, TypeOK, Driven, Reported
<1>2. /\ made \in SessionRecord /\ made.attention = old.attention
      /\ made.liveness = IF old.liveness = "running" THEN "dormant" ELSE old.liveness
  BY <1>1, Records
<1> HIDE DEF made
<1>3. made.liveness \notin {"unborn", "running"} /\ told'[s] = told[s]
  BY <1>1, <1>2 DEF Born
<1>4. CASE /\ live[s] = "open" /\ waiting' = {g \in waiting : asker[g] # s}
           /\ live' = [live EXCEPT ![s] = "none"] /\ UNCHANGED ghosts /\ Becomes(s, made)
  <2>1. ~WaitsForHuman(s)' /\ live'[s] = "none"
    BY <1>1, <1>4 DEF WaitsForHuman, WatchInv, TypeOK
  <2>2. Others(s) /\ (sessions' \in [Session -> SessionRecord] => TypeOK')
    BY <1>1, <1>4 DEF Others, WaitsForHuman, WatchInv, TypeOK
  <2> QED BY <1>1, <1>2, <1>3, <1>4, <2>1, <2>2, Step
<1>5. CASE live[s] = "ended" /\ live' = [live EXCEPT ![s] = "none"]
           /\ UNCHANGED <<waiting, ghosts, sessions>>
  <2>1. ~WaitsForHuman(s) /\ live'[s] = "none" /\ old.liveness # "running"
    BY <1>5 DEF WatchInv, TypeOK, Driven
  <2>2. ~WaitsForHuman(s)'
    BY <1>1, <1>5, <2>1 DEF WaitsForHuman
  <2>3. Others(s) /\ (sessions' \in [Session -> SessionRecord] => TypeOK')
    BY <1>1, <1>5 DEF Others, WaitsForHuman, WatchInv, TypeOK
  <2>4. Becomes(s, old)
    BY <1>5 DEF Becomes, WatchInv, TypeOK
  <2> QED BY <1>1, <2>1, <2>2, <2>3, <2>4, Step DEF Born
<1>6. CASE s \in ghosts /\ ghosts' = ghosts \ {s} /\ UNCHANGED <<live, waiting>> /\ Becomes(s, made)
  <2>1. WaitsForHuman(s)' <=> WaitsForHuman(s)
    BY <1>1, <1>6 DEF WaitsForHuman
  <2>2. Others(s) /\ (sessions' \in [Session -> SessionRecord] => TypeOK')
    BY <1>1, <1>6 DEF Others, WaitsForHuman, WatchInv, TypeOK
  <2>3. /\ WaitsForHuman(s)' => live'[s] = "open"
        /\ made.liveness = "spawning" => live'[s] = "none"
    BY <1>2, <1>6, <2>1 DEF WatchInv, Driven
  <2>4. WaitsForHuman(s)' => ~Governed(made)
    BY <1>3, <2>3 DEF Governed
  <2> QED BY <1>1, <1>2, <1>3, <1>6, <2>2, <2>3, <2>4, Step
<1> QED BY <1>4, <1>5, <1>6 DEF WindDown, made
--------------------------------------------------------------------------------
(* The watchdog and the clock.                                              *)

(* Whom a check reports.                                                    *)
LEMMA Reports ==
  ASSUME WatchInv, NEW s \in Session, ToReport(s)
  PROVE  /\ Governed(sessions[s]) /\ sessions[s].silence = Band
         /\ sessions[s].attention \notin {"gate", "stale"} /\ told[s] = 0
<1>1. sessions[s] \in SessionRecord
  BY DEF WatchInv, TypeOK
<1>2. /\ Governed(sessions[s]) /\ ~Blocking(sessions[s].attention) /\ sessions[s].silence # None
      /\ ~(sessions[s].silence < Band) /\ sessions[s].attention # "stale"
  BY DEF ToReport, assessStageRun, AlreadyReported
<1>3. sessions[s].silence \in 0..Band \cup {None}
  BY <1>1 DEF SessionRecord
<1>4. sessions[s].silence = Band
  BY <1>2, <1>3, BandAssumption
<1>5. told[s] = 0
  BY <1>2 DEF WatchInv, Reported, TypeOK
<1> QED BY <1>2, <1>4, <1>5 DEF Blocking

LEMMA CheckWatch == ASSUME WatchInv, checkOnce PROVE WatchInv'
<1>1. UNCHANGED <<mapped, corrected, live, ghosts, pendingGates, asker, waiting, cleared>>
  BY DEF checkOnce, gates
<1>2. ASSUME NEW t \in Session
      PROVE  /\ sessions'[t] \in SessionRecord /\ told'[t] \in 0..2
             /\ Reported(t)' /\ sessions'[t].liveness = sessions[t].liveness
             /\ ~ToReport(t) => sessions'[t] = sessions[t]
  <2>1. sessions[t] \in SessionRecord /\ told[t] \in 0..2 /\ Reported(t)
    BY DEF WatchInv, TypeOK
  <2>2. CASE ToReport(t)
    <3> DEFINE raised == Raised(sessions[t], "stale")
               made == [raised EXCEPT !.episodes = IF @ < MaxEpisodes THEN @ + 1 ELSE @]
    <3>1. sessions'[t] = made /\ told'[t] = 1
      BY <2>2, Reports DEF checkOnce
    <3>2. /\ raised \in SessionRecord /\ raised.attention = "stale"
          /\ raised.liveness = sessions[t].liveness
      BY <2>1 DEF Raised, SessionRecord
    <3> HIDE DEF raised
    <3>3. (IF raised.episodes < MaxEpisodes THEN raised.episodes + 1 ELSE raised.episodes) \in 0..MaxEpisodes
      BY <3>2, BandAssumption DEF SessionRecord
    <3>4. made \in SessionRecord /\ made.attention = "stale" /\ made.liveness = sessions[t].liveness
      BY <3>2, <3>3 DEF SessionRecord
    <3>5. sessions[t].liveness # "unborn"
      BY <2>2, Reports DEF Governed
    <3> HIDE DEF made
    <3> QED BY <2>2, <3>1, <3>4, <3>5 DEF Reported, Born
  <2>3. CASE ~ToReport(t)
    <3>1. sessions'[t] = sessions[t] /\ told'[t] = told[t]
      BY <2>3 DEF checkOnce
    <3> QED BY <2>1, <2>3, <3>1 DEF Reported, Born
  <2> QED BY <2>2, <2>3
<1>3. TypeOK'
  <2>1. sessions' \in [Session -> SessionRecord] /\ told' \in [Session -> 0..2]
    BY <1>2 DEF checkOnce
  <2> QED BY <1>1, <2>1 DEF WatchInv, TypeOK
<1>4. ASSUME NEW t \in Session PROVE Driven(t)' /\ Asked(t)'
  <2>1. WaitsForHuman(t)' <=> WaitsForHuman(t)
    BY <1>1 DEF WaitsForHuman
  <2>2. Driven(t)'
    BY <1>1, <1>2, <2>1 DEF WatchInv, Driven, Born
  <2>3. CASE ToReport(t)
    BY <1>1, <2>1, <2>2, <2>3, Reports DEF WatchInv, Asked
  <2>4. CASE ~ToReport(t)
    BY <1>1, <1>2, <2>1, <2>2, <2>4 DEF WatchInv, Asked
  <2> QED BY <2>3, <2>4
<1> QED BY <1>2, <1>3, <1>4 DEF WatchInv

LEMMA TickWatch == ASSUME WatchInv, Tick PROVE WatchInv'
<1>1. /\ UNCHANGED <<live, ghosts, pendingGates, asker, waiting, told, cleared>>
      /\ mapped' = {} /\ corrected' = {}
  BY DEF Tick, gates, history
<1>2. ASSUME NEW t \in Session
      PROVE  /\ sessions'[t] \in SessionRecord
             /\ sessions'[t].liveness = sessions[t].liveness
             /\ sessions'[t].attention = sessions[t].attention
  <2>1. sessions[t] \in SessionRecord
    BY DEF WatchInv, TypeOK
  <2>2. Later(sessions[t].silence) \in 0..Band \cup {None}
    BY <2>1, BandAssumption DEF SessionRecord, Later
  <2>3. sessions'[t] = [sessions[t] EXCEPT !.silence = Later(@)]
    BY DEF Tick
  <2> QED BY <2>1, <2>2, <2>3 DEF SessionRecord
<1>3. TypeOK'
  <2>1. sessions' \in [Session -> SessionRecord]
    BY <1>2 DEF Tick
  <2> QED BY <1>1, <2>1 DEF WatchInv, TypeOK
<1>4. ASSUME NEW t \in Session PROVE Reported(t)' /\ Driven(t)' /\ Asked(t)'
  <2>1. WaitsForHuman(t)' <=> WaitsForHuman(t)
    BY <1>1 DEF WaitsForHuman
  <2>2. Reported(t)'
    BY <1>1, <1>2 DEF WatchInv, Reported, Born
  <2>3. Driven(t)'
    BY <1>1, <1>2, <2>1 DEF WatchInv, Driven, Born
  <2>4. Asked(t)'
    BY <1>1, <1>2, <2>1 DEF WatchInv, Asked, Governed
  <2> QED BY <2>2, <2>3, <2>4
<1> QED BY <1>3, <1>4 DEF WatchInv

--------------------------------------------------------------------------------
LEMMA NextWatch == ASSUME WatchInv, [Next]_vars PROVE WatchInv'
<1>1. CASE UNCHANGED vars
  <2>1. UNCHANGED <<sessions, mapped, corrected, live, ghosts, pendingGates, asker, waiting, told, cleared>>
    BY <1>1 DEF vars, gates, history
  <2> QED BY <2>1 DEF WatchInv, TypeOK, Reported, Driven, Asked, WaitsForHuman, Born
<1>2. ASSUME NEW s \in Session, StartRun(s) \/ Stream(s) PROVE WatchInv'
  BY <1>2, StartRunWatch, AppendsWatch, MapsWatch, GateWatch, ResultWatch, WindDownWatch DEF Stream
<1>3. ASSUME NEW s \in Session, Human(s) PROVE WatchInv'
  BY <1>3, ResumeWatch, SendWatch, KillWatch, ClearWatch, AnswerWatch DEF Human
<1>4. CASE Restart \/ checkOnce \/ Tick
  BY <1>4, RestartWatch, CheckWatch, TickWatch
<1> QED BY <1>1, <1>2, <1>3, <1>4 DEF Next

(* WatchInv is inductive: it holds initially and every step preserves it.   *)
THEOREM WatchInvariant == Spec => []WatchInv
<1>1. Init => WatchInv
  BY InitWatch
<1>2. WatchInv /\ [Next]_vars => WatchInv'
  BY NextWatch
<1> QED BY <1>1, <1>2, PTL DEF Spec

(* Timestamps stay within the band and every request belongs to a session,  *)
(* whatever the host, the hub, the streams and the timer do.                *)
THEOREM WatchTypesCorrect == Spec => []TypeOK
<1>1. WatchInv => TypeOK
  BY DEF WatchInv
<1> QED BY <1>1, WatchInvariant, PTL

(* A silence is reported once, however many runs there are and however      *)
(* often the timer of the watchdog fires (taskWatchdog.ts:226-238).         *)
THEOREM OncePerSilence == Spec => []OneReportPerSilence
<1>1. WatchInv => OneReportPerSilence
  BY DEF WatchInv, Reported, OneReportPerSilence
<1> QED BY <1>1, WatchInvariant, PTL

(* No step but a check reports.                                             *)
LEMMA OnlyChecksReport ==
  ASSUME WatchInv, [Next]_vars, NEW s \in Session, told'[s] > told[s]
  PROVE  checkOnce
<1>1. told \in [Session -> 0..2]
  BY DEF WatchInv, TypeOK
<1>2. told' # told /\ ~(\E t \in Session : told' = [told EXCEPT ![t] = 0])
  BY <1>1
<1>3. ASSUME NEW t \in Session, StartRun(t) \/ Stream(t) PROVE FALSE
  BY <1>2, <1>3 DEF StartRun, Stream, Appends, Maps, GateFires, Result, WindDown, Heeded, history
<1>4. ASSUME NEW t \in Session, Human(t) PROVE FALSE
  BY <1>2, <1>4 DEF Human, ResumeSession, SendMessage, KillSession, ClearAttention, AnswerGate,
       Heeded, history
<1>5. ~Restart /\ ~Tick /\ ~UNCHANGED vars
  BY <1>2 DEF Restart, Tick, vars, history
<1> QED BY <1>3, <1>4, <1>5 DEF Next

(* Whoever is reported has been silent for the whole band, still runs, and  *)
(* does not wait for a human unless somebody cleared its attention since it *)
(* asked (watchdogDecision.ts, assessStageRun), for any number of runs and  *)
(* of requests, any band, and all kills, resumes and restarts.              *)
THEOREM WarrantedReports == Spec => ReportsAreWarranted
<1>1. ASSUME WatchInv, [Next]_vars, NEW s \in Session, told'[s] > told[s]
      PROVE  /\ sessions[s].silence = Band
             /\ live[s] # "none" \/ sessions[s].liveness = "spawning"
             /\ WaitsForHuman(s) => s \in cleared
  <2>1. checkOnce /\ told \in [Session -> 0..2]
    BY <1>1, OnlyChecksReport DEF WatchInv, TypeOK
  <2>2. ToReport(s)
    BY <1>1, <2>1 DEF checkOnce
  <2>3. /\ Governed(sessions[s]) /\ sessions[s].silence = Band /\ sessions[s].attention # "gate"
    BY <1>1, <2>2, Reports
  <2> QED BY <1>1, <2>3 DEF WatchInv, Driven, Asked, Governed
<1>2. WatchInv /\ [Next]_vars =>
        [\A s \in Session : told'[s] > told[s] =>
           /\ sessions[s].silence = Band
           /\ live[s] # "none" \/ sessions[s].liveness = "spawning"
           /\ WaitsForHuman(s) => s \in cleared]_vars
  BY <1>1
<1> QED BY <1>2, WatchInvariant, PTL DEF Spec, ReportsAreWarranted
===============================================================================
