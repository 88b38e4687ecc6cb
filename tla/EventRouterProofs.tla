-------------------------- MODULE EventRouterProofs --------------------------
(* Theorems about EventRouter.                                             *)
EXTENDS EventRouter, SequenceTheorems, TLAPS

(* The seqs of one stream in a queue of events. *)
SeqsIn(queue, st) ==
  {n \in Nat : \E i \in 1 .. Len(queue) : queue[i].stream = st /\ queue[i].seq = n}

(* Within a stream the events of a queue are in the order of the log. *)
InOrder(queue) ==
  \A i, j \in 1 .. Len(queue) :
    (i < j /\ queue[i].stream = queue[j].stream) => queue[i].seq < queue[j].seq

--------------------------------------------------------------------------------
(* The strengthening.  The heart of it is NothingOwedIsLost: the events a   *)
(* subscription must still be offered, those in the queue and the one       *)
(* being dispatched, are exactly the events of its stream between where it  *)
(* is (or, while it is being replayed to, where the replay will leave it)   *)
(* and the head of the log.                                                 *)
Owed(s) ==
  {n \in SeqsIn(pending, sub[s].stream) : n > sub[s].deliveredThrough}
    \cup (IF s \in left /\ Wants(s) THEN {event.seq} ELSE {})

Reached(s) == IF sub[s].state = "live" THEN sub[s].at ELSE sub[s].deliveredThrough

NothingOwedIsLost ==
  \A s \in Subs : sub[s] # Unused => Owed(s) = (Reached(s) + 1) .. head[sub[s].stream]

(* Where a subscription is, against deliveredThrough and the head. *)
WithinLog ==
  \A s \in Subs : sub[s] # Unused =>
    /\ sub[s].deliveredThrough <= head[sub[s].stream]
    /\ sub[s].at <= head[sub[s].stream]
    /\ sub[s].state = "live" => sub[s].at >= sub[s].deliveredThrough
    /\ sub[s].state = "replaying" => sub[s].at <= sub[s].deliveredThrough

(* The queue is in the order of the log, after the event being dispatched. *)
QueueInOrder ==
  /\ InOrder(pending)
  /\ \A st \in Streams : \A n \in SeqsIn(pending, st) : n <= head[st]
  /\ left # {} =>
       /\ event \in Event
       /\ event.seq <= head[event.stream]
       /\ \A n \in SeqsIn(pending, event.stream) : event.seq < n

(* The transaction in progress continues the log. *)
BatchContinuesLog ==
  /\ InOrder(batch)
  /\ \A st \in Streams :
       assigned[st] >= head[st] /\ SeqsIn(batch, st) = (head[st] + 1) .. assigned[st]

(* Who is on the stack. *)
StackIsSound ==
  /\ left \subseteq Registered
  /\ ~isDispatching => pending = <<>> /\ left = {}
  /\ \A s \in Subs : sub[s].state = "replaying" => \E i \in 1 .. Len(replays) : replays[i] = s
  /\ \A i \in 1 .. Len(replays) : sub[replays[i]].state = "replaying"
  /\ \A i, j \in 1 .. Len(replays) : replays[i] = replays[j] => i = j

RouterInv ==
  /\ TypeOK
  /\ NothingOwedIsLost
  /\ WithinLog
  /\ QueueInOrder
  /\ BatchContinuesLog
  /\ StackIsSound

--------------------------------------------------------------------------------
(* What the operations of the router on a queue do to it.                  *)

\* The empty queue.
LEMMA EmptyQueue ==
  /\ \A st : SeqsIn(<<>>, st) = {}
  /\ InOrder(<<>>)
BY DEF SeqsIn, InOrder

\* An event inserted behind the others of its stream.
LEMMA AppendToQueue ==
  ASSUME NEW queue \in Seq(Event), NEW e \in Event,
         \A n \in SeqsIn(queue, e.stream) : n < e.seq
  PROVE  /\ \A st : SeqsIn(Append(queue, e), st) =
                      SeqsIn(queue, st) \cup (IF e.stream = st THEN {e.seq} ELSE {})
         /\ InOrder(queue) => InOrder(Append(queue, e))
<1>1. \A i \in 1 .. Len(queue) : queue[i] \in Event
  OBVIOUS
<1>2. /\ Len(Append(queue, e)) = Len(queue) + 1
      /\ \A i \in 1 .. Len(queue) : Append(queue, e)[i] = queue[i]
      /\ Append(queue, e)[Len(queue) + 1] = e
  OBVIOUS
<1>3. ASSUME NEW st
      PROVE  SeqsIn(Append(queue, e), st) =
               SeqsIn(queue, st) \cup (IF e.stream = st THEN {e.seq} ELSE {})
  BY <1>1, <1>2 DEF SeqsIn, Event
<1>4. ASSUME InOrder(queue)
      PROVE  InOrder(Append(queue, e))
  <2> SUFFICES ASSUME NEW i \in 1 .. Len(queue) + 1, NEW j \in 1 .. Len(queue) + 1, i < j,
                      Append(queue, e)[i].stream = Append(queue, e)[j].stream
               PROVE  Append(queue, e)[i].seq < Append(queue, e)[j].seq
    BY <1>2 DEF InOrder
  <2>1. CASE j = Len(queue) + 1
    BY <1>1, <1>2, <2>1 DEF SeqsIn, Event
  <2>2. CASE j # Len(queue) + 1
    BY <1>2, <1>4, <2>2 DEF InOrder
  <2> QED BY <2>1, <2>2
<1> QED BY <1>3, <1>4

\* A queue put behind another whose events all precede it.
LEMMA JoinQueues ==
  ASSUME NEW front \in Seq(Event), NEW back \in Seq(Event),
         \A st \in Streams : \A m \in SeqsIn(front, st), n \in SeqsIn(back, st) : m < n
  PROVE  /\ \A st : SeqsIn(front \o back, st) = SeqsIn(front, st) \cup SeqsIn(back, st)
         /\ InOrder(front) /\ InOrder(back) => InOrder(front \o back)
<1>1. /\ \A i \in 1 .. Len(front) : front[i] \in Event
      /\ \A i \in 1 .. Len(back) : back[i] \in Event
  OBVIOUS
<1>2. /\ Len(front \o back) = Len(front) + Len(back)
      /\ \A i \in 1 .. Len(front) : (front \o back)[i] = front[i]
      /\ \A i \in 1 .. Len(back) : (front \o back)[Len(front) + i] = back[i]
      /\ \A i \in 1 .. Len(front) + Len(back) : i > Len(front) =>
           /\ i - Len(front) \in 1 .. Len(back)
           /\ (front \o back)[i] = back[i - Len(front)]
  OBVIOUS
<1>3. ASSUME NEW st
      PROVE  SeqsIn(front \o back, st) = SeqsIn(front, st) \cup SeqsIn(back, st)
  <2>1. SeqsIn(front \o back, st) \subseteq SeqsIn(front, st) \cup SeqsIn(back, st)
    BY <1>2 DEF SeqsIn
  <2>2. SeqsIn(front, st) \subseteq SeqsIn(front \o back, st)
    BY <1>2 DEF SeqsIn
  <2>3. SeqsIn(back, st) \subseteq SeqsIn(front \o back, st)
    <3> SUFFICES ASSUME NEW i \in 1 .. Len(back), back[i].stream = st
                 PROVE  back[i].seq \in SeqsIn(front \o back, st)
      BY DEF SeqsIn
    <3>1. Len(front) + i \in 1 .. Len(front \o back)
      BY <1>2
    <3> QED BY <1>1, <1>2, <3>1 DEF SeqsIn, Event
  <2> QED BY <2>1, <2>2, <2>3
<1>4. ASSUME InOrder(front), InOrder(back)
      PROVE  InOrder(front \o back)
  <2> SUFFICES ASSUME NEW i \in 1 .. Len(front) + Len(back), NEW j \in 1 .. Len(front) + Len(back),
                      i < j, (front \o back)[i].stream = (front \o back)[j].stream
               PROVE  (front \o back)[i].seq < (front \o back)[j].seq
    BY <1>2 DEF InOrder
  <2>1. CASE j <= Len(front)
    <3>1. i \in 1 .. Len(front) /\ j \in 1 .. Len(front)
      BY <2>1
    <3> QED BY <1>2, <1>4, <3>1 DEF InOrder
  <2>2. CASE i > Len(front)
    <3>1. i - Len(front) \in 1 .. Len(back) /\ j - Len(front) \in 1 .. Len(back)
          /\ i - Len(front) < j - Len(front)
      BY <2>2
    <3>2. (front \o back)[i] = back[i - Len(front)] /\ (front \o back)[j] = back[j - Len(front)]
      BY <1>2, <2>2
    <3> QED BY <1>4, <3>1, <3>2 DEF InOrder
  <2>3. CASE i <= Len(front) /\ j > Len(front)
    <3>1. i \in 1 .. Len(front) /\ j - Len(front) \in 1 .. Len(back)
      BY <2>3
    <3>2. (front \o back)[i] = front[i] /\ (front \o back)[j] = back[j - Len(front)]
      BY <1>2, <2>3
    <3>3. /\ front[i].stream \in Streams
          /\ front[i].seq \in SeqsIn(front, front[i].stream)
          /\ back[j - Len(front)].seq \in SeqsIn(back, front[i].stream)
      BY <1>1, <3>1, <3>2 DEF SeqsIn, Event
    <3> QED BY <3>2, <3>3
  <2> QED BY <2>1, <2>2, <2>3
<1> QED BY <1>3, <1>4

\* The first event taken off a queue precedes the others of its stream.
LEMMA TakeFromQueue ==
  ASSUME NEW queue \in Seq(Event), queue # <<>>, InOrder(queue)
  PROVE  /\ Head(queue) \in Event /\ Tail(queue) \in Seq(Event)
         /\ InOrder(Tail(queue))
         /\ \A st : SeqsIn(queue, st) = SeqsIn(Tail(queue), st)
                      \cup (IF Head(queue).stream = st THEN {Head(queue).seq} ELSE {})
         /\ \A n \in SeqsIn(Tail(queue), Head(queue).stream) : Head(queue).seq < n
<1>1. /\ Len(queue) \in Nat \ {0}
      /\ \A i \in 1 .. Len(queue) : queue[i] \in Event
      /\ Head(queue) = queue[1]
      /\ Tail(queue) \in Seq(Event)
      /\ Len(Tail(queue)) = Len(queue) - 1
      /\ \A i \in 1 .. Len(queue) - 1 : Tail(queue)[i] = queue[i + 1]
  OBVIOUS
<1>2. Head(queue) \in Event
  BY <1>1
<1>3. InOrder(Tail(queue))
  <2> SUFFICES ASSUME NEW i \in 1 .. Len(queue) - 1, NEW j \in 1 .. Len(queue) - 1, i < j,
                      Tail(queue)[i].stream = Tail(queue)[j].stream
               PROVE  Tail(queue)[i].seq < Tail(queue)[j].seq
    BY <1>1 DEF InOrder
  <2>1. i + 1 \in 1 .. Len(queue) /\ j + 1 \in 1 .. Len(queue) /\ i + 1 < j + 1
    BY <1>1
  <2> QED BY <1>1, <2>1 DEF InOrder
<1>4. ASSUME NEW st
      PROVE  SeqsIn(queue, st) = SeqsIn(Tail(queue), st)
               \cup (IF Head(queue).stream = st THEN {Head(queue).seq} ELSE {})
  <2>1. ASSUME NEW i \in 1 .. Len(queue), queue[i].stream = st
        PROVE  queue[i].seq \in SeqsIn(Tail(queue), st)
                 \cup (IF Head(queue).stream = st THEN {Head(queue).seq} ELSE {})
    <3>1. CASE i = 1
      BY <1>1, <2>1, <3>1
    <3>2. CASE i # 1
      <4>1. i - 1 \in 1 .. Len(queue) - 1 /\ (i - 1) + 1 = i
        BY <1>1, <3>2
      <4>2. Tail(queue)[i - 1] = queue[i]
        BY <1>1, <4>1
      <4> QED BY <1>1, <2>1, <4>1, <4>2 DEF SeqsIn, Event
    <3> QED BY <3>1, <3>2
  <2>2. ASSUME NEW i \in 1 .. Len(queue) - 1, Tail(queue)[i].stream = st
        PROVE  Tail(queue)[i].seq \in SeqsIn(queue, st)
    <3>1. i + 1 \in 1 .. Len(queue)
      BY <1>1
    <3> QED BY <1>1, <2>2, <3>1 DEF SeqsIn, Event
  <2>3. Head(queue).stream = st => Head(queue).seq \in SeqsIn(queue, st)
    BY <1>1, <1>2 DEF SeqsIn, Event
  <2> QED BY <1>1, <2>1, <2>2, <2>3 DEF SeqsIn
<1>5. ASSUME NEW n \in SeqsIn(Tail(queue), Head(queue).stream)
      PROVE  Head(queue).seq < n
  <2>1. PICK i \in 1 .. Len(queue) - 1 : Tail(queue)[i].stream = Head(queue).stream
                                         /\ Tail(queue)[i].seq = n
    BY <1>1 DEF SeqsIn
  <2>2. i + 1 \in 1 .. Len(queue) /\ 1 \in 1 .. Len(queue) /\ 1 < i + 1
    BY <1>1
  <2> QED BY <1>1, <2>1, <2>2 DEF InOrder
<1> QED BY <1>1, <1>2, <1>3, <1>4, <1>5

--------------------------------------------------------------------------------
(* Types *)

\* A router with nothing on its stack.
LEMMA NothingYet ==
  /\ <<>> \in Seq(Event)
  /\ <<>> \in Seq(Subs)
  /\ [s \in Subs |-> Unused] \in [Subs -> Subscription \cup {Unused}]
  /\ [st \in Streams |-> 0] \in [Streams -> Nat]
<1>1. <<>> \in Seq(Event) /\ <<>> \in Seq(Subs)
  OBVIOUS
<1>2. [s \in Subs |-> Unused] \in [Subs -> Subscription \cup {Unused}]
  OBVIOUS
<1>3. [st \in Streams |-> 0] \in [Streams -> Nat]
  OBVIOUS
<1> QED BY <1>1, <1>2, <1>3

LEMMA InitTypes == Init => TypeOK
BY NothingYet DEF Init, TypeOK

\* A subscription in use has its fields.
LEMMA InUse ==
  ASSUME TypeOK, NEW s \in Subs
  PROVE  /\ sub[s].state \in {"replaying", "live"} => sub[s] # Unused
         /\ sub[s] # Unused => /\ sub[s] \in Subscription
                               /\ sub[s].state \in {"replaying", "live"}
                               /\ sub[s].stream \in Streams
                               /\ sub[s].at \in Nat
                               /\ sub[s].deliveredThrough \in Nat
BY DEF TypeOK, Subscription, Unused

\* The innermost replay.
LEMMA Innermost ==
  ASSUME TypeOK, StackIsSound, replays # <<>>
  PROVE  /\ Len(replays) \in Nat \ {0}
         /\ replays[Len(replays)] \in Subs
         /\ sub[replays[Len(replays)]].state = "replaying"
         /\ SubSeq(replays, 1, Len(replays) - 1) \in Seq(Subs)
         /\ Len(SubSeq(replays, 1, Len(replays) - 1)) = Len(replays) - 1
         /\ \A i \in 1 .. Len(replays) - 1 :
              SubSeq(replays, 1, Len(replays) - 1)[i] = replays[i]
<1>1. Len(replays) \in Nat \ {0} /\ \A i \in 1 .. Len(replays) : replays[i] \in Subs
  BY DEF TypeOK
<1>2. Len(replays) \in 1 .. Len(replays)
  BY <1>1
<1>3. SubSeq(replays, 1, Len(replays) - 1) \in Seq(Subs)
  BY <1>1 DEF TypeOK
<1>4. replays[Len(replays)] \in Subs /\ sub[replays[Len(replays)]].state = "replaying"
  BY <1>1, <1>2 DEF StackIsSound
<1>5. /\ Len(SubSeq(replays, 1, Len(replays) - 1)) = Len(replays) - 1
      /\ \A i \in 1 .. Len(replays) - 1 :
           SubSeq(replays, 1, Len(replays) - 1)[i] = replays[i]
  <2> DEFINE n == Len(replays) - 1
  <2>1. /\ n \in Int /\ 1 \in Int
        /\ \A i \in 1 .. n : replays[i] \in Subs
    BY <1>1
  <2>2. /\ Len(SubSeq(replays, 1, n)) = IF 1 <= n THEN n - 1 + 1 ELSE 0
        /\ \A i \in 1 .. n - 1 + 1 : SubSeq(replays, 1, n)[i] = replays[1 + i - 1]
    <3> HIDE DEF n
    <3> QED BY <2>1, SubSeqProperties
  <2>3. Len(SubSeq(replays, 1, n)) = n
    BY <1>1, <2>2
  <2>4. ASSUME NEW i \in 1 .. n
        PROVE  SubSeq(replays, 1, n)[i] = replays[i]
    <3>1. i \in 1 .. n - 1 + 1 /\ 1 + i - 1 = i
      BY <1>1
    <3>2. SubSeq(replays, 1, n)[i] = replays[1 + i - 1]
      BY <2>2, <3>1
    <3> QED BY <3>1, <3>2
  <2> QED BY <2>3, <2>4
<1> QED BY <1>1, <1>3, <1>4, <1>5

LEMMA StepTypes ==
  ASSUME TypeOK, StackIsSound, [Next]_vars
  PROVE  TypeOK'
<1> USE DEF store, drain
<1>1. ASSUME NEW st \in Streams, Insert(st)
      PROVE  TypeOK'
  <2>1. [stream |-> st, seq |-> assigned[st] + 1] \in Event
    BY DEF Event, TypeOK
  <2> QED BY <1>1, <2>1 DEF Insert, TypeOK
<1>2. CASE Rollback
  BY <1>2 DEF Rollback, TypeOK
<1>3. CASE Commit
  BY <1>3 DEF Commit, TypeOK
<1>4. ASSUME NEW s \in Subs, NEW st \in Streams, NEW lastSeq \in 0 .. head[st],
             Subscribe(s, st, lastSeq)
      PROVE  TypeOK'
  <2>1. [state |-> "replaying", stream |-> st, at |-> lastSeq,
         deliveredThrough |-> head[st]] \in Subscription
    BY DEF Subscription, TypeOK
  <2>2. sub' \in [Subs -> Subscription \cup {Unused}]
    BY <1>4, <2>1 DEF Subscribe, TypeOK
  <2>3. replays' \in Seq(Subs)
    BY <1>4 DEF Subscribe, TypeOK
  <2> QED BY <1>4, <2>2, <2>3 DEF Subscribe, TypeOK
<1>5. ASSUME NEW ended \in SUBSET Subs, Unsubscribe(ended)
      PROVE  TypeOK'
  BY <1>5 DEF Unsubscribe, Ended, TypeOK
<1>6. ASSUME NEW s \in Subs, Replay(s)
      PROVE  TypeOK'
  <2>1. sub[s] \in Subscription /\ sub[s].at \in Nat
    BY <1>6, Innermost, InUse DEF Replay, Replaying
  <2>2. [sub[s] EXCEPT !.at = @ + 1] \in Subscription
    BY <2>1 DEF Subscription
  <2> QED BY <1>6, <2>2 DEF Replay, TypeOK
<1>7. ASSUME NEW s \in Subs, Register(s)
      PROVE  TypeOK'
  <2>1. replays # <<>> /\ sub[s] \in Subscription
    BY <1>7, Innermost, InUse DEF Register, Replaying
  <2>2. [sub[s] EXCEPT !.state = "live"] \in Subscription
    BY <2>1 DEF Subscription
  <2>3. sub' \in [Subs -> Subscription \cup {Unused}]
    BY <1>7, <2>2 DEF Register, TypeOK
  <2> QED BY <1>7, <2>1, <2>3, Innermost DEF Register, LeaveReplay, TypeOK
<1>8. ASSUME NEW s \in Subs, Deliver(s)
      PROVE  TypeOK'
  <2>1. sub[s] \in Subscription
    BY <1>8, InUse DEF Deliver, StackIsSound, Registered
  <2>2. event.seq \in Nat
    BY <1>8 DEF TypeOK, Event, NoEvent
  <2>3. [sub[s] EXCEPT !.at = event.seq] \in Subscription
    BY <2>1, <2>2 DEF Subscription
  <2> QED BY <1>8, <2>3 DEF Deliver, TypeOK
<1>9. ASSUME NEW s \in Subs, Skip(s)
      PROVE  TypeOK'
  BY <1>9 DEF Skip, TypeOK
<1>10. CASE TakeNext
  BY <1>10 DEF TakeNext, TypeOK, Registered
<1>11. CASE DrainDone
  BY <1>11 DEF DrainDone, TypeOK
<1>12. CASE Return \/ ThrowInDispatch
  BY <1>12 DEF Return, ThrowInDispatch, TypeOK
<1>13. CASE ThrowInReplay
  <2>1. sub' \in [Subs -> Subscription \cup {Unused}]
    BY <1>13 DEF ThrowInReplay, TypeOK
  <2> QED BY <1>13, <2>1, Innermost DEF ThrowInReplay, LeaveReplay, TypeOK
<1>14. CASE Crash(head)
  BY <1>14, NothingYet DEF Crash, TypeOK
<1>15. CASE UNCHANGED vars
  BY <1>15 DEF vars, TypeOK
<1> QED
  BY <1>1, <1>2, <1>3, <1>4, <1>5, <1>6, <1>7, <1>8, <1>9, <1>10, <1>11, <1>12, <1>13, <1>14, <1>15
  DEF Next

--------------------------------------------------------------------------------
(* The strengthening is inductive *)

LEMMA InitInv == Init => RouterInv
<1> SUFFICES ASSUME Init PROVE RouterInv
  OBVIOUS
<1>1. TypeOK
  BY InitTypes
<1>2. NothingOwedIsLost /\ WithinLog
  BY DEF Init, NothingOwedIsLost, WithinLog, Unused
<1>3. QueueInOrder /\ BatchContinuesLog
  BY EmptyQueue DEF Init, QueueInOrder, BatchContinuesLog
<1>4. StackIsSound
  BY DEF Init, StackIsSound, Unused
<1> QED BY <1>1, <1>2, <1>3, <1>4 DEF RouterInv

LEMMA InsertKeepsInv ==
  ASSUME RouterInv, NEW st \in Streams, Insert(st)
  PROVE  /\ NothingOwedIsLost' /\ WithinLog' /\ QueueInOrder'
         /\ BatchContinuesLog' /\ StackIsSound'
<1> DEFINE e == [stream |-> st, seq |-> assigned[st] + 1]
<1>1. /\ head \in [Streams -> Nat] /\ assigned \in [Streams -> Nat]
      /\ batch \in Seq(Event) /\ e \in Event
      /\ e.stream = st /\ e.seq = assigned[st] + 1
  BY DEF RouterInv, TypeOK, Event
<1>2. /\ assigned' = [assigned EXCEPT ![st] = @ + 1]
      /\ batch' = Append(batch, e)
      /\ UNCHANGED <<head, pending, isDispatching, event, left, replays, running, sub>>
  BY DEF Insert, drain
<1>3. NothingOwedIsLost' /\ WithinLog' /\ QueueInOrder' /\ StackIsSound'
  BY <1>2 DEF RouterInv, NothingOwedIsLost, Owed, Reached, Wants, WithinLog,
              QueueInOrder, StackIsSound, Registered
<1>4. BatchContinuesLog'
  <2> HIDE DEF e
  <2>1. \A n \in SeqsIn(batch, e.stream) : n < e.seq
    BY <1>1 DEF RouterInv, BatchContinuesLog
  <2>2. /\ \A t : SeqsIn(batch', t) =
                    SeqsIn(batch, t) \cup (IF e.stream = t THEN {e.seq} ELSE {})
        /\ InOrder(batch')
    BY <1>1, <1>2, <2>1, AppendToQueue DEF RouterInv, BatchContinuesLog
  <2>3. ASSUME NEW t \in Streams
        PROVE  /\ assigned'[t] >= head[t]
               /\ SeqsIn(batch', t) = (head[t] + 1) .. assigned'[t]
    <3>1. /\ head[t] \in Nat /\ assigned[t] \in Nat /\ assigned[t] >= head[t]
          /\ SeqsIn(batch, t) = (head[t] + 1) .. assigned[t]
      BY <1>1 DEF RouterInv, BatchContinuesLog
    <3>2. CASE t = st
      <4>1. assigned'[t] = assigned[t] + 1
        BY <1>1, <1>2, <3>2
      <4>2. SeqsIn(batch', t) = SeqsIn(batch, t) \cup {assigned[t] + 1}
        BY <1>1, <2>2, <3>2
      <4> QED BY <3>1, <4>1, <4>2
    <3>3. CASE t # st
      <4>1. assigned'[t] = assigned[t] /\ SeqsIn(batch', t) = SeqsIn(batch, t)
        BY <1>1, <1>2, <2>2, <3>3
      <4> QED BY <3>1, <4>1
    <3> QED BY <3>2, <3>3
  <2> QED BY <1>2, <2>2, <2>3 DEF BatchContinuesLog
<1> QED BY <1>3, <1>4

LEMMA RollbackKeepsInv ==
  ASSUME RouterInv, Rollback
  PROVE  /\ NothingOwedIsLost' /\ WithinLog' /\ QueueInOrder'
         /\ BatchContinuesLog' /\ StackIsSound'
<1>1. /\ head \in [Streams -> Nat]
      /\ assigned' = head /\ batch' = <<>>
      /\ UNCHANGED <<head, pending, isDispatching, event, left, replays, running, sub>>
  BY DEF Rollback, drain, RouterInv, TypeOK
<1>2. NothingOwedIsLost' /\ WithinLog' /\ QueueInOrder' /\ StackIsSound'
  BY <1>1 DEF RouterInv, NothingOwedIsLost, Owed, Reached, Wants, WithinLog,
              QueueInOrder, StackIsSound, Registered
<1>3. BatchContinuesLog'
  <2>1. \A st \in Streams : head[st] >= head[st] /\ (head[st] + 1) .. head[st] = {}
    BY <1>1
  <2> QED BY <1>1, <2>1, EmptyQueue DEF BatchContinuesLog
<1> QED BY <1>2, <1>3

\* What a commit adds to the queue is what it adds to the log.
LEMMA CommitKeepsInv ==
  ASSUME RouterInv, Commit
  PROVE  /\ NothingOwedIsLost' /\ WithinLog' /\ QueueInOrder'
         /\ BatchContinuesLog' /\ StackIsSound'
<1>1. /\ TypeOK /\ NothingOwedIsLost /\ WithinLog /\ QueueInOrder
      /\ BatchContinuesLog /\ StackIsSound
  BY DEF RouterInv
<1>2. /\ head' = assigned /\ batch' = <<>> /\ pending' = pending \o batch
      /\ isDispatching' = TRUE
      /\ UNCHANGED <<assigned, event, left, replays, running, sub>>
  BY DEF Commit
<1>3. /\ head \in [Streams -> Nat] /\ assigned \in [Streams -> Nat]
      /\ batch \in Seq(Event) /\ pending \in Seq(Event)
  BY <1>1 DEF TypeOK
<1>4. \A st \in Streams : head[st] <= assigned[st]
  BY <1>1, <1>3 DEF BatchContinuesLog
<1>5. /\ \A st : SeqsIn(pending', st) = SeqsIn(pending, st) \cup SeqsIn(batch, st)
      /\ InOrder(pending')
  <2>1. \A st \in Streams : \A m \in SeqsIn(pending, st), n \in SeqsIn(batch, st) : m < n
    <3> SUFFICES ASSUME NEW st \in Streams, NEW m \in SeqsIn(pending, st),
                        NEW n \in SeqsIn(batch, st)
                 PROVE  m < n
      OBVIOUS
    <3>1. m \in Nat /\ m <= head[st]
      BY <1>1 DEF QueueInOrder, SeqsIn
    <3>2. n \in (head[st] + 1) .. assigned[st]
      BY <1>1 DEF BatchContinuesLog
    <3> QED BY <1>3, <3>1, <3>2
  <2>2. InOrder(pending) /\ InOrder(batch)
    BY <1>1 DEF QueueInOrder, BatchContinuesLog
  <2> QED BY <1>2, <1>3, <2>1, <2>2, JoinQueues
<1>6. \A st \in Streams :
        SeqsIn(pending', st) = SeqsIn(pending, st) \cup (head[st] + 1) .. assigned[st]
  BY <1>1, <1>5 DEF BatchContinuesLog
<1>7. NothingOwedIsLost'
  <2> SUFFICES ASSUME NEW s \in Subs, sub[s] # Unused
               PROVE  Owed(s)' = (Reached(s) + 1) .. assigned[sub[s].stream]
    BY <1>2 DEF NothingOwedIsLost, Reached
  <2> DEFINE st == sub[s].stream
  <2>1. st \in Streams /\ sub[s].deliveredThrough \in Nat /\ Reached(s) \in Nat
    BY <1>1, InUse DEF Reached
  <2>2. Reached(s) <= head[st] /\ sub[s].deliveredThrough <= head[st]
    BY <1>1 DEF WithinLog, Reached
  <2>3. Owed(s) = (Reached(s) + 1) .. head[st]
    BY <1>1 DEF NothingOwedIsLost
  <2>4. Owed(s)' = Owed(s) \cup (head[st] + 1) .. assigned[st]
    <3>1. Owed(s)' = {n \in SeqsIn(pending', st) : n > sub[s].deliveredThrough}
                       \cup (IF s \in left /\ Wants(s) THEN {event.seq} ELSE {})
      BY <1>2 DEF Owed, Wants
    <3> QED BY <1>3, <1>6, <2>1, <2>2, <3>1 DEF Owed
  <2> QED BY <1>3, <1>4, <2>1, <2>2, <2>3, <2>4
<1>8. WithinLog'
  <2> SUFFICES ASSUME NEW s \in Subs, sub[s] # Unused
               PROVE  /\ sub[s].deliveredThrough <= assigned[sub[s].stream]
                      /\ sub[s].at <= assigned[sub[s].stream]
    BY <1>1, <1>2 DEF WithinLog
  <2> QED BY <1>1, <1>3, <1>4, InUse DEF WithinLog
<1>9. QueueInOrder'
  <2>1. ASSUME NEW st \in Streams, NEW n \in SeqsIn(pending', st)
        PROVE  n <= assigned[st]
    <3>1. n \in SeqsIn(pending, st) => n \in Nat /\ n <= head[st]
      BY <1>1 DEF QueueInOrder, SeqsIn
    <3>2. n \in SeqsIn(pending, st) \/ n \in (head[st] + 1) .. assigned[st]
      BY <1>6, <2>1
    <3> QED BY <1>3, <1>4, <3>1, <3>2
  <2>2. ASSUME left # {}
        PROVE  /\ event \in Event /\ event.seq <= assigned[event.stream]
               /\ \A n \in SeqsIn(pending', event.stream) : event.seq < n
    <3>1. /\ event \in Event /\ event.stream \in Streams /\ event.seq \in Nat
          /\ event.seq <= head[event.stream]
          /\ \A n \in SeqsIn(pending, event.stream) : event.seq < n
      BY <1>1, <2>2 DEF QueueInOrder, Event
    <3> QED BY <1>3, <1>4, <1>6, <3>1
  <2> QED BY <1>2, <1>5, <2>1, <2>2 DEF QueueInOrder
<1>10. BatchContinuesLog'
  <2>1. \A st \in Streams : assigned[st] >= assigned[st]
                            /\ (assigned[st] + 1) .. assigned[st] = {}
    BY <1>3
  <2> QED BY <1>2, <2>1, EmptyQueue DEF BatchContinuesLog
<1>11. StackIsSound'
  BY <1>1, <1>2 DEF StackIsSound, Registered
<1> QED BY <1>7, <1>8, <1>9, <1>10, <1>11

\* What only the log, the queue and the transaction are about.
LEMMA LogUntouched ==
  ASSUME RouterInv, UNCHANGED <<store, pending, event>>, left' \subseteq left
  PROVE  QueueInOrder' /\ BatchContinuesLog'
<1>1. UNCHANGED <<head, assigned, batch, pending, event>>
  BY DEF store
<1>2. QueueInOrder'
  BY <1>1 DEF RouterInv, QueueInOrder
<1>3. BatchContinuesLog'
  BY <1>1 DEF RouterInv, BatchContinuesLog
<1> QED BY <1>2, <1>3

LEMMA SubscribeKeepsInv ==
  ASSUME RouterInv, NEW s \in Subs, NEW st \in Streams, NEW lastSeq \in 0 .. head[st],
         Subscribe(s, st, lastSeq)
  PROVE  /\ NothingOwedIsLost' /\ WithinLog' /\ QueueInOrder'
         /\ BatchContinuesLog' /\ StackIsSound'
<1> DEFINE new == [state |-> "replaying", stream |-> st, at |-> lastSeq,
                   deliveredThrough |-> head[st]]
<1>1. /\ TypeOK /\ NothingOwedIsLost /\ WithinLog /\ QueueInOrder /\ StackIsSound
      /\ sub[s] = Unused
      /\ sub' = [sub EXCEPT ![s] = new]
      /\ replays' = Append(replays, s)
      /\ UNCHANGED <<head, assigned, batch, pending, isDispatching, event, left>>
  BY DEF RouterInv, Subscribe, store, drain
<1>2. /\ sub'[s] = new
      /\ \A t \in Subs : t # s => sub'[t] = sub[t]
      /\ head[st] \in Nat /\ lastSeq <= head[st]
      /\ s \notin left
      /\ new # Unused
  BY <1>1 DEF TypeOK, StackIsSound, Registered, Unused
<1>3. QueueInOrder' /\ BatchContinuesLog'
  BY <1>1, LogUntouched DEF store
<1>4. NothingOwedIsLost'
  <2>1. ASSUME NEW t \in Subs, t # s, sub[t] # Unused
        PROVE  Owed(t)' = (Reached(t)' + 1) .. head'[sub'[t].stream]
    <3>1. Owed(t)' = Owed(t) /\ Reached(t)' = Reached(t)
      BY <1>1, <1>2, <2>1 DEF Owed, Wants, Reached
    <3> QED BY <1>1, <1>2, <2>1, <3>1 DEF NothingOwedIsLost
  <2>2. Owed(s)' = {} /\ Reached(s)' = head[st] /\ sub'[s].stream = st
    <3>1. \A n \in SeqsIn(pending, st) : n \in Nat /\ n <= head[st]
      BY <1>1 DEF QueueInOrder, SeqsIn
    <3> QED BY <1>1, <1>2, <3>1 DEF Owed, Reached
  <2>3. (head[st] + 1) .. head[st] = {}
    BY <1>2
  <2> QED BY <1>1, <1>2, <2>1, <2>2, <2>3 DEF NothingOwedIsLost
<1>5. WithinLog'
  BY <1>1, <1>2 DEF WithinLog
<1>6. StackIsSound'
  <2>1. /\ Len(replays') = Len(replays) + 1 /\ Len(replays) \in Nat
        /\ \A i \in 1 .. Len(replays) : replays'[i] = replays[i] /\ replays[i] \in Subs
        /\ replays'[Len(replays) + 1] = s
    BY <1>1 DEF TypeOK
  <2>2. \A i \in 1 .. Len(replays) : replays[i] # s
    BY <1>1 DEF StackIsSound, Unused
  <2>3. left' \subseteq Registered'
    BY <1>1, <1>2 DEF StackIsSound, Registered
  <2>4. ~isDispatching' => pending' = <<>> /\ left' = {}
    BY <1>1 DEF StackIsSound
  <2>5. ASSUME NEW t \in Subs, sub'[t].state = "replaying"
        PROVE  \E i \in 1 .. Len(replays') : replays'[i] = t
    <3>1. CASE t = s
      BY <2>1, <3>1
    <3>2. CASE t # s
      <4>1. PICK i \in 1 .. Len(replays) : replays[i] = t
        BY <1>1, <1>2, <2>5, <3>2 DEF StackIsSound
      <4> QED BY <2>1, <4>1
    <3> QED BY <3>1, <3>2
  <2>6. ASSUME NEW i \in 1 .. Len(replays')
        PROVE  sub'[replays'[i]].state = "replaying"
    <3>1. CASE i = Len(replays) + 1
      BY <1>2, <2>1, <3>1
    <3>2. CASE i # Len(replays) + 1
      <4>1. i \in 1 .. Len(replays)
        BY <2>1, <3>2
      <4> QED BY <1>1, <1>2, <2>1, <2>2, <4>1 DEF StackIsSound
    <3> QED BY <3>1, <3>2
  <2>7. ASSUME NEW i \in 1 .. Len(replays'), NEW j \in 1 .. Len(replays'),
               replays'[i] = replays'[j]
        PROVE  i = j
    BY <1>1, <2>1, <2>2, <2>7 DEF StackIsSound
  <2> QED BY <2>3, <2>4, <2>5, <2>6, <2>7 DEF StackIsSound
<1> QED BY <1>3, <1>4, <1>5, <1>6

LEMMA UnsubscribeKeepsInv ==
  ASSUME RouterInv, NEW ended \in SUBSET Subs, Unsubscribe(ended)
  PROVE  /\ NothingOwedIsLost' /\ WithinLog' /\ QueueInOrder'
         /\ BatchContinuesLog' /\ StackIsSound'
<1>1. /\ TypeOK /\ NothingOwedIsLost /\ WithinLog /\ StackIsSound
      /\ ended \subseteq Registered
      /\ left' = left \ ended
      /\ \A t \in Subs : sub'[t] = IF t \in ended THEN Unused ELSE sub[t]
      /\ UNCHANGED <<head, assigned, batch, pending, isDispatching, event, replays>>
  BY DEF RouterInv, Unsubscribe, Ended, store
<1>2. QueueInOrder' /\ BatchContinuesLog'
  BY <1>1, LogUntouched DEF store
<1>3. NothingOwedIsLost'
  <2> SUFFICES ASSUME NEW t \in Subs, sub'[t] # Unused
               PROVE  Owed(t)' = (Reached(t)' + 1) .. head'[sub'[t].stream]
    BY DEF NothingOwedIsLost
  <2>1. sub'[t] = sub[t] /\ sub[t] # Unused /\ t \notin ended
    BY <1>1
  <2>2. Owed(t)' = Owed(t) /\ Reached(t)' = Reached(t)
    BY <1>1, <2>1 DEF Owed, Wants, Reached
  <2> QED BY <1>1, <2>1, <2>2 DEF NothingOwedIsLost
<1>4. WithinLog'
  BY <1>1 DEF WithinLog
<1>5. StackIsSound'
  <2>1. ASSUME NEW i \in 1 .. Len(replays)
        PROVE  replays[i] \in Subs /\ replays[i] \notin ended
    <3>1. replays[i] \in Subs
      BY <1>1 DEF TypeOK
    <3>2. sub[replays[i]].state = "replaying"
      BY <1>1 DEF StackIsSound
    <3> QED BY <1>1, <3>1, <3>2 DEF Registered
  <2>2. left' \subseteq Registered'
    BY <1>1 DEF StackIsSound, Registered
  <2>3. \A t \in Subs : sub'[t].state = "replaying" => sub[t].state = "replaying"
    BY <1>1 DEF Unused
  <2> QED BY <1>1, <2>1, <2>2, <2>3 DEF StackIsSound
<1> QED BY <1>2, <1>3, <1>4, <1>5

\* The replay gives the next event of the log.
LEMMA ReplayKeepsInv ==
  ASSUME RouterInv, NEW s \in Subs, Replay(s)
  PROVE  /\ NothingOwedIsLost' /\ WithinLog' /\ QueueInOrder'
         /\ BatchContinuesLog' /\ StackIsSound'
<1>1. /\ TypeOK /\ NothingOwedIsLost /\ WithinLog /\ StackIsSound
      /\ sub' = [sub EXCEPT ![s].at = @ + 1]
      /\ sub[s].at < sub[s].deliveredThrough
      /\ UNCHANGED <<head, assigned, batch, pending, isDispatching, event, left, replays>>
  BY DEF RouterInv, Replay, store, drain
<1>2. sub[s].state = "replaying" /\ sub[s] \in Subscription /\ sub[s] # Unused
  BY <1>1, Innermost, InUse DEF Replay, Replaying
<1>3. /\ sub'[s] = [sub[s] EXCEPT !.at = @ + 1]
      /\ sub'[s].state = "replaying" /\ sub'[s].stream = sub[s].stream
      /\ sub'[s].deliveredThrough = sub[s].deliveredThrough
      /\ sub'[s].at = sub[s].at + 1
      /\ \A t \in Subs : t # s => sub'[t] = sub[t]
  BY <1>1, <1>2 DEF TypeOK, Subscription
<1>4. QueueInOrder' /\ BatchContinuesLog'
  BY <1>1, LogUntouched DEF store
<1>5. NothingOwedIsLost'
  <2> SUFFICES ASSUME NEW t \in Subs, sub'[t] # Unused
               PROVE  Owed(t)' = (Reached(t)' + 1) .. head'[sub'[t].stream]
    BY DEF NothingOwedIsLost
  <2>1. sub[t] # Unused /\ sub'[t].stream = sub[t].stream
    BY <1>2, <1>3
  <2>2. Owed(t)' = Owed(t) /\ Reached(t)' = Reached(t)
    BY <1>1, <1>2, <1>3 DEF Owed, Wants, Reached
  <2> QED BY <1>1, <2>1, <2>2 DEF NothingOwedIsLost
<1>6. WithinLog'
  <2> SUFFICES ASSUME NEW t \in Subs, sub'[t] # Unused
               PROVE  /\ sub'[t].deliveredThrough <= head[sub'[t].stream]
                      /\ sub'[t].at <= head[sub'[t].stream]
                      /\ sub'[t].state = "live" => sub'[t].at >= sub'[t].deliveredThrough
                      /\ sub'[t].state = "replaying" => sub'[t].at <= sub'[t].deliveredThrough
    BY <1>1 DEF WithinLog
  <2>1. CASE t = s
    <3>1. sub[s].at \in Nat /\ sub[s].deliveredThrough \in Nat
          /\ sub[s].stream \in Streams /\ head[sub[s].stream] \in Nat
      BY <1>1, <1>2, InUse DEF TypeOK
    <3>2. sub[s].deliveredThrough <= head[sub[s].stream]
      BY <1>1, <1>2 DEF WithinLog
    <3> QED BY <1>1, <1>3, <2>1, <3>1, <3>2
  <2>2. CASE t # s
    BY <1>1, <1>3, <2>2 DEF WithinLog
  <2> QED BY <2>1, <2>2
<1>7. StackIsSound'
  <2>1. \A i \in 1 .. Len(replays) : replays[i] \in Subs
    BY <1>1 DEF TypeOK
  <2>2. \A t \in Subs : sub'[t].state = sub[t].state
    BY <1>2, <1>3
  <2>3. left' \subseteq Registered'
    BY <1>1, <2>2 DEF StackIsSound, Registered
  <2> QED BY <1>1, <2>1, <2>2, <2>3 DEF StackIsSound
<1> QED BY <1>4, <1>5, <1>6, <1>7

\* What is on the stack once the innermost replay is left.
LEMMA LeaveReplayStack ==
  ASSUME RouterInv, replays # <<>>, LeaveReplay,
         UNCHANGED <<pending, isDispatching, left>>,
         \A t \in Subs : t # replays[Len(replays)] => sub'[t] = sub[t],
         sub'[replays[Len(replays)]].state # "replaying"
  PROVE  StackIsSound'
<1> DEFINE s == replays[Len(replays)]
<1>1. /\ TypeOK /\ StackIsSound
      /\ Len(replays) \in Nat \ {0} /\ s \in Subs /\ sub[s].state = "replaying"
      /\ Len(replays') = Len(replays) - 1
      /\ \A i \in 1 .. Len(replays) - 1 : replays'[i] = replays[i]
  BY Innermost DEF RouterInv, LeaveReplay
<1>2. ASSUME NEW i \in 1 .. Len(replays')
      PROVE  /\ i \in 1 .. Len(replays) /\ replays'[i] = replays[i]
             /\ replays[i] \in Subs /\ replays[i] # s
  <2>1. i \in 1 .. Len(replays) - 1 /\ i \in 1 .. Len(replays) /\ i # Len(replays)
        /\ Len(replays) \in 1 .. Len(replays)
    BY <1>1
  <2>2. replays[i] \in Subs
    BY <1>1, <2>1 DEF TypeOK
  <2>3. replays[i] # s
    BY <1>1, <2>1 DEF StackIsSound
  <2> QED BY <1>1, <2>1, <2>2, <2>3
<1>3. left' \subseteq Registered'
  <2>1. \A t \in left : t \in Subs /\ t # s
    BY <1>1 DEF StackIsSound, Registered
  <2> QED BY <1>1, <2>1 DEF StackIsSound, Registered
<1>4. ~isDispatching' => pending' = <<>> /\ left' = {}
  BY <1>1 DEF StackIsSound
<1>5. ASSUME NEW t \in Subs, sub'[t].state = "replaying"
      PROVE  \E i \in 1 .. Len(replays') : replays'[i] = t
  <2>1. t # s /\ sub[t].state = "replaying"
    BY <1>5
  <2>2. PICK i \in 1 .. Len(replays) : replays[i] = t
    BY <1>1, <2>1 DEF StackIsSound
  <2>3. i \in 1 .. Len(replays) - 1
    BY <1>1, <2>1, <2>2
  <2> QED BY <1>1, <2>2, <2>3
<1>6. \A i \in 1 .. Len(replays') : sub'[replays'[i]].state = "replaying"
  BY <1>1, <1>2 DEF StackIsSound
<1>7. ASSUME NEW i \in 1 .. Len(replays'), NEW j \in 1 .. Len(replays'),
             replays'[i] = replays'[j]
      PROVE  i = j
  BY <1>1, <1>2, <1>7 DEF StackIsSound
<1> QED BY <1>3, <1>4, <1>5, <1>6, <1>7 DEF StackIsSound

\* At the end of its replay a subscription is where the queue continues.
LEMMA RegisterKeepsInv ==
  ASSUME RouterInv, NEW s \in Subs, Register(s)
  PROVE  /\ NothingOwedIsLost' /\ WithinLog' /\ QueueInOrder'
         /\ BatchContinuesLog' /\ StackIsSound'
<1>1. /\ TypeOK /\ NothingOwedIsLost /\ WithinLog /\ StackIsSound
      /\ sub' = [sub EXCEPT ![s].state = "live"]
      /\ sub[s].at >= sub[s].deliveredThrough
      /\ replays # <<>> /\ s = replays[Len(replays)] /\ LeaveReplay
      /\ UNCHANGED <<head, assigned, batch, pending, isDispatching, event, left>>
  BY DEF RouterInv, Register, Replaying, store, drain
<1>2. sub[s].state = "replaying" /\ sub[s] \in Subscription /\ sub[s] # Unused
  BY <1>1, Innermost, InUse
<1>3. /\ sub'[s].state = "live" /\ sub'[s].stream = sub[s].stream
      /\ sub'[s].deliveredThrough = sub[s].deliveredThrough
      /\ sub'[s].at = sub[s].at
      /\ \A t \in Subs : t # s => sub'[t] = sub[t]
  BY <1>1, <1>2 DEF TypeOK, Subscription
<1>4. sub[s].at = sub[s].deliveredThrough
  <2>1. sub[s].at <= sub[s].deliveredThrough
    BY <1>1, <1>2 DEF WithinLog
  <2> QED BY <1>1, <1>2, <2>1, InUse
<1>5. QueueInOrder' /\ BatchContinuesLog'
  BY <1>1, LogUntouched DEF store
<1>6. NothingOwedIsLost'
  <2> SUFFICES ASSUME NEW t \in Subs, sub'[t] # Unused
               PROVE  Owed(t)' = (Reached(t)' + 1) .. head'[sub'[t].stream]
    BY DEF NothingOwedIsLost
  <2>1. sub[t] # Unused /\ sub'[t].stream = sub[t].stream
    BY <1>2, <1>3
  <2>2. Owed(t)' = Owed(t)
    BY <1>1, <1>2, <1>3 DEF Owed, Wants
  <2>3. Reached(t)' = Reached(t)
    BY <1>2, <1>3, <1>4 DEF Reached
  <2> QED BY <1>1, <2>1, <2>2, <2>3 DEF NothingOwedIsLost
<1>7. WithinLog'
  <2>1. \A t \in Subs : sub'[t] # Unused => sub[t] # Unused
    BY <1>2, <1>3
  <2> QED BY <1>1, <1>2, <1>3, <2>1 DEF WithinLog
<1>8. StackIsSound'
  BY <1>1, <1>3, LeaveReplayStack
<1> QED BY <1>5, <1>6, <1>7, <1>8

\* An abandoned replay leaves nothing behind.
LEMMA ThrowInReplayKeepsInv ==
  ASSUME RouterInv, ThrowInReplay
  PROVE  /\ NothingOwedIsLost' /\ WithinLog' /\ QueueInOrder'
         /\ BatchContinuesLog' /\ StackIsSound'
<1> DEFINE s == replays[Len(replays)]
<1>1. /\ TypeOK /\ NothingOwedIsLost /\ WithinLog
      /\ replays # <<>> /\ LeaveReplay /\ s \in Subs
      /\ sub'[s] = Unused
      /\ \A t \in Subs : t # s => sub'[t] = sub[t]
      /\ UNCHANGED <<head, assigned, batch, pending, isDispatching, event, left>>
  BY Innermost DEF RouterInv, ThrowInReplay, store, drain, TypeOK
<1>2. QueueInOrder' /\ BatchContinuesLog'
  BY <1>1, LogUntouched DEF store
<1>3. NothingOwedIsLost'
  <2> SUFFICES ASSUME NEW t \in Subs, sub'[t] # Unused
               PROVE  Owed(t)' = (Reached(t)' + 1) .. head'[sub'[t].stream]
    BY DEF NothingOwedIsLost
  <2>1. sub'[t] = sub[t]
    BY <1>1
  <2>2. Owed(t)' = Owed(t) /\ Reached(t)' = Reached(t)
    BY <1>1, <2>1 DEF Owed, Wants, Reached
  <2> QED BY <1>1, <2>1, <2>2 DEF NothingOwedIsLost
<1>4. WithinLog'
  BY <1>1 DEF WithinLog
<1>5. StackIsSound'
  <2>1. sub'[s].state # "replaying"
    BY <1>1 DEF Unused
  <2> QED BY <1>1, <2>1, LeaveReplayStack
<1> QED BY <1>2, <1>3, <1>4, <1>5

\* The event taken was owed to the same subscriptions while it was queued.
LEMMA TakeNextKeepsInv ==
  ASSUME RouterInv, TakeNext
  PROVE  /\ NothingOwedIsLost' /\ WithinLog' /\ QueueInOrder'
         /\ BatchContinuesLog' /\ StackIsSound'
<1>1. /\ TypeOK /\ NothingOwedIsLost /\ WithinLog /\ QueueInOrder
      /\ BatchContinuesLog /\ StackIsSound
      /\ isDispatching /\ replays = <<>> /\ left = {} /\ pending # <<>>
      /\ pending \in Seq(Event) /\ InOrder(pending)
      /\ event' = Head(pending) /\ pending' = Tail(pending) /\ left' = Registered
      /\ UNCHANGED <<head, assigned, batch, isDispatching, replays, running, sub>>
  BY DEF RouterInv, TakeNext, AtLoop, store, TypeOK, QueueInOrder
<1>2. /\ event' \in Event /\ event'.seq \in Nat /\ event'.stream \in Streams
      /\ InOrder(pending')
      /\ \A st : SeqsIn(pending, st) = SeqsIn(pending', st)
                   \cup (IF event'.stream = st THEN {event'.seq} ELSE {})
      /\ \A n \in SeqsIn(pending', event'.stream) : event'.seq < n
  <2>1. event' \in Event
    BY <1>1, TakeFromQueue
  <2> QED BY <1>1, <2>1, TakeFromQueue DEF Event
<1>3. NothingOwedIsLost'
  <2> SUFFICES ASSUME NEW t \in Subs, sub[t] # Unused
               PROVE  Owed(t)' = (Reached(t) + 1) .. head[sub[t].stream]
    BY <1>1 DEF NothingOwedIsLost, Reached
  <2>1. sub[t].state = "live"
    <3>1. Len(replays) = 0
      BY <1>1
    <3> QED BY <1>1, <3>1, InUse DEF StackIsSound
  <2>2. t \in left'
    BY <1>1, <2>1 DEF Registered
  <2>3. Owed(t)' = {n \in SeqsIn(pending', sub[t].stream) : n > sub[t].deliveredThrough}
                     \cup (IF sub[t].stream = event'.stream
                              /\ event'.seq > sub[t].deliveredThrough
                           THEN {event'.seq} ELSE {})
    BY <1>1, <2>2 DEF Owed, Wants
  <2>4. Owed(t) = {n \in SeqsIn(pending, sub[t].stream) : n > sub[t].deliveredThrough}
    BY <1>1 DEF Owed
  <2>5. Owed(t)' = Owed(t)
    BY <1>2, <2>3, <2>4
  <2> QED BY <1>1, <2>5 DEF NothingOwedIsLost
<1>4. WithinLog'
  BY <1>1 DEF WithinLog
<1>5. QueueInOrder'
  <2>1. event'.seq <= head[event'.stream]
    BY <1>1, <1>2 DEF QueueInOrder
  <2>2. \A st \in Streams : \A n \in SeqsIn(pending', st) : n <= head[st]
    BY <1>1, <1>2 DEF QueueInOrder
  <2> QED BY <1>1, <1>2, <2>1, <2>2 DEF QueueInOrder
<1>6. BatchContinuesLog'
  BY <1>1 DEF BatchContinuesLog
<1>7. StackIsSound'
  BY <1>1 DEF StackIsSound, Registered
<1> QED BY <1>3, <1>4, <1>5, <1>6, <1>7

\* The event delivered is the next one of the subscription.
LEMMA DeliversTheNext ==
  ASSUME RouterInv, NEW s \in Subs, Deliver(s)
  PROVE  /\ sub[s].state = "live" /\ sub[s] \in Subscription /\ sub[s] # Unused
         /\ event.seq = sub[s].at + 1
         /\ event.stream = sub[s].stream
         /\ event.seq <= head[sub[s].stream]
         /\ event.seq \notin SeqsIn(pending, sub[s].stream)
<1>1. /\ TypeOK /\ NothingOwedIsLost /\ QueueInOrder /\ StackIsSound /\ WithinLog
      /\ s \in left /\ Wants(s)
  BY DEF RouterInv, Deliver
<1>2. sub[s].state = "live" /\ sub[s] # Unused /\ sub[s] \in Subscription
      /\ sub[s].at \in Nat /\ sub[s].stream \in Streams /\ sub[s].deliveredThrough \in Nat
      /\ head[sub[s].stream] \in Nat
  BY <1>1, InUse DEF StackIsSound, Registered, TypeOK
<1>3. /\ event.stream = sub[s].stream /\ event.seq \in Nat
      /\ event.seq <= head[sub[s].stream]
      /\ \A n \in SeqsIn(pending, sub[s].stream) : event.seq < n
  BY <1>1 DEF QueueInOrder, Wants, Event
<1>4. /\ Owed(s) = (sub[s].at + 1) .. head[sub[s].stream]
      /\ event.seq \in Owed(s)
      /\ \A n \in Owed(s) : n = event.seq \/ n \in SeqsIn(pending, sub[s].stream)
  BY <1>1, <1>2 DEF NothingOwedIsLost, Owed, Reached
<1>5. sub[s].at + 1 \in Owed(s)
  BY <1>2, <1>3, <1>4
<1>6. event.seq = sub[s].at + 1
  BY <1>2, <1>3, <1>4, <1>5
<1>7. event.seq \notin SeqsIn(pending, sub[s].stream)
  BY <1>3
<1> QED BY <1>2, <1>3, <1>6, <1>7

LEMMA DeliverKeepsInv ==
  ASSUME RouterInv, NEW s \in Subs, Deliver(s)
  PROVE  /\ NothingOwedIsLost' /\ WithinLog' /\ QueueInOrder'
         /\ BatchContinuesLog' /\ StackIsSound'
<1>1. /\ TypeOK /\ NothingOwedIsLost /\ WithinLog /\ QueueInOrder /\ StackIsSound
      /\ s \in left /\ Wants(s)
      /\ sub' = [sub EXCEPT ![s].at = event.seq]
      /\ left' = left \ {s}
      /\ UNCHANGED <<head, assigned, batch, pending, isDispatching, event, replays>>
  BY DEF RouterInv, Deliver, store
<1>2. /\ sub[s].state = "live" /\ sub[s] \in Subscription /\ sub[s] # Unused
      /\ event.seq = sub[s].at + 1 /\ event.stream = sub[s].stream
      /\ event.seq <= head[sub[s].stream]
      /\ event.seq \notin SeqsIn(pending, sub[s].stream)
  BY DeliversTheNext
<1>3. /\ sub'[s].state = "live" /\ sub'[s].stream = sub[s].stream
      /\ sub'[s].deliveredThrough = sub[s].deliveredThrough
      /\ sub'[s].at = event.seq
      /\ \A t \in Subs : t # s => sub'[t] = sub[t]
  BY <1>1, <1>2 DEF TypeOK, Subscription
<1>4. /\ sub[s].at \in Nat /\ sub[s].stream \in Streams /\ head[sub[s].stream] \in Nat
      /\ sub[s].deliveredThrough \in Nat /\ sub[s].at >= sub[s].deliveredThrough
  BY <1>1, <1>2, InUse DEF TypeOK, WithinLog
<1>5. QueueInOrder' /\ BatchContinuesLog'
  BY <1>1, LogUntouched DEF store
<1>6. NothingOwedIsLost'
  <2>1. ASSUME NEW t \in Subs, t # s, sub[t] # Unused
        PROVE  Owed(t)' = (Reached(t)' + 1) .. head'[sub'[t].stream]
    <3>1. Owed(t)' = Owed(t) /\ Reached(t)' = Reached(t)
      BY <1>1, <1>3, <2>1 DEF Owed, Wants, Reached
    <3> QED BY <1>1, <1>3, <2>1, <3>1 DEF NothingOwedIsLost
  <2>2. Owed(s)' = (Reached(s)' + 1) .. head'[sub'[s].stream]
    <3>1. Owed(s) = (sub[s].at + 1) .. head[sub[s].stream]
      BY <1>1, <1>2 DEF NothingOwedIsLost, Reached
    <3>2. Owed(s)' = {n \in SeqsIn(pending, sub[s].stream) : n > sub[s].deliveredThrough}
      BY <1>1, <1>3 DEF Owed
    <3>3. Owed(s) = Owed(s)' \cup {event.seq}
      BY <1>1, <3>2 DEF Owed
    <3>4. event.seq \notin Owed(s)'
      BY <1>2, <3>2
    <3>5. Owed(s)' = (sub[s].at + 2) .. head[sub[s].stream]
      <4>1. \A n : n \in Owed(s)' <=> n \in Owed(s) /\ n # sub[s].at + 1
        BY <1>2, <3>3, <3>4
      <4>2. \A n : n \in (sub[s].at + 1) .. head[sub[s].stream] /\ n # sub[s].at + 1
                     <=> n \in (sub[s].at + 2) .. head[sub[s].stream]
        BY <1>4
      <4> QED BY <3>1, <4>1, <4>2
    <3>6. Reached(s)' = sub[s].at + 1
      BY <1>2, <1>3 DEF Reached
    <3> QED BY <1>1, <1>3, <1>4, <3>5, <3>6
  <2>3. \A t \in Subs : sub'[t] # Unused => sub[t] # Unused
    BY <1>2, <1>3
  <2> QED BY <2>1, <2>2, <2>3 DEF NothingOwedIsLost
<1>7. WithinLog'
  <2> SUFFICES ASSUME NEW t \in Subs, sub'[t] # Unused
               PROVE  /\ sub'[t].deliveredThrough <= head[sub'[t].stream]
                      /\ sub'[t].at <= head[sub'[t].stream]
                      /\ sub'[t].state = "live" => sub'[t].at >= sub'[t].deliveredThrough
                      /\ sub'[t].state = "replaying" => sub'[t].at <= sub'[t].deliveredThrough
    BY <1>1 DEF WithinLog
  <2>1. CASE t = s
    <3>1. sub[s].deliveredThrough <= head[sub[s].stream]
      BY <1>1, <1>2 DEF WithinLog
    <3> QED BY <1>2, <1>3, <1>4, <2>1, <3>1
  <2>2. CASE t # s
    BY <1>1, <1>3, <2>2 DEF WithinLog
  <2> QED BY <2>1, <2>2
<1>8. StackIsSound'
  <2>1. \A t \in Subs : sub'[t].state = sub[t].state
    BY <1>2, <1>3
  <2>2. \A i \in 1 .. Len(replays) : replays[i] \in Subs
    BY <1>1 DEF TypeOK
  <2>3. left' \subseteq Registered'
    BY <1>1, <2>1 DEF StackIsSound, Registered
  <2> QED BY <1>1, <2>1, <2>2, <2>3 DEF StackIsSound
<1> QED BY <1>5, <1>6, <1>7, <1>8

\* An event a subscription does not want is not owed to it.
LEMMA SkipKeepsInv ==
  ASSUME RouterInv, NEW s \in Subs, Skip(s)
  PROVE  /\ NothingOwedIsLost' /\ WithinLog' /\ QueueInOrder'
         /\ BatchContinuesLog' /\ StackIsSound'
<1>1. /\ NothingOwedIsLost /\ WithinLog /\ StackIsSound
      /\ ~Wants(s) /\ left' = left \ {s}
      /\ UNCHANGED <<head, assigned, batch, pending, isDispatching, event, replays, sub>>
  BY DEF RouterInv, Skip, store
<1>2. QueueInOrder' /\ BatchContinuesLog'
  BY <1>1, LogUntouched DEF store
<1>3. NothingOwedIsLost'
  <2>1. \A t \in Subs : Owed(t)' = Owed(t)
    BY <1>1 DEF Owed, Wants
  <2> QED BY <1>1, <2>1 DEF NothingOwedIsLost, Reached
<1>4. WithinLog' /\ StackIsSound'
  BY <1>1 DEF WithinLog, StackIsSound, Registered
<1> QED BY <1>2, <1>3, <1>4

\* A step that moves neither the log, nor the queue, nor a subscription.
LEMMA ControlKeepsInv ==
  ASSUME RouterInv,
         UNCHANGED <<store, pending, event, left, replays, sub>>,
         UNCHANGED isDispatching \/ DrainDone
  PROVE  /\ NothingOwedIsLost' /\ WithinLog' /\ QueueInOrder'
         /\ BatchContinuesLog' /\ StackIsSound'
<1>1. /\ NothingOwedIsLost /\ WithinLog /\ StackIsSound
      /\ UNCHANGED <<head, assigned, batch, pending, event, left, replays, sub>>
  BY DEF RouterInv, store
<1>2. QueueInOrder' /\ BatchContinuesLog'
  BY LogUntouched
<1>3. NothingOwedIsLost' /\ WithinLog'
  BY <1>1 DEF NothingOwedIsLost, Owed, Wants, Reached, WithinLog
<1>4. StackIsSound'
  <2>1. ~isDispatching' => pending' = <<>> /\ left' = {}
    BY <1>1 DEF StackIsSound, DrainDone, AtLoop
  <2> QED BY <1>1, <2>1 DEF StackIsSound, Registered
<1> QED BY <1>2, <1>3, <1>4

LEMMA CrashKeepsInv ==
  ASSUME RouterInv, Crash(head)
  PROVE  /\ NothingOwedIsLost' /\ WithinLog' /\ QueueInOrder'
         /\ BatchContinuesLog' /\ StackIsSound'
<1>1. /\ head \in [Streams -> Nat]
      /\ head' = head /\ assigned' = head /\ batch' = <<>> /\ pending' = <<>>
      /\ left' = {} /\ replays' = <<>> /\ isDispatching' = FALSE
      /\ \A t \in Subs : sub'[t] = Unused
  BY DEF RouterInv, TypeOK, Crash
<1>2. NothingOwedIsLost' /\ WithinLog'
  BY <1>1 DEF NothingOwedIsLost, WithinLog
<1>3. QueueInOrder'
  BY <1>1, EmptyQueue DEF QueueInOrder
<1>4. BatchContinuesLog'
  <2>1. \A st \in Streams : head[st] >= head[st] /\ (head[st] + 1) .. head[st] = {}
    BY <1>1
  <2> QED BY <1>1, <2>1, EmptyQueue DEF BatchContinuesLog
<1>5. StackIsSound'
  BY <1>1 DEF StackIsSound, Unused
<1> QED BY <1>2, <1>3, <1>4, <1>5

LEMMA StepInv ==
  ASSUME RouterInv, [Next]_vars
  PROVE  RouterInv'
<1> DEFINE Kept == /\ NothingOwedIsLost' /\ WithinLog' /\ QueueInOrder'
                   /\ BatchContinuesLog' /\ StackIsSound'
<1>1. ASSUME NEW st \in Streams, Insert(st)
      PROVE  Kept
  BY <1>1, InsertKeepsInv
<1>2. ASSUME Rollback PROVE Kept
  BY <1>2, RollbackKeepsInv
<1>3. ASSUME Commit PROVE Kept
  BY <1>3, CommitKeepsInv
<1>4. ASSUME NEW s \in Subs, NEW st \in Streams, NEW lastSeq \in 0 .. head[st],
             Subscribe(s, st, lastSeq)
      PROVE  Kept
  BY <1>4, SubscribeKeepsInv
<1>5. ASSUME NEW ended \in SUBSET Subs, Unsubscribe(ended)
      PROVE  Kept
  BY <1>5, UnsubscribeKeepsInv
<1>6. ASSUME NEW s \in Subs, Replay(s)
      PROVE  Kept
  BY <1>6, ReplayKeepsInv
<1>7. ASSUME NEW s \in Subs, Register(s)
      PROVE  Kept
  BY <1>7, RegisterKeepsInv
<1>8. ASSUME NEW s \in Subs, Deliver(s)
      PROVE  Kept
  BY <1>8, DeliverKeepsInv
<1>9. ASSUME NEW s \in Subs, Skip(s)
      PROVE  Kept
  BY <1>9, SkipKeepsInv
<1>10. ASSUME TakeNext PROVE Kept
  BY <1>10, TakeNextKeepsInv
<1>11. ASSUME DrainDone PROVE Kept
  BY <1>11, ControlKeepsInv DEF DrainDone
<1>12. ASSUME Return \/ ThrowInDispatch PROVE Kept
  BY <1>12, ControlKeepsInv DEF Return, ThrowInDispatch, drain
<1>13. ASSUME ThrowInReplay PROVE Kept
  BY <1>13, ThrowInReplayKeepsInv
<1>14. ASSUME Crash(head) PROVE Kept
  BY <1>14, CrashKeepsInv
<1>15. ASSUME UNCHANGED vars PROVE Kept
  BY <1>15, ControlKeepsInv DEF vars, drain
<1>16. Kept
  BY <1>1, <1>2, <1>3, <1>4, <1>5, <1>6, <1>7, <1>8, <1>9, <1>10, <1>11, <1>12, <1>13, <1>14, <1>15
  DEF Next
<1>17. TypeOK'
  BY StepTypes DEF RouterInv
<1> QED BY <1>16, <1>17 DEF RouterInv

\* When no call is in progress nothing is owed to anybody.
LEMMA NothingIsOwedAtRest ==
  ASSUME RouterInv
  PROVE  CaughtUp
<1> SUFFICES ASSUME NoCall
             PROVE  /\ pending = <<>>
                    /\ \A s \in Registered : sub[s].at = head[sub[s].stream]
  BY DEF CaughtUp
<1>1. /\ TypeOK /\ NothingOwedIsLost /\ WithinLog
      /\ pending = <<>> /\ left = {}
  BY DEF RouterInv, NoCall, StackIsSound
<1>2. ASSUME NEW s \in Registered
      PROVE  sub[s].at = head[sub[s].stream]
  <2>1. /\ s \in Subs /\ sub[s].state = "live" /\ sub[s] # Unused
        /\ sub[s].at \in Nat /\ sub[s].stream \in Streams /\ head[sub[s].stream] \in Nat
    BY <1>1, InUse DEF Registered, TypeOK
  <2>2. Owed(s) = {}
    BY <1>1, EmptyQueue DEF Owed
  <2>3. (sub[s].at + 1) .. head[sub[s].stream] = {}
    BY <1>1, <2>1, <2>2 DEF NothingOwedIsLost, Reached
  <2>4. sub[s].at <= head[sub[s].stream]
    BY <1>1, <2>1 DEF WithinLog
  <2> QED BY <2>1, <2>3, <2>4
<1> QED BY <1>1, <1>2

--------------------------------------------------------------------------------
(* THEOREMS *)

\* The strengthening holds of every behaviour.
THEOREM RouterInvariant == Spec => []RouterInv
<1>1. Init => RouterInv
  BY InitInv
<1>2. RouterInv /\ [Next]_vars => RouterInv'
  BY StepInv
<1> QED BY <1>1, <1>2, PTL DEF Spec

\* Every variable of the router keeps its type.
THEOREM RouterTypesCorrect == Spec => []TypeOK
<1>1. RouterInv => TypeOK
  BY DEF RouterInv
<1> QED BY <1>1, RouterInvariant, PTL

\* When the outermost call returns nothing is left in the queue, and every
\* subscription has been given the whole of its stream.
THEOREM NobodyIsLeftBehind == Spec => []CaughtUp
<1>1. RouterInv => CaughtUp
  BY NothingIsOwedAtRest
<1> QED BY <1>1, RouterInvariant, PTL

\* The router implements the delivery of streams: whatever the callbacks do,
\* a subscriber is given the next committed event of its stream or nothing.
THEOREM RouterImplementsDelivery == Spec => ImplementsDelivery
<1> DEFINE position == [s \in Subs |-> Position(s)]
<1>1. Init => Delivery!Init
  BY DEF Init, Delivery!Init, Delivery!NoPosition, Position
<1>2. ASSUME RouterInv, [Next]_vars
      PROVE  [Delivery!Next]_<<head, position>>
  <2> USE DEF Delivery!NoPosition
  <2>0. /\ TypeOK /\ WithinLog /\ StackIsSound /\ BatchContinuesLog
        /\ head \in [Streams -> Nat] /\ assigned \in [Streams -> Nat]
    BY <1>2 DEF RouterInv, TypeOK
  <2>1. ASSUME UNCHANGED head, \A s \in Subs : Position(s)' = Position(s)
        PROVE  UNCHANGED <<head, position>>
    BY <2>1
  <2>2. ASSUME NEW st \in Streams, Insert(st)
        PROVE  UNCHANGED <<head, position>>
    BY <2>1, <2>2 DEF Insert, Position
  <2>3. ASSUME Rollback PROVE UNCHANGED <<head, position>>
    BY <2>1, <2>3 DEF Rollback, Position
  <2>4. ASSUME Commit PROVE Delivery!Commit
    <3>1. head' = assigned /\ UNCHANGED sub
      BY <2>4 DEF Commit
    <3>2. UNCHANGED position
      BY <3>1 DEF Position
    <3> QED BY <2>0, <3>1, <3>2 DEF Delivery!Commit, BatchContinuesLog
  <2>5. ASSUME NEW s \in Subs, NEW st \in Streams, NEW lastSeq \in 0 .. head[st],
               Subscribe(s, st, lastSeq)
        PROVE  Delivery!Join(s, st, lastSeq)
    <3> DEFINE new == [state |-> "replaying", stream |-> st, at |-> lastSeq,
                       deliveredThrough |-> head[st]]
    <3>1. sub[s] = Unused /\ sub'[s] = new /\ UNCHANGED head
          /\ \A t \in Subs : t # s => sub'[t] = sub[t]
      BY <2>0, <2>5 DEF Subscribe, TypeOK, store
    <3>2. Position(s) = [stream |-> "none", at |-> 0]
          /\ Position(s)' = [stream |-> st, at |-> lastSeq]
      BY <3>1 DEF Position, Unused
    <3>3. \A t \in Subs : t # s => Position(t)' = Position(t)
      BY <3>1 DEF Position
    <3>4. lastSeq <= head[st]
      BY <2>0
    <3> QED BY <3>1, <3>2, <3>3, <3>4 DEF Delivery!Join
  <2>6. ASSUME NEW ended \in SUBSET Subs, UNCHANGED head,
               \A t \in Subs : IF t \in ended THEN sub'[t] = Unused ELSE Position(t)' = Position(t)
        PROVE  Delivery!Leave(ended)
    <3>1. \A t \in ended : Position(t)' = [stream |-> "none", at |-> 0]
      BY <2>6 DEF Position
    <3> QED BY <2>6, <3>1 DEF Delivery!Leave
  <2>7. ASSUME NEW s \in Subs, UNCHANGED head, sub[s] # Unused,
               sub'[s] = [sub[s] EXCEPT !.at = @ + 1],
               sub[s].at < head[sub[s].stream],
               \A t \in Subs : t # s => sub'[t] = sub[t]
        PROVE  Delivery!Advance(s)
    <3>1. sub[s] \in Subscription /\ sub[s].stream \in Streams
      BY <2>0, <2>7, InUse
    <3>2. /\ sub'[s] # Unused /\ sub'[s].stream = sub[s].stream
          /\ sub'[s].at = sub[s].at + 1
      BY <2>7, <3>1 DEF Subscription, Unused
    <3>3. /\ Position(s) = [stream |-> sub[s].stream, at |-> sub[s].at]
          /\ Position(s)' = [stream |-> sub[s].stream, at |-> sub[s].at + 1]
      BY <2>7, <3>2 DEF Position
    <3>4. Position(s) # [stream |-> "none", at |-> 0]
      BY <3>1, <3>3, StreamAssumption
    <3>5. \A t \in Subs : t # s => Position(t)' = Position(t)
      BY <2>7 DEF Position
    <3>6. [position[s] EXCEPT !.at = @ + 1] = Position(s)'
      BY <3>3
    <3>7. position' = [position EXCEPT ![s] = Position(s)']
      BY <3>5
    <3>8. position' = [position EXCEPT ![s].at = @ + 1]
      BY <3>6, <3>7
    <3>9. /\ position[s] # [stream |-> "none", at |-> 0]
          /\ position[s].at < head[position[s].stream]
      BY <2>7, <3>3, <3>4
    <3> QED BY <2>7, <3>8, <3>9 DEF Delivery!Advance
  <2>8. ASSUME NEW ended \in SUBSET Subs, Unsubscribe(ended)
        PROVE  Delivery!Leave(ended)
    <3>1. UNCHANGED head
          /\ \A t \in Subs : IF t \in ended THEN sub'[t] = Unused ELSE Position(t)' = Position(t)
      BY <2>8 DEF Unsubscribe, Ended, store, Position
    <3> QED BY <2>6, <3>1
  <2>9. ASSUME NEW s \in Subs, Replay(s)
        PROVE  Delivery!Advance(s)
    <3>1. sub[s].state = "replaying" /\ sub[s] # Unused
          /\ sub[s].at \in Nat /\ sub[s].deliveredThrough \in Nat
          /\ head[sub[s].stream] \in Nat
      BY <2>0, <2>9, Innermost, InUse DEF Replay, Replaying, TypeOK
    <3>2. sub[s].deliveredThrough <= head[sub[s].stream]
      BY <2>0, <3>1 DEF WithinLog
    <3>3. /\ UNCHANGED head /\ sub'[s] = [sub[s] EXCEPT !.at = @ + 1]
          /\ sub[s].at < sub[s].deliveredThrough
          /\ \A t \in Subs : t # s => sub'[t] = sub[t]
      BY <2>0, <2>9 DEF Replay, store, TypeOK
    <3> QED BY <2>7, <3>1, <3>2, <3>3
  <2>10. ASSUME NEW s \in Subs, Register(s)
         PROVE  UNCHANGED <<head, position>>
    <3>1. sub[s] \in Subscription /\ sub[s] # Unused
      BY <2>0, <2>10, Innermost, InUse DEF Register, Replaying
    <3>2. /\ UNCHANGED head
          /\ sub'[s] # Unused /\ sub'[s].stream = sub[s].stream /\ sub'[s].at = sub[s].at
          /\ \A t \in Subs : t # s => sub'[t] = sub[t]
      BY <2>0, <2>10, <3>1 DEF Register, store, TypeOK, Subscription, Unused
    <3>3. \A t \in Subs : Position(t)' = Position(t)
      BY <3>1, <3>2 DEF Position
    <3> QED BY <2>1, <3>2, <3>3
  <2>11. ASSUME NEW s \in Subs, Deliver(s)
         PROVE  Delivery!Advance(s)
    <3>1. /\ sub[s] \in Subscription /\ sub[s] # Unused
          /\ event.seq = sub[s].at + 1 /\ event.seq <= head[sub[s].stream]
      BY <1>2, <2>11, DeliversTheNext
    <3>2. sub[s].at \in Nat /\ head[sub[s].stream] \in Nat
      BY <2>0, <3>1, InUse
    <3>3. /\ UNCHANGED head /\ sub'[s] = [sub[s] EXCEPT !.at = event.seq]
          /\ \A t \in Subs : t # s => sub'[t] = sub[t]
      BY <2>0, <2>11 DEF Deliver, store, TypeOK
    <3> QED BY <2>7, <3>1, <3>2, <3>3
  <2>12. ASSUME (\E s \in Subs : Skip(s)) \/ TakeNext \/ DrainDone \/ Return \/ ThrowInDispatch
                \/ UNCHANGED vars
         PROVE  UNCHANGED <<head, position>>
    <3>1. UNCHANGED <<head, sub>>
      BY <2>12 DEF Skip, TakeNext, DrainDone, Return, ThrowInDispatch, vars, store
    <3> QED BY <2>1, <3>1 DEF Position
  <2>13. ASSUME ThrowInReplay
         PROVE  Delivery!Leave({replays[Len(replays)]})
    <3>1. replays[Len(replays)] \in Subs
      BY <2>0, <2>13, Innermost DEF ThrowInReplay
    <3>2. UNCHANGED head
          /\ \A t \in Subs : IF t \in {replays[Len(replays)]} THEN sub'[t] = Unused
                                                              ELSE Position(t)' = Position(t)
      BY <2>0, <2>13, <3>1 DEF ThrowInReplay, store, TypeOK, Position
    <3> QED BY <2>6, <3>1, <3>2
  <2>14. ASSUME Crash(head)
         PROVE  Delivery!Leave(Subs)
    <3>1. UNCHANGED head
          /\ \A t \in Subs : IF t \in Subs THEN sub'[t] = Unused ELSE Position(t)' = Position(t)
      BY <2>14 DEF Crash
    <3> QED BY <2>6, <3>1
  <2>15. CASE \E s \in Subs, st \in Streams : \E lastSeq \in 0 .. head[st] : Subscribe(s, st, lastSeq)
    BY <2>5, <2>15 DEF Delivery!Next
  <2>16. CASE \E ended \in SUBSET Subs : Unsubscribe(ended)
    BY <2>8, <2>16 DEF Delivery!Next
  <2>17. CASE \E s \in Subs : Replay(s) \/ Deliver(s)
    BY <2>9, <2>11, <2>17 DEF Delivery!Next
  <2>18. CASE ThrowInReplay
    <3>1. replays[Len(replays)] \in Subs
      BY <2>0, <2>18, Innermost DEF ThrowInReplay
    <3> QED BY <2>13, <2>18, <3>1 DEF Delivery!Next
  <2>19. CASE Crash(head)
    BY <2>14, <2>19 DEF Delivery!Next
  <2>20. CASE Commit
    BY <2>4, <2>20 DEF Delivery!Next
  <2> QED
    BY <1>2, <2>2, <2>3, <2>10, <2>12, <2>15, <2>16, <2>17, <2>18, <2>19, <2>20 DEF Next
<1> QED BY <1>1, <1>2, RouterInvariant, PTL DEF Spec, ImplementsDelivery, Delivery!Spec
================================================================================
