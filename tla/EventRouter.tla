----------------------------- MODULE EventRouter -----------------------------
(***************************************************************************)
(* The event spine inside one daemon: core/src/router.ts over an event     *)
(* store (daemon/src/sqliteEventStore.ts, core/src/memoryEventStore.ts).   *)
(*                                                                         *)
(* Everything here is synchronous, so an interleaving is one of calls: a   *)
(* subscriber's callback may emit, subscribe and unsubscribe before it     *)
(* returns, and may throw.  An action is one turn of a loop of the router  *)
(* or one call made by whoever holds the thread, which is a callback, or   *)
(* anybody when no call is in progress.                                    *)
(*                                                                         *)
(* The contents of an event are immaterial: the store is the number of     *)
(* events in each stream, and an event is its stream and its seq.          *)
(***************************************************************************)
EXTENDS Integers, Sequences

CONSTANTS
  Streams,  \* the streams of the log
  Subs,     \* the identities of subscriptions
  MaxSeq,   \* bound on the length of a stream
  MaxBatch  \* bound on the events of one emit

ASSUME StreamAssumption == "none" \notin Streams
ASSUME BoundAssumption == MaxSeq \in Nat /\ MaxBatch \in Nat

VARIABLES
  head,           \* DURABLE: MAX(seq) of the committed events of each stream
  assigned,       \* the same with the transaction in progress
  batch,          \* the events that transaction inserted; <<>> when there is none
  pending,        \* pendingBroadcasts
  isDispatching,  \* the drain loop is on the stack
  event,          \* the event it took last
  left,           \* the subscriptions it has yet to offer that event to
  replays,        \* calls of subscribe in their replay loop, innermost last
  running,        \* a callback of the innermost loop holds the thread
  sub             \* each subscription

store == <<head, assigned, batch>>
drain == <<isDispatching, event, left>>
vars  == <<store, pending, drain, replays, running, sub>>

--------------------------------------------------------------------------------
Event   == [stream : Streams, seq : Nat]
NoEvent == [stream |-> "none", seq |-> 0]

(* `at` is the seq of the event the callback was given last: it belongs to *)
(* the subscriber, the router keeps deliveredThrough only.                 *)
Unused == [state |-> "unused"]
Subscription ==
  [state : {"replaying", "live"}, stream : Streams, at : Nat, deliveredThrough : Nat]

TypeOK ==
  /\ head \in [Streams -> Nat]
  /\ assigned \in [Streams -> Nat]
  /\ batch \in Seq(Event)
  /\ pending \in Seq(Event)
  /\ isDispatching \in BOOLEAN
  /\ event \in Event \cup {NoEvent}
  /\ left \subseteq Subs
  /\ replays \in Seq(Subs)
  /\ running \in BOOLEAN
  /\ sub \in [Subs -> Subscription \cup {Unused}]

Registered == {s \in Subs : sub[s].state = "live"}

NoCall == ~isDispatching /\ replays = <<>> /\ batch = <<>>

(* Code outside the router has the thread and may call into it. *)
MayCall == batch = <<>> /\ (running \/ NoCall)

(* No subscriber of this repository emits while it is being replayed to    *)
(* outside a dispatch: the replayed callbacks (the socket hub's and the    *)
(* test harness's) do not emit at all.  The router would drain at once and *)
(* the new subscription, not registered yet, would miss the event.         *)
MayEmit == MayCall /\ (isDispatching \/ replays = <<>>)

--------------------------------------------------------------------------------
Init ==
  /\ head = [st \in Streams |-> 0]
  /\ assigned = head
  /\ batch = <<>>
  /\ pending = <<>>
  /\ isDispatching = FALSE
  /\ event = NoEvent
  /\ left = {}
  /\ replays = <<>>
  /\ running = FALSE
  /\ sub = [s \in Subs |-> Unused]

(* emit, the transaction of append: each event takes the seq after the one *)
(* its stream was given last, in this batch or before it.                  *)
Insert(st) ==
  /\ MayEmit \/ batch # <<>>
  /\ Len(batch) < MaxBatch /\ assigned[st] < MaxSeq
  /\ assigned' = [assigned EXCEPT ![st] = @ + 1]
  /\ batch' = Append(batch, [stream |-> st, seq |-> assigned[st] + 1])
  /\ UNCHANGED <<head, pending, drain, replays, running, sub>>

(* The insertion fails: nothing is committed, emit throws to its caller.   *)
Rollback ==
  /\ batch # <<>>
  /\ assigned' = head
  /\ batch' = <<>>
  /\ UNCHANGED <<head, pending, drain, replays, running, sub>>

(* append commits, emit queues the events and enters drainBroadcasts,      *)
(* which returns at once inside a dispatch and starts the loop otherwise.  *)
Commit ==
  /\ batch # <<>>
  /\ head' = assigned
  /\ batch' = <<>>
  /\ pending' = pending \o batch
  /\ isDispatching' = TRUE
  /\ UNCHANGED <<assigned, event, left, replays, running, sub>>

(* subscribe, up to its loop: deliveredThrough is the head read here.      *)
Subscribe(s, st, lastSeq) ==
  /\ MayCall
  /\ sub[s] = Unused
  /\ sub' = [sub EXCEPT ![s] = [state |-> "replaying", stream |-> st, at |-> lastSeq,
                                deliveredThrough |-> head[st]]]
  /\ replays' = Append(replays, s)
  /\ running' = FALSE
  /\ UNCHANGED <<store, pending, drain>>

(* The record is deleted from the set, so that its identity may be reused. *)
Ended_Flagged(s) == [sub[s] EXCEPT !.state = "inactive"]  \* mutant: never deleted
Ended(s) == Unused

(* The unsubscribe functions of some subscriptions, called in a row.  An   *)
(* unsubscribed callback is not called again, not even for the event being *)
(* offered.                                                                *)
Unsubscribe(ended) ==
  /\ MayCall
  /\ ended \subseteq Registered
  /\ sub' = [s \in Subs |-> IF s \in ended THEN Ended(s) ELSE sub[s]]
  /\ left' = left \ ended
  /\ UNCHANGED <<store, pending, isDispatching, event, replays, running>>

--------------------------------------------------------------------------------
(* The replay loop of the innermost subscribe.                             *)
Replaying(s) == ~running /\ batch = <<>> /\ replays # <<>> /\ s = replays[Len(replays)]

LeaveReplay ==
  /\ replays' = SubSeq(replays, 1, Len(replays) - 1)
  /\ running' = (isDispatching \/ Len(replays) > 1)

Replay(s) ==
  /\ Replaying(s)
  /\ sub[s].at < sub[s].deliveredThrough
  /\ sub' = [sub EXCEPT ![s].at = @ + 1]
  /\ running' = TRUE
  /\ UNCHANGED <<store, pending, drain, replays>>

(* The replay is over: the subscription is registered. *)
Register(s) ==
  /\ Replaying(s)
  /\ sub[s].at >= sub[s].deliveredThrough
  /\ sub' = [sub EXCEPT ![s].state = "live"]
  /\ LeaveReplay
  /\ UNCHANGED <<store, pending, drain>>

--------------------------------------------------------------------------------
(* drainBroadcasts *)
AtLoop == isDispatching /\ ~running /\ replays = <<>> /\ batch = <<>>

TakeNext ==
  /\ AtLoop /\ left = {} /\ pending # <<>>
  /\ event' = Head(pending)
  /\ pending' = Tail(pending)
  /\ left' = Registered
  /\ UNCHANGED <<store, isDispatching, replays, running, sub>>

(* Those the loop does not skip.                                           *)
Wants_ByStream(s) == sub[s].stream = event.stream  \* mutant: as if never replayed
Wants(s) == sub[s].stream = event.stream /\ event.seq > sub[s].deliveredThrough

Deliver(s) ==
  /\ AtLoop /\ s \in left
  /\ Wants(s)
  /\ left' = left \ {s}
  /\ sub' = [sub EXCEPT ![s].at = event.seq]
  /\ running' = TRUE
  /\ UNCHANGED <<store, pending, isDispatching, event, replays>>

Skip(s) ==
  /\ AtLoop /\ s \in left
  /\ ~Wants(s)
  /\ left' = left \ {s}
  /\ UNCHANGED <<store, pending, isDispatching, event, replays, running, sub>>

DrainDone ==
  /\ AtLoop /\ left = {} /\ pending = <<>>
  /\ isDispatching' = FALSE
  /\ UNCHANGED <<store, pending, event, left, replays, running, sub>>

--------------------------------------------------------------------------------
(* A callback returns to the loop that called it. *)
Return ==
  /\ running /\ batch = <<>>
  /\ running' = FALSE
  /\ UNCHANGED <<store, pending, drain, replays, sub>>

(* A callback throws.  A dispatch collects the error and goes on; a replay *)
(* is abandoned, its subscription never registered, and subscribe throws   *)
(* to its caller.                                                          *)
ThrowInDispatch_Unguarded ==  \* mutant: only the finally clause, no catch
  /\ running /\ batch = <<>> /\ replays = <<>>
  /\ running' = FALSE /\ isDispatching' = FALSE
  /\ UNCHANGED <<store, pending, event, left, replays, sub>>
ThrowInDispatch ==
  /\ running /\ batch = <<>> /\ replays = <<>>
  /\ running' = FALSE
  /\ UNCHANGED <<store, pending, drain, replays, sub>>

ThrowInReplay ==
  /\ running /\ batch = <<>> /\ replays # <<>>
  /\ sub' = [sub EXCEPT ![replays[Len(replays)]] = Unused]
  /\ LeaveReplay
  /\ UNCHANGED <<store, pending, drain>>

(* The process dies and is started again.  `survivors` is the log it finds.*)
Crash(survivors) ==
  /\ head' = survivors
  /\ assigned' = survivors
  /\ batch' = <<>>
  /\ pending' = <<>>
  /\ isDispatching' = FALSE
  /\ event' = NoEvent
  /\ left' = {}
  /\ replays' = <<>>
  /\ running' = FALSE
  /\ sub' = [s \in Subs |-> Unused]

Next ==
  \/ \E st \in Streams : Insert(st)
  \/ Rollback
  \/ Commit
  \/ \E s \in Subs, st \in Streams : \E lastSeq \in 0 .. head[st] : Subscribe(s, st, lastSeq)
  \/ \E ended \in SUBSET Subs : Unsubscribe(ended)
  \/ \E s \in Subs :
       \/ Replay(s)
       \/ Register(s)
       \/ Deliver(s)
       \/ Skip(s)
  \/ TakeNext
  \/ DrainDone
  \/ Return
  \/ ThrowInDispatch
  \/ ThrowInReplay
  \/ Crash(head)

Spec == Init /\ [][Next]_vars

--------------------------------------------------------------------------------
(* PROPERTIES *)

(* Each subscriber, through replay, nested emits, callbacks that throw and *)
(* subscriptions made in the middle of a dispatch, is given its stream     *)
(* event by event: I2, and I13's "no event reaches any subscriber before   *)
(* its transaction commits".                                               *)
Position(s) ==
  IF sub[s] = Unused
  THEN [stream |-> "none", at |-> 0]
  ELSE [stream |-> sub[s].stream, at |-> sub[s].at]

Delivery == INSTANCE StreamDelivery WITH
  Readers <- Subs, position <- [s \in Subs |-> Position(s)]
ImplementsDelivery == Delivery!Spec

(* When the outermost call of the router has returned, every subscription  *)
(* has been given the whole of its stream: an event a callback queued, and *)
(* one queued while another subscription was being made, is not left       *)
(* behind (the drain loop and deliveredThrough of router.ts:38-72).        *)
CaughtUp ==
  NoCall => /\ pending = <<>>
            /\ \A s \in Registered : sub[s].at = head[sub[s].stream]
================================================================================
