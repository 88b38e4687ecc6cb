------------------------------ MODULE WsHubProofs ------------------------------
(***************************************************************************)
(* Proofs about WsHub, for any streams, pages and connections, and any     *)
(* bounds, as long as a crash is one of the daemon (PowerLoss = FALSE): a  *)
(* machine that loses power may lose events a page has already shown.      *)
(*                                                                         *)
(* The router keeps its own invariant under the hub (RouterInv).  What is  *)
(* added says how the calls nest, and that whatever a socket carries       *)
(* continues what the page at its end already has.                         *)
(***************************************************************************)
EXTENDS WsHub, EventRouterProofs, FiniteSetTheorems

(* The calls of the daemon's one thread: a subscribe is handled with no    *)
(* dispatch and no transaction under it, and there is one at a time.       *)
CallsNest ==
  /\ running => isDispatching \/ replays # <<>>
  /\ handling = None => replays = <<>>
  /\ handling # None =>
       /\ ~isDispatching /\ batch = <<>> /\ Len(replays) <= 1
       /\ conn[handling] # "free"
       /\ replays = <<>> => up[handling] # <<>>

(* Whose callback runs: one of a connection not torn down, and while the   *)
(* connection is open, a subscription that was given an event.             *)
CallerIsKnown ==
  running =>
    /\ calling \in Subs /\ conn[calling[1]] # "free"
    /\ conn[calling[1]] = "open" => sub[calling] # Unused /\ sub[calling].at >= 1

SubscriptionsAreNamed ==
  \A k \in Conn, st \in Streams :
    sub[<<k, st>>] # Unused => sub[<<k, st>>].stream = st

(* The log is within its bound, and nobody is ahead of it. *)
NobodyAhead ==
  /\ \A st \in Streams : assigned[st] <= MaxSeq
  /\ \A c \in Client, st \in Streams : lastSeq[c][st] <= head[st]
  /\ \A k \in Conn : \A i \in 1 .. Len(down[k]) :
       down[k][i].seq >= 1 /\ down[k][i].seq <= head[down[k][i].stream]
  /\ \A k \in Conn : \A i \in 1 .. Len(up[k]) : up[k][i].lastSeq <= head[up[k][i].stream]

(* A socket has one page at its end, and one without a page is empty. *)
SocketsAreOwned ==
  /\ \A c, d \in Client : (socket[c] # None /\ socket[c] = socket[d]) => c = d
  /\ \A k \in Conn : ~Held(k) => down[k] = <<>>

(* A page that has a stream as far as `had` has event n of it once the     *)
(* first m of the events a socket carries have arrived.                    *)
Brings(had, carried, m, st, n) ==
  \/ n <= had
  \/ \E i \in 1 .. m : carried[i].stream = st /\ carried[i].seq >= n

(* An event on the wire comes at most one after what came before it. *)
WireHasNoGap ==
  \A c \in Client, k \in Conn : socket[c] = k => \A i \in 1 .. Len(down[k]) :
    Brings(lastSeq[c][down[k][i].stream], down[k], i - 1, down[k][i].stream, down[k][i].seq - 1)

(* What was sent to a subscription: what it was given, but for the event   *)
(* its callback is about to send.                                          *)
Sending(s) == running /\ calling = s
SentThrough(s) == IF Sending(s) THEN sub[s].at - 1 ELSE sub[s].at

SubscriptionsSent ==
  \A c \in Client, k \in Conn, st \in Streams :
    (socket[c] = k /\ conn[k] = "open" /\ sub[<<k, st>>] # Unused) =>
      Brings(lastSeq[c][st], down[k], Len(down[k]), st, SentThrough(<<k, st>>))

(* A page asks from where it is, or was. *)
RequestsFromThePast ==
  \A c \in Client, k \in Conn : socket[c] = k =>
    \A i \in 1 .. Len(up[k]) : up[k][i].lastSeq <= lastSeq[c][up[k][i].stream]

(* What a page wants, and only that, was asked for. *)
WantedIsAskedFor ==
  \A c \in Client, k \in Conn : socket[c] = k =>
    /\ conn[k] = "open" => \A st \in wanted[c] :
         sub[<<k, st>>] # Unused \/ \E i \in 1 .. Len(up[k]) : up[k][i].stream = st
    /\ \A st \in Streams : sub[<<k, st>>] # Unused => st \in wanted[c]
    /\ \A i \in 1 .. Len(up[k]) : up[k][i].stream \in wanted[c]
    /\ \A i \in 1 .. Len(down[k]) : down[k][i].stream \in wanted[c]

WireInv ==
  /\ WireHasNoGap /\ SubscriptionsSent /\ RequestsFromThePast /\ WantedIsAskedFor

HubInv ==
  /\ RouterInv /\ HubTypeOK
  /\ \A c \in Client : IsFiniteSet(wanted[c])
  /\ CallsNest /\ CallerIsKnown /\ NoSubscriptionLeaks /\ SubscriptionsAreNamed
  /\ NobodyAhead /\ SocketsAreOwned /\ WireInv

--------------------------------------------------------------------------------
(* WHAT THE ROUTER SEES *)

\* A subscription is the pair of its connection and its stream.
LEMMA SubsArePairs ==
  /\ \A k \in Conn, st \in Streams :
       /\ <<k, st>> \in Subs /\ <<k, st>>[1] = k /\ <<k, st>>[2] = st /\ <<k, st>> # None
  /\ \A s \in Subs : s[1] \in Conn /\ s[2] \in Streams /\ s = <<s[1], s[2]>> /\ s # None
BY SubsAssumption, NoneAssumption

\* A request read off the wire.
LEMMA ARequest ==
  ASSUME HubInv, NEW k \in Conn, up[k] # <<>>
  PROVE  /\ Head(up[k]) \in Request /\ Head(up[k]).stream \in Streams
         /\ Head(up[k]).lastSeq \in 0 .. head[Head(up[k]).stream]
         /\ Len(up[k]) \in Nat \ {0} /\ Head(up[k]) = up[k][1]
         /\ Tail(up[k]) \in Seq(Request) /\ Len(Tail(up[k])) = Len(up[k]) - 1
         /\ \A i \in 1 .. Len(up[k]) - 1 : Tail(up[k])[i] = up[k][i + 1]
<1>1. up[k] \in Seq(Request)
  BY DEF HubInv, HubTypeOK
<1>2. /\ Head(up[k]) \in Request /\ Tail(up[k]) \in Seq(Request)
      /\ Len(up[k]) \in Nat \ {0} /\ Head(up[k]) = up[k][1]
      /\ Len(Tail(up[k])) = Len(up[k]) - 1
      /\ \A i \in 1 .. Len(up[k]) - 1 : Tail(up[k])[i] = up[k][i + 1]
  BY <1>1
<1>3. Head(up[k]).lastSeq <= head[Head(up[k]).stream]
  BY <1>2 DEF HubInv, NobodyAhead
<1>4. head[Head(up[k]).stream] \in Nat
  BY <1>2 DEF HubInv, RouterInv, TypeOK, Request
<1> QED BY <1>2, <1>3, <1>4 DEF Request

\* What a socket carries.
LEMMA OnTheWire ==
  ASSUME HubTypeOK, NEW k \in Conn
  PROVE  /\ down[k] \in Seq(Envelope) /\ Len(down[k]) \in Nat
         /\ up[k] \in Seq(Request) /\ Len(up[k]) \in Nat
         /\ \A i \in 1 .. Len(down[k]) :
              /\ down[k][i] \in Envelope /\ down[k][i].stream \in Streams
              /\ down[k][i].seq \in Nat /\ down[k][i].seq <= MaxSeq
         /\ \A i \in 1 .. Len(up[k]) :
              /\ up[k][i] \in Request /\ up[k][i].stream \in Streams
              /\ up[k][i].lastSeq \in Nat /\ up[k][i].lastSeq <= MaxSeq
<1>1. /\ down[k] \in Seq(Envelope) /\ Len(down[k]) \in Nat
      /\ up[k] \in Seq(Request) /\ Len(up[k]) \in Nat
  BY DEF HubTypeOK
<1>2. /\ \A i \in 1 .. Len(down[k]) : down[k][i] \in Envelope
      /\ \A i \in 1 .. Len(up[k]) : up[k][i] \in Request
  BY <1>1
<1> QED BY <1>1, <1>2, BoundAssumption DEF Envelope, Request

\* When the daemon is idle no callback runs and nobody is being replayed to.
LEMMA IdleMeansIdle ==
  ASSUME HubInv, Idle
  PROVE  /\ ~running /\ handling = None /\ ~isDispatching
         /\ replays = <<>> /\ batch = <<>> /\ pending = <<>> /\ left = {}
         /\ \A s \in Subs : sub[s] = Unused \/ s \in Registered
<1>1. /\ handling = None /\ ~isDispatching /\ replays = <<>> /\ batch = <<>>
      /\ ~running /\ pending = <<>> /\ left = {}
  BY DEF HubInv, Idle, NoCall, CallsNest, RouterInv, StackIsSound
<1>2. ASSUME NEW s \in Subs
      PROVE  sub[s] = Unused \/ s \in Registered
  <2>1. sub[s].state # "replaying"
    BY <1>1 DEF HubInv, RouterInv, StackIsSound
  <2>2. sub[s] # Unused => sub[s].state \in {"replaying", "live"}
    BY InUse DEF HubInv, RouterInv
  <2> QED BY <2>1, <2>2 DEF Registered
<1> QED BY <1>1, <1>2

\* Every step of the hub and the page is, for the router, one of its own.
LEMMA HubStepIsARouterStep ==
  ASSUME ~PowerLoss, HubInv, [HubNext]_hubVars
  PROVE  [Next]_vars
<1>1. CASE Emit \/ Dispatch
  BY <1>1 DEF Emit, Dispatch, Next
<1>2. CASE \E s \in Subs : CallBack(s)
  BY <1>2 DEF CallBack, Next
<1>3. ASSUME NEW ended, Unsubscribe(ended)
      PROVE  Next
  <2>1. ended \in SUBSET Subs
    BY <1>3 DEF Unsubscribe, Registered
  <2> QED BY <1>3, <2>1 DEF Next
<1>4. CASE \E k \in Conn : HandleSubscribe(k) \/ DropSlow(k) \/ HubClose(k) \/ HubError(k)
  BY <1>3, <1>4 DEF HandleSubscribe, DropSlow, HubClose, HubError, TearDown
<1>5. ASSUME NEW k \in Conn, SubscribeToRouter(k)
      PROVE  Next
  <2>1. up[k] # <<>>
    BY <1>5, NoneAssumption DEF SubscribeToRouter, HubInv, CallsNest
  <2>2. /\ <<k, Head(up[k]).stream>> \in Subs /\ Head(up[k]).stream \in Streams
        /\ Head(up[k]).lastSeq \in 0 .. head[Head(up[k]).stream]
    BY <2>1, ARequest, SubsArePairs
  <2> QED BY <1>5, <2>2 DEF SubscribeToRouter, Next
<1>6. CASE \E k \in Conn : SubscribeReturns(k)
  BY <1>6, SubsArePairs DEF SubscribeReturns, Next
<1>7. CASE \E k \in Conn : Send(k)
  BY <1>7 DEF Send, Next
<1>8. CASE DaemonCrash
  BY <1>8 DEF DaemonCrash, Survivors, Next
<1>9. CASE \E c \in Client : Page(c)
  BY <1>9 DEF Page, Connect, ClientSubscribe, ClientReceive, ClientClose, ClientLoses, Reload,
              Disconnect
<1>10. CASE UNCHANGED hubVars
  BY <1>10 DEF hubVars
<1> QED
  BY <1>1, <1>2, <1>4, <1>5, <1>6, <1>7, <1>8, <1>9, <1>10 DEF HubNext, Daemon

--------------------------------------------------------------------------------
(* THE WIRE *)

\* A step of the daemon that neither sends nor subscribes, nor ends a
\* subscription of an open connection that is not about to be made again.
LEMMA WireUntouched ==
  ASSUME HubInv, UNCHANGED <<down, page>>,
         \A k \in Conn : up'[k] = up[k] \/ (up'[k] = <<>> /\ conn'[k] # "open"),
         \A k \in Conn : conn'[k] = "open" => conn[k] = "open",
         \A s \in Subs : sub'[s] # Unused => sub[s] # Unused,
         \A s \in Subs : (sub'[s] # Unused /\ conn'[s[1]] = "open" /\ Held(s[1])) =>
           SentThrough(s)' = SentThrough(s),
         \A s \in Subs : (sub[s] # Unused /\ conn'[s[1]] = "open") =>
           sub'[s] # Unused \/ \E i \in 1 .. Len(up[s[1]]) : up[s[1]][i].stream = s[2]
  PROVE  WireInv'
<1>1. UNCHANGED <<down, socket, wanted, lastSeq>>
      /\ WireHasNoGap /\ SubscriptionsSent /\ RequestsFromThePast /\ WantedIsAskedFor
  BY DEF HubInv, WireInv, page
<1>2. WireHasNoGap'
  BY <1>1 DEF WireHasNoGap
<1>3. SubscriptionsSent'
  <2> SUFFICES ASSUME NEW c \in Client, NEW k \in Conn, NEW st \in Streams,
                      socket[c] = k, conn'[k] = "open", sub'[<<k, st>>] # Unused
               PROVE  Brings(lastSeq[c][st], down[k], Len(down[k]), st, SentThrough(<<k, st>>)')
    BY <1>1 DEF SubscriptionsSent
  <2>1. /\ <<k, st>> \in Subs /\ Held(k)
        /\ sub[<<k, st>>] # Unused /\ conn[k] = "open"
        /\ SentThrough(<<k, st>>)' = SentThrough(<<k, st>>)
    BY SubsArePairs DEF Held
  <2>2. Brings(lastSeq[c][st], down[k], Len(down[k]), st, SentThrough(<<k, st>>))
    BY <1>1, <2>1 DEF SubscriptionsSent
  <2> QED BY <2>1, <2>2
<1>4. RequestsFromThePast'
  BY <1>1 DEF RequestsFromThePast
<1>5. WantedIsAskedFor'
  <2> SUFFICES ASSUME NEW c \in Client, NEW k \in Conn, socket[c] = k
               PROVE  /\ conn'[k] = "open" => \A st \in wanted[c] :
                           sub'[<<k, st>>] # Unused \/ \E i \in 1 .. Len(up'[k]) : up'[k][i].stream = st
                      /\ \A st \in Streams : sub'[<<k, st>>] # Unused => st \in wanted[c]
                      /\ \A i \in 1 .. Len(up'[k]) : up'[k][i].stream \in wanted[c]
                      /\ \A i \in 1 .. Len(down'[k]) : down'[k][i].stream \in wanted[c]
    BY <1>1 DEF WantedIsAskedFor
  <2>1. ASSUME conn'[k] = "open", NEW st \in wanted[c]
        PROVE  sub'[<<k, st>>] # Unused \/ \E i \in 1 .. Len(up'[k]) : up'[k][i].stream = st
    <3>1. st \in Streams /\ up'[k] = up[k] /\ conn[k] = "open"
      BY <2>1 DEF HubInv, HubTypeOK
    <3>2. sub[<<k, st>>] # Unused \/ \E i \in 1 .. Len(up[k]) : up[k][i].stream = st
      BY <1>1, <3>1 DEF WantedIsAskedFor
    <3> QED BY <2>1, <3>1, <3>2, SubsArePairs
  <2>2. \A st \in Streams : sub'[<<k, st>>] # Unused => st \in wanted[c]
    BY <1>1, SubsArePairs DEF WantedIsAskedFor
  <2>3. /\ \A i \in 1 .. Len(up'[k]) : up'[k][i].stream \in wanted[c]
        /\ \A i \in 1 .. Len(down'[k]) : down'[k][i].stream \in wanted[c]
    BY <1>1 DEF WantedIsAskedFor
  <2> QED BY <2>1, <2>2, <2>3
<1> QED BY <1>2, <1>3, <1>4, <1>5 DEF WireInv

\* A step of the daemon that does not send, as far as the page is concerned.
LEMMA PageUntouched ==
  ASSUME HubInv, RouterInv', UNCHANGED <<down, page>>,
         \A st \in Streams : head'[st] >= head[st] /\ assigned'[st] <= MaxSeq,
         \A k \in Conn : up'[k] = up[k] \/ up'[k] = <<>>,
         up' \in [Conn -> Seq(Request)], conn' \in [Conn -> {"free", "open", "closed"}],
         handling' \in Conn \cup {None}, calling' \in Subs \cup {None}, faults' \in 0 .. MaxFaults
  PROVE  /\ HubTypeOK' /\ NobodyAhead' /\ SocketsAreOwned'
         /\ (\A c \in Client : IsFiniteSet(wanted[c]))'
<1>1. /\ UNCHANGED <<down, socket, wanted, lastSeq>>
      /\ HubTypeOK /\ NobodyAhead /\ SocketsAreOwned
      /\ \A c \in Client : IsFiniteSet(wanted[c])
  BY DEF HubInv, page
<1>2. HubTypeOK'
  BY <1>1 DEF HubTypeOK, RouterInv, Request
<1>3. NobodyAhead'
  <2>1. head \in [Streams -> Nat] /\ head' \in [Streams -> Nat]
    BY DEF HubInv, RouterInv, TypeOK
  <2>2. \A c \in Client, st \in Streams : lastSeq[c][st] \in Nat
    BY <1>1 DEF HubTypeOK
  <2>3. \A c \in Client, st \in Streams : lastSeq'[c][st] <= head'[st]
    BY <1>1, <2>1, <2>2 DEF NobodyAhead
  <2>4. ASSUME NEW k \in Conn, NEW i \in 1 .. Len(down[k])
        PROVE  down[k][i].seq >= 1 /\ down[k][i].seq <= head'[down[k][i].stream]
    <3>1. down[k][i].stream \in Streams /\ down[k][i].seq \in Nat
      BY <1>1, OnTheWire
    <3> QED BY <1>1, <2>1, <3>1 DEF NobodyAhead
  <2>5. ASSUME NEW k \in Conn, NEW i \in 1 .. Len(up'[k])
        PROVE  up'[k][i].lastSeq <= head'[up'[k][i].stream]
    <3>1. up'[k] = up[k]
      OBVIOUS
    <3>2. up[k][i].stream \in Streams /\ up[k][i].lastSeq \in Nat
      BY <1>1, <3>1, OnTheWire
    <3> QED BY <1>1, <2>1, <3>1, <3>2 DEF NobodyAhead
  <2> QED BY <1>1, <2>3, <2>4, <2>5 DEF NobodyAhead
<1>4. SocketsAreOwned' /\ (\A c \in Client : IsFiniteSet(wanted[c]))'
  BY <1>1 DEF SocketsAreOwned, Held
<1> QED BY <1>2, <1>3, <1>4

--------------------------------------------------------------------------------
(* THE STEPS OF THE DAEMON *)

\* The rest of the daemon emits, and the router dispatches.
LEMMA EmitKeepsInv ==
  ASSUME HubInv, RouterInv', Emit \/ Dispatch
  PROVE  HubInv'
<1>1. /\ UNCHANGED <<conn, handling, calling, up, down, page, faults, sub, replays>>
      /\ UNCHANGED <<socket, wanted, lastSeq>>
      /\ HubTypeOK /\ CallsNest /\ CallerIsKnown /\ NoSubscriptionLeaks /\ SubscriptionsAreNamed
  BY DEF HubInv, Emit, Dispatch, Insert, Commit, Rollback, TakeNext, DrainDone, Skip,
         hub, wire, page
<1>2. /\ \A st \in Streams : assigned[st] <= MaxSeq /\ assigned[st] >= head[st]
      /\ head \in [Streams -> Nat] /\ assigned \in [Streams -> Nat]
  BY DEF HubInv, NobodyAhead, RouterInv, BatchContinuesLog, TypeOK
<1>3. \A st \in Streams : head'[st] >= head[st] /\ assigned'[st] <= MaxSeq
  <2>1. ASSUME NEW st \in Streams, Insert(st)
        PROVE  \A other \in Streams : head'[other] >= head[other] /\ assigned'[other] <= MaxSeq
    BY <1>2, <2>1, BoundAssumption DEF Insert
  <2>2. CASE Commit
    BY <1>2, <2>2 DEF Commit
  <2>3. CASE Rollback
    <3>1. assigned' = head /\ head' = head
      BY <2>3 DEF Rollback
    <3>2. \A st \in Streams : head[st] \in Nat /\ assigned[st] \in Nat
      BY <1>2
    <3> QED BY <1>2, <3>1, <3>2, BoundAssumption
  <2>4. CASE Dispatch
    BY <1>2, <2>4 DEF Dispatch, TakeNext, DrainDone, Skip, store
  <2> QED BY <2>1, <2>2, <2>3, <2>4 DEF Emit
<1>4. /\ HubTypeOK' /\ NobodyAhead' /\ SocketsAreOwned'
      /\ (\A c \in Client : IsFiniteSet(wanted[c]))'
  BY <1>1, <1>3, PageUntouched DEF HubTypeOK
<1>5. UNCHANGED running \/ ~running'
  BY DEF Emit, Dispatch, Insert, Commit, Rollback, TakeNext, DrainDone, Skip
<1>6. CallsNest'
  <2>1. CASE \E st \in Streams : Insert(st) /\ (Idle \/ batch # <<>>)
    <3>1. handling = None /\ UNCHANGED <<isDispatching, running>>
      BY <1>1, <2>1 DEF CallsNest, Idle, Insert, drain
    <3> QED BY <1>1, <3>1 DEF CallsNest
  <2>2. CASE Commit
    <3>1. handling = None /\ isDispatching'
      BY <1>1, <2>2 DEF CallsNest, Commit
    <3> QED BY <1>1, <3>1 DEF CallsNest
  <2>3. CASE Rollback
    <3>1. batch' = <<>> /\ UNCHANGED <<isDispatching, running>>
      BY <2>3 DEF Rollback, drain
    <3> QED BY <1>1, <3>1 DEF CallsNest
  <2>4. CASE Dispatch
    <3>1. /\ isDispatching /\ ~running /\ ~running'
      BY <2>4 DEF Dispatch, TakeNext, DrainDone, Skip, AtLoop
    <3>2. handling = None
      BY <1>1, <3>1 DEF CallsNest
    <3> QED BY <1>1, <3>1, <3>2 DEF CallsNest
  <2> QED BY <2>1, <2>2, <2>3, <2>4 DEF Emit
<1>7. CallerIsKnown' /\ NoSubscriptionLeaks' /\ SubscriptionsAreNamed'
  BY <1>1, <1>5 DEF CallerIsKnown, NoSubscriptionLeaks, SubscriptionsAreNamed
<1>8. WireInv'
  <2>1. UNCHANGED running
    BY DEF Emit, Dispatch, Insert, Commit, Rollback, TakeNext, DrainDone, Skip
  <2>2. \A s \in Subs : SentThrough(s)' = SentThrough(s)
    BY <1>1, <2>1 DEF SentThrough, Sending
  <2> QED BY <1>1, <2>2, WireUntouched DEF page
<1> QED BY <1>4, <1>6, <1>7, <1>8 DEF HubInv

\* A callback is called.
LEMMA CallBackKeepsInv ==
  ASSUME HubInv, RouterInv', NEW s \in Subs, CallBack(s)
  PROVE  HubInv'
<1>1. /\ UNCHANGED <<conn, handling, up, down, page, faults, head, assigned, batch, isDispatching, replays>>
      /\ calling' = s /\ running' /\ ~running
      /\ HubTypeOK /\ CallsNest /\ NoSubscriptionLeaks /\ SubscriptionsAreNamed /\ NobodyAhead
      /\ TypeOK
  BY DEF HubInv, CallBack, Replay, Deliver, Replaying, AtLoop, store, drain, wire, RouterInv
<1>2. /\ sub[s] # Unused /\ sub[s] \in Subscription
      /\ sub' = [sub EXCEPT ![s].at = @ + 1]
  <2>1. CASE Replay(s)
    <3>1. sub[s].state = "replaying"
      BY <2>1, Innermost DEF HubInv, RouterInv, Replay, Replaying
    <3> QED BY <1>1, <2>1, <3>1, InUse DEF Replay
  <2>2. CASE Deliver(s)
    <3>1. /\ sub[s] \in Subscription /\ sub[s] # Unused /\ event.seq = sub[s].at + 1
      BY <2>2, DeliversTheNext DEF HubInv
    <3>2. sub' = [sub EXCEPT ![s].at = event.seq]
      BY <2>2 DEF Deliver
    <3> QED BY <3>1, <3>2
  <2> QED BY <2>1, <2>2 DEF CallBack
<1>3. /\ sub'[s] \in Subscription /\ sub'[s] # Unused /\ sub'[s].at = sub[s].at + 1
      /\ sub'[s].stream = sub[s].stream /\ sub[s].at \in Nat
      /\ \A t \in Subs : t # s => sub'[t] = sub[t]
  <2>1. sub'[s] = [sub[s] EXCEPT !.at = @ + 1] /\ \A t \in Subs : t # s => sub'[t] = sub[t]
    BY <1>1, <1>2 DEF TypeOK
  <2>2. sub[s].at \in Nat
    BY <1>2 DEF Subscription
  <2>3. /\ sub'[s] \in Subscription /\ sub'[s].at = sub[s].at + 1
        /\ sub'[s].stream = sub[s].stream
    BY <1>2, <2>1, <2>2 DEF Subscription
  <2> QED BY <2>1, <2>2, <2>3 DEF Subscription, Unused
<1>4. /\ HubTypeOK' /\ NobodyAhead' /\ SocketsAreOwned'
      /\ (\A c \in Client : IsFiniteSet(wanted[c]))'
  <2>1. \A st \in Streams : head[st] >= head[st]
    BY <1>1 DEF TypeOK
  <2> QED BY <1>1, <2>1, PageUntouched DEF HubTypeOK, NobodyAhead
<1>5. CallsNest'
  <2>1. isDispatching \/ replays # <<>>
    BY DEF CallBack, Replay, Deliver, Replaying, AtLoop
  <2> QED BY <1>1, <2>1 DEF CallsNest
<1>6. CallerIsKnown'
  <2>1. conn[s[1]] # "free"
    BY <1>1, <1>2, SubsArePairs DEF NoSubscriptionLeaks
  <2> QED BY <1>1, <1>3, <2>1 DEF CallerIsKnown
<1>7. NoSubscriptionLeaks' /\ SubscriptionsAreNamed'
  BY <1>1, <1>2, <1>3, SubsArePairs DEF NoSubscriptionLeaks, SubscriptionsAreNamed
<1>8. WireInv'
  <2>1. \A t \in Subs : SentThrough(t)' = SentThrough(t)
    BY <1>1, <1>3 DEF SentThrough, Sending
  <2>2. \A t \in Subs : sub'[t] # Unused <=> sub[t] # Unused
    BY <1>2, <1>3
  <2> QED BY <1>1, <2>1, <2>2, WireUntouched
<1> QED BY <1>4, <1>5, <1>6, <1>7, <1>8 DEF HubInv

\* Some subscriptions end: the others are as they were.
LEMMA EndedOrAsBefore ==
  ASSUME NEW ended, Unsubscribe(ended)
  PROVE  /\ \A s \in Subs : sub'[s] = IF s \in ended THEN Unused ELSE sub[s]
         /\ UNCHANGED <<head, assigned, batch, replays, running, isDispatching>>
         /\ batch = <<>>
BY DEF Unsubscribe, Ended, MayCall, store

\* A subscribe message is taken up.
LEMMA HandleSubscribeKeepsInv ==
  ASSUME HubInv, RouterInv', NEW k \in Conn, HandleSubscribe(k)
  PROVE  HubInv'
<1> DEFINE ended == {<<k, Head(up[k]).stream>>} \cap Registered
<1>1. /\ UNCHANGED <<conn, calling, up, down, page, faults>>
      /\ handling' = k /\ conn[k] # "free" /\ up[k] # <<>> /\ Idle
      /\ HubTypeOK /\ NoSubscriptionLeaks /\ SubscriptionsAreNamed /\ NobodyAhead /\ TypeOK
  BY DEF HubInv, HandleSubscribe, wire, RouterInv
<1>2. /\ \A s \in Subs : sub'[s] = IF s \in ended THEN Unused ELSE sub[s]
      /\ UNCHANGED <<head, assigned, batch, replays, running, isDispatching>>
  BY EndedOrAsBefore DEF HandleSubscribe
<1>3. ~running /\ ~isDispatching /\ replays = <<>> /\ batch = <<>>
  BY <1>1, IdleMeansIdle
<1>4. /\ HubTypeOK' /\ NobodyAhead' /\ SocketsAreOwned'
      /\ (\A c \in Client : IsFiniteSet(wanted[c]))'
  <2>1. \A st \in Streams : head[st] >= head[st]
    BY <1>1 DEF TypeOK
  <2> QED BY <1>1, <1>2, <2>1, PageUntouched DEF HubTypeOK, NobodyAhead
<1>5. CallsNest' /\ CallerIsKnown'
  BY <1>1, <1>2, <1>3, NoneAssumption DEF CallsNest, CallerIsKnown
<1>6. NoSubscriptionLeaks' /\ SubscriptionsAreNamed'
  BY <1>1, <1>2, SubsArePairs DEF NoSubscriptionLeaks, SubscriptionsAreNamed
<1>7. WireInv'
  <2>1. \A s \in Subs : sub'[s] # Unused => sub[s] # Unused /\ SentThrough(s)' = SentThrough(s)
    BY <1>2, <1>3 DEF SentThrough, Sending
  <2>2. Len(up[k]) \in Nat \ {0} /\ Head(up[k]) = up[k][1]
    BY <1>1, ARequest
  <2>3. \A s \in Subs : sub[s] # Unused =>
          sub'[s] # Unused \/ \E i \in 1 .. Len(up[s[1]]) : up[s[1]][i].stream = s[2]
    BY <1>2, <2>2
  <2> QED BY <1>1, <2>1, <2>3, WireUntouched
<1> QED BY <1>4, <1>5, <1>6, <1>7 DEF HubInv

\* The new subscription begins where the page said it is.
LEMMA SubscribeToRouterKeepsInv ==
  ASSUME HubInv, RouterInv', NEW k \in Conn, SubscribeToRouter(k)
  PROVE  HubInv'
<1> DEFINE st == Head(up[k]).stream
           new == [state |-> "replaying", stream |-> st, at |-> Head(up[k]).lastSeq,
                   deliveredThrough |-> head[st]]
<1>1. /\ UNCHANGED <<conn, handling, calling, down, page, faults, head, assigned, batch, isDispatching>>
      /\ UNCHANGED <<socket, wanted, lastSeq>>
      /\ up' = [up EXCEPT ![k] = Tail(@)] /\ handling = k /\ replays = <<>>
      /\ sub[<<k, st>>] = Unused /\ sub' = [sub EXCEPT ![<<k, st>>] = new]
      /\ replays' = Append(replays, <<k, st>>) /\ ~running'
      /\ HubTypeOK /\ CallsNest /\ NoSubscriptionLeaks /\ SubscriptionsAreNamed /\ NobodyAhead
      /\ WireInv /\ TypeOK /\ SocketsAreOwned
      /\ \A c \in Client : IsFiniteSet(wanted[c])
  BY DEF HubInv, SubscribeToRouter, Subscribe, hub, page, store, drain, RouterInv
<1>2. conn[k] # "free" /\ up[k] # <<>> /\ ~isDispatching /\ batch = <<>> /\ ~running
  BY <1>1, NoneAssumption DEF CallsNest
<1>3. /\ Head(up[k]) \in Request /\ st \in Streams
      /\ Len(up[k]) \in Nat \ {0} /\ Head(up[k]) = up[k][1]
      /\ Tail(up[k]) \in Seq(Request) /\ Len(Tail(up[k])) = Len(up[k]) - 1
      /\ \A i \in 1 .. Len(up[k]) - 1 : Tail(up[k])[i] = up[k][i + 1]
  BY <1>2, ARequest
<1>4. /\ up'[k] = Tail(up[k]) /\ \A l \in Conn : l # k => up'[l] = up[l]
      /\ \A l \in Conn : Len(up[l]) \in Nat /\ Len(down[l]) \in Nat
  BY <1>1, OnTheWire DEF HubTypeOK
<1>5. /\ <<k, st>> \in Subs /\ sub'[<<k, st>>] = new
      /\ \A s \in Subs : s # <<k, st>> => sub'[s] = sub[s]
  BY <1>1, <1>3, SubsArePairs DEF TypeOK
<1>6. HubTypeOK'
  <2>1. up' \in [Conn -> Seq(Request)]
    BY <1>1, <1>3 DEF HubTypeOK
  <2> QED BY <1>1, <2>1 DEF HubTypeOK, RouterInv
<1>7. CallsNest' /\ CallerIsKnown'
  <2>1. Len(replays') <= 1 /\ replays' # <<>>
    BY <1>1
  <2> QED BY <1>1, <1>2, <2>1, NoneAssumption DEF CallsNest, CallerIsKnown
<1>8. NoSubscriptionLeaks' /\ SubscriptionsAreNamed'
  BY <1>1, <1>2, <1>5, SubsArePairs DEF NoSubscriptionLeaks, SubscriptionsAreNamed
<1>9. \A l \in Conn : \A i \in 1 .. Len(up'[l]) : \E j \in 1 .. Len(up[l]) : up'[l][i] = up[l][j]
  <2> SUFFICES ASSUME NEW l \in Conn, NEW i \in 1 .. Len(up'[l])
               PROVE  \E j \in 1 .. Len(up[l]) : up'[l][i] = up[l][j]
    OBVIOUS
  <2>1. CASE l = k
    <3>1. i \in 1 .. Len(up[k]) - 1 /\ up'[k][i] = Tail(up[k])[i]
      BY <1>3, <1>4, <2>1
    <3>2. i + 1 \in 1 .. Len(up[k]) /\ up'[k][i] = up[k][i + 1]
      BY <1>3, <3>1
    <3> QED BY <2>1, <3>2
  <2>2. CASE l # k
    BY <1>4, <2>2
  <2> QED BY <2>1, <2>2
<1>10. NobodyAhead' /\ SocketsAreOwned'
  BY <1>1, <1>9 DEF NobodyAhead, SocketsAreOwned, Held
<1>11. WireInv'
  <2>1. WireHasNoGap'
    BY <1>1 DEF WireInv, WireHasNoGap
  <2>2. SubscriptionsSent'
    <3> SUFFICES ASSUME NEW c \in Client, NEW l \in Conn, NEW other \in Streams,
                        socket[c] = l, conn[l] = "open", sub'[<<l, other>>] # Unused
                 PROVE  Brings(lastSeq[c][other], down[l], Len(down[l]), other,
                               SentThrough(<<l, other>>)')
      BY <1>1 DEF SubscriptionsSent
    <3>1. SentThrough(<<l, other>>)' = sub'[<<l, other>>].at
      BY <1>1 DEF SentThrough, Sending
    <3>2. CASE <<l, other>> = <<k, st>>
      <4>1. l = k /\ other = st /\ 1 \in 1 .. Len(up[k])
        BY <1>3, <3>2
      <4>2. up[k][1].lastSeq <= lastSeq[c][up[k][1].stream]
        BY <1>1, <4>1 DEF WireInv, RequestsFromThePast
      <4>3. new.at <= lastSeq[c][other]
        BY <1>3, <4>1, <4>2
      <4> QED BY <1>5, <3>1, <3>2, <4>3 DEF Brings
    <3>3. CASE <<l, other>> # <<k, st>>
      <4>1. sub'[<<l, other>>] = sub[<<l, other>>] /\ SentThrough(<<l, other>>) = sub[<<l, other>>].at
        BY <1>2, <1>5, <3>3, SubsArePairs DEF SentThrough, Sending
      <4> QED BY <1>1, <3>1, <4>1 DEF WireInv, SubscriptionsSent
    <3> QED BY <3>2, <3>3
  <2>3. RequestsFromThePast'
    <3> SUFFICES ASSUME NEW c \in Client, NEW l \in Conn, socket[c] = l, NEW i \in 1 .. Len(up'[l])
                 PROVE  up'[l][i].lastSeq <= lastSeq[c][up'[l][i].stream]
      BY <1>1 DEF RequestsFromThePast
    <3>1. PICK j \in 1 .. Len(up[l]) : up'[l][i] = up[l][j]
      BY <1>9
    <3>2. up[l][j].lastSeq <= lastSeq[c][up[l][j].stream]
      BY <1>1 DEF WireInv, RequestsFromThePast
    <3> QED BY <3>1, <3>2
  <2>4. WantedIsAskedFor'
    <3> SUFFICES ASSUME NEW c \in Client, NEW l \in Conn, socket[c] = l
                 PROVE  /\ conn[l] = "open" => \A other \in wanted[c] :
                             sub'[<<l, other>>] # Unused
                               \/ \E i \in 1 .. Len(up'[l]) : up'[l][i].stream = other
                        /\ \A other \in Streams : sub'[<<l, other>>] # Unused => other \in wanted[c]
                        /\ \A i \in 1 .. Len(up'[l]) : up'[l][i].stream \in wanted[c]
                        /\ \A i \in 1 .. Len(down[l]) : down[l][i].stream \in wanted[c]
      BY <1>1 DEF WantedIsAskedFor
    <3>1. ASSUME conn[l] = "open", NEW other \in wanted[c]
          PROVE  sub'[<<l, other>>] # Unused \/ \E i \in 1 .. Len(up'[l]) : up'[l][i].stream = other
      <4>1. other \in Streams
        BY <1>1 DEF HubTypeOK
      <4>2. CASE <<l, other>> = <<k, st>>
        BY <1>5, <4>2 DEF Unused
      <4>3. CASE <<l, other>> # <<k, st>> /\ sub[<<l, other>>] # Unused
        BY <1>5, <4>1, <4>3, SubsArePairs
      <4>4. CASE <<l, other>> # <<k, st>> /\ sub[<<l, other>>] = Unused
        <5>1. PICK i \in 1 .. Len(up[l]) : up[l][i].stream = other
          BY <1>1, <3>1, <4>4 DEF WireInv, WantedIsAskedFor
        <5>2. CASE l = k
          <6>1. i # 1
            BY <1>3, <4>4, <5>1, <5>2
          <6>2. i - 1 \in 1 .. Len(up[k]) - 1 /\ (i - 1) + 1 = i
            BY <1>3, <5>2, <6>1
          <6>3. up'[k][i - 1] = up[k][i]
            BY <1>3, <1>4, <6>2
          <6> QED BY <1>3, <1>4, <5>1, <5>2, <6>2, <6>3
        <5>3. CASE l # k
          BY <1>4, <5>1, <5>3
        <5> QED BY <5>2, <5>3
      <4> QED BY <4>2, <4>3, <4>4
    <3>2. \A other \in Streams : sub'[<<l, other>>] # Unused => other \in wanted[c]
      <4>1. l = k => st \in wanted[c]
        BY <1>1, <1>3 DEF WireInv, WantedIsAskedFor
      <4> QED BY <1>1, <1>5, <4>1, SubsArePairs DEF WireInv, WantedIsAskedFor
    <3>3. /\ \A i \in 1 .. Len(up'[l]) : up'[l][i].stream \in wanted[c]
          /\ \A i \in 1 .. Len(down[l]) : down[l][i].stream \in wanted[c]
      <4>1. \A j \in 1 .. Len(up[l]) : up[l][j].stream \in wanted[c]
        BY <1>1 DEF WireInv, WantedIsAskedFor
      <4>2. \A i \in 1 .. Len(up'[l]) : up'[l][i].stream \in wanted[c]
        BY <1>9, <4>1
      <4> QED BY <1>1, <4>2 DEF WireInv, WantedIsAskedFor
    <3> QED BY <3>1, <3>2, <3>3
  <2> QED BY <2>1, <2>2, <2>3, <2>4 DEF WireInv
<1>12. (\A c \in Client : IsFiniteSet(wanted[c]))'
  BY <1>1
<1> QED BY <1>6, <1>7, <1>8, <1>10, <1>11, <1>12 DEF HubInv

\* The replay is over and the subscription registered.
LEMMA SubscribeReturnsKeepsInv ==
  ASSUME HubInv, RouterInv', NEW k \in Conn, SubscribeReturns(k)
  PROVE  HubInv'
<1>1. PICK st \in Streams : Register(<<k, st>>)
  BY DEF SubscribeReturns
<1> DEFINE s == <<k, st>>
<1>2. /\ UNCHANGED <<conn, calling, up, down, page, faults, head, assigned, batch, isDispatching>>
      /\ handling = k /\ handling' = None /\ ~running /\ replays # <<>> /\ s = replays[Len(replays)]
      /\ sub' = [sub EXCEPT ![s].state = "live"] /\ LeaveReplay
      /\ HubTypeOK /\ CallsNest /\ NoSubscriptionLeaks /\ SubscriptionsAreNamed /\ NobodyAhead
      /\ TypeOK /\ StackIsSound
  BY <1>1 DEF HubInv, SubscribeReturns, Register, Replaying, wire, store, drain, RouterInv
<1>3. /\ replays \in Seq(Subs) /\ Len(replays) = 1 /\ ~isDispatching
  <2>1. Len(replays) <= 1 /\ ~isDispatching
    BY <1>2, NoneAssumption DEF CallsNest
  <2>2. Len(replays) \in Nat \ {0}
    BY <1>2, Innermost
  <2>3. Len(replays) = 1
    BY <2>1, <2>2
  <2> QED BY <1>2, <2>1, <2>3 DEF TypeOK
<1>4. replays' = <<>> /\ ~running'
  <2>1. Len(replays') = 0 /\ replays' \in Seq(Subs)
    BY <1>2, <1>3, Innermost DEF LeaveReplay
  <2>2. replays' = <<>>
    BY <2>1
  <2>3. ~running'
    <3>1. ~(isDispatching \/ Len(replays) > 1)
      BY <1>3
    <3>2. running' = (isDispatching \/ Len(replays) > 1)
      BY <1>2 DEF LeaveReplay
    <3> QED BY <3>1, <3>2, Zenon
  <2> QED BY <2>2, <2>3
<1>5. s \in Subs /\ sub[s] # Unused /\ sub[s] \in Subscription
  <2>1. s \in Subs /\ sub[s].state = "replaying"
    BY <1>2, Innermost
  <2> QED BY <1>2, <2>1, InUse
<1>6. /\ sub'[s] # Unused /\ sub'[s].at = sub[s].at /\ sub'[s].stream = sub[s].stream
      /\ \A t \in Subs : t # s => sub'[t] = sub[t]
  <2>1. sub'[s] = [sub[s] EXCEPT !.state = "live"] /\ \A t \in Subs : t # s => sub'[t] = sub[t]
    BY <1>2, <1>5 DEF TypeOK
  <2> QED BY <1>5, <2>1 DEF Subscription, Unused
<1>7. /\ HubTypeOK' /\ NobodyAhead' /\ SocketsAreOwned'
      /\ (\A c \in Client : IsFiniteSet(wanted[c]))'
  <2>1. \A other \in Streams : head[other] >= head[other]
    BY <1>2 DEF TypeOK
  <2> QED BY <1>2, <2>1, PageUntouched DEF HubTypeOK, NobodyAhead
<1>8. CallsNest' /\ CallerIsKnown'
  BY <1>2, <1>4 DEF CallsNest, CallerIsKnown
<1>9. NoSubscriptionLeaks' /\ SubscriptionsAreNamed'
  BY <1>2, <1>5, <1>6, SubsArePairs DEF NoSubscriptionLeaks, SubscriptionsAreNamed
<1>10. WireInv'
  <2>1. \A t \in Subs : SentThrough(t)' = SentThrough(t)
    BY <1>2, <1>4, <1>6 DEF SentThrough, Sending
  <2>2. \A t \in Subs : sub'[t] # Unused <=> sub[t] # Unused
    BY <1>5, <1>6
  <2> QED BY <1>2, <2>1, <2>2, WireUntouched
<1> QED BY <1>7, <1>8, <1>9, <1>10 DEF HubInv

\* One frame more on a socket.
LEMMA OneMore ==
  ASSUME NEW Frames, NEW carried \in Seq(Frames), NEW e \in Frames
  PROVE  /\ Append(carried, e) \in Seq(Frames) /\ Len(carried) \in Nat
         /\ Len(Append(carried, e)) = Len(carried) + 1
         /\ \A i \in 1 .. Len(carried) : Append(carried, e)[i] = carried[i]
         /\ Append(carried, e)[Len(carried) + 1] = e
OBVIOUS

\* The callback sends its event.
LEMMA SendKeepsInv ==
  ASSUME HubInv, RouterInv', NEW k \in Conn, Send(k)
  PROVE  HubInv'
<1>1. /\ UNCHANGED <<conn, handling, calling, up, page, faults, head, assigned, batch,
                     isDispatching, replays, sub>>
      /\ UNCHANGED <<socket, wanted, lastSeq>>
      /\ running /\ ~running' /\ calling[1] = k
      /\ HubTypeOK /\ CallsNest /\ CallerIsKnown /\ NoSubscriptionLeaks /\ SubscriptionsAreNamed
      /\ NobodyAhead /\ SocketsAreOwned /\ WireInv /\ TypeOK
      /\ \A c \in Client : IsFiniteSet(wanted[c])
  BY DEF HubInv, Send, Return, hub, page, store, drain, RouterInv
<1>2. CallsNest' /\ CallerIsKnown' /\ NoSubscriptionLeaks' /\ SubscriptionsAreNamed'
  BY <1>1 DEF CallsNest, CallerIsKnown, NoSubscriptionLeaks, SubscriptionsAreNamed
<1>3. (\A c \in Client : IsFiniteSet(wanted[c]))'
  BY <1>1
<1>4. CASE ~(conn[k] = "open" /\ Held(k))
  <2>1. UNCHANGED down
    BY <1>4 DEF Send
  <2>2. HubTypeOK' /\ NobodyAhead' /\ SocketsAreOwned'
    BY <1>1, <2>1 DEF HubTypeOK, RouterInv, NobodyAhead, SocketsAreOwned, Held
  <2>3. ASSUME NEW s \in Subs, conn'[s[1]] = "open", Held(s[1])
        PROVE  SentThrough(s)' = SentThrough(s)
    <3>1. calling # s
      BY <1>1, <1>4, <2>3
    <3> QED BY <1>1, <3>1 DEF SentThrough, Sending
  <2>4. WireInv'
    BY <1>1, <2>1, <2>3, WireUntouched
  <2> QED BY <1>2, <1>3, <2>2, <2>4 DEF HubInv
<1>5. CASE conn[k] = "open" /\ Held(k)
  <2> DEFINE st == calling[2]
             at == sub[calling].at
  <2>1. down' = [down EXCEPT ![k] = Append(@, Frame)]
    BY <1>5 DEF Send
  <2>2. /\ calling \in Subs /\ calling = <<k, st>> /\ st \in Streams
        /\ sub[calling] # Unused /\ at \in Nat /\ at >= 1 /\ sub[calling].stream = st
    <3>1. calling \in Subs /\ sub[calling] # Unused /\ at >= 1
      BY <1>1, <1>5 DEF CallerIsKnown
    <3>2. at \in Nat
      BY <1>1, <3>1, InUse
    <3> QED BY <1>1, <3>1, <3>2, SubsArePairs DEF SubscriptionsAreNamed
  <2>3. at <= head[st] /\ head[st] <= MaxSeq
    <3>1. at <= head[st]
      BY <2>2 DEF HubInv, RouterInv, WithinLog
    <3>2. head[st] <= assigned[st] /\ assigned[st] <= MaxSeq
          /\ head[st] \in Nat /\ assigned[st] \in Nat
      BY <1>1, <2>2 DEF HubInv, RouterInv, BatchContinuesLog, NobodyAhead, TypeOK
    <3> QED BY <3>1, <3>2, BoundAssumption
  <2>4. Frame \in Envelope /\ Frame.stream = st /\ Frame.seq = at
    <3>1. at \in 1 .. MaxSeq
      <4>1. head[st] \in Nat
        BY <1>1, <2>2 DEF TypeOK
      <4> QED BY <2>2, <2>3, <4>1, BoundAssumption
    <3> QED BY <2>2, <3>1 DEF Frame, Envelope
  <2>5. /\ down'[k] = Append(down[k], Frame) /\ \A l \in Conn : l # k => down'[l] = down[l]
        /\ \A l \in Conn : Len(down[l]) \in Nat
    BY <1>1, <2>1, OnTheWire DEF HubTypeOK
  <2>6. /\ down'[k] \in Seq(Envelope) /\ Len(down'[k]) = Len(down[k]) + 1
        /\ \A i \in 1 .. Len(down[k]) : down'[k][i] = down[k][i]
        /\ down'[k][Len(down[k]) + 1] = Frame
    BY <1>1, <2>4, <2>5, OneMore, OnTheWire
  <2>7. \A l \in Conn : \A i \in 1 .. Len(down'[l]) :
          \/ i \in 1 .. Len(down[l]) /\ down'[l][i] = down[l][i]
          \/ l = k /\ i = Len(down[k]) + 1 /\ down'[l][i] = Frame
    <3> SUFFICES ASSUME NEW l \in Conn, NEW i \in 1 .. Len(down'[l])
                 PROVE  \/ i \in 1 .. Len(down[l]) /\ down'[l][i] = down[l][i]
                        \/ l = k /\ i = Len(down[k]) + 1 /\ down'[l][i] = Frame
      OBVIOUS
    <3>1. CASE l = k
      <4>1. i \in 1 .. Len(down[k]) + 1
        BY <2>6, <3>1
      <4> QED BY <2>5, <2>6, <3>1, <4>1
    <3>2. CASE l # k
      BY <2>5, <3>2
    <3> QED BY <3>1, <3>2
  <2>8. HubTypeOK'
    <3>1. down' \in [Conn -> Seq(Envelope)]
      BY <1>1, <2>1, <2>5, <2>6 DEF HubTypeOK
    <3> QED BY <1>1, <3>1 DEF HubTypeOK, RouterInv
  <2>9. NobodyAhead'
    <3>1. ASSUME NEW l \in Conn, NEW i \in 1 .. Len(down'[l])
          PROVE  down'[l][i].seq >= 1 /\ down'[l][i].seq <= head[down'[l][i].stream]
      BY <1>1, <2>2, <2>3, <2>4, <2>7, <3>1 DEF NobodyAhead
    <3> QED BY <1>1, <3>1 DEF NobodyAhead
  <2>10. SocketsAreOwned'
    <3>1. \A l \in Conn : Held(l)' = Held(l)
      BY <1>1 DEF Held
    <3>2. \A l \in Conn : ~Held(l) => down'[l] = <<>>
      BY <1>1, <1>5, <2>5 DEF SocketsAreOwned
    <3> QED BY <1>1, <3>1, <3>2 DEF SocketsAreOwned
  <2>11. ASSUME NEW l \in Conn, NEW m \in 0 .. Len(down[l]), NEW had, NEW other, NEW n,
                Brings(had, down[l], m, other, n)
         PROVE  /\ Brings(had, down'[l], m, other, n)
                /\ Brings(had, down'[l], Len(down'[l]), other, n)
    <3>1. CASE n <= had
      BY <3>1 DEF Brings
    <3>2. CASE \E i \in 1 .. m : down[l][i].stream = other /\ down[l][i].seq >= n
      <4>1. PICK i \in 1 .. m : down[l][i].stream = other /\ down[l][i].seq >= n
        BY <3>2
      <4>2. i \in 1 .. Len(down[l])
        BY <2>5
      <4>3. i \in 1 .. Len(down'[l]) /\ down'[l][i] = down[l][i]
        <5>1. CASE l = k
          <6>1. i \in 1 .. Len(down[k]) + 1
            BY <2>5, <4>2, <5>1
          <6> QED BY <2>6, <4>2, <5>1, <6>1
        <5>2. CASE l # k
          BY <2>5, <4>2, <5>2
        <5> QED BY <5>1, <5>2
      <4> QED BY <4>1, <4>3 DEF Brings
    <3> QED BY <2>11, <3>1, <3>2 DEF Brings
  <2>12. WireHasNoGap'
    <3> SUFFICES ASSUME NEW c \in Client, NEW l \in Conn, socket[c] = l, NEW i \in 1 .. Len(down'[l])
                 PROVE  Brings(lastSeq[c][down'[l][i].stream], down'[l], i - 1,
                               down'[l][i].stream, down'[l][i].seq - 1)
      BY <1>1 DEF WireHasNoGap
    <3>1. CASE i \in 1 .. Len(down[l]) /\ down'[l][i] = down[l][i]
      <4>1. Brings(lastSeq[c][down[l][i].stream], down[l], i - 1, down[l][i].stream, down[l][i].seq - 1)
        BY <1>1, <3>1 DEF WireInv, WireHasNoGap
      <4>2. i - 1 \in 0 .. Len(down[l])
        BY <2>5, <3>1
      <4> QED BY <2>11, <3>1, <4>1, <4>2
    <3>2. CASE l = k /\ i = Len(down[k]) + 1 /\ down'[l][i] = Frame
      <4>1. Brings(lastSeq[c][st], down[k], Len(down[k]), st, at - 1)
        <5>1. SentThrough(<<k, st>>) = at - 1
          BY <1>1, <2>2 DEF SentThrough, Sending
        <5>2. sub[<<k, st>>] # Unused
          BY <2>2
        <5> QED BY <1>1, <1>5, <2>2, <3>2, <5>1, <5>2 DEF WireInv, SubscriptionsSent
      <4>2. Len(down[k]) \in 0 .. Len(down[k]) /\ i - 1 = Len(down[k])
        BY <2>5, <3>2
      <4>3. Brings(lastSeq[c][st], down'[k], Len(down[k]), st, at - 1)
        BY <2>11, <4>1, <4>2
      <4> QED BY <2>4, <3>2, <4>2, <4>3
    <3> QED BY <2>7, <3>1, <3>2
  <2>13. SubscriptionsSent'
    <3> SUFFICES ASSUME NEW c \in Client, NEW l \in Conn, NEW other \in Streams,
                        socket[c] = l, conn[l] = "open", sub[<<l, other>>] # Unused
                 PROVE  Brings(lastSeq[c][other], down'[l], Len(down'[l]), other,
                               SentThrough(<<l, other>>)')
      BY <1>1 DEF SubscriptionsSent
    <3>1. SentThrough(<<l, other>>)' = sub[<<l, other>>].at
      BY <1>1 DEF SentThrough, Sending
    <3>2. CASE <<l, other>> = calling
      <4>1. l = k /\ other = st /\ Len(down[k]) + 1 \in 1 .. Len(down'[k])
        BY <2>2, <2>5, <2>6, <3>2
      <4>2. /\ down'[k][Len(down[k]) + 1].stream = st
            /\ down'[k][Len(down[k]) + 1].seq >= at
        BY <2>2, <2>4, <2>6
      <4> QED BY <3>1, <3>2, <4>1, <4>2 DEF Brings
    <3>3. CASE <<l, other>> # calling
      <4>1. SentThrough(<<l, other>>) = sub[<<l, other>>].at
        BY <3>3 DEF SentThrough, Sending
      <4>2. Brings(lastSeq[c][other], down[l], Len(down[l]), other, sub[<<l, other>>].at)
        BY <1>1, <4>1 DEF WireInv, SubscriptionsSent
      <4>3. Len(down[l]) \in 0 .. Len(down[l])
        BY <2>5
      <4> QED BY <2>11, <3>1, <4>2, <4>3
    <3> QED BY <3>2, <3>3
  <2>14. RequestsFromThePast'
    BY <1>1 DEF WireInv, RequestsFromThePast
  <2>15. WantedIsAskedFor'
    <3>1. ASSUME NEW c \in Client, NEW l \in Conn, socket[c] = l, NEW i \in 1 .. Len(down'[l])
          PROVE  down'[l][i].stream \in wanted[c]
      <4>1. \A j \in 1 .. Len(down[l]) : down[l][j].stream \in wanted[c]
        BY <1>1, <3>1 DEF WireInv, WantedIsAskedFor
      <4>2. l = k => st \in wanted[c]
        BY <1>1, <2>2, <3>1 DEF WireInv, WantedIsAskedFor
      <4> QED BY <2>4, <2>7, <4>1, <4>2
    <3> QED BY <1>1, <3>1 DEF WireInv, WantedIsAskedFor
  <2>16. WireInv'
    BY <2>12, <2>13, <2>14, <2>15 DEF WireInv
  <2> QED BY <1>2, <1>3, <2>8, <2>9, <2>10, <2>16 DEF HubInv
<1> QED BY <1>4, <1>5

\* Backpressure closes a connection in the middle of a call.
LEMMA DropSlowKeepsInv ==
  ASSUME HubInv, RouterInv', NEW k \in Conn, DropSlow(k)
  PROVE  HubInv'
<1>1. /\ UNCHANGED <<handling, calling, up, down, page, faults>>
      /\ running /\ calling[1] = k /\ conn[k] = "open"
      /\ conn' = [conn EXCEPT ![k] = "closed"]
      /\ HubTypeOK /\ CallsNest /\ CallerIsKnown /\ NoSubscriptionLeaks /\ SubscriptionsAreNamed
      /\ NobodyAhead /\ TypeOK
  BY DEF HubInv, DropSlow, wire, RouterInv
<1>2. /\ \A s \in Subs : sub'[s] = IF s \in Of(k) THEN Unused ELSE sub[s]
      /\ UNCHANGED <<head, assigned, batch, replays, running, isDispatching>>
  BY EndedOrAsBefore DEF DropSlow, TornDown
<1>3. /\ conn'[k] = "closed" /\ \A l \in Conn : l # k => conn'[l] = conn[l]
      /\ conn' \in [Conn -> {"free", "open", "closed"}]
  BY <1>1 DEF HubTypeOK
<1>4. /\ HubTypeOK' /\ NobodyAhead' /\ SocketsAreOwned'
      /\ (\A c \in Client : IsFiniteSet(wanted[c]))'
  <2>1. \A st \in Streams : head[st] >= head[st]
    BY <1>1 DEF TypeOK
  <2> QED BY <1>1, <1>2, <1>3, <2>1, PageUntouched DEF HubTypeOK, NobodyAhead
<1>5. CallsNest'
  <2>1. handling # None => conn'[handling] # "free"
    BY <1>1, <1>3 DEF CallsNest, HubTypeOK
  <2> QED BY <1>1, <1>2, <2>1 DEF CallsNest
<1>6. CallerIsKnown'
  BY <1>1, <1>3 DEF CallerIsKnown
<1>7. NoSubscriptionLeaks' /\ SubscriptionsAreNamed'
  BY <1>1, <1>2, <1>3, SubsArePairs DEF NoSubscriptionLeaks, SubscriptionsAreNamed
<1>8. WireInv'
  <2>1. ASSUME NEW s \in Subs, conn'[s[1]] = "open"
        PROVE  sub'[s] = sub[s] /\ SentThrough(s)' = SentThrough(s)
    <3>1. s[1] # k
      BY <1>3, <2>1
    <3>2. sub'[s] = sub[s]
      BY <1>2, <3>1 DEF Of
    <3> QED BY <1>1, <1>2, <3>2 DEF SentThrough, Sending
  <2>2. \A s \in Subs : sub'[s] # Unused => sub[s] # Unused
    BY <1>2
  <2> QED BY <1>1, <1>3, <2>1, <2>2, WireUntouched
<1> QED BY <1>4, <1>5, <1>6, <1>7, <1>8 DEF HubInv

\* The hub hears that a socket closed, or broke.
LEMMA TearDownKeepsInv ==
  ASSUME HubInv, RouterInv', NEW k \in Conn, HubClose(k) \/ HubError(k)
  PROVE  HubInv'
<1>1. /\ UNCHANGED <<handling, calling, down, page>>
      /\ faults' \in 0 .. MaxFaults /\ Idle
      /\ conn' = [conn EXCEPT ![k] = "free"] /\ up' = [up EXCEPT ![k] = <<>>]
      /\ HubTypeOK /\ CallsNest /\ NoSubscriptionLeaks /\ SubscriptionsAreNamed
      /\ NobodyAhead /\ TypeOK
  <2>1. faults' \in 0 .. MaxFaults
    BY BoundsAssumption DEF HubClose, HubError, HubInv, HubTypeOK
  <2> QED BY <2>1 DEF HubInv, HubClose, HubError, TearDown, RouterInv
<1>2. /\ \A s \in Subs : sub'[s] = IF s \in Of(k) THEN Unused ELSE sub[s]
      /\ UNCHANGED <<head, assigned, batch, replays, running, isDispatching>>
  BY EndedOrAsBefore DEF HubClose, HubError, TearDown, TornDown
<1>3. /\ ~running /\ handling = None /\ ~isDispatching /\ replays = <<>> /\ batch = <<>>
      /\ \A s \in Subs : sub[s] = Unused \/ s \in Registered
  BY <1>1, IdleMeansIdle
<1>4. /\ conn'[k] = "free" /\ \A l \in Conn : l # k => conn'[l] = conn[l]
      /\ conn' \in [Conn -> {"free", "open", "closed"}]
      /\ up'[k] = <<>> /\ \A l \in Conn : l # k => up'[l] = up[l]
      /\ up' \in [Conn -> Seq(Request)]
  <2>1. <<>> \in Seq(Request)
    OBVIOUS
  <2> QED BY <1>1, <2>1 DEF HubTypeOK
<1>5. /\ HubTypeOK' /\ NobodyAhead' /\ SocketsAreOwned'
      /\ (\A c \in Client : IsFiniteSet(wanted[c]))'
  <2>1. \A st \in Streams : head[st] >= head[st]
    BY <1>1 DEF TypeOK
  <2>2. handling' \in Conn \cup {None} /\ calling' \in Subs \cup {None}
    BY <1>1 DEF HubTypeOK
  <2>3. \A l \in Conn : up'[l] = up[l] \/ up'[l] = <<>>
    BY <1>4
  <2> QED BY <1>1, <1>2, <1>4, <2>1, <2>2, <2>3, PageUntouched DEF NobodyAhead
<1>6. CallsNest' /\ CallerIsKnown'
  BY <1>1, <1>2, <1>3 DEF CallsNest, CallerIsKnown
<1>7. NoSubscriptionLeaks' /\ SubscriptionsAreNamed'
  <2>1. \A st \in Streams : sub'[<<k, st>>] = Unused
    BY <1>2, <1>3, SubsArePairs DEF Of
  <2>2. \A l \in Conn, st \in Streams : l # k => sub'[<<l, st>>] = sub[<<l, st>>]
    BY <1>2, SubsArePairs DEF Of
  <2> QED BY <1>1, <1>4, <2>1, <2>2 DEF NoSubscriptionLeaks, SubscriptionsAreNamed
<1>8. WireInv'
  <2>1. ASSUME NEW s \in Subs, conn'[s[1]] = "open"
        PROVE  sub'[s] = sub[s] /\ SentThrough(s)' = SentThrough(s)
    <3>1. s[1] # k
      BY <1>4, <2>1
    <3>2. sub'[s] = sub[s]
      BY <1>2, <3>1 DEF Of
    <3> QED BY <1>1, <1>2, <3>2 DEF SentThrough, Sending
  <2>2. \A s \in Subs : sub'[s] # Unused => sub[s] # Unused
    BY <1>2
  <2> QED BY <1>1, <1>4, <2>1, <2>2, WireUntouched
<1> QED BY <1>5, <1>6, <1>7, <1>8 DEF HubInv

\* The daemon dies and is started again over the same log.
LEMMA DaemonCrashKeepsInv ==
  ASSUME ~PowerLoss, HubInv, RouterInv', DaemonCrash
  PROVE  HubInv'
<1>1. /\ UNCHANGED <<down, page>>
      /\ faults' \in 0 .. MaxFaults
      /\ head' = head /\ assigned' = head /\ batch' = <<>> /\ replays' = <<>> /\ ~running'
      /\ \A s \in Subs : sub'[s] = Unused
      /\ handling' = None /\ calling' = None
      /\ conn' = [k \in Conn |-> "free"] /\ up' = [k \in Conn |-> <<>>]
      /\ TypeOK
  <2>1. faults' \in 0 .. MaxFaults
    BY BoundsAssumption DEF DaemonCrash, HubInv, HubTypeOK
  <2> QED BY <2>1 DEF HubInv, DaemonCrash, Survivors, Crash, RouterInv
<1>2. /\ HubTypeOK' /\ NobodyAhead' /\ SocketsAreOwned'
      /\ (\A c \in Client : IsFiniteSet(wanted[c]))'
  <2>1. ASSUME NEW st \in Streams
        PROVE  head'[st] >= head[st] /\ assigned'[st] <= MaxSeq
    <3>1. head[st] \in Nat /\ assigned[st] \in Nat
      BY <1>1 DEF TypeOK
    <3>2. assigned[st] >= head[st] /\ assigned[st] <= MaxSeq
      BY DEF HubInv, RouterInv, BatchContinuesLog, NobodyAhead
    <3> QED BY <1>1, <3>1, <3>2, BoundAssumption
  <2>2. <<>> \in Seq(Request)
    OBVIOUS
  <2> QED BY <1>1, <2>1, <2>2, PageUntouched
<1>3. CallsNest' /\ CallerIsKnown' /\ NoSubscriptionLeaks' /\ SubscriptionsAreNamed'
  BY <1>1, SubsArePairs DEF CallsNest, CallerIsKnown, NoSubscriptionLeaks, SubscriptionsAreNamed
<1>4. WireInv'
  <2>1. \A k \in Conn : conn'[k] # "open" /\ up'[k] = <<>>
    BY <1>1
  <2>2. \A s \in Subs : conn'[s[1]] # "open"
    BY <2>1, SubsArePairs
  <2> QED BY <1>1, <2>1, <2>2, WireUntouched
<1> QED BY <1>2, <1>3, <1>4 DEF HubInv

--------------------------------------------------------------------------------
(* THE STEPS OF THE PAGE *)

\* Each of the streams a page wants is in what it sends when it connects.
LEMMA EveryStreamIsAsked ==
  ASSUME NEW S, IsFiniteSet(S), NEW streams \in SetToSeqs(S)
  PROVE  /\ Cardinality(S) \in Nat /\ DOMAIN streams = 1 .. Cardinality(S)
         /\ \A i \in 1 .. Cardinality(S) : streams[i] \in S
         /\ \A st \in S : \E i \in 1 .. Cardinality(S) : streams[i] = st
<1> DEFINE n == Cardinality(S)
<1>1. n \in Nat
  BY FS_CardinalityType
<1>2. /\ streams \in [1 .. n -> S]
      /\ \A i, j \in 1 .. n : i # j => streams[i] # streams[j]
  BY DEF SetToSeqs
<1>3. streams \in Injection(1 .. n, S)
  BY <1>2 DEF Injection, IsInjective
<1>4. Cardinality(1 .. n) = n
  <2>1. 1 \in Int /\ n \in Int
    BY <1>1
  <2>2. Cardinality(1 .. n) = IF 1 > n THEN 0 ELSE n - 1 + 1
    BY <2>1, FS_Interval
  <2> QED BY <1>1, <2>2
<1>5. streams \in Surjection(1 .. n, S)
  BY <1>3, <1>4, FS_Injection
<1> QED BY <1>1, <1>2, <1>5 DEF Surjection

\* A socket opens.
LEMMA ConnectKeepsInv ==
  ASSUME HubInv, RouterInv', NEW c \in Client, NEW k \in Conn, Connect(c, k)
  PROVE  HubInv'
<1>1. PICK streams \in SetToSeqs(wanted[c]) :
        up' = [up EXCEPT ![k] = [i \in DOMAIN streams |-> RequestFor(c, streams[i])]]
  BY DEF Connect
<1> DEFINE n == Cardinality(wanted[c])
           sent == [i \in DOMAIN streams |-> RequestFor(c, streams[i])]
<1>2. /\ UNCHANGED <<handling, calling, down, wanted, lastSeq, faults>>
      /\ UNCHANGED <<head, assigned, batch, isDispatching, replays, running, sub>>
      /\ socket[c] = None /\ conn[k] = "free" /\ ~Held(k)
      /\ socket' = [socket EXCEPT ![c] = k] /\ conn' = [conn EXCEPT ![k] = "open"]
      /\ HubTypeOK /\ CallsNest /\ CallerIsKnown /\ NoSubscriptionLeaks /\ SubscriptionsAreNamed
      /\ NobodyAhead /\ SocketsAreOwned /\ WireInv /\ TypeOK
      /\ \A d \in Client : IsFiniteSet(wanted[d])
  BY DEF HubInv, Connect, vars, store, drain, RouterInv
<1>3. /\ n \in Nat /\ DOMAIN streams = 1 .. n
      /\ \A i \in 1 .. n : streams[i] \in wanted[c]
      /\ \A st \in wanted[c] : \E i \in 1 .. n : streams[i] = st
  BY <1>2, EveryStreamIsAsked
<1>4. wanted[c] \subseteq Streams /\ \A st \in Streams : lastSeq[c][st] \in 0 .. MaxSeq
  BY <1>2 DEF HubTypeOK
<1>5. /\ sent \in Seq(Request) /\ Len(sent) = n
      /\ \A i \in 1 .. n : sent[i].stream = streams[i] /\ sent[i].lastSeq = lastSeq[c][streams[i]]
  <2>1. \A i \in 1 .. n : RequestFor(c, streams[i]) \in Request
    BY <1>3, <1>4 DEF RequestFor, Request
  <2>2. sent \in [1 .. n -> Request]
    BY <1>3, <2>1
  <2>3. sent \in Seq(Request) /\ Len(sent) = n
    BY <1>3, <2>2
  <2> QED BY <1>3, <2>3 DEF RequestFor
<1>6. /\ up'[k] = sent /\ \A l \in Conn : l # k => up'[l] = up[l]
      /\ conn'[k] = "open" /\ \A l \in Conn : l # k => conn'[l] = conn[l]
      /\ socket'[c] = k /\ \A d \in Client : d # c => socket'[d] = socket[d]
      /\ \A d \in Client : d # c => socket[d] # k
      /\ down[k] = <<>> /\ k # None
  BY <1>1, <1>2, NoneAssumption DEF HubTypeOK, SocketsAreOwned, Held
<1>7. HubTypeOK'
  BY <1>1, <1>2, <1>5 DEF HubTypeOK, RouterInv
<1>8. CallsNest'
  BY <1>2, <1>6 DEF CallsNest, HubTypeOK
<1>9. CallerIsKnown'
  BY <1>2, <1>6, SubsArePairs DEF CallerIsKnown
<1>10. NoSubscriptionLeaks' /\ SubscriptionsAreNamed'
  BY <1>2, <1>6 DEF NoSubscriptionLeaks, SubscriptionsAreNamed
<1>11. NobodyAhead'
  <2>1. ASSUME NEW l \in Conn, NEW i \in 1 .. Len(up'[l])
        PROVE  up'[l][i].lastSeq <= head[up'[l][i].stream]
    <3>1. CASE l = k
      <4>1. i \in 1 .. n /\ streams[i] \in Streams
        BY <1>3, <1>4, <1>5, <1>6, <3>1
      <4>2. lastSeq[c][streams[i]] <= head[streams[i]]
        BY <1>2, <4>1 DEF NobodyAhead
      <4> QED BY <1>5, <1>6, <3>1, <4>1, <4>2
    <3>2. CASE l # k
      BY <1>2, <1>6, <3>2 DEF NobodyAhead
    <3> QED BY <3>1, <3>2
  <2> QED BY <1>2, <2>1 DEF NobodyAhead
<1>12. SocketsAreOwned'
  <2>1. \A d, e \in Client : (socket'[d] # None /\ socket'[d] = socket'[e]) => d = e
    BY <1>2, <1>6 DEF SocketsAreOwned
  <2>2. ASSUME NEW l \in Conn, \A d \in Client : socket'[d] # l
        PROVE  down[l] = <<>>
    <3>1. l # k /\ \A d \in Client : socket[d] # l
      BY <1>2, <1>6, <2>2, NoneAssumption
    <3> QED BY <1>2, <3>1 DEF SocketsAreOwned, Held
  <2> QED BY <1>2, <2>1, <2>2 DEF SocketsAreOwned, Held
<1>13. WireInv'
  <2>1. \A st \in Streams : sub[<<k, st>>] = Unused
    BY <1>2 DEF NoSubscriptionLeaks
  <2>2. ASSUME NEW d \in Client, NEW l \in Conn, socket'[d] = l
        PROVE  (d = c /\ l = k) \/ (socket[d] = l /\ l # k)
    BY <1>6, <2>2
  <2>3. Len(down[k]) = 0
    BY <1>6
  <2>4. WireHasNoGap'
    BY <1>2, <2>2, <2>3 DEF WireInv, WireHasNoGap
  <2>5. SubscriptionsSent'
    <3>1. \A s : SentThrough(s)' = SentThrough(s)
      BY <1>2 DEF SentThrough, Sending
    <3> QED BY <1>2, <1>6, <2>1, <2>2, <3>1 DEF WireInv, SubscriptionsSent
  <2>6. RequestsFromThePast'
    <3> SUFFICES ASSUME NEW d \in Client, NEW l \in Conn, socket'[d] = l, NEW i \in 1 .. Len(up'[l])
                 PROVE  up'[l][i].lastSeq <= lastSeq[d][up'[l][i].stream]
      BY <1>2 DEF RequestsFromThePast
    <3>1. CASE d = c /\ l = k
      BY <1>3, <1>4, <1>5, <1>6, <3>1, BoundAssumption
    <3>2. CASE socket[d] = l /\ l # k
      BY <1>2, <1>6, <3>2 DEF WireInv, RequestsFromThePast
    <3> QED BY <2>2, <3>1, <3>2
  <2>7. WantedIsAskedFor'
    <3> SUFFICES ASSUME NEW d \in Client, NEW l \in Conn, socket'[d] = l
                 PROVE  /\ conn'[l] = "open" => \A st \in wanted[d] :
                             sub[<<l, st>>] # Unused
                               \/ \E i \in 1 .. Len(up'[l]) : up'[l][i].stream = st
                        /\ \A st \in Streams : sub[<<l, st>>] # Unused => st \in wanted[d]
                        /\ \A i \in 1 .. Len(up'[l]) : up'[l][i].stream \in wanted[d]
                        /\ \A i \in 1 .. Len(down[l]) : down[l][i].stream \in wanted[d]
      BY <1>2 DEF WantedIsAskedFor
    <3>1. CASE d = c /\ l = k
      BY <1>3, <1>5, <1>6, <2>1, <2>3, <3>1
    <3>2. CASE socket[d] = l /\ l # k
      <4>1. up'[l] = up[l] /\ conn'[l] = conn[l]
        BY <1>6, <3>2
      <4>2. WantedIsAskedFor
        BY <1>2 DEF WireInv
      <4> QED BY <3>2, <4>1, <4>2 DEF WantedIsAskedFor
    <3> QED BY <2>2, <3>1, <3>2
  <2> QED BY <2>4, <2>5, <2>6, <2>7 DEF WireInv
<1>14. (\A d \in Client : IsFiniteSet(wanted[d]))'
  BY <1>2
<1> QED BY <1>7, <1>8, <1>9, <1>10, <1>11, <1>12, <1>13, <1>14 DEF HubInv

\* A view asks for a stream.
LEMMA ClientSubscribeKeepsInv ==
  ASSUME HubInv, RouterInv', NEW c \in Client, NEW st \in Viewed, ClientSubscribe(c, st)
  PROVE  HubInv'
<1> DEFINE request == RequestFor(c, st)
<1>1. /\ UNCHANGED <<conn, handling, calling, down, socket, lastSeq, faults>>
      /\ UNCHANGED <<head, assigned, batch, isDispatching, replays, running, sub>>
      /\ wanted' = [wanted EXCEPT ![c] = @ \cup {st}]
      /\ HubTypeOK /\ CallsNest /\ CallerIsKnown /\ NoSubscriptionLeaks /\ SubscriptionsAreNamed
      /\ NobodyAhead /\ SocketsAreOwned /\ WireInv /\ TypeOK
      /\ \A d \in Client : IsFiniteSet(wanted[d])
  BY DEF HubInv, ClientSubscribe, vars, hub, store, drain, RouterInv
<1>2. /\ st \in Streams
      /\ wanted'[c] = wanted[c] \cup {st} /\ \A d \in Client : d # c => wanted'[d] = wanted[d]
  BY <1>1, ViewedAssumption DEF HubTypeOK
<1>3. request \in Request /\ request.stream = st /\ request.lastSeq = lastSeq[c][st]
  BY <1>1, <1>2 DEF RequestFor, Request, HubTypeOK
<1>4. /\ up' \in [Conn -> Seq(Request)]
      /\ \A l \in Conn : \A i \in 1 .. Len(up[l]) : i \in 1 .. Len(up'[l]) /\ up'[l][i] = up[l][i]
      /\ \A l \in Conn : \A i \in 1 .. Len(up'[l]) :
           \/ i \in 1 .. Len(up[l]) /\ up'[l][i] = up[l][i]
           \/ socket[c] = l /\ up'[l][i] = request
      /\ \A l \in Conn : (socket[c] = l /\ conn[l] = "open") =>
           \E i \in 1 .. Len(up'[l]) : up'[l][i].stream = st
  <2>1. CASE socket[c] # None /\ conn[socket[c]] # "free"
    <3> DEFINE k == socket[c]
    <3>1. k \in Conn /\ up' = [up EXCEPT ![k] = Append(@, request)]
      BY <1>1, <2>1 DEF ClientSubscribe, HubTypeOK
    <3>2. /\ up'[k] = Append(up[k], request) /\ \A l \in Conn : l # k => up'[l] = up[l]
      BY <1>1, <3>1 DEF HubTypeOK
    <3>3. /\ up'[k] \in Seq(Request) /\ Len(up'[k]) = Len(up[k]) + 1 /\ Len(up[k]) \in Nat
          /\ \A i \in 1 .. Len(up[k]) : up'[k][i] = up[k][i]
          /\ up'[k][Len(up[k]) + 1] = request
      BY <1>1, <1>3, <3>1, <3>2, OnTheWire, OneMore
    <3>4. up' \in [Conn -> Seq(Request)]
      BY <1>1, <3>1, <3>2, <3>3 DEF HubTypeOK
    <3>5. ASSUME NEW i \in 1 .. Len(up[k])
          PROVE  i \in 1 .. Len(up'[k]) /\ up'[k][i] = up[k][i]
      BY <3>3
    <3>6. ASSUME NEW i \in 1 .. Len(up'[k])
          PROVE  (i \in 1 .. Len(up[k]) /\ up'[k][i] = up[k][i]) \/ up'[k][i] = request
      <4>1. i \in 1 .. Len(up[k]) + 1
        BY <3>3
      <4> QED BY <3>3, <4>1
    <3>7. Len(up[k]) + 1 \in 1 .. Len(up'[k])
      BY <3>3
    <3>8. \E i \in 1 .. Len(up'[k]) : up'[k][i].stream = st
      BY <1>3, <3>3, <3>7
    <3> QED BY <3>1, <3>2, <3>4, <3>5, <3>6, <3>8
  <2>2. CASE ~(socket[c] # None /\ conn[socket[c]] # "free")
    <3>1. up' = up
      BY <2>2 DEF ClientSubscribe
    <3>2. \A l \in Conn : ~(socket[c] = l /\ conn[l] = "open")
      BY <2>2, NoneAssumption
    <3> QED BY <1>1, <3>1, <3>2 DEF HubTypeOK
  <2> QED BY <2>1, <2>2
<1>5. HubTypeOK'
  <2>1. wanted' \in [Client -> SUBSET Streams]
    BY <1>1, <1>2 DEF HubTypeOK
  <2> QED BY <1>1, <1>4, <2>1 DEF HubTypeOK, RouterInv
<1>6. CallsNest' /\ CallerIsKnown' /\ NoSubscriptionLeaks' /\ SubscriptionsAreNamed'
  <2>1. ASSUME handling # None, replays = <<>>
        PROVE  up'[handling] # <<>>
    <3>1. handling \in Conn /\ up[handling] # <<>>
      BY <1>1, <2>1 DEF HubTypeOK, CallsNest
    <3>2. 1 \in 1 .. Len(up[handling])
      BY <1>1, <3>1, OnTheWire
    <3>3. 1 \in 1 .. Len(up'[handling])
      BY <1>4, <3>1, <3>2
    <3> QED BY <3>3
  <2> QED BY <1>1, <2>1 DEF CallsNest, CallerIsKnown, NoSubscriptionLeaks, SubscriptionsAreNamed
<1>7. NobodyAhead' /\ SocketsAreOwned'
  <2>1. ASSUME NEW l \in Conn, NEW i \in 1 .. Len(up'[l])
        PROVE  up'[l][i].lastSeq <= head[up'[l][i].stream]
    BY <1>1, <1>2, <1>3, <1>4, <2>1 DEF NobodyAhead
  <2> QED BY <1>1, <2>1 DEF NobodyAhead, SocketsAreOwned, Held
<1>8. WireInv'
  <2>1. WireHasNoGap' /\ SubscriptionsSent'
    BY <1>1 DEF WireInv, WireHasNoGap, SubscriptionsSent, SentThrough, Sending
  <2>2. \A d \in Client, l \in Conn : (socket[d] = l /\ socket[c] = l) => d = c
    BY <1>1, NoneAssumption DEF SocketsAreOwned
  <2>3. RequestsFromThePast'
    <3> SUFFICES ASSUME NEW d \in Client, NEW l \in Conn, socket[d] = l, NEW i \in 1 .. Len(up'[l])
                 PROVE  up'[l][i].lastSeq <= lastSeq[d][up'[l][i].stream]
      BY <1>1 DEF RequestsFromThePast
    <3>1. CASE i \in 1 .. Len(up[l]) /\ up'[l][i] = up[l][i]
      BY <1>1, <3>1 DEF WireInv, RequestsFromThePast
    <3>2. CASE socket[c] = l /\ up'[l][i] = request
      <4>1. lastSeq[c][st] \in Nat
        BY <1>1, <1>2, BoundAssumption DEF HubTypeOK
      <4> QED BY <1>3, <2>2, <3>2, <4>1
    <3> QED BY <1>4, <3>1, <3>2
  <2>4. WantedIsAskedFor'
    <3> SUFFICES ASSUME NEW d \in Client, NEW l \in Conn, socket[d] = l
                 PROVE  /\ conn[l] = "open" => \A other \in wanted'[d] :
                             sub[<<l, other>>] # Unused
                               \/ \E i \in 1 .. Len(up'[l]) : up'[l][i].stream = other
                        /\ \A other \in Streams : sub[<<l, other>>] # Unused => other \in wanted'[d]
                        /\ \A i \in 1 .. Len(up'[l]) : up'[l][i].stream \in wanted'[d]
                        /\ \A i \in 1 .. Len(down[l]) : down[l][i].stream \in wanted'[d]
      BY <1>1 DEF WantedIsAskedFor
    <3>1. WantedIsAskedFor /\ wanted[d] \subseteq wanted'[d]
      BY <1>1, <1>2 DEF WireInv
    <3>2. ASSUME conn[l] = "open", NEW other \in wanted'[d]
          PROVE  sub[<<l, other>>] # Unused \/ \E i \in 1 .. Len(up'[l]) : up'[l][i].stream = other
      <4>1. CASE other \in wanted[d]
        <5>1. sub[<<l, other>>] # Unused \/ \E i \in 1 .. Len(up[l]) : up[l][i].stream = other
          BY <3>1, <3>2, <4>1 DEF WantedIsAskedFor
        <5> QED BY <1>4, <5>1
      <4>2. CASE other \notin wanted[d]
        <5>1. d = c /\ other = st
          BY <1>2, <4>2
        <5> QED BY <1>4, <3>2, <5>1
      <4> QED BY <4>1, <4>2
    <3>3. ASSUME NEW i \in 1 .. Len(up'[l])
          PROVE  up'[l][i].stream \in wanted'[d]
      BY <1>2, <1>3, <1>4, <2>2, <3>1 DEF WantedIsAskedFor
    <3> QED BY <3>1, <3>2, <3>3 DEF WantedIsAskedFor
  <2> QED BY <2>1, <2>3, <2>4 DEF WireInv
<1>9. (\A d \in Client : IsFiniteSet(wanted[d]))'
  <2>1. IsFiniteSet(wanted[c] \cup {st})
    BY <1>1, FS_AddElement
  <2> QED BY <1>1, <1>2, <2>1
<1> QED BY <1>5, <1>6, <1>7, <1>8, <1>9 DEF HubInv

\* The page reads its socket.  An event it has seen already is dropped; the
\* next one is one further.
LEMMA ReadsTheNext ==
  ASSUME HubInv, NEW c \in Client, ClientReceive(c)
  PROVE  LET k == socket[c]
             e == down[k][1]
         IN  /\ k \in Conn /\ Len(down[k]) \in Nat \ {0}
             /\ e.stream \in wanted[c] /\ e.stream \in Streams
             /\ e.seq \in Nat /\ e.seq <= lastSeq[c][e.stream] + 1
             /\ e.seq <= head[e.stream] /\ e.seq <= MaxSeq
             /\ lastSeq' = IF IsNew(c, e) THEN [lastSeq EXCEPT ![c][e.stream] = e.seq] ELSE lastSeq
             /\ down' = [down EXCEPT ![k] = Tail(@)]
<1> DEFINE k == socket[c]
           e == down[k][1]
<1>1. /\ HubTypeOK /\ WireHasNoGap /\ WantedIsAskedFor /\ NobodyAhead
      /\ k # None /\ down[k] # <<>>
  BY DEF HubInv, WireInv, ClientReceive
<1>2. k \in Conn
  BY <1>1 DEF HubTypeOK
<1>3. Len(down[k]) \in Nat \ {0} /\ Head(down[k]) = e
  BY <1>1, <1>2, OnTheWire
<1>4. 1 \in 1 .. Len(down[k])
  BY <1>3
<1>5. e.stream \in Streams /\ e.seq \in Nat /\ e.seq <= MaxSeq
  BY <1>1, <1>2, <1>4, OnTheWire
<1>6. e.stream \in wanted[c] /\ e.seq <= head[e.stream]
  BY <1>1, <1>2, <1>4 DEF WantedIsAskedFor, NobodyAhead
<1>7. e.seq <= lastSeq[c][e.stream] + 1
  <2>1. Brings(lastSeq[c][e.stream], down[k], 1 - 1, e.stream, e.seq - 1)
    BY <1>1, <1>2, <1>4 DEF WireHasNoGap
  <2>2. e.seq - 1 <= lastSeq[c][e.stream]
    BY <2>1 DEF Brings
  <2>3. lastSeq[c][e.stream] \in Nat
    BY <1>1, <1>5, BoundAssumption DEF HubTypeOK
  <2> QED BY <1>5, <2>2, <2>3
<1> QED BY <1>2, <1>3, <1>5, <1>6, <1>7 DEF ClientReceive

LEMMA ClientReceiveKeepsInv ==
  ASSUME HubInv, RouterInv', NEW c \in Client, ClientReceive(c)
  PROVE  HubInv'
<1> DEFINE k == socket[c]
           e == down[k][1]
<1>1. /\ UNCHANGED <<conn, handling, calling, up, socket, wanted, faults>>
      /\ UNCHANGED <<head, assigned, batch, isDispatching, replays, running, sub>>
      /\ HubTypeOK /\ CallsNest /\ CallerIsKnown /\ NoSubscriptionLeaks /\ SubscriptionsAreNamed
      /\ NobodyAhead /\ SocketsAreOwned /\ WireInv /\ TypeOK
      /\ \A d \in Client : IsFiniteSet(wanted[d])
  BY DEF HubInv, ClientReceive, vars, hub, store, drain, RouterInv
<1>2. /\ k \in Conn /\ Len(down[k]) \in Nat \ {0}
      /\ e.stream \in Streams /\ e.seq \in Nat /\ e.seq <= head[e.stream] /\ e.seq <= MaxSeq
      /\ lastSeq' = IF IsNew(c, e) THEN [lastSeq EXCEPT ![c][e.stream] = e.seq] ELSE lastSeq
      /\ down' = [down EXCEPT ![k] = Tail(@)]
  BY ReadsTheNext
<1>3. /\ down'[k] = Tail(down[k]) /\ \A l \in Conn : l # k => down'[l] = down[l]
      /\ Tail(down[k]) \in Seq(Envelope) /\ Len(Tail(down[k])) = Len(down[k]) - 1
      /\ \A i \in 1 .. Len(down[k]) - 1 : Tail(down[k])[i] = down[k][i + 1]
  <2>1. down[k] \in Seq(Envelope) /\ down[k] # <<>>
    BY <1>1, <1>2, OnTheWire
  <2>2. /\ Tail(down[k]) \in Seq(Envelope) /\ Len(Tail(down[k])) = Len(down[k]) - 1
        /\ \A i \in 1 .. Len(down[k]) - 1 : Tail(down[k])[i] = down[k][i + 1]
    BY <1>2, <2>1
  <2> QED BY <1>1, <1>2, <2>2 DEF HubTypeOK
<1>4. \A l \in Conn : \A i \in 1 .. Len(down'[l]) : \E j \in 1 .. Len(down[l]) : down'[l][i] = down[l][j]
  <2> SUFFICES ASSUME NEW l \in Conn, NEW i \in 1 .. Len(down'[l])
               PROVE  \E j \in 1 .. Len(down[l]) : down'[l][i] = down[l][j]
    OBVIOUS
  <2>1. CASE l = k
    <3>1. i \in 1 .. Len(down[k]) - 1
      BY <1>3, <2>1
    <3>2. i + 1 \in 1 .. Len(down[k])
      BY <1>2, <3>1
    <3>3. down'[k][i] = down[k][i + 1]
      BY <1>3, <3>1
    <3> QED BY <2>1, <3>2, <3>3
  <2>2. CASE l # k
    BY <1>3, <2>2
  <2> QED BY <2>1, <2>2
<1>5. /\ \A d \in Client, st \in Streams :
           lastSeq[d][st] \in 0 .. MaxSeq /\ head[st] \in Nat /\ lastSeq[d][st] <= head[st]
      /\ lastSeq \in [Client -> [Streams -> 0 .. MaxSeq]]
  BY <1>1 DEF HubTypeOK, NobodyAhead, TypeOK
<1>6. /\ lastSeq' \in [Client -> [Streams -> 0 .. MaxSeq]]
      /\ \A d \in Client, st \in Streams : lastSeq'[d][st] >= lastSeq[d][st] /\ lastSeq'[d][st] <= head[st]
      /\ lastSeq'[c][e.stream] >= e.seq
      /\ \A d \in Client : d # c => lastSeq'[d] = lastSeq[d]
  <2>1. CASE IsNew(c, e)
    <3>1. lastSeq' = [lastSeq EXCEPT ![c] = [lastSeq[c] EXCEPT ![e.stream] = e.seq]]
      BY <1>2, <2>1
    <3>2. e.seq > lastSeq[c][e.stream] /\ e.seq \in 0 .. MaxSeq
      BY <1>2, <2>1, BoundAssumption DEF IsNew
    <3>3. [lastSeq[c] EXCEPT ![e.stream] = e.seq] \in [Streams -> 0 .. MaxSeq]
      BY <1>5, <3>2
    <3>4. lastSeq'[c] = [lastSeq[c] EXCEPT ![e.stream] = e.seq] /\ \A d \in Client : d # c => lastSeq'[d] = lastSeq[d]
      BY <1>5, <3>1
    <3>5. \A st \in Streams : lastSeq'[c][st] = IF st = e.stream THEN e.seq ELSE lastSeq[c][st]
      BY <1>5, <3>4
    <3>6. lastSeq' \in [Client -> [Streams -> 0 .. MaxSeq]]
      BY <1>5, <3>1, <3>3
    <3>7. \A st \in Streams : lastSeq'[c][st] >= lastSeq[c][st] /\ lastSeq'[c][st] <= head[st]
      BY <1>2, <1>5, <3>2, <3>5
    <3>8. ASSUME NEW d \in Client, NEW st \in Streams
          PROVE  lastSeq'[d][st] >= lastSeq[d][st] /\ lastSeq'[d][st] <= head[st]
      <4>1. CASE d = c
        BY <3>7, <4>1
      <4>2. CASE d # c
        <5>1. lastSeq[d][st] \in Int
          BY <1>5, BoundAssumption
        <5> QED BY <1>5, <3>4, <4>2, <5>1
      <4> QED BY <4>1, <4>2
    <3>9. lastSeq'[c][e.stream] = e.seq
      BY <1>2, <3>5
    <3>10. lastSeq'[c][e.stream] >= e.seq
      BY <1>2, <3>9
    <3> QED BY <3>4, <3>6, <3>8, <3>10
  <2>2. CASE ~IsNew(c, e)
    <3>1. lastSeq' = lastSeq /\ e.seq <= lastSeq[c][e.stream]
      BY <1>2, <1>5, <2>2 DEF IsNew
    <3> QED BY <1>2, <1>5, <3>1
  <2> QED BY <2>1, <2>2
<1>7. HubTypeOK'
  <2>1. down' \in [Conn -> Seq(Envelope)]
    BY <1>1, <1>2, <1>3 DEF HubTypeOK
  <2> QED BY <1>1, <1>6, <2>1 DEF HubTypeOK, RouterInv
<1>8. CallsNest' /\ CallerIsKnown' /\ NoSubscriptionLeaks' /\ SubscriptionsAreNamed'
  BY <1>1 DEF CallsNest, CallerIsKnown, NoSubscriptionLeaks, SubscriptionsAreNamed
<1>9. NobodyAhead'
  <2>1. ASSUME NEW l \in Conn, NEW i \in 1 .. Len(down'[l])
        PROVE  down'[l][i].seq >= 1 /\ down'[l][i].seq <= head[down'[l][i].stream]
    BY <1>1, <1>4, <2>1 DEF NobodyAhead
  <2> QED BY <1>1, <1>6, <2>1 DEF NobodyAhead
<1>10. SocketsAreOwned'
  <2>1. Held(k)
    BY <1>2 DEF Held
  <2>2. \A l \in Conn : ~Held(l) => down'[l] = <<>>
    BY <1>1, <1>3, <2>1 DEF SocketsAreOwned
  <2>3. \A l \in Conn : Held(l)' = Held(l)
    BY <1>1 DEF Held
  <2> QED BY <1>1, <2>2, <2>3 DEF SocketsAreOwned
<1>11. \A d \in Client, l \in Conn : socket[d] = l => (d = c <=> l = k)
  BY <1>1, <1>2, NoneAssumption DEF SocketsAreOwned
<1>12. ASSUME NEW m \in 1 .. Len(down[k]), NEW st \in Streams, NEW n \in Int,
              Brings(lastSeq[c][st], down[k], m, st, n)
       PROVE  Brings(lastSeq'[c][st], down'[k], m - 1, st, n)
  <2>1. lastSeq[c][st] \in Int /\ lastSeq'[c][st] \in Int /\ lastSeq'[c][st] >= lastSeq[c][st]
    BY <1>5, <1>6, BoundAssumption
  <2>2. CASE n <= lastSeq[c][st]
    BY <2>1, <2>2 DEF Brings
  <2>3. CASE \E i \in 1 .. m : down[k][i].stream = st /\ down[k][i].seq >= n
    <3>1. PICK i \in 1 .. m : down[k][i].stream = st /\ down[k][i].seq >= n
      BY <2>3
    <3>2. CASE i = 1
      <4>1. e.stream = st /\ e.seq >= n /\ lastSeq'[c][st] >= e.seq
        BY <1>6, <3>1, <3>2
      <4>2. n <= lastSeq'[c][st]
        BY <1>2, <2>1, <4>1
      <4> QED BY <4>2 DEF Brings
    <3>3. CASE i # 1
      <4>1. /\ i - 1 \in 1 .. m - 1 /\ i - 1 \in 1 .. Len(down[k]) - 1 /\ (i - 1) + 1 = i
        BY <1>2, <3>3
      <4>2. down'[k][i - 1] = down[k][i]
        BY <1>3, <4>1
      <4> QED BY <3>1, <4>1, <4>2 DEF Brings
    <3> QED BY <3>2, <3>3
  <2> QED BY <1>12, <2>2, <2>3 DEF Brings
<1>13. WireInv'
  <2>1. WireHasNoGap'
    <3> SUFFICES ASSUME NEW d \in Client, NEW l \in Conn, socket[d] = l, NEW i \in 1 .. Len(down'[l])
                 PROVE  Brings(lastSeq'[d][down'[l][i].stream], down'[l], i - 1,
                               down'[l][i].stream, down'[l][i].seq - 1)
      BY <1>1 DEF WireHasNoGap
    <3>1. CASE l = k
      <4>1. i \in 1 .. Len(down[k]) - 1
        BY <1>3, <3>1
      <4>0. down'[k][i] = down[k][i + 1]
        BY <1>3, <4>1
      <4>2. /\ i + 1 \in 1 .. Len(down[k]) /\ i \in 1 .. Len(down[k])
            /\ (i + 1) - 1 = i /\ down'[k][i] = down[k][i + 1]
        BY <1>2, <4>0, <4>1
      <4>3. Brings(lastSeq[c][down[k][i + 1].stream], down[k], (i + 1) - 1,
                   down[k][i + 1].stream, down[k][i + 1].seq - 1)
        BY <1>1, <1>2, <4>2 DEF WireInv, WireHasNoGap
      <4>4. down[k][i + 1].stream \in Streams /\ down[k][i + 1].seq - 1 \in Int
        BY <1>1, <1>2, <4>2, OnTheWire
      <4>5. d = c
        BY <1>11, <3>1
      <4> QED BY <1>12, <3>1, <4>2, <4>3, <4>4, <4>5
    <3>2. CASE l # k
      <4>1. d # c /\ down'[l] = down[l] /\ lastSeq'[d] = lastSeq[d]
        BY <1>3, <1>6, <1>11, <3>2
      <4> QED BY <1>1, <4>1 DEF WireInv, WireHasNoGap
    <3> QED BY <3>1, <3>2
  <2>2. SubscriptionsSent'
    <3> SUFFICES ASSUME NEW d \in Client, NEW l \in Conn, NEW st \in Streams,
                        socket[d] = l, conn[l] = "open", sub[<<l, st>>] # Unused
                 PROVE  Brings(lastSeq'[d][st], down'[l], Len(down'[l]), st, SentThrough(<<l, st>>))
      BY <1>1 DEF SubscriptionsSent, SentThrough, Sending
    <3>1. Brings(lastSeq[d][st], down[l], Len(down[l]), st, SentThrough(<<l, st>>))
      BY <1>1 DEF WireInv, SubscriptionsSent
    <3>2. CASE l = k
      <4>1. SentThrough(<<l, st>>) \in Int
        BY <1>1, InUse, SubsArePairs DEF SentThrough
      <4>2. Len(down[k]) \in 1 .. Len(down[k]) /\ d = c
        BY <1>2, <1>11, <3>2
      <4> QED BY <1>3, <1>12, <3>1, <3>2, <4>1, <4>2
    <3>3. CASE l # k
      <4>1. d # c /\ down'[l] = down[l] /\ lastSeq'[d] = lastSeq[d]
        BY <1>3, <1>6, <1>11, <3>3
      <4> QED BY <3>1, <4>1
    <3> QED BY <3>2, <3>3
  <2>3. RequestsFromThePast'
    <3> SUFFICES ASSUME NEW d \in Client, NEW l \in Conn, socket[d] = l, NEW i \in 1 .. Len(up[l])
                 PROVE  up[l][i].lastSeq <= lastSeq'[d][up[l][i].stream]
      BY <1>1 DEF RequestsFromThePast
    <3>1. up[l][i].lastSeq <= lastSeq[d][up[l][i].stream]
      BY <1>1 DEF WireInv, RequestsFromThePast
    <3>2. up[l][i].lastSeq \in Nat /\ up[l][i].stream \in Streams
      BY <1>1, OnTheWire
    <3>3. lastSeq[d][up[l][i].stream] \in 0 .. MaxSeq /\ lastSeq'[d][up[l][i].stream] \in 0 .. MaxSeq
          /\ lastSeq'[d][up[l][i].stream] >= lastSeq[d][up[l][i].stream]
      BY <1>5, <1>6, <3>2
    <3> QED BY <3>1, <3>2, <3>3, BoundAssumption
  <2>4. WantedIsAskedFor'
    <3>1. WantedIsAskedFor
      BY <1>1 DEF WireInv
    <3>2. ASSUME NEW d \in Client, NEW l \in Conn, socket[d] = l, NEW i \in 1 .. Len(down'[l])
          PROVE  down'[l][i].stream \in wanted[d]
      BY <1>4, <3>1, <3>2 DEF WantedIsAskedFor
    <3> QED BY <1>1, <3>1, <3>2 DEF WantedIsAskedFor
  <2> QED BY <2>1, <2>2, <2>3, <2>4 DEF WireInv
<1>14. (\A d \in Client : IsFiniteSet(wanted[d]))'
  BY <1>1
<1> QED BY <1>7, <1>8, <1>9, <1>10, <1>13, <1>14 DEF HubInv

\* A page is without its socket: it closed, was lost, or the page was loaded
\* again, which leaves the other pages alone.
LEMMA DisconnectKeepsInv ==
  ASSUME HubInv, RouterInv', NEW c \in Client, ClientClose(c) \/ ClientLoses(c) \/ Reload(c)
  PROVE  HubInv'
<1> DEFINE k == socket[c]
<1>1. /\ UNCHANGED <<conn, handling, calling, up>>
      /\ UNCHANGED <<head, assigned, batch, isDispatching, replays, running, sub>>
      /\ k # None /\ socket' = [socket EXCEPT ![c] = None] /\ down' = [down EXCEPT ![k] = <<>>]
      /\ HubTypeOK /\ CallsNest /\ CallerIsKnown /\ NoSubscriptionLeaks /\ SubscriptionsAreNamed
      /\ NobodyAhead /\ SocketsAreOwned /\ WireInv /\ TypeOK
      /\ \A d \in Client : IsFiniteSet(wanted[d])
  BY DEF HubInv, ClientClose, ClientLoses, Reload, Disconnect, vars, hub, store, drain, RouterInv
<1>2. /\ faults' \in 0 .. MaxFaults
      /\ wanted' \in [Client -> SUBSET Streams]
      /\ lastSeq' \in [Client -> [Streams -> 0 .. MaxSeq]]
      /\ \A d \in Client : d # c => wanted'[d] = wanted[d] /\ lastSeq'[d] = lastSeq[d]
      /\ wanted'[c] = wanted[c] \/ wanted'[c] = {}
      /\ lastSeq'[c] = lastSeq[c] \/ lastSeq'[c] = [st \in Streams |-> 0]
  <2>1. CASE ClientClose(c)
    BY <1>1, <2>1 DEF ClientClose, HubTypeOK
  <2>2. CASE ClientLoses(c)
    BY <1>1, <2>2, BoundsAssumption DEF ClientLoses, HubTypeOK
  <2>3. CASE Reload(c)
    <3>1. faults' \in 0 .. MaxFaults
      BY <1>1, <2>3, BoundsAssumption DEF Reload, HubTypeOK
    <3>2. [st \in Streams |-> 0] \in [Streams -> 0 .. MaxSeq]
      BY BoundAssumption
    <3> QED BY <1>1, <2>3, <3>1, <3>2 DEF Reload, HubTypeOK
  <2> QED BY <2>1, <2>2, <2>3
<1>3. /\ k \in Conn /\ down'[k] = <<>> /\ \A l \in Conn : l # k => down'[l] = down[l]
      /\ socket'[c] = None /\ \A d \in Client : d # c => socket'[d] = socket[d]
      /\ \A d \in Client : socket[d] = k => d = c
  BY <1>1 DEF HubTypeOK, SocketsAreOwned
<1>4. HubTypeOK'
  <2>1. <<>> \in Seq(Envelope)
    OBVIOUS
  <2>2. down' \in [Conn -> Seq(Envelope)] /\ socket' \in [Client -> Conn \cup {None}]
    BY <1>1, <2>1 DEF HubTypeOK
  <2> QED BY <1>1, <1>2, <2>2 DEF HubTypeOK, RouterInv
<1>5. CallsNest' /\ CallerIsKnown' /\ NoSubscriptionLeaks' /\ SubscriptionsAreNamed'
  BY <1>1 DEF CallsNest, CallerIsKnown, NoSubscriptionLeaks, SubscriptionsAreNamed
<1>6. NobodyAhead'
  <2>1. ASSUME NEW l \in Conn, NEW i \in 1 .. Len(down'[l])
        PROVE  down'[l][i].seq >= 1 /\ down'[l][i].seq <= head[down'[l][i].stream]
    <3>1. l # k /\ down'[l] = down[l]
      BY <1>3, <2>1
    <3> QED BY <1>1, <3>1 DEF NobodyAhead
  <2>2. ASSUME NEW d \in Client, NEW st \in Streams
        PROVE  lastSeq'[d][st] <= head[st]
    <3>1. head[st] \in Nat /\ lastSeq[d][st] <= head[st]
      BY <1>1 DEF NobodyAhead, TypeOK
    <3>2. CASE d = c /\ lastSeq'[c] = [other \in Streams |-> 0]
      BY <3>1, <3>2
    <3>3. CASE lastSeq'[d] = lastSeq[d]
      BY <3>1, <3>3
    <3> QED BY <1>2, <3>2, <3>3
  <2> QED BY <1>1, <2>1, <2>2 DEF NobodyAhead
<1>7. SocketsAreOwned'
  <2>1. \A d, e \in Client : (socket'[d] # None /\ socket'[d] = socket'[e]) => d = e
    BY <1>1, <1>3 DEF SocketsAreOwned
  <2>2. ASSUME NEW l \in Conn, \A d \in Client : socket'[d] # l
        PROVE  down'[l] = <<>>
    <3>1. CASE l # k
      <4>1. \A d \in Client : socket[d] # l
        BY <1>3, <2>2, <3>1
      <4> QED BY <1>1, <1>3, <3>1, <4>1 DEF SocketsAreOwned, Held
    <3> QED BY <1>3, <3>1
  <2> QED BY <2>1, <2>2 DEF SocketsAreOwned, Held
<1>8. WireInv'
  <2>1. ASSUME NEW d \in Client, NEW l \in Conn, socket'[d] = l
        PROVE  /\ d # c /\ socket[d] = l /\ down'[l] = down[l]
               /\ wanted'[d] = wanted[d] /\ lastSeq'[d] = lastSeq[d]
    <3>1. d # c /\ socket[d] = l
      BY <1>3, <2>1, NoneAssumption
    <3>2. l # k
      BY <1>3, <3>1
    <3> QED BY <1>2, <1>3, <3>1, <3>2
  <2>2. WireHasNoGap'
    BY <1>1, <2>1 DEF WireInv, WireHasNoGap
  <2>3. SubscriptionsSent'
    <3>1. \A s : SentThrough(s)' = SentThrough(s)
      BY <1>1 DEF SentThrough, Sending
    <3> QED BY <1>1, <2>1, <3>1 DEF WireInv, SubscriptionsSent
  <2>4. RequestsFromThePast'
    BY <1>1, <2>1 DEF WireInv, RequestsFromThePast
  <2>5. WantedIsAskedFor'
    BY <1>1, <2>1 DEF WireInv, WantedIsAskedFor
  <2> QED BY <2>2, <2>3, <2>4, <2>5 DEF WireInv
<1>9. (\A d \in Client : IsFiniteSet(wanted[d]))'
  BY <1>1, <1>2, FS_EmptySet
<1> QED BY <1>4, <1>5, <1>6, <1>7, <1>8, <1>9 DEF HubInv

--------------------------------------------------------------------------------
(* THEOREMS *)

LEMMA InitHubInv == HubInit => HubInv
<1> SUFFICES ASSUME HubInit PROVE HubInv
  OBVIOUS
<1>1. RouterInv
  BY InitInv DEF HubInit
<1>2. HubTypeOK
  <2>1. <<>> \in Seq(Request) /\ <<>> \in Seq(Envelope)
    OBVIOUS
  <2>2. 0 \in 0 .. MaxSeq /\ 0 \in 0 .. MaxFaults
    BY BoundAssumption, BoundsAssumption
  <2> QED BY <1>1, <2>1, <2>2 DEF HubInit, HubTypeOK, RouterInv
<1>3. /\ \A c \in Client : IsFiniteSet(wanted[c])
      /\ CallsNest /\ CallerIsKnown
  BY FS_EmptySet DEF HubInit, Init, CallsNest, CallerIsKnown
<1>4. NoSubscriptionLeaks /\ SubscriptionsAreNamed
  BY SubsArePairs DEF HubInit, Init, NoSubscriptionLeaks, SubscriptionsAreNamed
<1>5. /\ \A k \in Conn : Len(down[k]) = 0 /\ Len(up[k]) = 0 /\ down[k] = <<>>
      /\ \A c \in Client : socket[c] = None
  BY DEF HubInit
<1>6. NobodyAhead
  BY <1>5, BoundAssumption DEF HubInit, Init, NobodyAhead
<1>7. SocketsAreOwned /\ WireInv
  BY <1>5, NoneAssumption
  DEF SocketsAreOwned, WireInv, WireHasNoGap, SubscriptionsSent, RequestsFromThePast, WantedIsAskedFor
<1> QED BY <1>1, <1>2, <1>3, <1>4, <1>6, <1>7 DEF HubInv

LEMMA StepHubInv ==
  ASSUME ~PowerLoss, HubInv, [HubNext]_hubVars
  PROVE  HubInv'
<1>1. RouterInv'
  BY HubStepIsARouterStep, StepInv DEF HubInv
<1>2. CASE Emit \/ Dispatch
  BY <1>1, <1>2, EmitKeepsInv
<1>3. CASE \E s \in Subs : CallBack(s)
  BY <1>1, <1>3, CallBackKeepsInv
<1>4. CASE \E k \in Conn : HandleSubscribe(k)
  BY <1>1, <1>4, HandleSubscribeKeepsInv
<1>5. CASE \E k \in Conn : SubscribeToRouter(k)
  BY <1>1, <1>5, SubscribeToRouterKeepsInv
<1>6. CASE \E k \in Conn : SubscribeReturns(k)
  BY <1>1, <1>6, SubscribeReturnsKeepsInv
<1>7. CASE \E k \in Conn : Send(k)
  BY <1>1, <1>7, SendKeepsInv
<1>8. CASE \E k \in Conn : DropSlow(k)
  BY <1>1, <1>8, DropSlowKeepsInv
<1>9. CASE \E k \in Conn : HubClose(k) \/ HubError(k)
  BY <1>1, <1>9, TearDownKeepsInv
<1>10. CASE DaemonCrash
  BY <1>1, <1>10, DaemonCrashKeepsInv
<1>11. CASE \E c \in Client, k \in Conn : Connect(c, k)
  BY <1>1, <1>11, ConnectKeepsInv
<1>12. CASE \E c \in Client, st \in Viewed : ClientSubscribe(c, st)
  BY <1>1, <1>12, ClientSubscribeKeepsInv
<1>13. CASE \E c \in Client : ClientReceive(c)
  BY <1>1, <1>13, ClientReceiveKeepsInv
<1>14. CASE \E c \in Client : ClientClose(c) \/ ClientLoses(c) \/ Reload(c)
  BY <1>1, <1>14, DisconnectKeepsInv
<1>15. CASE UNCHANGED hubVars
  <2>1. /\ UNCHANGED <<head, assigned, batch, isDispatching, replays, running, sub>>
        /\ UNCHANGED <<conn, handling, calling, up, down, socket, wanted, lastSeq, faults>>
    BY <1>15 DEF hubVars, vars, store, drain, hub, wire, page
  <2>2. HubTypeOK'
    BY <1>1, <2>1 DEF HubInv, HubTypeOK, RouterInv
  <2>3. CallsNest' /\ CallerIsKnown' /\ NoSubscriptionLeaks' /\ SubscriptionsAreNamed'
    BY <2>1 DEF HubInv, CallsNest, CallerIsKnown, NoSubscriptionLeaks, SubscriptionsAreNamed
  <2>4. NobodyAhead' /\ SocketsAreOwned'
    BY <2>1 DEF HubInv, NobodyAhead, SocketsAreOwned, Held
  <2>5. WireInv'
    BY <2>1 DEF HubInv, WireInv, WireHasNoGap, SubscriptionsSent, SentThrough, Sending,
                RequestsFromThePast, WantedIsAskedFor
  <2>6. (\A c \in Client : IsFiniteSet(wanted[c]))'
    BY <2>1 DEF HubInv
  <2> QED BY <1>1, <2>2, <2>3, <2>4, <2>5, <2>6 DEF HubInv
<1> QED
  BY <1>2, <1>3, <1>4, <1>5, <1>6, <1>7, <1>8, <1>9, <1>10, <1>11, <1>12, <1>13, <1>14, <1>15
  DEF HubNext, Daemon, Page

\* The strengthening holds of every behaviour without a loss of power.
THEOREM HubInvariant ==
  ASSUME ~PowerLoss
  PROVE  HubSpec => []HubInv
<1>1. HubInit => HubInv
  BY InitHubInv
<1>2. HubInv /\ [HubNext]_hubVars => HubInv'
  BY StepHubInv
<1> QED BY <1>1, <1>2, PTL DEF HubSpec

\* Every variable of the hub, the sockets and the page keeps its type.
THEOREM HubTypesCorrect ==
  ASSUME ~PowerLoss
  PROVE  HubSpec => []HubTypeOK
<1>1. HubInv => HubTypeOK
  BY DEF HubInv
<1> QED BY <1>1, HubInvariant, PTL

\* The router calls nobody for a connection the hub has torn down.
THEOREM GoneConnectionsAreNotCalled ==
  ASSUME ~PowerLoss
  PROVE  HubSpec => []NoSubscriptionLeaks
<1>1. HubInv => NoSubscriptionLeaks
  BY DEF HubInv
<1> QED BY <1>1, HubInvariant, PTL

\* A connected page with nothing on the wire has all of what it asked for.
THEOREM QuietPagesAreCurrent ==
  ASSUME ~PowerLoss
  PROVE  HubSpec => []QuietMeansCurrent
<1>1. HubInv => QuietMeansCurrent
  <2> SUFFICES ASSUME HubInv, NEW c \in Client, NEW k, k = socket[c],
                      k # None, conn[k] = "open", up[k] = <<>>, down[k] = <<>>, Idle,
                      NEW st \in wanted[c]
               PROVE  lastSeq[c][st] = head[st]
    BY DEF QuietMeansCurrent
  <2>1. k \in Conn /\ st \in Streams /\ TypeOK /\ RouterInv /\ <<k, st>> \in Subs
    BY SubsArePairs DEF HubInv, HubTypeOK
  <2>2. Len(up[k]) = 0 /\ Len(down[k]) = 0
    OBVIOUS
  <2>3. sub[<<k, st>>] # Unused
    BY <2>1, <2>2 DEF HubInv, WireInv, WantedIsAskedFor
  <2>4. <<k, st>> \in Registered /\ ~running
    BY <2>1, <2>3, IdleMeansIdle
  <2>5. sub[<<k, st>>].at = head[st]
    <3>1. sub[<<k, st>>].stream = st
      BY <2>1, <2>3 DEF HubInv, SubscriptionsAreNamed
    <3>2. CaughtUp
      BY <2>1, NothingIsOwedAtRest
    <3> QED BY <2>4, <3>1, <3>2 DEF CaughtUp, Idle
  <2>6. Brings(lastSeq[c][st], down[k], 0, st, head[st])
    <3>1. SentThrough(<<k, st>>) = head[st]
      BY <2>4, <2>5 DEF SentThrough, Sending
    <3> QED BY <2>1, <2>2, <2>3, <3>1 DEF HubInv, WireInv, SubscriptionsSent
  <2>7. head[st] <= lastSeq[c][st] /\ lastSeq[c][st] <= head[st]
    BY <2>1, <2>6 DEF Brings, HubInv, NobodyAhead
  <2>8. head[st] \in Nat /\ lastSeq[c][st] \in Nat
    BY <2>1, BoundAssumption DEF HubInv, HubTypeOK, TypeOK
  <2> QED BY <2>7, <2>8
<1> QED BY <1>1, HubInvariant, PTL

\* From the store to the page: whatever becomes of the sockets and of the
\* daemon, a page is given the next event of a stream it reads, or nothing.
THEOREM PagesReadTheirStreams ==
  ASSUME ~PowerLoss
  PROVE  HubSpec => PageReadsTheStream
<1> DEFINE Readers == Client \X Streams
           At(r) == IF r[2] \in wanted[r[1]] THEN [stream |-> r[2], at |-> lastSeq[r[1]][r[2]]]
                                            ELSE [stream |-> "none", at |-> 0]
<1>1. HubInit => EndToEnd!Init
  BY DEF HubInit, Init, EndToEnd!Init, EndToEnd!NoPosition, Reading
<1>2. ASSUME HubInv, [HubNext]_hubVars
      PROVE  [EndToEnd!Next]_<<head, Reading>>
  <2> USE DEF EndToEnd!NoPosition
  <2>1. /\ TypeOK /\ HubTypeOK /\ NobodyAhead
        /\ head \in [Streams -> Nat] /\ assigned \in [Streams -> Nat]
        /\ \A st \in Streams : assigned[st] >= head[st]
    BY <1>2 DEF HubInv, RouterInv, TypeOK, BatchContinuesLog
  <2>2. ASSUME UNCHANGED <<wanted, lastSeq>>
        PROVE  UNCHANGED Reading
    BY <2>2 DEF Reading
  <2>3. CASE Emit \/ Dispatch
    <3>1. UNCHANGED Reading
      BY <2>2, <2>3 DEF Emit, Dispatch, page
    <3>2. CASE Commit
      <4>1. EndToEnd!Commit
        BY <2>1, <3>1, <3>2 DEF Commit, EndToEnd!Commit
      <4> QED BY <4>1 DEF EndToEnd!Next
    <3>3. CASE ~Commit
      <4>1. UNCHANGED head
        BY <2>3, <3>3 DEF Emit, Dispatch, Insert, Rollback, TakeNext, DrainDone, Skip, store
      <4> QED BY <3>1, <4>1
    <3> QED BY <3>2, <3>3
  <2>4. CASE \/ \E s \in Subs : CallBack(s)
             \/ \E k \in Conn : \/ HandleSubscribe(k) \/ SubscribeToRouter(k) \/ SubscribeReturns(k)
                               \/ Send(k) \/ DropSlow(k) \/ HubClose(k) \/ HubError(k)
    <3>1. UNCHANGED page
      BY <2>4 DEF CallBack, HandleSubscribe, SubscribeToRouter, SubscribeReturns, Send, DropSlow,
                  HubClose, HubError, TearDown, wire
    <3>2. UNCHANGED head
      BY <2>4 DEF CallBack, Replay, Deliver, HandleSubscribe, SubscribeToRouter, Subscribe,
                  SubscribeReturns, Register, Send, Return, DropSlow, Unsubscribe,
                  HubClose, HubError, TearDown, store
    <3> QED BY <2>2, <3>1, <3>2 DEF page
  <2>5. CASE DaemonCrash
    BY <2>2, <2>5 DEF DaemonCrash, Survivors, Crash, page
  <2>6. CASE \/ \E c \in Client, k \in Conn : Connect(c, k)
             \/ \E c \in Client : ClientClose(c) \/ ClientLoses(c)
             \/ UNCHANGED hubVars
    BY <2>2, <2>6 DEF Connect, ClientClose, ClientLoses, Disconnect, hubVars, vars, store, page
  <2>7. ASSUME NEW c \in Client, NEW st \in Viewed, ClientSubscribe(c, st)
        PROVE  [EndToEnd!Next]_<<head, Reading>>
    <3>1. /\ UNCHANGED <<head, lastSeq>> /\ wanted' = [wanted EXCEPT ![c] = @ \cup {st}]
          /\ st \in Streams
      BY <2>7, ViewedAssumption DEF ClientSubscribe, vars, store
    <3>2. CASE st \in wanted[c]
      <4>1. wanted' = wanted
        BY <2>1, <3>1, <3>2 DEF HubTypeOK
      <4> QED BY <2>2, <3>1, <4>1
    <3>3. CASE st \notin wanted[c]
      <4>1. \A d \in Client, other \in Streams :
              other \in wanted'[d] <=> (other \in wanted[d] \/ (d = c /\ other = st))
        BY <2>1, <3>1 DEF HubTypeOK
      <4>2. ASSUME NEW r \in Readers
            PROVE  Reading'[r] = IF r = <<c, st>> THEN [stream |-> st, at |-> lastSeq[c][st]]
                                                 ELSE Reading[r]
        <5>1. /\ r[1] \in Client /\ r[2] \in Streams
              /\ r = <<c, st>> <=> (r[1] = c /\ r[2] = st)
          OBVIOUS
        <5>2. r[2] \in wanted'[r[1]] <=> (r[2] \in wanted[r[1]] \/ r = <<c, st>>)
          BY <4>1, <5>1
        <5>3. /\ Reading[r] = At(r)
              /\ Reading'[r] = IF r[2] \in wanted'[r[1]] THEN [stream |-> r[2], at |-> lastSeq[r[1]][r[2]]]
                                                        ELSE [stream |-> "none", at |-> 0]
          BY <3>1 DEF Reading
        <5> QED BY <5>1, <5>2, <5>3
      <4>3. Reading' = [Reading EXCEPT ![<<c, st>>] = [stream |-> st, at |-> lastSeq[c][st]]]
        BY <4>2 DEF Reading
      <4>4. Reading[<<c, st>>] = [stream |-> "none", at |-> 0] /\ <<c, st>> \in Readers
        BY <3>1, <3>3 DEF Reading
      <4>5. lastSeq[c][st] <= head[st] /\ lastSeq[c][st] \in 0 .. head[st]
        BY <2>1, <3>1 DEF HubTypeOK, NobodyAhead
      <4>6. EndToEnd!Join(<<c, st>>, st, lastSeq[c][st])
        BY <3>1, <4>3, <4>4, <4>5 DEF EndToEnd!Join
      <4> QED BY <3>1, <4>4, <4>5, <4>6 DEF EndToEnd!Next
    <3> QED BY <3>2, <3>3
  <2>8. ASSUME NEW c \in Client, ClientReceive(c)
        PROVE  [EndToEnd!Next]_<<head, Reading>>
    <3> DEFINE e == down[socket[c]][1]
    <3>1. UNCHANGED <<head, wanted>>
      BY <2>8 DEF ClientReceive, vars, store
    <3>2. /\ e.stream \in wanted[c] /\ e.stream \in Streams
          /\ e.seq \in Nat /\ e.seq <= lastSeq[c][e.stream] + 1 /\ e.seq <= head[e.stream]
          /\ lastSeq' = IF IsNew(c, e) THEN [lastSeq EXCEPT ![c][e.stream] = e.seq] ELSE lastSeq
      BY <1>2, <2>8, ReadsTheNext
    <3>3. CASE ~IsNew(c, e)
      BY <2>2, <3>1, <3>2, <3>3
    <3>4. CASE IsNew(c, e)
      <4>1. lastSeq[c][e.stream] \in Nat
        BY <2>1, <3>2, BoundAssumption DEF HubTypeOK
      <4>2. e.seq = lastSeq[c][e.stream] + 1
        BY <3>2, <3>4, <4>1 DEF IsNew
      <4>3. \A d \in Client, other \in Streams :
              lastSeq'[d][other] = IF d = c /\ other = e.stream THEN e.seq ELSE lastSeq[d][other]
        BY <2>1, <3>2, <3>4 DEF HubTypeOK
      <4>4. ASSUME NEW r \in Readers
            PROVE  Reading'[r] = IF r = <<c, e.stream>> THEN [stream |-> e.stream, at |-> e.seq]
                                                       ELSE Reading[r]
        <5>1. /\ r[1] \in Client /\ r[2] \in Streams
              /\ r = <<c, e.stream>> <=> (r[1] = c /\ r[2] = e.stream)
          OBVIOUS
        <5>2. lastSeq'[r[1]][r[2]] = IF r = <<c, e.stream>> THEN e.seq ELSE lastSeq[r[1]][r[2]]
          BY <4>3, <5>1
        <5>3. /\ Reading[r] = At(r)
              /\ Reading'[r] = IF r[2] \in wanted[r[1]] THEN [stream |-> r[2], at |-> lastSeq'[r[1]][r[2]]]
                                                       ELSE [stream |-> "none", at |-> 0]
          BY <3>1 DEF Reading
        <5> QED BY <3>2, <5>1, <5>2, <5>3
      <4>5. <<c, e.stream>> \in Readers
            /\ Reading[<<c, e.stream>>] = [stream |-> e.stream, at |-> lastSeq[c][e.stream]]
        BY <3>2 DEF Reading
      <4>6. [Reading[<<c, e.stream>>] EXCEPT !.at = @ + 1] = [stream |-> e.stream, at |-> e.seq]
        BY <4>2, <4>5
      <4>7. Reading' = [Reading EXCEPT ![<<c, e.stream>>] = [stream |-> e.stream, at |-> e.seq]]
        BY <4>4 DEF Reading
      <4>8. Reading' = [Reading EXCEPT ![<<c, e.stream>>].at = @ + 1]
        BY <4>6, <4>7
      <4>9. /\ Reading[<<c, e.stream>>] # [stream |-> "none", at |-> 0]
            /\ Reading[<<c, e.stream>>].at < head[Reading[<<c, e.stream>>].stream]
        <5>1. lastSeq[c][e.stream] < head[e.stream]
          BY <2>1, <3>2, <4>1, <4>2
        <5>2. e.stream # "none"
          BY <3>2, StreamAssumption
        <5> QED BY <4>5, <5>1, <5>2
      <4>10. EndToEnd!Advance(<<c, e.stream>>)
        BY <3>1, <4>8, <4>9 DEF EndToEnd!Advance
      <4> QED BY <4>5, <4>10 DEF EndToEnd!Next
    <3> QED BY <3>3, <3>4
  <2>9. ASSUME NEW c \in Client, Reload(c)
        PROVE  EndToEnd!Next
    <3> DEFINE leaving == {r \in Readers : r[1] = c}
    <3>1. /\ UNCHANGED head
          /\ wanted' = [wanted EXCEPT ![c] = {}]
          /\ lastSeq' = [lastSeq EXCEPT ![c] = [st \in Streams |-> 0]]
      BY <2>9 DEF Reload, Disconnect, vars, store
    <3>2. /\ wanted'[c] = {}
          /\ \A d \in Client : d # c => wanted'[d] = wanted[d] /\ lastSeq'[d] = lastSeq[d]
      BY <2>1, <3>1 DEF HubTypeOK
    <3>3. ASSUME NEW r \in Readers
          PROVE  Reading'[r] = IF r \in leaving THEN [stream |-> "none", at |-> 0] ELSE Reading[r]
      BY <3>2 DEF Reading
    <3>4. Reading' = [r \in Readers |-> IF r \in leaving THEN [stream |-> "none", at |-> 0] ELSE Reading[r]]
      BY <3>3 DEF Reading
    <3>5. EndToEnd!Leave(leaving)
      BY <3>1, <3>4 DEF EndToEnd!Leave
    <3> QED BY <3>5 DEF EndToEnd!Next
  <2> QED
    BY <1>2, <2>3, <2>4, <2>5, <2>6, <2>7, <2>8, <2>9 DEF HubNext, Daemon, Page
<1> QED BY <1>1, <1>2, HubInvariant, PTL DEF HubSpec, PageReadsTheStream, EndToEnd!Spec
================================================================================
