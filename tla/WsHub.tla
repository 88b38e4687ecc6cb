-------------------------------- MODULE WsHub --------------------------------
(***************************************************************************)
(* Events on their way to a browser: the socket hub (daemon/src/wsHub.ts), *)
(* whose subscriptions to the router are one per connection and stream,    *)
(* and the store of the page at the other end                              *)
(* (ui/src/stores/vimesStore.ts), which keeps the last seq it has of each  *)
(* stream and subscribes from there whenever a socket opens.               *)
(*                                                                         *)
(* A socket is a FIFO in each direction.  It may be lost at either end at  *)
(* any time with what it carries; the ends notice on their own.  Frames    *)
(* other than subscribe and event are left out, and so is the unsubscribe  *)
(* operation of the hub, which the page never sends.                       *)
(***************************************************************************)
EXTENDS EventRouter, SequencesExt

CONSTANTS
  Client, Conn,
  Viewed,            \* the streams some view of the page shows
  None,
  MaxInFlight,       \* bound on the frames a socket holds
  MaxRequests,       \* bound on the subscribe messages it holds
  MaxFaults,         \* bound on lost sockets, crashes and reloads
  PowerLoss          \* a crash is one of the machine, not of the daemon only

ASSUME SubsAssumption == Subs = Conn \X Streams
ASSUME ViewedAssumption == Viewed \subseteq Streams
ASSUME NoneAssumption == None \notin Conn \cup Subs
ASSUME BoundsAssumption == {MaxInFlight, MaxRequests, MaxFaults} \subseteq Nat
ASSUME PowerLossAssumption == PowerLoss \in BOOLEAN

VARIABLES
  conn,      \* server: "open", "closed" by the hub, or "free" once torn down
  handling,  \* server: the connection whose subscribe message is being handled
  calling,   \* server: the subscription whose callback was called last
  up,        \* subscribe messages on their way to the hub
  down,      \* events on their way to the page
  socket,    \* page: its socket, or None
  wanted,    \* page: subscribedStreams
  lastSeq,   \* page: streamsByAppSessionId[stream].lastSeq
  faults     \* how many faults there have been

hub    == <<conn, handling, calling>>
wire   == <<up, down>>
page   == <<socket, wanted, lastSeq>>
hubVars == <<vars, hub, wire, page, faults>>

--------------------------------------------------------------------------------
Request  == [stream : Streams, lastSeq : 0..MaxSeq]
Envelope == [stream : Streams, seq : 1..MaxSeq]

HubTypeOK ==
  /\ TypeOK
  /\ conn \in [Conn -> {"free", "open", "closed"}]
  /\ handling \in Conn \cup {None}
  /\ calling \in Subs \cup {None}
  /\ up \in [Conn -> Seq(Request)]
  /\ down \in [Conn -> Seq(Envelope)]
  /\ socket \in [Client -> Conn \cup {None}]
  /\ wanted \in [Client -> SUBSET Streams]
  /\ lastSeq \in [Client -> [Streams -> 0..MaxSeq]]
  /\ faults \in 0..MaxFaults

Held(k) == \E c \in Client : socket[c] = k
Of(k)   == {s \in Registered : s[1] = k}

(* The daemon has nothing on its stack: the next task of its event loop    *)
(* may begin.                                                              *)
Idle == NoCall /\ handling = None

HubInit ==
  /\ Init
  /\ conn = [k \in Conn |-> "free"]
  /\ handling = None /\ calling = None
  /\ up = [k \in Conn |-> <<>>]
  /\ down = [k \in Conn |-> <<>>]
  /\ socket = [c \in Client |-> None]
  /\ wanted = [c \in Client |-> {}]
  /\ lastSeq = [c \in Client |-> [st \in Streams |-> 0]]
  /\ faults = 0

--------------------------------------------------------------------------------
(* THE DAEMON *)

(* The rest of the daemon emits. *)
Emit ==
  /\ \/ (Idle \/ batch # <<>>) /\ \E st \in Streams : Insert(st)
     \/ Commit \/ Rollback
  /\ UNCHANGED <<hub, wire, page, faults>>

Dispatch ==
  /\ TakeNext \/ DrainDone \/ \E s \in Subs : Skip(s)
  /\ UNCHANGED <<hub, wire, page, faults>>

(* handleSubscribe: an earlier subscription of the connection to the       *)
(* stream is ended, whatever it had delivered, and a new one is made.      *)
HandleSubscribe(k) ==
  /\ Idle /\ conn[k] # "free" /\ up[k] # <<>>
  /\ handling' = k
  /\ Unsubscribe({<<k, Head(up[k]).stream>>} \cap Registered)
  /\ UNCHANGED <<conn, calling, wire, page, faults>>

SubscribeToRouter(k) ==
  /\ handling = k /\ replays = <<>>
  /\ Subscribe(<<k, Head(up[k]).stream>>, Head(up[k]).stream, Head(up[k]).lastSeq)
  /\ up' = [up EXCEPT ![k] = Tail(@)]
  /\ UNCHANGED <<hub, down, page, faults>>

SubscribeReturns(k) ==
  /\ handling = k
  /\ \E st \in Streams : Register(<<k, st>>)
  /\ handling' = None
  /\ UNCHANGED <<conn, calling, wire, page, faults>>

CallBack(s) ==
  /\ Replay(s) \/ Deliver(s)
  /\ calling' = s
  /\ UNCHANGED <<conn, handling, wire, page, faults>>

(* The frame a callback is about to send. *)
Frame_FromZero == [stream |-> calling[2], seq |-> sub[calling].at - 1]  \* mutant
Frame == [stream |-> calling[2], seq |-> sub[calling].at]

(* The socket's buffer is over the limit: only possible with a frame in it *)
(* that was not received yet.                                              *)
OverLimit_AtLimit(k) == TRUE  \* mutant: a limit reached by an empty buffer
OverLimit(k) == Held(k) => down[k] # <<>>

(* sendEvent, the callback of every subscription.  Nothing is sent on a    *)
(* connection already closed; nothing arrives on one the page has left.    *)
Send(k) ==
  /\ running /\ calling[1] = k
  /\ IF conn[k] = "open" /\ Held(k)
     THEN /\ Len(down[k]) < MaxInFlight
          /\ down' = [down EXCEPT ![k] = Append(@, Frame)]
     ELSE UNCHANGED down
  /\ Return
  /\ UNCHANGED <<hub, up, page, faults>>

(* tearDownSubscriptions ends every subscription of the connection. *)
TornDown_UnlessClosed(k) == IF conn[k] = "closed" THEN {} ELSE Of(k)  \* mutant
TornDown(k) == Of(k)

(* sendEvent on a socket over the limit: the subscriptions of the          *)
(* connection are ended, save one still being replayed to, and the socket  *)
(* is closed.                                                              *)
DropSlow_FrameOnly(k) ==  \* mutant: the frame is dropped, the socket kept
  /\ running /\ calling[1] = k
  /\ conn[k] = "open" /\ OverLimit(k)
  /\ Return
  /\ UNCHANGED <<hub, wire, page, faults>>
DropSlow(k) ==
  /\ running /\ calling[1] = k
  /\ conn[k] = "open" /\ OverLimit(k)
  /\ Unsubscribe(TornDown(k))
  /\ conn' = [conn EXCEPT ![k] = "closed"]
  /\ UNCHANGED <<handling, calling, wire, page, faults>>

(* tearDown, on the close or the error event of a socket. *)
TearDown(k) ==
  /\ Idle
  /\ Unsubscribe(TornDown(k))
  /\ conn' = [conn EXCEPT ![k] = "free"]
  /\ up' = [up EXCEPT ![k] = <<>>]
  /\ UNCHANGED <<handling, calling, down, page>>

HubClose(k)  == conn[k] # "free" /\ ~Held(k) /\ TearDown(k) /\ UNCHANGED faults
HubError(k)  == conn[k] # "free" /\ faults < MaxFaults /\ TearDown(k) /\ faults' = faults + 1

(* The daemon, or the machine, dies at any point and is started again.  A  *)
(* commit survives the former; journal_mode = WAL with synchronous =       *)
(* NORMAL lets the latter lose the last ones.                              *)
Survivors ==
  IF PowerLoss THEN {h \in [Streams -> 0..MaxSeq] : \A st \in Streams : h[st] <= head[st]}
               ELSE {head}

DaemonCrash ==
  /\ faults < MaxFaults /\ faults' = faults + 1
  /\ \E survivors \in Survivors : Crash(survivors)
  /\ conn' = [k \in Conn |-> "free"]
  /\ handling' = None /\ calling' = None
  /\ up' = [k \in Conn |-> <<>>]
  /\ UNCHANGED <<down, page>>

--------------------------------------------------------------------------------
(* THE PAGE *)

RequestFor(c, st) == [stream |-> st, lastSeq |-> lastSeq[c][st]]

(* A socket opens: each subscribed stream is asked for again, in any order.*)
Connect(c, k) ==
  /\ socket[c] = None /\ conn[k] = "free" /\ ~Held(k)
  /\ socket' = [socket EXCEPT ![c] = k]
  /\ conn' = [conn EXCEPT ![k] = "open"]
  /\ \E streams \in SetToSeqs(wanted[c]) :
       up' = [up EXCEPT ![k] = [i \in DOMAIN streams |-> RequestFor(c, streams[i])]]
  /\ UNCHANGED <<vars, handling, calling, down, wanted, lastSeq, faults>>

(* subscribe: a view asks for a stream, maybe one already subscribed to.   *)
(* Without a socket the message is not sent, and the next one sends it.    *)
ClientSubscribe(c, st) ==
  /\ wanted' = [wanted EXCEPT ![c] = @ \cup {st}]
  /\ IF socket[c] # None /\ conn[socket[c]] # "free"
     THEN /\ Len(up[socket[c]]) < MaxRequests
          /\ up' = [up EXCEPT ![socket[c]] = Append(@, RequestFor(c, st))]
     ELSE st \notin wanted[c] /\ UNCHANGED up
  /\ UNCHANGED <<vars, hub, down, socket, lastSeq, faults>>

(* applyServerEnvelope on an event, which drops what it has seen already.  *)
IsNew_Always(c, e) == TRUE  \* mutant: no defensive dedupe
IsNew(c, e) == e.seq > lastSeq[c][e.stream]
ClientReceive(c) ==
  /\ socket[c] # None /\ down[socket[c]] # <<>>
  /\ LET e == Head(down[socket[c]])
     IN  lastSeq' = IF IsNew(c, e) THEN [lastSeq EXCEPT ![c][e.stream] = e.seq] ELSE lastSeq
  /\ down' = [down EXCEPT ![socket[c]] = Tail(@)]
  /\ UNCHANGED <<vars, hub, up, socket, wanted, faults>>

Disconnect(c) ==
  /\ socket' = [socket EXCEPT ![c] = None]
  /\ down' = [down EXCEPT ![socket[c]] = <<>>]
  /\ UNCHANGED <<vars, hub, up>>

(* The close event of the page's socket.  A socket the hub closed delivers *)
(* what was sent before; one that broke need not.                          *)
ClientClose(c) ==
  /\ socket[c] # None
  /\ \/ conn[socket[c]] = "closed" /\ down[socket[c]] = <<>>
     \/ conn[socket[c]] = "free"
  /\ Disconnect(c)
  /\ UNCHANGED <<wanted, lastSeq, faults>>

ClientLoses(c) ==
  /\ socket[c] # None /\ faults < MaxFaults
  /\ Disconnect(c)
  /\ faults' = faults + 1
  /\ UNCHANGED <<wanted, lastSeq>>

(* The page is loaded again and has nothing. *)
Reload(c) ==
  /\ socket[c] # None /\ faults < MaxFaults
  /\ Disconnect(c)
  /\ wanted' = [wanted EXCEPT ![c] = {}]
  /\ lastSeq' = [lastSeq EXCEPT ![c] = [st \in Streams |-> 0]]
  /\ faults' = faults + 1

--------------------------------------------------------------------------------
Daemon ==
  \/ Emit
  \/ Dispatch
  \/ \E s \in Subs : CallBack(s)
  \/ \E k \in Conn :
       \/ HandleSubscribe(k)
       \/ SubscribeToRouter(k)
       \/ SubscribeReturns(k)
       \/ Send(k)
       \/ DropSlow(k)
       \/ HubClose(k)
       \/ HubError(k)
  \/ DaemonCrash

Page(c) ==
  \/ \E k \in Conn : Connect(c, k)
  \/ \E st \in Viewed : ClientSubscribe(c, st)
  \/ ClientReceive(c)
  \/ ClientClose(c)
  \/ ClientLoses(c)
  \/ Reload(c)

HubNext == Daemon \/ \E c \in Client : Page(c)

HubSpec == HubInit /\ [][HubNext]_hubVars

(* Synchronous code returns; the event loop gets to every message and      *)
(* every closed socket; a page reads its socket, hears that it closed and  *)
(* tries again (the reconnection timer).  Faults, emits and the wishes of  *)
(* a page are not fair.                                                    *)
Fairness ==
  /\ WF_hubVars((Emit /\ batch' = <<>>) \/ Dispatch \/ \E s \in Subs : CallBack(s))
  /\ \A k \in Conn :
       /\ WF_hubVars(SubscribeToRouter(k) \/ SubscribeReturns(k) \/ Send(k) \/ DropSlow(k))
       /\ SF_hubVars(HandleSubscribe(k))
       /\ SF_hubVars(HubClose(k))
  /\ \A c \in Client :
       /\ WF_hubVars(ClientReceive(c))
       /\ WF_hubVars(ClientClose(c))
       /\ WF_hubVars(\E k \in Conn : Connect(c, k))

HubFairSpec == HubSpec /\ Fairness

--------------------------------------------------------------------------------
(* PROPERTIES *)

(* From the store to the page, over dropped and repeated subscriptions,    *)
(* sockets closed in the middle of a replay and crashes of the daemon, a   *)
(* page gets each stream event by event: no gap and no event twice,        *)
(* although it accepts any seq above its last (I2).                        *)
Reading == [r \in Client \X Streams |->
  IF r[2] \in wanted[r[1]] THEN [stream |-> r[2], at |-> lastSeq[r[1]][r[2]]]
                           ELSE [stream |-> "none", at |-> 0]]
EndToEnd == INSTANCE StreamDelivery WITH
  Readers <- Client \X Streams, position <- Reading
PageReadsTheStream == EndToEnd!Spec

(* A page that is connected, with nothing on the wire and nothing being    *)
(* handled, has all of each stream it asked for.                           *)
QuietMeansCurrent ==
  \A c \in Client :
    LET k == socket[c] IN
    (k # None /\ conn[k] = "open" /\ up[k] = <<>> /\ down[k] = <<>> /\ Idle)
      => \A st \in wanted[c] : lastSeq[c][st] = head[st]

(* The router calls nobody for a connection that is gone: also not when    *)
(* backpressure closed it in the middle of the replay that registers the   *)
(* subscription afterwards, nor when it was closed before a subscribe      *)
(* already on the wire was handled.                                        *)
NoSubscriptionLeaks ==
  \A k \in Conn : conn[k] = "free" => \A st \in Streams : sub[<<k, st>>] = Unused

(* Once faults and emits cease every page catches up, however often        *)
(* backpressure closes its socket: each socket carries at least one event  *)
(* before it can be over the limit.                                        *)
EventuallyCurrent ==
  <>[](\A c \in Client : \A st \in wanted[c] : lastSeq[c][st] = head[st])
================================================================================
