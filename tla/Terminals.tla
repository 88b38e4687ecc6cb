------------------------------- MODULE Terminals -------------------------------
(***************************************************************************)
(* Raw shells on their way to a browser: the host of the shells            *)
(* (daemon/src/terminalHost.ts), which outlive every connection; the       *)
(* terminal operations of the socket hub (daemon/src/wsHub.ts), which give *)
(* each shell a one-byte tag per connection; and the one terminal of the   *)
(* page (ui/src/stores/vimesStore.ts), which keeps the offset it has       *)
(* consumed and subscribes from there when its socket opens again.         *)
(*                                                                         *)
(* A socket is a FIFO in each direction, lost at any time with what it     *)
(* carries; the hub tears a lost connection down on its own.  Refusals,    *)
(* which leave the page's terminal as it is, and sizes are left out.       *)
(***************************************************************************)
EXTENDS RingBuffer

CONSTANTS
  Shell,
  None,
  LastTag,    \* the largest tag, 255
  MaxTotal,   \* bound on the bytes a shell puts out
  Chunk,      \* how many bytes it may put out at once
  MaxAsks,    \* bound on the subscribers made
  MaxQueue,   \* bound on the page's messages in flight
  MaxConn     \* bound on connections

ASSUME NoneAssumption == None \notin Shell /\ None \notin Nat
ASSUME ChunkAssumption == Chunk \subseteq Nat \ {0}
ASSUME LimitsAssumption ==
  {LastTag, MaxTotal, MaxAsks, MaxQueue} \subseteq Nat /\ MaxConn \in Nat \ {0}

VARIABLES
  shell,    \* TerminalHost.terminals
  tags,     \* terminalByTag of each connection, and tagByTerminalId, its inverse
  nextTag,  \* nextTerminalTag of each connection
  conn,     \* the newest connection
  up,       \* its socket is open
  toHub, toPage,  \* messages in flight on it
  view,     \* the page's terminal
  asks      \* subscribers made so far

vars == <<shell, tags, nextTag, conn, up, toHub, toPage, view, asks>>

--------------------------------------------------------------------------------
Conn == 1..MaxConn
Tag  == 0..LastTag
Ask  == 1..MaxAsks

(* A TerminalSubscriber object, the ask-th one made: its connection and    *)
(* tag; what it was told, first its replay and then every output; and the  *)
(* offset it came with, the output there was when it came.                 *)
Subscriber == [ask : Ask, conn : Conn, tag : Tag, heard : Seq(Nat), lost : BOOLEAN,
               from : Nat, at : Nat]

Unborn == [state |-> "unborn", ring |-> Empty, subscribers |-> {}, resilient |-> FALSE]

ToHub ==
  [op : {"open"}]
  \cup [op : {"subscribe"}, shell : Shell, offset : Nat]
  \cup [op : {"close"}, shell : Shell]
  \cup [op : {"set_resilient"}, shell : Shell, resilient : BOOLEAN]
  \cup [op : {"input"}, tag : Tag, meant : Shell \cup {None}]

(* The shell of a bytes frame is not on the wire, only its tag is; nor is  *)
(* what an input frame is meant for.                                       *)
ToPage ==
  [op : {"subscribed"}, shell : Shell, tag : Tag]
  \cup [op : {"opened", "lost", "exit"}, shell : Shell]
  \cup [op : {"bytes"}, tag : Tag, shell : Shell, bytes : Seq(Nat)]

(* learnt and on: the shell the tag was announced for, on what connection. *)
View == [status : {"idle", "opening", "live", "exited"},
         id : Shell \cup {None}, tag : Tag \cup {None}, offset : Nat,
         learnt : Shell \cup {None}, on : Conn \cup {None}]

TypeOK ==
  /\ \A s \in Shell :
       /\ shell[s].state \in {"unborn", "alive", "gone"}
       /\ shell[s].ring \in Ring
       /\ shell[s].subscribers \subseteq Subscriber
       /\ shell[s].state # "alive" => shell[s].subscribers = {}
  /\ tags \in [Conn -> [Tag -> Shell \cup {None}]]
  /\ nextTag \in [Conn -> 0..LastTag + 1]
  /\ conn \in Conn /\ up \in BOOLEAN
  /\ toHub \in Seq(ToHub) /\ toPage \in Seq(ToPage)
  /\ view \in View
  /\ asks \in 0..MaxAsks

Blank == [status |-> "idle", id |-> None, tag |-> None, offset |-> 0,
          learnt |-> None, on |-> None]

Init ==
  /\ shell = [s \in Shell |-> Unborn]
  /\ tags = [c \in Conn |-> [k \in Tag |-> None]]
  /\ nextTag = [c \in Conn |-> 0]
  /\ conn = 1 /\ up = TRUE
  /\ toHub = <<>> /\ toPage = <<>>
  /\ view = Blank
  /\ asks = 0

--------------------------------------------------------------------------------
(* The hub and the host: one message, or one callback of a pty, at a time. *)

(* What a connection is sent arrives only while its socket is open.        *)
Send(messages) == toPage' = IF up THEN toPage \o messages ELSE toPage

OnThisSocket(s) == SetToSeq({u \in shell[s].subscribers : u.conn = conn})

Frames(s, bytes) ==
  LET here == OnThisSocket(s)
  IN  [i \in DOMAIN here |-> [op |-> "bytes", tag |-> here[i].tag, shell |-> s, bytes |-> bytes]]

Output(s) == \E n \in Chunk :
  LET total == shell[s].ring.total
      bytes == From(total, total + n)
  IN  /\ shell[s].state = "alive" /\ total + n <= MaxTotal
      /\ shell' = [shell EXCEPT ![s].ring = append(@, bytes),
                     ![s].subscribers = {[u EXCEPT !.heard = @ \o bytes] : u \in @}]
      /\ Send(Frames(s, bytes))
      /\ UNCHANGED <<tags, nextTag, conn, up, toHub, view, asks>>

(* The exit callback of a subscriber tells its connection and forgets the  *)
(* tag.                                                                    *)
onPtyExit(s) ==
  LET attached == {u.conn : u \in shell[s].subscribers}
  IN  /\ shell' = [shell EXCEPT ![s] = [Unborn EXCEPT !.state = "gone"]]
      /\ tags' = [c \in Conn |-> [k \in Tag |->
                    IF c \in attached /\ tags[c][k] = s THEN None ELSE tags[c][k]]]
      /\ Send([i \in DOMAIN OnThisSocket(s) |-> [op |-> "exit", shell |-> s]])

Exits(s) ==
  /\ shell[s].state = "alive" /\ onPtyExit(s)
  /\ UNCHANGED <<nextTag, conn, up, toHub, view, asks>>

(* Between any two steps the shell may have been idle for longer than the  *)
(* window: the clock is left out.                                          *)
reapIdle(s) ==
  /\ shell[s].state = "alive" /\ ~shell[s].resilient
  /\ onPtyExit(s)
  /\ UNCHANGED <<nextTag, conn, up, toHub, view, asks>>

(* A working directory outside the roots is refused.                       *)
TermOpen(m) == \E s \in Shell :
  /\ m.op = "open" /\ shell[s].state = "unborn"
  /\ \/ /\ shell' = [shell EXCEPT ![s].state = "alive"]
        /\ Send(<<[op |-> "opened", shell |-> s]>>)
     \/ UNCHANGED <<shell, toPage>>
  /\ UNCHANGED <<tags, nextTag, conn, up, view, asks>>

Tagged(s) == {k \in Tag : tags[conn][k] = s}

(* Mutant: a tag given back by an exit is given out again. *)
TagFor_LowestFree(s) ==
  LET free == {k \in Tag : tags[conn][k] = None} \cup {LastTag + 1}
  IN  IF Tagged(s) # {} THEN CHOOSE k \in Tagged(s) : TRUE
      ELSE CHOOSE k \in free : \A j \in free : k <= j

(* The tag the connection has for the shell, or the next one.              *)
TagFor(s) == IF Tagged(s) # {} THEN CHOOSE k \in Tagged(s) : TRUE ELSE nextTag[conn]

subscribe(s, offset, k) ==
  LET replay == replayFrom(shell[s].ring, offset)
      lost   == IF replay.lost THEN <<[op |-> "lost", shell |-> s]>> ELSE <<>>
      output == IF replay.bytes = <<>> THEN <<>>
                ELSE <<[op |-> "bytes", tag |-> k, shell |-> s, bytes |-> replay.bytes]>>
      done   == <<[op |-> "subscribed", shell |-> s, tag |-> k]>>
  IN  /\ shell' = [shell EXCEPT ![s].subscribers = @ \cup
                     {[ask |-> asks + 1, conn |-> conn, tag |-> k, heard |-> replay.bytes,
                       lost |-> replay.lost, from |-> offset, at |-> shell[s].ring.total]}]
      /\ tags' = [tags EXCEPT ![conn][k] = s]
      /\ asks' = asks + 1
      /\ Send(lost \o output \o done)

(* Mutant: one tag more than fits in a byte. *)
handleTermSubscribe_OffByOne(m) ==
  /\ m.op = "subscribe"
  /\ LET k == TagFor(m.shell)
     IN  IF k > LastTag + 1 THEN UNCHANGED <<shell, tags, nextTag, toPage, asks>>
         ELSE /\ nextTag' = [nextTag EXCEPT ![conn] = IF k = @ THEN @ + 1 ELSE @]
              /\ IF shell[m.shell].state = "alive" THEN subscribe(m.shell, m.offset, k)
                 ELSE UNCHANGED <<shell, tags, toPage, asks>>
  /\ UNCHANGED <<conn, up, view>>

(* The tag is taken before the host is asked.                              *)
handleTermSubscribe(m) ==
  /\ m.op = "subscribe"
  /\ LET k == TagFor(m.shell)
     IN  IF k > LastTag THEN UNCHANGED <<shell, tags, nextTag, toPage, asks>>
         ELSE /\ nextTag' = [nextTag EXCEPT ![conn] = IF k = @ THEN @ + 1 ELSE @]
              /\ IF shell[m.shell].state = "alive" THEN subscribe(m.shell, m.offset, k)
                 ELSE UNCHANGED <<shell, tags, toPage, asks>>
  /\ UNCHANGED <<conn, up, view>>

TermClose(m) ==
  /\ m.op = "close"
  /\ IF shell[m.shell].state = "alive" THEN onPtyExit(m.shell)
     ELSE UNCHANGED <<shell, tags, toPage>>
  /\ UNCHANGED <<nextTag, conn, up, view, asks>>

TermSetResilient(m) ==
  /\ m.op = "set_resilient"
  /\ shell' = IF shell[m.shell].state = "alive"
              THEN [shell EXCEPT ![m.shell].resilient = m.resilient] ELSE shell
  /\ UNCHANGED <<tags, nextTag, conn, up, toPage, view, asks>>

(* Input is written to the shell of its tag, and dropped when it has none. *)
handleBinaryFrame(m) ==
  /\ m.op = "input"
  /\ UNCHANGED <<shell, tags, nextTag, conn, up, toPage, view, asks>>

handleMessage ==
  /\ up /\ toHub # <<>> /\ toHub' = Tail(toHub)
  /\ LET m == Head(toHub)
     IN  TermOpen(m) \/ handleTermSubscribe(m) \/ TermClose(m) \/ TermSetResilient(m)
         \/ handleBinaryFrame(m)

(* A connection is torn down: the subscriber its tag map holds for a shell *)
(* is taken out of the host, which is the last one it made for it.         *)
detachAllTerminals(c) ==
  LET mine(s) == {u \in shell[s].subscribers : u.conn = c}
      held(s) == {u \in mine(s) : \E k \in Tag : tags[c][k] = s
                                  /\ \A v \in mine(s) : v.ask <= u.ask}
  IN  /\ (c # conn \/ ~up) /\ \E k \in Tag : tags[c][k] # None
      /\ shell' = [s \in Shell |-> [shell[s] EXCEPT !.subscribers = @ \ held(s)]]
      /\ tags' = [tags EXCEPT ![c] = [k \in Tag |-> None]]
      /\ UNCHANGED <<nextTag, conn, up, toHub, toPage, view, asks>>

(* The daemon stops, and all shells with it; another takes its place.      *)
closeAll ==
  /\ shell' = [s \in Shell |-> IF shell[s].state = "alive"
                               THEN [Unborn EXCEPT !.state = "gone"] ELSE shell[s]]
  /\ tags' = [c \in Conn |-> [k \in Tag |-> None]]
  /\ up' = FALSE /\ toHub' = <<>> /\ toPage' = <<>>
  /\ UNCHANGED <<nextTag, conn, view, asks>>

--------------------------------------------------------------------------------
(* The page.  What it sends with no socket open is dropped.                *)

Says(messages) == toHub' = IF up THEN toHub \o messages ELSE toHub

Acts == Len(toHub) < MaxQueue /\ UNCHANGED <<shell, tags, nextTag, conn, up, toPage, asks>>

(* The bound on subscribers leaves room for those already asked for.       *)
Room == asks + Cardinality({i \in DOMAIN toHub : toHub[i].op \in {"open", "subscribe"}})
             + Cardinality({i \in DOMAIN toPage : toPage[i].op = "opened"}) < MaxAsks

openTerminal ==
  /\ Acts /\ Room /\ \E s \in Shell : shell[s].state = "unborn"
  /\ view' = [Blank EXCEPT !.status = "opening"]
  /\ Says(<<[op |-> "open"]>>)

enterTerminal == \E s \in Shell :
  /\ Acts /\ Room /\ shell[s].state # "unborn"
  /\ view' = [Blank EXCEPT !.status = "opening", !.id = s]
  /\ Says(<<[op |-> "subscribe", shell |-> s, offset |-> 0]>>)

detachTerminal ==
  /\ Acts /\ view # Blank
  /\ view' = Blank
  /\ UNCHANGED toHub

killTerminal == \E s \in Shell :
  /\ Acts /\ shell[s].state # "unborn"
  /\ Says(<<[op |-> "close", shell |-> s]>>)
  /\ view' = IF view.id = s THEN Blank ELSE view

(* The checkmark of a shell in the list, whose other value is asked for.   *)
setTerminalResilient == \E s \in Shell :
  /\ Acts /\ shell[s].state = "alive"
  /\ Says(<<[op |-> "set_resilient", shell |-> s, resilient |-> ~shell[s].resilient]>>)
  /\ UNCHANGED view

(* What is typed is meant for the shell the tag was announced for.  A tag  *)
(* left from an earlier connection says nothing on this one, where it is   *)
(* meant for the terminal in view.                                         *)
sendTerminalInput ==
  /\ Acts /\ view.tag # None /\ up
  /\ Says(<<[op |-> "input", tag |-> view.tag,
             meant |-> IF view.on = conn THEN view.learnt ELSE view.id]>>)
  /\ UNCHANGED view

TermOpened(m) ==
  /\ m.op = "opened"
  /\ view' = [view EXCEPT !.id = m.shell, !.offset = 0]
  /\ Says(<<[op |-> "subscribe", shell |-> m.shell, offset |-> 0]>>)

(* Mutant: a tag announced for another shell is taken for the one in view. *)
TermSubscribed_AnyShell(m) ==
  /\ m.op = "subscribed"
  /\ view' = [view EXCEPT !.tag = m.tag, !.status = "live", !.learnt = view.id, !.on = conn]
  /\ UNCHANGED toHub

TermSubscribed(m) ==
  /\ m.op = "subscribed"
  /\ view' = IF m.shell = view.id
             THEN [view EXCEPT !.tag = m.tag, !.status = "live", !.learnt = view.id, !.on = conn]
             ELSE view
  /\ UNCHANGED toHub

(* A notice in the output shown: neither the offset nor the tag changes.   *)
TermLost(m) ==
  /\ m.op = "lost"
  /\ UNCHANGED <<toHub, view>>

TermExit(m) ==
  /\ m.op = "exit"
  /\ view' = IF m.shell = view.id
             THEN [view EXCEPT !.status = "exited", !.id = None, !.tag = None,
                               !.learnt = None, !.on = None]
             ELSE view
  /\ UNCHANGED toHub

handleTerminalBinary(m) ==
  /\ m.op = "bytes"
  /\ view' = IF m.tag = view.tag
             THEN [view EXCEPT !.offset = @ + Len(m.bytes)] ELSE view
  /\ UNCHANGED toHub

applyServerEnvelope ==
  /\ up /\ toPage # <<>> /\ toPage' = Tail(toPage)
  /\ LET m == Head(toPage)
     IN  TermOpened(m) \/ TermSubscribed(m) \/ TermLost(m) \/ TermExit(m)
         \/ handleTerminalBinary(m)
  /\ UNCHANGED <<shell, tags, nextTag, conn, up, asks>>

Drops ==
  /\ up /\ up' = FALSE /\ toHub' = <<>> /\ toPage' = <<>>
  /\ UNCHANGED <<shell, tags, nextTag, conn, view, asks>>

(* The page's socket opens again: it subscribes its terminal from the      *)
(* offset it has.                                                          *)
connect ==
  LET again == view.id # None /\ view.status \in {"live", "opening"}
  IN  /\ ~up /\ conn < MaxConn /\ asks < MaxAsks
      /\ conn' = conn + 1 /\ up' = TRUE
      /\ toHub' = IF again THEN <<[op |-> "subscribe", shell |-> view.id,
                                   offset |-> view.offset]>>
                  ELSE <<>>
      /\ UNCHANGED <<shell, tags, nextTag, toPage, view, asks>>

--------------------------------------------------------------------------------
Host == \/ \E s \in Shell : Output(s) \/ Exits(s) \/ reapIdle(s)
        \/ closeAll
Hub == \/ handleMessage
       \/ \E c \in Conn : detachAllTerminals(c)
User == \/ openTerminal \/ enterTerminal \/ detachTerminal \/ killTerminal
        \/ setTerminalResilient \/ sendTerminalInput
Page == applyServerEnvelope \/ connect
Next == Host \/ Hub \/ User \/ Page \/ Drops

Spec == Init /\ [][Next]_vars

--------------------------------------------------------------------------------
(* However output is cut into chunks, and however one of them compares     *)
(* with the window, a shell's buffer holds the newest of it, in order.     *)
RingsAreWindows == \A s \in Shell : IsWindow(shell[s].ring)

(* Whatever happens between its replay and the live output, a subscriber   *)
(* is given each byte once and in order, from the offset it came with or,  *)
(* when that byte was gone and it was told so, from the oldest byte kept.  *)
SubscriberConservesBytes == \A s \in Shell : \A u \in shell[s].subscribers :
  LET oldest == IF u.at < MaxBuffered THEN 0 ELSE u.at - MaxBuffered
      start  == IF u.lost THEN oldest ELSE IF u.from < u.at THEN u.from ELSE u.at
  IN  /\ u.lost <=> u.from < oldest
      /\ u.heard = From(start, shell[s].ring.total)

(* The hub, a subscriber, a message on its way to the page, or the page    *)
(* itself takes tag k of the newest connection for that of s.              *)
Means(k, s) ==
  \/ tags[conn][k] = s
  \/ \E u \in shell[s].subscribers : u.conn = conn /\ u.tag = k
  \/ \E i \in DOMAIN toPage : /\ toPage[i].op \in {"subscribed", "bytes"}
                             /\ toPage[i].tag = k /\ toPage[i].shell = s
  \/ view.on = conn /\ view.tag = k /\ view.learnt = s

(* A tag means one shell on a connection, through exits, re-entries and    *)
(* reconnections: no output is taken for that of another shell.            *)
TagsMeanOneShell == \A k \in Tag : \A s, t \in Shell : Means(k, s) /\ Means(k, t) => s = t

(* A keystroke is written to the shell it is meant for or to none: exits,  *)
(* reconnections and other terminals entered while it was on its way       *)
(* notwithstanding.                                                        *)
KeystrokesReachTheirShell ==
  toHub # <<>> /\ Head(toHub).op = "input"
    => tags[conn][Head(toHub).tag] \in {Head(toHub).meant, None}

(* vimesStore.ts, terminalFraming.ts: the offset of the page mirrors the   *)
(* totalBytesSeen of the daemon: once its terminal is live and nothing is  *)
(* on its way, it has consumed exactly what the shell has put out.         *)
OffsetMirrorsTotal ==
  view.status = "live" /\ up /\ toPage = <<>> => view.offset = shell[view.id].ring.total
===============================================================================
