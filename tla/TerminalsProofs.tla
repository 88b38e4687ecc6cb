---------------------------- MODULE TerminalsProofs ----------------------------
(* Theorems about Terminals, whatever the number of shells, connections and *)
(* subscriptions, the window, and the output: what a tag means (TInv); what *)
(* the recursive definitions of the ring buffer compute; and from that what *)
(* a subscriber is given and the types of the state (SInv).                 *)
EXTENDS Terminals, FiniteSetTheorems, WellFoundedInduction, TLAPS

IsSeq(q) == q \in Seq(ToSet(q))

--------------------------------------------------------------------------------
(* THE STRENGTHENING *)

(* What the argument needs of the types.  Output is left out: no tag        *)
(* depends on it.                                                           *)
ShellShape ==
  /\ shell = [s \in Shell |-> shell[s]]
  /\ \A s \in Shell :
       /\ {"state", "ring", "subscribers", "resilient"} \subseteq DOMAIN shell[s]
       /\ IsFiniteSet(shell[s].subscribers)
       /\ \A u \in shell[s].subscribers :
            /\ {"conn", "tag", "heard"} \subseteq DOMAIN u
            /\ u.conn \in Conn /\ u.conn <= conn /\ u.tag \in Tag

HubShape ==
  /\ tags \in [Conn -> [Tag -> Shell \cup {None}]]
  /\ nextTag \in [Conn -> 0..LastTag + 1]
  /\ conn \in Conn /\ up \in BOOLEAN
  /\ \A c \in Conn : c > conn => nextTag[c] = 0 /\ \A k \in Tag : tags[c][k] = None

ToHubShape ==
  /\ IsSeq(toHub)
  /\ \A i \in DOMAIN toHub :
       /\ toHub[i].op \in {"subscribe", "close"} => toHub[i].shell \in Shell
       /\ toHub[i].op = "input" => toHub[i].tag \in Tag /\ toHub[i].meant \in Shell \cup {None}
  /\ ~up => toHub = <<>>

ToPageShape ==
  /\ IsSeq(toPage)
  /\ \A i \in DOMAIN toPage :
       /\ toPage[i].op \in {"opened", "subscribed", "bytes"} => toPage[i].shell \in Shell
       /\ toPage[i].op \in {"subscribed", "bytes"} => toPage[i].tag \in Tag
  /\ ~up => toPage = <<>>

ViewShape ==
  /\ {"status", "id", "tag", "offset", "learnt", "on"} \subseteq DOMAIN view
  /\ view.id \in Shell \cup {None}
  /\ view.tag = None => view.on = None
  /\ view.tag # None => /\ view.tag \in Tag /\ view.on \in Conn /\ view.on <= conn
                        /\ view.learnt \in Shell

Shape == ShellShape /\ HubShape /\ ToHubShape /\ ToPageShape /\ ViewShape

(* A tag that means something was given out.                                *)
GivenOut == \A k \in Tag : \A s \in Shell : Means(k, s) => k < nextTag[conn]

(* On this connection everything is about s: for what concerns the first n  *)
(* messages on their way to the hub.                                        *)
OnlyAbout(s, n) ==
  /\ \A k \in Tag : \A t \in Shell : Means(k, t) => t = s
  /\ \A j \in DOMAIN toHub : j <= n /\ toHub[j].op = "subscribe" => toHub[j].shell = s

(* A tag left from an earlier connection: the page has asked for nothing    *)
(* but the terminal in view since.                                          *)
StaleTag ==
  view.tag # None /\ view.on # conn =>
    /\ OnlyAbout(view.id, Len(toHub))
    /\ \A j \in DOMAIN toHub : toHub[j].op # "open"
    /\ \A i \in DOMAIN toPage : toPage[i].op # "opened"

(* Input on its way bears a tag announced for the shell it is meant for, or *)
(* is behind messages that are all about that shell.                        *)
InputSafe(i) ==
  LET m == toHub[i]
  IN  \/ m.tag < nextTag[conn] /\ \A s \in Shell : Means(m.tag, s) => s = m.meant
      \/ OnlyAbout(m.meant, i)

InputsSafe == \A i \in DOMAIN toHub : toHub[i].op = "input" => InputSafe(i)

TInv == Shape /\ GivenOut /\ TagsMeanOneShell /\ StaleTag /\ InputsSafe

--------------------------------------------------------------------------------
(* SEQUENCES AND SETS *)

LEMMA SeqSelf == ASSUME NEW S, NEW q \in Seq(S)
                 PROVE  IsSeq(q) /\ Len(q) \in Nat /\ DOMAIN q = 1..Len(q)
BY DEF IsSeq, ToSet

LEMMA SeqParts == ASSUME NEW q, IsSeq(q)
                  PROVE  Len(q) \in Nat /\ DOMAIN q = 1..Len(q)
BY DEF IsSeq

LEMMA SeqJoin == ASSUME NEW q, NEW r, IsSeq(q), IsSeq(r)
                 PROVE  /\ IsSeq(q \o r) /\ Len(q \o r) = Len(q) + Len(r)
                        /\ DOMAIN (q \o r) = 1..(Len(q) + Len(r))
                        /\ \A i \in 1..Len(q) : (q \o r)[i] = q[i]
                        /\ \A i \in (Len(q) + 1)..(Len(q) + Len(r)) : (q \o r)[i] = r[i - Len(q)]
<1> DEFINE S == ToSet(q) \cup ToSet(r)
<1>1. q \in Seq(S) /\ r \in Seq(S)
  BY DEF IsSeq
<1>2. q \o r \in Seq(S)
  BY <1>1
<1>3. IsSeq(q \o r)
  <2> HIDE DEF S
  <2> QED BY <1>2, SeqSelf
<1> QED BY <1>1, <1>3, SeqParts

LEMMA SeqTail == ASSUME NEW q, IsSeq(q), q # <<>>
                 PROVE  /\ IsSeq(Tail(q)) /\ Head(q) = q[1] /\ 1 \in DOMAIN q
                        /\ Len(Tail(q)) = Len(q) - 1
                        /\ \A i \in DOMAIN Tail(q) : i + 1 \in DOMAIN q /\ Tail(q)[i] = q[i + 1]
<1> DEFINE S == ToSet(q)
<1>1. q \in Seq(S)
  BY DEF IsSeq
<1>2. Tail(q) \in Seq(S)
  BY <1>1
<1>3. IsSeq(Tail(q))
  <2> HIDE DEF S
  <2> QED BY <1>2, SeqSelf
<1> QED BY <1>1, <1>3, SeqParts

LEMMA SeqOne == ASSUME NEW e
                PROVE  IsSeq(<<e>>) /\ Len(<<e>>) = 1 /\ <<e>>[1] = e
BY DEF IsSeq, ToSet

LEMMA SeqNone == IsSeq(<<>>) /\ Len(<<>>) = 0 /\ DOMAIN <<>> = {}
BY DEF IsSeq, ToSet

LEMMA SetToSeqLists == ASSUME NEW S, IsFiniteSet(S)
                       PROVE  /\ SetToSeq(S) \in Seq(S)
                              /\ \A i \in DOMAIN SetToSeq(S) : SetToSeq(S)[i] \in S
<1> DEFINE n == Cardinality(S)
<1>1. n \in Nat /\ ExistsBijection(1..n, S)
  BY FS_CardinalityType
<1>2. PICK f \in Bijection(1..n, S) : TRUE
  BY <1>1 DEF ExistsBijection
<1>3. f \in [1..n -> S] /\ IsInjective(f)
  BY <1>2 DEF Bijection, Injection, IsInjective
<1>4. SetToSeq(S) \in [1..n -> S]
  BY <1>3 DEF SetToSeq
<1> QED BY <1>1, <1>4

LEMMA FiniteImage == ASSUME NEW S, IsFiniteSet(S), NEW f, f = [x \in S |-> f[x]]
                     PROVE  IsFiniteSet({f[x] : x \in S})
<1> DEFINE T == {f[x] : x \in S}
<1>1. f \in Surjection(S, T)
  BY DEF Surjection
<1> QED BY <1>1, FS_Surjection

--------------------------------------------------------------------------------
(* WHAT IS SENT *)

LEMMA SendParts ==
  ASSUME IsSeq(toPage), NEW ms, IsSeq(ms), Send(ms)
  PROVE  /\ IsSeq(toPage')
         /\ \A i \in DOMAIN toPage' :
              \/ i \in DOMAIN toPage /\ toPage'[i] = toPage[i]
              \/ up /\ \E j \in DOMAIN ms : toPage'[i] = ms[j]
         /\ ~up => toPage' = toPage
<1>1. CASE up
  <2>1. toPage' = toPage \o ms
    BY <1>1 DEF Send
  <2>2. \A i \in DOMAIN (toPage \o ms) :
          \/ i \in DOMAIN toPage /\ (toPage \o ms)[i] = toPage[i]
          \/ i - Len(toPage) \in DOMAIN ms /\ (toPage \o ms)[i] = ms[i - Len(toPage)]
    BY SeqJoin, SeqParts
  <2> QED BY <1>1, <2>1, <2>2, SeqJoin
<1>2. CASE ~up
  BY <1>2 DEF Send
<1> QED BY <1>1, <1>2

LEMMA SaysParts ==
  ASSUME IsSeq(toHub), NEW m, Says(<<m>>)
  PROVE  /\ IsSeq(toHub')
         /\ Len(toHub) <= Len(toHub')
         /\ \A i \in DOMAIN toHub' :
              \/ i \in DOMAIN toHub /\ toHub'[i] = toHub[i]
              \/ up /\ i = Len(toHub) + 1 /\ toHub'[i] = m
         /\ ~up => toHub' = toHub
<1>1. CASE up
  <2>1. toHub' = toHub \o <<m>> /\ IsSeq(<<m>>) /\ Len(<<m>>) = 1 /\ <<m>>[1] = m
    BY <1>1, SeqOne DEF Says
  <2>2. \A i \in DOMAIN (toHub \o <<m>>) :
          \/ i \in DOMAIN toHub /\ (toHub \o <<m>>)[i] = toHub[i]
          \/ i = Len(toHub) + 1 /\ (toHub \o <<m>>)[i] = m
    BY <2>1, SeqJoin, SeqParts
  <2> QED BY <1>1, <2>1, <2>2, SeqJoin, SeqParts
<1>2. CASE ~up
  BY <1>2, SeqParts DEF Says
<1> QED BY <1>1, <1>2

LEMMA Here ==
  ASSUME ShellShape, NEW s \in Shell
  PROVE  /\ IsSeq(OnThisSocket(s))
         /\ \A i \in DOMAIN OnThisSocket(s) :
              /\ OnThisSocket(s)[i] \in shell[s].subscribers
              /\ OnThisSocket(s)[i].conn = conn
<1> DEFINE here == {u \in shell[s].subscribers : u.conn = conn}
<1>1. IsFiniteSet(here)
  <2>1. IsFiniteSet(shell[s].subscribers) /\ here \subseteq shell[s].subscribers
    BY DEF ShellShape
  <2> QED BY <2>1, FS_Subset
<1>2. SetToSeq(here) \in Seq(here) /\ \A i \in DOMAIN SetToSeq(here) : SetToSeq(here)[i] \in here
  <2> HIDE DEF here
  <2> QED BY <1>1, SetToSeqLists
<1>3. IsSeq(SetToSeq(here))
  <2> HIDE DEF here
  <2> QED BY <1>2, SeqSelf
<1> QED BY <1>2, <1>3 DEF OnThisSocket

LEMMA FramesParts ==
  ASSUME ShellShape, NEW s \in Shell, NEW bytes
  PROVE  /\ IsSeq(Frames(s, bytes))
         /\ \A i \in DOMAIN Frames(s, bytes) :
              /\ Frames(s, bytes)[i].op = "bytes" /\ Frames(s, bytes)[i].shell = s
              /\ Frames(s, bytes)[i].tag \in Tag /\ Means(Frames(s, bytes)[i].tag, s)
<1> DEFINE here == OnThisSocket(s)
           frame(i) == [op |-> "bytes", tag |-> here[i].tag, shell |-> s, bytes |-> bytes]
           q == [i \in DOMAIN here |-> frame(i)]
<1>1. IsSeq(here) /\ Len(here) \in Nat /\ DOMAIN here = 1..Len(here)
  BY Here, SeqParts
<1>2. q = Frames(s, bytes)
  BY DEF Frames
<1>3. q \in Seq({frame(i) : i \in DOMAIN here})
  <2> HIDE DEF frame, here
  <2> QED BY <1>1
<1>4. IsSeq(q)
  <2> HIDE DEF q
  <2> QED BY <1>3, SeqSelf
<1>5. \A i \in DOMAIN here : here[i].tag \in Tag /\ Means(here[i].tag, s)
  BY Here DEF ShellShape, Means
<1> QED BY <1>2, <1>4, <1>5

LEMMA ExitsParts ==
  ASSUME ShellShape, NEW s \in Shell
  PROVE  LET q == [i \in DOMAIN OnThisSocket(s) |-> [op |-> "exit", shell |-> s]]
         IN  IsSeq(q) /\ \A i \in DOMAIN q : q[i].op = "exit"
<1> DEFINE n == Len(OnThisSocket(s))
           e == [op |-> "exit", shell |-> s]
           q == [i \in 1..n |-> e]
<1>1. n \in Nat /\ DOMAIN OnThisSocket(s) = 1..n
  BY Here, SeqParts
<1>2. q \in Seq({e})
  <2> HIDE DEF e, n
  <2> QED BY <1>1
<1>3. IsSeq(q)
  <2> HIDE DEF q
  <2> QED BY <1>2, SeqSelf
<1> QED BY <1>1, <1>3

--------------------------------------------------------------------------------
(* WHAT A STEP MAKES OF THE MEANING OF TAGS *)

(* Nothing gets a new meaning.                                              *)
Narrows == \A k \in Tag : \A s \in Shell : Means(k, s)' => Means(k, s)

LEMMA NarrowStep ==
  ASSUME TInv, conn' = conn, nextTag' = nextTag, Narrows
  PROVE  GivenOut' /\ TagsMeanOneShell'
BY DEF TInv, Narrows, GivenOut, TagsMeanOneShell

(* The input that stays on its way to the hub stays safe: at the same       *)
(* place, or one place further on.                                          *)
LEMMA InputStays ==
  ASSUME TInv, conn' = conn, nextTag' = nextTag, Narrows,
         \A i \in DOMAIN toHub' :
           toHub'[i].op = "input" => i \in DOMAIN toHub /\ toHub'[i] = toHub[i],
         \A i \in DOMAIN toHub' : toHub'[i] = toHub[i] \/ i \notin DOMAIN toHub,
         ToHubShape'
  PROVE  InputsSafe'
<1> SUFFICES ASSUME NEW i \in DOMAIN toHub', toHub'[i].op = "input"
             PROVE  InputSafe(i)'
  BY DEF InputsSafe
<1>1. i \in DOMAIN toHub /\ toHub'[i] = toHub[i] /\ InputSafe(i)
  BY DEF TInv, InputsSafe
<1>2. DOMAIN toHub = 1..Len(toHub) /\ DOMAIN toHub' = 1..Len(toHub') /\ Len(toHub) \in Nat /\ Len(toHub') \in Nat
  BY SeqParts DEF TInv, Shape, ToHubShape
<1>3. \A j \in DOMAIN toHub' : j <= i => j \in DOMAIN toHub /\ toHub'[j] = toHub[j]
  BY <1>1, <1>2
<1>4. toHub[i].tag \in Tag
  BY <1>1 DEF TInv, Shape, ToHubShape
<1>5. CASE toHub[i].tag < nextTag[conn] /\ \A s \in Shell : Means(toHub[i].tag, s) => s = toHub[i].meant
  BY <1>1, <1>4, <1>5 DEF InputSafe, Narrows
<1>6. CASE OnlyAbout(toHub[i].meant, i)
  BY <1>1, <1>3, <1>6 DEF InputSafe, OnlyAbout, Narrows
<1> QED BY <1>1, <1>5, <1>6 DEF InputSafe

LEMMA InputMovesUp ==
  ASSUME TInv, conn' = conn, nextTag' = nextTag, Narrows,
         toHub # <<>>, toHub' = Tail(toHub)
  PROVE  InputsSafe'
<1> SUFFICES ASSUME NEW i \in DOMAIN toHub', toHub'[i].op = "input"
             PROVE  InputSafe(i)'
  BY DEF InputsSafe
<1>1. i + 1 \in DOMAIN toHub /\ toHub'[i] = toHub[i + 1] /\ i \in Nat
  BY SeqTail, SeqParts DEF TInv, Shape, ToHubShape
<1>2. InputSafe(i + 1)
  BY <1>1 DEF TInv, InputsSafe
<1>3. \A j \in DOMAIN toHub' : j \in Nat /\ j + 1 \in DOMAIN toHub /\ toHub'[j] = toHub[j + 1]
  BY SeqTail, SeqParts DEF TInv, Shape, ToHubShape
<1>4. toHub[i + 1].tag \in Tag
  BY <1>1 DEF TInv, Shape, ToHubShape
<1>5. CASE toHub[i + 1].tag < nextTag[conn] /\ \A s \in Shell : Means(toHub[i + 1].tag, s) => s = toHub[i + 1].meant
  BY <1>1, <1>4, <1>5 DEF InputSafe, Narrows
<1>6. CASE OnlyAbout(toHub[i + 1].meant, i + 1)
  <2>1. \A j \in DOMAIN toHub' : j <= i /\ toHub'[j].op = "subscribe" => toHub'[j].shell = toHub'[i].meant
    BY <1>1, <1>3, <1>6 DEF OnlyAbout
  <2> QED BY <1>1, <1>6, <2>1 DEF InputSafe, OnlyAbout, Narrows
<1> QED BY <1>2, <1>5, <1>6 DEF InputSafe

(* A tag left from an earlier connection: what was asked for since is asked *)
(* for no more, or has been given, and nothing else is asked for.           *)
LEMMA StaleStays ==
  ASSUME TInv, conn' = conn, Narrows,
         view'.tag = view.tag, view'.on = view.on, view'.id = view.id,
         \A j \in DOMAIN toHub' : \E i \in DOMAIN toHub : toHub'[j] = toHub[i],
         \A j \in DOMAIN toPage' : toPage'[j].op = "opened" =>
           (\E i \in DOMAIN toPage : toPage[i].op = "opened") \/ (\E i \in DOMAIN toHub : toHub[i].op = "open")
  PROVE  StaleTag'
<1> SUFFICES ASSUME view.tag # None, view.on # conn
             PROVE  /\ OnlyAbout(view.id, Len(toHub))'
                    /\ \A j \in DOMAIN toHub' : toHub'[j].op # "open"
                    /\ \A i \in DOMAIN toPage' : toPage'[i].op # "opened"
  BY DEF StaleTag
<1>1. /\ OnlyAbout(view.id, Len(toHub))
      /\ \A j \in DOMAIN toHub : toHub[j].op # "open"
      /\ \A i \in DOMAIN toPage : toPage[i].op # "opened"
  BY DEF TInv, StaleTag
<1>2. DOMAIN toHub = 1..Len(toHub) /\ Len(toHub) \in Nat
  BY SeqParts DEF TInv, Shape, ToHubShape
<1>3. \A j \in DOMAIN toHub' : toHub'[j].op = "subscribe" => toHub'[j].shell = view.id
  BY <1>1, <1>2 DEF OnlyAbout
<1> QED BY <1>1, <1>3 DEF OnlyAbout, Narrows

--------------------------------------------------------------------------------
(* THE HOST *)

LEMMA OutputKeeps == ASSUME TInv, NEW s \in Shell, Output(s) PROVE TInv'
<1>1. PICK n \in Chunk : LET total == shell[s].ring.total
                             bytes == From(total, total + n)
                         IN  /\ shell' = [shell EXCEPT ![s].ring = append(@, bytes),
                                            ![s].subscribers = {[u EXCEPT !.heard = @ \o bytes] : u \in @}]
                             /\ Send(Frames(s, bytes))
                             /\ UNCHANGED <<tags, nextTag, conn, up, toHub, view, asks>>
  BY DEF Output
<1> DEFINE bytes == From(shell[s].ring.total, shell[s].ring.total + n)
           told(u) == [u EXCEPT !.heard = @ \o bytes]
<1>2. /\ \A t \in Shell \ {s} : shell'[t] = shell[t]
      /\ {"state", "ring", "subscribers", "resilient"} \subseteq DOMAIN shell'[s]
      /\ shell'[s].subscribers = {told(u) : u \in shell[s].subscribers}
      /\ shell' = [t \in Shell |-> shell'[t]]
  BY <1>1 DEF TInv, Shape, ShellShape
<1>3. \A u \in shell[s].subscribers :
        told(u).conn = u.conn /\ told(u).tag = u.tag /\ DOMAIN told(u) = DOMAIN u
  BY DEF TInv, Shape, ShellShape
<1>4. ShellShape'
  <2>1. IsFiniteSet(shell'[s].subscribers)
    <3> DEFINE f == [u \in shell[s].subscribers |-> told(u)]
    <3>1. IsFiniteSet(shell[s].subscribers)
      BY DEF TInv, Shape, ShellShape
    <3>2. shell'[s].subscribers = {f[u] : u \in shell[s].subscribers}
      BY <1>2
    <3>3. f = [u \in shell[s].subscribers |-> f[u]]
      OBVIOUS
    <3> HIDE DEF f
    <3> QED BY <3>1, <3>2, <3>3, FiniteImage
  <2>2. \A u \in shell'[s].subscribers :
          {"conn", "tag", "heard"} \subseteq DOMAIN u /\ u.conn \in Conn /\ u.conn <= conn /\ u.tag \in Tag
    <3> SUFFICES ASSUME NEW u \in shell[s].subscribers
                 PROVE  /\ {"conn", "tag", "heard"} \subseteq DOMAIN told(u)
                        /\ told(u).conn \in Conn /\ told(u).conn <= conn /\ told(u).tag \in Tag
      BY <1>2
    <3> HIDE DEF told
    <3> QED BY <1>3 DEF TInv, Shape, ShellShape
  <2>3. conn' = conn
    BY <1>1
  <2>4. ShellShape
    BY DEF TInv, Shape
  <2> HIDE DEF told
  <2> QED BY <1>2, <2>1, <2>2, <2>3, <2>4 DEF ShellShape
<1>5. /\ IsSeq(Frames(s, bytes)) /\ Send(Frames(s, bytes)) /\ IsSeq(toPage)
      /\ \A i \in DOMAIN Frames(s, bytes) :
              /\ Frames(s, bytes)[i].op = "bytes" /\ Frames(s, bytes)[i].shell = s
              /\ Frames(s, bytes)[i].tag \in Tag /\ Means(Frames(s, bytes)[i].tag, s)
  <2>1. ShellShape /\ IsSeq(toPage)
    BY DEF TInv, Shape, ToPageShape
  <2> HIDE DEF bytes
  <2>2. /\ IsSeq(Frames(s, bytes))
        /\ \A i \in DOMAIN Frames(s, bytes) :
              /\ Frames(s, bytes)[i].op = "bytes" /\ Frames(s, bytes)[i].shell = s
              /\ Frames(s, bytes)[i].tag \in Tag /\ Means(Frames(s, bytes)[i].tag, s)
    BY <2>1, FramesParts
  <2>3. Send(Frames(s, bytes))
    BY <1>1 DEF bytes
  <2> QED BY <2>1, <2>2, <2>3
<1>6. /\ IsSeq(toPage') /\ (~up => toPage' = toPage)
      /\ \A i \in DOMAIN toPage' :
           \/ i \in DOMAIN toPage /\ toPage'[i] = toPage[i]
           \/ /\ toPage'[i].op = "bytes" /\ toPage'[i].shell = s
              /\ toPage'[i].tag \in Tag /\ Means(toPage'[i].tag, s)
  <2> HIDE DEF bytes
  <2> DEFINE ms == Frames(s, bytes)
  <2>1. IsSeq(ms) /\ Send(ms) /\ IsSeq(toPage)
    BY <1>5
  <2>2. /\ IsSeq(toPage') /\ (~up => toPage' = toPage)
        /\ \A i \in DOMAIN toPage' :
             \/ i \in DOMAIN toPage /\ toPage'[i] = toPage[i]
             \/ up /\ \E j \in DOMAIN ms : toPage'[i] = ms[j]
    <3> HIDE DEF ms
    <3> QED BY <2>1, SendParts
  <2> QED BY <2>2, <1>5
<1>7. ToPageShape'
  BY <1>1, <1>6 DEF TInv, Shape, ToPageShape
<1>8. Narrows
  <2> SUFFICES ASSUME NEW k \in Tag, NEW t \in Shell, Means(k, t)'
               PROVE  Means(k, t)
    BY DEF Narrows
  <2>1. (\E u \in shell'[t].subscribers : u.conn = conn /\ u.tag = k)
          => \E u \in shell[t].subscribers : u.conn = conn /\ u.tag = k
    <3> HIDE DEF told
    <3> QED BY <1>2, <1>3
  <2>2. (\E i \in DOMAIN toPage' : toPage'[i].op \in {"subscribed", "bytes"}
                                    /\ toPage'[i].tag = k /\ toPage'[i].shell = t)
          => Means(k, t)
    BY <1>6 DEF Means
  <2> QED BY <1>1, <2>1, <2>2 DEF Means
<1>9. HubShape' /\ ToHubShape' /\ ViewShape'
  BY <1>1 DEF TInv, Shape, HubShape, ToHubShape, ViewShape
<1>10. InputsSafe'
  BY <1>1, <1>8, <1>9, InputStays
<1>11. StaleTag'
  BY <1>1, <1>6, <1>8, StaleStays
<1> QED BY <1>1, <1>4, <1>7, <1>8, <1>9, <1>10, <1>11, NarrowStep DEF TInv, Shape

(* A shell ends: by itself, reaped, or closed.                              *)
LEMMA ExitParts ==
  ASSUME Shape, NEW s \in Shell, onPtyExit(s), UNCHANGED <<nextTag, conn, up, view>>
  PROVE  /\ ShellShape' /\ HubShape' /\ ToPageShape' /\ ViewShape' /\ Narrows
         /\ \A i \in DOMAIN toPage' : toPage'[i].op = "opened" => \E j \in DOMAIN toPage : toPage[j].op = "opened"
<1>1. ShellShape /\ HubShape /\ ToPageShape /\ ViewShape
  BY DEF Shape
<1>2. ShellShape'
  <2>1. IsFiniteSet({})
    BY FS_EmptySet
  <2> QED BY <1>1, <2>1 DEF onPtyExit, ShellShape, Unborn
<1>3. \A c \in Conn : \A k \in Tag : tags'[c][k] = None \/ tags'[c][k] = tags[c][k]
  BY DEF onPtyExit
<1>4. HubShape'
  <2>1. tags' \in [Conn -> [Tag -> Shell \cup {None}]]
    BY <1>1 DEF onPtyExit, HubShape
  <2> QED BY <1>1, <1>3, <2>1 DEF HubShape
<1> DEFINE q == [i \in DOMAIN OnThisSocket(s) |-> [op |-> "exit", shell |-> s]]
<1>5. IsSeq(q) /\ Send(q) /\ IsSeq(toPage) /\ \A i \in DOMAIN q : q[i].op = "exit"
  BY <1>1, ExitsParts DEF onPtyExit, ToPageShape
<1>6. /\ IsSeq(toPage') /\ (~up => toPage' = toPage)
      /\ \A i \in DOMAIN toPage' :
           (i \in DOMAIN toPage /\ toPage'[i] = toPage[i]) \/ toPage'[i].op = "exit"
  <2> HIDE DEF q
  <2> QED BY <1>5, SendParts
<1>7. ToPageShape'
  BY <1>1, <1>6 DEF ToPageShape
<1>8. Narrows
  <2> SUFFICES ASSUME NEW k \in Tag, NEW t \in Shell, Means(k, t)'
               PROVE  Means(k, t)
    BY DEF Narrows
  <2>1. tags'[conn][k] = t => tags[conn][k] = t
    BY <1>1, <1>3, NoneAssumption DEF HubShape
  <2>2. (\E u \in shell'[t].subscribers : u.conn = conn /\ u.tag = k)
          => \E u \in shell[t].subscribers : u.conn = conn /\ u.tag = k
    BY <1>1 DEF onPtyExit, ShellShape, Unborn
  <2>3. (\E i \in DOMAIN toPage' : toPage'[i].op \in {"subscribed", "bytes"}
                                    /\ toPage'[i].tag = k /\ toPage'[i].shell = t)
          => Means(k, t)
    BY <1>6 DEF Means
  <2> QED BY <2>1, <2>2, <2>3 DEF Means
<1>9. ViewShape'
  BY <1>1 DEF ViewShape
<1> QED BY <1>2, <1>4, <1>6, <1>7, <1>8, <1>9

LEMMA EndKeeps ==
  ASSUME TInv, NEW s \in Shell, Exits(s) \/ reapIdle(s)
  PROVE  TInv'
<1>1. onPtyExit(s) /\ UNCHANGED <<nextTag, conn, up, toHub, view, asks>>
  BY DEF Exits, reapIdle
<1>2. /\ ShellShape' /\ HubShape' /\ ToPageShape' /\ ViewShape' /\ Narrows
      /\ \A i \in DOMAIN toPage' : toPage'[i].op = "opened" => \E j \in DOMAIN toPage : toPage[j].op = "opened"
  BY <1>1, ExitParts DEF TInv
<1>3. ToHubShape'
  BY <1>1 DEF TInv, Shape, ToHubShape
<1>4. InputsSafe'
  BY <1>1, <1>2, <1>3, InputStays
<1>5. StaleTag'
  BY <1>1, <1>2, StaleStays
<1> QED BY <1>1, <1>2, <1>3, <1>4, <1>5, NarrowStep DEF TInv, Shape

(* The socket is lost with what it carries.                                 *)
LEMMA WireLost == ASSUME toHub' = <<>>, toPage' = <<>>
                  PROVE  ToHubShape' /\ ToPageShape'
<1>1. IsSeq(toHub)' /\ IsSeq(toPage)' /\ DOMAIN toHub' = {} /\ DOMAIN toPage' = {}
  BY SeqNone
<1> QED BY <1>1 DEF ToHubShape, ToPageShape

LEMMA CloseAllKeeps == ASSUME TInv, closeAll PROVE TInv'
<1>1. /\ toHub' = <<>> /\ toPage' = <<>> /\ up' = FALSE
      /\ UNCHANGED <<nextTag, conn, view>>
      /\ tags' = [c \in Conn |-> [k \in Tag |-> None]]
  BY DEF closeAll
<1>2. ShellShape'
  <2>1. IsFiniteSet({})
    BY FS_EmptySet
  <2> QED BY <1>1, <2>1 DEF closeAll, TInv, Shape, ShellShape, Unborn
<1>3. HubShape' /\ ToHubShape' /\ ToPageShape' /\ ViewShape'
  <2>1. HubShape'
    BY <1>1 DEF TInv, Shape, HubShape
  <2>2. ViewShape'
    BY <1>1 DEF TInv, Shape, ViewShape
  <2> QED BY <1>1, <2>1, <2>2, WireLost
<1>4. Narrows
  <2> SUFFICES ASSUME NEW k \in Tag, NEW t \in Shell, Means(k, t)'
               PROVE  Means(k, t)
    BY DEF Narrows
  <2>1. shell'[t].subscribers \subseteq shell[t].subscribers
    BY DEF closeAll, TInv, Shape, ShellShape, Unborn
  <2>2. tags'[conn][k] # t
    BY <1>1, NoneAssumption DEF TInv, Shape, HubShape
  <2> QED BY <1>1, <2>1, <2>2 DEF Means
<1>5. InputsSafe' /\ StaleTag'
  BY <1>1, <1>3, <1>4, InputStays, StaleStays
<1> QED BY <1>1, <1>2, <1>3, <1>4, <1>5, NarrowStep DEF TInv, Shape

LEMMA DropsKeeps == ASSUME TInv, Drops PROVE TInv'
<1>1. /\ toHub' = <<>> /\ toPage' = <<>> /\ up' = FALSE
      /\ UNCHANGED <<shell, tags, nextTag, conn, view>>
  BY DEF Drops
<1>2. Shape'
  <2>1. ShellShape' /\ HubShape' /\ ViewShape'
    BY <1>1 DEF TInv, Shape, ShellShape, HubShape, ViewShape
  <2> QED BY <1>1, <2>1, WireLost DEF Shape
<1>3. Narrows
  BY <1>1 DEF Narrows, Means
<1>4. InputsSafe' /\ StaleTag'
  BY <1>1, <1>2, <1>3, InputStays, StaleStays DEF Shape
<1> QED BY <1>1, <1>2, <1>3, <1>4, NarrowStep DEF TInv

--------------------------------------------------------------------------------
(* THE HUB *)

(* Of a message taken, what the other messages need.                        *)
LEMMA Taken ==
  ASSUME TInv, toHub # <<>>, toHub' = Tail(toHub), UNCHANGED up
  PROVE  /\ ToHubShape' /\ 1 \in DOMAIN toHub /\ Head(toHub) = toHub[1]
         /\ \A j \in DOMAIN toHub' : \E i \in DOMAIN toHub : toHub'[j] = toHub[i]
<1>1. IsSeq(toHub)
  BY DEF TInv, Shape, ToHubShape
<1>2. /\ IsSeq(toHub') /\ Head(toHub) = toHub[1] /\ 1 \in DOMAIN toHub
      /\ \A i \in DOMAIN toHub' : i + 1 \in DOMAIN toHub /\ toHub'[i] = toHub[i + 1]
  BY <1>1, SeqTail
<1> QED BY <1>2 DEF TInv, Shape, ToHubShape

LEMMA TermCloseKeeps ==
  ASSUME TInv, toHub # <<>>, toHub' = Tail(toHub), TermClose(Head(toHub)), Head(toHub).shell \in Shell
  PROVE  TInv'
<1>1. UNCHANGED <<nextTag, conn, up, view>>
  BY DEF TermClose
<1>2. ToHubShape' /\ \A j \in DOMAIN toHub' : \E i \in DOMAIN toHub : toHub'[j] = toHub[i]
  BY <1>1, Taken
<1>3. /\ ShellShape' /\ HubShape' /\ ToPageShape' /\ ViewShape' /\ Narrows
      /\ \A i \in DOMAIN toPage' : toPage'[i].op = "opened" => \E j \in DOMAIN toPage : toPage[j].op = "opened"
  <2>1. CASE onPtyExit(Head(toHub).shell)
    BY <1>1, <2>1, ExitParts DEF TInv
  <2>2. CASE UNCHANGED <<shell, tags, toPage>>
    BY <1>1, <2>2 DEF TInv, Shape, ShellShape, HubShape, ToPageShape, ViewShape, Narrows, Means
  <2> QED BY <2>1, <2>2 DEF TermClose
<1>4. InputsSafe' /\ StaleTag'
  BY <1>1, <1>2, <1>3, InputMovesUp, StaleStays
<1> QED BY <1>1, <1>2, <1>3, <1>4, NarrowStep DEF TInv, Shape

LEMMA TermSetResilientKeeps ==
  ASSUME TInv, toHub # <<>>, toHub' = Tail(toHub), TermSetResilient(Head(toHub))
  PROVE  TInv'
<1>1. /\ UNCHANGED <<tags, nextTag, conn, up, toPage, view>>
      /\ \E s \in {Head(toHub).shell}, r \in {Head(toHub).resilient} :
           shell' = shell \/ shell' = [shell EXCEPT ![s].resilient = r]
  BY DEF TermSetResilient
<1>2. ShellShape' /\ \A t \in Shell : shell'[t].subscribers = shell[t].subscribers
  <2>1. ShellShape /\ conn' = conn
    BY <1>1 DEF TInv, Shape
  <2>2. PICK s, r : shell' = shell \/ shell' = [shell EXCEPT ![s].resilient = r]
    BY <1>1
  <2>3. shell' = [t \in Shell |-> shell'[t]]
    BY <2>1, <2>2 DEF ShellShape
  <2>4. \A t \in Shell : /\ shell'[t].subscribers = shell[t].subscribers
                         /\ {"state", "ring", "subscribers", "resilient"} \subseteq DOMAIN shell'[t]
    <3> TAKE t \in Shell
    <3>1. shell'[t] = shell[t] \/ shell'[t] = [shell[t] EXCEPT !.resilient = r]
      BY <2>1, <2>2 DEF ShellShape
    <3>2. {"state", "ring", "subscribers", "resilient"} \subseteq DOMAIN shell[t]
      BY <2>1 DEF ShellShape
    <3> QED BY <3>1, <3>2
  <2> QED BY <2>1, <2>3, <2>4 DEF ShellShape
<1>3. ToHubShape' /\ \A j \in DOMAIN toHub' : \E i \in DOMAIN toHub : toHub'[j] = toHub[i]
  BY <1>1, Taken
<1>4. HubShape' /\ ToPageShape' /\ ViewShape'
  BY <1>1 DEF TInv, Shape, HubShape, ToPageShape, ViewShape
<1>5. Narrows
  BY <1>1, <1>2 DEF Narrows, Means
<1>6. InputsSafe' /\ StaleTag'
  BY <1>1, <1>3, <1>5, InputMovesUp, StaleStays
<1> QED BY <1>1, <1>2, <1>3, <1>4, <1>5, <1>6, NarrowStep DEF TInv, Shape

LEMMA BinaryFrameKeeps ==
  ASSUME TInv, toHub # <<>>, toHub' = Tail(toHub), handleBinaryFrame(Head(toHub))
  PROVE  TInv'
<1>1. UNCHANGED <<shell, tags, nextTag, conn, up, toPage, view>>
  BY DEF handleBinaryFrame
<1>2. ToHubShape' /\ \A j \in DOMAIN toHub' : \E i \in DOMAIN toHub : toHub'[j] = toHub[i]
  BY <1>1, Taken
<1>3. ShellShape' /\ HubShape' /\ ToPageShape' /\ ViewShape' /\ Narrows
  BY <1>1 DEF TInv, Shape, ShellShape, HubShape, ToPageShape, ViewShape, Narrows, Means
<1>4. InputsSafe' /\ StaleTag'
  BY <1>1, <1>2, <1>3, InputMovesUp, StaleStays
<1> QED BY <1>1, <1>2, <1>3, <1>4, NarrowStep DEF TInv, Shape

LEMMA TermOpenKeeps ==
  ASSUME TInv, toHub # <<>>, toHub' = Tail(toHub), TermOpen(Head(toHub))
  PROVE  TInv'
<1>1. /\ Head(toHub).op = "open" /\ UNCHANGED <<tags, nextTag, conn, up, view>>
  BY DEF TermOpen
<1>2. /\ ToHubShape' /\ 1 \in DOMAIN toHub /\ Head(toHub) = toHub[1]
      /\ \A j \in DOMAIN toHub' : \E i \in DOMAIN toHub : toHub'[j] = toHub[i]
  BY <1>1, Taken
<1>3. PICK s \in Shell :
        \/ /\ shell' = [shell EXCEPT ![s].state = "alive"]
           /\ Send(<<[op |-> "opened", shell |-> s]>>)
        \/ UNCHANGED <<shell, toPage>>
  BY DEF TermOpen
<1>4. ShellShape' /\ \A t \in Shell : shell'[t].subscribers = shell[t].subscribers
  <2>1. ShellShape /\ conn' = conn
    BY <1>1 DEF TInv, Shape
  <2> QED BY <1>3, <2>1 DEF ShellShape
<1>5. /\ IsSeq(toPage') /\ (~up => toPage' = toPage)
      /\ \A i \in DOMAIN toPage' :
           \/ i \in DOMAIN toPage /\ toPage'[i] = toPage[i]
           \/ toPage'[i] = [op |-> "opened", shell |-> s]
  <2>1. IsSeq(toPage)
    BY DEF TInv, Shape, ToPageShape
  <2>2. CASE Send(<<[op |-> "opened", shell |-> s]>>)
    <3> DEFINE ms == <<[op |-> "opened", shell |-> s]>>
    <3>1. IsSeq(ms) /\ Send(ms) /\ \A j \in DOMAIN ms : ms[j] = [op |-> "opened", shell |-> s]
      BY <2>2, SeqOne
    <3> HIDE DEF ms
    <3> QED BY <2>1, <3>1, SendParts
  <2> QED BY <1>3, <2>1, <2>2
<1>6. ToPageShape'
  BY <1>1, <1>5 DEF TInv, Shape, ToPageShape
<1>7. HubShape' /\ ViewShape'
  BY <1>1 DEF TInv, Shape, HubShape, ViewShape
<1>8. Narrows
  <2> SUFFICES ASSUME NEW k \in Tag, NEW t \in Shell, Means(k, t)'
               PROVE  Means(k, t)
    BY DEF Narrows
  <2>1. \A i \in DOMAIN toPage' : toPage'[i].op \in {"subscribed", "bytes"}
                                   => i \in DOMAIN toPage /\ toPage'[i] = toPage[i]
    BY <1>5
  <2> QED BY <1>1, <1>4, <2>1 DEF Means
<1>9. InputsSafe'
  BY <1>1, <1>8, InputMovesUp
<1>10. StaleTag'
  <2>1. \E i \in DOMAIN toHub : toHub[i].op = "open"
    BY <1>1, <1>2
  <2> QED BY <1>1, <1>2, <1>8, <2>1, StaleStays
<1> QED BY <1>1, <1>2, <1>4, <1>6, <1>7, <1>8, <1>9, <1>10, NarrowStep DEF TInv, Shape

LEMMA DetachAllKeeps == ASSUME TInv, NEW c \in Conn, detachAllTerminals(c) PROVE TInv'
<1>1. /\ UNCHANGED <<nextTag, conn, up, toHub, toPage, view>>
      /\ tags' = [tags EXCEPT ![c] = [k \in Tag |-> None]]
  BY DEF detachAllTerminals
<1>2. ShellShape' /\ \A t \in Shell : shell'[t].subscribers \subseteq shell[t].subscribers
  <2>1. PICK gone \in [Shell -> SUBSET UNION {shell[s].subscribers : s \in Shell}] :
          shell' = [s \in Shell |-> [shell[s] EXCEPT !.subscribers = @ \ gone[s]]]
    <3> DEFINE held(s) == {u \in {v \in shell[s].subscribers : v.conn = c} :
                             \E k \in Tag : tags[c][k] = s
                               /\ \A v \in {w \in shell[s].subscribers : w.conn = c} : v.ask <= u.ask}
               f == [s \in Shell |-> held(s)]
    <3>1. f \in [Shell -> SUBSET UNION {shell[s].subscribers : s \in Shell}]
      OBVIOUS
    <3>2. shell' = [s \in Shell |-> [shell[s] EXCEPT !.subscribers = @ \ held(s)]]
      BY DEF detachAllTerminals
    <3>3. \A s \in Shell : f[s] = held(s)
      OBVIOUS
    <3> HIDE DEF held, f
    <3> QED BY <3>1, <3>2, <3>3
  <2>2. ShellShape
    BY DEF TInv, Shape
  <2>3. \A t \in Shell : /\ shell'[t].subscribers = shell[t].subscribers \ gone[t]
                         /\ DOMAIN shell'[t] = DOMAIN shell[t]
    BY <2>1, <2>2 DEF ShellShape
  <2>4. \A t \in Shell : IsFiniteSet(shell'[t].subscribers)
    BY <2>2, <2>3, FS_Subset DEF ShellShape
  <2> QED BY <1>1, <2>1, <2>2, <2>3, <2>4 DEF ShellShape
<1>3. HubShape'
  BY <1>1 DEF TInv, Shape, HubShape
<1>4. ToHubShape' /\ ToPageShape' /\ ViewShape'
  BY <1>1 DEF TInv, Shape, ToHubShape, ToPageShape, ViewShape
<1>5. Narrows
  <2> SUFFICES ASSUME NEW k \in Tag, NEW t \in Shell, Means(k, t)'
               PROVE  Means(k, t)
    BY DEF Narrows
  <2>1. tags'[conn][k] = t => tags[conn][k] = t
    BY <1>1, NoneAssumption DEF TInv, Shape, HubShape
  <2> QED BY <1>1, <1>2, <2>1 DEF Means
<1>6. InputsSafe' /\ StaleTag'
  BY <1>1, <1>4, <1>5, InputStays, StaleStays
<1> QED BY <1>1, <1>2, <1>3, <1>4, <1>5, <1>6, NarrowStep DEF TInv, Shape

(* A subscription gives its shell the tag it has, or one never given out.   *)
LEMMA TagForParts ==
  ASSUME TInv, NEW s \in Shell
  PROVE  /\ TagFor(s) \in Nat
         /\ \/ TagFor(s) \in Tag /\ Means(TagFor(s), s) /\ TagFor(s) < nextTag[conn]
            \/ TagFor(s) = nextTag[conn] /\ \A k \in Tag : tags[conn][k] # s
<1>1. CASE Tagged(s) # {}
  <2>1. TagFor(s) \in Tagged(s)
    BY <1>1 DEF TagFor
  <2>2. TagFor(s) \in Tag /\ Means(TagFor(s), s)
    BY <2>1 DEF Tagged, Means
  <2> QED BY <2>2, LimitsAssumption DEF TInv, GivenOut, Tag
<1>2. CASE Tagged(s) = {}
  BY <1>2 DEF TagFor, Tagged, TInv, Shape, HubShape
<1> QED BY <1>1, <1>2

LEMMA GiveStep ==
  ASSUME TInv, UNCHANGED <<conn, view>>, NEW s \in Shell, NEW k \in Tag, k = TagFor(s),
         toHub # <<>>, toHub' = Tail(toHub), toHub[1].op = "subscribe", toHub[1].shell = s,
         nextTag'[conn] \in Nat, nextTag[conn] <= nextTag'[conn], k < nextTag'[conn],
         \A j \in Tag : \A t \in Shell : Means(j, t)' => Means(j, t) \/ (j = k /\ t = s),
         \A i \in DOMAIN toPage' : toPage'[i].op = "opened" => \E j \in DOMAIN toPage : toPage[j].op = "opened"
  PROVE  GivenOut' /\ TagsMeanOneShell' /\ InputsSafe' /\ StaleTag'
<1>1. /\ Tag \subseteq Nat /\ nextTag[conn] \in Nat
      /\ \A i \in DOMAIN toHub : toHub[i].op = "input" => toHub[i].tag \in Tag
  BY LimitsAssumption DEF Tag, TInv, Shape, HubShape, ToHubShape
<1>2. \A t \in Shell : Means(k, t) => t = s
  <2>1. CASE Means(k, s)
    BY <2>1 DEF TInv, TagsMeanOneShell
  <2>2. CASE k = nextTag[conn]
    BY <1>1, <2>2 DEF TInv, GivenOut
  <2> QED BY <2>1, <2>2, TagForParts
<1>3. k < nextTag[conn] => Means(k, s)
  BY <1>1, TagForParts
<1>4. GivenOut'
  <2> SUFFICES ASSUME NEW j \in Tag, NEW t \in Shell, Means(j, t)'
               PROVE  j < nextTag'[conn]
    BY DEF GivenOut
  <2>1. CASE j = k
    BY <2>1
  <2>2. CASE Means(j, t)
    <3>1. j < nextTag[conn] /\ j \in Nat
      BY <1>1, <2>2 DEF TInv, GivenOut
    <3> QED BY <1>1, <3>1
  <2> QED BY <2>1, <2>2
<1>5. TagsMeanOneShell'
  <2> SUFFICES ASSUME NEW j \in Tag, NEW t \in Shell, NEW u \in Shell, Means(j, t)', Means(j, u)'
               PROVE  t = u
    BY DEF TagsMeanOneShell
  <2>1. CASE j = k
    BY <1>2, <2>1
  <2>2. CASE j # k
    BY <2>2 DEF TInv, TagsMeanOneShell
  <2> QED BY <2>1, <2>2
<1>6. IsSeq(toHub)
  BY DEF TInv, Shape, ToHubShape
<1>7. \A i \in DOMAIN toHub' : i \in Nat /\ i + 1 \in DOMAIN toHub /\ toHub'[i] = toHub[i + 1]
  BY <1>6, SeqTail, SeqParts
<1>8. 1 \in DOMAIN toHub /\ Len(toHub) \in Nat /\ DOMAIN toHub = 1..Len(toHub) /\ Len(toHub') = Len(toHub) - 1
  BY <1>6, SeqTail, SeqParts
<1>9. InputsSafe'
  <2> SUFFICES ASSUME NEW i \in DOMAIN toHub', toHub'[i].op = "input"
               PROVE  InputSafe(i)'
    BY DEF InputsSafe
  <2> DEFINE m == toHub[i + 1]
  <2>1. i \in Nat /\ i + 1 \in DOMAIN toHub /\ toHub'[i] = m /\ m.tag \in Tag /\ InputSafe(i + 1)
    BY <1>1, <1>7 DEF TInv, InputsSafe
  <2>2. CASE m.tag < nextTag[conn] /\ \A t \in Shell : Means(m.tag, t) => t = m.meant
    <3>1. PICK g \in Tag : g = m.tag
      BY <2>1
    <3>2. g < nextTag'[conn]
      <4>1. g < nextTag[conn] /\ g \in Nat
        BY <1>1, <2>2, <3>1
      <4> QED BY <1>1, <4>1
    <3>3. ASSUME NEW t \in Shell, Means(g, t)' PROVE t = m.meant
      <4>1. Means(g, t) \/ (g = k /\ t = s)
        BY <3>3
      <4>2. g = k => Means(g, s)
        BY <1>3, <2>2, <3>1
      <4>3. Means(g, t)
        BY <4>1, <4>2
      <4> QED BY <2>2, <3>1, <4>3
    <3> QED BY <2>1, <3>1, <3>2, <3>3 DEF InputSafe
  <2>3. CASE OnlyAbout(m.meant, i + 1)
    <3>1. s = m.meant
      BY <1>8, <2>1, <2>3 DEF OnlyAbout
    <3>2. \A j \in Tag : \A t \in Shell : Means(j, t)' => t = m.meant
      BY <2>3, <3>1 DEF OnlyAbout
    <3>3. \A j \in DOMAIN toHub' : j <= i /\ toHub'[j].op = "subscribe" => toHub'[j].shell = m.meant
      BY <1>7, <2>1, <2>3 DEF OnlyAbout
    <3> QED BY <2>1, <3>2, <3>3 DEF InputSafe, OnlyAbout
  <2> QED BY <2>1, <2>2, <2>3 DEF InputSafe
<1>10. StaleTag'
  <2> SUFFICES ASSUME view.tag # None, view.on # conn
               PROVE  /\ OnlyAbout(view.id, Len(toHub))'
                      /\ \A j \in DOMAIN toHub' : toHub'[j].op # "open"
                      /\ \A i \in DOMAIN toPage' : toPage'[i].op # "opened"
    BY DEF StaleTag
  <2>1. /\ OnlyAbout(view.id, Len(toHub))
        /\ \A j \in DOMAIN toHub : toHub[j].op # "open"
        /\ \A i \in DOMAIN toPage : toPage[i].op # "opened"
    BY DEF TInv, StaleTag
  <2>2. s = view.id
    BY <1>8, <2>1 DEF OnlyAbout
  <2>3. \A j \in DOMAIN toHub' : toHub'[j].op = "subscribe" => toHub'[j].shell = view.id
    BY <1>7, <1>8, <2>1 DEF OnlyAbout
  <2>4. \A j \in Tag : \A t \in Shell : Means(j, t)' => t = view.id
    BY <2>1, <2>2 DEF OnlyAbout
  <2> QED BY <1>7, <2>1, <2>3, <2>4 DEF OnlyAbout
<1> QED BY <1>4, <1>5, <1>9, <1>10

(* What the hub sends for a subscription, and the subscriber it makes.      *)
LEMMA SubscribeParts ==
  ASSUME TInv, NEW s \in Shell, NEW offset, NEW k \in Tag,
         subscribe(s, offset, k), UNCHANGED <<conn, up, view>>
  PROVE  /\ ShellShape' /\ ToPageShape'
         /\ tags' = [tags EXCEPT ![conn][k] = s]
         /\ \A j \in Tag : \A t \in Shell : Means(j, t)' => Means(j, t) \/ (j = k /\ t = s)
         /\ \A i \in DOMAIN toPage' : toPage'[i].op = "opened" => \E j \in DOMAIN toPage : toPage[j].op = "opened"
<1> DEFINE replay == replayFrom(shell[s].ring, offset)
           lost   == IF replay.lost THEN <<[op |-> "lost", shell |-> s]>> ELSE <<>>
           output == IF replay.bytes = <<>> THEN <<>>
                     ELSE <<[op |-> "bytes", tag |-> k, shell |-> s, bytes |-> replay.bytes]>>
           done   == <<[op |-> "subscribed", shell |-> s, tag |-> k]>>
           ms     == lost \o output \o done
           made   == [ask |-> asks + 1, conn |-> conn, tag |-> k, heard |-> replay.bytes,
                      lost |-> replay.lost, from |-> offset, at |-> shell[s].ring.total]
           About(q) == \A i \in DOMAIN q : /\ q[i].op \in {"lost", "bytes", "subscribed"} /\ q[i].shell = s
                                           /\ q[i].op \in {"bytes", "subscribed"} => q[i].tag = k
<1>1. /\ shell' = [shell EXCEPT ![s].subscribers = @ \cup {made}]
      /\ tags' = [tags EXCEPT ![conn][k] = s]
      /\ Send(ms)
  BY DEF subscribe
<1>2. /\ IsSeq(lost) /\ About(lost) /\ IsSeq(output) /\ About(output) /\ IsSeq(done) /\ About(done)
  <2> DEFINE a == [op |-> "lost", shell |-> s]
             b == [op |-> "bytes", tag |-> k, shell |-> s, bytes |-> replay.bytes]
             d == [op |-> "subscribed", shell |-> s, tag |-> k]
  <2>1. IsSeq(<<a>>) /\ IsSeq(<<b>>) /\ IsSeq(<<d>>) /\ IsSeq(<<>>)
    BY SeqOne, SeqNone
  <2>2. About(<<a>>) /\ About(<<b>>) /\ About(<<d>>) /\ About(<<>>)
    OBVIOUS
  <2> QED BY <2>1, <2>2
<1>3. IsSeq(ms) /\ About(ms)
  <2>1. ASSUME NEW q, NEW r, IsSeq(q), IsSeq(r), About(q), About(r)
        PROVE  IsSeq(q \o r) /\ About(q \o r)
    BY <2>1, SeqJoin, SeqParts
  <2> HIDE DEF lost, output, done, About
  <2>2. IsSeq(lost \o output) /\ About(lost \o output)
    BY <1>2, <2>1
  <2>3. IsSeq((lost \o output) \o done) /\ About((lost \o output) \o done)
    BY <1>2, <2>1, <2>2
  <2> QED BY <2>3
<1>4. IsSeq(toPage) /\ ShellShape /\ HubShape /\ ToPageShape
  BY DEF TInv, Shape, ToPageShape
<1>5. /\ IsSeq(toPage') /\ (~up => toPage' = toPage)
      /\ \A i \in DOMAIN toPage' :
           \/ i \in DOMAIN toPage /\ toPage'[i] = toPage[i]
           \/ /\ toPage'[i].op \in {"lost", "bytes", "subscribed"} /\ toPage'[i].shell = s
              /\ toPage'[i].op \in {"bytes", "subscribed"} => toPage'[i].tag = k
  <2> HIDE DEF ms
  <2> QED BY <1>1, <1>3, <1>4, SendParts
<1>6. ToPageShape'
  BY <1>4, <1>5 DEF ToPageShape
<1>7. made.conn = conn /\ made.tag = k /\ {"conn", "tag", "heard"} \subseteq DOMAIN made
  OBVIOUS
<1>8. /\ shell' = [t \in Shell |-> shell'[t]]
      /\ \A t \in Shell \ {s} : shell'[t] = shell[t]
      /\ shell'[s].subscribers = shell[s].subscribers \cup {made}
      /\ {"state", "ring", "subscribers", "resilient"} \subseteq DOMAIN shell'[s]
  <2> HIDE DEF made
  <2> QED BY <1>1, <1>4 DEF ShellShape
<1>9. ShellShape'
  <2> HIDE DEF made
  <2>1. IsFiniteSet(shell'[s].subscribers)
    BY <1>4, <1>8, FS_AddElement DEF ShellShape
  <2>2. conn \in Conn /\ conn \in Nat
    BY <1>4, LimitsAssumption DEF HubShape, Conn
  <2>3. \A u \in shell'[s].subscribers :
          /\ {"conn", "tag", "heard"} \subseteq DOMAIN u
          /\ u.conn \in Conn /\ u.conn <= conn /\ u.tag \in Tag
    BY <1>4, <1>7, <1>8, <2>2 DEF ShellShape
  <2> QED BY <1>4, <1>8, <2>1, <2>3 DEF ShellShape
<1>10. ASSUME NEW j \in Tag, NEW t \in Shell, Means(j, t)'
       PROVE  Means(j, t) \/ (j = k /\ t = s)
  <2> HIDE DEF made
  <2>1. tags'[conn][j] = t => tags[conn][j] = t \/ (j = k /\ t = s)
    BY <1>1, <1>4 DEF HubShape
  <2>2. (\E u \in shell'[t].subscribers : u.conn = conn /\ u.tag = j)
          => Means(j, t) \/ (j = k /\ t = s)
    BY <1>7, <1>8 DEF Means
  <2>3. (\E i \in DOMAIN toPage' : toPage'[i].op \in {"subscribed", "bytes"}
                                    /\ toPage'[i].tag = j /\ toPage'[i].shell = t)
          => Means(j, t) \/ (j = k /\ t = s)
    BY <1>5 DEF Means
  <2> QED BY <1>10, <2>1, <2>2, <2>3 DEF Means
<1> QED BY <1>1, <1>5, <1>6, <1>9, <1>10

LEMMA TermSubscribeKeeps ==
  ASSUME TInv, toHub # <<>>, toHub' = Tail(toHub), handleTermSubscribe(Head(toHub))
  PROVE  TInv'
<1> DEFINE m == Head(toHub)
           s == m.shell
           k == TagFor(s)
<1>1. m.op = "subscribe" /\ UNCHANGED <<conn, up, view>>
  BY DEF handleTermSubscribe
<1>2. /\ ToHubShape' /\ 1 \in DOMAIN toHub /\ Head(toHub) = toHub[1]
      /\ \A j \in DOMAIN toHub' : \E i \in DOMAIN toHub : toHub'[j] = toHub[i]
  BY <1>1, Taken
<1>3. s \in Shell /\ Tag \subseteq Nat /\ LastTag \in Nat /\ conn \in Conn /\ nextTag[conn] \in 0..LastTag + 1
  BY <1>1, <1>2, LimitsAssumption DEF Tag, TInv, Shape, HubShape, ToHubShape
<1>4. ViewShape'
  BY <1>1 DEF TInv, Shape, ViewShape
<1>5. CASE k > LastTag
  <2>1. UNCHANGED <<shell, tags, nextTag, toPage>>
    BY <1>5 DEF handleTermSubscribe
  <2>2. ShellShape' /\ HubShape' /\ ToPageShape' /\ Narrows
    BY <1>1, <2>1 DEF TInv, Shape, ShellShape, HubShape, ToPageShape, Narrows, Means
  <2>3. InputsSafe' /\ StaleTag'
    BY <1>1, <1>2, <2>1, <2>2, InputMovesUp, StaleStays
  <2> QED BY <1>1, <1>2, <1>4, <2>1, <2>2, <2>3, NarrowStep DEF TInv, Shape
<1>6. CASE ~(k > LastTag)
  <2>1. k \in Tag
    BY <1>3, <1>6, TagForParts DEF Tag
  <2>2. nextTag' = [nextTag EXCEPT ![conn] = IF k = @ THEN @ + 1 ELSE @]
    BY <1>6 DEF handleTermSubscribe
  <2>3. nextTag'[conn] \in Nat /\ nextTag[conn] <= nextTag'[conn] /\ k < nextTag'[conn]
    BY <1>3, <2>1, <2>2, TagForParts DEF TInv, Shape, HubShape
  <2>4. /\ ShellShape' /\ ToPageShape'
        /\ tags' = [tags EXCEPT ![conn][k] = s] \/ tags' = tags
        /\ \A j \in Tag : \A t \in Shell : Means(j, t)' => Means(j, t) \/ (j = k /\ t = s)
        /\ \A i \in DOMAIN toPage' : toPage'[i].op = "opened" => \E j \in DOMAIN toPage : toPage[j].op = "opened"
    <3>1. CASE subscribe(s, m.offset, k)
      <4> HIDE DEF s, k
      <4> QED BY <1>1, <1>3, <2>1, <3>1, SubscribeParts
    <3>2. CASE UNCHANGED <<shell, tags, toPage>>
      BY <1>1, <3>2 DEF TInv, Shape, ShellShape, ToPageShape, Means
    <3> QED BY <1>6, <3>1, <3>2 DEF handleTermSubscribe
  <2>5. HubShape'
    <3> HIDE DEF s, k
    <3>1. nextTag' \in [Conn -> 0..LastTag + 1]
      BY <1>3, <2>1, <2>2 DEF TInv, Shape, HubShape, Tag
    <3>2. tags' \in [Conn -> [Tag -> Shell \cup {None}]]
      <4>1. tags \in [Conn -> [Tag -> Shell \cup {None}]] /\ s \in Shell \cup {None} /\ conn \in Conn
        BY <1>3 DEF TInv, Shape, HubShape
      <4>2. [tags EXCEPT ![conn][k] = s] \in [Conn -> [Tag -> Shell \cup {None}]]
        BY <2>1, <4>1
      <4> QED BY <2>4, <4>1, <4>2
    <3>3. Conn \subseteq Nat
      BY LimitsAssumption DEF Conn
    <3>4. ASSUME NEW c \in Conn, c > conn PROVE nextTag'[c] = nextTag[c] /\ tags'[c] = tags[c]
      <4>1. c # conn
        BY <1>3, <3>3, <3>4
      <4>2. nextTag'[c] = nextTag[c]
        BY <2>2, <4>1 DEF TInv, Shape, HubShape
      <4>3. tags'[c] = tags[c]
        BY <2>4, <4>1 DEF TInv, Shape, HubShape
      <4> QED BY <4>2, <4>3
    <3> QED BY <1>1, <3>1, <3>2, <3>4 DEF TInv, Shape, HubShape
  <2>6. GivenOut' /\ TagsMeanOneShell' /\ InputsSafe' /\ StaleTag'
    BY <1>1, <1>2, <1>3, <2>1, <2>3, <2>4, GiveStep
  <2> QED BY <1>2, <1>4, <2>4, <2>5, <2>6 DEF TInv, Shape
<1> QED BY <1>5, <1>6

--------------------------------------------------------------------------------
(* THE PAGE *)

(* The page says something, or nothing new.                                 *)
LEMMA PageSays ==
  ASSUME TInv, UNCHANGED <<shell, tags, nextTag, conn, up>>, ToPageShape', ViewShape', Narrows,
         \A i \in DOMAIN toPage' : \E j \in DOMAIN toPage : toPage'[i] = toPage[j],
         NEW m, Says(<<m>>),
         m.op \in {"subscribe", "close"} => m.shell \in Shell,
         m.op = "input" => /\ m.tag \in Tag /\ m.meant \in Shell \cup {None}
                           /\ \/ /\ m.tag < nextTag[conn]
                                 /\ \A t \in Shell : Means(m.tag, t) => t = m.meant
                              \/ OnlyAbout(m.meant, Len(toHub)),
         \/ view'.tag = None \/ view'.on = conn
         \/ view'.tag = view.tag /\ view'.on = view.on /\ view'.id = view.id
            /\ m.op \notin {"subscribe", "open"}
  PROVE  TInv'
<1>1. IsSeq(toHub) /\ DOMAIN toHub = 1..Len(toHub) /\ Len(toHub) \in Nat
  BY SeqParts DEF TInv, Shape, ToHubShape
<1>2. /\ IsSeq(toHub')
      /\ \A i \in DOMAIN toHub' :
           \/ i \in DOMAIN toHub /\ toHub'[i] = toHub[i]
           \/ up /\ i = Len(toHub) + 1 /\ toHub'[i] = m
      /\ ~up => toHub' = toHub
  BY <1>1, SaysParts
<1>3. ToHubShape'
  BY <1>2 DEF TInv, Shape, ToHubShape
<1>4. ShellShape' /\ HubShape'
  BY DEF TInv, Shape, ShellShape, HubShape
<1>5. InputsSafe'
  <2> SUFFICES ASSUME NEW i \in DOMAIN toHub', toHub'[i].op = "input"
               PROVE  InputSafe(i)'
    BY DEF InputsSafe
  <2>1. PICK g \in Tag, w \in Shell \cup {None} : g = toHub'[i].tag /\ w = toHub'[i].meant
    BY <1>3 DEF ToHubShape
  <2>2. CASE g < nextTag[conn] /\ \A t \in Shell : Means(g, t) => t = w
    BY <2>1, <2>2 DEF InputSafe, Narrows
  <2>3. CASE i \in DOMAIN toHub /\ toHub'[i] = toHub[i] /\ OnlyAbout(w, i)
    <3>1. \A j \in DOMAIN toHub' : j <= i => j \in DOMAIN toHub /\ toHub'[j] = toHub[j]
      BY <1>1, <1>2, <2>3
    <3> QED BY <2>1, <2>3, <3>1 DEF InputSafe, OnlyAbout, Narrows
  <2>4. CASE i = Len(toHub) + 1 /\ toHub'[i] = m /\ OnlyAbout(w, Len(toHub))
    <3>1. \A j \in DOMAIN toHub' : (j \in DOMAIN toHub /\ toHub'[j] = toHub[j]) \/ toHub'[j].op = "input"
      BY <1>2, <2>4
    <3>2. \A j \in DOMAIN toHub' : toHub'[j].op = "subscribe" => toHub'[j].shell = w
      BY <1>1, <2>4, <3>1 DEF OnlyAbout
    <3> QED BY <2>1, <2>4, <3>2 DEF InputSafe, OnlyAbout, Narrows
  <2>5. CASE i \in DOMAIN toHub /\ toHub'[i] = toHub[i]
    <3>1. InputSafe(i)
      BY <2>5 DEF TInv, InputsSafe
    <3> QED BY <2>1, <2>2, <2>3, <2>5, <3>1 DEF InputSafe
  <2>6. CASE i = Len(toHub) + 1 /\ toHub'[i] = m
    BY <2>1, <2>2, <2>4, <2>6
  <2> QED BY <1>2, <2>5, <2>6
<1>6. StaleTag'
  <2> SUFFICES ASSUME view'.tag # None, view'.on # conn
               PROVE  /\ OnlyAbout(view.id, Len(toHub))'
                      /\ \A j \in DOMAIN toHub' : toHub'[j].op # "open"
                      /\ \A i \in DOMAIN toPage' : toPage'[i].op # "opened"
    BY DEF StaleTag
  <2>1. view'.tag = view.tag /\ view'.on = view.on /\ view'.id = view.id /\ m.op \notin {"subscribe", "open"}
    OBVIOUS
  <2>2. /\ OnlyAbout(view.id, Len(toHub))
        /\ \A j \in DOMAIN toHub : toHub[j].op # "open"
        /\ \A i \in DOMAIN toPage : toPage[i].op # "opened"
    BY <2>1 DEF TInv, StaleTag
  <2>3. \A j \in DOMAIN toHub' : /\ toHub'[j].op = "subscribe" => toHub'[j].shell = view.id
                                 /\ toHub'[j].op # "open"
    BY <1>1, <1>2, <2>1, <2>2 DEF OnlyAbout
  <2> QED BY <2>1, <2>2, <2>3 DEF OnlyAbout, Narrows
<1> QED BY <1>3, <1>4, <1>5, <1>6, NarrowStep DEF TInv, Shape

LEMMA PageSilent ==
  ASSUME TInv, UNCHANGED <<shell, tags, nextTag, conn, up, toHub>>, ToPageShape', ViewShape', Narrows,
         \A i \in DOMAIN toPage' : \E j \in DOMAIN toPage : toPage'[i] = toPage[j],
         \/ view'.tag = None \/ view'.on = conn
         \/ view'.tag = view.tag /\ view'.on = view.on /\ view'.id = view.id
  PROVE  TInv'
<1>1. ShellShape' /\ HubShape' /\ ToHubShape'
  BY DEF TInv, Shape, ShellShape, HubShape, ToHubShape
<1>2. InputsSafe'
  BY <1>1, InputStays
<1>3. StaleTag'
  <2>1. CASE view'.tag = None \/ view'.on = conn
    BY <2>1 DEF StaleTag
  <2>2. CASE view'.tag = view.tag /\ view'.on = view.on /\ view'.id = view.id
    BY <2>2, StaleStays
  <2> QED BY <2>1, <2>2
<1> QED BY <1>1, <1>2, <1>3, NarrowStep DEF TInv, Shape

(* What the page believes of a tag on this connection, unless the step      *)
(* changes it or the tag is no more.                                        *)
LEMMA BelievesNoMore ==
  ASSUME TInv, UNCHANGED <<shell, tags, conn>>,
         \A i \in DOMAIN toPage' : \E j \in DOMAIN toPage : toPage'[i] = toPage[j],
         \/ view'.on = None
         \/ view'.on = view.on /\ view'.tag = view.tag /\ view'.learnt = view.learnt
  PROVE  Narrows
<1>1. conn # None
  BY NoneAssumption, LimitsAssumption DEF TInv, Shape, HubShape, Conn
<1>2. ASSUME NEW k \in Tag, NEW s \in Shell, Means(k, s)'
      PROVE  Means(k, s)
  BY <1>1, <1>2 DEF Means
<1> QED BY <1>2 DEF Narrows

LEMMA UserKeeps ==
  ASSUME TInv,
         \/ openTerminal \/ enterTerminal \/ detachTerminal \/ killTerminal
         \/ setTerminalResilient \/ sendTerminalInput
  PROVE  TInv'
<1>1. /\ UNCHANGED <<shell, tags, nextTag, conn, up, toPage>>
      /\ ToPageShape' /\ \A i \in DOMAIN toPage' : \E j \in DOMAIN toPage : toPage'[i] = toPage[j]
  BY DEF TInv, Shape, ToPageShape, Acts, openTerminal, enterTerminal, detachTerminal, killTerminal,
         setTerminalResilient, sendTerminalInput
<1>2. ASSUME view'.tag = None, view'.on = None, view'.id \in Shell \cup {None},
             {"status", "id", "tag", "offset", "learnt", "on"} \subseteq DOMAIN view'
      PROVE  ViewShape' /\ Narrows
  BY <1>1, <1>2, BelievesNoMore DEF ViewShape
<1>3. ASSUME UNCHANGED view PROVE ViewShape' /\ Narrows
  BY <1>1, <1>3, BelievesNoMore DEF TInv, Shape, ViewShape
<1>4. CASE openTerminal
  <2> DEFINE m == [op |-> "open"]
  <2>1. Says(<<m>>) /\ m.op = "open" /\ view' = [Blank EXCEPT !.status = "opening"]
    BY <1>4 DEF openTerminal
  <2>2. view'.tag = None /\ ViewShape' /\ Narrows
    BY <1>2, <2>1 DEF Blank
  <2> HIDE DEF m
  <2> QED BY <1>1, <2>1, <2>2, PageSays
<1>5. CASE enterTerminal
  <2>1. PICK s \in Shell : /\ view' = [Blank EXCEPT !.status = "opening", !.id = s]
                           /\ Says(<<[op |-> "subscribe", shell |-> s, offset |-> 0]>>)
    BY <1>5 DEF enterTerminal
  <2> DEFINE m == [op |-> "subscribe", shell |-> s, offset |-> 0]
  <2>2. Says(<<m>>) /\ m.op = "subscribe" /\ m.shell \in Shell
    BY <2>1
  <2>3. view'.tag = None /\ ViewShape' /\ Narrows
    BY <1>2, <2>1 DEF Blank
  <2> HIDE DEF m
  <2> QED BY <1>1, <2>2, <2>3, PageSays
<1>6. CASE detachTerminal
  <2>1. view'.tag = None /\ ViewShape' /\ Narrows /\ UNCHANGED toHub
    BY <1>2, <1>6 DEF detachTerminal, Blank
  <2> QED BY <1>1, <2>1, PageSilent
<1>7. CASE killTerminal
  <2>1. PICK s \in Shell : /\ Says(<<[op |-> "close", shell |-> s]>>)
                           /\ view' = IF view.id = s THEN Blank ELSE view
    BY <1>7 DEF killTerminal
  <2> DEFINE m == [op |-> "close", shell |-> s]
  <2>2. Says(<<m>>) /\ m.op = "close" /\ m.shell \in Shell
    BY <2>1
  <2>3. ViewShape' /\ Narrows /\ (view'.tag = None \/ view' = view)
    BY <1>2, <1>3, <2>1 DEF Blank
  <2> HIDE DEF m
  <2> QED BY <1>1, <2>2, <2>3, PageSays
<1>8. CASE setTerminalResilient
  <2>1. PICK s \in Shell : /\ Says(<<[op |-> "set_resilient", shell |-> s, resilient |-> ~shell[s].resilient]>>)
                           /\ UNCHANGED view
    BY <1>8 DEF setTerminalResilient
  <2> DEFINE m == [op |-> "set_resilient", shell |-> s, resilient |-> ~shell[s].resilient]
  <2>2. Says(<<m>>) /\ m.op = "set_resilient"
    BY <2>1
  <2> HIDE DEF m
  <2> QED BY <1>1, <1>3, <2>1, <2>2, PageSays
<1>9. CASE sendTerminalInput
  <2> DEFINE w == IF view.on = conn THEN view.learnt ELSE view.id
             m == [op |-> "input", tag |-> view.tag, meant |-> w]
  <2>1. view.tag # None /\ Says(<<m>>) /\ UNCHANGED view
    BY <1>9 DEF sendTerminalInput
  <2>2. m.op = "input" /\ m.tag = view.tag /\ m.meant = w
    OBVIOUS
  <2>3. view.tag \in Tag /\ w \in Shell \cup {None} /\ view.learnt \in Shell
    BY <2>1 DEF TInv, Shape, ViewShape
  <2>4. CASE view.on = conn
    <3>1. Means(view.tag, view.learnt)
      BY <2>4 DEF Means
    <3>2. view.tag < nextTag[conn] /\ \A t \in Shell : Means(view.tag, t) => t = w
      BY <2>3, <2>4, <3>1 DEF TInv, GivenOut, TagsMeanOneShell
    <3> HIDE DEF m, w
    <3> QED BY <1>1, <1>3, <2>1, <2>2, <2>3, <3>2, PageSays
  <2>5. CASE view.on # conn
    <3>1. OnlyAbout(w, Len(toHub))
      BY <2>1, <2>5 DEF TInv, StaleTag
    <3> HIDE DEF m, w
    <3> QED BY <1>1, <1>3, <2>1, <2>2, <2>3, <3>1, PageSays
  <2> QED BY <2>4, <2>5
<1> QED BY <1>4, <1>5, <1>6, <1>7, <1>8, <1>9

LEMMA FromTheHub ==
  ASSUME TInv, up, toPage # <<>>, toPage' = Tail(toPage), UNCHANGED up
  PROVE  /\ ToPageShape' /\ 1 \in DOMAIN toPage /\ Head(toPage) = toPage[1]
         /\ \A i \in DOMAIN toPage' : \E j \in DOMAIN toPage : toPage'[i] = toPage[j]
<1>1. IsSeq(toPage)
  BY DEF TInv, Shape, ToPageShape
<1>2. /\ IsSeq(toPage') /\ Head(toPage) = toPage[1] /\ 1 \in DOMAIN toPage
      /\ \A i \in DOMAIN toPage' : i + 1 \in DOMAIN toPage /\ toPage'[i] = toPage[i + 1]
  BY <1>1, SeqTail
<1> QED BY <1>2 DEF TInv, Shape, ToPageShape

LEMMA EnvelopeKeeps == ASSUME TInv, applyServerEnvelope PROVE TInv'
<1> DEFINE m == toPage[1]
<1>1. up /\ toPage # <<>> /\ toPage' = Tail(toPage) /\ UNCHANGED <<shell, tags, nextTag, conn, up>>
  BY DEF applyServerEnvelope
<1>2. /\ ToPageShape' /\ 1 \in DOMAIN toPage /\ Head(toPage) = m
      /\ \A i \in DOMAIN toPage' : \E j \in DOMAIN toPage : toPage'[i] = toPage[j]
  BY <1>1, FromTheHub
<1>3. /\ m.op \in {"opened", "subscribed", "bytes"} => m.shell \in Shell
      /\ m.op \in {"subscribed", "bytes"} => m.tag \in Tag
  BY <1>2 DEF TInv, Shape, ToPageShape
<1>4. ASSUME UNCHANGED view PROVE ViewShape' /\ Narrows
  BY <1>1, <1>2, <1>4, BelievesNoMore DEF TInv, Shape, ViewShape
<1>5. CASE TermOpened(m)
  <2> DEFINE n == [op |-> "subscribe", shell |-> m.shell, offset |-> 0]
  <2>1. m.op = "opened" /\ Says(<<n>>) /\ view' = [view EXCEPT !.id = m.shell, !.offset = 0]
    BY <1>5 DEF TermOpened
  <2>2. n.op = "subscribe" /\ n.shell \in Shell
    BY <1>3, <2>1
  <2>3. view'.tag = view.tag /\ view'.on = view.on /\ view'.learnt = view.learnt /\ ViewShape'
    BY <1>1, <1>3, <2>1 DEF TInv, Shape, ViewShape
  <2>4. Narrows
    BY <1>1, <1>2, <2>3, BelievesNoMore
  <2>5. view'.tag = None \/ view'.on = conn
    BY <1>2, <2>1, <2>3 DEF TInv, StaleTag
  <2> HIDE DEF n
  <2> QED BY <1>1, <1>2, <2>1, <2>2, <2>3, <2>4, <2>5, PageSays
<1>6. CASE TermSubscribed(m)
  <2>1. m.op = "subscribed" /\ UNCHANGED toHub
    BY <1>6 DEF TermSubscribed
  <2>2. CASE m.shell = view.id
    <3>1. view' = [view EXCEPT !.tag = m.tag, !.status = "live", !.learnt = view.id, !.on = conn]
      BY <1>6, <2>2 DEF TermSubscribed
    <3>2. /\ view'.tag = m.tag /\ view'.on = conn /\ view'.learnt = m.shell
          /\ view'.id = view.id /\ DOMAIN view' = DOMAIN view
      BY <2>2, <3>1 DEF TInv, Shape, ViewShape
    <3>3. conn \in Conn /\ conn <= conn
      BY LimitsAssumption DEF TInv, Shape, HubShape, Conn
    <3>4. ViewShape'
      BY <1>1, <1>3, <2>1, <3>2, <3>3, NoneAssumption, LimitsAssumption DEF TInv, Shape, ViewShape, Tag
    <3>5. Means(m.tag, m.shell)
      BY <1>2, <2>1 DEF Means
    <3>6. ASSUME NEW k \in Tag, NEW t \in Shell, Means(k, t)' PROVE Means(k, t)
      <4>1. CASE view'.on = conn /\ view'.tag = k /\ view'.learnt = t
        BY <3>2, <3>5, <4>1
      <4>2. CASE ~(view'.on = conn /\ view'.tag = k /\ view'.learnt = t)
        BY <1>1, <1>2, <3>6, <4>2 DEF Means
      <4> QED BY <4>1, <4>2
    <3>7. Narrows
      BY <3>6 DEF Narrows
    <3> QED BY <1>1, <1>2, <2>1, <3>2, <3>4, <3>7, PageSilent
  <2>3. CASE m.shell # view.id
    <3>1. UNCHANGED view
      BY <1>6, <2>3 DEF TermSubscribed
    <3> QED BY <1>1, <1>2, <1>4, <2>1, <3>1, PageSilent
  <2> QED BY <2>2, <2>3
<1>7. CASE TermLost(m)
  BY <1>1, <1>2, <1>4, <1>7, PageSilent DEF TermLost
<1>8. CASE TermExit(m)
  <2>1. UNCHANGED toHub
    BY <1>8 DEF TermExit
  <2>2. CASE m.shell = view.id
    <3>1. view' = [view EXCEPT !.status = "exited", !.id = None, !.tag = None, !.learnt = None, !.on = None]
      BY <1>8, <2>2 DEF TermExit
    <3>2. view'.tag = None /\ view'.on = None /\ view'.id = None /\ DOMAIN view' = DOMAIN view
      BY <3>1 DEF TInv, Shape, ViewShape
    <3>3. ViewShape' /\ Narrows
      BY <1>1, <1>2, <3>2, BelievesNoMore DEF TInv, Shape, ViewShape
    <3> QED BY <1>1, <1>2, <2>1, <3>2, <3>3, PageSilent
  <2>3. CASE m.shell # view.id
    <3>1. UNCHANGED view
      BY <1>8, <2>3 DEF TermExit
    <3> QED BY <1>1, <1>2, <1>4, <2>1, <3>1, PageSilent
  <2> QED BY <2>2, <2>3
<1>9. CASE handleTerminalBinary(m)
  <2>1. UNCHANGED toHub
    BY <1>9 DEF handleTerminalBinary
  <2>2. /\ view'.tag = view.tag /\ view'.on = view.on /\ view'.id = view.id
        /\ view'.learnt = view.learnt /\ DOMAIN view' = DOMAIN view
    BY <1>9 DEF handleTerminalBinary, TInv, Shape, ViewShape
  <2>3. ViewShape' /\ Narrows
    BY <1>1, <1>2, <2>2, BelievesNoMore DEF TInv, Shape, ViewShape
  <2> QED BY <1>1, <1>2, <2>1, <2>2, <2>3, PageSilent
<1> QED BY <1>2, <1>5, <1>6, <1>7, <1>8, <1>9 DEF applyServerEnvelope

(* On a new connection no tag means anything.                               *)
LEMMA ConnectKeeps == ASSUME TInv, connect PROVE TInv'
<1>1. /\ ~up /\ conn < MaxConn /\ conn' = conn + 1 /\ up' = TRUE
      /\ UNCHANGED <<shell, tags, nextTag, toPage, view>>
  BY DEF connect
<1>2. /\ toPage = <<>> /\ MaxConn \in Nat /\ conn \in Nat /\ 1 <= conn /\ Conn \subseteq Nat /\ None \notin Nat
      /\ conn' \in Conn /\ conn' \in Nat /\ Tag \subseteq Nat
  BY <1>1, NoneAssumption, LimitsAssumption DEF TInv, Shape, HubShape, ToPageShape, Conn, Tag
<1>3. \/ toHub' = <<>>
      \/ view.id # None /\ toHub' = <<[op |-> "subscribe", shell |-> view.id, offset |-> view.offset]>>
  BY DEF connect
<1>4. /\ IsSeq(toHub') /\ \A i \in DOMAIN toHub' : toHub'[i].op = "subscribe" /\ toHub'[i].shell = view.id
      /\ toHub' # <<>> => view.id \in Shell
  <2>1. CASE toHub' = <<>>
    BY <2>1, SeqNone
  <2>2. CASE toHub' # <<>>
    <3> DEFINE m == [op |-> "subscribe", shell |-> view.id, offset |-> view.offset]
    <3>1. toHub' = <<m>> /\ m.op = "subscribe" /\ m.shell = view.id
      BY <1>3, <2>2
    <3>2. view.id \in Shell
      BY <1>3, <2>2 DEF TInv, Shape, ViewShape
    <3> HIDE DEF m
    <3> QED BY <3>1, <3>2, SeqOne
  <2> QED BY <2>1, <2>2
<1>5. ToHubShape' /\ ToPageShape'
  BY <1>1, <1>2, <1>4, SeqNone DEF ToHubShape, ToPageShape
<1>6. ShellShape'
  BY <1>1, <1>2 DEF TInv, Shape, ShellShape
<1>7. HubShape'
  BY <1>1, <1>2 DEF TInv, Shape, HubShape
<1>8. ViewShape'
  <2>1. view.tag # None => view.on \in Conn /\ view.on <= conn'
    <3> SUFFICES ASSUME view.tag # None PROVE view.on \in Conn /\ view.on <= conn'
      OBVIOUS
    <3>1. view.on \in Conn /\ view.on <= conn /\ view.on \in Nat
      BY <1>2 DEF TInv, Shape, ViewShape
    <3> QED BY <1>1, <1>2, <3>1
  <2> QED BY <1>1, <2>1 DEF TInv, Shape, ViewShape
<1>9. ASSUME NEW k \in Tag, NEW s \in Shell PROVE ~Means(k, s)'
  <2>1. tags'[conn'][k] # s
    BY <1>1, <1>2, NoneAssumption DEF TInv, Shape, HubShape
  <2>2. \A u \in shell'[s].subscribers : u.conn # conn'
    BY <1>1, <1>2 DEF TInv, Shape, ShellShape
  <2>3. toPage' = <<>>
    BY <1>1, <1>2
  <2>4. view'.on # conn'
    <3>1. CASE view.tag = None
      BY <1>1, <1>2, <3>1 DEF TInv, Shape, ViewShape
    <3>2. CASE view.tag # None
      BY <1>1, <1>2, <3>2 DEF TInv, Shape, ViewShape
    <3> QED BY <3>1, <3>2
  <2> QED BY <2>1, <2>2, <2>3, <2>4, SeqNone DEF Means
<1>10. GivenOut' /\ TagsMeanOneShell'
  BY <1>9 DEF GivenOut, TagsMeanOneShell
<1>11. InputsSafe'
  BY <1>4 DEF InputsSafe
<1>12. StaleTag'
  <2>1. OnlyAbout(view.id, Len(toHub))'
    BY <1>1, <1>4, <1>9 DEF OnlyAbout
  <2> QED BY <1>1, <1>2, <1>4, <2>1, SeqNone DEF StaleTag
<1> QED BY <1>5, <1>6, <1>7, <1>8, <1>10, <1>11, <1>12 DEF TInv, Shape

--------------------------------------------------------------------------------
(* THE INVARIANT *)

LEMMA InitTInv == ASSUME Init PROVE TInv
<1>0. Conn \subseteq Nat /\ Tag \subseteq Nat /\ LastTag \in Nat
  BY LimitsAssumption DEF Conn, Tag
<1>1. ShellShape
  BY FS_EmptySet DEF Init, ShellShape, Unborn
<1>2. HubShape
  BY <1>0, LimitsAssumption DEF Init, HubShape, Conn
<1>3. IsSeq(toHub) /\ IsSeq(toPage) /\ DOMAIN toHub = {} /\ DOMAIN toPage = {}
  BY SeqNone DEF Init
<1>4. ToHubShape /\ ToPageShape
  BY <1>3 DEF Init, ToHubShape, ToPageShape
<1>5. ViewShape
  BY DEF Init, ViewShape, Blank
<1>6. ASSUME NEW k \in Tag, NEW s \in Shell PROVE ~Means(k, s)
  <2>1. conn = 1 /\ conn # None
    BY NoneAssumption DEF Init
  <2>2. tags[conn][k] # s
    BY NoneAssumption, LimitsAssumption DEF Init, Conn
  <2> QED BY <1>3, <2>1, <2>2 DEF Means, Init, Unborn, Blank
<1> QED BY <1>1, <1>2, <1>3, <1>4, <1>5, <1>6
     DEF TInv, Shape, GivenOut, TagsMeanOneShell, StaleTag, InputsSafe, Init, Blank

LEMMA MessageKeeps == ASSUME TInv, handleMessage PROVE TInv'
<1> DEFINE m == Head(toHub)
<1>1. toHub # <<>> /\ toHub' = Tail(toHub)
  BY DEF handleMessage
<1>2. CASE TermOpen(m)
  BY <1>1, <1>2, TermOpenKeeps
<1>3. CASE handleTermSubscribe(m)
  BY <1>1, <1>3, TermSubscribeKeeps
<1>4. CASE TermClose(m)
  <2>1. 1 \in DOMAIN toHub /\ m = toHub[1] /\ m.op = "close"
    BY <1>1, <1>4, SeqTail DEF TermClose, TInv, Shape, ToHubShape
  <2>2. m.shell \in Shell
    BY <2>1 DEF TInv, Shape, ToHubShape
  <2> QED BY <1>1, <1>4, <2>2, TermCloseKeeps
<1>5. CASE TermSetResilient(m)
  BY <1>1, <1>5, TermSetResilientKeeps
<1>6. CASE handleBinaryFrame(m)
  BY <1>1, <1>6, BinaryFrameKeeps
<1> QED BY <1>2, <1>3, <1>4, <1>5, <1>6 DEF handleMessage

LEMMA NextTInv == ASSUME TInv, [Next]_vars PROVE TInv'
<1>1. CASE \E s \in Shell : Output(s) \/ Exits(s) \/ reapIdle(s)
  BY <1>1, OutputKeeps, EndKeeps
<1>2. CASE closeAll
  BY <1>2, CloseAllKeeps
<1>3. CASE handleMessage
  BY <1>3, MessageKeeps
<1>4. CASE \E c \in Conn : detachAllTerminals(c)
  BY <1>4, DetachAllKeeps
<1>5. CASE User
  BY <1>5, UserKeeps DEF User
<1>6. CASE Page
  BY <1>6, EnvelopeKeeps, ConnectKeeps DEF Page
<1>7. CASE Drops
  BY <1>7, DropsKeeps
<1>8. CASE UNCHANGED vars
  BY <1>8 DEF vars, TInv, Shape, ShellShape, HubShape, ToHubShape, ToPageShape, ViewShape, GivenOut,
       TagsMeanOneShell, StaleTag, InputsSafe, InputSafe, OnlyAbout, Means
<1> QED BY <1>1, <1>2, <1>3, <1>4, <1>5, <1>6, <1>7, <1>8 DEF Next, Host, Hub

(* A tag means something only when it was given out, one left from an       *)
(* earlier connection has nothing behind it but the terminal in view, and   *)
(* input on its way is safe (wsHub.ts 699-754, vimesStore.ts 1279-1361).    *)
THEOREM TagInvariant == Spec => []TInv
<1>1. Init => TInv
  BY InitTInv
<1>2. TInv /\ [Next]_vars => TInv'
  BY NextTInv
<1> QED BY <1>1, <1>2, PTL DEF Spec

(* For any number of shells, connections, tags and messages in flight, a    *)
(* tag of a connection means one shell (wsHub.ts 699-736: a tag is never    *)
(* given out twice on a connection).                                        *)
THEOREM TagsAreUnambiguous == Spec => []TagsMeanOneShell
BY TagInvariant, PTL DEF TInv

(* For any number of them, the keystroke at the head of the queue is        *)
(* written to the shell it is meant for, or to none (wsHub.ts 738-754,      *)
(* vimesStore.ts 1711-1716).                                                *)
THEOREM KeystrokesArrive == Spec => []KeystrokesReachTheirShell
<1>1. TInv => KeystrokesReachTheirShell
  <2> SUFFICES ASSUME TInv, toHub # <<>>, Head(toHub).op = "input"
               PROVE  tags[conn][Head(toHub).tag] \in {Head(toHub).meant, None}
    BY DEF KeystrokesReachTheirShell
  <2> DEFINE m == toHub[1]
             s == tags[conn][m.tag]
  <2>1. 1 \in DOMAIN toHub /\ Head(toHub) = m /\ m.op = "input"
    BY SeqTail DEF TInv, Shape, ToHubShape
  <2>2. m.tag \in Tag /\ InputSafe(1)
    BY <2>1 DEF TInv, Shape, ToHubShape, InputsSafe
  <2>3. s \in Shell \cup {None}
    BY <2>2 DEF TInv, Shape, HubShape
  <2>4. s \in Shell => s = m.meant
    <3>1. ASSUME s \in Shell PROVE Means(m.tag, s)
      BY DEF Means
    <3>2. ASSUME s \in Shell PROVE s = m.meant
      <4> HIDE DEF s
      <4> QED BY <2>2, <3>1, <3>2 DEF InputSafe, OnlyAbout
    <3> QED BY <3>2
  <2> QED BY <2>1, <2>3, <2>4
<1> QED BY <1>1, TagInvariant, PTL

--------------------------------------------------------------------------------
(* INDUCTION, AND WHAT THE CHUNKS OF A RING HOLD *)

(* The library's induction theorems take an operator, which no prover here  *)
(* instantiates; a set of naturals does.                                    *)
LEMMA Induction == ASSUME NEW T, 0 \in T, \A n \in Nat : n \in T => n + 1 \in T
                   PROVE  Nat \subseteq T
<1> DEFINE R == {p \in Nat \X Nat : p[1] < p[2]}
<1> DEFINE U == Nat \ T
<1> SUFFICES ASSUME U # {} PROVE FALSE
  OBVIOUS
<1>1. IsWellFoundedOn(R, Nat)
  BY NatLessThanWellFounded DEF OpToRel
<1>2. PICK x \in U : \A y \in U : <<y, x>> \notin R
  <2> HIDE DEF R
  <2>1. U \subseteq Nat
    OBVIOUS
  <2> HIDE DEF U
  <2> QED BY <2>1, <1>1, WFMin
<1>3. x \in Nat /\ x # 0 /\ x - 1 \in Nat /\ x - 1 < x
  OBVIOUS
<1>4. <<x - 1, x>> \in R
  BY <1>3
<1>5. x - 1 \notin U
  BY <1>2, <1>4
<1> QED BY <1>3, <1>5

Bytes == Seq(Nat)

(* The recursive function under FlattenSeq, and that there is one.          *)
Joining(f, q, n) == f = [i \in 1..n |-> IF i = 1 THEN q[i] ELSE f[i - 1] \o q[i]]

LEMMA JoiningExists == ASSUME NEW q, NEW n \in Nat PROVE \E f : Joining(f, q, n)
<1> DEFINE T == {k \in Nat : \E f : Joining(f, q, k)}
<1>1. 0 \in T
  <2> DEFINE f == [i \in {} |-> q[i]]
  <2>1. 1..0 = {}
    OBVIOUS
  <2>2. Joining(f, q, 0)
    BY <2>1, Zenon DEF Joining
  <2> QED BY <2>2
<1>2. \A k \in Nat : k \in T => k + 1 \in T
  <2> TAKE k \in Nat
  <2> HAVE k \in T
  <2>1. PICK f : Joining(f, q, k)
    OBVIOUS
  <2> DEFINE g == [i \in 1..k + 1 |->
                     IF i <= k THEN f[i] ELSE IF i = 1 THEN q[i] ELSE f[i - 1] \o q[i]]
  <2>2. ASSUME NEW i \in 1..k + 1
        PROVE  g[i] = IF i = 1 THEN q[i] ELSE g[i - 1] \o q[i]
    <3>1. CASE i = 1
      BY <2>1, <3>1 DEF Joining
    <3>2. CASE i # 1
      <4>1. i - 1 \in 1..k /\ i - 1 \in 1..k + 1 /\ g[i - 1] = f[i - 1]
        BY <3>2
      <4>2. CASE i <= k
        <5>1. i \in 1..k /\ g[i] = f[i]
          BY <4>2
        <5>2. f[i] = IF i = 1 THEN q[i] ELSE f[i - 1] \o q[i]
          BY <2>1, <5>1 DEF Joining
        <5> HIDE DEF g
        <5> QED BY <3>2, <4>1, <5>1, <5>2
      <4>3. CASE ~(i <= k)
        BY <3>2, <4>1, <4>3
      <4> QED BY <4>2, <4>3
    <3> QED BY <3>1, <3>2
  <2>3. Joining(g, q, k + 1)
    <3>1. g = [i \in 1..k + 1 |-> g[i]]
      OBVIOUS
    <3> HIDE DEF g
    <3> QED BY <2>2, <3>1 DEF Joining
  <2> QED BY <2>3
<1> HIDE DEF T
<1>3. n \in T
  BY <1>1, <1>2, Induction
<1> QED BY <1>3 DEF T

(* a[k] is what the first k chunks of q hold.                               *)
Glued(a, q, n) == a[0] = <<>> /\ \A k \in 0..n - 1 : a[k + 1] = a[k] \o q[k + 1]

LEMMA FlattenIsGlued ==
  ASSUME NEW q \in Seq(Bytes)
  PROVE  \E a : Glued(a, q, Len(q)) /\ FlattenSeq(q) = a[Len(q)]
<1> DEFINE n == Len(q)
<1> DEFINE f == CHOOSE f : Joining(f, q, n)
<1>1. n \in Nat /\ \A i \in 1..n : q[i] \in Bytes
  OBVIOUS
<1>2. Joining(f, q, n)
  BY <1>1, JoiningExists
<1>3. n # 0 => FlattenSeq(q) = f[n]
  BY DEF FlattenSeq, Joining
<1>4. n = 0 => FlattenSeq(q) = <<>>
  BY DEF FlattenSeq
<1> HIDE DEF f
<1> DEFINE a == [k \in 0..n |-> IF k = 0 THEN <<>> ELSE f[k]]
<1>5. ASSUME NEW k \in 0..n - 1 PROVE a[k + 1] = a[k] \o q[k + 1]
  <2>1. k + 1 \in 1..n /\ q[k + 1] \in Bytes /\ a[k + 1] = f[k + 1] /\ a[k] = IF k = 0 THEN <<>> ELSE f[k]
    BY <1>1
  <2>2. f[k + 1] = IF k + 1 = 1 THEN q[k + 1] ELSE f[k] \o q[k + 1]
    BY <1>1, <1>2, <2>1 DEF Joining
  <2>3. <<>> \o q[k + 1] = q[k + 1]
    BY <2>1 DEF Bytes
  <2> QED BY <2>1, <2>2, <2>3
<1>6. a[0] = <<>> /\ (n # 0 => a[n] = f[n])
  BY <1>1
<1> HIDE DEF a, n
<1>7. Glued(a, q, n)
  BY <1>5, <1>6 DEF Glued
<1>8. FlattenSeq(q) = a[n]
  <2>1. CASE n = 0
    BY <1>4, <1>6, <2>1
  <2>2. CASE n # 0
    BY <1>3, <1>6, <2>2
  <2> QED BY <2>1, <2>2
<1> QED BY <1>7, <1>8 DEF n

LEMMA GluedBytes ==
  ASSUME NEW n \in Nat, NEW q, NEW a, Glued(a, q, n), \A i \in 1..n : q[i] \in Bytes
  PROVE  \A k \in 0..n : a[k] \in Bytes
<1> DEFINE T == {k \in Nat : k <= n => a[k] \in Bytes}
<1>1. 0 \in T
  <2>1. a[0] = <<>> /\ <<>> \in Seq(Nat)
    BY DEF Glued
  <2> QED BY <2>1 DEF Bytes
<1>2. \A k \in Nat : k \in T => k + 1 \in T
  <2> SUFFICES ASSUME NEW k \in Nat, k \in T, k + 1 <= n PROVE a[k + 1] \in Bytes
    OBVIOUS
  <2>1. k \in 0..n - 1 /\ k + 1 \in 1..n /\ a[k] \in Bytes
    OBVIOUS
  <2>2. a[k + 1] = a[k] \o q[k + 1] /\ q[k + 1] \in Bytes
    BY <2>1 DEF Glued
  <2> QED BY <2>1, <2>2 DEF Bytes
<1> HIDE DEF T
<1>3. Nat \subseteq T
  BY <1>1, <1>2, Induction
<1> QED BY <1>3 DEF T

LEMMA GluedAgree ==
  ASSUME NEW n \in Nat, NEW p, NEW a, Glued(a, p, n), NEW q, NEW b, Glued(b, q, n),
         \A i \in 1..n : p[i] = q[i]
  PROVE  a[n] = b[n]
<1> DEFINE T == {k \in Nat : k <= n => a[k] = b[k]}
<1>1. 0 \in T
  BY DEF Glued
<1>2. \A k \in Nat : k \in T => k + 1 \in T
  <2> SUFFICES ASSUME NEW k \in Nat, k \in T, k + 1 <= n PROVE a[k + 1] = b[k + 1]
    OBVIOUS
  <2>1. k \in 0..n - 1 /\ k + 1 \in 1..n /\ a[k] = b[k]
    OBVIOUS
  <2> QED BY <2>1 DEF Glued
<1> HIDE DEF T
<1>3. n \in T
  BY <1>1, <1>2, Induction
<1> QED BY <1>3 DEF T

LEMMA FlattenNone == FlattenSeq(<<>>) = <<>>
BY DEF FlattenSeq

LEMMA FlattenBytes == ASSUME NEW q \in Seq(Bytes) PROVE FlattenSeq(q) \in Bytes
<1>1. PICK a : Glued(a, q, Len(q)) /\ FlattenSeq(q) = a[Len(q)]
  BY FlattenIsGlued
<1>2. Len(q) \in Nat /\ \A i \in 1..Len(q) : q[i] \in Bytes
  OBVIOUS
<1> QED BY <1>1, <1>2, GluedBytes

LEMMA FlattenOneMore ==
  ASSUME NEW q \in Seq(Bytes), NEW b \in Bytes
  PROVE  FlattenSeq(Append(q, b)) = FlattenSeq(q) \o b
<1> DEFINE n == Len(q)
<1> DEFINE r == Append(q, b)
<1>1. n \in Nat /\ r \in Seq(Bytes) /\ Len(r) = n + 1 /\ r[n + 1] = b /\ \A i \in 1..n : r[i] = q[i]
  OBVIOUS
<1> HIDE DEF r
<1>2. PICK a : Glued(a, q, n) /\ FlattenSeq(q) = a[n]
  BY FlattenIsGlued
<1>3. PICK c : Glued(c, r, n + 1) /\ FlattenSeq(r) = c[n + 1]
  BY <1>1, FlattenIsGlued
<1> HIDE DEF n
<1>4. Glued(c, r, n) /\ c[n + 1] = c[n] \o b
  <2>1. (n + 1) - 1 = n /\ n \in 0..n /\ \A k \in 0..n - 1 : k \in 0..n
    BY <1>1
  <2>2. c[0] = <<>> /\ \A k \in 0..n : c[k + 1] = c[k] \o r[k + 1]
    BY <1>3, <2>1 DEF Glued
  <2> QED BY <1>1, <2>1, <2>2 DEF Glued
<1>5. a[n] = c[n]
  BY <1>1, <1>2, <1>4, GluedAgree
<1> QED BY <1>2, <1>3, <1>4, <1>5 DEF r

LEMMA JoinAssociates ==
  ASSUME NEW x \in Bytes, NEW y \in Bytes, NEW z \in Bytes
  PROVE  (x \o y) \o z = x \o (y \o z)
BY DEF Bytes

LEMMA TailFacts == ASSUME NEW S, NEW q \in Seq(S), q # <<>>
                   PROVE  /\ Tail(q) \in Seq(S) /\ Len(Tail(q)) = Len(q) - 1
                          /\ Head(q) = q[1] /\ Head(q) \in S /\ Len(q) \in Nat \ {0}
                          /\ \A i \in 1..Len(q) - 1 : Tail(q)[i] = q[i + 1]
OBVIOUS

LEMMA NoneIfShort == ASSUME NEW S, NEW q \in Seq(S), Len(q) = 0 PROVE q = <<>>
OBVIOUS

LEMMA FlattenHead ==
  ASSUME NEW q \in Seq(Bytes), q # <<>>
  PROVE  FlattenSeq(q) = Head(q) \o FlattenSeq(Tail(q))
<1> DEFINE Holds(k) == \A p \in Seq(Bytes) : Len(p) = k + 1 =>
                         FlattenSeq(p) = Head(p) \o FlattenSeq(Tail(p))
<1> DEFINE T == {k \in Nat : Holds(k)}
<1>1. 0 \in T
  <2> SUFFICES ASSUME NEW p \in Seq(Bytes), Len(p) = 1
               PROVE  FlattenSeq(p) = Head(p) \o FlattenSeq(Tail(p))
    OBVIOUS
  <2> HIDE DEF Holds, T
  <2> DEFINE one == Append(<<>>, Head(p))
  <2>0. Head(p) = p[1] /\ p[1] \in Bytes /\ <<>> \in Seq(Bytes)
    OBVIOUS
  <2>9. Tail(p) = <<>>
    <3>1. p # <<>>
      <4> HIDE DEF one
      <4> SUFFICES ASSUME p = <<>> PROVE FALSE
        OBVIOUS
      <4>1. Len(p) = Len(<<>>) /\ Len(<<>>) = 0
        OBVIOUS
      <4> QED BY <4>1
    <3>2. Tail(p) \in Seq(Bytes) /\ Len(Tail(p)) = Len(p) - 1
      BY <3>1, TailFacts
    <3>3. Len(Tail(p)) = 0
      BY <3>2
    <3> QED BY <3>2, <3>3, NoneIfShort
  <2>8. one \in Seq(Bytes) /\ Len(one) = 1 /\ one[1] = p[1]
    BY <2>0
  <2>7. p = one
    <3>1. \A i \in 1..1 : p[i] = one[i]
      BY <2>8
    <3> HIDE DEF one
    <3> QED BY <2>8, <3>1
  <2>1. p = Append(<<>>, Head(p)) /\ Tail(p) = <<>> /\ Head(p) \in Bytes /\ <<>> \in Seq(Bytes)
    <3> QED BY <2>0, <2>7, <2>9
  <2>2. <<>> \o Head(p) = Head(p) /\ Head(p) \o <<>> = Head(p)
    BY <2>1 DEF Bytes
  <2>3. FlattenSeq(Append(<<>>, Head(p))) = FlattenSeq(<<>>) \o Head(p)
    BY <2>1, FlattenOneMore
  <2> QED BY <2>1, <2>2, <2>3, FlattenNone
<1>2. \A k \in Nat : k \in T => k + 1 \in T
  <2> SUFFICES ASSUME NEW k \in Nat, Holds(k), NEW p \in Seq(Bytes), Len(p) = k + 2
               PROVE  FlattenSeq(p) = Head(p) \o FlattenSeq(Tail(p))
    OBVIOUS
  <2> HIDE DEF T
  <2> DEFINE r == SubSeq(p, 1, k + 1)
  <2> DEFINE e == p[k + 2]
  <2>5. /\ r \in Seq(Bytes) /\ Len(r) = k + 1 /\ e \in Bytes
        /\ \A i \in 1..k + 1 : r[i] = p[i]
    OBVIOUS
  <2> HIDE DEF r
  <2>6. /\ Head(r) = r[1] /\ r[1] = p[1] /\ Head(p) = p[1] /\ r[1] \in Bytes
        /\ Tail(r) \in Seq(Bytes) /\ Len(Tail(r)) = k /\ \A i \in 1..k : Tail(r)[i] = r[i + 1]
        /\ Tail(p) \in Seq(Bytes) /\ Len(Tail(p)) = k + 1 /\ \A i \in 1..k + 1 : Tail(p)[i] = p[i + 1]
    BY <2>5
  <2>7. p = Append(r, e)
    <3> DEFINE s == Append(r, e)
    <3>1. s \in Seq(Bytes) /\ Len(s) = k + 2 /\ s[k + 2] = e /\ \A i \in 1..k + 1 : s[i] = r[i]
      BY <2>5
    <3>2. \A i \in 1..k + 2 : s[i] = p[i]
      BY <2>5, <3>1
    <3> HIDE DEF s
    <3>3. s = p
      BY <3>1, <3>2
    <3> QED BY <3>3 DEF s
  <2>8. Tail(p) = Append(Tail(r), e)
    <3> DEFINE s == Append(Tail(r), e)
    <3>1. s \in Seq(Bytes) /\ Len(s) = k + 1 /\ s[k + 1] = e /\ \A i \in 1..k : s[i] = Tail(r)[i]
      BY <2>5, <2>6
    <3>2. \A i \in 1..k + 1 : s[i] = Tail(p)[i]
      <4> TAKE i \in 1..k + 1
      <4>1. CASE i = k + 1
        <5>1. s[i] = p[k + 2]
          BY <3>1, <4>1
        <5>2. Tail(p)[i] = p[k + 2]
          <6>1. i + 1 = k + 2
            BY <4>1
          <6> QED BY <2>6, <6>1
        <5> QED BY <5>1, <5>2
      <4>2. CASE i \in 1..k
        <5>1. i + 1 \in 1..k + 1 /\ i \in 1..k + 1
          BY <4>2
        <5>2. s[i] = r[i + 1]
          BY <2>6, <3>1, <4>2
        <5>3. Tail(p)[i] = p[i + 1]
          BY <2>6
        <5> QED BY <2>5, <5>1, <5>2, <5>3
      <4>3. i = k + 1 \/ i \in 1..k
        OBVIOUS
      <4> HIDE DEF s
      <4> QED BY <4>1, <4>2, <4>3
    <3> HIDE DEF s
    <3>3. s = Tail(p)
      BY <2>6, <3>1, <3>2
    <3> QED BY <3>3 DEF s
  <2>1. /\ r \in Seq(Bytes) /\ Len(r) = k + 1 /\ e \in Bytes /\ p = Append(r, e)
        /\ Head(r) = Head(p) /\ Head(r) \in Bytes /\ Tail(r) \in Seq(Bytes)
        /\ Tail(p) = Append(Tail(r), e)
    BY <2>5, <2>6, <2>7, <2>8
  <2>2. FlattenSeq(r) = Head(r) \o FlattenSeq(Tail(r))
    BY <2>1
  <2> HIDE DEF r, e
  <2>3. FlattenSeq(p) = FlattenSeq(r) \o e /\ FlattenSeq(Tail(p)) = FlattenSeq(Tail(r)) \o e
    BY <2>1, FlattenOneMore
  <2>4. FlattenSeq(Tail(r)) \in Bytes
    BY <2>1, FlattenBytes
  <2> DEFINE h == Head(p)
  <2> DEFINE t == FlattenSeq(Tail(r))
  <2>9. FlattenSeq(p) = (h \o t) \o e /\ FlattenSeq(Tail(p)) = t \o e /\ h \in Bytes
    BY <2>1, <2>2, <2>3, Zenon
  <2> HIDE DEF h, t
  <2>10. FlattenSeq(p) = h \o FlattenSeq(Tail(p))
    <3>1. t \in Bytes
      BY <2>4 DEF t
    <3>2. (h \o t) \o e = h \o (t \o e)
      BY <2>1, <2>9, <3>1, JoinAssociates
    <3> QED BY <2>9, <3>2, Zenon
  <2> QED BY <2>10 DEF h
<1>3. Len(q) - 1 \in T
  <2>1. Len(q) - 1 \in Nat
    OBVIOUS
  <2> HIDE DEF T
  <2> QED BY <1>1, <1>2, <2>1, Induction
<1>4. Len(q) - 1 + 1 = Len(q)
  OBVIOUS
<1> QED BY <1>3, <1>4

--------------------------------------------------------------------------------
(* STRETCHES OF OUTPUT *)

LEMMA FromFacts ==
  ASSUME NEW a \in Nat, NEW b \in Nat, a <= b
  PROVE  /\ From(a, b) \in Bytes /\ Len(From(a, b)) = b - a
         /\ \A i \in 1..b - a : From(a, b)[i] = a + i - 1
<1>1. b - a \in Nat /\ \A i \in 1..b - a : a + i - 1 \in Nat
  OBVIOUS
<1>2. From(a, b) \in [1..b - a -> Nat]
  BY <1>1 DEF From
<1>3. \A i \in 1..b - a : From(a, b)[i] = a + i - 1
  BY DEF From
<1> HIDE DEF From
<1> QED BY <1>1, <1>2, <1>3 DEF Bytes

LEMMA SameBytes ==
  ASSUME NEW x \in Bytes, NEW y \in Bytes, Len(x) = Len(y), \A i \in 1..Len(x) : x[i] = y[i]
  PROVE  x = y
BY DEF Bytes

LEMMA JoinFacts ==
  ASSUME NEW x \in Bytes, NEW y \in Bytes
  PROVE  /\ x \o y \in Bytes /\ Len(x) \in Nat /\ Len(y) \in Nat /\ Len(x \o y) = Len(x) + Len(y)
         /\ \A i \in 1..Len(x) : (x \o y)[i] = x[i]
         /\ \A i \in 1..Len(y) : (x \o y)[Len(x) + i] = y[i]
BY DEF Bytes

LEMMA CutFacts ==
  ASSUME NEW x \in Bytes, NEW k \in 0..Len(x)
  PROVE  /\ SubSeq(x, k + 1, Len(x)) \in Bytes
         /\ Len(SubSeq(x, k + 1, Len(x))) = Len(x) - k
         /\ \A i \in 1..Len(x) - k : SubSeq(x, k + 1, Len(x))[i] = x[k + i]
BY DEF Bytes

LEMMA FromJoin ==
  ASSUME NEW a \in Nat, NEW b \in Nat, NEW c \in Nat, a <= b, b <= c
  PROVE  From(a, b) \o From(b, c) = From(a, c)
<1> DEFINE x == From(a, b)
<1> DEFINE y == From(b, c)
<1> DEFINE z == From(a, c)
<1>1. /\ x \in Bytes /\ Len(x) = b - a /\ \A i \in 1..b - a : x[i] = a + i - 1
      /\ y \in Bytes /\ Len(y) = c - b /\ \A i \in 1..c - b : y[i] = b + i - 1
      /\ z \in Bytes /\ Len(z) = c - a /\ \A i \in 1..c - a : z[i] = a + i - 1
  <2>1. a <= c
    OBVIOUS
  <2> HIDE DEF x, y, z
  <2>2. x \in Bytes /\ Len(x) = b - a /\ \A i \in 1..b - a : x[i] = a + i - 1
    BY FromFacts DEF x
  <2>3. y \in Bytes /\ Len(y) = c - b /\ \A i \in 1..c - b : y[i] = b + i - 1
    BY FromFacts DEF y
  <2>4. z \in Bytes /\ Len(z) = c - a /\ \A i \in 1..c - a : z[i] = a + i - 1
    BY <2>1, FromFacts DEF z
  <2> QED BY <2>2, <2>3, <2>4
<1> HIDE DEF x, y, z
<1> DEFINE j == x \o y
<1>2. /\ j \in Bytes /\ Len(j) = c - a
      /\ \A i \in 1..b - a : j[i] = x[i]
      /\ \A i \in 1..c - b : j[b - a + i] = y[i]
  <2>1. x \in Bytes /\ y \in Bytes /\ Len(x) = b - a /\ Len(y) = c - b /\ b - a + (c - b) = c - a
    BY <1>1
  <2>2. /\ j \in Bytes /\ Len(j) = Len(x) + Len(y)
        /\ \A i \in 1..Len(x) : j[i] = x[i]
        /\ \A i \in 1..Len(y) : j[Len(x) + i] = y[i]
    BY <2>1, JoinFacts
  <2> HIDE DEF j
  <2> QED BY <2>1, <2>2
<1> HIDE DEF j
<1>3. ASSUME NEW i \in 1..c - a PROVE j[i] = z[i]
  <2>1. CASE i <= b - a
    BY <1>1, <1>2, <2>1
  <2>2. CASE ~(i <= b - a)
    <3> DEFINE m == i - (b - a)
    <3>1. m \in 1..c - b /\ b - a + m = i
      BY <2>2
    <3>2. j[b - a + m] = y[m] /\ y[m] = b + m - 1
      BY <1>1, <1>2, <3>1
    <3> QED BY <1>1, <3>1, <3>2
  <2> QED BY <2>1, <2>2
<1>4. j = z
  BY <1>1, <1>2, <1>3, SameBytes
<1> QED BY <1>4 DEF j, x, y, z

LEMMA FromCut ==
  ASSUME NEW a \in Nat, NEW b \in Nat, a <= b, NEW k \in 0..b - a
  PROVE  SubSeq(From(a, b), k + 1, b - a) = From(a + k, b)
<1> DEFINE x == From(a, b)
<1> DEFINE z == From(a + k, b)
<1>1. /\ x \in Bytes /\ Len(x) = b - a /\ \A i \in 1..b - a : x[i] = a + i - 1
  BY FromFacts
<1>2. /\ a + k \in Nat /\ a + k <= b /\ b - (a + k) = b - a - k
      /\ z \in Bytes /\ Len(z) = b - (a + k) /\ \A i \in 1..b - (a + k) : z[i] = a + k + i - 1
  <2>1. a + k \in Nat /\ a + k <= b
    OBVIOUS
  <2> HIDE DEF z
  <2>2. z \in Bytes /\ Len(z) = b - (a + k) /\ \A i \in 1..b - (a + k) : z[i] = a + k + i - 1
    BY <2>1, FromFacts DEF z
  <2> QED BY <2>1, <2>2
<1> HIDE DEF x, z
<1> DEFINE s == SubSeq(x, k + 1, b - a)
<1>3. s \in Bytes /\ Len(s) = b - a - k /\ \A i \in 1..b - a - k : s[i] = x[k + i]
  <2>1. x \in Bytes /\ k \in 0..Len(x) /\ Len(x) = b - a
    BY <1>1
  <2>2. /\ SubSeq(x, k + 1, Len(x)) \in Bytes /\ Len(SubSeq(x, k + 1, Len(x))) = Len(x) - k
        /\ \A i \in 1..Len(x) - k : SubSeq(x, k + 1, Len(x))[i] = x[k + i]
    BY <2>1, CutFacts
  <2>3. s = SubSeq(x, k + 1, Len(x))
    BY <2>1
  <2> HIDE DEF s
  <2> QED BY <2>1, <2>2, <2>3
<1> HIDE DEF s
<1>4. ASSUME NEW i \in 1..Len(s) PROVE s[i] = z[i]
  <2>1. k + i \in 1..b - a
    BY <1>3
  <2>2. s[i] = x[k + i] /\ x[k + i] = a + (k + i) - 1 /\ z[i] = a + k + i - 1
    BY <1>1, <1>2, <1>3, <2>1
  <2> QED BY <2>2
<1>5. s = z
  BY <1>2, <1>3, <1>4, SameBytes
<1> QED BY <1>5 DEF s, x, z

(* What is left of a stretch of the output when its first k bytes go.       *)
LEMMA FromRest ==
  ASSUME NEW a \in Nat, NEW b \in Nat, a <= b, NEW x \in Bytes, NEW y \in Bytes,
         x \o y = From(a, b), NEW k \in 0..Len(x)
  PROVE  /\ SubSeq(x, k + 1, Len(x)) \o y = From(a + k, b)
         /\ y = From(a + Len(x), b) /\ Len(x) <= b - a
<1> DEFINE j == x \o y
<1>1. /\ j \in Bytes /\ Len(x) \in Nat /\ Len(y) \in Nat /\ Len(j) = Len(x) + Len(y)
      /\ \A i \in 1..Len(x) : j[i] = x[i]
      /\ \A i \in 1..Len(y) : j[Len(x) + i] = y[i]
  BY JoinFacts
<1>2. Len(j) = b - a /\ \A i \in 1..b - a : j[i] = a + i - 1
  <2>1. j = From(a, b)
    OBVIOUS
  <2> HIDE DEF j
  <2> QED BY <2>1, FromFacts
<1> HIDE DEF j
<1>3. ASSUME NEW h \in 0..Len(x)
      PROVE  SubSeq(x, h + 1, Len(x)) \o y = From(a + h, b)
  <2> DEFINE s == SubSeq(x, h + 1, Len(x))
  <2> DEFINE t == s \o y
  <2> DEFINE z == From(a + h, b)
  <2>1. s \in Bytes /\ Len(s) = Len(x) - h /\ \A i \in 1..Len(x) - h : s[i] = x[h + i]
    BY CutFacts
  <2> HIDE DEF s
  <2>2. /\ t \in Bytes /\ Len(t) = Len(s) + Len(y)
        /\ \A i \in 1..Len(s) : t[i] = s[i]
        /\ \A i \in 1..Len(y) : t[Len(s) + i] = y[i]
    BY <2>1, JoinFacts
  <2> HIDE DEF t
  <2> HIDE DEF z
  <2>3. a + h \in Nat /\ a + h <= b /\ b - (a + h) = Len(t)
    <3>1. Len(x) + Len(y) = b - a /\ Len(t) = Len(x) - h + Len(y)
      BY <1>1, <1>2, <2>1, <2>2
    <3>2. Len(x) \in Nat /\ Len(y) \in Nat
      BY <1>1
    <3> QED BY <3>1, <3>2
  <2>4. z \in Bytes /\ Len(z) = b - (a + h) /\ \A i \in 1..b - (a + h) : z[i] = a + h + i - 1
    BY <2>3, FromFacts DEF z
  <2>5. ASSUME NEW i \in 1..Len(t) PROVE t[i] = z[i]
    <3>1. h + i \in 1..b - a /\ j[h + i] = a + (h + i) - 1
      BY <1>1, <1>2, <2>1, <2>2
    <3>2. z[i] = a + h + i - 1
      BY <2>3, <2>4
    <3>3. CASE i <= Len(s)
      <4>1. t[i] = s[i] /\ s[i] = x[h + i] /\ x[h + i] = j[h + i]
        BY <1>1, <2>1, <2>2, <3>3
      <4> QED BY <3>1, <3>2, <4>1
    <3>4. CASE ~(i <= Len(s))
      <4> DEFINE m == i - Len(s)
      <4>1. m \in 1..Len(y) /\ Len(s) + m = i /\ Len(x) + m = h + i
        BY <1>1, <2>1, <2>2, <3>4
      <4>2. t[i] = y[m] /\ y[m] = j[h + i]
        BY <1>1, <2>2, <4>1
      <4> QED BY <3>1, <3>2, <4>2
    <3> QED BY <3>3, <3>4
  <2>6. t = z
    BY <2>2, <2>3, <2>4, <2>5, SameBytes
  <2> QED BY <2>6 DEF t, s, z
<1>4. y = From(a + Len(x), b)
  <2>1. Len(x) \in 0..Len(x)
    BY <1>1
  <2>2. SubSeq(x, Len(x) + 1, Len(x)) = <<>>
    BY DEF Bytes
  <2>3. <<>> \o y = y
    BY DEF Bytes
  <2> QED BY <1>3, <2>1, <2>2, <2>3
<1>5. Len(x) <= b - a
  BY <1>1, <1>2
<1>6. SubSeq(x, k + 1, Len(x)) \o y = From(a + k, b)
  BY <1>3
<1> QED BY <1>4, <1>5, <1>6

--------------------------------------------------------------------------------
(* THE RING *)

(* The newest bytes of the output, however many.                            *)
Kept(r) ==
  /\ r \in Ring /\ r.buffered <= r.total
  /\ FlattenSeq(r.chunks) = From(r.total - r.buffered, r.total)
  /\ \A i \in DOMAIN r.chunks : r.chunks[i] # <<>>

LEMMA RingParts ==
  ASSUME NEW r \in Ring
  PROVE  /\ r.chunks \in Seq(Bytes) /\ r.buffered \in Nat /\ r.total \in Nat
         /\ r = [chunks |-> r.chunks, buffered |-> r.buffered, total |-> r.total]
BY DEF Ring, Bytes

LEMMA RingMade ==
  ASSUME NEW c \in Seq(Bytes), NEW b \in Nat, NEW t \in Nat
  PROVE  /\ [chunks |-> c, buffered |-> b, total |-> t] \in Ring
BY DEF Ring, Bytes

LEMMA KeptSize ==
  ASSUME NEW r, Kept(r)
  PROVE  /\ Len(FlattenSeq(r.chunks)) = r.buffered
         /\ r.chunks = <<>> => r.buffered = 0
<1>1. r.chunks \in Seq(Bytes) /\ r.buffered \in Nat /\ r.total \in Nat /\ r.buffered <= r.total
  BY RingParts DEF Kept
<1>2. Len(From(r.total - r.buffered, r.total)) = r.buffered
  <2> DEFINE a == r.total - r.buffered
  <2>1. a \in Nat /\ a <= r.total /\ r.total - a = r.buffered
    BY <1>1
  <2> HIDE DEF a
  <2>2. Len(From(a, r.total)) = r.buffered
    BY <1>1, <2>1, FromFacts
  <2> QED BY <2>2 DEF a
<1>3. Len(FlattenSeq(r.chunks)) = r.buffered
  BY <1>2 DEF Kept
<1>4. r.chunks = <<>> => r.buffered = 0
  BY <1>3, FlattenNone
<1> QED BY <1>3, <1>4

(* A window that overflows, cut at its oldest chunk.                        *)
LEMMA KeptOldest ==
  ASSUME NEW r, Kept(r), r.chunks # <<>>
  PROVE  LET first == Head(r.chunks)
             start == r.total - r.buffered
         IN  /\ first \in Bytes /\ first # <<>> /\ Len(first) \in Nat \ {0}
             /\ Len(first) <= r.buffered
             /\ Tail(r.chunks) \in Seq(Bytes)
             /\ \A i \in DOMAIN Tail(r.chunks) : Tail(r.chunks)[i] # <<>>
             /\ Len(Tail(r.chunks)) = Len(r.chunks) - 1
             /\ FlattenSeq(Tail(r.chunks)) \in Bytes
             /\ FlattenSeq(Tail(r.chunks)) = From(start + Len(first), r.total)
             /\ \A k \in 0..Len(first) :
                  SubSeq(first, k + 1, Len(first)) \o FlattenSeq(Tail(r.chunks))
                    = From(start + k, r.total)
<1> DEFINE q == r.chunks
<1> DEFINE first == Head(q)
<1> DEFINE others == FlattenSeq(Tail(q))
<1> DEFINE start == r.total - r.buffered
<1>1. q \in Seq(Bytes) /\ r.buffered \in Nat /\ r.total \in Nat /\ r.buffered <= r.total
  BY RingParts DEF Kept
<1>2. /\ FlattenSeq(q) = From(start, r.total)
      /\ \A i \in DOMAIN q : q[i] # <<>>
  BY DEF Kept
<1> HIDE DEF q
<1>3. /\ Tail(q) \in Seq(Bytes) /\ Len(Tail(q)) = Len(q) - 1 /\ Head(q) = q[1]
      /\ Head(q) \in Bytes /\ Len(q) \in Nat \ {0}
      /\ \A i \in 1..Len(q) - 1 : Tail(q)[i] = q[i + 1]
  BY <1>1, TailFacts DEF q
<1>4. FlattenSeq(q) = first \o others /\ others \in Bytes
  BY <1>1, <1>3, FlattenHead, FlattenBytes DEF q
<1>5. first # <<>> /\ \A i \in DOMAIN Tail(q) : Tail(q)[i] # <<>>
  <2>1. DOMAIN q = 1..Len(q) /\ DOMAIN Tail(q) = 1..Len(q) - 1
    BY <1>1, <1>3
  <2>2. 1 \in DOMAIN q /\ \A i \in 1..Len(q) - 1 : i + 1 \in DOMAIN q
    BY <1>3, <2>1
  <2> QED BY <1>2, <1>3, <2>1, <2>2
<1>6. Len(first) \in Nat \ {0}
  BY <1>3, <1>5, NoneIfShort DEF Bytes
<1> HIDE DEF first, others
<1>7. start \in Nat /\ start <= r.total /\ r.total - start = r.buffered
  BY <1>1
<1> HIDE DEF start
<1>8. /\ \A k \in 0..Len(first) : SubSeq(first, k + 1, Len(first)) \o others = From(start + k, r.total)
      /\ others = From(start + Len(first), r.total) /\ Len(first) <= r.total - start
  <2>1. first \in Bytes /\ first \o others = From(start, r.total) /\ 0 \in 0..Len(first)
    BY <1>2, <1>3, <1>4, <1>6 DEF first
  <2> DEFINE end == r.total
  <2>2. end \in Nat /\ start \in Nat /\ start <= end /\ first \o others = From(start, end)
    BY <1>1, <1>7, <2>1
  <2> HIDE DEF end
  <2>3. ASSUME NEW k \in 0..Len(first)
        PROVE  /\ SubSeq(first, k + 1, Len(first)) \o others = From(start + k, end)
               /\ others = From(start + Len(first), end) /\ Len(first) <= end - start
    BY <1>4, <2>1, <2>2, FromRest
  <2> QED BY <2>1, <2>3 DEF end
<1> QED BY <1>3, <1>4, <1>5, <1>6, <1>7, <1>8 DEF q, first, others, start

(* One turn of the loop: a window that overflows loses its oldest chunk, or *)
(* as much of it as makes the window fit.                                   *)
LEMMA TurnKeeps ==
  ASSUME NEW r, Kept(r)
  PROVE  LET e == evictOnce(r)
         IN  /\ Kept(e) /\ e.total = r.total
             /\ r.buffered <= MaxBuffered => e = r
             /\ r.buffered > MaxBuffered => /\ e.buffered >= MaxBuffered
                                            /\ \/ e.buffered = MaxBuffered
                                               \/ Len(e.chunks) = Len(r.chunks) - 1
<1> DEFINE first == Head(r.chunks)
<1> DEFINE start == r.total - r.buffered
<1> DEFINE rest == r.buffered - Len(first)
<1> DEFINE over == r.buffered - MaxBuffered
<1> DEFINE others == Tail(r.chunks)
<1>1. /\ r.chunks \in Seq(Bytes) /\ r.buffered \in Nat /\ r.total \in Nat
      /\ r.buffered <= r.total /\ MaxBuffered \in Nat \ {0}
      /\ r = [chunks |-> r.chunks, buffered |-> r.buffered, total |-> r.total]
  BY RingParts, WindowAssumption DEF Kept
<1>2. CASE r.buffered <= MaxBuffered
  <2>1. evictOnce(r) = r
    BY <1>1, <1>2 DEF evictOnce
  <2> QED BY <1>1, <1>2, <2>1
<1>3. CASE ~(r.buffered <= MaxBuffered)
  <2>1. r.chunks # <<>>
    BY <1>1, <1>3, KeptSize
  <2>2. /\ first \in Bytes /\ Len(first) \in Nat \ {0} /\ Len(first) <= r.buffered
        /\ others \in Seq(Bytes) /\ \A i \in DOMAIN others : others[i] # <<>>
        /\ Len(others) = Len(r.chunks) - 1
        /\ FlattenSeq(others) = From(start + Len(first), r.total)
        /\ FlattenSeq(others) \in Bytes
        /\ \A k \in 0..Len(first) :
             SubSeq(first, k + 1, Len(first)) \o FlattenSeq(others) = From(start + k, r.total)
    BY <2>1, KeptOldest
  <2>3. over > 0 /\ over \in Nat /\ rest \in Nat /\ rest < r.buffered
    BY <1>1, <1>3, <2>2
  <2>4. CASE rest >= MaxBuffered
    <3> DEFINE e == [chunks |-> others, buffered |-> rest, total |-> r.total]
    <3>1. evictOnce(r) = e
      <4>1. evictOnce(r) = [r EXCEPT !.chunks = others, !.buffered = rest]
        BY <2>3, <2>4 DEF evictOnce
      <4> HIDE DEF others, rest
      <4> QED BY <1>1, <4>1
    <3>2. e \in Ring
      BY <1>1, <2>2, <2>3, RingMade
    <3>3. r.total - rest = start + Len(first)
      BY <1>1, <2>2
    <3>4. rest <= r.total
      BY <1>1, <2>3
    <3> HIDE DEF others, rest, start, first
    <3>5. Kept(e)
      BY <2>2, <3>2, <3>3, <3>4 DEF Kept
    <3> QED BY <1>3, <2>2, <2>4, <3>1, <3>5 DEF others
  <2>5. CASE ~(rest >= MaxBuffered)
    <3> DEFINE cut == SubSeq(first, over + 1, Len(first))
    <3> DEFINE c == <<cut>> \o others
    <3> DEFINE e == [chunks |-> c, buffered |-> MaxBuffered, total |-> r.total]
    <3>1. evictOnce(r) = e
      <4>1. evictOnce(r) = [r EXCEPT !.chunks = c, !.buffered = MaxBuffered]
        BY <2>3, <2>5 DEF evictOnce
      <4> HIDE DEF c
      <4> QED BY <1>1, <4>1
    <3>2. over \in 0..Len(first) /\ over < Len(first)
      BY <1>1, <2>2, <2>3, <2>5
    <3>3. cut \in Bytes /\ Len(cut) = Len(first) - over
      BY <2>2, <3>2, CutFacts
    <3>4. cut # <<>>
      <4>1. Len(cut) # 0
        BY <2>2, <2>3, <3>2, <3>3
      <4> HIDE DEF cut
      <4> QED BY <4>1
    <3>5. cut \o FlattenSeq(others) = From(start + over, r.total)
      BY <2>2, <3>2
    <3>6. r.total - MaxBuffered = start + over /\ MaxBuffered <= r.total
      BY <1>1, <1>3
    <3> HIDE DEF cut, over, start, first, others
    <3>7. /\ c \in Seq(Bytes) /\ Len(c) = Len(others) + 1 /\ c[1] = cut
          /\ \A i \in 1..Len(others) : c[i + 1] = others[i]
      BY <2>2, <3>3
    <3>8. c # <<>> /\ Head(c) = cut /\ Tail(c) = others
      <4>1. c # <<>> /\ Head(c) = cut
        BY <3>7
      <4>2. /\ Tail(c) \in Seq(Bytes) /\ Len(Tail(c)) = Len(others)
            /\ \A i \in 1..Len(others) : Tail(c)[i] = others[i]
        BY <2>2, <3>7, <4>1, TailFacts
      <4> DEFINE t == Tail(c)
      <4> HIDE DEF t, c
      <4>3. t = others
        BY <2>2, <4>2 DEF t
      <4> QED BY <4>1, <4>3 DEF t
    <3> HIDE DEF c
    <3>9. FlattenSeq(c) = From(r.total - MaxBuffered, r.total)
      BY <3>5, <3>6, <3>7, <3>8, FlattenHead
    <3>10. e \in Ring
      BY <1>1, <3>7, RingMade
    <3>11. \A i \in DOMAIN c : c[i] # <<>>
      <4> TAKE i \in DOMAIN c
      <4>1. i \in 1..Len(others) + 1 /\ DOMAIN others = 1..Len(others) /\ Len(others) \in Nat
        BY <2>2, <3>7
      <4>2. CASE i = 1
        BY <3>4, <3>7, <4>2
      <4>3. CASE i # 1
        <5>1. i - 1 \in 1..Len(others) /\ (i - 1) + 1 = i
          BY <4>1, <4>3
        <5>2. c[i] = others[i - 1]
          BY <3>7, <5>1
        <5> QED BY <2>2, <4>1, <5>1, <5>2
      <4> QED BY <4>2, <4>3
    <3>12. Kept(e)
      BY <3>6, <3>9, <3>10, <3>11 DEF Kept
    <3> QED BY <1>1, <1>3, <3>1, <3>12
  <2> QED BY <2>4, <2>5
<1> QED BY <1>2, <1>3

(* The states of the window turn by turn, and that there are such.          *)
Turning(f, r, n) == f = [i \in 0..n |-> IF i = 0 THEN r ELSE evictOnce(f[i - 1])]

LEMMA TurningExists == ASSUME NEW r, NEW n \in Nat PROVE \E f : Turning(f, r, n)
<1> DEFINE T == {k \in Nat : \E f : Turning(f, r, k)}
<1>1. 0 \in T
  <2> DEFINE f == [i \in 0..0 |-> r]
  <2>1. \A i \in 0..0 : i = 0
    OBVIOUS
  <2>2. f = [i \in 0..0 |-> IF i = 0 THEN r ELSE evictOnce(f[i - 1])]
    BY <2>1, Zenon
  <2>3. Turning(f, r, 0)
    BY <2>2 DEF Turning
  <2> QED BY <2>3
<1>2. \A k \in Nat : k \in T => k + 1 \in T
  <2> TAKE k \in Nat
  <2> HAVE k \in T
  <2>1. PICK f : Turning(f, r, k)
    OBVIOUS
  <2> DEFINE g == [i \in 0..k + 1 |-> IF i <= k THEN f[i] ELSE evictOnce(f[k])]
  <2>2. ASSUME NEW i \in 0..k + 1
        PROVE  g[i] = IF i = 0 THEN r ELSE evictOnce(g[i - 1])
    <3>1. CASE i = 0
      <4>1. 0 \in 0..k /\ 0 \in 0..k + 1 /\ g[0] = f[0]
        OBVIOUS
      <4>2. f[0] = r
        BY <2>1, <4>1 DEF Turning
      <4> QED BY <3>1, <4>1, <4>2
    <3>2. CASE i # 0
      <4>1. i - 1 \in 0..k /\ i - 1 \in 0..k + 1 /\ g[i - 1] = f[i - 1]
        BY <3>2
      <4>2. CASE i <= k
        <5>1. i \in 0..k /\ g[i] = f[i]
          BY <4>2
        <5>2. f[i] = IF i = 0 THEN r ELSE evictOnce(f[i - 1])
          BY <2>1, <5>1 DEF Turning
        <5> HIDE DEF g
        <5> QED BY <3>2, <4>1, <5>1, <5>2
      <4>3. CASE ~(i <= k)
        <5>1. i - 1 = k /\ g[i] = evictOnce(f[k])
          BY <4>3
        <5> HIDE DEF g
        <5> QED BY <3>2, <4>1, <5>1
      <4> QED BY <4>2, <4>3
    <3> QED BY <3>1, <3>2
  <2>3. Turning(g, r, k + 1)
    <3>1. g = [i \in 0..k + 1 |-> g[i]]
      OBVIOUS
    <3> HIDE DEF g
    <3> QED BY <2>2, <3>1 DEF Turning
  <2> QED BY <2>3
<1> HIDE DEF T
<1>3. n \in T
  BY <1>1, <1>2, Induction
<1> QED BY <1>3 DEF T

(* The most the window may hold of an output of n bytes.                    *)
Most(n) == IF n < MaxBuffered THEN n ELSE MaxBuffered

(* The loop ends with a window that fits, and loses no byte that fits.      *)
LEMMA LoopFits ==
  ASSUME NEW r, Kept(r), r.buffered >= Most(r.total)
  PROVE  LET e == evictOverflow(r)
         IN  Kept(e) /\ e.total = r.total /\ e.buffered = Most(r.total)
<1> DEFINE n == Len(r.chunks)
<1> DEFINE f == CHOOSE f : Turning(f, r, n)
<1>1. /\ r.chunks \in Seq(Bytes) /\ r.buffered \in Nat /\ r.total \in Nat
      /\ MaxBuffered \in Nat \ {0} /\ n \in Nat
  BY RingParts, WindowAssumption DEF Kept
<1>2. Turning(f, r, n)
  BY <1>1, TurningExists
<1>3. evictOverflow(r) = f[n]
  BY DEF evictOverflow, Turning
<1> HIDE DEF f, n
<1> DEFINE Good(i) == /\ Kept(f[i]) /\ f[i].total = r.total /\ f[i].buffered >= Most(r.total)
                      /\ f[i].buffered <= MaxBuffered \/ Len(f[i].chunks) = n - i
<1> DEFINE T == {i \in Nat : i <= n => Good(i)}
<1>4. 0 \in T
  <2>1. f[0] = r
    <3>1. 0 \in 0..n
      BY <1>1
    <3> QED BY <1>2, <3>1 DEF Turning
  <2>2. Good(0)
    BY <1>1, <2>1 DEF n
  <2> HIDE DEF Good
  <2> QED BY <2>2
<1>5. \A i \in Nat : i \in T => i + 1 \in T
  <2> SUFFICES ASSUME NEW i \in Nat, Good(i), i + 1 <= n PROVE Good(i + 1)
    BY <1>1
  <2>1. f[i + 1] = evictOnce(f[i])
    <3>1. i + 1 \in 0..n /\ i + 1 # 0 /\ (i + 1) - 1 = i
      BY <1>1
    <3> QED BY <1>2, <3>1 DEF Turning
  <2>2. /\ Kept(f[i + 1]) /\ f[i + 1].total = f[i].total
        /\ f[i].buffered <= MaxBuffered => f[i + 1] = f[i]
        /\ f[i].buffered > MaxBuffered =>
             /\ f[i + 1].buffered >= MaxBuffered
             /\ \/ f[i + 1].buffered = MaxBuffered
                \/ Len(f[i + 1].chunks) = Len(f[i].chunks) - 1
    BY <2>1, TurnKeeps
  <2>3. f[i].buffered \in Nat /\ f[i + 1].buffered \in Nat /\ Most(r.total) \in Nat
        /\ Most(r.total) <= MaxBuffered
    BY <1>1, <2>2, RingParts DEF Kept, Most
  <2>4. CASE f[i].buffered <= MaxBuffered
    BY <2>2, <2>4
  <2>5. CASE f[i].buffered > MaxBuffered
    <3>1. f[i + 1].buffered >= Most(r.total)
      BY <1>1, <2>2, <2>3, <2>5
    <3>2. f[i + 1].buffered <= MaxBuffered \/ Len(f[i + 1].chunks) = n - (i + 1)
      <4>1. CASE f[i + 1].buffered = MaxBuffered
        BY <1>1, <4>1
      <4>2. CASE Len(f[i + 1].chunks) = Len(f[i].chunks) - 1
        <5>1. Len(f[i].chunks) = n - i
          BY <1>1, <2>3, <2>5
        <5>2. (n - i) - 1 = n - (i + 1)
          BY <1>1
        <5> QED BY <4>2, <5>1, <5>2
      <4> HIDE DEF Good
      <4> QED BY <2>2, <2>5, <4>1, <4>2
    <3> QED BY <2>2, <3>1, <3>2
  <2> QED BY <1>1, <2>3, <2>4, <2>5
<1> HIDE DEF T
<1>6. n \in T
  BY <1>1, <1>4, <1>5, Induction
<1>7. Good(n)
  BY <1>1, <1>6 DEF T
<1> DEFINE e == f[n]
<1>8. Kept(e) /\ e.total = r.total /\ e.buffered >= Most(r.total)
      /\ (e.buffered <= MaxBuffered \/ Len(e.chunks) = 0)
  BY <1>1, <1>7
<1> HIDE DEF e, Good
<1>9. e.buffered <= MaxBuffered
  <2>1. CASE Len(e.chunks) = 0
    <3>1. e.chunks = <<>>
      BY <1>8, <2>1, RingParts, NoneIfShort DEF Kept
    <3> QED BY <1>1, <1>8, <3>1, KeptSize
  <2> QED BY <1>8, <2>1
<1>10. e.buffered \in Nat /\ e.total \in Nat /\ e.buffered <= e.total
  BY <1>8, RingParts DEF Kept
<1>11. e.buffered = Most(r.total)
  BY <1>1, <1>8, <1>9, <1>10 DEF Most
<1> QED BY <1>3, <1>8, <1>11 DEF e

LEMMA WindowIsKept ==
  ASSUME NEW r \in Ring
  PROVE  IsWindow(r) <=> Kept(r) /\ r.buffered = Most(r.total)
<1>1. r.buffered \in Nat /\ r.total \in Nat /\ MaxBuffered \in Nat
  BY RingParts, WindowAssumption
<1>2. Most(r.total) <= r.total
  BY <1>1 DEF Most
<1> QED BY <1>1, <1>2 DEF IsWindow, Kept, Most

(* However output is cut into chunks, the window holds the newest of it.    *)
LEMMA AppendKeeps ==
  ASSUME NEW r \in Ring, IsWindow(r), NEW n \in Nat
  PROVE  LET e == append(r, From(r.total, r.total + n))
         IN  e \in Ring /\ IsWindow(e) /\ e.total = r.total + n
<1> DEFINE bytes == From(r.total, r.total + n)
<1>1. /\ r.chunks \in Seq(Bytes) /\ r.buffered \in Nat /\ r.total \in Nat
      /\ MaxBuffered \in Nat \ {0}
  BY RingParts, WindowAssumption
<1>2. Kept(r) /\ r.buffered = Most(r.total)
  BY WindowIsKept
<1>3. bytes \in Bytes /\ Len(bytes) = n
  <2> DEFINE t == r.total
  <2>1. t \in Nat /\ t + n \in Nat /\ t <= t + n /\ (t + n) - t = n
    BY <1>1
  <2> HIDE DEF t
  <2>2. From(t, t + n) \in Bytes /\ Len(From(t, t + n)) = n
    BY <2>1, FromFacts
  <2> QED BY <2>2 DEF t
<1> HIDE DEF bytes
<1>4. CASE bytes = <<>>
  <2>1. n = 0
    BY <1>3, <1>4
  <2>2. append(r, bytes) = r
    BY <1>4 DEF append
  <2> QED BY <1>1, <2>1, <2>2 DEF bytes
<1>5. CASE bytes # <<>>
  <2> DEFINE c == Append(r.chunks, bytes)
  <2> DEFINE a == [chunks |-> c, buffered |-> r.buffered + n, total |-> r.total + n]
  <2>1. append(r, bytes) = evictOverflow(a)
    BY <1>3, <1>5 DEF append
  <2>2. /\ c \in Seq(Bytes) /\ DOMAIN c = 1..Len(r.chunks) + 1 /\ c[Len(r.chunks) + 1] = bytes
        /\ DOMAIN r.chunks = 1..Len(r.chunks) /\ Len(r.chunks) \in Nat
        /\ \A i \in 1..Len(r.chunks) : c[i] = r.chunks[i]
    BY <1>1, <1>3
  <2>3. FlattenSeq(c) = FlattenSeq(r.chunks) \o bytes
    BY <1>1, <1>3, FlattenOneMore
  <2> HIDE DEF c
  <2>4. FlattenSeq(c) = From(r.total - r.buffered, r.total + n)
    <3> DEFINE s == r.total - r.buffered
    <3>1. s \in Nat /\ s <= r.total /\ r.total <= r.total + n /\ r.total + n \in Nat
      BY <1>1, <1>2 DEF Kept
    <3>2. FlattenSeq(r.chunks) = From(s, r.total)
      BY <1>2 DEF Kept
    <3> DEFINE t == r.total
    <3> HIDE DEF s
    <3>3. FlattenSeq(c) = From(s, t) \o From(t, t + n)
      BY <2>3, <3>2 DEF bytes
    <3>4. t \in Nat /\ t + n \in Nat /\ s \in Nat /\ s <= t /\ t <= t + n
      BY <1>1, <3>1
    <3> HIDE DEF t
    <3>5. From(s, t) \o From(t, t + n) = From(s, t + n)
      BY <3>4, FromJoin
    <3> QED BY <3>3, <3>5 DEF s, t
  <2>5. \A i \in DOMAIN c : c[i] # <<>>
    BY <1>2, <1>5, <2>2 DEF Kept
  <2>6. /\ a \in Ring /\ a.chunks = c /\ a.buffered = r.buffered + n /\ a.total = r.total + n
        /\ a.buffered \in Nat /\ a.total \in Nat
    <3> DEFINE b == r.buffered + n
    <3> DEFINE t == r.total + n
    <3>1. b \in Nat /\ t \in Nat
      BY <1>1
    <3> HIDE DEF b, t
    <3>2. [chunks |-> c, buffered |-> b, total |-> t] \in Ring
      BY <2>2, <3>1, RingMade
    <3> QED BY <3>1, <3>2 DEF b, t
  <2>7. Kept(a)
    <3>1. a.total - a.buffered = r.total - r.buffered /\ a.buffered <= a.total
      BY <1>1, <1>2, <2>6 DEF Kept
    <3> HIDE DEF a
    <3> QED BY <2>4, <2>5, <2>6, <3>1 DEF Kept
  <2>8. a.buffered >= Most(a.total)
    BY <1>1, <1>2, <2>6 DEF Most
  <2> HIDE DEF a
  <2> DEFINE e == evictOverflow(a)
  <2>9. Kept(e) /\ e.total = a.total /\ e.buffered = Most(a.total)
    BY <2>7, <2>8, LoopFits
  <2> HIDE DEF e
  <2>10. e \in Ring /\ IsWindow(e)
    BY <2>9, WindowIsKept DEF Kept
  <2> QED BY <2>1, <2>6, <2>9, <2>10 DEF e, bytes
<1> QED BY <1>4, <1>5

(* A reader is given what it lacks of the output, or the whole window when  *)
(* some of that is gone, which it is told.                                  *)
LEMMA ReplayIsTheRest ==
  ASSUME NEW r \in Ring, IsWindow(r), NEW offset \in Nat
  PROVE  LET oldest == r.total - Most(r.total)
             start  == IF offset < oldest THEN oldest
                       ELSE IF offset < r.total THEN offset ELSE r.total
         IN  /\ replayFrom(r, offset).lost = (offset < oldest)
             /\ replayFrom(r, offset).bytes = From(start, r.total)
             /\ replayFrom(r, offset).bytes \in Bytes
<1> DEFINE oldest == r.total - Most(r.total)
<1> DEFINE skip == offset - oldest
<1> DEFINE t == r.total
<1>1. /\ r.buffered \in Nat /\ t \in Nat /\ MaxBuffered \in Nat
  BY RingParts, WindowAssumption
<1>2. Kept(r) /\ r.buffered = Most(t)
  BY WindowIsKept
<1>3. oldest \in Nat /\ oldest <= t /\ t - oldest = r.buffered
  BY <1>1, <1>2 DEF Most
<1>4. FlattenSeq(r.chunks) = From(oldest, t)
  BY <1>2 DEF Kept
<1>5. r.total - r.buffered = oldest
  BY <1>2
<1> HIDE DEF oldest, t
<1>6. ASSUME NEW k \in 0..r.buffered PROVE concatFrom(r, k) = From(oldest + k, t)
  <2>1. SubSeq(From(oldest, t), k + 1, t - oldest) = From(oldest + k, t)
    BY <1>1, <1>3, FromCut
  <2> QED BY <1>3, <1>4, <2>1 DEF concatFrom
<1>7. replayFrom(r, offset) =
        [bytes |-> IF skip < 0 THEN concatFrom(r, 0)
                   ELSE IF skip >= r.buffered THEN <<>> ELSE concatFrom(r, skip),
         lost  |-> skip < 0]
  BY <1>5 DEF replayFrom
<1> DEFINE start == IF offset < oldest THEN oldest ELSE IF offset < t THEN offset ELSE t
<1>8. start \in Nat /\ start <= t /\ From(start, t) \in Bytes
  <2>1. start \in Nat /\ start <= t
    BY <1>1, <1>3
  <2> HIDE DEF start
  <2> QED BY <1>1, <2>1, FromFacts
<1>9. (skip < 0) <=> offset < oldest
  BY <1>3
<1>10. CASE offset < oldest
  <2>1. concatFrom(r, 0) = From(oldest + 0, t) /\ oldest + 0 = oldest
    BY <1>1, <1>3, <1>6
  <2> HIDE DEF skip
  <2> QED BY <1>7, <1>8, <1>9, <1>10, <2>1 DEF t, oldest
<1>11. CASE ~(offset < oldest) /\ skip >= r.buffered
  <2>1. ~(offset < t)
    BY <1>1, <1>3, <1>11
  <2>2. From(t, t) = <<>>
    <3>1. From(t, t) \in Bytes /\ Len(From(t, t)) = 0
      <4>1. t <= t /\ t - t = 0
        BY <1>1
      <4> HIDE DEF start
      <4>2. From(t, t) \in Bytes /\ Len(From(t, t)) = t - t
        BY <1>1, <4>1, FromFacts
      <4> QED BY <4>1, <4>2
    <3> QED BY <3>1, NoneIfShort DEF Bytes
  <2> HIDE DEF skip
  <2> QED BY <1>7, <1>8, <1>9, <1>11, <2>1, <2>2 DEF t, oldest
<1>12. CASE ~(offset < oldest) /\ ~(skip >= r.buffered)
  <2>1. offset < t /\ skip \in 0..r.buffered /\ oldest + skip = offset
    BY <1>1, <1>3, <1>12
  <2>2. concatFrom(r, skip) = From(offset, t)
    BY <1>6, <2>1
  <2> HIDE DEF skip
  <2> QED BY <1>7, <1>8, <1>9, <1>12, <2>1, <2>2 DEF t, oldest
<1> QED BY <1>10, <1>11, <1>12

--------------------------------------------------------------------------------
(* WHAT SUBSCRIBERS ARE GIVEN: THE STRENGTHENING *)

(* What the types and the conservation of output need besides: a subscriber *)
(* came when there was no more output than now, and those asked for, with   *)
(* the messages that will ask for one, are within the bound.                *)
OfKind(q, ops) == {i \in DOMAIN q : q[i].op \in ops}

Count(q, ops) == Cardinality(OfKind(q, ops))

WithinAsks == asks + Count(toHub, {"open", "subscribe"}) + Count(toPage, {"opened"}) <= MaxAsks

(* What a subscriber was given is the output from where it is owed to now.  *)
Given(u, total) ==
  LET oldest == IF u.at < MaxBuffered THEN 0 ELSE u.at - MaxBuffered
      start  == IF u.lost THEN oldest ELSE IF u.from < u.at THEN u.from ELSE u.at
  IN  /\ u.at <= total
      /\ u.lost <=> u.from < oldest
      /\ u.heard = From(start, total)

ShellHolds(r) ==
  /\ r.state \in {"unborn", "alive", "gone"}
  /\ r.ring \in Ring /\ IsWindow(r.ring)
  /\ r.resilient \in BOOLEAN
  /\ r.subscribers \subseteq Subscriber
  /\ r.state # "alive" => r.subscribers = {}
  /\ \A u \in r.subscribers : Given(u, r.ring.total)

SInv ==
  /\ \A s \in Shell : ShellHolds(shell[s])
  /\ toHub \in Seq(ToHub) /\ toPage \in Seq(ToPage)
  /\ view \in View
  /\ asks \in Nat /\ WithinAsks

--------------------------------------------------------------------------------
(* COUNTING MESSAGES *)

LEMMA CountParts ==
  ASSUME NEW q, IsSeq(q), NEW ops
  PROVE  IsFiniteSet(OfKind(q, ops)) /\ Count(q, ops) \in Nat
<1>1. Len(q) \in Nat /\ DOMAIN q = 1..Len(q)
  BY SeqParts
<1>2. IsFiniteSet(1..Len(q))
  BY <1>1, FS_Interval
<1>3. OfKind(q, ops) \subseteq 1..Len(q)
  BY <1>1 DEF OfKind
<1>4. IsFiniteSet(OfKind(q, ops))
  BY <1>2, <1>3, FS_Subset
<1> QED BY <1>4, FS_CardinalityType DEF Count

LEMMA CountNoMore ==
  ASSUME NEW p, NEW q, IsSeq(p), IsSeq(q), NEW ops, OfKind(p, ops) \subseteq OfKind(q, ops)
  PROVE  Count(p, ops) <= Count(q, ops)
BY CountParts, FS_Subset DEF Count

LEMMA CountOneMore ==
  ASSUME NEW p, NEW q, IsSeq(p), IsSeq(q), NEW ops, NEW x, OfKind(p, ops) \subseteq OfKind(q, ops) \cup {x}
  PROVE  Count(p, ops) <= Count(q, ops) + 1
<1> DEFINE S == OfKind(q, ops)
<1> DEFINE T == OfKind(p, ops)
<1>1. IsFiniteSet(S) /\ Cardinality(S) \in Nat /\ IsFiniteSet(T) /\ Cardinality(T) \in Nat
  BY CountParts DEF Count
<1>2. T \subseteq S \cup {x}
  OBVIOUS
<1> HIDE DEF S, T
<1>3. IsFiniteSet(S \cup {x}) /\ Cardinality(S \cup {x}) <= Cardinality(S) + 1
  <2>1. /\ IsFiniteSet(S \cup {x})
        /\ Cardinality(S \cup {x}) = IF x \in S THEN Cardinality(S) ELSE Cardinality(S) + 1
    BY <1>1, FS_AddElement
  <2> QED BY <1>1, <2>1
<1>4. Cardinality(S \cup {x}) \in Nat
  BY <1>3, FS_CardinalityType
<1>5. Cardinality(T) <= Cardinality(S \cup {x})
  BY <1>2, <1>3, FS_Subset
<1>6. Cardinality(T) <= Cardinality(S) + 1
  BY <1>1, <1>3, <1>4, <1>5
<1> QED BY <1>6 DEF S, T, Count

LEMMA CountTail ==
  ASSUME NEW q, IsSeq(q), q # <<>>, NEW ops
  PROVE  /\ Count(Tail(q), ops) <= Count(q, ops)
         /\ Head(q).op \in ops => Count(Tail(q), ops) + 1 <= Count(q, ops)
<1> DEFINE S == OfKind(q, ops)
<1> DEFINE T == OfKind(Tail(q), ops)
<1> DEFINE f == [i \in T |-> i + 1]
<1>1. /\ IsSeq(Tail(q)) /\ Head(q) = q[1] /\ 1 \in DOMAIN q
      /\ \A i \in DOMAIN Tail(q) : i + 1 \in DOMAIN q /\ Tail(q)[i] = q[i + 1]
  BY SeqTail
<1>2. T \subseteq Nat \ {0}
  <2>1. DOMAIN Tail(q) = 1..Len(Tail(q)) /\ Len(Tail(q)) \in Nat
    BY <1>1, SeqParts
  <2> QED BY <2>1 DEF OfKind
<1>3. \A i \in T : i + 1 \in S \ {1}
  BY <1>1, <1>2 DEF OfKind
<1>4. IsFiniteSet(S) /\ Cardinality(S) \in Nat
  BY CountParts DEF Count
<1>5. Head(q).op \in ops => 1 \in S
  BY <1>1 DEF OfKind
<1> HIDE DEF S, T
<1>6. f \in Injection(T, S \ {1})
  BY <1>2, <1>3 DEF Injection, IsInjective
<1>7. /\ IsFiniteSet(S \ {1})
      /\ Cardinality(S \ {1}) = IF 1 \in S THEN Cardinality(S) - 1 ELSE Cardinality(S)
  BY <1>4, FS_RemoveElement
<1> HIDE DEF f
<1>8. IsFiniteSet(T) /\ Cardinality(T) <= Cardinality(S \ {1})
  BY <1>6, <1>7, FS_Injection
<1>9. Cardinality(T) \in Nat
  BY <1>8, FS_CardinalityType
<1>10. /\ Cardinality(T) <= Cardinality(S)
       /\ Head(q).op \in ops => Cardinality(T) + 1 <= Cardinality(S)
  BY <1>4, <1>5, <1>7, <1>8, <1>9
<1> QED BY <1>10 DEF S, T, Count

--------------------------------------------------------------------------------
(* WHAT IS ON THE WIRE *)

LEMMA ToHubParts ==
  ASSUME NEW m \in ToHub
  PROVE  /\ m.op \in {"open", "subscribe", "close", "set_resilient", "input"}
         /\ m.op = "subscribe" => m.shell \in Shell /\ m.offset \in Nat
         /\ m.op = "close" => m.shell \in Shell
         /\ m.op = "set_resilient" => m.shell \in Shell /\ m.resilient \in BOOLEAN
BY DEF ToHub

LEMMA ToPageParts ==
  ASSUME NEW m \in ToPage
  PROVE  /\ m.op \in {"subscribed", "opened", "lost", "exit", "bytes"}
         /\ m.op \in {"subscribed", "opened", "lost", "exit"} => m.shell \in Shell
         /\ m.op \in {"subscribed", "bytes"} => m.tag \in Tag
         /\ m.op = "bytes" => m.bytes \in Bytes
BY DEF ToPage, Bytes

LEMMA ToPageKinds ==
  /\ \A s \in Shell : /\ [op |-> "opened", shell |-> s] \in ToPage
                      /\ [op |-> "lost", shell |-> s] \in ToPage
                      /\ [op |-> "exit", shell |-> s] \in ToPage
  /\ \A s \in Shell, k \in Tag : [op |-> "subscribed", shell |-> s, tag |-> k] \in ToPage
  /\ \A s \in Shell, k \in Tag, b \in Bytes :
       [op |-> "bytes", tag |-> k, shell |-> s, bytes |-> b] \in ToPage
BY DEF ToPage, Bytes

LEMMA ToHubKinds ==
  /\ [op |-> "open"] \in ToHub
  /\ \A s \in Shell, n \in Nat : [op |-> "subscribe", shell |-> s, offset |-> n] \in ToHub
  /\ \A s \in Shell : [op |-> "close", shell |-> s] \in ToHub
  /\ \A s \in Shell, b \in BOOLEAN : [op |-> "set_resilient", shell |-> s, resilient |-> b] \in ToHub
  /\ \A k \in Tag, s \in Shell \cup {None} : [op |-> "input", tag |-> k, meant |-> s] \in ToHub
BY DEF ToHub

(* What is sent is of the types; shells opened are what it counts for.      *)
LEMMA SendTyped ==
  ASSUME toPage \in Seq(ToPage), NEW ms \in Seq(ToPage), Send(ms),
         \A i \in DOMAIN ms : ms[i].op # "opened"
  PROVE  toPage' \in Seq(ToPage) /\ Count(toPage', {"opened"}) <= Count(toPage, {"opened"})
<1>1. toPage' \in Seq(ToPage)
  BY DEF Send
<1>2. IsSeq(toPage) /\ IsSeq(ms)
  BY SeqSelf
<1>3. /\ IsSeq(toPage')
      /\ \A i \in DOMAIN toPage' :
              \/ i \in DOMAIN toPage /\ toPage'[i] = toPage[i]
              \/ up /\ \E j \in DOMAIN ms : toPage'[i] = ms[j]
  BY <1>2, SendParts
<1>4. OfKind(toPage', {"opened"}) \subseteq OfKind(toPage, {"opened"})
  BY <1>3 DEF OfKind
<1> QED BY <1>1, <1>2, <1>3, <1>4, CountNoMore

LEMMA SendOneTyped ==
  ASSUME toPage \in Seq(ToPage), NEW m \in ToPage, Send(<<m>>)
  PROVE  toPage' \in Seq(ToPage) /\ Count(toPage', {"opened"}) <= Count(toPage, {"opened"}) + 1
<1>1. toPage' \in Seq(ToPage)
  BY DEF Send
<1>2. IsSeq(toPage) /\ IsSeq(toPage')
  BY <1>1, SeqSelf
<1>3. OfKind(toPage', {"opened"}) \subseteq OfKind(toPage, {"opened"}) \cup {Len(toPage) + 1}
  <2>1. CASE up
    <3>1. toPage' = toPage \o <<m>>
      BY <2>1 DEF Send
    <3>2. DOMAIN toPage = 1..Len(toPage) /\ DOMAIN (toPage \o <<m>>) = 1..Len(toPage) + 1
          /\ \A i \in 1..Len(toPage) : (toPage \o <<m>>)[i] = toPage[i]
      OBVIOUS
    <3> QED BY <3>1, <3>2 DEF OfKind
  <2> QED BY <2>1 DEF Send
<1> QED BY <1>1, <1>2, <1>3, CountOneMore

LEMMA SaysTyped ==
  ASSUME toHub \in Seq(ToHub), NEW m \in ToHub, Says(<<m>>)
  PROVE  /\ toHub' \in Seq(ToHub)
         /\ Count(toHub', {"open", "subscribe"}) <= Count(toHub, {"open", "subscribe"}) + 1
         /\ m.op \notin {"open", "subscribe"} =>
              Count(toHub', {"open", "subscribe"}) <= Count(toHub, {"open", "subscribe"})
<1> DEFINE ops == {"open", "subscribe"}
<1>1. toHub' \in Seq(ToHub)
  BY DEF Says
<1>2. IsSeq(toHub) /\ IsSeq(toHub')
  BY <1>1, SeqSelf
<1>3. \A i \in DOMAIN toHub' :
              \/ i \in DOMAIN toHub /\ toHub'[i] = toHub[i]
              \/ i = Len(toHub) + 1 /\ toHub'[i] = m
  BY <1>2, SaysParts
<1>4. OfKind(toHub', ops) \subseteq OfKind(toHub, ops) \cup {Len(toHub) + 1}
  BY <1>3 DEF OfKind
<1>5. m.op \notin ops => OfKind(toHub', ops) \subseteq OfKind(toHub, ops)
  BY <1>3 DEF OfKind
<1> HIDE DEF ops
<1>6. /\ Count(toHub', ops) <= Count(toHub, ops) + 1
      /\ m.op \notin ops => Count(toHub', ops) <= Count(toHub, ops)
  BY <1>2, <1>4, <1>5, CountOneMore, CountNoMore
<1> QED BY <1>1, <1>6 DEF ops

LEMMA FramesTyped ==
  ASSUME TInv, NEW s \in Shell, NEW bytes \in Bytes
  PROVE  /\ Frames(s, bytes) \in Seq(ToPage)
         /\ \A i \in DOMAIN Frames(s, bytes) : Frames(s, bytes)[i].op # "opened"
<1> DEFINE here == OnThisSocket(s)
           frame(i) == [op |-> "bytes", tag |-> here[i].tag, shell |-> s, bytes |-> bytes]
<1>1. ShellShape
  BY DEF TInv, Shape
<1>2. Len(here) \in Nat /\ DOMAIN here = 1..Len(here)
  BY <1>1, Here, SeqParts
<1>3. \A i \in 1..Len(here) : here[i].tag \in Tag
  BY <1>1, <1>2, Here DEF ShellShape
<1> HIDE DEF here
<1>4. \A i \in 1..Len(here) : frame(i) \in ToPage /\ frame(i).op = "bytes"
  BY <1>3, ToPageKinds
<1> HIDE DEF frame
<1>5. [i \in 1..Len(here) |-> frame(i)] \in Seq(ToPage)
  BY <1>2, <1>4
<1>6. Frames(s, bytes) = [i \in 1..Len(here) |-> frame(i)]
  BY <1>2 DEF Frames, frame, here
<1> QED BY <1>4, <1>5, <1>6

LEMMA ExitsTyped ==
  ASSUME TInv, NEW s \in Shell
  PROVE  LET q == [i \in DOMAIN OnThisSocket(s) |-> [op |-> "exit", shell |-> s]]
         IN  q \in Seq(ToPage) /\ \A i \in DOMAIN q : q[i].op # "opened"
<1> DEFINE here == OnThisSocket(s)
<1> DEFINE e == [op |-> "exit", shell |-> s]
<1>1. Len(here) \in Nat /\ DOMAIN here = 1..Len(here)
  BY Here, SeqParts DEF TInv, Shape
<1>2. e \in ToPage /\ e.op # "opened"
  BY ToPageKinds
<1> HIDE DEF here, e
<1>3. [i \in 1..Len(here) |-> e] \in Seq(ToPage)
  BY <1>1, <1>2
<1> QED BY <1>1, <1>2, <1>3 DEF here, e

(* Taken off the wire.                                                      *)
LEMMA TakenTyped ==
  ASSUME NEW S, NEW q \in Seq(S), q # <<>>
  PROVE  Tail(q) \in Seq(S) /\ Head(q) \in S
BY TailFacts

LEMMA TakenFromHub ==
  ASSUME TInv, SInv, toHub # <<>>, toHub' = Tail(toHub)
  PROVE  /\ toHub' \in Seq(ToHub) /\ Head(toHub) \in ToHub
         /\ Count(toHub', {"open", "subscribe"}) <= Count(toHub, {"open", "subscribe"})
         /\ Head(toHub).op \in {"open", "subscribe"} =>
              Count(toHub', {"open", "subscribe"}) + 1 <= Count(toHub, {"open", "subscribe"})
<1>1. toHub \in Seq(ToHub) /\ IsSeq(toHub)
  BY DEF SInv, TInv, Shape, ToHubShape
<1> QED BY <1>1, TakenTyped, CountTail

LEMMA TakenFromPage ==
  ASSUME TInv, SInv, toPage # <<>>, toPage' = Tail(toPage)
  PROVE  /\ toPage' \in Seq(ToPage) /\ Head(toPage) \in ToPage
         /\ Count(toPage', {"opened"}) <= Count(toPage, {"opened"})
         /\ Head(toPage).op \in {"opened"} =>
              Count(toPage', {"opened"}) + 1 <= Count(toPage, {"opened"})
<1>1. toPage \in Seq(ToPage) /\ IsSeq(toPage)
  BY DEF SInv, TInv, Shape, ToPageShape
<1> QED BY <1>1, TakenTyped, CountTail

(* No more are asked for than before.                                       *)
LEMMA WithinStep ==
  ASSUME SInv, toHub' \in Seq(ToHub), toPage' \in Seq(ToPage), asks' = asks,
         Count(toHub', {"open", "subscribe"}) <= Count(toHub, {"open", "subscribe"}),
         Count(toPage', {"opened"}) <= Count(toPage, {"opened"})
  PROVE  WithinAsks'
<1> DEFINE h == Count(toHub, {"open", "subscribe"})
<1> DEFINE p == Count(toPage, {"opened"})
<1> DEFINE h1 == Count(toHub', {"open", "subscribe"})
<1> DEFINE p1 == Count(toPage', {"opened"})
<1>1. h \in Nat /\ p \in Nat /\ h1 \in Nat /\ p1 \in Nat
  BY SeqSelf, CountParts DEF SInv
<1>2. asks \in Nat /\ asks + h + p <= MaxAsks /\ MaxAsks \in Nat
  BY LimitsAssumption DEF SInv, WithinAsks
<1>3. h1 <= h /\ p1 <= p
  OBVIOUS
<1> HIDE DEF h, p, h1, p1
<1>4. asks' + h1 + p1 <= MaxAsks
  BY <1>1, <1>2, <1>3
<1> QED BY <1>4 DEF WithinAsks, h1, p1

(* A shell that has put nothing out.                                        *)
LEMMA NothingYet == Empty \in Ring /\ IsWindow(Empty)
<1>1. Empty \in Ring
  BY DEF Empty, Ring
<1>2. From(0, 0) = <<>>
  <2>1. From(0, 0) \in Bytes /\ Len(From(0, 0)) = 0
    BY FromFacts
  <2> QED BY <2>1, NoneIfShort DEF Bytes
<1>3. FlattenSeq(Empty.chunks) = <<>> /\ DOMAIN Empty.chunks = {}
  BY FlattenNone DEF Empty
<1> QED BY <1>1, <1>2, <1>3, WindowAssumption DEF IsWindow, Empty

LEMMA UnbornHolds == ShellHolds(Unborn) /\ ShellHolds([Unborn EXCEPT !.state = "gone"])
BY NothingYet DEF ShellHolds, Unborn

--------------------------------------------------------------------------------
(* WHAT SUBSCRIBERS ARE GIVEN: THE HOST *)

LEMMA ExitHolds ==
  ASSUME TInv, SInv, NEW s \in Shell, onPtyExit(s), UNCHANGED <<view, asks>>,
         toHub' \in Seq(ToHub),
         Count(toHub', {"open", "subscribe"}) <= Count(toHub, {"open", "subscribe"})
  PROVE  SInv'
<1>1. \A t \in Shell : ShellHolds(shell'[t])
  <2> TAKE t \in Shell
  <2>1. shell'[t] = IF t = s THEN [Unborn EXCEPT !.state = "gone"] ELSE shell[t]
    BY DEF onPtyExit, TInv, Shape, ShellShape
  <2> QED BY <2>1, UnbornHolds DEF SInv
<1> DEFINE q == [i \in DOMAIN OnThisSocket(s) |-> [op |-> "exit", shell |-> s]]
<1>2. q \in Seq(ToPage) /\ (\A i \in DOMAIN q : q[i].op # "opened") /\ Send(q)
  BY ExitsTyped DEF onPtyExit
<1> HIDE DEF q
<1>3. toPage' \in Seq(ToPage) /\ Count(toPage', {"opened"}) <= Count(toPage, {"opened"})
  BY <1>2, SendTyped DEF SInv
<1>4. WithinAsks'
  BY <1>3, WithinStep
<1> QED BY <1>1, <1>3, <1>4 DEF SInv

LEMMA EndHolds == ASSUME TInv, SInv, NEW s \in Shell, Exits(s) \/ reapIdle(s) PROVE SInv'
<1>1. onPtyExit(s) /\ UNCHANGED <<toHub, view, asks>>
  BY DEF Exits, reapIdle
<1>2. toHub' \in Seq(ToHub) /\ Count(toHub', {"open", "subscribe"}) <= Count(toHub, {"open", "subscribe"})
  BY <1>1, SeqSelf, CountParts DEF SInv
<1> QED BY <1>1, <1>2, ExitHolds

(* The socket is lost with what it carries.                                 *)
LEMMA WireLostHolds ==
  ASSUME SInv, toHub' = <<>>, toPage' = <<>>, UNCHANGED asks
  PROVE  toHub' \in Seq(ToHub) /\ toPage' \in Seq(ToPage) /\ WithinAsks'
<1>1. toHub' \in Seq(ToHub) /\ toPage' \in Seq(ToPage)
  OBVIOUS
<1>2. Count(toHub', {"open", "subscribe"}) = 0 /\ Count(toPage', {"opened"}) = 0
  BY FS_EmptySet DEF Count, OfKind
<1>3. Count(toHub, {"open", "subscribe"}) \in Nat /\ Count(toPage, {"opened"}) \in Nat
  BY SeqSelf, CountParts DEF SInv
<1> QED BY <1>1, <1>2, <1>3, WithinStep

LEMMA CloseAllHolds == ASSUME TInv, SInv, closeAll PROVE SInv'
<1>1. toHub' \in Seq(ToHub) /\ toPage' \in Seq(ToPage) /\ WithinAsks'
  BY WireLostHolds DEF closeAll
<1>2. \A s \in Shell : ShellHolds(shell'[s])
  BY UnbornHolds DEF closeAll, SInv
<1> QED BY <1>1, <1>2 DEF SInv, closeAll

LEMMA DropsHolds == ASSUME TInv, SInv, Drops PROVE SInv'
BY WireLostHolds DEF SInv, Drops

LEMMA OutputHolds == ASSUME TInv, SInv, NEW s \in Shell, Output(s) PROVE SInv'
<1> DEFINE r == shell[s]
<1> DEFINE t == r.ring.total
<1>1. PICK n \in Chunk :
        /\ r.state = "alive"
        /\ shell' = [shell EXCEPT ![s].ring = append(@, From(t, t + n)),
                       ![s].subscribers = {[u EXCEPT !.heard = @ \o From(t, t + n)] : u \in @}]
        /\ Send(Frames(s, From(t, t + n)))
        /\ UNCHANGED <<tags, nextTag, conn, up, toHub, view, asks>>
  BY DEF Output
<1>2. n \in Nat /\ ShellHolds(r) /\ t \in Nat
  BY ChunkAssumption, RingParts DEF SInv, ShellHolds
<1> DEFINE bytes == From(t, t + n)
<1> DEFINE told(u) == [u EXCEPT !.heard = @ \o bytes]
<1> DEFINE ring1 == append(r.ring, bytes)
<1>3. ring1 \in Ring /\ IsWindow(ring1) /\ ring1.total = t + n
  <2>1. r.ring \in Ring /\ IsWindow(r.ring)
    BY <1>2 DEF ShellHolds
  <2> HIDE DEF r
  <2> QED BY <1>2, <2>1, AppendKeeps
<1>4. bytes \in Bytes
  BY <1>2, FromFacts
<1>5. /\ \A x \in Shell \ {s} : shell'[x] = shell[x]
      /\ shell'[s].state = r.state /\ shell'[s].ring = ring1 /\ shell'[s].resilient = r.resilient
      /\ shell'[s].subscribers = {told(u) : u \in r.subscribers}
  BY <1>1 DEF TInv, Shape, ShellShape
<1>6. ASSUME NEW u \in r.subscribers PROVE told(u) \in Subscriber /\ Given(told(u), t + n)
  <2>1. u \in Subscriber /\ Given(u, t)
    BY <1>2 DEF ShellHolds
  <2> HIDE DEF bytes, r, t
  <2>2. /\ u.heard \in Bytes /\ u.at \in Nat /\ u.from \in Nat /\ u.lost \in BOOLEAN
        /\ DOMAIN u = {"ask", "conn", "tag", "heard", "lost", "from", "at"}
    BY <2>1 DEF Subscriber, Bytes
  <2>3. u.heard \o bytes \in Bytes
    BY <1>4, <2>2 DEF Bytes
  <2>4. /\ told(u) \in Subscriber /\ told(u).heard = u.heard \o bytes
        /\ told(u).at = u.at /\ told(u).from = u.from /\ told(u).lost = u.lost
    BY <2>1, <2>2, <2>3 DEF Subscriber, Bytes
  <2> HIDE DEF told
  <2> DEFINE oldest == IF u.at < MaxBuffered THEN 0 ELSE u.at - MaxBuffered
  <2> DEFINE start == IF u.lost THEN oldest ELSE IF u.from < u.at THEN u.from ELSE u.at
  <2>5. u.at <= t /\ (u.lost <=> u.from < oldest) /\ u.heard = From(start, t)
    BY <2>1 DEF Given
  <2>6. start \in Nat /\ start <= t /\ t <= t + n /\ u.at <= t + n
    BY <1>2, <2>2, <2>5, WindowAssumption
  <2>7. u.heard \o bytes = From(start, t + n)
    <3> HIDE DEF start
    <3> DEFINE m == t + n
    <3>1. m \in Nat /\ t <= m
      BY <1>2
    <3> HIDE DEF m
    <3>2. From(start, t) \o From(t, m) = From(start, m)
      BY <1>2, <2>6, <3>1, FromJoin
    <3> QED BY <2>5, <3>2 DEF m, bytes
  <2> QED BY <2>4, <2>5, <2>6, <2>7 DEF Given
<1>7. ShellHolds(shell'[s])
  <2> HIDE DEF told, ring1, t
  <2> QED BY <1>1, <1>2, <1>3, <1>5, <1>6 DEF ShellHolds
<1>8. \A x \in Shell : ShellHolds(shell'[x])
  BY <1>5, <1>7 DEF SInv
<1>9. toPage' \in Seq(ToPage) /\ Count(toPage', {"opened"}) <= Count(toPage, {"opened"})
  <2> HIDE DEF bytes
  <2>1. Frames(s, bytes) \in Seq(ToPage) /\ \A i \in DOMAIN Frames(s, bytes) : Frames(s, bytes)[i].op # "opened"
    BY <1>4, FramesTyped
  <2>2. Send(Frames(s, bytes)) /\ toPage \in Seq(ToPage)
    BY <1>1 DEF bytes, SInv
  <2> QED BY <2>1, <2>2, SendTyped
<1>10. toHub' \in Seq(ToHub) /\ Count(toHub', {"open", "subscribe"}) <= Count(toHub, {"open", "subscribe"})
  BY <1>1, SeqSelf, CountParts DEF SInv
<1>11. WithinAsks'
  BY <1>1, <1>9, <1>10, WithinStep
<1> QED BY <1>1, <1>8, <1>9, <1>10, <1>11 DEF SInv

--------------------------------------------------------------------------------
(* WHAT SUBSCRIBERS ARE GIVEN: THE HUB *)

LEMMA TermCloseHolds ==
  ASSUME TInv, SInv, toHub # <<>>, toHub' = Tail(toHub), TermClose(Head(toHub))
  PROVE  SInv'
<1>1. /\ toHub' \in Seq(ToHub) /\ Head(toHub) \in ToHub
      /\ Count(toHub', {"open", "subscribe"}) <= Count(toHub, {"open", "subscribe"})
  BY TakenFromHub
<1>2. Head(toHub).shell \in Shell /\ UNCHANGED <<view, asks>>
  BY <1>1, ToHubParts DEF TermClose
<1>3. CASE onPtyExit(Head(toHub).shell)
  BY <1>1, <1>2, <1>3, ExitHolds
<1>4. CASE UNCHANGED <<shell, tags, toPage>>
  <2>1. toPage' \in Seq(ToPage) /\ Count(toPage', {"opened"}) <= Count(toPage, {"opened"})
    BY <1>4, SeqSelf, CountParts DEF SInv
  <2>2. WithinAsks'
    BY <1>1, <1>2, <2>1, WithinStep
  <2> QED BY <1>1, <1>2, <1>4, <2>1, <2>2 DEF SInv
<1> QED BY <1>3, <1>4 DEF TermClose

LEMMA TermSetResilientHolds ==
  ASSUME TInv, SInv, toHub # <<>>, toHub' = Tail(toHub), TermSetResilient(Head(toHub))
  PROVE  SInv'
<1> DEFINE m == Head(toHub)
<1>1. /\ toHub' \in Seq(ToHub) /\ m \in ToHub
      /\ Count(toHub', {"open", "subscribe"}) <= Count(toHub, {"open", "subscribe"})
  BY TakenFromHub
<1>2. m.shell \in Shell /\ m.resilient \in BOOLEAN /\ UNCHANGED <<view, asks, toPage>>
  BY <1>1, ToHubParts DEF TermSetResilient
<1>3. toPage' \in Seq(ToPage) /\ Count(toPage', {"opened"}) <= Count(toPage, {"opened"})
  BY <1>2, SeqSelf, CountParts DEF SInv
<1>4. \A s \in Shell : ShellHolds(shell'[s])
  <2> TAKE s \in Shell
  <2>1. {"state", "ring", "subscribers", "resilient"} \subseteq DOMAIN shell[s] /\ ShellHolds(shell[s])
    BY DEF TInv, Shape, ShellShape, SInv
  <2>2. shell'[s] = shell[s] \/ shell'[s] = [shell[s] EXCEPT !.resilient = m.resilient]
    BY DEF TermSetResilient, TInv, Shape, ShellShape
  <2> HIDE DEF m
  <2>3. CASE shell'[s] = [shell[s] EXCEPT !.resilient = m.resilient]
    <3>1. /\ shell'[s].state = shell[s].state /\ shell'[s].ring = shell[s].ring
          /\ shell'[s].subscribers = shell[s].subscribers /\ shell'[s].resilient = m.resilient
      BY <2>1, <2>3
    <3> QED BY <1>2, <2>1, <3>1 DEF ShellHolds
  <2> QED BY <2>1, <2>2, <2>3
<1>5. WithinAsks'
  BY <1>1, <1>2, <1>3, WithinStep
<1> QED BY <1>1, <1>2, <1>3, <1>4, <1>5 DEF SInv

LEMMA BinaryFrameHolds ==
  ASSUME TInv, SInv, toHub # <<>>, toHub' = Tail(toHub), handleBinaryFrame(Head(toHub))
  PROVE  SInv'
<1>1. UNCHANGED <<shell, toPage, view, asks>>
  BY DEF handleBinaryFrame
<1>2. /\ toHub' \in Seq(ToHub)
      /\ Count(toHub', {"open", "subscribe"}) <= Count(toHub, {"open", "subscribe"})
  BY TakenFromHub
<1>3. toPage' \in Seq(ToPage) /\ Count(toPage', {"opened"}) <= Count(toPage, {"opened"})
  BY <1>1, SeqSelf, CountParts DEF SInv
<1>4. WithinAsks'
  BY <1>1, <1>2, <1>3, WithinStep
<1> QED BY <1>1, <1>2, <1>3, <1>4 DEF SInv

(* Of a message that asked for a subscriber: the place it had is free.      *)
LEMMA WithinTaken ==
  ASSUME SInv, toHub' \in Seq(ToHub), toPage' \in Seq(ToPage), asks' \in {asks, asks + 1},
         Count(toHub', {"open", "subscribe"}) + 1 <= Count(toHub, {"open", "subscribe"}),
         Count(toPage', {"opened"}) <= Count(toPage, {"opened"}) + (asks + 1 - asks')
  PROVE  /\ WithinAsks' /\ asks + 1 \in Ask
         /\ asks' \in Nat
<1> DEFINE h == Count(toHub, {"open", "subscribe"})
<1> DEFINE p == Count(toPage, {"opened"})
<1> DEFINE h1 == Count(toHub', {"open", "subscribe"})
<1> DEFINE p1 == Count(toPage', {"opened"})
<1>1. h \in Nat /\ p \in Nat /\ h1 \in Nat /\ p1 \in Nat
  BY SeqSelf, CountParts DEF SInv
<1>2. asks \in Nat /\ asks + h + p <= MaxAsks /\ MaxAsks \in Nat
  BY LimitsAssumption DEF SInv, WithinAsks
<1>3. h1 + 1 <= h /\ p1 <= p + (asks + 1 - asks')
  OBVIOUS
<1> HIDE DEF h, p, h1, p1
<1>4. asks' + h1 + p1 <= MaxAsks /\ asks' \in Nat
  <2>1. CASE asks' = asks
    <3>1. p1 <= p + 1
      BY <1>1, <1>2, <1>3, <2>1
    <3> QED BY <1>1, <1>2, <1>3, <2>1, <3>1
  <2>2. CASE asks' = asks + 1
    <3>1. p1 <= p
      BY <1>1, <1>2, <1>3, <2>2
    <3> QED BY <1>1, <1>2, <1>3, <2>2, <3>1
  <2> QED BY <2>1, <2>2
<1>5. asks + 1 \in 1..MaxAsks
  BY <1>1, <1>2, <1>3
<1> QED BY <1>4, <1>5 DEF WithinAsks, h1, p1, Ask

LEMMA TermOpenHolds ==
  ASSUME TInv, SInv, toHub # <<>>, toHub' = Tail(toHub), TermOpen(Head(toHub))
  PROVE  SInv'
<1>1. Head(toHub).op = "open" /\ UNCHANGED <<view, asks>>
  BY DEF TermOpen
<1>2. /\ toHub' \in Seq(ToHub)
      /\ Count(toHub', {"open", "subscribe"}) + 1 <= Count(toHub, {"open", "subscribe"})
  BY <1>1, TakenFromHub
<1>3. PICK s \in Shell :
        /\ shell[s].state = "unborn"
        /\ \/ /\ shell' = [shell EXCEPT ![s].state = "alive"]
              /\ Send(<<[op |-> "opened", shell |-> s]>>)
           \/ UNCHANGED <<shell, toPage>>
  BY DEF TermOpen
<1>4. toPage' \in Seq(ToPage) /\ Count(toPage', {"opened"}) <= Count(toPage, {"opened"}) + 1
  <2>1. CASE Send(<<[op |-> "opened", shell |-> s]>>)
    BY <2>1, SendOneTyped, ToPageKinds DEF SInv
  <2>2. CASE UNCHANGED toPage
    <3>1. Count(toPage, {"opened"}) \in Nat
      BY SeqSelf, CountParts DEF SInv
    <3> QED BY <2>2, <3>1 DEF SInv
  <2> QED BY <1>3, <2>1, <2>2
<1>5. \A t \in Shell : ShellHolds(shell'[t])
  <2> TAKE t \in Shell
  <2>1. {"state", "ring", "subscribers", "resilient"} \subseteq DOMAIN shell[t] /\ ShellHolds(shell[t])
    BY DEF TInv, Shape, ShellShape, SInv
  <2>2. shell'[t] = shell[t] \/ shell'[t] = [shell[t] EXCEPT !.state = "alive"]
    BY <1>3 DEF TInv, Shape, ShellShape
  <2>3. CASE shell'[t] = [shell[t] EXCEPT !.state = "alive"]
    <3>1. /\ shell'[t].state = "alive" /\ shell'[t].ring = shell[t].ring
          /\ shell'[t].subscribers = shell[t].subscribers /\ shell'[t].resilient = shell[t].resilient
      BY <2>1, <2>3
    <3> QED BY <2>1, <3>1 DEF ShellHolds
  <2> QED BY <2>1, <2>2, <2>3
<1>6. asks \in Nat /\ Count(toPage', {"opened"}) <= Count(toPage, {"opened"}) + (asks + 1 - asks')
  BY <1>1, <1>4 DEF SInv
<1>7. WithinAsks'
  BY <1>1, <1>2, <1>4, <1>6, WithinTaken
<1> QED BY <1>1, <1>2, <1>4, <1>5, <1>7 DEF SInv

(* What a new subscriber is given first is what it is owed.                 *)
LEMMA ReplayIsOwed ==
  ASSUME TInv, SInv, NEW s \in Shell, NEW offset \in Nat, NEW k \in Tag, asks + 1 \in Ask
  PROVE  LET r == replayFrom(shell[s].ring, offset)
             u == [ask |-> asks + 1, conn |-> conn, tag |-> k, heard |-> r.bytes,
                   lost |-> r.lost, from |-> offset, at |-> shell[s].ring.total]
         IN  u \in Subscriber /\ Given(u, shell[s].ring.total) /\ r.bytes \in Bytes
<1> DEFINE ring == shell[s].ring
<1> DEFINE t == ring.total
<1> DEFINE r == replayFrom(ring, offset)
<1> DEFINE u == [ask |-> asks + 1, conn |-> conn, tag |-> k, heard |-> r.bytes,
                 lost |-> r.lost, from |-> offset, at |-> t]
<1> DEFINE oldest == t - Most(t)
<1> DEFINE start == IF offset < oldest THEN oldest ELSE IF offset < t THEN offset ELSE t
<1>1. ring \in Ring /\ IsWindow(ring)
  BY DEF SInv, ShellHolds
<1> HIDE DEF ring
<1>2. r.lost = (offset < oldest) /\ r.bytes = From(start, t) /\ r.bytes \in Bytes
  BY <1>1, ReplayIsTheRest
<1>3. t \in Nat /\ MaxBuffered \in Nat \ {0} /\ conn \in Conn
  BY <1>1, RingParts, WindowAssumption DEF TInv, Shape, HubShape
<1> HIDE DEF t, r
<1>4. oldest = IF t < MaxBuffered THEN 0 ELSE t - MaxBuffered
  BY <1>3 DEF Most
<1> HIDE DEF oldest
<1>5. u \in Subscriber
  BY <1>2, <1>3 DEF Subscriber, Bytes
<1>6. Given(u, t)
  <2>1. u.at = t /\ u.from = offset /\ u.heard = r.bytes /\ u.lost = r.lost
    OBVIOUS
  <2> HIDE DEF u
  <2>2. u.lost <=> offset < oldest
    BY <1>2, <2>1
  <2>3. start = IF u.lost THEN oldest ELSE IF offset < t THEN offset ELSE t
    BY <2>2
  <2> HIDE DEF start
  <2>4. u.at <= t /\ u.heard = From(start, t)
    BY <1>2, <1>3, <2>1
  <2> QED BY <1>4, <2>1, <2>2, <2>3, <2>4 DEF Given
<1> QED BY <1>2, <1>5, <1>6 DEF u, r, t, ring

LEMMA SubscribeHolds ==
  ASSUME TInv, SInv, NEW s \in Shell, NEW offset \in Nat, NEW k \in Tag, asks + 1 \in Ask,
         shell[s].state = "alive", subscribe(s, offset, k)
  PROVE  /\ \A t \in Shell : ShellHolds(shell'[t])
         /\ asks' = asks + 1
         /\ toPage' \in Seq(ToPage) /\ Count(toPage', {"opened"}) <= Count(toPage, {"opened"})
<1> DEFINE r == replayFrom(shell[s].ring, offset)
<1> DEFINE u == [ask |-> asks + 1, conn |-> conn, tag |-> k, heard |-> r.bytes,
                 lost |-> r.lost, from |-> offset, at |-> shell[s].ring.total]
<1> DEFINE lost == IF r.lost THEN <<[op |-> "lost", shell |-> s]>> ELSE <<>>
<1> DEFINE output == IF r.bytes = <<>> THEN <<>>
                     ELSE <<[op |-> "bytes", tag |-> k, shell |-> s, bytes |-> r.bytes]>>
<1> DEFINE done == <<[op |-> "subscribed", shell |-> s, tag |-> k]>>
<1> DEFINE Quiet == {m \in ToPage : m.op # "opened"}
<1>1. u \in Subscriber /\ Given(u, shell[s].ring.total) /\ r.bytes \in Bytes
  BY ReplayIsOwed
<1>2. /\ shell' = [shell EXCEPT ![s].subscribers = @ \cup {u}] /\ asks' = asks + 1
      /\ Send(lost \o output \o done)
  BY DEF subscribe
<1> HIDE DEF r, u
<1>3. \A t \in Shell : ShellHolds(shell'[t])
  <2> TAKE t \in Shell
  <2>1. {"state", "ring", "subscribers", "resilient"} \subseteq DOMAIN shell[t] /\ ShellHolds(shell[t])
    BY DEF TInv, Shape, ShellShape, SInv
  <2>2. CASE t # s
    BY <1>2, <2>1, <2>2 DEF TInv, Shape, ShellShape
  <2>3. CASE t = s
    <3>1. shell'[t] = [shell[t] EXCEPT !.subscribers = @ \cup {u}]
      BY <1>2, <2>3 DEF TInv, Shape, ShellShape
    <3>2. /\ shell'[t].state = "alive" /\ shell'[t].ring = shell[t].ring
          /\ shell'[t].subscribers = shell[t].subscribers \cup {u}
          /\ shell'[t].resilient = shell[t].resilient
      BY <2>1, <2>3, <3>1
    <3> QED BY <1>1, <2>1, <2>3, <3>2 DEF ShellHolds
  <2> QED BY <2>2, <2>3
<1>4. lost \in Seq(Quiet) /\ output \in Seq(Quiet) /\ done \in Seq(Quiet)
  <2>1. /\ [op |-> "lost", shell |-> s] \in Quiet
        /\ [op |-> "bytes", tag |-> k, shell |-> s, bytes |-> r.bytes] \in Quiet
        /\ [op |-> "subscribed", shell |-> s, tag |-> k] \in Quiet
    BY <1>1, ToPageKinds
  <2> HIDE DEF Quiet
  <2> QED BY <2>1
<1> HIDE DEF lost, output, done
<1> DEFINE ms == lost \o output \o done
<1>5. ms \in Seq(Quiet)
  <2> HIDE DEF Quiet
  <2> QED BY <1>4
<1> HIDE DEF ms
<1>6. ms \in Seq(ToPage) /\ \A i \in DOMAIN ms : ms[i].op # "opened"
  <2>1. \A i \in DOMAIN ms : ms[i] \in Quiet
    <3> HIDE DEF Quiet
    <3> QED BY <1>5
  <2>2. ms = [i \in 1..Len(ms) |-> ms[i]] /\ Len(ms) \in Nat /\ DOMAIN ms = 1..Len(ms)
    <3> HIDE DEF Quiet
    <3> QED BY <1>5
  <2>3. \A i \in 1..Len(ms) : ms[i] \in ToPage
    BY <2>1, <2>2
  <2>4. ms \in Seq(ToPage)
    BY <2>2, <2>3
  <2> QED BY <2>1, <2>4
<1>7. toPage' \in Seq(ToPage) /\ Count(toPage', {"opened"}) <= Count(toPage, {"opened"})
  <2>1. Send(ms) /\ toPage \in Seq(ToPage)
    BY <1>2 DEF ms, SInv
  <2> QED BY <1>6, <2>1, SendTyped
<1> QED BY <1>2, <1>3, <1>7

LEMMA TermSubscribeHolds ==
  ASSUME TInv, SInv, toHub # <<>>, toHub' = Tail(toHub), handleTermSubscribe(Head(toHub))
  PROVE  SInv'
<1> DEFINE m == Head(toHub)
<1> DEFINE k == TagFor(m.shell)
<1>1. m.op = "subscribe" /\ UNCHANGED view
  BY DEF handleTermSubscribe
<1>2. /\ toHub' \in Seq(ToHub) /\ m \in ToHub
      /\ Count(toHub', {"open", "subscribe"}) + 1 <= Count(toHub, {"open", "subscribe"})
  BY <1>1, TakenFromHub
<1>3. m.shell \in Shell /\ m.offset \in Nat
  BY <1>1, <1>2, ToHubParts
<1>4. k \in Nat
  BY <1>3, TagForParts
<1>5. Count(toHub', {"open", "subscribe"}) \in Nat /\ Count(toHub, {"open", "subscribe"}) \in Nat
      /\ Count(toPage, {"opened"}) \in Nat /\ asks \in Nat /\ MaxAsks \in Nat
  BY <1>2, SeqSelf, CountParts, LimitsAssumption DEF SInv
<1>6. asks + 1 \in Ask
  BY <1>2, <1>5 DEF SInv, WithinAsks, Ask
<1>7. \/ UNCHANGED <<shell, toPage, asks>>
      \/ k \in Tag /\ shell[m.shell].state = "alive" /\ subscribe(m.shell, m.offset, k)
  BY <1>4, LimitsAssumption DEF handleTermSubscribe, Tag
<1> HIDE DEF m, k
<1>8. /\ \A t \in Shell : ShellHolds(shell'[t])
      /\ asks' \in {asks, asks + 1}
      /\ toPage' \in Seq(ToPage) /\ Count(toPage', {"opened"}) <= Count(toPage, {"opened"})
  <2>1. CASE UNCHANGED <<shell, toPage, asks>>
    BY <1>5, <2>1 DEF SInv
  <2>2. CASE k \in Tag /\ shell[m.shell].state = "alive" /\ subscribe(m.shell, m.offset, k)
    BY <1>3, <1>6, <2>2, SubscribeHolds
  <2> QED BY <1>7, <2>1, <2>2
<1>9. Count(toPage', {"opened"}) <= Count(toPage, {"opened"}) + (asks + 1 - asks')
  <2>1. Count(toPage', {"opened"}) \in Nat
    BY <1>8, SeqSelf, CountParts
  <2> QED BY <1>5, <1>8, <2>1
<1>10. WithinAsks' /\ asks' \in Nat
  BY <1>2, <1>8, <1>9, WithinTaken
<1> QED BY <1>1, <1>2, <1>8, <1>10 DEF SInv

LEMMA MessageHolds == ASSUME TInv, SInv, handleMessage PROVE SInv'
<1>1. toHub # <<>> /\ toHub' = Tail(toHub)
  BY DEF handleMessage
<1> QED BY <1>1, TermOpenHolds, TermSubscribeHolds, TermCloseHolds, TermSetResilientHolds, BinaryFrameHolds
        DEF handleMessage

LEMMA DetachAllHolds == ASSUME TInv, SInv, NEW c \in Conn, detachAllTerminals(c) PROVE SInv'
<1>1. UNCHANGED <<toHub, toPage, view, asks>>
  BY DEF detachAllTerminals
<1>2. \A s \in Shell : ShellHolds(shell'[s])
  <2> TAKE s \in Shell
  <2>1. {"state", "ring", "subscribers", "resilient"} \subseteq DOMAIN shell[s] /\ ShellHolds(shell[s])
    BY DEF TInv, Shape, ShellShape, SInv
  <2>2. \E gone : shell'[s] = [shell[s] EXCEPT !.subscribers = @ \ gone]
    BY DEF detachAllTerminals
  <2>3. PICK gone : shell'[s] = [shell[s] EXCEPT !.subscribers = @ \ gone]
    BY <2>2
  <2>4. /\ shell'[s].state = shell[s].state /\ shell'[s].ring = shell[s].ring
        /\ shell'[s].subscribers \subseteq shell[s].subscribers
        /\ shell'[s].resilient = shell[s].resilient
    BY <2>1, <2>3
  <2> QED BY <2>1, <2>4 DEF ShellHolds
<1>3. WithinAsks'
  BY <1>1 DEF WithinAsks, SInv, Count, OfKind
<1> QED BY <1>1, <1>2, <1>3 DEF SInv

--------------------------------------------------------------------------------
(* WHAT SUBSCRIBERS ARE GIVEN: THE PAGE *)

LEMMA ViewParts ==
  ASSUME NEW v \in View
  PROVE  /\ v.status \in {"idle", "opening", "live", "exited"}
         /\ v.id \in Shell \cup {None} /\ v.tag \in Tag \cup {None} /\ v.offset \in Nat
         /\ v.learnt \in Shell \cup {None} /\ v.on \in Conn \cup {None}
BY DEF View

LEMMA ViewMade ==
  ASSUME NEW st \in {"idle", "opening", "live", "exited"}, NEW i \in Shell \cup {None},
         NEW k \in Tag \cup {None}, NEW n \in Nat, NEW l \in Shell \cup {None},
         NEW c \in Conn \cup {None}
  PROVE  [status |-> st, id |-> i, tag |-> k, offset |-> n, learnt |-> l, on |-> c] \in View
BY DEF View

LEMMA BlankViews ==
  /\ Blank \in View /\ [Blank EXCEPT !.status = "opening"] \in View
  /\ \A s \in Shell : [Blank EXCEPT !.status = "opening", !.id = s] \in View
BY DEF Blank, View

(* What the user does: one more to ask for where there is room.             *)
LEMMA ActHolds ==
  ASSUME TInv, SInv, Acts, view' \in View, toHub' \in Seq(ToHub),
         \/ Count(toHub', {"open", "subscribe"}) <= Count(toHub, {"open", "subscribe"})
         \/ Room /\ Count(toHub', {"open", "subscribe"}) <= Count(toHub, {"open", "subscribe"}) + 1
  PROVE  SInv'
<1>1. UNCHANGED <<shell, toPage, asks>>
  BY DEF Acts
<1>2. WithinAsks'
  <2> DEFINE h == Count(toHub, {"open", "subscribe"})
  <2> DEFINE p == Count(toPage, {"opened"})
  <2> DEFINE h1 == Count(toHub', {"open", "subscribe"})
  <2>1. h \in Nat /\ p \in Nat /\ h1 \in Nat
    BY SeqSelf, CountParts DEF SInv
  <2>2. asks \in Nat /\ asks + h + p <= MaxAsks /\ MaxAsks \in Nat
    BY LimitsAssumption DEF SInv, WithinAsks
  <2>3. Room => asks + h + p < MaxAsks
    <3>1. OfKind(toPage, {"opened"}) = {i \in DOMAIN toPage : toPage[i].op = "opened"}
      BY DEF OfKind
    <3> QED BY <3>1 DEF Room, Count, OfKind
  <2>4. h1 <= h \/ (Room /\ h1 <= h + 1)
    OBVIOUS
  <2>5. toPage' = toPage /\ asks' = asks
    BY <1>1
  <2> HIDE DEF h, p, h1
  <2>6. asks + h1 + p <= MaxAsks
    BY <2>1, <2>2, <2>3, <2>4
  <2> QED BY <2>5, <2>6 DEF WithinAsks, h1, p
<1> QED BY <1>1, <1>2 DEF SInv

LEMMA UserHolds == ASSUME TInv, SInv, User PROVE SInv'
<1>1. toHub \in Seq(ToHub) /\ view \in View
  BY DEF SInv
<1>2. Count(toHub, {"open", "subscribe"}) \in Nat
  BY <1>1, SeqSelf, CountParts
<1>3. CASE openTerminal
  <2>1. /\ Acts /\ Room /\ view' = [Blank EXCEPT !.status = "opening"] /\ Says(<<[op |-> "open"]>>)
    BY <1>3 DEF openTerminal
  <2>2. /\ toHub' \in Seq(ToHub)
        /\ Count(toHub', {"open", "subscribe"}) <= Count(toHub, {"open", "subscribe"}) + 1
    BY <1>1, <2>1, ToHubKinds, SaysTyped
  <2> QED BY <2>1, <2>2, BlankViews, ActHolds
<1>4. CASE enterTerminal
  <2>1. PICK s \in Shell :
          /\ Acts /\ Room /\ view' = [Blank EXCEPT !.status = "opening", !.id = s]
          /\ Says(<<[op |-> "subscribe", shell |-> s, offset |-> 0]>>)
    BY <1>4 DEF enterTerminal
  <2>2. /\ toHub' \in Seq(ToHub)
        /\ Count(toHub', {"open", "subscribe"}) <= Count(toHub, {"open", "subscribe"}) + 1
    BY <1>1, <2>1, ToHubKinds, SaysTyped
  <2> QED BY <2>1, <2>2, BlankViews, ActHolds
<1>5. CASE detachTerminal
  <2>1. Acts /\ view' = Blank /\ toHub' = toHub
    BY <1>5 DEF detachTerminal
  <2>2. Count(toHub', {"open", "subscribe"}) <= Count(toHub, {"open", "subscribe"})
    BY <1>2, <2>1
  <2> QED BY <1>1, <2>1, <2>2, BlankViews, ActHolds
<1>6. CASE killTerminal
  <2>1. PICK s \in Shell :
          /\ Acts /\ Says(<<[op |-> "close", shell |-> s]>>)
          /\ view' = IF view.id = s THEN Blank ELSE view
    BY <1>6 DEF killTerminal
  <2> DEFINE m == [op |-> "close", shell |-> s]
  <2>2. m \in ToHub /\ m.op \notin {"open", "subscribe"}
    BY ToHubKinds
  <2>3. /\ toHub' \in Seq(ToHub)
        /\ Count(toHub', {"open", "subscribe"}) <= Count(toHub, {"open", "subscribe"})
    BY <1>1, <2>1, <2>2, SaysTyped
  <2> QED BY <1>1, <2>1, <2>3, BlankViews, ActHolds
<1>7. CASE setTerminalResilient
  <2>1. PICK s \in Shell :
          /\ Acts /\ UNCHANGED view
          /\ Says(<<[op |-> "set_resilient", shell |-> s, resilient |-> ~shell[s].resilient]>>)
    BY <1>7 DEF setTerminalResilient
  <2> DEFINE m == [op |-> "set_resilient", shell |-> s, resilient |-> ~shell[s].resilient]
  <2>2. m \in ToHub /\ m.op \notin {"open", "subscribe"}
    BY ToHubKinds
  <2>3. /\ toHub' \in Seq(ToHub)
        /\ Count(toHub', {"open", "subscribe"}) <= Count(toHub, {"open", "subscribe"})
    BY <1>1, <2>1, <2>2, SaysTyped
  <2> QED BY <1>1, <2>1, <2>3, ActHolds
<1>8. CASE sendTerminalInput
  <2> DEFINE s == IF view.on = conn THEN view.learnt ELSE view.id
  <2> DEFINE m == [op |-> "input", tag |-> view.tag, meant |-> s]
  <2>1. Acts /\ UNCHANGED view /\ view.tag # None /\ Says(<<m>>)
    BY <1>8 DEF sendTerminalInput
  <2>2. m \in ToHub /\ m.op \notin {"open", "subscribe"}
    <3>1. view.tag \in Tag /\ s \in Shell \cup {None}
      BY <1>1, <2>1, ViewParts
    <3> HIDE DEF s
    <3> QED BY <3>1, ToHubKinds
  <2>3. /\ toHub' \in Seq(ToHub)
        /\ Count(toHub', {"open", "subscribe"}) <= Count(toHub, {"open", "subscribe"})
    BY <1>1, <2>1, <2>2, SaysTyped
  <2> QED BY <1>1, <2>1, <2>3, ActHolds
<1> QED BY <1>3, <1>4, <1>5, <1>6, <1>7, <1>8 DEF User

LEMMA EnvelopeHolds == ASSUME TInv, SInv, applyServerEnvelope PROVE SInv'
<1> DEFINE m == Head(toPage)
<1>1. /\ toPage # <<>> /\ toPage' = Tail(toPage) /\ UNCHANGED <<shell, asks, conn>>
      /\ TermOpened(m) \/ TermSubscribed(m) \/ TermLost(m) \/ TermExit(m) \/ handleTerminalBinary(m)
  BY DEF applyServerEnvelope
<1>2. /\ toPage' \in Seq(ToPage) /\ m \in ToPage
      /\ Count(toPage', {"opened"}) <= Count(toPage, {"opened"})
      /\ m.op \in {"opened"} => Count(toPage', {"opened"}) + 1 <= Count(toPage, {"opened"})
  BY <1>1, TakenFromPage
<1>3. /\ toHub \in Seq(ToHub) /\ view \in View /\ conn \in Conn
      /\ view = [status |-> view.status, id |-> view.id, tag |-> view.tag, offset |-> view.offset,
                 learnt |-> view.learnt, on |-> view.on]
  BY DEF SInv, TInv, Shape, HubShape, View
<1>4. /\ Count(toHub, {"open", "subscribe"}) \in Nat /\ Count(toPage, {"opened"}) \in Nat
      /\ Count(toPage', {"opened"}) \in Nat
  BY <1>2, <1>3, SeqSelf, CountParts DEF SInv
<1> HIDE DEF m
<1>5. CASE TermOpened(m)
  <2>1. /\ m.op = "opened" /\ m.shell \in Shell
        /\ view' = [view EXCEPT !.id = m.shell, !.offset = 0]
        /\ Says(<<[op |-> "subscribe", shell |-> m.shell, offset |-> 0]>>)
    BY <1>2, <1>5, ToPageParts DEF TermOpened
  <2>2. view' \in View
    <3>1. view' = [status |-> view.status, id |-> m.shell, tag |-> view.tag, offset |-> 0,
                   learnt |-> view.learnt, on |-> view.on]
      BY <1>3, <2>1
    <3>2. /\ view.status \in {"idle", "opening", "live", "exited"} /\ view.tag \in Tag \cup {None}
          /\ view.learnt \in Shell \cup {None} /\ view.on \in Conn \cup {None}
      BY <1>3, ViewParts
    <3> DEFINE i == m.shell
    <3>3. i \in Shell \cup {None} /\ 0 \in Nat
      BY <2>1
    <3> HIDE DEF i
    <3>4. [status |-> view.status, id |-> i, tag |-> view.tag, offset |-> 0,
           learnt |-> view.learnt, on |-> view.on] \in View
      BY <3>2, <3>3, ViewMade
    <3> QED BY <3>1, <3>4 DEF i
  <2>3. /\ toHub' \in Seq(ToHub)
        /\ Count(toHub', {"open", "subscribe"}) <= Count(toHub, {"open", "subscribe"}) + 1
    BY <1>3, <2>1, ToHubKinds, SaysTyped
  <2>4. WithinAsks'
    <3> DEFINE h == Count(toHub, {"open", "subscribe"})
    <3> DEFINE p == Count(toPage, {"opened"})
    <3> DEFINE h1 == Count(toHub', {"open", "subscribe"})
    <3> DEFINE p1 == Count(toPage', {"opened"})
    <3>1. h \in Nat /\ p \in Nat /\ h1 \in Nat /\ p1 \in Nat
      BY <1>4, <2>3, SeqSelf, CountParts
    <3>2. asks \in Nat /\ asks + h + p <= MaxAsks /\ MaxAsks \in Nat /\ asks' = asks
      BY <1>1, LimitsAssumption DEF SInv, WithinAsks
    <3>3. h1 <= h + 1 /\ p1 + 1 <= p
      BY <1>2, <2>1, <2>3
    <3> HIDE DEF h, p, h1, p1
    <3>4. asks' + h1 + p1 <= MaxAsks
      BY <3>1, <3>2, <3>3
    <3> QED BY <3>4 DEF WithinAsks, h1, p1
  <2> QED BY <1>1, <1>2, <2>2, <2>3, <2>4 DEF SInv
<1>6. CASE TermSubscribed(m) \/ TermLost(m) \/ TermExit(m) \/ handleTerminalBinary(m)
  <2>1. UNCHANGED toHub
    BY <1>6 DEF TermSubscribed, TermLost, TermExit, handleTerminalBinary
  <2>2. view' \in View
    <3>1. CASE TermSubscribed(m) /\ view' # view
      <4>1. m.op = "subscribed" /\ view' = [view EXCEPT !.tag = m.tag, !.status = "live", !.learnt = view.id, !.on = conn]
        BY <3>1 DEF TermSubscribed
      <4>2. m.tag \in Tag
        BY <1>2, <4>1, ToPageParts
      <4>3. view' = [status |-> "live", id |-> view.id, tag |-> m.tag, offset |-> view.offset,
                     learnt |-> view.id, on |-> conn]
        BY <1>3, <4>1
      <4> QED BY <1>3, <4>2, <4>3, ViewParts, ViewMade
    <3>2. CASE TermExit(m) /\ view' # view
      <4>1. view' = [view EXCEPT !.status = "exited", !.id = None, !.tag = None, !.learnt = None, !.on = None]
        BY <3>2 DEF TermExit
      <4>2. view' = [status |-> "exited", id |-> None, tag |-> None, offset |-> view.offset,
                     learnt |-> None, on |-> None]
        BY <1>3, <4>1
      <4> QED BY <1>3, <4>2, ViewParts, ViewMade
    <3>3. CASE handleTerminalBinary(m) /\ view' # view
      <4>1. m.op = "bytes" /\ view' = [view EXCEPT !.offset = @ + Len(m.bytes)]
        BY <3>3 DEF handleTerminalBinary
      <4>2. m.bytes \in Bytes
        BY <1>2, <4>1, ToPageParts
      <4>3. Len(m.bytes) \in Nat
        BY <4>2 DEF Bytes
      <4>4. view' = [status |-> view.status, id |-> view.id, tag |-> view.tag,
                     offset |-> view.offset + Len(m.bytes), learnt |-> view.learnt, on |-> view.on]
        BY <1>3, <4>1
      <4>5. view.offset + Len(m.bytes) \in Nat
        BY <1>3, <4>3, ViewParts
      <4> QED BY <1>3, <4>4, <4>5, ViewParts, ViewMade
    <3>4. CASE TermLost(m) \/ view' = view
      BY <1>3, <3>4 DEF TermLost
    <3> QED BY <1>6, <3>1, <3>2, <3>3, <3>4
  <2>3. WithinAsks'
    BY <1>1, <1>2, <1>3, <1>4, <2>1, WithinStep
  <2> QED BY <1>1, <1>2, <2>1, <2>2, <2>3 DEF SInv
<1> QED BY <1>1, <1>5, <1>6

LEMMA ConnectHolds == ASSUME TInv, SInv, connect PROVE SInv'
<1>1. /\ ~up /\ asks < MaxAsks /\ UNCHANGED <<shell, toPage, view, asks>>
      /\ \/ /\ view.id # None
            /\ toHub' = <<[op |-> "subscribe", shell |-> view.id, offset |-> view.offset]>>
         \/ toHub' = <<>>
  BY DEF connect
<1>2. toHub = <<>> /\ toPage = <<>>
  BY <1>1 DEF TInv, Shape, ToHubShape, ToPageShape
<1>3. toHub' \in Seq(ToHub) /\ Count(toHub', {"open", "subscribe"}) \in {0, 1}
  <2>1. CASE toHub' = <<>>
    <3>1. Count(toHub', {"open", "subscribe"}) = 0
      BY <2>1, FS_EmptySet DEF Count, OfKind
    <3> QED BY <2>1, <3>1
  <2>2. CASE view.id # None /\ toHub' = <<[op |-> "subscribe", shell |-> view.id, offset |-> view.offset]>>
    <3>1. [op |-> "subscribe", shell |-> view.id, offset |-> view.offset] \in ToHub
      BY <2>2, ViewParts, ToHubKinds DEF SInv
    <3>2. toHub' \in Seq(ToHub) /\ DOMAIN toHub' = {1} /\ toHub'[1].op = "subscribe"
      BY <2>2, <3>1
    <3>3. OfKind(toHub', {"open", "subscribe"}) = {1}
      BY <3>2 DEF OfKind
    <3> QED BY <3>2, <3>3, FS_Singleton DEF Count
  <2> QED BY <1>1, <2>1, <2>2
<1>4. Count(toPage', {"opened"}) = 0
  BY <1>1, <1>2, FS_EmptySet DEF Count, OfKind
<1>5. WithinAsks'
  BY <1>1, <1>3, <1>4, LimitsAssumption DEF SInv, WithinAsks
<1> QED BY <1>1, <1>3, <1>5 DEF SInv

LEMMA InitHolds == ASSUME Init PROVE SInv
<1>1. \A s \in Shell : ShellHolds(shell[s])
  BY UnbornHolds DEF Init
<1>2. toHub \in Seq(ToHub) /\ toPage \in Seq(ToPage) /\ view \in View /\ asks = 0
  <2>1. toHub = <<>> /\ toPage = <<>> /\ view = Blank /\ asks = 0
    BY DEF Init
  <2>2. toHub \in Seq(ToHub) /\ toPage \in Seq(ToPage)
    BY <2>1
  <2>3. view \in View
    BY <2>1, BlankViews
  <2> QED BY <2>1, <2>2, <2>3
<1>3. Count(toHub, {"open", "subscribe"}) = 0 /\ Count(toPage, {"opened"}) = 0
  BY FS_EmptySet DEF Init, Count, OfKind
<1> QED BY <1>1, <1>2, <1>3, LimitsAssumption DEF SInv, WithinAsks

LEMMA NextHolds == ASSUME TInv, SInv, [Next]_vars PROVE SInv'
<1>1. ASSUME NEW s \in Shell, Output(s) \/ Exits(s) \/ reapIdle(s) PROVE SInv'
  BY <1>1, OutputHolds, EndHolds
<1>2. CASE closeAll
  BY <1>2, CloseAllHolds
<1>3. CASE Hub
  BY <1>3, MessageHolds, DetachAllHolds DEF Hub
<1>4. CASE User
  BY <1>4, UserHolds
<1>5. CASE Page
  BY <1>5, EnvelopeHolds, ConnectHolds DEF Page
<1>6. CASE Drops
  BY <1>6, DropsHolds
<1>7. CASE UNCHANGED vars
  BY <1>7 DEF vars, SInv, WithinAsks, Count, OfKind
<1> QED BY <1>1, <1>2, <1>3, <1>4, <1>5, <1>6, <1>7 DEF Next, Host

(* In every state the rings are windows, subscribers were given what they  *)
(* are owed, and everything is of its type.                                 *)
LEMMA StreamInvariant == Spec => []SInv
<1>1. Init => SInv
  BY InitHolds
<1>2. TInv /\ SInv /\ [Next]_vars => SInv'
  BY NextHolds
<1> QED BY <1>1, <1>2, TagInvariant, PTL DEF Spec

(* Whatever shells, connections, tags and output there are, the state of    *)
(* the terminals is of its types, and no more subscribers are made than the *)
(* bound allows.                                                            *)
THEOREM TerminalsTyped == Spec => []TypeOK
<1>1. TInv /\ SInv => TypeOK
  <2> SUFFICES ASSUME TInv, SInv PROVE TypeOK
    OBVIOUS
  <2>1. asks \in 0..MaxAsks
    <3>1. Count(toHub, {"open", "subscribe"}) \in Nat /\ Count(toPage, {"opened"}) \in Nat
      BY SeqSelf, CountParts DEF SInv
    <3> QED BY <3>1, LimitsAssumption DEF SInv, WithinAsks
  <2> QED BY <2>1 DEF SInv, ShellHolds, TInv, Shape, HubShape, TypeOK
<1> QED BY <1>1, TagInvariant, StreamInvariant, PTL

(* However the output of a shell is cut into chunks, and whatever the       *)
(* window, its buffer holds the newest of it, in order (ringBuffer.ts       *)
(* 61-88).                                                                  *)
THEOREM WindowsHoldTheNewest == Spec => []RingsAreWindows
<1>1. SInv => RingsAreWindows
  BY DEF SInv, ShellHolds, RingsAreWindows
<1> QED BY <1>1, StreamInvariant, PTL

(* For any output, window and offset, a subscriber is given each byte from  *)
(* where it is owed to now, once and in order, through replay and live      *)
(* output (ringBuffer.ts 91-114, terminalHost.ts).                          *)
THEOREM OutputIsConserved == Spec => []SubscriberConservesBytes
<1>1. SInv => SubscriberConservesBytes
  BY DEF SInv, ShellHolds, Given, SubscriberConservesBytes
<1> QED BY <1>1, StreamInvariant, PTL
================================================================================
