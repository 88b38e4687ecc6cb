--------------------------- MODULE OrchestratorProofs ---------------------------
(* Theorems about Orchestrator: one orchestrator per project, and what the  *)
(* memory of the steward, a fold of its stream, makes of the ladder and of  *)
(* the door.                                                                *)
EXTENDS Orchestrator, WellFoundedInduction, TLAPS

--------------------------------------------------------------------------------
(* THE STRENGTHENING *)

Memory(s) == Recall(EmptyMemory, log[s])

(* The newest entry of a stream is a nudge: something was said since the    *)
(* last compaction.                                                         *)
Asked(s) == log[s] # <<>> /\ log[s][Len(log[s])].level # 0

Newest(s) == IF log[s] = <<>> THEN 0 ELSE log[s][Len(log[s])].level

LedgerShape == ledger \in [Session -> [memory : [highest : Level \cup {0}, first : Time \cup {None}],
                                       next : Nat]]

(* The ledger holds the fold of what it has read, whenever it began.        *)
LedgerFollows ==
  \A s \in Session :
    ledger[s].memory = Recall(EmptyMemory, SubSeq(log[s], 1, ledger[s].next - 1))

(* What a stream folds to: the rung said last, and since when.              *)
MemorySays ==
  \A s \in Session :
    /\ Memory(s).highest = Newest(s)
    /\ Memory(s).first \in Time \cup {None}
    /\ Memory(s).first # None <=> Asked(s)
    /\ Memory(s).first # None => Memory(s).first <= now

(* Notes that lifted the hold are no older than the asking.                 *)
BankedSince ==
  /\ notes # None => notes <= now
  /\ \A s \in banked : Asked(s) /\ notes # None /\ Memory(s).first <= notes

HostTypes ==
  /\ up \in BOOLEAN
  /\ founded \in Seq(Session) /\ Len(founded) <= 1
  /\ liveness \in [Session -> {"unborn", "spawning", "running", "dormant", "interrupted"}]
  /\ process \in [Session -> {"none", "open", "compacted", "ended"}]
  /\ ghost \in [Session -> {"none", "open", "compacted"}]
  /\ watched \subseteq Session

Entry == {Compaction} \cup [level : Level, at : Time]

StewardTypes ==
  /\ fill \in [Session -> 0..MaxFill \cup {None}]
  /\ log \in [Session -> Seq(Entry)]
  /\ \A s \in Session : ledger[s].next \in 1..Len(log[s]) + 1
  /\ now \in Time /\ notes \in Time \cup {None}
  /\ door \in [Session -> {"none", "open", "held"}]
  /\ banked \subseteq Session

StreamInv ==
  StewardTypes /\ LedgerShape /\ LedgerFollows /\ MemorySays /\ LadderIsClimbed /\ BankedSince

OInv == HostTypes /\ StreamInv

--------------------------------------------------------------------------------
(* FOLDS OF A STREAM *)

(* Induction over the numbers, with a set in the place of a predicate: a    *)
(* number outside the set would have a least one.                           *)
LEMMA Induction == ASSUME NEW T, 0 \in T, \A n \in Nat : n \in T => n + 1 \in T
                   PROVE  Nat \subseteq T
<1> DEFINE R == {p \in Nat \X Nat : p[1] < p[2]}
<1> DEFINE U == Nat \ T
<1> SUFFICES ASSUME U # {} PROVE FALSE
  OBVIOUS
<1>1. IsWellFoundedOn(R, Nat)
  BY NatLessThanWellFounded DEF OpToRel
<1>2. PICK x \in U : \A y \in U : <<y, x>> \notin R
  <2> HIDE DEF R
  <2>1. U \subseteq Nat
    OBVIOUS
  <2> HIDE DEF U
  <2> QED BY <2>1, <1>1, WFMin
<1>3. x \in Nat /\ x # 0 /\ x - 1 \in Nat /\ x - 1 < x
  OBVIOUS
<1>4. <<x - 1, x>> \in R
  BY <1>3
<1>5. x - 1 \notin U
  BY <1>2, <1>4
<1> QED BY <1>3, <1>5

LEMMA MaxOfTop == ASSUME NEW n \in Nat, NEW S \in SUBSET (1..n + 1), n + 1 \in S
                  PROVE  Max(S) = n + 1
<1>1. \A y \in S : n + 1 >= y
  OBVIOUS
<1>2. \A x \in S : (\A y \in S : x >= y) => x = n + 1
  BY <1>1
<1> QED BY <1>1, <1>2 DEF Max

LEMMA MaxIsIn == ASSUME NEW n \in Nat, NEW S \in SUBSET (1..n), S # {}
                 PROVE  Max(S) \in S
<1> DEFINE HasMax(k) == \A P \in SUBSET (1..k) : P # {} => \E x \in P : \A y \in P : x >= y
<1> DEFINE T == {k \in Nat : HasMax(k)}
<1>1. 0 \in T
  <2>1. 1..0 = {}
    OBVIOUS
  <2> QED BY <2>1
<1>2. \A k \in Nat : k \in T => k + 1 \in T
  <2> TAKE k \in Nat
  <2> HAVE k \in T
  <2> SUFFICES ASSUME NEW P \in SUBSET (1..k + 1), P # {}
               PROVE  \E x \in P : \A y \in P : x >= y
    OBVIOUS
  <2>1. CASE k + 1 \in P
    BY <2>1
  <2>2. CASE k + 1 \notin P
    <3>1. P \in SUBSET (1..k)
      BY <2>2
    <3> QED BY <3>1
  <2> QED BY <2>1, <2>2
<1>3. n \in T
  <2> HIDE DEF T
  <2> QED BY <1>1, <1>2, Induction
<1> QED BY <1>3 DEF Max

(* The recursive function under FoldLeft, and that there is one.            *)
Folding(g, m, q, n) ==
  g = [S \in SUBSET (1..n) |-> IF S = {} THEN m ELSE Remember(g[S \ {Max(S)}], q[Max(S)])]

LEMMA FoldingExists == ASSUME NEW m, NEW q, NEW n \in Nat
                       PROVE  \E g : Folding(g, m, q, n)
<1> DEFINE T == {k \in Nat : \E g : Folding(g, m, q, k)}
<1>1. 0 \in T
  <2> DEFINE g == [S \in SUBSET (1..0) |-> m]
  <2>1. Folding(g, m, q, 0)
    BY DEF Folding
  <2> QED BY <2>1
<1>2. \A k \in Nat : k \in T => k + 1 \in T
  <2> TAKE k \in Nat
  <2> HAVE k \in T
  <2>1. PICK g : Folding(g, m, q, k)
    OBVIOUS
  <2> DEFINE h == [S \in SUBSET (1..k + 1) |->
                     IF k + 1 \in S THEN Remember(g[S \ {k + 1}], q[k + 1]) ELSE g[S]]
  <2>2. ASSUME NEW S \in SUBSET (1..k + 1)
        PROVE  h[S] = IF S = {} THEN m ELSE Remember(h[S \ {Max(S)}], q[Max(S)])
    <3>1. CASE k + 1 \in S
      <4>1. Max(S) = k + 1 /\ S \ {k + 1} \in SUBSET (1..k + 1) /\ k + 1 \notin S \ {k + 1}
        BY <3>1, MaxOfTop
      <4>2. h[S \ {k + 1}] = g[S \ {k + 1}]
        BY <4>1
      <4> QED BY <3>1, <4>1, <4>2
    <3>2. CASE k + 1 \notin S
      <4>1. S \in SUBSET (1..k) /\ h[S] = g[S]
        BY <3>2
      <4>2. CASE S # {}
        <5>1. Max(S) \in S /\ S \ {Max(S)} \in SUBSET (1..k + 1) /\ k + 1 \notin S \ {Max(S)}
          BY <3>2, <4>1, <4>2, MaxIsIn
        <5>2. h[S \ {Max(S)}] = g[S \ {Max(S)}]
          BY <5>1
        <5> QED BY <2>1, <4>1, <4>2, <5>2 DEF Folding
      <4> QED BY <2>1, <4>1, <4>2 DEF Folding
    <3> QED BY <3>1, <3>2
  <2>3. Folding(h, m, q, k + 1)
    <3> HIDE DEF h
    <3>1. h = [S \in SUBSET (1..k + 1) |-> h[S]]
      BY DEF h
    <3> QED BY <2>2, <3>1 DEF Folding
  <2> QED BY <2>3
<1> HIDE DEF T
<1>3. n \in T
  BY <1>1, <1>2, Induction
<1> QED BY <1>3 DEF T

(* a goes from m through the first n entries of q.                          *)
Chain(a, m, q, n) ==
  /\ a[0] = m
  /\ \A k \in 0..n - 1 : a[k + 1] = Remember(a[k], q[k + 1])

LEMMA RecallIsChain ==
  ASSUME NEW m, NEW q, NEW n \in Nat, DOMAIN q = 1..n
  PROVE  \E a : Chain(a, m, q, n) /\ Recall(m, q) = a[n]
<1> DEFINE f == CHOOSE f : Folding(f, m, q, n)
<1>1. Folding(f, m, q, n)
  BY FoldingExists
<1>2. Recall(m, q) = f[1..n]
  BY DEF Recall, FoldLeft, MapThenFoldSet, Folding
<1> HIDE DEF f
<1> DEFINE a == [k \in 0..n |-> f[1..k]]
<1>3. ASSUME NEW k \in 0..n - 1
      PROVE  f[1..k + 1] = Remember(f[1..k], q[k + 1])
  <2>1. 1..k + 1 \in SUBSET (1..n) /\ k + 1 \in 1..k + 1 /\ (1..k + 1) \ {k + 1} = 1..k
    OBVIOUS
  <2>2. Max(1..k + 1) = k + 1
    BY <2>1, MaxOfTop
  <2> QED BY <1>1, <2>1, <2>2 DEF Folding
<1>4. a[0] = m
  <2>1. 1..0 = {} /\ {} \in SUBSET (1..n)
    OBVIOUS
  <2> QED BY <1>1, <2>1 DEF Folding
<1>5. Chain(a, m, q, n)
  <2>1. ASSUME NEW k \in 0..n - 1 PROVE a[k] = f[1..k] /\ a[k + 1] = f[1..k + 1]
    OBVIOUS
  <2> HIDE DEF a
  <2> QED BY <1>3, <1>4, <2>1 DEF Chain
<1> QED BY <1>2, <1>5

LEMMA ChainsAgree ==
  ASSUME NEW m, NEW n \in Nat, NEW a, NEW p, Chain(a, m, p, n), NEW b, NEW q, Chain(b, m, q, n),
         \A k \in 1..n : p[k] = q[k]
  PROVE  a[n] = b[n]
<1> DEFINE T == {k \in Nat : k <= n => a[k] = b[k]}
<1>1. 0 \in T
  BY DEF Chain
<1>2. \A k \in Nat : k \in T => k + 1 \in T
  <2> TAKE k \in Nat
  <2> HAVE k \in T
  <2> SUFFICES ASSUME k + 1 <= n PROVE a[k + 1] = b[k + 1]
    OBVIOUS
  <2>1. k \in 0..n - 1 /\ k + 1 \in 1..n /\ a[k] = b[k]
    OBVIOUS
  <2> QED BY <2>1 DEF Chain
<1> HIDE DEF T
<1>3. n \in T
  BY <1>1, <1>2, Induction
<1> QED BY <1>3 DEF T

LEMMA RecallNothing == ASSUME NEW m PROVE Recall(m, <<>>) = m
<1>1. DOMAIN <<>> = 1..0
  OBVIOUS
<1> QED BY <1>1, RecallIsChain DEF Chain

LEMMA RecallOneMore ==
  ASSUME NEW E, NEW q \in Seq(E), NEW e \in E, NEW m
  PROVE  Recall(m, Append(q, e)) = Remember(Recall(m, q), e)
<1> DEFINE n == Len(q)
<1> DEFINE r == Append(q, e)
<1>1. n \in Nat /\ DOMAIN q = 1..n /\ DOMAIN r = 1..n + 1 /\ r[n + 1] = e /\ \A k \in 1..n : r[k] = q[k]
  OBVIOUS
<1> HIDE DEF n, r
<1>2. PICK a : Chain(a, m, q, n) /\ Recall(m, q) = a[n]
  BY <1>1, RecallIsChain
<1>3. n + 1 \in Nat
  BY <1>1
<1>4. PICK b : Chain(b, m, r, n + 1) /\ Recall(m, r) = b[n + 1]
  BY <1>1, <1>3, RecallIsChain
<1>5. Chain(b, m, r, n) /\ b[n + 1] = Remember(b[n], e)
  BY <1>1, <1>4 DEF Chain
<1>6. a[n] = b[n]
  BY <1>1, <1>2, <1>5, ChainsAgree
<1> QED BY <1>2, <1>4, <1>5, <1>6 DEF r

(* A fold may be taken up where another left it.                            *)
LEMMA RecallResumes ==
  ASSUME NEW E, NEW q \in Seq(E), NEW k \in 0..Len(q), NEW m
  PROVE  Recall(Recall(m, SubSeq(q, 1, k)), SubSeq(q, k + 1, Len(q))) = Recall(m, q)
<1> DEFINE n == Len(q)
<1> DEFINE p == SubSeq(q, 1, k)
<1> DEFINE r == SubSeq(q, k + 1, n)
<1>1. /\ n \in Nat /\ k \in Nat /\ k <= n /\ n - k \in Nat
      /\ DOMAIN q = 1..n /\ DOMAIN p = 1..k /\ DOMAIN r = 1..n - k
      /\ \A i \in 1..k : p[i] = q[i]
      /\ \A i \in 1..n - k : r[i] = q[k + i]
  OBVIOUS
<1> HIDE DEF n, p, r
<1>2. PICK a : Chain(a, m, q, n) /\ Recall(m, q) = a[n]
  BY <1>1, RecallIsChain
<1>3. PICK b : Chain(b, m, p, k) /\ Recall(m, p) = b[k]
  BY <1>1, RecallIsChain
<1>4. Chain(a, m, q, k)
  BY <1>1, <1>2 DEF Chain
<1>5. a[k] = b[k]
  BY <1>1, <1>3, <1>4, ChainsAgree
<1>6. PICK c : Chain(c, a[k], r, n - k) /\ Recall(a[k], r) = c[n - k]
  BY <1>1, RecallIsChain
<1> DEFINE d == [i \in 0..n - k |-> a[k + i]]
<1>7. Chain(d, a[k], r, n - k)
  <2>1. d[0] = a[k]
    BY <1>1
  <2>2. ASSUME NEW i \in 0..n - k - 1 PROVE d[i + 1] = Remember(d[i], r[i + 1])
    <3>1. /\ i + 1 \in 1..n - k /\ i \in 0..n - k /\ i + 1 \in 0..n - k
          /\ k + i \in 0..n - 1 /\ k + (i + 1) = (k + i) + 1
      BY <1>1
    <3>2. a[k + i + 1] = Remember(a[k + i], q[k + i + 1])
      BY <1>2, <3>1 DEF Chain
    <3>3. r[i + 1] = q[k + i + 1]
      BY <1>1, <3>1
    <3> QED BY <3>1, <3>2, <3>3
  <2> HIDE DEF d
  <2> QED BY <2>1, <2>2 DEF Chain
<1>8. d[n - k] = a[n]
  BY <1>1
<1> HIDE DEF d
<1>9. c[n - k] = d[n - k]
  BY <1>1, <1>6, <1>7, ChainsAgree
<1> QED BY <1>2, <1>3, <1>5, <1>6, <1>8, <1>9 DEF n, p, r

--------------------------------------------------------------------------------
(* THE STREAM AND ITS MEMORY *)

LEMMA Constants ==
  /\ Level = 1..Len(Threshold) /\ Len(Threshold) \in Nat
  /\ \A l \in Level : Threshold[l] \in 1..MaxFill
  /\ Time \subseteq Nat /\ None \notin Time /\ None \notin Int
<1>1. Threshold \in Seq(1..MaxFill) /\ None \notin Int /\ {MaxFill, MaxTime} \subseteq Nat
  BY LadderAssumption, BoundAssumption
<1>2. Time \subseteq Int
  BY <1>1 DEF Time
<1> QED BY <1>1, <1>2 DEF Level, Time

LEMMA TypesTogether == OInv => TypeOK
<1> DEFINE Stamped == [level : Level \cup {0}, at : Time \cup {None}]
<1>1. Entry \subseteq Stamped
  BY DEF Entry, Compaction
<1>2. ASSUME NEW q \in Seq(Entry) PROVE q \in Seq(Stamped)
  <2> HIDE DEF Stamped
  <2>1. q = [i \in 1..Len(q) |-> q[i]] /\ Len(q) \in Nat /\ \A i \in 1..Len(q) : q[i] \in Entry
    OBVIOUS
  <2> QED BY <1>1, <2>1
<1> QED BY <1>2 DEF OInv, StreamInv, HostTypes, StewardTypes, LedgerShape, TypeOK

LEMMA CurrentIsMemory ==
  ASSUME StreamInv, NEW s \in Session
  PROVE  Current(s) = [memory |-> Memory(s), next |-> Len(log[s]) + 1]
<1> DEFINE k == ledger[s].next - 1
<1>1. log[s] \in Seq(Entry) /\ k \in 0..Len(log[s]) /\ k + 1 = ledger[s].next
  BY DEF StreamInv, StewardTypes
<1>2. ledger[s].memory = Recall(EmptyMemory, SubSeq(log[s], 1, k))
  BY DEF StreamInv, LedgerFollows
<1> HIDE DEF k
<1> QED BY <1>1, <1>2, RecallResumes DEF Current, Memory

LEMMA NextRung ==
  ASSUME StreamInv, NEW s \in Session, NEW f \in 0..MaxFill, Crossed(f, Memory(s)) # {}
  PROVE  Rung(Crossed(f, Memory(s))) = Newest(s) + 1 /\ Newest(s) + 1 \in Level
<1> DEFINE h == Newest(s)
<1>1. h \in Level \cup {0} /\ Memory(s).highest = h
  <2>1. log[s] \in Seq(Entry)
    BY DEF StreamInv, StewardTypes
  <2>2. log[s] # <<>> => log[s][Len(log[s])] \in Entry
    BY <2>1
  <2> QED BY <2>1, <2>2 DEF Entry, Compaction, Newest, StreamInv, MemorySays
<1> HIDE DEF h
<1>2. PICK l \in Level : Threshold[l] <= f /\ h < l
  BY <1>1 DEF Crossed
<1>3. h + 1 \in Level /\ h < h + 1 /\ h + 1 <= l
  BY <1>1, <1>2, Constants
<1>4. Threshold[h + 1] <= f
  <2>1. Threshold[h + 1] <= Threshold[l]
    BY <1>2, <1>3, Constants, LadderAssumption DEF Level
  <2> QED BY <1>2, <1>3, <2>1, Constants
<1>5. h + 1 \in Crossed(f, Memory(s))
  BY <1>1, <1>3, <1>4 DEF Crossed
<1>6. \A j \in Crossed(f, Memory(s)) : j \in Int /\ h + 1 <= j
  BY <1>1, Constants DEF Crossed
<1>7. \A x \in Crossed(f, Memory(s)) :
        (\A y \in Crossed(f, Memory(s)) : x <= y) => x = h + 1
  BY <1>1, <1>5, <1>6, Constants
<1>8. Rung(Crossed(f, Memory(s))) = h + 1
  BY <1>5, <1>6, <1>7 DEF Rung, Min
<1> QED BY <1>3, <1>8 DEF h

LEMMA NudgeRemembered ==
  ASSUME StreamInv, NEW s \in Session, NEW l \in Level, Memory(s).highest < l
  PROVE  /\ Nudge(l, now) \in Entry
         /\ Recall(EmptyMemory, Append(log[s], Nudge(l, now)))
              = [highest |-> l, first |-> IF Memory(s).first = None THEN now ELSE Memory(s).first]
<1>1. log[s] \in Seq(Entry) /\ now \in Time
  BY DEF StreamInv, StewardTypes
<1>2. Nudge(l, now) \in Entry /\ Nudge(l, now) # Compaction
  BY <1>1, Constants DEF Nudge, Entry, Compaction
<1>3. Memory(s).highest \in Nat /\ l \in Nat
  <2>1. log[s] # <<>> => log[s][Len(log[s])] \in Entry
    BY <1>1
  <2> QED BY <2>1, Constants DEF StreamInv, MemorySays, Newest, Entry, Compaction
<1>4. Max({Memory(s).highest, l}) = l
  BY <1>3 DEF Max
<1>5. Recall(EmptyMemory, Append(log[s], Nudge(l, now))) = Remember(Memory(s), Nudge(l, now))
  BY <1>1, <1>2, RecallOneMore DEF Memory
<1> QED BY <1>2, <1>4, <1>5 DEF Remember, Highest, First, Nudge

LEMMA CompactionRemembered ==
  ASSUME StreamInv, NEW s \in Session
  PROVE  Compaction \in Entry /\ Recall(EmptyMemory, Append(log[s], Compaction)) = EmptyMemory
<1>1. log[s] \in Seq(Entry) /\ Compaction \in Entry
  BY DEF StreamInv, StewardTypes, Compaction, Entry
<1> QED BY <1>1, RecallOneMore DEF Remember

--------------------------------------------------------------------------------
(* STEPS OF THE STREAM *)

(* A host that does something of its own.                                   *)
LEMMA StewardIdle == StreamInv /\ UNCHANGED <<fill, log, ledger, now, notes, door, banked>> => StreamInv'
BY DEF StreamInv, StewardTypes, LedgerShape, LedgerFollows, MemorySays, Memory, Asked, Newest,
       LadderIsClimbed, BankedSince

(* What is said of the stream alone, while the stream and the clock stand.  *)
LEMMA StreamStands ==
  ASSUME StreamInv, UNCHANGED <<log, now, notes, banked>>
  PROVE  MemorySays' /\ LadderIsClimbed' /\ BankedSince'
BY DEF StreamInv, MemorySays, Memory, Asked, Newest, LadderIsClimbed, BankedSince

LEMMA MemoryTypes == ASSUME StreamInv, NEW s \in Session
  PROVE  Memory(s) \in [highest : Level \cup {0}, first : Time \cup {None}]
<1>1. log[s] \in Seq(Entry)
  BY DEF StreamInv, StewardTypes
<1>2. CASE log[s] = <<>>
  BY <1>2, RecallNothing DEF Memory, EmptyMemory
<1>3. CASE log[s] # <<>>
  <2> DEFINE n == Len(log[s])
  <2> DEFINE q == SubSeq(log[s], 1, n - 1)
  <2> DEFINE e == log[s][n]
  <2>1. q \in Seq(Entry) /\ e \in Entry /\ log[s] = Append(q, e)
    BY <1>1, <1>3
  <2> HIDE DEF q, e
  <2>2. Memory(s) = Remember(Recall(EmptyMemory, q), e)
    BY <2>1, RecallOneMore DEF Memory
  <2>3. \E h, f : Memory(s) = [highest |-> h, first |-> f]
    BY <2>2 DEF Remember, EmptyMemory
  <2>4. n \in Nat /\ log[s][n] \in Entry
    BY <1>1, <1>3
  <2>5. Memory(s).highest \in Level \cup {0} /\ Memory(s).first \in Time \cup {None}
    BY <2>4, <1>3 DEF StreamInv, MemorySays, Newest, Entry, Compaction
  <2> QED BY <2>3, <2>5
<1> QED BY <1>2, <1>3

LEMMA LedgerForgets ==
  ASSUME StreamInv, UNCHANGED <<log, now, notes, door, banked>>,
         fill' \in [Session -> 0..MaxFill \cup {None}], ledger' = [s \in Session |-> Fresh]
  PROVE  StreamInv'
<1>1. StewardTypes'
  <2>1. \A s \in Session : Len(log[s]) \in Nat
    BY DEF StreamInv, StewardTypes
  <2> QED BY <2>1 DEF StreamInv, StewardTypes, Fresh
<1>2. LedgerShape'
  BY DEF LedgerShape, Fresh, EmptyMemory
<1>3. LedgerFollows'
  <2>1. ASSUME NEW s \in Session PROVE SubSeq(log[s], 1, 0) = <<>>
    BY DEF StreamInv, StewardTypes
  <2>2. Recall(EmptyMemory, <<>>) = EmptyMemory
    BY RecallNothing
  <2>3. ASSUME NEW s \in Session
        PROVE  ledger'[s].memory = EmptyMemory /\ ledger'[s].next - 1 = 0 /\ log'[s] = log[s]
    BY DEF Fresh
  <2> QED BY <2>1, <2>2, <2>3 DEF LedgerFollows
<1> QED BY <1>1, <1>2, <1>3, StreamStands DEF StreamInv

LEMMA LedgerReads ==
  ASSUME StreamInv, NEW s \in Session, UNCHANGED <<log, now, notes, banked>>,
         fill' \in [Session -> 0..MaxFill \cup {None}],
         door' \in [Session -> {"none", "open", "held"}],
         ledger' = [ledger EXCEPT ![s] = Current(s)]
  PROVE  StreamInv'
<1>1. Current(s) = [memory |-> Memory(s), next |-> Len(log[s]) + 1]
  BY CurrentIsMemory
<1>2. log[s] \in Seq(Entry) /\ Len(log[s]) \in Nat /\ SubSeq(log[s], 1, Len(log[s]) + 1 - 1) = log[s]
  BY DEF StreamInv, StewardTypes
<1>3. \A t \in Session : ledger'[t] = IF t = s THEN Current(s) ELSE ledger[t]
  BY DEF StreamInv, LedgerShape
<1>4. StewardTypes'
  BY <1>1, <1>2, <1>3 DEF StreamInv, StewardTypes
<1>5. LedgerShape'
  BY <1>1, <1>2, MemoryTypes DEF StreamInv, LedgerShape
<1>6. LedgerFollows'
  <2> SUFFICES ASSUME NEW t \in Session
               PROVE  ledger'[t].memory
                        = Recall(EmptyMemory, SubSeq(log[t], 1, ledger'[t].next - 1))
    BY DEF LedgerFollows
  <2>1. CASE t = s
    <3>1. ledger'[t].memory = Memory(s) /\ ledger'[t].next = Len(log[s]) + 1
      BY <1>1, <1>3, <2>1
    <3>2. SubSeq(log[t], 1, ledger'[t].next - 1) = log[s]
      BY <1>2, <2>1, <3>1
    <3> QED BY <2>1, <3>1, <3>2 DEF Memory
  <2>2. CASE t # s
    BY <1>3, <2>2 DEF StreamInv, LedgerFollows
  <2> QED BY <2>1, <2>2
<1> QED BY <1>4, <1>5, <1>6, StreamStands DEF StreamInv

(* An entry of either kind, whether or not the ledger has just read.        *)
LEMMA StreamGrows ==
  ASSUME StreamInv, NEW s \in Session, NEW e \in Entry,
         log' = [log EXCEPT ![s] = Append(@, e)], UNCHANGED <<now, notes, door>>,
         fill' \in [Session -> 0..MaxFill \cup {None}], banked' \subseteq Session,
         ledger' = ledger \/ ledger' = [ledger EXCEPT ![s] = Current(s)]
  PROVE  StewardTypes' /\ LedgerShape' /\ LedgerFollows'
<1>1. Current(s) = [memory |-> Memory(s), next |-> Len(log[s]) + 1]
  BY CurrentIsMemory
<1>2. /\ log[s] \in Seq(Entry) /\ Len(log[s]) \in Nat
      /\ log'[s] = Append(log[s], e) /\ Len(log'[s]) = Len(log[s]) + 1
      /\ \A t \in Session \ {s} : log'[t] = log[t]
  BY DEF StreamInv, StewardTypes
<1>3. \A t \in Session : \/ ledger'[t] = ledger[t]
                         \/ t = s /\ ledger'[t] = Current(s)
  BY DEF StreamInv, LedgerShape
<1>4. log' \in [Session -> Seq(Entry)]
  BY <1>2 DEF StreamInv, StewardTypes
<1>5. StewardTypes'
  <2>1. ASSUME NEW t \in Session PROVE ledger'[t].next \in 1..Len(log'[t]) + 1
    <3>1. ledger[t].next \in 1..Len(log[t]) + 1 /\ Len(log[t]) \in Nat
      BY DEF StreamInv, StewardTypes
    <3> QED BY <1>1, <1>2, <1>3, <3>1
  <2> QED BY <1>4, <2>1 DEF StreamInv, StewardTypes
<1>6. LedgerShape'
  <2>1. Current(s) \in [memory : [highest : Level \cup {0}, first : Time \cup {None}], next : Nat]
    BY <1>1, <1>2, MemoryTypes
  <2> QED BY <2>1 DEF StreamInv, LedgerShape
<1>7. LedgerFollows'
  <2> SUFFICES ASSUME NEW t \in Session
               PROVE  ledger'[t].memory
                        = Recall(EmptyMemory, SubSeq(log'[t], 1, ledger'[t].next - 1))
    BY DEF LedgerFollows
  <2>1. CASE ledger'[t] = ledger[t]
    <3> DEFINE k == ledger[t].next - 1
    <3>1. k \in 0..Len(log[t]) /\ log[t] \in Seq(Entry)
      BY DEF StreamInv, StewardTypes
    <3>2. SubSeq(log'[t], 1, k) = SubSeq(log[t], 1, k)
      <4>1. CASE t = s
        BY <1>2, <3>1, <4>1
      <4>2. CASE t # s
        BY <1>2, <4>2
      <4> QED BY <4>1, <4>2
    <3>3. ledger[t].memory = Recall(EmptyMemory, SubSeq(log[t], 1, k))
      BY DEF StreamInv, LedgerFollows
    <3> QED BY <2>1, <3>2, <3>3
  <2>2. CASE t = s /\ ledger'[t] = Current(s)
    <3>1. ledger'[t].memory = Memory(s) /\ ledger'[t].next = Len(log[s]) + 1
      BY <1>1, <2>2
    <3>2. SubSeq(log'[t], 1, ledger'[t].next - 1) = log[s]
      BY <1>2, <2>2, <3>1
    <3> QED BY <3>1, <3>2 DEF Memory
  <2> QED BY <1>3, <2>1, <2>2
<1> QED BY <1>5, <1>6, <1>7

(* The newest rung is one above the one before it, or the first.            *)
LEMMA LadderGrows ==
  ASSUME StreamInv, NEW s \in Session, NEW e \in Entry, e.level \in {0, Newest(s) + 1},
         log' = [log EXCEPT ![s] = Append(@, e)]
  PROVE  LadderIsClimbed'
<1>1. /\ log[s] \in Seq(Entry) /\ Len(log[s]) \in Nat
      /\ log'[s] = Append(log[s], e) /\ \A t \in Session \ {s} : log'[t] = log[t]
  BY DEF StreamInv, StewardTypes
<1> SUFFICES ASSUME NEW t \in Session, NEW i \in DOMAIN log'[t], log'[t][i].level # 0
             PROVE  log'[t][i].level = 1 + IF i = 1 THEN 0 ELSE log'[t][i - 1].level
  BY DEF LadderIsClimbed
<1>2. CASE t # s \/ i <= Len(log[s])
  <2>1. i \in DOMAIN log[t] /\ log'[t][i] = log[t][i] /\ (i # 1 => log'[t][i - 1] = log[t][i - 1])
    BY <1>1, <1>2
  <2> QED BY <2>1 DEF StreamInv, LadderIsClimbed
<1>3. CASE t = s /\ i > Len(log[s])
  <2>1. i = Len(log[s]) + 1 /\ log'[s][i] = e
    BY <1>1, <1>3
  <2>2. i # 1 => i - 1 \in 1..Len(log[s]) /\ log'[s][i - 1] = log[s][i - 1] /\ log[s] # <<>>
    BY <1>1, <2>1
  <2>3. i = 1 => log[s] = <<>>
    BY <1>1, <2>1
  <2>4. e.level = Newest(s) + 1 /\ Newest(s) \in Int
    <3>1. log[s] # <<>> => log[s][Len(log[s])] \in Entry
      BY <1>1
    <3> QED BY <1>3, <2>1, <3>1, Constants DEF Newest, Entry, Compaction
  <2>5. CASE i = 1
    BY <1>3, <2>1, <2>3, <2>4, <2>5 DEF Newest
  <2>6. CASE i # 1
    <3>1. log'[s][i - 1].level = Newest(s)
      BY <1>1, <2>1, <2>2, <2>6 DEF Newest
    <3> QED BY <1>3, <2>1, <2>4, <2>6, <3>1
  <2> QED BY <2>5, <2>6
<1> QED BY <1>1, <1>2, <1>3

LEMMA StreamNudged ==
  ASSUME StreamInv, NEW s \in Session, Newest(s) + 1 \in Level,
         log' = [log EXCEPT ![s] = Append(@, Nudge(Newest(s) + 1, now))],
         ledger' = [ledger EXCEPT ![s] = Current(s)],
         fill' \in [Session -> 0..MaxFill \cup {None}], UNCHANGED <<now, notes, door, banked>>
  PROVE  StreamInv'
<1> DEFINE l == Newest(s) + 1
<1> DEFINE e == Nudge(l, now)
<1>1. log[s] \in Seq(Entry) /\ now \in Time /\ banked \subseteq Session
  BY DEF StreamInv, StewardTypes
<1>2. Memory(s).highest = Newest(s) /\ Newest(s) \in Nat
  <2>1. log[s] # <<>> => log[s][Len(log[s])] \in Entry
    BY <1>1
  <2> QED BY <2>1, Constants DEF StreamInv, MemorySays, Newest, Entry, Compaction
<1>3. Memory(s).highest < l /\ l \in Level /\ l # 0
  BY <1>2, Constants
<1>4. /\ e \in Entry /\ e.level = l
      /\ Recall(EmptyMemory, Append(log[s], e))
           = [highest |-> l, first |-> IF Memory(s).first = None THEN now ELSE Memory(s).first]
  <2> HIDE DEF l
  <2> QED BY <1>3, NudgeRemembered DEF Nudge
<1> HIDE DEF e
<1>5. StewardTypes' /\ LedgerShape' /\ LedgerFollows'
  BY <1>1, <1>4, StreamGrows DEF e
<1>6. LadderIsClimbed'
  BY <1>4, LadderGrows DEF e
<1>7. /\ log'[s] = Append(log[s], e) /\ Memory(s)' = Recall(EmptyMemory, Append(log[s], e))
      /\ Newest(s)' = l /\ Asked(s)'
      /\ \A t \in Session \ {s} : /\ log'[t] = log[t] /\ Memory(t)' = Memory(t)
                                  /\ Newest(t)' = Newest(t) /\ Asked(t)' = Asked(t)
  <2>1. log'[s] = Append(log[s], e) /\ \A t \in Session \ {s} : log'[t] = log[t]
    BY DEF StreamInv, StewardTypes, e
  <2>2. log'[s] # <<>> /\ log'[s][Len(log'[s])] = e
    BY <1>1, <1>4, <2>1
  <2> QED BY <1>3, <1>4, <2>1, <2>2 DEF Memory, Newest, Asked
<1>8. Memory(s).first # None => Memory(s).first <= now
  BY DEF StreamInv, MemorySays
<1>9. Memory(s)'.highest = l /\ Memory(s)'.first = IF Memory(s).first = None THEN now ELSE Memory(s).first
  BY <1>4, <1>7
<1>10. MemorySays'
  <2>1. ASSUME NEW t \in Session, t # s
        PROVE  /\ Memory(t)'.highest = Newest(t)'
               /\ Memory(t)'.first \in Time \cup {None}
               /\ Memory(t)'.first # None <=> Asked(t)'
               /\ Memory(t)'.first # None => Memory(t)'.first <= now'
    BY <1>7, <2>1 DEF StreamInv, MemorySays
  <2>2. /\ Memory(s)'.highest = Newest(s)'
        /\ Memory(s)'.first \in Time \cup {None}
        /\ Memory(s)'.first # None <=> Asked(s)'
        /\ Memory(s)'.first # None => Memory(s)'.first <= now'
    <3>1. Memory(s).first \in Time \cup {None} /\ None \notin Time /\ now \in Int
      BY <1>1, Constants DEF StreamInv, MemorySays
    <3> QED BY <1>1, <1>7, <1>8, <1>9, <3>1
  <2> QED BY <2>1, <2>2 DEF MemorySays
<1>11. BankedSince'
  <2>1. s \in banked => Memory(s).first # None /\ Memory(s).first <= notes
    BY DEF StreamInv, BankedSince, MemorySays
  <2>2. s \in banked => Memory(s)'.first <= notes
    BY <1>9, <2>1
  <2>3. \A t \in banked' : t \in Session /\ t \in banked
    BY <1>1
  <2> QED BY <1>7, <2>2, <2>3 DEF StreamInv, BankedSince
<1> QED BY <1>5, <1>6, <1>10, <1>11 DEF StreamInv

LEMMA StreamCompacted ==
  ASSUME StreamInv, NEW s \in Session, log' = [log EXCEPT ![s] = Append(@, Compaction)],
         banked' = banked \ {s}, UNCHANGED <<fill, ledger, now, notes, door>>
  PROVE  StreamInv'
<1>1. log[s] \in Seq(Entry) /\ banked \subseteq Session /\ fill \in [Session -> 0..MaxFill \cup {None}]
  BY DEF StreamInv, StewardTypes
<1>2. Compaction \in Entry /\ Recall(EmptyMemory, Append(log[s], Compaction)) = EmptyMemory
  BY CompactionRemembered
<1>3. Compaction.level = 0
  BY DEF Compaction
<1>4. StewardTypes' /\ LedgerShape' /\ LedgerFollows'
  BY <1>1, <1>2, StreamGrows
<1>5. LadderIsClimbed'
  BY <1>2, <1>3, LadderGrows
<1>6. /\ Memory(s)' = EmptyMemory /\ Newest(s)' = 0 /\ ~Asked(s)'
      /\ \A t \in Session \ {s} : /\ Memory(t)' = Memory(t)
                                  /\ Newest(t)' = Newest(t) /\ Asked(t)' = Asked(t)
  <2>1. log'[s] = Append(log[s], Compaction) /\ \A t \in Session \ {s} : log'[t] = log[t]
    BY DEF StreamInv, StewardTypes
  <2>2. log'[s] # <<>> /\ log'[s][Len(log'[s])] = Compaction
    BY <1>1, <1>2, <2>1
  <2> QED BY <1>2, <1>3, <2>1, <2>2 DEF Memory, Newest, Asked
<1>7. MemorySays'
  BY <1>6 DEF StreamInv, MemorySays, EmptyMemory
<1>8. BankedSince'
  <2>1. \A t \in banked' : t \in banked /\ t \in Session \ {s}
    BY <1>1
  <2> QED BY <1>6, <2>1 DEF StreamInv, BankedSince
<1> QED BY <1>4, <1>5, <1>7, <1>8 DEF StreamInv

LEMMA NotesWritten ==
  ASSUME StreamInv, notes' = now, UNCHANGED <<fill, log, ledger, now, door>>,
         banked' = banked \cup {t \in Session : log[t] # <<>> /\ Last(log[t]) # Compaction}
  PROVE  StreamInv'
<1>1. StewardTypes' /\ LedgerShape' /\ LedgerFollows' /\ LadderIsClimbed'
  BY DEF StreamInv, StewardTypes, LedgerShape, LedgerFollows, LadderIsClimbed
<1>2. MemorySays' /\ \A t \in Session : Memory(t)' = Memory(t) /\ Asked(t)' = Asked(t)
  BY DEF StreamInv, MemorySays, Memory, Newest, Asked
<1>3. now \in Time /\ now # None /\ banked \subseteq Session /\ now <= now
  BY Constants DEF StreamInv, StewardTypes
<1>4. ASSUME NEW t \in banked' PROVE t \in Session /\ Asked(t)
  <2>1. CASE t \in banked
    BY <1>3, <2>1 DEF StreamInv, BankedSince
  <2>2. CASE t \notin banked
    <3>1. t \in Session /\ log[t] # <<>> /\ Last(log[t]) # Compaction /\ log[t] \in Seq(Entry)
      BY <2>2 DEF StreamInv, StewardTypes
    <3>2. log[t][Len(log[t])] \in Entry /\ log[t][Len(log[t])] # Compaction
      BY <3>1 DEF Last
    <3>3. log[t][Len(log[t])].level # 0
      BY <3>2, Constants DEF Entry
    <3> QED BY <3>1, <3>3 DEF Asked
  <2> QED BY <2>1, <2>2
<1>5. ASSUME NEW t \in banked' PROVE Memory(t).first <= now
  BY <1>4 DEF StreamInv, MemorySays
<1>6. BankedSince'
  BY <1>2, <1>3, <1>4, <1>5 DEF BankedSince
<1> QED BY <1>1, <1>2, <1>6 DEF StreamInv

LEMMA NotesLost == OInv /\ LoseNotes => OInv'
<1> SUFFICES ASSUME OInv, LoseNotes PROVE OInv'
  OBVIOUS
<1>1. HostTypes'
  BY DEF OInv, HostTypes, LoseNotes, host
<1>2. /\ notes' = None /\ banked' = {}
      /\ UNCHANGED <<fill, log, ledger, now, door>>
  BY DEF LoseNotes
<1>3. StewardTypes' /\ LedgerShape' /\ LedgerFollows' /\ LadderIsClimbed'
  BY <1>2 DEF OInv, StreamInv, StewardTypes, LedgerShape, LedgerFollows, LadderIsClimbed
<1>4. MemorySays' /\ BankedSince'
  BY <1>2 DEF OInv, StreamInv, MemorySays, BankedSince, Memory, Newest, Asked
<1> QED BY <1>1, <1>3, <1>4 DEF OInv, StreamInv

--------------------------------------------------------------------------------
(* THE HOST *)

LEMMA StartsAreTyped ==
  ASSUME HostTypes, NEW s \in Session, Resumed(s) \/ ResumeThrows(s)
  PROVE  /\ liveness' \in [Session -> {"unborn", "spawning", "running", "dormant", "interrupted"}]
         /\ process' \in [Session -> {"none", "open", "compacted", "ended"}]
BY DEF HostTypes, Resumed, ResumeThrows, Started

LEMMA SendsAreTyped ==
  ASSUME HostTypes, NEW s \in Session, Accepts(s) \/ Refuses(s)
  PROVE  /\ liveness' \in [Session -> {"unborn", "spawning", "running", "dormant", "interrupted"}]
         /\ process' \in [Session -> {"none", "open", "compacted", "ended"}]
<1>1. CASE UNCHANGED <<liveness, process>>
  BY <1>1 DEF HostTypes
<1>2. CASE Resumed(s) \/ ResumeThrows(s)
  BY <1>2, StartsAreTyped
<1> QED BY <1>1, <1>2 DEF Accepts, Refuses

(* A project whose orchestrator is in the log founds no other.              *)
LEMMA FoundOnce ==
  ASSUME HostTypes, NEW s \in Session, Found(s)
  PROVE  founded' \in Seq(Session) /\ Len(founded') <= 1
<1>1. founded = <<>>
  BY DEF HostTypes, Found, Standing, Adoptable
<1> QED BY <1>1 DEF Found

LEMMA HostSteps ==
  ASSUME HostTypes, NEW s \in Session,
         Ensure(s) \/ ResumeSession(s) \/ KillSession(s) \/ Result(s) \/ WindDown(s)
  PROVE  HostTypes' /\ UNCHANGED steward
<1>1. CASE ResumeSession(s)
  BY <1>1, StartsAreTyped DEF ResumeSession, HostTypes
<1>2. CASE Found(s)
  <2>1. /\ liveness' \in [Session -> {"unborn", "spawning", "running", "dormant", "interrupted"}]
        /\ process' \in [Session -> {"none", "open", "compacted", "ended"}]
    BY <1>2 DEF Found, Started, HostTypes
  <2> QED BY <1>2, <2>1, FoundOnce DEF Found, HostTypes
<1>3. CASE KillSession(s)
  BY <1>3 DEF KillSession, ToDormant, HostTypes
<1>4. CASE Result(s)
  BY <1>4 DEF Result, ToDormant, HostTypes
<1>5. CASE WindDown(s)
  BY <1>5 DEF WindDown, ToDormant, HostTypes
<1>6. Ensure(s) => Found(s) \/ ResumeSession(s)
  BY DEF Ensure
<1> QED BY <1>1, <1>2, <1>3, <1>4, <1>5, <1>6

LEMMA DiesTyped == HostTypes /\ Dies /\ UNCHANGED <<founded, liveness>> => HostTypes'
BY DEF HostTypes, Dies

--------------------------------------------------------------------------------
(* THE STEPS OF THE STEWARD *)

LEMMA UsageBlockKeeps == ASSUME OInv, NEW s \in Session, UsageBlock(s) PROVE OInv'
<1> USE DEF OInv
<1>1. PICK f \in 0..MaxFill :
        LET memory == Current(s).memory
            l == Rung(Crossed(f, memory))
        IN  /\ fill' = [fill EXCEPT ![s] = f]
            /\ \/ /\ Crossed(f, memory) = {} \/ s \notin watched
                  /\ ledger' = IF s \in watched THEN [ledger EXCEPT ![s] = Current(s)] ELSE ledger
                  /\ UNCHANGED <<host, log, watched>>
               \/ /\ Crossed(f, memory) # {} /\ s \in watched
                  /\ \/ Accepts(s) /\ log' = [log EXCEPT ![s] = Append(@, Nudge(l, now))]
                     \/ Refuses(s) /\ UNCHANGED log
                  /\ ledger' = [ledger EXCEPT ![s] = Current(s)]
                  /\ UNCHANGED <<up, founded, ghost, watched>>
               \/ /\ Crossed(f, memory) # {} /\ s \in watched
                  /\ Dies /\ UNCHANGED <<founded, liveness, log>>
  BY DEF UsageBlock
<1>2. Current(s).memory = Memory(s)
  BY CurrentIsMemory
<1>3. UNCHANGED <<now, notes, door, banked>> /\ door' \in [Session -> {"none", "open", "held"}]
  BY DEF UsageBlock, StreamInv, StewardTypes
<1>4. fill' \in [Session -> 0..MaxFill \cup {None}]
  BY <1>1 DEF StreamInv, StewardTypes
<1>5. CASE UNCHANGED <<host, log, watched, ledger>>
  <2>1. HostTypes'
    BY <1>5 DEF host, HostTypes
  <2>2. LedgerShape' /\ LedgerFollows' /\ StewardTypes'
    BY <1>3, <1>4, <1>5 DEF StreamInv, LedgerShape, LedgerFollows, StewardTypes
  <2> QED BY <1>3, <1>5, <2>1, <2>2, StreamStands DEF StreamInv
<1>6. CASE UNCHANGED <<host, log, watched>> /\ ledger' = [ledger EXCEPT ![s] = Current(s)]
  <2>1. HostTypes'
    BY <1>6 DEF host, HostTypes
  <2> QED BY <1>3, <1>4, <1>6, <2>1, LedgerReads
<1>7. CASE /\ Accepts(s) \/ Refuses(s)
           /\ ledger' = [ledger EXCEPT ![s] = Current(s)]
           /\ UNCHANGED <<up, founded, ghost, watched>>
           /\ \/ UNCHANGED log
              \/ /\ Crossed(f, Memory(s)) # {}
                 /\ log' = [log EXCEPT ![s] = Append(@, Nudge(Rung(Crossed(f, Memory(s))), now))]
  <2>1. HostTypes'
    BY <1>7, SendsAreTyped DEF HostTypes
  <2>2. CASE UNCHANGED log
    BY <1>3, <1>4, <1>7, <2>1, <2>2, LedgerReads
  <2>3. CASE /\ Crossed(f, Memory(s)) # {}
             /\ log' = [log EXCEPT ![s] = Append(@, Nudge(Rung(Crossed(f, Memory(s))), now))]
    BY <1>3, <1>4, <1>7, <2>1, <2>3, NextRung, StreamNudged
  <2> QED BY <1>7, <2>2, <2>3
<1>8. CASE Dies /\ UNCHANGED <<founded, liveness, log>>
  BY <1>3, <1>4, <1>8, DiesTyped, LedgerForgets DEF Dies
<1> QED BY <1>1, <1>2, <1>5, <1>6, <1>7, <1>8

LEMMA PreCompactKeeps == ASSUME OInv, NEW s \in Session, PreCompact(s) PROVE OInv'
<1>1. UNCHANGED <<host, watched, log, now, notes, banked, fill>>
  BY DEF PreCompact
<1>2. HostTypes'
  BY <1>1 DEF host, HostTypes, OInv
<1>3. fill' \in [Session -> 0..MaxFill \cup {None}] /\ door' \in [Session -> {"none", "open", "held"}]
  BY <1>1 DEF PreCompact, OInv, StreamInv, StewardTypes
<1>4. CASE ledger' = [ledger EXCEPT ![s] = Current(s)]
  BY <1>1, <1>2, <1>3, <1>4, LedgerReads DEF OInv
<1>5. CASE UNCHANGED ledger
  <2>1. LedgerShape' /\ LedgerFollows' /\ StewardTypes'
    BY <1>1, <1>3, <1>5 DEF OInv, StreamInv, LedgerShape, LedgerFollows, StewardTypes
  <2> QED BY <1>1, <1>2, <2>1, StreamStands DEF OInv, StreamInv
<1> QED BY <1>4, <1>5 DEF PreCompact

LEMMA CompactKeeps == ASSUME OInv, NEW s \in Session, Compact(s) PROVE OInv'
<1>1. HostTypes'
  BY DEF OInv, HostTypes, Compact
<1>2. LedgerShape' /\ LedgerFollows' /\ StewardTypes'
  BY DEF Compact, OInv, StreamInv, LedgerShape, LedgerFollows, StewardTypes
<1> QED BY <1>1, <1>2, StreamStands DEF OInv, StreamInv, Compact

LEMMA CompactionObservedKeeps ==
  ASSUME OInv, NEW s \in Session, CompactionObserved(s) PROVE OInv'
<1>1. HostTypes'
  BY DEF OInv, HostTypes, CompactionObserved
<1> QED BY <1>1, StreamCompacted DEF OInv, CompactionObserved

LEMMA WriteNotesKeeps == ASSUME OInv, NEW s \in Session, WriteNotes(s) PROVE OInv'
<1>1. HostTypes'
  BY DEF OInv, HostTypes, WriteNotes, host
<1> QED BY <1>1, NotesWritten DEF OInv, WriteNotes

LEMMA DaemonExitsKeeps == OInv /\ DaemonExits => OInv'
<1> SUFFICES ASSUME OInv, DaemonExits PROVE OInv'
  OBVIOUS
<1>1. fill' \in [Session -> 0..MaxFill \cup {None}]
  BY DEF DaemonExits, OInv, StreamInv, StewardTypes
<1> QED BY <1>1, DiesTyped, LedgerForgets DEF DaemonExits, OInv, Dies

LEMMA RestartKeeps == OInv /\ Restart => OInv'
<1> SUFFICES ASSUME OInv, Restart PROVE OInv'
  OBVIOUS
<1>1. HostTypes'
  BY DEF OInv, HostTypes, Restart
<1> QED BY <1>1, StewardIdle DEF OInv, Restart, steward

LEMMA TickKeeps == OInv /\ Tick => OInv'
<1> SUFFICES ASSUME OInv, Tick PROVE OInv'
  OBVIOUS
<1>1. HostTypes'
  BY DEF OInv, HostTypes, Tick, host
<1>2. now \in Nat /\ now' = now + 1 /\ now' \in Time
  BY Constants, BoundAssumption DEF Tick, OInv, StreamInv, StewardTypes, Time
<1>3. StewardTypes' /\ LedgerShape' /\ LedgerFollows' /\ LadderIsClimbed'
  BY <1>2 DEF Tick, OInv, StreamInv, StewardTypes, LedgerShape, LedgerFollows, LadderIsClimbed
<1>4. \A t \in Session : Memory(t)' = Memory(t) /\ Newest(t)' = Newest(t) /\ Asked(t)' = Asked(t)
  BY DEF Tick, Memory, Newest, Asked
<1>5. MemorySays'
  <2>1. \A t \in Session : Memory(t).first # None => Memory(t).first \in Nat
    BY Constants DEF OInv, StreamInv, MemorySays
  <2> QED BY <1>2, <1>4, <2>1 DEF OInv, StreamInv, MemorySays
<1>6. BankedSince'
  <2>1. banked \subseteq Session /\ notes' = notes /\ banked' = banked /\ (notes # None => notes \in Nat)
    BY Constants DEF Tick, OInv, StreamInv, StewardTypes
  <2> QED BY <1>2, <1>4, <2>1 DEF OInv, StreamInv, BankedSince
<1> QED BY <1>1, <1>3, <1>5, <1>6 DEF OInv, StreamInv

--------------------------------------------------------------------------------
(* THE THEOREMS *)

LEMMA InvInit == Init => OInv
<1> SUFFICES ASSUME Init PROVE OInv
  OBVIOUS
<1>1. HostTypes
  BY DEF Init, HostTypes
<1>2. StewardTypes /\ LedgerShape /\ LadderIsClimbed
  BY BoundAssumption
     DEF Init, StewardTypes, LedgerShape, LadderIsClimbed, Fresh, EmptyMemory, Time
<1>3. \A s \in Session : Memory(s) = EmptyMemory /\ Newest(s) = 0 /\ ~Asked(s)
  BY RecallNothing DEF Init, Memory, Newest, Asked
<1>4. LedgerFollows
  <2>1. \A s \in Session : SubSeq(log[s], 1, 0) = <<>> /\ ledger[s] = Fresh
    BY DEF Init
  <2>2. Recall(EmptyMemory, <<>>) = EmptyMemory
    BY RecallNothing
  <2>3. \A s \in Session : ledger[s].memory = EmptyMemory /\ ledger[s].next - 1 = 0
    BY <2>1 DEF Fresh
  <2> QED BY <2>1, <2>2, <2>3 DEF LedgerFollows
<1>5. MemorySays
  BY <1>3 DEF MemorySays, EmptyMemory
<1>6. BankedSince
  BY DEF Init, BankedSince
<1> QED BY <1>1, <1>2, <1>4, <1>5, <1>6 DEF OInv, StreamInv

LEMMA InvKept == OInv /\ [Next]_vars => OInv'
<1> SUFFICES ASSUME OInv, [Next]_vars PROVE OInv'
  OBVIOUS
<1>1. CASE \E s \in Session :
             Ensure(s) \/ ResumeSession(s) \/ KillSession(s) \/ Result(s) \/ WindDown(s)
  BY <1>1, HostSteps, StewardIdle DEF OInv, steward
<1>2. CASE \E s \in Session : UsageBlock(s)
  BY <1>2, UsageBlockKeeps
<1>3. CASE \E s \in Session : PreCompact(s)
  BY <1>3, PreCompactKeeps
<1>4. CASE \E s \in Session : Compact(s)
  BY <1>4, CompactKeeps
<1>5. CASE \E s \in Session : CompactionObserved(s)
  BY <1>5, CompactionObservedKeeps
<1>6. CASE \E s \in Session : WriteNotes(s)
  BY <1>6, WriteNotesKeeps
<1>7. CASE DaemonExits \/ Restart \/ LoseNotes \/ Tick
  BY <1>7, DaemonExitsKeeps, RestartKeeps, NotesLost, TickKeeps
<1>8. CASE UNCHANGED vars
  <2>1. HostTypes'
    BY <1>8 DEF vars, host, OInv, HostTypes
  <2> QED BY <1>8, <2>1, StewardIdle DEF vars, OInv
<1> QED BY <1>1, <1>2, <1>3, <1>4, <1>5, <1>6, <1>7, <1>8 DEF Next

(* Types, and D56: however often ensure is called, whatever starts, ends,   *)
(* is killed or refused, and however often the daemon dies, a project never *)
(* has a second orchestrator.                                               *)
THEOREM OneOrchestrator == Spec => []TypeOK
<1>1. Init => OInv
  BY InvInit
<1>2. OInv /\ [Next]_vars => OInv'
  BY InvKept
<1>3. OInv => TypeOK
  BY TypesTogether
<1> QED BY <1>1, <1>2, <1>3, PTL DEF Spec

(* Every rung is said once and in order between two compactions of a        *)
(* stream, for any ladder, fills and refusals, and although a restart       *)
(* empties the ledger: what it folds again from the stream is what it knew. *)
THEOREM RungsInOrder == Spec => []LadderIsClimbed
<1>1. Init => OInv
  BY InvInit
<1>2. OInv /\ [Next]_vars => OInv'
  BY InvKept
<1>3. OInv => LadderIsClimbed
  BY DEF OInv, StreamInv
<1> QED BY <1>1, <1>2, <1>3, PTL DEF Spec

(* A session that was asked and whose notes were written since is not held  *)
(* at the door again before its next compaction.                            *)
LEMMA BankedIsNotHeld ==
  OInv /\ [Next]_vars => [\A s \in banked : door[s] # "held" => door'[s] # "held"]_vars
<1> SUFFICES ASSUME OInv, [Next]_vars, NEW t \in banked, door[t] # "held"
             PROVE  door'[t] # "held"
  OBVIOUS
<1>1. t \in Session /\ door \in [Session -> {"none", "open", "held"}]
  BY DEF OInv, StreamInv, StewardTypes
<1>2. ASSUME NEW s \in Session, PreCompact(s)
      PROVE  door'[t] # "held"
  <2>1. CASE s # t
    BY <1>1, <1>2, <2>1 DEF PreCompact
  <2>2. CASE s = t
    <3>1. Memory(t).first # None /\ Memory(t).first \in Int /\ notes \in Int /\ notes # None
      <4>1. Asked(t) /\ notes # None
        BY DEF OInv, StreamInv, BankedSince
      <4>2. Memory(t).first # None /\ Memory(t).first \in Time
        BY <1>1, <4>1 DEF OInv, StreamInv, MemorySays
      <4>3. notes \in Time
        BY <4>1 DEF OInv, StreamInv, StewardTypes
      <4>4. \A x \in Time : x \in Int
        BY Constants
      <4> QED BY <4>1, <4>2, <4>3, <4>4
    <3>2. Memory(t).first <= notes
      BY DEF OInv, StreamInv, BankedSince
    <3>3. ~Holds(fill[t], Memory(t))
      BY <3>1, <3>2 DEF Holds
    <3>4. Current(t).memory = Memory(t)
      BY <1>1, CurrentIsMemory DEF OInv
    <3>5. ~Holds(fill[t], Current(t).memory)
      BY <3>3, <3>4
    <3> QED BY <1>1, <1>2, <2>2, <3>5 DEF PreCompact
  <2> QED BY <2>1, <2>2
<1>3. ASSUME NEW s \in Session, Compact(s)
      PROVE  door'[t] # "held"
  BY <1>1, <1>3 DEF Compact
<1>4. CASE UNCHANGED door
  BY <1>4
<1>5. ASSUME NEW s \in Session,
             \/ Ensure(s) \/ ResumeSession(s) \/ KillSession(s) \/ Result(s) \/ WindDown(s)
             \/ UsageBlock(s) \/ CompactionObserved(s) \/ WriteNotes(s)
      PROVE  UNCHANGED door
  BY <1>5 DEF Ensure, Found, ResumeSession, KillSession, Result, WindDown, UsageBlock,
              CompactionObserved, WriteNotes, steward
<1>6. DaemonExits \/ Restart \/ LoseNotes \/ Tick \/ UNCHANGED vars => UNCHANGED door
  BY DEF DaemonExits, Restart, LoseNotes, Tick, vars, steward
<1> QED BY <1>2, <1>3, <1>4, <1>5, <1>6 DEF Next

(***************************************************************************)
(* A session that was asked for its notes, and whose notes were written    *)
(* since, is not held at the door again before its next compaction, or     *)
(* before the notes are gone                                               *)
(* (decideCompactionGate, core/orchestrator/compactionSteward.ts:286-316). *)
(***************************************************************************)
THEOREM BankedPassesTheDoor == Spec => NotesLiftTheHold
<1>1. Init => OInv
  BY InvInit
<1>2. OInv /\ [Next]_vars => OInv'
  BY InvKept
<1> QED BY <1>1, <1>2, BankedIsNotHeld, PTL DEF Spec, NotesLiftTheHold
================================================================================
