--------------------------- MODULE StreamDelivery ---------------------------
(***************************************************************************)
(* What the event spine promises a reader of a stream (I2 and I13 of       *)
(* docs/vimes/vimes-design-spec.md): having read up to position n of a     *)
(* stream, the next thing it is given is event n + 1, once, and never an   *)
(* event the log does not hold yet.  A reader may leave at any time and    *)
(* come back with the last position it holds.                              *)
(***************************************************************************)
EXTENDS Integers

CONSTANTS
    Streams,  \* the streams of the log
    Readers   \* whoever can hold a position in one

VARIABLES
    head,      \* head[st]: the seq of the last committed event of st
    position   \* position[r]: the stream r reads and the last seq it was given

NoPosition == [stream |-> "none", at |-> 0]

Init ==
    /\ head = [st \in Streams |-> 0]
    /\ position = [r \in Readers |-> NoPosition]

(* The log only grows. *)
Commit ==
    /\ head' \in [Streams -> Nat]
    /\ \A st \in Streams : head'[st] >= head[st]
    /\ UNCHANGED position

Join(r, st, lastSeq) ==
    /\ position[r] = NoPosition
    /\ lastSeq <= head[st]
    /\ position' = [position EXCEPT ![r] = [stream |-> st, at |-> lastSeq]]
    /\ UNCHANGED head

(* One event further: no gap, no repetition, nothing uncommitted. *)
Advance(r) ==
    /\ position[r] # NoPosition
    /\ position[r].at < head[position[r].stream]
    /\ position' = [position EXCEPT ![r].at = @ + 1]
    /\ UNCHANGED head

Leave(leaving) ==
    /\ position' = [r \in Readers |-> IF r \in leaving THEN NoPosition ELSE position[r]]
    /\ UNCHANGED head

Next ==
    \/ Commit
    \/ \E r \in Readers, st \in Streams : \E lastSeq \in 0 .. head[st] : Join(r, st, lastSeq)
    \/ \E r \in Readers : Advance(r)
    \/ \E leaving \in SUBSET Readers : Leave(leaving)

Spec == Init /\ [][Next]_<<head, position>>
=============================================================================
