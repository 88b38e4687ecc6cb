------------------------------ MODULE RingBuffer ------------------------------
(***************************************************************************)
(* core/src/ringBuffer.ts: the window of a terminal's output kept for a    *)
(* reader who comes back.  Output is held in the chunks it arrived in; the *)
(* oldest is dropped or trimmed when the window overflows.  A byte is its  *)
(* offset in the output of its terminal, the only thing about it that the  *)
(* buffer's contract is about.                                             *)
(***************************************************************************)
EXTENDS Integers, Sequences, SequencesExt

CONSTANT MaxBuffered  \* maxBytes, DEFAULT_TERMINAL_BUFFER_BYTES

ASSUME WindowAssumption == MaxBuffered \in Nat \ {0}

Ring == [chunks : Seq(Seq(Nat)), buffered : Nat, total : Nat]

Empty == [chunks |-> <<>>, buffered |-> 0, total |-> 0]

(* One turn of the loop of evictOverflow, nothing once the window suffices. *)
evictOnce(r) ==
  LET first == Head(r.chunks)
      rest  == r.buffered - Len(first)
      over  == r.buffered - MaxBuffered
  IN  IF over <= 0 THEN r
      ELSE IF rest >= MaxBuffered
      THEN [r EXCEPT !.chunks = Tail(@), !.buffered = rest]
      ELSE [r EXCEPT !.chunks = <<SubSeq(first, over + 1, Len(first))>> \o Tail(@),
                     !.buffered = MaxBuffered]

(* A turn drops a chunk or is the last: there are no more than chunks.     *)
evictOverflow(r) ==
  LET after[i \in 0..Len(r.chunks)] == IF i = 0 THEN r ELSE evictOnce(after[i - 1])
  IN  after[Len(r.chunks)]

(* Mutant: the oldest chunk is dropped whole, never trimmed. *)
append_DropsWhole(r, bytes) ==
  LET added == [chunks   |-> Append(r.chunks, bytes),
                buffered |-> r.buffered + Len(bytes),
                total    |-> r.total + Len(bytes)]
  IN  IF added.buffered <= MaxBuffered THEN added
      ELSE [added EXCEPT !.chunks = Tail(@), !.buffered = @ - Len(Head(added.chunks))]

append(r, bytes) ==
  IF bytes = <<>> THEN r
  ELSE evictOverflow([chunks   |-> Append(r.chunks, bytes),
                      buffered |-> r.buffered + Len(bytes),
                      total    |-> r.total + Len(bytes)])

concatFrom(r, skip) == SubSeq(FlattenSeq(r.chunks), skip + 1, r.buffered)

(* Mutant: the byte just behind the oldest one kept counts as kept. *)
replayFrom_AtStart(r, offset) ==
  LET start == r.total - r.buffered
      skip  == offset - start
  IN  [bytes |-> IF skip < 0 THEN concatFrom(r, 0)
                 ELSE IF skip >= r.buffered THEN <<>>
                 ELSE concatFrom(r, skip),
       lost  |-> skip < -1]

(* What a reader who has consumed the output up to offset is given, and    *)
(* whether some of what it lacks is gone.                                  *)
replayFrom(r, offset) ==
  LET start == r.total - r.buffered
      skip  == offset - start
  IN  [bytes |-> IF skip < 0 THEN concatFrom(r, 0)
                 ELSE IF skip >= r.buffered THEN <<>>
                 ELSE concatFrom(r, skip),
       lost  |-> skip < 0]

--------------------------------------------------------------------------------
From(first, next) == [i \in 1..(next - first) |-> first + i - 1]

(* The chunks are the newest bytes of the output, as many as the window    *)
(* allows, in order; none of the chunks is empty.                          *)
IsWindow(r) ==
  LET kept == IF r.total < MaxBuffered THEN r.total ELSE MaxBuffered
  IN  /\ r.buffered = kept
      /\ FlattenSeq(r.chunks) = From(r.total - kept, r.total)
      /\ \A i \in DOMAIN r.chunks : r.chunks[i] # <<>>
===============================================================================
