------------------------------ MODULE ByteQueue ------------------------------
(***************************************************************************)
(* What src/ringbuffer.c promises: a queue of at most Size bytes.  It takes*)
(* what fits of a write, gives what there is of a read, and can also be    *)
(* looked into, and cut at both ends.                                      *)
(***************************************************************************)
EXTENDS Integers, Sequences

CONSTANTS
  Size,
  Strings,   \* of bytes, that calls write
  Counts     \* that calls ask for

VARIABLES
  queue,
  count, copied   \* what the last call returned, and what it copied out

Least(m, n) == IF m <= n THEN m ELSE n

Init == queue = <<>> /\ count = 0 /\ copied = <<>>

Write(bytes) ==
  /\ count' = Least(Len(bytes), Size - Len(queue))
  /\ queue' = queue \o SubSeq(bytes, 1, count')
  /\ copied' = <<>>

Peek(offset, wanted) ==
  /\ copied' = SubSeq(queue, offset + 1, Least(offset + wanted, Len(queue)))
  /\ count' = Len(copied')
  /\ UNCHANGED queue

Read(wanted) ==
  /\ count' = Least(wanted, Len(queue))
  /\ copied' = SubSeq(queue, 1, count')
  /\ queue' = SubSeq(queue, count' + 1, Len(queue))

\* The oldest bytes are dropped ...
Truncate(wanted) ==
  /\ count' = Least(wanted, Len(queue))
  /\ queue' = SubSeq(queue, count' + 1, Len(queue))
  /\ copied' = <<>>

\* ... or the newest.
Remove(wanted) ==
  /\ count' = Least(wanted, Len(queue))
  /\ queue' = SubSeq(queue, 1, Len(queue) - count')
  /\ copied' = <<>>

Next ==
  \/ \E bytes \in Strings : Write(bytes)
  \/ \E wanted \in Counts : Read(wanted) \/ Truncate(wanted) \/ Remove(wanted)
  \/ \E offset, wanted \in Counts : Peek(offset, wanted)

Spec == Init /\ [][Next]_<<queue, count, copied>>

=============================================================================
