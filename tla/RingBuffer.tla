----------------------------- MODULE RingBuffer -----------------------------
(***************************************************************************)
(* src/ringbuffer.c: two counters that run freely, offsets that are their  *)
(* remainders, and copies in two passes when they come to the end of the   *)
(* memory.  One action is one call: a user lets no two run at a time.      *)
(*                                                                         *)
(* A definition named X_Y, with a capital Y, is X with a defect; no action *)
(* uses it.                                                                *)
(***************************************************************************)
EXTENDS Integers, Sequences

CONSTANTS
  Byte,
  Size,         \* of the memory; 0 is refused by u80211_ringbuffer_init
  MaxCall,      \* the largest count and offset a call is made with: a bound
  MaxCounter    \* the counters never exceed it: 2^64 - 1 in the code, a bound here

ASSUME RingBufferAssumption == Size \in Nat \ {0} /\ MaxCall \in Nat /\ MaxCounter \in Nat

VARIABLES
  data, write, read,
  count, copied   \* what the last call returned, and what it copied out

vars == <<data, write, read, count, copied>>

Offsets == 0 .. Size - 1

DataCount == write - read
FreeSpace == Size - DataCount

TypeOK ==
  /\ data \in [Offsets -> Byte]
  /\ write \in 0 .. MaxCounter /\ read \in 0 .. MaxCounter
  /\ DataCount \in 0 .. Size
  /\ count \in 0 .. Size /\ copied \in Seq(Byte)

\* The memory is not initialised.
Init ==
  /\ data \in [Offsets -> Byte]
  /\ write = 0 /\ read = 0
  /\ count = 0 /\ copied = <<>>

-----------------------------------------------------------------------------
Least(m, n) == IF m <= n THEN m ELSE n

OffsetOf(counter) == counter % Size

FirstPass_OneShort(counter, n) == Least(n, Size - OffsetOf(counter) - 1)
\* How many of n bytes are copied before the end of the memory.
FirstPass(counter, n) == Least(n, Size - OffsetOf(counter))

\* n bytes are copied out from a counter on: up to the end of the memory, then
\* from its start.
CopiedOut(counter, n) ==
  LET first == FirstPass(counter, n)
  IN  [k \in 1 .. n |->
         IF k <= first THEN data[OffsetOf(counter) + k - 1] ELSE data[k - first - 1]]

\* The memory once the first n bytes of a string have been copied in.
CopiedIn(counter, bytes, n) ==
  LET first == FirstPass(counter, n)
      offset == OffsetOf(counter)
  IN  [o \in Offsets |->
         IF offset <= o /\ o < offset + first THEN bytes[o - offset + 1]
         ELSE IF o < n - first THEN bytes[o + first + 1] ELSE data[o]]

Taken_Everything(wanted) == wanted
\* What is taken of a write.
Taken(wanted) == Least(wanted, FreeSpace)

u80211_ringbuffer_write(bytes) ==
  /\ count' = Taken(Len(bytes))
  /\ write + count' <= MaxCounter
  /\ data' = CopiedIn(write, bytes, count')
  /\ write' = write + count'
  /\ copied' = <<>>
  /\ UNCHANGED read

u80211_ringbuffer_read(wanted) ==
  /\ count' = Least(wanted, DataCount)
  /\ copied' = CopiedOut(read, count')
  /\ read' = read + count'
  /\ UNCHANGED <<data, write>>

u80211_ringbuffer_peek(offset, wanted) ==
  /\ count' = IF offset >= DataCount THEN 0 ELSE Least(wanted, DataCount - offset)
  /\ copied' = CopiedOut(read + offset, count')
  /\ UNCHANGED <<data, write, read>>

u80211_ringbuffer_truncate(wanted) ==
  /\ count' = Least(DataCount, wanted)
  /\ read' = read + count'
  /\ copied' = <<>>
  /\ UNCHANGED <<data, write>>

u80211_ringbuffer_remove(wanted) ==
  /\ count' = Least(DataCount, wanted)
  /\ write' = write - count'
  /\ copied' = <<>>
  /\ UNCHANGED <<data, read>>

Counts == 0 .. MaxCall
Strings == UNION {[1 .. n -> Byte] : n \in Counts}

Next ==
  \/ \E bytes \in Strings : u80211_ringbuffer_write(bytes)
  \/ \E wanted \in Counts :
       \/ u80211_ringbuffer_read(wanted)
       \/ u80211_ringbuffer_truncate(wanted)
       \/ u80211_ringbuffer_remove(wanted)
  \/ \E offset, wanted \in Counts : u80211_ringbuffer_peek(offset, wanted)

Spec == Init /\ [][Next]_vars

-----------------------------------------------------------------------------
\* What the buffer holds, oldest first.
Contents == [k \in 1 .. DataCount |-> data[OffsetOf(read + k - 1)]]

Queue == INSTANCE ByteQueue WITH queue <- Contents

\* Whatever the counters are, every call does to the contents, and returns, what
\* the same call on a queue would: copies in one pass or two, a full buffer, an
\* empty one, and memory that was used before included.
ImplementsByteQueue == Queue!Spec

=============================================================================
