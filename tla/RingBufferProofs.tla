-------------------------- MODULE RingBufferProofs --------------------------
(***************************************************************************)
(* Proofs about RingBuffer and ScanRecords: whatever its size, the two     *)
(* counters of a buffer and its copies in two passes are a queue of bytes, *)
(* and what a scan writes into it comes out as the same whole records.     *)
(***************************************************************************)
EXTENDS MCStructures, RbTreeProofs, SequenceTheorems

\* A counter some bytes further on: its offset is as much further, or has come round.
LEMMA OffsetsWrap ==
  ASSUME NEW counter \in Nat, NEW d \in 0 .. Size
  PROVE  /\ OffsetOf(counter) \in Offsets
         /\ OffsetOf(counter + d) = IF OffsetOf(counter) + d < Size THEN OffsetOf(counter) + d
                                    ELSE OffsetOf(counter) + d - Size
<1>1. Size \in Nat \ {0} BY RingBufferAssumption
<1> DEFINE q == counter \div Size
           r == counter % Size
<1>2. q \in Nat /\ r \in 0 .. Size - 1 /\ counter = Size * q + r BY <1>1
<1>3. \A x \in Nat, y \in 0 .. Size - 1 : (Size * x + y) % Size = y BY <1>1
<1> HIDE DEF q, r
<1>4. CASE r + d < Size
  <2>1. counter + d = Size * q + (r + d) /\ r + d \in 0 .. Size - 1 BY <1>1, <1>2, <1>4
  <2>2. (counter + d) % Size = r + d BY <1>2, <1>3, <2>1
  <2> QED BY <1>2, <1>4, <2>2 DEF OffsetOf, Offsets, r
<1>5. CASE ~(r + d < Size)
  <2>1. Size * (q + 1) = Size * q + Size BY <1>1, <1>2
  <2>2. /\ counter + d = Size * (q + 1) + (r + d - Size) /\ r + d - Size \in 0 .. Size - 1
        /\ q + 1 \in Nat
    BY <1>1, <1>2, <1>5, <2>1
  <2>3. (counter + d) % Size = r + d - Size BY <1>3, <2>2
  <2> QED BY <1>2, <1>5, <2>3 DEF OffsetOf, Offsets, r
<1> QED BY <1>4, <1>5

\* Least is the smaller of two numbers.
LEMMA LeastOfTwo ==
  ASSUME NEW m \in Nat, NEW n \in Nat
  PROVE  /\ Least(m, n) \in Nat /\ Least(m, n) <= m /\ Least(m, n) <= n
         /\ Least(m, n) = m \/ Least(m, n) = n
         /\ Queue!Least(m, n) = Least(m, n)
  BY DEF Least, Queue!Least

\* Two counters that are less than Size apart have different offsets.
LEMMA OffsetsDiffer ==
  ASSUME NEW c \in Nat, NEW d \in Nat, c < d, d < c + Size
  PROVE  OffsetOf(c) # OffsetOf(d)
<1>1. Size \in Nat \ {0} BY RingBufferAssumption
<1>2. d - c \in 0 .. Size /\ c + (d - c) = d /\ d - c > 0 /\ d - c < Size BY <1>1
<1>3. /\ OffsetOf(c) \in Offsets
      /\ OffsetOf(d) = IF OffsetOf(c) + (d - c) < Size THEN OffsetOf(c) + (d - c)
                       ELSE OffsetOf(c) + (d - c) - Size
  BY <1>2, OffsetsWrap
<1> QED BY <1>1, <1>2, <1>3 DEF Offsets

\* What is copied out, in one pass or two, are the bytes from the counter on.
LEMMA CopyOut ==
  ASSUME data \in [Offsets -> Byte], NEW counter \in Nat, NEW n \in 0 .. Size
  PROVE  /\ CopiedOut(counter, n) \in Seq(Byte) /\ Len(CopiedOut(counter, n)) = n
         /\ \A k \in 1 .. n : CopiedOut(counter, n)[k] = data[OffsetOf(counter + (k - 1))]
<1>1. Size \in Nat \ {0} /\ n \in Nat BY RingBufferAssumption
<1>2. OffsetOf(counter) \in Offsets BY <1>1, OffsetsWrap
<1>3. ASSUME NEW k \in 1 .. n
      PROVE  /\ CopiedOut(counter, n)[k] = data[OffsetOf(counter + (k - 1))]
             /\ data[OffsetOf(counter + (k - 1))] \in Byte
  <2>1. k - 1 \in 0 .. Size /\ k - 1 < Size BY <1>1
  <2>2. /\ OffsetOf(counter + (k - 1)) =
             IF OffsetOf(counter) + (k - 1) < Size THEN OffsetOf(counter) + (k - 1)
             ELSE OffsetOf(counter) + (k - 1) - Size
        /\ counter + (k - 1) \in Nat
    BY <2>1, OffsetsWrap
  <2>3. OffsetOf(counter + (k - 1)) \in Offsets BY <1>1, <2>2, OffsetsWrap
  <2>4. CopiedOut(counter, n)[k] = data[OffsetOf(counter + (k - 1))]
    BY <1>1, <1>2, <2>1, <2>2 DEF CopiedOut, FirstPass, Least, Offsets
  <2> QED BY <2>3, <2>4
<1>4. CopiedOut(counter, n) = [k \in 1 .. n |-> CopiedOut(counter, n)[k]]
  BY DEF CopiedOut
<1>5. CopiedOut(counter, n) \in [1 .. n -> Byte] BY <1>3, <1>4
<1> QED BY <1>1, <1>3, <1>5

\* What is copied in is found from the counter on, and nothing else has changed.
LEMMA CopyIn ==
  ASSUME data \in [Offsets -> Byte], NEW counter \in Nat, NEW bytes \in Seq(Byte),
         NEW n \in 0 .. Size, n <= Len(bytes)
  PROVE  /\ CopiedIn(counter, bytes, n) \in [Offsets -> Byte]
         /\ \A k \in 1 .. n : CopiedIn(counter, bytes, n)[OffsetOf(counter + (k - 1))] = bytes[k]
         /\ \A o \in Offsets :
              (\A k \in 1 .. n : o # OffsetOf(counter + (k - 1)))
                => CopiedIn(counter, bytes, n)[o] = data[o]
<1> DEFINE offset == OffsetOf(counter)
           first == FirstPass(counter, n)
           in == CopiedIn(counter, bytes, n)
<1>1. Size \in Nat \ {0} /\ n \in Nat /\ Len(bytes) \in Nat BY RingBufferAssumption
<1>2. offset \in 0 .. Size - 1 BY <1>1, OffsetsWrap DEF Offsets
<1>3. /\ first \in 0 .. n /\ (first = n \/ first = Size - offset) /\ first <= Size - offset
  BY <1>1, <1>2 DEF FirstPass, Least
<1>4. in = [o \in Offsets |->
         IF offset <= o /\ o < offset + first THEN bytes[o - offset + 1]
         ELSE IF o < n - first THEN bytes[o + first + 1] ELSE data[o]]
  BY DEF CopiedIn
<1>5. \A k \in 1 .. n :
        OffsetOf(counter + (k - 1)) = IF offset + (k - 1) < Size THEN offset + (k - 1)
                                      ELSE offset + (k - 1) - Size
  <2> TAKE k \in 1 .. n
  <2>1. k - 1 \in 0 .. Size BY <1>1
  <2> QED BY <2>1, OffsetsWrap
<1> HIDE DEF offset, first, in
<1>6. ASSUME NEW o \in Offsets PROVE in[o] \in Byte
  <2>1. o \in 0 .. Size - 1 BY DEF Offsets
  <2>2. CASE offset <= o /\ o < offset + first
    <3>1. o - offset + 1 \in 1 .. Len(bytes) BY <1>1, <1>2, <1>3, <2>1, <2>2
    <3> QED BY <1>4, <2>2, <3>1
  <2>3. CASE ~(offset <= o /\ o < offset + first) /\ o < n - first
    <3>1. o + first + 1 \in 1 .. Len(bytes) BY <1>1, <1>2, <1>3, <2>1, <2>3
    <3> QED BY <1>4, <2>3, <3>1
  <2>4. CASE ~(offset <= o /\ o < offset + first) /\ ~(o < n - first) BY <1>4, <2>4
  <2> QED BY <2>2, <2>3, <2>4
<1>7. in \in [Offsets -> Byte] BY <1>4, <1>6
<1>8. ASSUME NEW k \in 1 .. n PROVE in[OffsetOf(counter + (k - 1))] = bytes[k]
  <2>1. CASE k <= first
    <3>1. OffsetOf(counter + (k - 1)) = offset + (k - 1) BY <1>1, <1>2, <1>3, <1>5, <2>1
    <3>2. /\ offset + (k - 1) \in Offsets /\ offset <= offset + (k - 1)
          /\ offset + (k - 1) < offset + first /\ offset + (k - 1) - offset + 1 = k
      BY <1>1, <1>2, <1>3, <2>1 DEF Offsets
    <3>3. in[offset + (k - 1)] = bytes[offset + (k - 1) - offset + 1]
      BY <1>1, <1>2, <1>3, <1>4, <3>2
    <3> QED BY <3>1, <3>2, <3>3
  <2>2. CASE ~(k <= first)
    <3>1. first = Size - offset BY <1>1, <1>3, <2>2
    <3>2. OffsetOf(counter + (k - 1)) = k - 1 - first
      <4>1. ~(offset + (k - 1) < Size) /\ offset + (k - 1) - Size = k - 1 - first
        BY <1>1, <1>2, <2>2, <3>1
      <4> QED BY <1>5, <4>1
    <3>3. /\ k - 1 - first \in Offsets /\ k - 1 - first < n - first
          /\ k - 1 - first + first + 1 = k /\ ~(offset <= k - 1 - first)
      BY <1>1, <1>2, <1>3, <2>2, <3>1 DEF Offsets
    <3> QED BY <1>4, <3>2, <3>3
  <2> QED BY <2>1, <2>2
<1>9. ASSUME NEW o \in Offsets, \A k \in 1 .. n : o # OffsetOf(counter + (k - 1))
      PROVE  in[o] = data[o]
  <2>1. o \in 0 .. Size - 1 BY DEF Offsets
  <2>2. ~(offset <= o /\ o < offset + first)
    <3> SUFFICES ASSUME offset <= o, o < offset + first PROVE FALSE OBVIOUS
    <3> DEFINE k == o - offset + 1
    <3>1. k \in 1 .. n /\ offset + (k - 1) = o BY <1>1, <1>2, <1>3, <2>1
    <3> HIDE DEF k
    <3>2. OffsetOf(counter + (k - 1)) = offset + (k - 1)
      <4>1. offset + (k - 1) < Size BY <1>1, <2>1, <3>1
      <4> QED BY <1>5, <3>1, <4>1
    <3> QED BY <1>9, <3>1, <3>2
  <2>3. ~(o < n - first)
    <3> SUFFICES ASSUME o < n - first PROVE FALSE OBVIOUS
    <3> DEFINE k == o + first + 1
    <3>1. first = Size - offset BY <1>1, <1>3, <2>1
    <3>2. k \in 1 .. n /\ offset + (k - 1) = o + Size BY <1>1, <1>2, <1>3, <2>1, <3>1
    <3> HIDE DEF k
    <3>3. OffsetOf(counter + (k - 1)) = o
      <4>1. ~(offset + (k - 1) < Size) /\ offset + (k - 1) - Size = o
        BY <1>1, <1>2, <2>1, <3>2
      <4> QED BY <1>5, <3>2, <4>1
    <3> QED BY <1>9, <3>2, <3>3
  <2> QED BY <1>4, <2>2, <2>3
<1> QED BY <1>7, <1>8, <1>9 DEF in
-----------------------------------------------------------------------------

\* What the buffer holds is a string of as many bytes as the counters say.
ContentsKnown ==
  /\ Contents \in Seq(Byte) /\ Len(Contents) = DataCount
  /\ \A k \in 1 .. DataCount : Contents[k] = data[OffsetOf(read + (k - 1))]

\* So it is in every state of the right type.
LEMMA ContentsAre == TypeOK => ContentsKnown
<1> SUFFICES ASSUME TypeOK PROVE ContentsKnown OBVIOUS
<1>1. /\ data \in [Offsets -> Byte] /\ read \in Nat /\ DataCount \in 0 .. Size
      /\ Size \in Nat
  BY RingBufferAssumption DEF TypeOK
<1>2. ASSUME NEW k \in 1 .. DataCount
      PROVE  /\ OffsetOf(read + k - 1) = OffsetOf(read + (k - 1))
             /\ OffsetOf(read + (k - 1)) \in Offsets
  <2>1. read + k - 1 = read + (k - 1) /\ read + (k - 1) \in Nat /\ 0 \in 0 .. Size BY <1>1
  <2> QED BY <2>1, OffsetsWrap
<1>3. Contents \in [1 .. DataCount -> Byte] BY <1>1, <1>2 DEF Contents
<1> QED BY <1>1, <1>2, <1>3 DEF Contents, ContentsKnown

\* A part of a string.
LEMMA Parts ==
  ASSUME NEW s \in Seq(Byte), NEW m \in Nat \ {0}, NEW n \in 0 .. Len(s), m <= n + 1
  PROVE  /\ SubSeq(s, m, n) \in Seq(Byte) /\ Len(SubSeq(s, m, n)) = n - m + 1
         /\ \A k \in 1 .. n - m + 1 : SubSeq(s, m, n)[k] = s[m + (k - 1)]
<1>1. Len(s) \in Nat /\ n \in Nat OBVIOUS
<1>2. \A i \in m .. n : s[i] \in Byte BY <1>1
<1>3. /\ SubSeq(s, m, n) \in Seq(Byte)
      /\ Len(SubSeq(s, m, n)) = IF m <= n THEN n - m + 1 ELSE 0
      /\ \A k \in 1 .. n - m + 1 : SubSeq(s, m, n)[k] = s[m + k - 1]
  BY <1>1, <1>2, SubSeqProperties
<1>4. Len(SubSeq(s, m, n)) = n - m + 1 BY <1>1, <1>3
<1>5. \A k \in 1 .. n - m + 1 : m + k - 1 = m + (k - 1) BY <1>1
<1> QED BY <1>3, <1>4, <1>5

\* The numbers that calls are about.
LEMMA Numbers ==
  ASSUME TypeOK
  PROVE  /\ Size \in Nat \ {0} /\ MaxCounter \in Nat
         /\ write \in 0 .. MaxCounter /\ read \in 0 .. MaxCounter /\ read <= write
         /\ DataCount = write - read /\ DataCount \in 0 .. Size
         /\ FreeSpace = Size - DataCount /\ FreeSpace \in 0 .. Size
  BY RingBufferAssumption DEF TypeOK, DataCount, FreeSpace

\* A write takes what fits, behind what there is.
LEMMA Writes ==
  ASSUME TypeOK, NEW bytes \in Seq(Byte), u80211_ringbuffer_write(bytes)
  PROVE  TypeOK' /\ Queue!Write(bytes)
<1>1. /\ Size \in Nat \ {0} /\ MaxCounter \in Nat
      /\ write \in 0 .. MaxCounter /\ read \in 0 .. MaxCounter /\ read <= write
      /\ DataCount = write - read /\ DataCount \in 0 .. Size
      /\ FreeSpace = Size - DataCount /\ FreeSpace \in 0 .. Size
  BY Numbers
<1>2. bytes \in Seq(Byte) /\ Len(bytes) \in Nat
  OBVIOUS
<1> DEFINE n == Least(Len(bytes), FreeSpace)
<1>3. /\ count' = n /\ write' = write + n /\ read' = read
      /\ data' = CopiedIn(write, bytes, n) /\ copied' = <<>> /\ write + n <= MaxCounter
  BY DEF u80211_ringbuffer_write, Taken
<1>4. n \in 0 .. Size /\ n \in 0 .. FreeSpace /\ n \in 0 .. Len(bytes) /\ n \in Nat
  <2>1. FreeSpace \in Nat BY <1>1
  <2>2. n \in Nat /\ n <= Len(bytes) /\ n <= FreeSpace BY <1>2, <2>1, LeastOfTwo
  <2> HIDE DEF n
  <2> QED BY <1>1, <1>2, <2>2
<1> HIDE DEF n
<1>5. /\ data' \in [Offsets -> Byte]
      /\ \A k \in 1 .. n : data'[OffsetOf(write + (k - 1))] = bytes[k]
      /\ \A o \in Offsets :
           (\A k \in 1 .. n : o # OffsetOf(write + (k - 1))) => data'[o] = data[o]
  <2>1. data \in [Offsets -> Byte] /\ write \in Nat BY <1>1 DEF TypeOK
  <2>2. n <= Len(bytes) BY <1>2, <1>4
  <2>3. /\ CopiedIn(write, bytes, n) \in [Offsets -> Byte]
        /\ \A k \in 1 .. n : CopiedIn(write, bytes, n)[OffsetOf(write + (k - 1))] = bytes[k]
        /\ \A o \in Offsets :
             (\A k \in 1 .. n : o # OffsetOf(write + (k - 1)))
               => CopiedIn(write, bytes, n)[o] = data[o]
    BY <1>2, <1>4, <2>1, <2>2, CopyIn
  <2> QED BY <1>3, <2>3
<1>6. DataCount' = DataCount + n /\ DataCount + n \in 0 .. Size
  BY <1>1, <1>3, <1>4 DEF DataCount
<1>7. TypeOK'
  BY <1>1, <1>3, <1>4, <1>5, <1>6 DEF TypeOK
<1>8. /\ Contents \in Seq(Byte) /\ Len(Contents) = DataCount
      /\ \A k \in 1 .. DataCount : Contents[k] = data[OffsetOf(read + (k - 1))]
  BY ContentsAre DEF ContentsKnown
<1>9. /\ Contents' \in Seq(Byte) /\ Len(Contents') = DataCount + n
      /\ \A k \in 1 .. DataCount + n : Contents'[k] = data'[OffsetOf(read + (k - 1))]
  <2>1. ContentsKnown' BY <1>7, ContentsAre, PTL
  <2> QED BY <1>3, <1>6, <2>1 DEF ContentsKnown, OffsetOf
<1> DEFINE new == SubSeq(bytes, 1, n)
<1>10. new \in Seq(Byte) /\ Len(new) = n /\ \A k \in 1 .. n : new[k] = bytes[k]
  <2>1. /\ new \in Seq(Byte) /\ Len(new) = n - 1 + 1
        /\ \A k \in 1 .. n - 1 + 1 : new[k] = bytes[1 + (k - 1)]
    <3>1. 1 \in Nat \ {0} /\ 1 <= n + 1 BY <1>4
    <3> QED BY <1>2, <1>4, <3>1, Parts
  <2>2. n - 1 + 1 = n /\ \A k \in 1 .. n : 1 + (k - 1) = k BY <1>4
  <2> QED BY <2>1, <2>2
<1> HIDE DEF new
<1>11. /\ Contents \o new \in Seq(Byte) /\ Len(Contents \o new) = DataCount + n
       /\ \A k \in 1 .. DataCount + n :
            (Contents \o new)[k] = IF k <= DataCount THEN Contents[k] ELSE new[k - DataCount]
  BY <1>8, <1>10, ConcatProperties
<1>12. ASSUME NEW k \in 1 .. DataCount + n PROVE Contents'[k] = (Contents \o new)[k]
  <2>1. CASE k <= DataCount
    <3>1. k \in 1 .. DataCount /\ read + (k - 1) \in Nat /\ 0 \in 0 .. Size
      BY <1>1, <1>4, <2>1
    <3>2. OffsetOf(read + (k - 1)) \in Offsets BY <3>1, OffsetsWrap
    <3>3. ASSUME NEW j \in 1 .. n
          PROVE  OffsetOf(read + (k - 1)) # OffsetOf(write + (j - 1))
      <4>1. /\ write + (j - 1) \in Nat /\ read + (k - 1) < write + (j - 1)
            /\ write + (j - 1) < read + (k - 1) + Size
        BY <1>1, <1>4, <3>1
      <4> QED BY <3>1, <4>1, OffsetsDiffer
    <3>4. data'[OffsetOf(read + (k - 1))] = data[OffsetOf(read + (k - 1))]
      BY <1>5, <3>2, <3>3
    <3>5. (Contents \o new)[k] = Contents[k] BY <1>11, <2>1
    <3> QED BY <1>8, <1>9, <3>1, <3>4, <3>5
  <2>2. CASE ~(k <= DataCount)
    <3>1. /\ k - DataCount \in 1 .. n
          /\ read + (k - 1) = write + (k - DataCount - 1)
      BY <1>1, <1>4, <2>2
    <3>2. data'[OffsetOf(write + (k - DataCount - 1))] = bytes[k - DataCount] BY <1>5, <3>1
    <3>3. (Contents \o new)[k] = new[k - DataCount] BY <1>11, <2>2
    <3> QED BY <1>9, <1>10, <3>1, <3>2, <3>3
  <2> QED BY <2>1, <2>2
<1>13. Contents' = Contents \o new BY <1>9, <1>11, <1>12, SeqEqual
<1>14. n = Queue!Least(Len(bytes), Size - Len(Contents))
  <2>1. FreeSpace \in Nat BY <1>1
  <2> QED BY <1>1, <1>2, <1>8, <2>1, LeastOfTwo DEF n
<1> QED BY <1>3, <1>7, <1>13, <1>14 DEF Queue!Write, new

\* A call that leaves the memory as it is, and moves a counter: what is left of the contents.
LEMMA Leaves ==
  ASSUME TypeOK, TypeOK', UNCHANGED data,
         NEW m \in Nat, NEW n \in 0 .. DataCount, m <= n, read' = read + m,
         DataCount' = n - m
  PROVE  Contents' = SubSeq(Contents, m + 1, n)
<1>1. /\ Size \in Nat \ {0} /\ read \in Nat /\ DataCount \in 0 .. Size BY Numbers
<1>2. /\ Contents \in Seq(Byte) /\ Len(Contents) = DataCount
      /\ \A k \in 1 .. DataCount : Contents[k] = data[OffsetOf(read + (k - 1))]
  BY ContentsAre DEF ContentsKnown
<1>3. /\ Contents' \in Seq(Byte) /\ Len(Contents') = DataCount'
      /\ \A k \in 1 .. DataCount' : Contents'[k] = data'[OffsetOf(read' + (k - 1))]
  <2>1. ContentsKnown' BY ContentsAre, PTL
  <2> QED BY <2>1 DEF ContentsKnown, OffsetOf
<1> DEFINE rest == SubSeq(Contents, m + 1, n)
<1>4. /\ rest \in Seq(Byte) /\ Len(rest) = n - (m + 1) + 1
      /\ \A k \in 1 .. n - (m + 1) + 1 : rest[k] = Contents[m + 1 + (k - 1)]
  BY <1>1, <1>2, Parts
<1> HIDE DEF rest
<1>5. Len(rest) = n - m BY <1>1, <1>4
<1>6. ASSUME NEW k \in 1 .. n - m PROVE Contents'[k] = rest[k]
  <2>1. /\ k \in 1 .. n - (m + 1) + 1 /\ m + 1 + (k - 1) = m + k /\ m + k \in 1 .. DataCount
        /\ read + m + (k - 1) = read + (m + k - 1)
    BY <1>1
  <2>2. rest[k] = data[OffsetOf(read + (m + k - 1))] BY <1>2, <1>4, <2>1
  <2>3. Contents'[k] = data[OffsetOf(read + m + (k - 1))] BY <1>3
  <2> QED BY <2>1, <2>2, <2>3
<1> QED BY <1>3, <1>4, <1>5, <1>6, SeqEqual DEF rest

\* What a call copies out, as a part of the contents.
LEMMA Copies ==
  ASSUME TypeOK, NEW m \in Nat, NEW n \in Nat, m + n <= DataCount
  PROVE  /\ CopiedOut(read + m, n) = SubSeq(Contents, m + 1, m + n)
         /\ CopiedOut(read + m, n) \in Seq(Byte) /\ Len(CopiedOut(read + m, n)) = n
<1>1. /\ Size \in Nat \ {0} /\ read \in Nat /\ DataCount \in 0 .. Size BY Numbers
<1>2. /\ Contents \in Seq(Byte) /\ Len(Contents) = DataCount
      /\ \A k \in 1 .. DataCount : Contents[k] = data[OffsetOf(read + (k - 1))]
  BY ContentsAre DEF ContentsKnown
<1> DEFINE out == CopiedOut(read + m, n)
           part == SubSeq(Contents, m + 1, m + n)
<1>3. /\ out \in Seq(Byte) /\ Len(out) = n
      /\ \A k \in 1 .. n : out[k] = data[OffsetOf(read + m + (k - 1))]
  BY <1>1, CopyOut DEF TypeOK
<1>4. /\ part \in Seq(Byte) /\ Len(part) = m + n - (m + 1) + 1
      /\ \A k \in 1 .. m + n - (m + 1) + 1 : part[k] = Contents[m + 1 + (k - 1)]
  BY <1>1, <1>2, Parts
<1> HIDE DEF out, part
<1>5. Len(part) = n BY <1>4
<1>6. ASSUME NEW k \in 1 .. n PROVE out[k] = part[k]
  <2>1. /\ k \in 1 .. m + n - (m + 1) + 1 /\ m + 1 + (k - 1) = m + k /\ m + k \in 1 .. DataCount
        /\ read + m + (k - 1) = read + (m + k - 1)
    BY <1>1
  <2> QED BY <1>2, <1>3, <1>4, <2>1
<1> QED BY <1>3, <1>4, <1>5, <1>6, SeqEqual DEF out, part

\* A read gives the oldest bytes there are, and keeps the others.
LEMMA Reads ==
  ASSUME TypeOK, NEW wanted \in Nat, u80211_ringbuffer_read(wanted)
  PROVE  TypeOK' /\ Queue!Read(wanted)
<1>1. /\ Size \in Nat \ {0} /\ MaxCounter \in Nat
      /\ write \in 0 .. MaxCounter /\ read \in 0 .. MaxCounter /\ read <= write
      /\ DataCount = write - read /\ DataCount \in 0 .. Size
      /\ DataCount \in Nat
      /\ Contents \in Seq(Byte) /\ Len(Contents) = DataCount
  BY Numbers, ContentsAre DEF ContentsKnown
<1> DEFINE n == Least(wanted, DataCount)
<1>2. n \in Nat /\ n \in 0 .. DataCount /\ n \in 0 .. Size
      /\ n = Queue!Least(wanted, Len(Contents))
  <2>1. /\ n \in Nat /\ n <= wanted /\ n <= DataCount
        /\ n = Queue!Least(wanted, Len(Contents))
    BY <1>1, LeastOfTwo DEF Least, Queue!Least
  <2> HIDE DEF n
  <2> QED BY <1>1, <2>1
<1>3. /\ count' = n /\ copied' = CopiedOut(read, n) /\ read' = read + n
      /\ UNCHANGED <<data, write>>
  BY DEF u80211_ringbuffer_read
<1> HIDE DEF n
<1>4. /\ data' \in [Offsets -> Byte] /\ write' \in 0 .. MaxCounter
      /\ read' \in 0 .. MaxCounter /\ count' \in 0 .. Size
  <2>1. read + n \in 0 .. MaxCounter BY <1>1, <1>2
  <2> QED BY <1>1, <1>2, <1>3, <2>1 DEF TypeOK
<1>5. DataCount' = DataCount - n /\ DataCount - n \in 0 .. Size
  BY <1>1, <1>2, <1>3 DEF DataCount
<1>6. /\ copied' = SubSeq(Contents, 1, n) /\ copied' \in Seq(Byte)
  <2>1. 0 + n <= DataCount /\ read + 0 = read /\ 0 + 1 = 1 /\ 0 + n = n /\ 0 \in Nat
    BY <1>1, <1>2
  <2>2. /\ CopiedOut(read + 0, n) = SubSeq(Contents, 0 + 1, 0 + n)
        /\ CopiedOut(read + 0, n) \in Seq(Byte)
    BY <1>2, <2>1, Copies
  <2> QED BY <1>3, <2>1, <2>2
<1>7. TypeOK' BY <1>4, <1>5, <1>6 DEF TypeOK
<1>8. Contents' = SubSeq(Contents, n + 1, DataCount)
  <2>1. DataCount \in 0 .. DataCount /\ n <= DataCount BY <1>1, <1>2
  <2> QED BY <1>1, <1>2, <1>3, <1>5, <1>7, <2>1, Leaves
<1> QED BY <1>1, <1>2, <1>3, <1>6, <1>7, <1>8 DEF Queue!Read

\* A truncation drops the oldest bytes.
LEMMA Truncates ==
  ASSUME TypeOK, NEW wanted \in Nat, u80211_ringbuffer_truncate(wanted)
  PROVE  TypeOK' /\ Queue!Truncate(wanted)
<1>1. /\ Size \in Nat \ {0} /\ MaxCounter \in Nat
      /\ write \in 0 .. MaxCounter /\ read \in 0 .. MaxCounter /\ read <= write
      /\ DataCount = write - read /\ DataCount \in 0 .. Size
      /\ DataCount \in Nat
      /\ Contents \in Seq(Byte) /\ Len(Contents) = DataCount
  BY Numbers, ContentsAre DEF ContentsKnown
<1> DEFINE n == Least(DataCount, wanted)
<1>2. n \in Nat /\ n \in 0 .. DataCount /\ n \in 0 .. Size
      /\ n = Queue!Least(wanted, Len(Contents))
  <2>1. /\ n \in Nat /\ n <= wanted /\ n <= DataCount
        /\ n = Queue!Least(wanted, Len(Contents))
    BY <1>1, LeastOfTwo DEF Least, Queue!Least
  <2> HIDE DEF n
  <2> QED BY <1>1, <2>1
<1>3. /\ count' = n /\ copied' = <<>> /\ read' = read + n
      /\ UNCHANGED <<data, write>>
  BY DEF u80211_ringbuffer_truncate
<1> HIDE DEF n
<1>4. /\ data' \in [Offsets -> Byte] /\ write' \in 0 .. MaxCounter
      /\ read' \in 0 .. MaxCounter /\ count' \in 0 .. Size
  <2>1. read + n \in 0 .. MaxCounter BY <1>1, <1>2
  <2> QED BY <1>1, <1>2, <1>3, <2>1 DEF TypeOK
<1>5. DataCount' = DataCount - n /\ DataCount - n \in 0 .. Size
  BY <1>1, <1>2, <1>3 DEF DataCount
<1>6. copied' \in Seq(Byte) BY <1>3
<1>7. TypeOK' BY <1>4, <1>5, <1>6 DEF TypeOK
<1>8. Contents' = SubSeq(Contents, n + 1, DataCount)
  <2>1. DataCount \in 0 .. DataCount /\ n <= DataCount BY <1>1, <1>2
  <2> QED BY <1>1, <1>2, <1>3, <1>5, <1>7, <2>1, Leaves
<1> QED BY <1>1, <1>2, <1>3, <1>7, <1>8 DEF Queue!Truncate

\* A removal drops the newest bytes.
LEMMA Removes ==
  ASSUME TypeOK, NEW wanted \in Nat, u80211_ringbuffer_remove(wanted)
  PROVE  TypeOK' /\ Queue!Remove(wanted)
<1>1. /\ Size \in Nat \ {0} /\ MaxCounter \in Nat
      /\ write \in 0 .. MaxCounter /\ read \in 0 .. MaxCounter /\ read <= write
      /\ DataCount = write - read /\ DataCount \in 0 .. Size
      /\ DataCount \in Nat
      /\ Contents \in Seq(Byte) /\ Len(Contents) = DataCount
  BY Numbers, ContentsAre DEF ContentsKnown
<1> DEFINE n == Least(DataCount, wanted)
<1>2. n \in Nat /\ n \in 0 .. DataCount /\ n \in 0 .. Size
      /\ n = Queue!Least(wanted, Len(Contents))
  <2>1. /\ n \in Nat /\ n <= wanted /\ n <= DataCount
        /\ n = Queue!Least(wanted, Len(Contents))
    BY <1>1, LeastOfTwo DEF Least, Queue!Least
  <2> HIDE DEF n
  <2> QED BY <1>1, <2>1
<1>3. /\ count' = n /\ copied' = <<>> /\ write' = write - n
      /\ UNCHANGED <<data, read>>
  BY DEF u80211_ringbuffer_remove
<1> HIDE DEF n
<1>4. /\ data' \in [Offsets -> Byte] /\ write' \in 0 .. MaxCounter
      /\ read' \in 0 .. MaxCounter /\ count' \in 0 .. Size /\ copied' \in Seq(Byte)
  <2>1. write - n \in 0 .. MaxCounter BY <1>1, <1>2
  <2> QED BY <1>1, <1>2, <1>3, <2>1 DEF TypeOK
<1>5. DataCount' = DataCount - n /\ DataCount - n \in 0 .. Size
  <2>1. DataCount' = write - n - read BY <1>3 DEF DataCount
  <2>2. write - n - read = write - read - n BY <1>1, <1>2
  <2>3. DataCount - n \in 0 .. Size BY <1>1, <1>2
  <2> QED BY <1>1, <2>1, <2>2, <2>3
<1>6. TypeOK' BY <1>4, <1>5 DEF TypeOK
<1>7. Contents' = SubSeq(Contents, 1, Len(Contents) - n)
  <2>1. /\ 0 \in Nat /\ DataCount - n \in 0 .. DataCount /\ 0 <= DataCount - n
        /\ DataCount - n - 0 = DataCount - n /\ 0 + 1 = 1
        /\ read + 0 = read
    BY <1>1, <1>2
  <2>2. Contents' = SubSeq(Contents, 0 + 1, DataCount - n)
    BY <1>3, <1>5, <1>6, <2>1, Leaves
  <2> QED BY <1>1, <2>1, <2>2
<1> QED BY <1>1, <1>2, <1>3, <1>6, <1>7 DEF Queue!Remove

\* A peek gives the bytes there are from an offset on, and changes nothing.
LEMMA Peeks ==
  ASSUME TypeOK, NEW offset \in Nat, NEW wanted \in Nat, u80211_ringbuffer_peek(offset, wanted)
  PROVE  TypeOK' /\ Queue!Peek(offset, wanted)
<1>1. /\ Size \in Nat \ {0} /\ MaxCounter \in Nat
      /\ write \in 0 .. MaxCounter /\ read \in 0 .. MaxCounter /\ read <= write
      /\ DataCount = write - read /\ DataCount \in 0 .. Size
      /\ DataCount \in Nat
      /\ Contents \in Seq(Byte) /\ Len(Contents) = DataCount
  BY Numbers, ContentsAre DEF ContentsKnown
<1>2. /\ count' = IF offset >= DataCount THEN 0 ELSE Least(wanted, DataCount - offset)
      /\ copied' = CopiedOut(read + offset, count') /\ UNCHANGED <<data, write, read>>
  BY DEF u80211_ringbuffer_peek
<1>3. Contents' = Contents BY <1>2 DEF Contents, DataCount, OffsetOf
<1> DEFINE last == Queue!Least(offset + wanted, Len(Contents))
<1>4. ASSUME copied' = SubSeq(Contents, offset + 1, last), copied' \in Seq(Byte),
             count' = Len(copied'), count' \in 0 .. Size
      PROVE  TypeOK' /\ Queue!Peek(offset, wanted)
  <2>1. TypeOK' BY <1>1, <1>2, <1>4 DEF TypeOK, DataCount
  <2> QED BY <1>3, <1>4, <2>1 DEF Queue!Peek
<1>5. CASE offset >= DataCount
  <2>1. count' = 0 /\ copied' = CopiedOut(read + offset, 0) BY <1>2, <1>5
  <2>2. copied' = <<>>
    <3>1. 0 \in 0 .. Size /\ read + offset \in Nat BY <1>1
    <3>2. CopiedOut(read + offset, 0) \in Seq(Byte) /\ Len(CopiedOut(read + offset, 0)) = 0
      BY <3>1, CopyOut DEF TypeOK
    <3> QED BY <2>1, <3>2
  <2>3. SubSeq(Contents, offset + 1, last) = <<>>
    <3>1. last = DataCount /\ last < offset + 1
      BY <1>1, <1>5 DEF Queue!Least
    <3> HIDE DEF last
    <3> QED BY <1>1, <3>1
  <2>4. 0 \in 0 .. Size /\ <<>> \in Seq(Byte) /\ Len(<<>>) = 0 BY <1>1
  <2> HIDE DEF last
  <2> QED BY <1>4, <2>1, <2>2, <2>3, <2>4
<1>6. CASE ~(offset >= DataCount)
  <2> DEFINE n == Least(wanted, DataCount - offset)
  <2>1. count' = n BY <1>2, <1>6
  <2>2. /\ n \in Nat /\ offset + n <= DataCount /\ n \in 0 .. Size
        /\ last = offset + n
    <3>1. DataCount - offset \in Nat BY <1>1, <1>6
    <3>2. n \in Nat /\ n <= DataCount - offset BY <3>1, LeastOfTwo
    <3>3. last = offset + n
      <4>1. CASE wanted <= DataCount - offset
        <5>1. n = wanted /\ offset + wanted <= DataCount BY <1>1, <3>1, <4>1 DEF Least
        <5> QED BY <1>1, <5>1 DEF Queue!Least
      <4>2. CASE ~(wanted <= DataCount - offset)
        <5>1. n = DataCount - offset /\ ~(offset + wanted <= DataCount)
          BY <1>1, <3>1, <4>2 DEF Least
        <5>2. offset + (DataCount - offset) = DataCount BY <1>1
        <5> QED BY <1>1, <5>1, <5>2 DEF Queue!Least
      <4> QED BY <4>1, <4>2
    <3> HIDE DEF n
    <3> QED BY <1>1, <3>1, <3>2, <3>3
  <2> HIDE DEF n, last
  <2>3. /\ CopiedOut(read + offset, n) = SubSeq(Contents, offset + 1, offset + n)
        /\ CopiedOut(read + offset, n) \in Seq(Byte) /\ Len(CopiedOut(read + offset, n)) = n
    BY <2>2, Copies
  <2>4. copied' = CopiedOut(read + offset, n) BY <1>2, <2>1
  <2> QED BY <1>4, <2>1, <2>2, <2>3, <2>4
<1> QED BY <1>5, <1>6
-----------------------------------------------------------------------------
\* A buffer is made empty.
LEMMA MadeEmpty == Init => TypeOK /\ Queue!Init
<1> SUFFICES ASSUME Init PROVE TypeOK /\ Queue!Init OBVIOUS
<1>1. /\ Size \in Nat \ {0} /\ MaxCounter \in Nat /\ data \in [Offsets -> Byte]
      /\ write = 0 /\ read = 0 /\ count = 0 /\ copied = <<>>
  BY RingBufferAssumption DEF Init
<1>2. DataCount = 0 BY <1>1 DEF DataCount
<1>3. TypeOK BY <1>1, <1>2 DEF TypeOK
<1>4. Contents \in Seq(Byte) /\ Len(Contents) = 0 BY <1>2, <1>3, ContentsAre DEF ContentsKnown
<1>5. Contents = <<>> BY <1>4
<1> QED BY <1>1, <1>3, <1>5 DEF Queue!Init

\* Every call, and none, does to the contents what the queue does.
LEMMA EveryCall ==
  TypeOK /\ [Next]_vars => TypeOK' /\ [Queue!Next]_<<Contents, count, copied>>
<1> SUFFICES ASSUME TypeOK, [Next]_vars
             PROVE  TypeOK' /\ [Queue!Next]_<<Contents, count, copied>>
  OBVIOUS
<1>1. Counts \subseteq Nat BY RingBufferAssumption DEF Counts
<1>2. ASSUME NEW bytes \in Strings, u80211_ringbuffer_write(bytes)
      PROVE  TypeOK' /\ Queue!Next
  <2>1. bytes \in Seq(Byte) BY RingBufferAssumption DEF Strings, Counts
  <2> QED BY <1>2, <2>1, Writes DEF Queue!Next
<1>3. ASSUME NEW wanted \in Counts, u80211_ringbuffer_read(wanted)
      PROVE  TypeOK' /\ Queue!Next
  BY <1>1, <1>3, Reads DEF Queue!Next
<1>4. ASSUME NEW wanted \in Counts, u80211_ringbuffer_truncate(wanted)
      PROVE  TypeOK' /\ Queue!Next
  BY <1>1, <1>4, Truncates DEF Queue!Next
<1>5. ASSUME NEW wanted \in Counts, u80211_ringbuffer_remove(wanted)
      PROVE  TypeOK' /\ Queue!Next
  BY <1>1, <1>5, Removes DEF Queue!Next
<1>6. ASSUME NEW offset \in Counts, NEW wanted \in Counts,
             u80211_ringbuffer_peek(offset, wanted)
      PROVE  TypeOK' /\ Queue!Next
  BY <1>1, <1>6, Peeks DEF Queue!Next
<1>7. CASE UNCHANGED vars
  <2>1. UNCHANGED <<data, write, read, count, copied>> BY <1>7 DEF vars
  <2>2. TypeOK' BY <2>1 DEF TypeOK, DataCount
  <2>3. Contents' = Contents BY <2>1 DEF Contents, DataCount, OffsetOf
  <2> QED BY <2>1, <2>2, <2>3
<1> QED BY <1>2, <1>3, <1>4, <1>5, <1>6, <1>7 DEF Next

\* For a memory of any size and calls of any length, the offsets stay inside the
\* memory, a buffer never holds more than its size, and the counters never cross.
THEOREM RingBufferTypeCorrect == Spec => []TypeOK
<1>1. Init => TypeOK BY MadeEmpty
<1>2. TypeOK /\ [Next]_vars => TypeOK' BY EveryCall
<1> QED BY <1>1, <1>2, PTL DEF Spec

\* For a memory of any size and calls of any length, every call does to the contents,
\* and returns, what the same call on a queue would: the copies in one pass or in two
\* that u80211_ringbuffer_write, _read and _peek make lose, repeat and reorder nothing.
THEOREM BufferImplementsQueue == Spec => ImplementsByteQueue
<1>1. Init => Queue!Init BY MadeEmpty
<1>2. TypeOK /\ [Next]_vars => [Queue!Next]_<<Contents, count, copied>> BY EveryCall
<1>3. Spec => []TypeOK BY RingBufferTypeCorrect
<1> QED BY <1>1, <1>2, <1>3, PTL DEF Spec, ImplementsByteQueue, Queue!Spec

-----------------------------------------------------------------------------
(***************************************************************************)
(* Strings one after the other, as FlattenSeq puts them.                   *)
(***************************************************************************)

\* What the first strings are together, for each number of them up to n.
Together(strings, n, v) ==
  /\ v \in [0 .. n -> Seq(Byte)] /\ v[0] = <<>>
  /\ \A i \in 1 .. n : v[i] = v[i - 1] \o strings[i]

\* FlattenSeq gives the last of the prefixes, which there are.
LEMMA FlattenIsPrefix ==
  ASSUME NEW strings \in Seq(Seq(Byte))
  PROVE  \E v : /\ Together(strings, Len(strings), v)
                /\ FlattenSeq(strings) = v[Len(strings)]
<1> DEFINE last == Len(strings)
           parts == {n \in 0 .. last : \E v : Together(strings, n, v)}
<1>1. last \in Nat /\ (last = 0 => strings = <<>>) OBVIOUS
<1>2. \A i \in 1 .. last : strings[i] \in Seq(Byte) OBVIOUS
<1> HIDE DEF last
<1>3. 0 \in parts
  <2>1. Together(strings, 0, [i \in 0 .. 0 |-> <<>>]) BY DEF Together
  <2> QED BY <1>1, <2>1
<1>4. ASSUME NEW n \in parts, n # last PROVE n + 1 \in parts
  <2>1. PICK v : Together(strings, n, v) OBVIOUS
  <2>2. n \in Nat /\ n + 1 \in 1 .. last BY <1>1, <1>4
  <2> DEFINE x == v[n] \o strings[n + 1]
             w == [i \in 0 .. n + 1 |-> IF i = n + 1 THEN x ELSE v[i]]
  <2>3. x \in Seq(Byte)
    <3>1. v[n] \in Seq(Byte) /\ strings[n + 1] \in Seq(Byte)
      BY <1>2, <2>1, <2>2 DEF Together
    <3> QED BY <3>1, ConcatProperties
  <2> HIDE DEF x
  <2>4. w \in [0 .. n + 1 -> Seq(Byte)] /\ w[0] = <<>> BY <2>1, <2>2, <2>3 DEF Together
  <2>5. ASSUME NEW i \in 1 .. n + 1 PROVE w[i] = w[i - 1] \o strings[i]
    <3>1. CASE i = n + 1
      <4>1. w[i] = x /\ w[i - 1] = v[n] BY <2>2, <3>1
      <4> QED BY <3>1, <4>1 DEF x
    <3>2. CASE i # n + 1
      <4>1. i \in 1 .. n /\ w[i] = v[i] /\ w[i - 1] = v[i - 1] BY <2>2, <3>2
      <4> QED BY <2>1, <4>1 DEF Together
    <3> QED BY <3>1, <3>2
  <2> HIDE DEF w
  <2>6. Together(strings, n + 1, w) BY <2>4, <2>5 DEF Together
  <2> QED BY <1>1, <2>2, <2>6
<1> HIDE DEF parts
<1>5. parts \subseteq 0 .. last BY DEF parts
<1>6. last \in parts BY <1>1, <1>3, <1>4, <1>5, UpToLength
<1>7. PICK v : Together(strings, last, v) BY <1>6 DEF parts
<1>8. CASE last = 0
  <2>1. FlattenSeq(strings) = strings BY <1>8 DEF FlattenSeq, last
  <2>2. v[last] = <<>> BY <1>7, <1>8 DEF Together
  <2> QED BY <1>1, <1>7, <1>8, <2>1, <2>2 DEF last
<1>9. CASE last # 0
  <2> DEFINE u == [i \in 1 .. last |-> v[i]]
  <2>1. last \in 1 .. last /\ 1 \in 1 .. last BY <1>1, <1>9
  <2>2. v[1] = strings[1]
    <3>1. v[1] = v[0] \o strings[1] /\ v[0] = <<>>
      <4>1. \A i \in 1 .. last : v[i] = v[i - 1] \o strings[i] BY <1>7 DEF Together
      <4>2. 1 - 1 = 0 OBVIOUS
      <4> QED BY <1>7, <2>1, <4>1, <4>2 DEF Together
    <3> QED BY <1>2, <2>1, <3>1, ConcatEmptySeq
  <2>3. ASSUME NEW i \in 1 .. last
        PROVE  u[i] = IF i = 1 THEN strings[i] ELSE u[i - 1] \o strings[i]
    <3>1. CASE i = 1 BY <2>2, <3>1
    <3>2. CASE i # 1
      <4>1. i - 1 \in 1 .. last BY <1>1, <3>2
      <4> QED BY <1>7, <3>2, <4>1 DEF Together
    <3> QED BY <3>1, <3>2
  <2>4. u = [i \in 1 .. last |-> IF i = 1 THEN strings[i] ELSE u[i - 1] \o strings[i]]
    <3>1. u = [i \in 1 .. last |-> u[i]] OBVIOUS
    <3> HIDE DEF u
    <3> QED BY <2>3, <3>1
  <2>5. u[last] = v[last] BY <2>1
  <2> HIDE DEF u
  <2> DEFINE flatten[i \in 1 .. last] ==
               IF i = 1 THEN strings[i] ELSE flatten[i - 1] \o strings[i]
  <2>6. flatten = [i \in 1 .. last |-> IF i = 1 THEN strings[i] ELSE flatten[i - 1] \o strings[i]]
    <3> SUFFICES \E ff : ff = [i \in 1 .. last |->
                   IF i = 1 THEN strings[i] ELSE ff[i - 1] \o strings[i]]
      OBVIOUS
    <3> QED BY <2>4
  <2>7. FlattenSeq(strings) = flatten[last] BY <1>9 DEF FlattenSeq, last
  <2> HIDE DEF flatten
  <2> DEFINE same == {n \in 0 .. last : n # 0 => flatten[n] = u[n]}
  <2>8. 0 \in same BY <1>1
  <2>9. ASSUME NEW n \in same, n # last PROVE n + 1 \in same
    <3> DEFINE k == n + 1
    <3>1. k \in 1 .. last /\ k - 1 = n BY <1>1, <2>9
    <3> HIDE DEF k
    <3>2. CASE k = 1
      <4>1. flatten[k] = strings[k] /\ u[k] = strings[k] BY <2>4, <2>6, <3>1, <3>2
      <4> QED BY <1>1, <3>1, <4>1 DEF k
    <3>3. CASE k # 1
      <4>1. n # 0 /\ flatten[n] = u[n]
        <5>1. n # 0 BY <3>1, <3>3 DEF k
        <5> QED BY <5>1
      <4>2. flatten[k] = flatten[n] \o strings[k] /\ u[k] = u[n] \o strings[k]
        BY <2>4, <2>6, <3>1, <3>3
      <4>3. flatten[k] = u[k] BY <4>1, <4>2
      <4> QED BY <1>1, <3>1, <4>3 DEF k
    <3> QED BY <3>2, <3>3
  <2> HIDE DEF same
  <2>10. same \subseteq 0 .. last BY DEF same
  <2>11. last \in same BY <1>1, <2>8, <2>9, <2>10, UpToLength
  <2>12. flatten[last] = u[last] BY <1>9, <2>11 DEF same
  <2> QED BY <1>7, <2>5, <2>7, <2>12 DEF last
<1> QED BY <1>8, <1>9

\* The strings p are n of those of q, from the one behind the first d on.
StringsOf(p, q, n, d) == \A i \in 1 .. n : p[i] = q[i + d] /\ p[i] \in Seq(Byte)

\* They are together v, and the m strings of q are together w.
PartOf(p, v, n, q, w, m, d) ==
  /\ n \in Nat /\ m \in Nat /\ d \in Nat /\ n + d <= m
  /\ Together(p, n, v) /\ Together(q, m, w) /\ StringsOf(p, q, n, d)

\* What a part of the strings adds is what the same strings are anywhere.
LEMMA PrefixOfPart ==
  ASSUME NEW p, NEW v, NEW n, NEW q, NEW w, NEW m, NEW d, PartOf(p, v, n, q, w, m, d)
  PROVE  w[n + d] = w[d] \o v[n] /\ w[d] \in Seq(Byte) /\ v[n] \in Seq(Byte)
<1> DEFINE same == {i \in 0 .. n : w[i + d] = w[d] \o v[i]}
<1> n \in Nat /\ m \in Nat /\ d \in Nat /\ n + d <= m BY DEF PartOf
<1> Together(p, n, v) /\ Together(q, m, w) /\ StringsOf(p, q, n, d) BY DEF PartOf
<1>1. w[d] \in Seq(Byte) /\ v[0] = <<>> /\ v[n] \in Seq(Byte) BY DEF Together
<1>2. 0 \in same
  <2>1. w[d] \o <<>> = w[d] BY <1>1, ConcatEmptySeq
  <2>2. 0 + d = d /\ 0 \in 0 .. n OBVIOUS
  <2>3. w[0 + d] = w[d] \o v[0] BY <1>1, <2>1, <2>2
  <2> QED BY <2>2, <2>3
<1>3. ASSUME NEW i \in same, i # n PROVE i + 1 \in same
  <2> DEFINE j == i + 1
             k == i + 1 + d
  <2>1. /\ j \in 1 .. n /\ j - 1 = i /\ k \in 1 .. m /\ k - 1 = i + d /\ k = j + d
        /\ i \in 0 .. n
    BY <1>3
  <2> HIDE DEF j, k
  <2>2. v[j] = v[i] \o p[j] /\ v[i] \in Seq(Byte) /\ p[j] \in Seq(Byte)
    <3>1. v[j] = v[j - 1] \o p[j] BY <2>1 DEF Together
    <3> QED BY <2>1, <3>1 DEF Together, StringsOf
  <2>3. w[k] = w[i + d] \o p[j]
    <3>1. w[k] = w[k - 1] \o q[k] BY <2>1 DEF Together
    <3>2. p[j] = q[k] BY <2>1 DEF StringsOf
    <3> QED BY <2>1, <3>1, <3>2
  <2>4. w[i + d] = w[d] \o v[i] OBVIOUS
  <2>5. (w[d] \o v[i]) \o p[j] = w[d] \o (v[i] \o p[j])
    <3> DEFINE a == w[d]
               b == v[i]
               c == p[j]
    <3>1. a \in Seq(Byte) /\ b \in Seq(Byte) /\ c \in Seq(Byte) BY <1>1, <2>2
    <3> HIDE DEF a, b, c
    <3>2. (a \o b) \o c = a \o (b \o c) BY <3>1, ConcatAssociative, SMTT(30)
    <3> QED BY <3>2 DEF a, b, c
  <2>6. w[j + d] = w[d] \o v[j] BY <2>1, <2>2, <2>3, <2>4, <2>5
  <2>7. j \in 0 .. n BY <2>1
  <2> QED BY <2>6, <2>7 DEF j
<1> HIDE DEF same
<1>4. same \subseteq 0 .. n BY DEF same
<1>5. n \in same BY <1>2, <1>3, <1>4, UpToLength
<1> QED BY <1>1, <1>5 DEF same

-----------------------------------------------------------------------------
(***************************************************************************)
(* The records of a scan.                                                  *)
(***************************************************************************)

\* An element is a string, and a header another; together they are a record.
RecordOf(rsn) == Header(rsn) \o rsn
RecordsOf(rsns) == [i \in DOMAIN rsns |-> RecordOf(rsns[i])]

LEMMA RsnsAreStrings ==
  ASSUME NEW rsn \in Rsns
  PROVE  /\ rsn \in Seq(Byte) /\ Len(rsn) \in 0 .. MaxRsn /\ Len(rsn) \in Nat
         /\ Header(rsn) \in Seq(Byte) /\ Len(Header(rsn)) = 1 /\ Header(rsn)[1] = Len(rsn)
         /\ RecordOf(rsn) \in Seq(Byte)
<1>1. PICK size \in 0 .. MaxRsn : rsn \in [1 .. size -> Byte] BY DEF Rsns
<1>2. rsn \in Seq(Byte) /\ Len(rsn) = size /\ size \in Nat BY <1>1, ScanRecordsAssumption
<1>3. Len(rsn) \in Byte BY <1>1, <1>2, ScanRecordsAssumption
<1>4. /\ Header(rsn) \in Seq(Byte) /\ Len(Header(rsn)) = 1 /\ Header(rsn)[1] = Len(rsn)
  BY <1>3 DEF Header
<1> QED BY <1>1, <1>2, <1>4, ConcatProperties DEF RecordOf

\* The records of a sequence of elements are as many strings.
LEMMA RecordsAreStrings ==
  ASSUME NEW rsns \in Seq(Rsns)
  PROVE  /\ RecordsOf(rsns) \in Seq(Seq(Byte)) /\ Len(RecordsOf(rsns)) = Len(rsns)
         /\ Written(rsns) = FlattenSeq(RecordsOf(rsns))
         /\ \A i \in 1 .. Len(rsns) : /\ RecordsOf(rsns)[i] = RecordOf(rsns[i])
                                      /\ RecordOf(rsns[i]) \in Seq(Byte)
<1>1. \A i \in 1 .. Len(rsns) : RecordOf(rsns[i]) \in Seq(Byte) BY RsnsAreStrings
<1>2. DOMAIN rsns = 1 .. Len(rsns) /\ Len(rsns) \in Nat OBVIOUS
<1>3. Written(rsns) = FlattenSeq(RecordsOf(rsns)) BY DEF Written, RecordsOf, RecordOf
<1>4. RecordsOf(rsns) = [i \in 1 .. Len(rsns) |-> RecordOf(rsns[i])] BY <1>2 DEF RecordsOf
<1>5. RecordsOf(rsns) \in [1 .. Len(rsns) -> Seq(Byte)] BY <1>1, <1>4
<1> QED BY <1>1, <1>2, <1>3, <1>4, <1>5

\* No element is written as nothing ...
LEMMA NothingWritten == Written(<<>>) = <<>>
<1>1. <<>> \in Seq(Rsns) /\ Len(<<>>) = 0 OBVIOUS
<1>2. RecordsOf(<<>>) \in Seq(Seq(Byte)) /\ Len(RecordsOf(<<>>)) = 0
      /\ Written(<<>>) = FlattenSeq(RecordsOf(<<>>))
  BY <1>1, RecordsAreStrings
<1>3. PICK v : Together(RecordsOf(<<>>), 0, v) /\ FlattenSeq(RecordsOf(<<>>)) = v[0]
  BY <1>2, FlattenIsPrefix
<1> QED BY <1>2, <1>3 DEF Together

\* ... and any as a string.
LEMMA WrittenIsString ==
  ASSUME NEW rsns \in Seq(Rsns)
  PROVE  Written(rsns) \in Seq(Byte)
<1> DEFINE s == RecordsOf(rsns)
           n == Len(rsns)
<1>1. s \in Seq(Seq(Byte)) /\ Len(s) = n /\ Written(rsns) = FlattenSeq(s) /\ n \in Nat
  BY RecordsAreStrings
<1> HIDE DEF s, n
<1>2. PICK v : Together(s, n, v) /\ FlattenSeq(s) = v[n] BY <1>1, FlattenIsPrefix
<1>3. n \in 0 .. n BY <1>1
<1> QED BY <1>1, <1>2, <1>3 DEF Together

\* An element that is put behind the others is written behind them ...
LEMMA WrittenBehind ==
  ASSUME NEW rsns \in Seq(Rsns), NEW rsn \in Rsns
  PROVE  Written(Append(rsns, rsn)) = Written(rsns) \o RecordOf(rsn)
<1> DEFINE n == Len(rsns)
           more == Append(rsns, rsn)
           p == RecordsOf(rsns)
           q == RecordsOf(more)
<1>1. /\ n \in Nat /\ more \in Seq(Rsns) /\ Len(more) = n + 1 /\ more[n + 1] = rsn
      /\ \A i \in 1 .. n : rsns[i] = more[i]
  OBVIOUS
<1>2. /\ p \in Seq(Seq(Byte)) /\ Len(p) = n /\ Written(rsns) = FlattenSeq(p)
      /\ \A i \in 1 .. n : p[i] = RecordOf(rsns[i]) /\ RecordOf(rsns[i]) \in Seq(Byte)
  BY RecordsAreStrings
<1>3. /\ q \in Seq(Seq(Byte)) /\ Len(q) = n + 1 /\ Written(more) = FlattenSeq(q)
      /\ \A i \in 1 .. n + 1 : q[i] = RecordOf(more[i])
  BY <1>1, RecordsAreStrings
<1> HIDE DEF n, more, p, q
<1>4. PICK v : Together(p, n, v) /\ Written(rsns) = v[n] BY <1>2, FlattenIsPrefix
<1>5. PICK w : Together(q, n + 1, w) /\ Written(more) = w[n + 1] BY <1>3, FlattenIsPrefix
<1>6. StringsOf(p, q, n, 0) BY <1>1, <1>2, <1>3 DEF StringsOf
<1>7. /\ 0 \in Nat /\ n + 1 \in Nat /\ n + 0 <= n + 1 /\ n + 0 = n /\ n + 1 - 1 = n
      /\ n + 1 \in 1 .. n + 1
  BY <1>1
<1>8. w[n + 0] = w[0] \o v[n] /\ v[n] \in Seq(Byte)
  <2> DEFINE m == n + 1
             d == 0
  <2>1. m \in Nat /\ d \in Nat /\ n + d <= m /\ Together(q, m, w) /\ StringsOf(p, q, n, d)
    BY <1>5, <1>6, <1>7
  <2> HIDE DEF m, d
  <2>2. PartOf(p, v, n, q, w, m, d) BY <1>1, <1>4, <2>1 DEF PartOf
  <2>3. w[n + d] = w[d] \o v[n] /\ w[d] \in Seq(Byte) /\ v[n] \in Seq(Byte)
    BY <2>2, PrefixOfPart
  <2> QED BY <2>3 DEF d
<1>9. w[0] \o v[n] = v[n] BY <1>5, <1>8, ConcatEmptySeq DEF Together
<1>10. w[n + 1] = w[n] \o RecordOf(rsn)
  <2> DEFINE k == n + 1
  <2>1. k \in 1 .. n + 1 /\ k - 1 = n BY <1>1
  <2> HIDE DEF k
  <2>2. w[k] = w[k - 1] \o q[k] BY <1>5, <2>1 DEF Together
  <2>3. q[k] = RecordOf(rsn) BY <1>1, <1>3, <2>1 DEF k
  <2> QED BY <2>1, <2>2, <2>3 DEF k
<1> QED BY <1>4, <1>5, <1>7, <1>8, <1>9, <1>10 DEF more

\* ... and the first is written before the others.
LEMMA WrittenFirst ==
  ASSUME NEW rsns \in Seq(Rsns), rsns # <<>>
  PROVE  Written(rsns) = RecordOf(Head(rsns)) \o Written(Tail(rsns))
<1> DEFINE n == Len(Tail(rsns))
           rest == Tail(rsns)
           p == RecordsOf(rest)
           q == RecordsOf(rsns)
<1>1. /\ n \in Nat /\ rest \in Seq(Rsns) /\ Len(rest) = n /\ Len(rsns) = n + 1
      /\ Head(rsns) = rsns[1] /\ Head(rsns) \in Rsns
      /\ \A i \in 1 .. n : rest[i] = rsns[i + 1]
  OBVIOUS
<1>2. /\ p \in Seq(Seq(Byte)) /\ Len(p) = n /\ Written(rest) = FlattenSeq(p)
      /\ \A i \in 1 .. n : p[i] = RecordOf(rest[i]) /\ RecordOf(rest[i]) \in Seq(Byte)
  BY <1>1, RecordsAreStrings
<1>3. /\ q \in Seq(Seq(Byte)) /\ Len(q) = n + 1 /\ Written(rsns) = FlattenSeq(q)
      /\ \A i \in 1 .. n + 1 : q[i] = RecordOf(rsns[i])
  BY <1>1, RecordsAreStrings
<1> HIDE DEF n, rest, p, q
<1>4. PICK v : Together(p, n, v) /\ Written(rest) = v[n] BY <1>2, FlattenIsPrefix
<1>5. PICK w : Together(q, n + 1, w) /\ Written(rsns) = w[n + 1] BY <1>3, FlattenIsPrefix
<1>6. StringsOf(p, q, n, 1)
  <2>1. \A i \in 1 .. n : i + 1 \in 1 .. n + 1 BY <1>1
  <2> QED BY <1>1, <1>2, <1>3, <2>1 DEF StringsOf
<1>7. 1 \in Nat /\ n + 1 \in Nat /\ n + 1 <= n + 1 /\ 1 \in 1 .. n + 1 BY <1>1
<1>8. w[n + 1] = w[1] \o v[n]
  <2> DEFINE m == n + 1
             d == 1
  <2>1. m \in Nat /\ d \in Nat /\ n + d <= m /\ Together(q, m, w) /\ StringsOf(p, q, n, d)
    BY <1>5, <1>6, <1>7
  <2> HIDE DEF m, d
  <2>2. PartOf(p, v, n, q, w, m, d) BY <1>1, <1>4, <2>1 DEF PartOf
  <2>3. w[n + d] = w[d] \o v[n] /\ w[d] \in Seq(Byte) /\ v[n] \in Seq(Byte)
    BY <2>2, PrefixOfPart
  <2> QED BY <2>3 DEF d
<1>9. w[1] = RecordOf(Head(rsns))
  <2>1. \A i \in 1 .. n + 1 : w[i] = w[i - 1] \o q[i] BY <1>5 DEF Together
  <2>2. 1 - 1 = 0 OBVIOUS
  <2>3. w[1] = w[0] \o q[1] /\ w[0] = <<>> BY <1>5, <1>7, <2>1, <2>2 DEF Together
  <2>4. q[1] = RecordOf(Head(rsns)) BY <1>1, <1>3, <1>7
  <2>5. q[1] \in Seq(Byte) BY <1>1, <2>4, RsnsAreStrings
  <2> QED BY <2>3, <2>4, <2>5, ConcatEmptySeq
<1> QED BY <1>4, <1>5, <1>8, <1>9 DEF rest

\* The two ends of a string.
LEMMA EndsOf ==
  ASSUME NEW s \in Seq(Byte), NEW t \in Seq(Byte)
  PROVE  /\ s \o t \in Seq(Byte) /\ Len(s \o t) = Len(s) + Len(t)
         /\ SubSeq(s \o t, 1, Len(s)) = s
         /\ SubSeq(s \o t, Len(s) + 1, Len(s \o t)) = t
<1> DEFINE m == Len(s)
           n == Len(t)
           st == s \o t
<1>1. m \in Nat /\ n \in Nat OBVIOUS
<1>2. /\ st \in Seq(Byte) /\ Len(st) = m + n
      /\ \A i \in 1 .. m + n : st[i] = IF i <= m THEN s[i] ELSE t[i - m]
  BY ConcatProperties
<1> HIDE DEF st
<1>4. SubSeq(st, 1, m) = s
  <2>1. 1 \in Nat \ {0} /\ m \in 0 .. Len(st) /\ 1 <= m + 1 /\ m - 1 + 1 = m BY <1>1, <1>2
  <2>2. /\ SubSeq(st, 1, m) \in Seq(Byte) /\ Len(SubSeq(st, 1, m)) = m - 1 + 1
        /\ \A k \in 1 .. m - 1 + 1 : SubSeq(st, 1, m)[k] = st[1 + (k - 1)]
    BY <1>2, <2>1, Parts
  <2>3. ASSUME NEW k \in 1 .. m PROVE SubSeq(st, 1, m)[k] = s[k]
    <3>1. 1 + (k - 1) = k /\ k \in 1 .. m + n /\ k <= m BY <1>1
    <3>2. SubSeq(st, 1, m)[k] = st[k] BY <2>1, <2>2, <3>1
    <3> QED BY <1>2, <3>1, <3>2
  <2> QED BY <2>1, <2>2, <2>3, SeqEqual
<1>5. SubSeq(st, m + 1, m + n) = t
  <2> DEFINE l == m + 1
             u == m + n
  <2>1. l \in Nat \ {0} /\ u \in 0 .. Len(st) /\ l <= u + 1 /\ u - l + 1 = n BY <1>1, <1>2
  <2>2. /\ SubSeq(st, l, u) \in Seq(Byte) /\ Len(SubSeq(st, l, u)) = n
        /\ \A k \in 1 .. n : SubSeq(st, l, u)[k] = st[l + (k - 1)]
    <3> HIDE DEF l, u
    <3> QED BY <1>2, <2>1, Parts
  <2>3. ASSUME NEW k \in 1 .. n PROVE SubSeq(st, l, u)[k] = t[k]
    <3> DEFINE i == l + (k - 1)
    <3>1. i \in 1 .. m + n /\ ~(i <= m) /\ i - m = k BY <1>1
    <3> HIDE DEF i
    <3>2. st[i] = t[k] BY <1>2, <3>1
    <3> QED BY <2>2, <3>2 DEF i
  <2> QED BY <2>2, <2>3, SeqEqual
<1> QED BY <1>2, <1>4, <1>5 DEF st

-----------------------------------------------------------------------------
(***************************************************************************)
(* Records stay whole because the two writes of one come after a look at   *)
(* the space for both: each takes everything.  Then what is behind a header*)
(* is its element, and the read that follows gets just that.               *)
(***************************************************************************)

\* A write of what there is room for takes all of it.
LEMMA WholeWrite ==
  ASSUME TypeOK, NEW bytes \in Seq(Byte), Len(bytes) <= FreeSpace,
         u80211_ringbuffer_write(bytes)
  PROVE  /\ TypeOK' /\ Contents' = Contents \o bytes
         /\ FreeSpace' = FreeSpace - Len(bytes)
<1> DEFINE n == Len(bytes)
           all == SubSeq(bytes, 1, n)
<1>1. n \in Nat /\ all = bytes BY SubSeqFull
<1>2. /\ FreeSpace = Size - DataCount /\ FreeSpace \in Nat /\ DataCount \in Nat
      /\ DataCount = write - read /\ Size \in Nat /\ write \in Nat /\ read \in Nat
      /\ Len(Contents) = DataCount
  BY Numbers, ContentsAre DEF ContentsKnown
<1>3. TypeOK' /\ Queue!Write(bytes) BY Writes
<1>4. count' = n
  <2>1. count' = Queue!Least(n, Size - Len(Contents)) BY <1>3 DEF Queue!Write
  <2>2. n <= Size - Len(Contents) BY <1>2
  <2> QED BY <2>1, <2>2 DEF Queue!Least
<1>5. Contents' = Contents \o bytes
  <2>1. Contents' = Contents \o SubSeq(bytes, 1, count') BY <1>3 DEF Queue!Write
  <2> QED BY <1>1, <1>4, <2>1
<1>6. FreeSpace' = FreeSpace - n
  <2>1. write' = write + n /\ read' = read BY <1>4 DEF u80211_ringbuffer_write
  <2>2. FreeSpace' = Size - ((write + n) - read) BY <2>1 DEF FreeSpace, DataCount
  <2>3. Size - ((write + n) - read) = FreeSpace - n BY <1>1, <1>2
  <2> QED BY <2>2, <2>3
<1> QED BY <1>3, <1>5, <1>6

\* A read of as much as comes first gets that, and leaves the rest.
LEMMA WholeRead ==
  ASSUME TypeOK, NEW first \in Seq(Byte), NEW rest \in Seq(Byte), Contents = first \o rest,
         u80211_ringbuffer_read(Len(first))
  PROVE  TypeOK' /\ copied' = first /\ Contents' = rest
<1> DEFINE n == Len(first)
<1>1. n \in Nat /\ Len(rest) \in Nat /\ Len(Contents) = n + Len(rest) BY EndsOf
<1>2. TypeOK' /\ Queue!Read(n) BY <1>1, Reads
<1>3. count' = n
  <2>1. count' = Queue!Least(n, Len(Contents)) BY <1>2 DEF Queue!Read
  <2>2. n <= Len(Contents) BY <1>1
  <2> QED BY <2>1, <2>2 DEF Queue!Least
<1>4. copied' = SubSeq(Contents, 1, n) /\ Contents' = SubSeq(Contents, n + 1, Len(Contents))
  BY <1>2, <1>3 DEF Queue!Read
<1> QED BY <1>2, <1>4, EndsOf

\* Between the calls of a writer or of a reader there is what the next one needs.
Writing(rsn) == [doing |-> "write", rsn |-> rsn, size |-> 0]
Reading(size) == [doing |-> "read", rsn |-> <<>>, size |-> size]

CallsMatch ==
  \/ record = Between
  \/ \E rsn \in Rsns : record = Writing(rsn) /\ Len(rsn) <= FreeSpace
  \/ \E size \in Nat : record = Reading(size)

Records == TypeOK /\ pending \in Seq(Rsns) /\ CallsMatch /\ RecordsWhole

LEMMA HeaderIsWritten ==
  ASSUME Records, NEW rsn \in Rsns, ResponseWritesHeader(rsn)
  PROVE  Records'
<1>1. /\ record = Between /\ Len(Header(rsn)) + Len(rsn) <= FreeSpace
      /\ u80211_ringbuffer_write(Header(rsn)) /\ pending' = pending
      /\ record' = Writing(rsn)
  <2>1. FreeSpace \in Nat /\ Len(Header(rsn)) \in Nat /\ Len(rsn) \in Nat
    BY Numbers, RsnsAreStrings DEF Records
  <2> QED BY <2>1 DEF ResponseWritesHeader, HasRoom, Between, Writing
<1>2. /\ Len(rsn) \in Nat /\ Header(rsn) \in Seq(Byte) /\ Len(Header(rsn)) = 1
      /\ FreeSpace \in Nat
  BY Numbers, RsnsAreStrings DEF Records
<1>3. TypeOK' /\ Contents' = Contents \o Header(rsn) /\ FreeSpace' = FreeSpace - 1
  <2> DEFINE h == Header(rsn)
  <2>1. h \in Seq(Byte) /\ Len(h) = 1 /\ Len(h) <= FreeSpace BY <1>1, <1>2
  <2>2. u80211_ringbuffer_write(h) /\ TypeOK BY <1>1 DEF Records
  <2> HIDE DEF h
  <2>3. TypeOK' /\ Contents' = Contents \o h /\ FreeSpace' = FreeSpace - Len(h)
    BY <2>1, <2>2, WholeWrite
  <2> QED BY <2>1, <2>3 DEF h
<1>4. Contents = Written(pending) BY <1>1 DEF Records, RecordsWhole, Between
<1>5. Len(rsn) <= FreeSpace'
  <2>1. Len(rsn) <= FreeSpace - 1 BY <1>1, <1>2
  <2> QED BY <1>3, <2>1
<1>6. RecordsWhole'
  <2>1. record'.doing = "write" /\ record'.rsn = rsn BY <1>1 DEF Writing
  <2>2. Contents' = Written(pending') \o Header(record'.rsn) BY <1>1, <1>3, <1>4, <2>1
  <2> QED BY <2>1, <2>2 DEF RecordsWhole
<1>7. CallsMatch' BY <1>1, <1>5 DEF CallsMatch
<1>8. pending' \in Seq(Rsns) BY <1>1 DEF Records
<1> QED BY <1>3, <1>6, <1>7, <1>8 DEF Records

LEMMA RsnIsWritten ==
  ASSUME Records, ResponseWritesRsn
  PROVE  Records'
<1>1. PICK rsn \in Rsns : record = Writing(rsn) /\ Len(rsn) <= FreeSpace
  <2>1. record.doing = "write" BY DEF ResponseWritesRsn
  <2> QED BY <2>1 DEF Records, CallsMatch, Between, Reading
<1>2. /\ u80211_ringbuffer_write(rsn) /\ record' = Between
      /\ pending' = Append(pending, rsn)
  BY <1>1 DEF ResponseWritesRsn, Writing
<1>3. rsn \in Seq(Byte) /\ Header(rsn) \in Seq(Byte) BY RsnsAreStrings
<1>4. pending \in Seq(Rsns) /\ TypeOK BY DEF Records
<1>5. TypeOK' /\ Contents' = Contents \o rsn BY <1>1, <1>2, <1>3, <1>4, WholeWrite
<1>6. Contents = Written(pending) \o Header(rsn)
  <2>1. record.doing = "write" /\ record.rsn = rsn BY <1>1 DEF Writing
  <2> QED BY <2>1 DEF Records, RecordsWhole
<1>7. (Written(pending) \o Header(rsn)) \o rsn = Written(Append(pending, rsn))
  <2> DEFINE w == Written(pending)
             h == Header(rsn)
  <2>1. w \in Seq(Byte) /\ h \in Seq(Byte) BY <1>3, <1>4, WrittenIsString
  <2>2. Written(Append(pending, rsn)) = w \o (h \o rsn)
    BY <1>4, WrittenBehind DEF RecordOf
  <2> HIDE DEF w, h
  <2>3. (w \o h) \o rsn = w \o (h \o rsn) BY <1>3, <2>1, ConcatAssociative
  <2> QED BY <2>2, <2>3 DEF w, h
<1>8. RecordsWhole'
  <2>1. record'.doing = "nothing" BY <1>2 DEF Between
  <2>2. Contents' = Written(pending') BY <1>2, <1>5, <1>6, <1>7
  <2> QED BY <2>1, <2>2 DEF RecordsWhole
<1>9. CallsMatch' BY <1>2 DEF CallsMatch
<1>10. pending' \in Seq(Rsns) BY <1>2, <1>4
<1> QED BY <1>5, <1>8, <1>9, <1>10 DEF Records

LEMMA HeaderIsRead ==
  ASSUME Records, WorkReadsHeader
  PROVE  Records'
<1>1. TypeOK /\ pending \in Seq(Rsns) BY DEF Records
<1>2. Len(Header(<<>>)) = 1 BY DEF Header
<1>3. /\ record = Between /\ DataCount >= 1 /\ u80211_ringbuffer_read(1)
      /\ record' = Reading(copied'[1]) /\ pending' = pending
  BY <1>2 DEF WorkReadsHeader, Between, Reading
<1>4. Contents = Written(pending) /\ Len(Contents) = DataCount /\ DataCount \in Nat
  BY <1>1, <1>3, Numbers, ContentsAre DEF Records, RecordsWhole, Between, ContentsKnown
<1>5. pending # <<>>
  <2>1. Len(<<>>) = 0 OBVIOUS
  <2> SUFFICES ASSUME pending = <<>> PROVE FALSE OBVIOUS
  <2>2. Contents = <<>> BY <1>4, NothingWritten
  <2>3. DataCount = 0 BY <1>4, <2>1, <2>2
  <2> QED BY <1>3, <2>3
<1> DEFINE rsn == Head(pending)
           h == Header(rsn)
           rest == Written(Tail(pending))
           behind == rsn \o rest
<1>6. rsn \in Rsns /\ Tail(pending) \in Seq(Rsns) BY <1>1, <1>5
<1>7. /\ rsn \in Seq(Byte) /\ h \in Seq(Byte) /\ Len(h) = 1 /\ h[1] = Len(rsn)
      /\ Len(rsn) \in Nat
  BY <1>6, RsnsAreStrings
<1>8. rest \in Seq(Byte) BY <1>6, WrittenIsString
<1>9. Contents = (h \o rsn) \o rest BY <1>1, <1>4, <1>5, WrittenFirst DEF RecordOf
<1> HIDE DEF rsn, h, rest
<1>10. (h \o rsn) \o rest = h \o behind BY <1>7, <1>8, ConcatAssociative, SMTT(30)
<1>11. behind \in Seq(Byte) BY <1>7, <1>8, ConcatProperties
<1>12. Contents = h \o behind BY <1>9, <1>10
<1> HIDE DEF behind
<1>13. TypeOK' /\ copied' = h /\ Contents' = behind
  <2>1. u80211_ringbuffer_read(Len(h)) BY <1>3, <1>7
  <2> QED BY <1>1, <1>7, <1>11, <1>12, <2>1, WholeRead
<1>14. record' = Reading(Len(rsn)) BY <1>3, <1>7, <1>13
<1>15. RecordsWhole'
  <2>1. record'.doing = "read" /\ record'.size = Len(rsn) BY <1>14 DEF Reading
  <2>2. pending' # <<>> /\ record'.size = Len(Head(pending'))
    BY <1>3, <1>5, <2>1 DEF rsn
  <2>3. Contents' = Head(pending') \o Written(Tail(pending'))
    BY <1>3, <1>13 DEF behind, rsn, rest
  <2> QED BY <2>1, <2>2, <2>3 DEF RecordsWhole
<1>16. CallsMatch' BY <1>7, <1>14 DEF CallsMatch
<1>17. pending' \in Seq(Rsns) BY <1>1, <1>3
<1> QED BY <1>13, <1>15, <1>16, <1>17 DEF Records

LEMMA RsnIsRead ==
  ASSUME Records, WorkReadsRsn
  PROVE  Records'
<1>1. TypeOK /\ pending \in Seq(Rsns) BY DEF Records
<1>2. /\ record.doing = "read" /\ u80211_ringbuffer_read(record.size)
      /\ record' = Between /\ pending' = Tail(pending)
  BY DEF WorkReadsRsn
<1>3. /\ pending # <<>> /\ record.size = Len(Head(pending))
      /\ Contents = Head(pending) \o Written(Tail(pending))
  BY <1>2 DEF Records, RecordsWhole
<1> DEFINE rsn == Head(pending)
           rest == Written(Tail(pending))
<1>4. rsn \in Rsns /\ Tail(pending) \in Seq(Rsns) BY <1>1, <1>3
<1>5. rsn \in Seq(Byte) /\ rest \in Seq(Byte) BY <1>4, RsnsAreStrings, WrittenIsString
<1>6. u80211_ringbuffer_read(Len(rsn)) /\ Contents = rsn \o rest BY <1>2, <1>3
<1> HIDE DEF rsn, rest
<1>7. TypeOK' /\ Contents' = rest BY <1>1, <1>5, <1>6, WholeRead
<1>8. RecordsWhole'
  <2>1. record'.doing = "nothing" BY <1>2 DEF Between
  <2>2. Contents' = Written(pending') BY <1>2, <1>7 DEF rest
  <2> QED BY <2>1, <2>2 DEF RecordsWhole
<1>9. CallsMatch' BY <1>2 DEF CallsMatch
<1>10. pending' \in Seq(Rsns) BY <1>2, <1>4
<1> QED BY <1>7, <1>8, <1>9, <1>10 DEF Records

StructureVars == <<exercised, vars, recordVars, treeVars>>
StructureNext == BufferCall \/ RecordCall \/ TreeCall

LEMMA RecordsAtFirst == MCInit => Records
<1> SUFFICES ASSUME MCInit PROVE Records OBVIOUS
<1>1. Init /\ record = Between /\ pending = <<>> BY DEF MCInit, RecordsInit
<1>2. TypeOK /\ Contents = <<>> BY <1>1, MadeEmpty DEF Queue!Init
<1>3. pending \in Seq(Rsns) /\ CallsMatch BY <1>1 DEF CallsMatch
<1>4. Contents = Written(pending) BY <1>1, <1>2, NothingWritten
<1>5. record.doing = "nothing" BY <1>1 DEF Between
<1>6. RecordsWhole BY <1>4, <1>5 DEF RecordsWhole
<1> QED BY <1>2, <1>3, <1>6 DEF Records

LEMMA RecordsKept ==
  (exercised = "records" => Records) /\ [StructureNext]_StructureVars
    => (exercised = "records" => Records)'
<1> SUFFICES ASSUME exercised = "records" => Records, [StructureNext]_StructureVars,
                    exercised' = "records"
             PROVE  Records'
  OBVIOUS
<1>1. CASE RecordCall
  <2>1. Records BY <1>1 DEF RecordCall
  <2>2. ASSUME NEW rsn \in Rsns, ResponseWritesHeader(rsn) PROVE Records'
    BY <2>1, <2>2, HeaderIsWritten
  <2>3. CASE ResponseWritesRsn BY <2>1, <2>3, RsnIsWritten
  <2>4. CASE WorkReadsHeader BY <2>1, <2>4, HeaderIsRead
  <2>5. CASE WorkReadsRsn BY <2>1, <2>5, RsnIsRead
  <2> QED BY <1>1, <2>2, <2>3, <2>4, <2>5 DEF RecordCall, RecordsNext
<1>2. CASE BufferCall BY <1>2 DEF BufferCall
<1>3. CASE TreeCall BY <1>3 DEF TreeCall
<1>4. CASE UNCHANGED StructureVars
  <2>1. UNCHANGED <<exercised, data, write, read, count, copied, record, pending>>
    BY <1>4 DEF StructureVars, vars, recordVars
  <2>2. Records BY <2>1
  <2>3. TypeOK' BY <2>1, <2>2 DEF Records, TypeOK, DataCount
  <2>4. Contents' = Contents BY <2>1 DEF Contents, DataCount, OffsetOf
  <2>5. RecordsWhole' BY <2>1, <2>2, <2>4 DEF Records, RecordsWhole
  <2>6. CallsMatch' BY <2>1, <2>2 DEF Records, CallsMatch, FreeSpace, DataCount
  <2> QED BY <2>1, <2>2, <2>3, <2>5, <2>6 DEF Records
<1> QED BY <1>1, <1>2, <1>3, <1>4 DEF StructureNext

\* For a memory of any size and elements of any that a header can say, what receivers
\* of responses write with u80211_ringbuffer_write and the scan work reads back are
\* whole records, in order: a record that does not fit leaves no half of it behind.
THEOREM RecordsStayWhole == MCSpec => []RecordsAreWhole
<1>1. MCInit => (exercised = "records" => Records) BY RecordsAtFirst
<1>2. (exercised = "records" => Records) /\ [StructureNext]_StructureVars
        => (exercised = "records" => Records)'
  BY RecordsKept
<1>3. (exercised = "records" => Records) => RecordsAreWhole BY DEF Records, RecordsAreWhole
<1>4. MCSpec => MCInit /\ [][StructureNext]_StructureVars
  BY PTL DEF MCSpec, StructureNext, StructureVars
<1> QED BY <1>1, <1>2, <1>3, <1>4, PTL

-----------------------------------------------------------------------------
(***************************************************************************)
(* The tree.                                                               *)
(***************************************************************************)

\* Callers insert and remove nodes as they like: the tree is a sound one of the nodes
\* that were inserted and not removed since, whatever their number and their keys.
TreeServes == Sound(tree, inserted)

LEMMA TreeAtFirst == MCInit => TreeServes
<1> SUFFICES ASSUME MCInit PROVE TreeServes OBVIOUS
<1>1. tree = EmptyTree /\ inserted = {} BY DEF MCInit
<1> QED BY <1>1, EmptyIsSound DEF TreeServes

LEMMA TreeNext ==
  TreeServes /\ [BufferCall \/ RecordCall \/ TreeCall]_<<exercised, vars, recordVars, treeVars>>
    => TreeServes'
<1> SUFFICES ASSUME TreeServes,
                    [BufferCall \/ RecordCall \/ TreeCall]_<<exercised, vars, recordVars, treeVars>>
             PROVE  TreeServes'
  OBVIOUS
<1>1. CASE UNCHANGED treeVars BY <1>1 DEF TreeServes, treeVars
<1>2. ASSUME NEW node \in Nodes, InsertNode(node) PROVE TreeServes'
  <2>1. /\ tree' = u80211_rbtree_insert(tree, node) /\ inserted' = inserted \cup {node}
        /\ \A n \in inserted : Key[n] # Key[node]
    BY <1>2 DEF InsertNode
  <2>2. node \notin inserted BY <2>1
  <2>3. Sound(u80211_rbtree_insert(tree, node), inserted \cup {node})
    BY <2>1, <2>2, InsertIsSound DEF TreeServes
  <2> QED BY <2>1, <2>3 DEF TreeServes
<1>3. ASSUME NEW node \in Nodes, RemoveNode(node) PROVE TreeServes'
  <2>1. /\ tree' = u80211_rbtree_remove(tree, node) /\ inserted' = inserted \ {node}
        /\ node \in inserted
    BY <1>3 DEF RemoveNode
  <2>2. Sound(u80211_rbtree_remove(tree, node), inserted \ {node})
    BY <2>1, RemoveIsSound DEF TreeServes
  <2> QED BY <2>1, <2>2 DEF TreeServes
<1> QED BY <1>1, <1>2, <1>3 DEF BufferCall, RecordCall, TreeCall

\* After any insertions and removals the tree has the nodes it should have, is a
\* search tree linked both ways, keeps the rules of the colours, and is walked and
\* searched as it should be: src/rbtree.c, for any nodes, keys and calls.
THEOREM TreeStaysSound == MCSpec => []TreeIsSound
<1>1. MCInit => TreeServes BY TreeAtFirst
<1>2. TreeServes /\ [BufferCall \/ RecordCall \/ TreeCall]_<<exercised, vars, recordVars, treeVars>>
        => TreeServes'
  BY TreeNext
<1>3. TreeServes => TreeIsSound BY SoundTreeServes DEF TreeServes, TreeIsSound
<1> QED BY <1>1, <1>2, <1>3, PTL DEF MCSpec

=============================================================================
