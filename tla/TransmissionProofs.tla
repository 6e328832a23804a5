------------------------- MODULE TransmissionProofs -------------------------
(***************************************************************************)
(* Proofs about Transmission: for any users, sizes, keys, rates and        *)
(* elements, a descriptor stays inside of what the driver allocated, is    *)
(* consumed once, and is written to the last byte.                         *)
(***************************************************************************)
EXTENDS Transmission, TLAPS, SequenceTheorems, FiniteSetTheorems, WellFoundedInduction

-----------------------------------------------------------------------------
(***************************************************************************)
(* Strings of bytes, whatever these are, and those that were all written.  *)
(***************************************************************************)

IsString(s, n) == n \in Nat /\ s = [i \in 1 .. n |-> s[i]]
Wrote(s, n) == IsString(s, n) /\ \A i \in 1 .. n : s[i] # Unwritten

LEMMA StringsAreSequences ==
  ASSUME NEW s, NEW n, IsString(s, n), NEW S, \A i \in 1 .. n : s[i] \in S
  PROVE  s \in Seq(S) /\ Len(s) = n
<1>1. n \in Nat /\ s = [i \in 1 .. n |-> s[i]] BY DEF IsString
<1>2. s \in [1 .. n -> S]
  <2> DEFINE f == [i \in 1 .. n |-> s[i]]
  <2>1. f \in [1 .. n -> S] OBVIOUS
  <2> QED BY <1>1, <2>1
<1> QED BY <1>1, <1>2

LEMMA LengthOfString ==
  ASSUME NEW s, NEW n, IsString(s, n)
  PROVE  Len(s) = n /\ n \in Nat
<1> DEFINE S == {s[i] : i \in 1 .. n}
<1>1. \A i \in 1 .. n : s[i] \in S OBVIOUS
<1> HIDE DEF S
<1>2. Len(s) = n BY <1>1, StringsAreSequences
<1> QED BY <1>2 DEF IsString

\* Any sequence is a string.
LEMMA SequencesAreStrings ==
  ASSUME NEW S, NEW s \in Seq(S)
  PROVE  IsString(s, Len(s))
<1>1. Len(s) \in Nat /\ s \in [1 .. Len(s) -> S] OBVIOUS
<1>2. s = [i \in 1 .. Len(s) |-> s[i]] BY <1>1
<1> QED BY <1>1, <1>2 DEF IsString

\* One string behind another.
BothIn(st, s, m, t, n) ==
  /\ m + n \in Nat /\ IsString(st, m + n) /\ Len(st) = m + n
  /\ \A i \in 1 .. m : st[i] = s[i]
  /\ \A i \in 1 .. n : st[i + m] = t[i]

LEMMA Joined ==
  ASSUME NEW s, NEW m, NEW t, NEW n, IsString(s, m), IsString(t, n)
  PROVE  BothIn(s \o t, s, m, t, n)
<1> DEFINE S == {s[i] : i \in 1 .. m} \cup {t[i] : i \in 1 .. n}
           st == s \o t
<1>1. m \in Nat /\ n \in Nat BY DEF IsString
<1>2. s \in Seq(S) /\ Len(s) = m
  <2>1. \A i \in 1 .. m : s[i] \in S OBVIOUS
  <2> HIDE DEF S
  <2> QED BY <2>1, StringsAreSequences
<1>3. t \in Seq(S) /\ Len(t) = n
  <2>1. \A i \in 1 .. n : t[i] \in S OBVIOUS
  <2> HIDE DEF S
  <2> QED BY <2>1, StringsAreSequences
<1> HIDE DEF S
<1>4. /\ st \in Seq(S) /\ Len(st) = m + n
      /\ \A i \in 1 .. m + n : st[i] = IF i <= m THEN s[i] ELSE t[i - m]
  BY <1>2, <1>3, ConcatProperties
<1> HIDE DEF st
<1>5. IsString(st, m + n) BY <1>4, SequencesAreStrings
<1>6. \A i \in 1 .. m : st[i] = s[i] BY <1>1, <1>4
<1>7. ASSUME NEW i \in 1 .. n PROVE st[i + m] = t[i]
  <2> DEFINE j == i + m
  <2>1. j \in 1 .. m + n /\ ~(j <= m) /\ j - m = i BY <1>1
  <2> HIDE DEF j
  <2>2. st[j] = t[i] BY <1>4, <2>1
  <2> QED BY <2>2 DEF j
<1>8. BothIn(st, s, m, t, n)
  <2>1. Len(st) = m + n /\ m + n \in Nat BY <1>1, <1>4
  <2> QED BY <1>5, <1>6, <1>7, <2>1 DEF BothIn
<1> QED BY <1>8 DEF st

LEMMA WrittenJoined ==
  ASSUME NEW s, NEW m, NEW t, NEW n, Wrote(s, m), Wrote(t, n)
  PROVE  Wrote(s \o t, m + n) /\ Len(s \o t) = m + n /\ m + n \in Nat
<1> DEFINE st == s \o t
<1>1. /\ m \in Nat /\ n \in Nat /\ IsString(st, m + n)
      /\ Len(st) = m + n /\ m + n \in Nat
      /\ \A i \in 1 .. m : st[i] = s[i]
      /\ \A i \in 1 .. n : st[i + m] = t[i]
  <2>1. IsString(s, m) /\ IsString(t, n) BY DEF Wrote
  <2>2. m \in Nat /\ n \in Nat BY <2>1 DEF IsString
  <2>3. BothIn(st, s, m, t, n) BY <2>1, Joined
  <2> HIDE DEF st
  <2> QED BY <2>2, <2>3 DEF BothIn
<1> HIDE DEF st
<1>2. ASSUME NEW i \in 1 .. m + n PROVE st[i] # Unwritten
  <2>1. CASE i <= m
    <3>1. i \in 1 .. m BY <1>1, <2>1
    <3>2. st[i] = s[i] BY <1>1, <3>1
    <3> QED BY <3>1, <3>2 DEF Wrote
  <2>2. CASE ~(i <= m)
    <3> DEFINE j == i - m
    <3>1. j \in 1 .. n /\ j + m = i BY <1>1, <2>2
    <3> HIDE DEF j
    <3>2. st[i] = t[j] BY <1>1, <3>1
    <3> QED BY <3>1, <3>2 DEF Wrote
  <2> QED BY <2>1, <2>2
<1> QED BY <1>1, <1>2 DEF Wrote, st

\* A part of a string.
LEMMA PartsOfStrings ==
  ASSUME NEW s, NEW n, IsString(s, n), NEW l \in Nat \ {0}, NEW u \in 0 .. n, l <= u + 1
  PROVE  /\ u - l + 1 \in Nat /\ IsString(SubSeq(s, l, u), u - l + 1)
         /\ \A i \in 1 .. u - l + 1 : SubSeq(s, l, u)[i] = s[i + (l - 1)]
<1> DEFINE S == {s[i] : i \in 1 .. n}
           p == SubSeq(s, l, u)
           k == u - l + 1
<1>1. n \in Nat /\ u \in Nat /\ k \in Nat BY DEF IsString
<1>2. s \in Seq(S) /\ Len(s) = n
  <2>1. \A i \in 1 .. n : s[i] \in S OBVIOUS
  <2> HIDE DEF S
  <2> QED BY <2>1, StringsAreSequences
<1> HIDE DEF S
<1>3. \A i \in l .. u : i \in 1 .. n BY <1>1
<1>4. \A i \in l .. u : s[i] \in S BY <1>1, <1>2, <1>3
<1>5. /\ p \in Seq(S) /\ Len(p) = IF l <= u THEN u - l + 1 ELSE 0
      /\ \A i \in 1 .. u - l + 1 : p[i] = s[l + i - 1]
  BY <1>1, <1>4, SubSeqProperties
<1>6. Len(p) = k BY <1>1, <1>5
<1>7. IsString(p, k) BY <1>5, <1>6, SequencesAreStrings
<1>8. ASSUME NEW i \in 1 .. k PROVE p[i] = s[i + (l - 1)]
  <2>1. l + i - 1 = i + (l - 1) BY <1>1
  <2> QED BY <1>5, <2>1
<1> QED BY <1>1, <1>7, <1>8

LEMMA WrittenParts ==
  ASSUME NEW s, NEW n, Wrote(s, n), NEW l \in Nat \ {0}, NEW u \in 0 .. n, l <= u + 1
  PROVE  u - l + 1 \in Nat /\ Wrote(SubSeq(s, l, u), u - l + 1)
<1> DEFINE p == SubSeq(s, l, u)
           k == u - l + 1
<1>1. /\ IsString(p, k) /\ k \in Nat /\ n \in Nat
      /\ \A i \in 1 .. k : p[i] = s[i + (l - 1)]
  <2>1. IsString(s, n) BY DEF Wrote
  <2>2. n \in Nat BY <2>1 DEF IsString
  <2> QED BY <2>1, <2>2, PartsOfStrings
<1>2. ASSUME NEW i \in 1 .. k PROVE p[i] # Unwritten
  <2> DEFINE j == i + (l - 1)
  <2>1. j \in 1 .. n BY <1>1
  <2>2. p[i] = s[j] BY <1>1
  <2> HIDE DEF j
  <2> QED BY <2>1, <2>2 DEF Wrote
<1> QED BY <1>1, <1>2 DEF Wrote

\* Bytes that are named for what they belong to and their place are none that nobody wrote.
LEMMA PlacedBytes ==
  ASSUME NEW what, NEW i \in Nat \ {0}
  PROVE  <<what, i>> # Unwritten
BY DEF Unwritten

LEMMA BytesWritten ==
  ASSUME NEW what, NEW n \in Nat
  PROVE  Wrote(Bytes(what, n), n)
<1>1. \A i \in 1 .. n : i \in Nat \ {0} OBVIOUS
<1>2. \A i \in 1 .. n : Bytes(what, n)[i] = <<what, i>> BY DEF Bytes
<1>3. Bytes(what, n) = [i \in 1 .. n |-> Bytes(what, n)[i]] BY DEF Bytes
<1> QED BY <1>1, <1>2, <1>3, PlacedBytes DEF Wrote, IsString

\* Strings that are the same at every place are the same.
LEMMA SameStrings ==
  ASSUME NEW s, NEW t, NEW n, IsString(s, n), IsString(t, n), \A i \in 1 .. n : s[i] = t[i]
  PROVE  s = t
<1>1. s = [i \in 1 .. n |-> s[i]] /\ t = [i \in 1 .. n |-> t[i]] BY DEF IsString
<1>2. [i \in 1 .. n |-> s[i]] = [i \in 1 .. n |-> t[i]] OBVIOUS
<1> QED BY <1>1, <1>2

\* What is left of two strings without the first.
LEMMA SecondOf ==
  ASSUME NEW s, NEW m, NEW t, NEW n, IsString(s, m), IsString(t, n)
  PROVE  SubSeq(s \o t, m + 1, Len(s \o t)) = t
<1> DEFINE st == s \o t
           l == m + 1
           u == m + n
           p == SubSeq(st, l, u)
<1>1. /\ m \in Nat /\ n \in Nat /\ m + n \in Nat /\ IsString(st, u) /\ Len(st) = u
      /\ \A i \in 1 .. n : st[i + m] = t[i]
  <2>1. m \in Nat /\ n \in Nat BY DEF IsString
  <2>2. BothIn(st, s, m, t, n) BY Joined
  <2> HIDE DEF st
  <2> QED BY <2>1, <2>2 DEF BothIn
<1> HIDE DEF st
<1>2. l \in Nat \ {0} /\ u \in 0 .. u /\ l <= u + 1 /\ u - l + 1 = n /\ l - 1 = m BY <1>1
<1> HIDE DEF l, u
<1>3. IsString(p, n) /\ \A i \in 1 .. n : p[i] = st[i + m]
  BY <1>1, <1>2, PartsOfStrings
<1>4. p = t
  <2>1. \A i \in 1 .. n : p[i] = t[i] BY <1>1, <1>3
  <2>2. IsString(t, n) OBVIOUS
  <2> HIDE DEF p
  <2> QED BY <1>3, <2>1, <2>2, SameStrings
<1> QED BY <1>1, <1>4 DEF st, l, u

-----------------------------------------------------------------------------
(***************************************************************************)
(* Descriptors.                                                            *)
(***************************************************************************)

\* A descriptor of so many allocated bytes that start somewhere in them, of a size, and
\* used from an offset on.
Descriptor(allocated, start, size, offset, bytes) ==
  [allocated |-> allocated, start |-> start, size |-> size, current_offset |-> offset,
   bytes |-> bytes]

Changed(d, new, bytes) == [d EXCEPT !.current_offset = new, !.bytes = bytes]

LEMMA DescriptorChanged ==
  ASSUME NEW allocated, NEW start, NEW size, NEW offset, NEW data, NEW new, NEW bytes
  PROVE  Changed(Descriptor(allocated, start, size, offset, data), new, bytes)
           = Descriptor(allocated, start, size, new, bytes)
<1> DEFINE d == Descriptor(allocated, start, size, offset, data)
           e == [d EXCEPT !.current_offset = new]
<1>1. e = Descriptor(allocated, start, size, new, data) BY DEF Descriptor
<1>2. [Descriptor(allocated, start, size, new, data) EXCEPT !.bytes = bytes]
        = Descriptor(allocated, start, size, new, bytes)
  BY DEF Descriptor
<1>3. [d EXCEPT !.current_offset = new, !.bytes = bytes] = [e EXCEPT !.bytes = bytes]
  <2> HIDE DEF d
  <2> QED OBVIOUS
<1> HIDE DEF e, d
<1>4. [e EXCEPT !.bytes = bytes] = Descriptor(allocated, start, size, new, bytes)
  BY <1>1, <1>2
<1> QED BY <1>3, <1>4 DEF d, Changed

LEMMA SpaceAllocated ==
  ASSUME NEW allocated, NEW start, NEW size, NEW offset, NEW data, NEW n
  PROVE  u80211_descriptor_allocate_space(Descriptor(allocated, start, size, offset, data), n)
           = Descriptor(allocated, start, size, offset - n, [i \in 1 .. n |-> Unwritten] \o data)
<1> DEFINE d == Descriptor(allocated, start, size, offset, data)
           space == [i \in 1 .. n |-> Unwritten]
<1>1. d.current_offset = offset /\ d.bytes = data BY DEF Descriptor
<1> HIDE DEF d
<1>2. u80211_descriptor_allocate_space(d, n)
        = [d EXCEPT !.current_offset = d.current_offset - n, !.bytes = space \o d.bytes]
  BY DEF u80211_descriptor_allocate_space
<1> DEFINE new == offset - n
           bytes == space \o data
<1>3. u80211_descriptor_allocate_space(d, n)
        = Changed(d, new, bytes)
  BY <1>1, <1>2 DEF Changed
<1> HIDE DEF new, bytes
<1>4. Changed(Descriptor(allocated, start, size, offset, data), new, bytes)
        = Descriptor(allocated, start, size, new, bytes)
  BY DescriptorChanged
<1> QED BY <1>3, <1>4 DEF new, bytes, d

\* A descriptor of that kind, all of whose bytes were written.
Holds(d, allocated, start, size, offset) ==
  /\ size \in Nat /\ offset \in Nat /\ offset <= size
  /\ d = Descriptor(allocated, start, size, offset, d.bytes)
  /\ Wrote(d.bytes, size - offset)

LEMMA HoldsIf ==
  ASSUME NEW allocated, NEW start, NEW size \in Nat, NEW offset \in Nat, offset <= size,
         NEW bytes, Wrote(bytes, size - offset)
  PROVE  Holds(Descriptor(allocated, start, size, offset, bytes), allocated, start, size, offset)
<1>1. Descriptor(allocated, start, size, offset, bytes).bytes = bytes BY DEF Descriptor
<1> QED BY <1>1 DEF Holds

\* What is put before the data is written there.
LEMMA PutsBefore ==
  ASSUME NEW allocated, NEW start, NEW size, NEW offset, NEW d,
         Holds(d, allocated, start, size, offset),
         NEW bytes, NEW n, Wrote(bytes, n), n <= offset
  PROVE  Holds(Prepended(bytes, d), allocated, start, size, offset - n)
<1> DEFINE space == [i \in 1 .. n |-> Unwritten]
           data == d.bytes
           rest == size - offset
           new == offset - n
           wider == u80211_descriptor_allocate_space(d, n)
           all == bytes \o data
<1>1. /\ size \in Nat /\ offset \in Nat /\ offset <= size /\ n \in Nat
      /\ d = Descriptor(allocated, start, size, offset, data)
      /\ Wrote(data, rest) /\ IsString(data, rest) /\ IsString(bytes, n)
  BY DEF Holds, Wrote, IsString
<1> HIDE DEF data
<1>2. Len(bytes) = n BY <1>1, LengthOfString
<1>3. IsString(space, n) BY <1>1 DEF IsString
<1>4. rest \in Nat /\ new \in Nat /\ new <= size /\ size - new = n + rest BY <1>1
<1> HIDE DEF rest, space, new
<1>5. SubSeq(space \o data, n + 1, Len(space \o data)) = data
  BY <1>1, <1>3, SecondOf
<1>6. wider = Descriptor(allocated, start, size, new, space \o data)
  <2>1. u80211_descriptor_allocate_space(Descriptor(allocated, start, size, offset, data), n)
          = Descriptor(allocated, start, size, offset - n,
                       [i \in 1 .. n |-> Unwritten] \o data)
    BY SpaceAllocated
  <2> QED BY <1>1, <2>1 DEF space, new
<1>7. Prepended(bytes, d) = Put(bytes, wider) BY <1>2 DEF Prepended
<1> HIDE DEF wider
<1>8. Put(bytes, wider) = [wider EXCEPT !.bytes = all]
  <2>1. Put(bytes, wider)
          = [wider EXCEPT !.bytes = bytes \o SubSeq(wider.bytes, n + 1, Len(wider.bytes))]
    BY <1>2 DEF Put
  <2>2. wider.bytes = space \o data BY <1>6 DEF Descriptor
  <2> QED BY <1>5, <2>1, <2>2
<1>9. Wrote(all, size - new)
  <2>1. Wrote(bytes, n) /\ Wrote(data, rest) BY <1>1
  <2>2. Wrote(bytes \o data, n + rest) BY ONLY <2>1, WrittenJoined
  <2> QED BY <1>4, <2>2
<1> HIDE DEF all
<1>10. [wider EXCEPT !.bytes = all] = Descriptor(allocated, start, size, new, all)
  BY <1>6 DEF Descriptor
<1>11. Holds(Descriptor(allocated, start, size, new, all), allocated, start, size, new)
  BY <1>1, <1>4, <1>9, HoldsIf
<1> QED BY <1>7, <1>8, <1>10, <1>11 DEF new

\* What a driver allocates holds nothing, and whatever is put there.
LEMMA AllocatedHoldsNothing ==
  ASSUME NEW size \in Nat
  PROVE  Holds(AllocatedByDriver(size), size, 0, size, size)
<1> DEFINE nothing == <<>>
<1>1. Wrote(nothing, 0) BY DEF Wrote, IsString
<1>2. size - size = 0 OBVIOUS
<1>3. AllocatedByDriver(size) = Descriptor(size, 0, size, size, nothing)
  BY DEF AllocatedByDriver, Descriptor
<1> HIDE DEF nothing
<1>4. Wrote(nothing, size - size) BY <1>1, <1>2
<1> QED BY <1>3, <1>4, HoldsIf

\* When all of the data is put where it was allocated in advance.
LEMMA PutsAll ==
  ASSUME NEW size \in Nat, NEW bytes, NEW n, Wrote(bytes, n), n <= size
  PROVE  Holds(Put(bytes, u80211_descriptor_allocate_space(AllocatedByDriver(size), n)),
               size, 0, size, size - n)
<1>1. Len(bytes) = n BY LengthOfString DEF Wrote
<1>2. Holds(Prepended(bytes, AllocatedByDriver(size)), size, 0, size, size - n)
  BY AllocatedHoldsNothing, PutsBefore
<1> QED BY <1>1, <1>2 DEF Prepended

\* The same bytes, seen from another start and to another size.
LEMMA Shifts ==
  ASSUME NEW allocated, NEW start, NEW size, NEW offset, NEW d,
         Holds(d, allocated, start, size, offset),
         NEW from, NEW room \in Nat, NEW used \in Nat, used <= room, room - used = size - offset
  PROVE  Holds([d EXCEPT !.start = from, !.size = room, !.current_offset = used],
               allocated, from, room, used)
<1> DEFINE bytes == d.bytes
           e == [d EXCEPT !.start = from]
           f == [e EXCEPT !.size = room]
           g == [f EXCEPT !.current_offset = used]
<1>1. d = Descriptor(allocated, start, size, offset, bytes) /\ Wrote(bytes, room - used)
  BY DEF Holds
<1>2. [d EXCEPT !.start = from, !.size = room, !.current_offset = used] = g OBVIOUS
<1> HIDE DEF bytes
<1>3. e = Descriptor(allocated, from, size, offset, bytes) BY <1>1 DEF Descriptor
<1> HIDE DEF e
<1>4. f = Descriptor(allocated, from, room, offset, bytes) BY <1>3 DEF Descriptor
<1> HIDE DEF f
<1>5. g = Descriptor(allocated, from, room, used, bytes) BY <1>4 DEF Descriptor
<1> HIDE DEF g
<1> QED BY <1>1, <1>2, <1>5, HoldsIf

LEMMA ReadsHeld ==
  ASSUME NEW allocated, NEW start, NEW size, NEW offset, NEW d,
         Holds(d, allocated, start, size, offset)
  PROVE  /\ d.allocated = allocated /\ d.start = start /\ d.size = size
         /\ d.current_offset = offset /\ Wrote(d.bytes, size - offset)
         /\ size \in Nat /\ offset \in Nat /\ offset <= size /\ size - offset \in Nat
         /\ Len(d.bytes) = size - offset
<1> DEFINE bytes == d.bytes
           rest == size - offset
<1>1. /\ size \in Nat /\ offset \in Nat /\ offset <= size /\ rest \in Nat
      /\ d = Descriptor(allocated, start, size, offset, bytes) /\ Wrote(bytes, rest)
  BY DEF Holds
<1> HIDE DEF bytes, rest
<1>2. /\ d.allocated = allocated /\ d.start = start /\ d.size = size
      /\ d.current_offset = offset
  BY <1>1 DEF Descriptor
<1>3. Len(bytes) = rest BY <1>1, LengthOfString DEF Wrote
<1> QED BY <1>1, <1>2, <1>3 DEF bytes, rest

\* What the driver allocates, without the room for the headers and the code.
LEMMA Trims ==
  ASSUME NEW m \in Nat
  PROVE  Holds(Trimmed(AllocatedByDriver(m + TX_BUFFER_HEADROOM + TX_BUFFER_TAILROOM)),
               m + 72, 64, m, m)
<1> DEFINE all == m + 72
           d == AllocatedByDriver(all)
<1>1. all \in Nat /\ all = m + TX_BUFFER_HEADROOM + TX_BUFFER_TAILROOM
  BY DEF TX_BUFFER_HEADROOM, TX_BUFFER_TAILROOM, TKIP_MIC_SIZE
<1>2. m - m = all - all BY <1>1
<1>3. Holds(d, all, 0, all, all) BY <1>1, AllocatedHoldsNothing
<1> DEFINE trimmed == [d EXCEPT !.start = 64, !.size = m, !.current_offset = m]
<1>4. Trimmed(d) = trimmed
  <2>1. d.start = 0 /\ d.size = all /\ d.current_offset = all BY <1>3, ReadsHeld
  <2>2. d.start + 64 = 64 /\ d.size - (64 + 8) = m /\ d.current_offset - (64 + 8) = m
    BY <2>1, <1>1 DEF all
  <2> HIDE DEF d
  <2> QED BY <2>2 DEF Trimmed, TX_BUFFER_HEADROOM, TX_BUFFER_TAILROOM, TKIP_MIC_SIZE
<1> HIDE DEF d, all
<1>5. Holds(trimmed, all, 64, m, m)
  <2> DEFINE from == 64
  <2>1. m <= m /\ Holds(d, all, 0, all, all) BY <1>3
  <2> HIDE DEF from
  <2>2. Holds([d EXCEPT !.start = from, !.size = m, !.current_offset = m], all, from, m, m)
    BY <1>2, <2>1, Shifts
  <2> QED BY <2>2 DEF from
<1> QED BY <1>1, <1>4, <1>5 DEF all, d

\* The headroom is given back.
LEMMA Untrims ==
  ASSUME NEW allocated, NEW size, NEW offset, NEW d, Holds(d, allocated, 64, size, offset)
  PROVE  Holds(Untrimmed(d), allocated, 0, size + 64, offset + 64)
<1> DEFINE room == size + 64
           used == offset + 64
           shifted == [d EXCEPT !.start = 0, !.size = room, !.current_offset = used]
<1>1. d.start = 64 /\ d.size = size /\ d.current_offset = offset /\ size \in Nat /\ offset \in Nat
  BY ReadsHeld
<1>2. room \in Nat /\ used \in Nat /\ used <= room /\ room - used = size - offset
  <2>1. offset <= size BY DEF Holds
  <2> QED BY <1>1, <2>1
<1>3. Untrimmed(d) = shifted BY <1>1 DEF Untrimmed, TX_BUFFER_HEADROOM
<1> HIDE DEF room, used
<1>4. Holds(shifted, allocated, 0, room, used) BY <1>2, Shifts
<1> QED BY <1>3, <1>4 DEF room, used

\* The ethernet header is skipped.
LEMMA SkipsEthernetHeader ==
  ASSUME NEW allocated, NEW start, NEW size, NEW offset, NEW d,
         Holds(d, allocated, start, size, offset), offset + 14 <= size
  PROVE  Holds(WithoutEthernetHeader(d), allocated, start, size, offset + 14)
<1> DEFINE bytes == d.bytes
           rest == size - offset
           used == offset + 14
           l == 15
           part == SubSeq(bytes, l, rest)
<1>1. /\ d.current_offset = offset /\ Len(bytes) = rest /\ Wrote(bytes, rest)
      /\ size \in Nat /\ offset \in Nat
      /\ d = Descriptor(allocated, start, size, offset, bytes)
  <2>1. d = Descriptor(allocated, start, size, offset, d.bytes) BY DEF Holds
  <2>2. /\ d.current_offset = offset /\ Len(d.bytes) = size - offset
        /\ Wrote(d.bytes, size - offset) /\ size \in Nat /\ offset \in Nat
    BY ReadsHeld
  <2> QED BY <2>1, <2>2
<1>2. /\ used \in Nat /\ used <= size /\ l \in Nat \ {0} /\ rest \in 0 .. rest /\ l <= rest + 1
      /\ rest - l + 1 = size - used
  BY <1>1
<1>3. WithoutEthernetHeader(d) = Changed(d, used, part)
  BY <1>1 DEF WithoutEthernetHeader, Changed, ETHERNET_HEADER_SIZE
<1> HIDE DEF bytes, rest, used, l, part
<1>4. Wrote(part, size - used) BY <1>1, <1>2, WrittenParts DEF part
<1>5. Changed(d, used, part) = Descriptor(allocated, start, size, used, part)
  BY <1>1, DescriptorChanged
<1> QED BY <1>1, <1>2, <1>3, <1>4, <1>5, HoldsIf DEF used

\* The code of TKIP comes after the data.
LEMMA AddsMic ==
  ASSUME NEW allocated, NEW start, NEW size, NEW offset, NEW d,
         Holds(d, allocated, start, size, offset), NEW mic, Wrote(mic, 8)
  PROVE  Holds(WithMic(d, mic), allocated, start, size + 8, offset)
<1> DEFINE bytes == d.bytes
           rest == size - offset
           all == bytes \o mic
           room == size + 8
           e == [d EXCEPT !.bytes = all]
<1>1. /\ d.size = size /\ Wrote(bytes, rest)
      /\ size \in Nat /\ offset \in Nat /\ offset <= size
      /\ d = Descriptor(allocated, start, size, offset, bytes)
  <2>1. /\ d = Descriptor(allocated, start, size, offset, d.bytes)
        /\ Wrote(d.bytes, size - offset) /\ size \in Nat /\ offset \in Nat /\ offset <= size
    BY DEF Holds
  <2>2. d.size = size BY ReadsHeld
  <2> QED BY <2>1, <2>2
<1>2. room \in Nat /\ offset <= room /\ rest + 8 = room - offset BY <1>1
<1>3. WithMic(d, mic) = [e EXCEPT !.size = room] BY <1>1 DEF WithMic, TKIP_MIC_SIZE
<1> HIDE DEF bytes, rest, room
<1>4. Wrote(all, room - offset) BY <1>1, <1>2, WrittenJoined
<1> HIDE DEF all
<1>5. e = Descriptor(allocated, start, size, offset, all) BY <1>1 DEF Descriptor
<1> HIDE DEF e
<1>6. [e EXCEPT !.size = room] = Descriptor(allocated, start, room, offset, all)
  BY <1>5 DEF Descriptor
<1> QED BY <1>1, <1>2, <1>3, <1>4, <1>6, HoldsIf DEF room

\* A descriptor that holds its bytes is as it should be, when its end is in what was
\* allocated.
LEMMA HeldIsOK ==
  ASSUME NEW allocated \in Nat, NEW start \in Nat, NEW size, NEW offset, NEW d,
         Holds(d, allocated, start, size, offset), start + size <= allocated
  PROVE  DescriptorOK(d) /\ Unwritten \notin ToSet(d.bytes)
<1> DEFINE bytes == d.bytes
           rest == size - offset
<1>1. /\ d.allocated = allocated /\ d.start = start /\ d.size = size
      /\ d.current_offset = offset /\ Len(bytes) = rest /\ Wrote(bytes, rest)
      /\ size \in Nat /\ offset \in Nat /\ offset <= size
  BY ReadsHeld
<1>2. DescriptorOK(d) BY <1>1 DEF DescriptorOK, FrameSize
<1> HIDE DEF bytes, rest
<1>3. Unwritten \notin ToSet(bytes)
  <2>1. DOMAIN bytes = 1 .. rest BY <1>1 DEF Wrote, IsString
  <2>2. \A i \in 1 .. rest : bytes[i] # Unwritten BY <1>1 DEF Wrote
  <2> QED BY <2>1, <2>2 DEF ToSet
<1> QED BY <1>2, <1>3 DEF bytes

-----------------------------------------------------------------------------
(***************************************************************************)
(* What is put into them.                                                  *)
(***************************************************************************)

LEMMA WrittenBehind ==
  ASSUME NEW s, NEW m, NEW t, NEW n, Wrote(s, m), Wrote(t, n), NEW k, k = m + n
  PROVE  Wrote(s \o t, k)
BY WrittenJoined

LEMMA NothingWritten == Wrote(<<>>, 0)
BY DEF Wrote, IsString

LEMMA WindowWritten ==
  ASSUME NEW packet, NEW m, Wrote(packet, m), NEW start \in Nat, NEW size \in Nat
  PROVE  Wrote(Window(packet, start, size), size)
<1> DEFINE window == Window(packet, start, size)
<1>1. window = [i \in 1 .. size |-> window[i]] BY DEF Window
<1>2. DOMAIN packet = 1 .. m BY DEF Wrote, IsString
<1>3. \A j \in 1 .. m : packet[j] # Unwritten BY DEF Wrote
<1>4. Outside # Unwritten BY DEF Outside, Unwritten
<1>5. ASSUME NEW i \in 1 .. size PROVE window[i] # Unwritten
  <2> DEFINE j == start + i
  <2>1. window[i] = IF j \in DOMAIN packet THEN packet[j] ELSE Outside BY DEF Window
  <2> HIDE DEF j, window
  <2> QED BY <1>2, <1>3, <1>4, <2>1
<1> HIDE DEF window
<1>6. Wrote(window, size) BY <1>1, <1>5 DEF Wrote, IsString
<1> QED BY <1>6 DEF window

LEMMA HeaderWritten ==
  ASSUME NEW header, ~HasFourAddresses(header.control)
  PROVE  Wrote(u80211_serialize_header(header), 24)
<1> DEFINE address(i) == Bytes(header.addresses[i], 6)
           a == Bytes(header.control, 2)
           b == Bytes([duration |-> 0], 2)
           c == address(1)
           d == address(2)
           e == address(3)
           f == Bytes([sequence_control |-> header.sequence_control], 2)
<1>1. Wrote(a, 2) /\ Wrote(b, 2) /\ Wrote(f, 2) BY BytesWritten
<1>2. Wrote(c, 6) /\ Wrote(d, 6) /\ Wrote(e, 6) BY BytesWritten
<1>3. u80211_serialize_header(header) = a \o b \o c \o d \o e \o f \o <<>>
  BY DEF u80211_serialize_header
<1> HIDE DEF a, b, c, d, e, f, address
<1> DEFINE sums == /\ 4 = 2 + 2 /\ 10 = 4 + 6 /\ 16 = 10 + 6 /\ 22 = 16 + 6
                   /\ 24 = 22 + 2 /\ 24 = 24 + 0
<1>0. sums OBVIOUS
<1>4. Wrote(a \o b, 4) BY <1>1, <1>0, WrittenBehind
<1>5. Wrote(a \o b \o c, 10) BY <1>2, <1>4, <1>0, WrittenBehind
<1>6. Wrote(a \o b \o c \o d, 16) BY <1>2, <1>5, <1>0, WrittenBehind
<1>7. Wrote(a \o b \o c \o d \o e, 22) BY <1>2, <1>6, <1>0, WrittenBehind
<1>8. Wrote(a \o b \o c \o d \o e \o f, 24) BY <1>1, <1>7, <1>0, WrittenBehind
<1>9. Wrote(a \o b \o c \o d \o e \o f \o <<>>, 24) BY <1>8, NothingWritten, <1>0, WrittenBehind
<1> QED BY <1>3, <1>9

LEMMA EthernetFrameWritten ==
  ASSUME NEW destination, NEW size \in Nat
  PROVE  Wrote(EthernetFrame(destination, size), size)
<1> DEFINE a == Bytes(destination, 6)
           b == Bytes(Own, 6)
           c == Bytes([ethertype |-> size], 2)
           d == Bytes([payload |-> size], size)
           all == a \o b \o c \o d
<1>1. Wrote(a, 6) /\ Wrote(b, 6) /\ Wrote(c, 2) /\ Wrote(d, size) BY BytesWritten
<1>2. EthernetFrame(destination, size) = SubSeq(all, 1, size) BY DEF EthernetFrame
<1> HIDE DEF a, b, c, d
<1>0. 12 = 6 + 6 /\ 14 = 12 + 2 OBVIOUS
<1>3. Wrote(a \o b, 12) BY <1>1, <1>0, WrittenBehind
<1>4. Wrote(a \o b \o c, 14) BY <1>1, <1>3, <1>0, WrittenBehind
<1>5. Wrote(all, 14 + size) BY <1>1, <1>4, <1>0, WrittenBehind
<1> HIDE DEF all
<1> DEFINE l == 1
           n == 14 + size
<1>6. l \in Nat \ {0} /\ size \in 0 .. n /\ l <= size + 1 /\ size - l + 1 = size OBVIOUS
<1>7. Wrote(all, n) BY <1>5
<1> HIDE DEF l, n
<1>8. Wrote(SubSeq(all, l, size), size) BY <1>6, <1>7, WrittenParts
<1> QED BY <1>2, <1>8 DEF l

LEMMA SequenceByte ==
  ASSUME NEW number, NEW i \in 1 .. 6
  PROVE  SequenceBytes(number)[i] = <<[sequence |-> number], i>>
BY DEF SequenceBytes, Bytes

\* Eight bytes that were each written.
LEMMA EightWritten ==
  ASSUME NEW a, NEW b, NEW c, NEW d, NEW e, NEW f, NEW g, NEW h,
         a # Unwritten, b # Unwritten, c # Unwritten, d # Unwritten,
         e # Unwritten, f # Unwritten, g # Unwritten, h # Unwritten
  PROVE  Wrote(<<a, b, c, d, e, f, g, h>>, 8)
<1> DEFINE s == <<a, b, c, d, e, f, g, h>>
<1>1. s = [i \in 1 .. 8 |-> s[i]] OBVIOUS
<1>2. ASSUME NEW i \in 1 .. 8 PROVE s[i] # Unwritten
  <2>1. i = 1 \/ i = 2 \/ i = 3 \/ i = 4 \/ i = 5 \/ i = 6 \/ i = 7 \/ i = 8 OBVIOUS
  <2> QED BY <2>1
<1> HIDE DEF s
<1>3. Wrote(s, 8) BY <1>1, <1>2 DEF Wrote, IsString
<1> QED BY <1>3 DEF s

LEMMA CipherHeadersWritten ==
  ASSUME NEW index, NEW number
  PROVE  /\ Wrote(CcmpHeader(index, SequenceBytes(number)), 8)
         /\ Wrote(TkipHeader(index, SequenceBytes(number)), 8)
<1> DEFINE s == SequenceBytes(number)
           zero == <<[zero |-> 0], 1>>
<1>1. /\ s[1] # Unwritten /\ s[2] # Unwritten /\ s[3] # Unwritten
      /\ s[4] # Unwritten /\ s[5] # Unwritten /\ s[6] # Unwritten
  <2>1. ASSUME NEW i \in 1 .. 6 PROVE s[i] # Unwritten
    <3>1. i \in Nat \ {0} OBVIOUS
    <3>2. s[i] = <<[sequence |-> number], i>> BY SequenceByte
    <3> QED BY <3>1, <3>2, PlacedBytes
  <2> HIDE DEF s
  <2> QED BY <2>1
<1>2. KeyByte(index) # Unwritten /\ Seed(s[2]) # Unwritten /\ zero # Unwritten
  <2>1. 1 \in Nat \ {0} OBVIOUS
  <2> QED BY <2>1, PlacedBytes DEF KeyByte, Seed
<1>3. CcmpHeader(index, s) = <<s[1], s[2], zero, KeyByte(index), s[3], s[4], s[5], s[6]>>
  BY DEF CcmpHeader
<1>4. TkipHeader(index, s)
        = <<s[2], Seed(s[2]), s[1], KeyByte(index), s[3], s[4], s[5], s[6]>>
  BY DEF TkipHeader
<1> HIDE DEF zero, s
<1>5. Wrote(<<s[1], s[2], zero, KeyByte(index), s[3], s[4], s[5], s[6]>>, 8)
  BY <1>1, <1>2, EightWritten
<1>6. Wrote(<<s[2], Seed(s[2]), s[1], KeyByte(index), s[3], s[4], s[5], s[6]>>, 8)
  BY <1>1, <1>2, EightWritten
<1> QED BY <1>3, <1>4, <1>5, <1>6 DEF s

LEMMA FieldsWritten ==
  ASSUME NEW names, NEW n \in Nat, Len(names) = n
  PROVE  Wrote(Fields(names), 2 * n)
<1> DEFINE fields == Fields(names)
           m == 2 * n
<1>1. m \in Nat OBVIOUS
<1>2. fields = [i \in 1 .. m |-> <<[field |-> names[(i + 1) \div 2]], IF i % 2 = 1 THEN 1 ELSE 2>>]
  BY DEF Fields
<1> HIDE DEF m, fields
<1>3. fields = [i \in 1 .. m |-> fields[i]] BY <1>2
<1>4. ASSUME NEW i \in 1 .. m PROVE fields[i] # Unwritten
  <2> DEFINE what == [field |-> names[(i + 1) \div 2]]
             place == IF i % 2 = 1 THEN 1 ELSE 2
  <2>1. fields[i] = <<what, place>> BY <1>2
  <2>2. place \in Nat \ {0} OBVIOUS
  <2> HIDE DEF what, place
  <2> QED BY <2>1, <2>2, PlacedBytes
<1> QED BY <1>1, <1>3, <1>4 DEF Wrote, IsString, m, fields

LEMMA NumbersWritten ==
  ASSUME NEW numbers, NEW n, IsString(numbers, n)
  PROVE  Wrote(AsBytes(numbers), n)
<1> DEFINE bytes == AsBytes(numbers)
<1>1. n \in Nat /\ DOMAIN numbers = 1 .. n BY DEF IsString
<1>2. bytes = [i \in 1 .. n |-> <<[byte |-> numbers[i]], i>>] BY <1>1 DEF AsBytes
<1> HIDE DEF bytes
<1>3. bytes = [i \in 1 .. n |-> bytes[i]] BY <1>2
<1>4. ASSUME NEW i \in 1 .. n PROVE bytes[i] # Unwritten
  <2> DEFINE what == [byte |-> numbers[i]]
  <2>1. bytes[i] = <<what, i>> BY <1>2
  <2>2. i \in Nat \ {0} OBVIOUS
  <2> HIDE DEF what
  <2> QED BY <2>1, <2>2, PlacedBytes
<1> QED BY <1>1, <1>3, <1>4 DEF Wrote, IsString, bytes

-----------------------------------------------------------------------------
(***************************************************************************)
(* What the requests say of rates, and how long that is.                   *)
(***************************************************************************)

\* If a step leads from each number to the next, all are reached.
LEMMA UpToLength ==
  ASSUME NEW n \in Nat, NEW Reached \in SUBSET (0 .. n), 0 \in Reached,
         \A i \in Reached : i # n => i + 1 \in Reached
  PROVE  n \in Reached
<1> DEFINE left == {i \in 0 .. n : i \notin Reached}
<1> SUFFICES ASSUME n \notin Reached PROVE FALSE OBVIOUS
<1>1. left \subseteq Nat /\ left # {} OBVIOUS
<1> HIDE DEF left
<1>2. PICK i \in left : \A j \in left : <<j, i>> \notin OpToRel(<, Nat)
  BY <1>1, NatLessThanWellFounded, WFMin, Zenon
<1>3. i \in 0 .. n /\ i \notin Reached /\ i # 0 BY <1>2 DEF left
<1>4. i - 1 \in 0 .. n /\ i - 1 + 1 = i /\ i - 1 < i /\ i - 1 # n BY <1>3
<1>5. i - 1 \notin left
  <2>1. i - 1 \in Nat /\ i \in Nat BY <1>3, <1>4
  <2>2. <<i - 1, i>> \in OpToRel(<, Nat) BY <1>4, <2>1 DEF OpToRel
  <2> QED BY <1>2, <2>2
<1>6. i - 1 \in Reached BY <1>4, <1>5 DEF left
<1> QED BY <1>3, <1>4, <1>6

\* The rates below each number up to n, in order.
RatesBelow(bitmap, n, f) ==
  /\ f \in [0 .. n -> Seq(Nat)] /\ f[0] = <<>>
  /\ \A i \in 1 .. n : f[i] = IF i - 1 \in bitmap THEN Append(f[i - 1], i - 1) ELSE f[i - 1]

LEMMA RatesBelowExist ==
  ASSUME NEW bitmap, NEW last \in Nat
  PROVE  \E f : RatesBelow(bitmap, last, f)
<1> DEFINE parts == {n \in 0 .. last : \E f : RatesBelow(bitmap, n, f)}
<1>1. 0 \in parts
  <2> DEFINE nothing == <<>>
             f == [i \in 0 .. 0 |-> nothing]
  <2>1. nothing \in Seq(Nat) OBVIOUS
  <2> HIDE DEF nothing
  <2>2. f \in [0 .. 0 -> Seq(Nat)] /\ f[0] = nothing BY <2>1
  <2>3. RatesBelow(bitmap, 0, f) BY <2>2 DEF RatesBelow, nothing
  <2> QED BY <2>3
<1>2. ASSUME NEW n \in parts, n # last PROVE n + 1 \in parts
  <2>1. PICK f : RatesBelow(bitmap, n, f) OBVIOUS
  <2>2. n \in Nat /\ n + 1 \in 0 .. last BY <1>2
  <2> DEFINE x == IF n \in bitmap THEN Append(f[n], n) ELSE f[n]
             g == [i \in 0 .. n + 1 |-> IF i = n + 1 THEN x ELSE f[i]]
  <2>3. x \in Seq(Nat)
    <3>1. f[n] \in Seq(Nat) BY <2>1, <2>2 DEF RatesBelow
    <3> QED BY <2>2, <3>1
  <2>4. g \in [0 .. n + 1 -> Seq(Nat)] /\ g[0] = <<>>
    <3> HIDE DEF x
    <3>1. ASSUME NEW i \in 0 .. n + 1 PROVE (IF i = n + 1 THEN x ELSE f[i]) \in Seq(Nat)
      BY <2>1, <2>2, <2>3 DEF RatesBelow
    <3>2. g[0] = f[0] BY <2>2
    <3>3. f[0] = <<>> BY <2>1 DEF RatesBelow
    <3> QED BY <3>1, <3>2, <3>3
  <2>5. ASSUME NEW i \in 1 .. n + 1
        PROVE  g[i] = IF i - 1 \in bitmap THEN Append(g[i - 1], i - 1) ELSE g[i - 1]
    <3>1. CASE i = n + 1
      <4>1. g[i] = x /\ g[i - 1] = f[n] /\ i - 1 = n BY <2>2, <3>1
      <4> HIDE DEF g
      <4> QED BY <4>1
    <3>2. CASE i # n + 1
      <4>1. i \in 1 .. n /\ g[i] = f[i] /\ g[i - 1] = f[i - 1] BY <2>2, <3>2
      <4> HIDE DEF g
      <4> QED BY <2>1, <4>1 DEF RatesBelow
    <3> QED BY <3>1, <3>2
  <2> HIDE DEF g
  <2>6. RatesBelow(bitmap, n + 1, g) BY <2>4, <2>5 DEF RatesBelow
  <2> QED BY <2>2, <2>6
<1> HIDE DEF parts
<1>3. parts \subseteq 0 .. last BY DEF parts
<1>4. last \in parts BY <1>1, <1>2, <1>3, UpToLength
<1> QED BY <1>4 DEF parts

\* As many as there are in the bitmap.
LEMMA RatesBelowCounted ==
  ASSUME NEW bitmap \in SUBSET Nat, NEW last \in Nat, NEW f, RatesBelow(bitmap, last, f)
  PROVE  Len(f[last]) = Cardinality({rate \in bitmap : rate < last})
<1> DEFINE below(n) == {rate \in bitmap : rate < n}
           Counted(n) == IsFiniteSet(below(n)) /\ Cardinality(below(n)) = Len(f[n])
           counted == {n \in 0 .. last : Counted(n)}
<1>1. 0 \in counted
  <2>1. below(0) = {}
    <3>1. \A rate \in bitmap : ~(rate < 0)
      <4>1. \A rate \in bitmap : rate \in Nat OBVIOUS
      <4> QED BY <4>1
    <3> QED BY <3>1
  <2>2. Len(f[0]) = 0 BY DEF RatesBelow
  <2> QED BY <2>1, <2>2, FS_EmptySet
<1>2. ASSUME NEW n \in counted, n # last PROVE n + 1 \in counted
  <2> DEFINE S == below(n)
  <2>1. n \in Nat /\ n + 1 \in 1 .. last /\ n + 1 - 1 = n BY <1>2
  <2>2. IsFiniteSet(S) /\ Cardinality(S) = Len(f[n]) /\ n \notin S BY <2>1
  <2>3. f[n] \in Seq(Nat) BY <2>1 DEF RatesBelow
  <2>4. f[n + 1] = IF n \in bitmap THEN Append(f[n], n) ELSE f[n] BY <2>1 DEF RatesBelow
  <2>5. below(n + 1) = IF n \in bitmap THEN S \cup {n} ELSE S
    <3>1. ASSUME NEW rate \in bitmap
          PROVE  rate < n + 1 <=> rate < n \/ rate = n
      <4>1. rate \in Nat OBVIOUS
      <4> QED BY <2>1, <4>1
    <3>2. below(n + 1) = {rate \in bitmap : rate < n \/ rate = n} BY <3>1
    <3> QED BY <3>2
  <2> HIDE DEF S, below
  <2>6. CASE n \in bitmap
    <3>1. IsFiniteSet(S \cup {n}) /\ Cardinality(S \cup {n}) = Cardinality(S) + 1
      BY <2>2, FS_AddElement
    <3>2. Len(f[n + 1]) = Len(f[n]) + 1 BY <2>1, <2>3, <2>4, <2>6
    <3>3. Counted(n + 1) BY <2>2, <2>5, <2>6, <3>1, <3>2
    <3> QED BY <2>1, <3>3
  <2>7. CASE n \notin bitmap
    <3>1. Counted(n + 1) BY <2>2, <2>4, <2>5, <2>7
    <3> QED BY <2>1, <3>1
  <2> QED BY <2>6, <2>7
<1> HIDE DEF counted
<1>3. counted \subseteq 0 .. last BY DEF counted
<1>4. last \in counted BY <1>1, <1>2, <1>3, UpToLength
<1> QED BY <1>4 DEF counted

\* As many rates are written as were counted.
LEMMA RatesCounted ==
  ASSUME NEW bitmap \in SUBSET Nat
  PROVE  Written(bitmap) \in Seq(Nat) /\ Len(Written(bitmap)) = count_rates(bitmap)
<1> DEFINE last == MAX_RATE_VALUE + 1
<1>1. last \in Nat /\ last = 126 BY DEF MAX_RATE_VALUE
<1> HIDE DEF last
<1>2. PICK f : RatesBelow(bitmap, last, f) BY <1>1, RatesBelowExist
<1>3. f = [rate \in 0 .. last |->
             IF rate = 0 THEN <<>>
             ELSE IF rate - 1 \in bitmap THEN Append(f[rate - 1], rate - 1) ELSE f[rate - 1]]
  <2>1. f = [rate \in 0 .. last |-> f[rate]] BY <1>2 DEF RatesBelow
  <2>2. ASSUME NEW rate \in 0 .. last
        PROVE  f[rate] = IF rate = 0 THEN <<>>
                         ELSE IF rate - 1 \in bitmap THEN Append(f[rate - 1], rate - 1)
                         ELSE f[rate - 1]
    <3>1. CASE rate = 0 BY <1>2, <3>1 DEF RatesBelow
    <3>2. CASE rate # 0
      <4>1. rate \in 1 .. last BY <1>1, <3>2
      <4> QED BY <1>2, <3>2, <4>1 DEF RatesBelow
    <3> QED BY <3>1, <3>2
  <2> QED BY <2>1, <2>2
<1> DEFINE g[rate \in 0 .. last] ==
             IF rate = 0 THEN <<>>
             ELSE IF rate - 1 \in bitmap THEN Append(g[rate - 1], rate - 1) ELSE g[rate - 1]
<1>4. g = [rate \in 0 .. last |->
             IF rate = 0 THEN <<>>
             ELSE IF rate - 1 \in bitmap THEN Append(g[rate - 1], rate - 1) ELSE g[rate - 1]]
  <2> SUFFICES \E ff : ff = [rate \in 0 .. last |->
                 IF rate = 0 THEN <<>>
                 ELSE IF rate - 1 \in bitmap THEN Append(ff[rate - 1], rate - 1)
                 ELSE ff[rate - 1]]
    OBVIOUS
  <2> QED BY <1>3
<1>5. Written(bitmap) = g[last] BY DEF Written, last
<1> HIDE DEF g
<1>6. ASSUME NEW rate \in 0 .. last
      PROVE  g[rate] = IF rate = 0 THEN <<>>
                       ELSE IF rate - 1 \in bitmap THEN Append(g[rate - 1], rate - 1)
                       ELSE g[rate - 1]
  <2> DEFINE value(r) == IF r = 0 THEN <<>>
                         ELSE IF r - 1 \in bitmap THEN Append(g[r - 1], r - 1) ELSE g[r - 1]
  <2>1. g = [r \in 0 .. last |-> value(r)] BY <1>4
  <2> SUFFICES g[rate] = value(rate) OBVIOUS
  <2> HIDE DEF value
  <2> QED BY <2>1
<1> DEFINE same == {n \in 0 .. last : g[n] = f[n]}
<1>7. 0 \in same
  <2>1. g[0] = <<>> BY <1>1, <1>6
  <2>2. f[0] = <<>> BY <1>2 DEF RatesBelow
  <2> QED BY <1>1, <2>1, <2>2
<1>8. ASSUME NEW n \in same, n # last PROVE n + 1 \in same
  <2>1. n + 1 \in 1 .. last /\ n + 1 - 1 = n BY <1>1, <1>8
  <2>2. g[n + 1] = IF n \in bitmap THEN Append(g[n], n) ELSE g[n]
    <3> DEFINE rate == n + 1
    <3>1. rate \in 0 .. last /\ rate # 0 /\ rate - 1 = n BY <1>1, <2>1
    <3> HIDE DEF rate
    <3>2. g[rate] = IF n \in bitmap THEN Append(g[n], n) ELSE g[n] BY <1>6, <3>1
    <3> QED BY <3>2 DEF rate
  <2>3. f[n + 1] = IF n \in bitmap THEN Append(f[n], n) ELSE f[n] BY <1>2, <2>1 DEF RatesBelow
  <2> QED BY <2>1, <2>2, <2>3
<1> HIDE DEF same
<1>9. same \subseteq 0 .. last BY DEF same
<1>10. last \in same BY <1>1, <1>7, <1>8, <1>9, UpToLength
<1>11. g[last] = f[last] BY <1>10 DEF same
<1>12. f[last] \in Seq(Nat)
  <2>1. f \in [0 .. last -> Seq(Nat)] BY <1>2 DEF RatesBelow
  <2>2. last \in 0 .. last BY <1>1
  <2> QED BY ONLY <2>1, <2>2
<1>13. {rate \in bitmap : rate < last} = {rate \in bitmap : rate <= MAX_RATE_VALUE}
  <2>1. ASSUME NEW rate \in bitmap PROVE rate < last <=> rate <= MAX_RATE_VALUE
    <3>1. rate \in Nat OBVIOUS
    <3> QED BY <1>1, <3>1 DEF MAX_RATE_VALUE
  <2> QED BY <2>1
<1>14. Len(f[last]) = Cardinality({rate \in bitmap : rate < last})
  BY <1>1, <1>2, RatesBelowCounted
<1> QED BY <1>5, <1>11, <1>12, <1>13, <1>14 DEF count_rates

LEMMA StringBehind ==
  ASSUME NEW s, NEW m, NEW t, NEW n, IsString(s, m), IsString(t, n), NEW k, k = m + n
  PROVE  IsString(s \o t, k)
BY Joined DEF BothIn

LEMMA PartIsString ==
  ASSUME NEW s, NEW n, IsString(s, n), NEW l \in Nat \ {0}, NEW u \in 0 .. n, l <= u + 1,
         NEW k, k = u - l + 1
  PROVE  IsString(SubSeq(s, l, u), k)
BY PartsOfStrings

LEMMA PairIsString ==
  ASSUME NEW a, NEW b
  PROVE  IsString(<<a, b>>, 2)
BY DEF IsString

LEMMA NothingIsString == IsString(<<>>, 0)
BY DEF IsString

\* The elements of the rates are as long as was reckoned.
LEMMA RateElementsSize ==
  ASSUME NEW bitmap \in SUBSET Nat
  PROVE  IsString(serialize_rate_information_elements(bitmap, count_rates(bitmap)),
                  rate_information_elements_size(count_rates(bitmap)))
<1> DEFINE n == count_rates(bitmap)
           w == Written(bitmap)
           supported == Smaller(n, 8)
           first == SubSeq(w, 1, supported)
           second == SubSeq(w, supported + 1, n)
           head == <<IE_ID_RATES, supported>>
           extended == ExtendedHeader(n - supported)
           size == IF n > 8 THEN 2 ELSE 0
<1>1. w \in Seq(Nat) /\ Len(w) = n BY RatesCounted
<1>2. IsString(w, n) /\ n \in Nat BY <1>1, SequencesAreStrings
<1>3. serialize_rate_information_elements(bitmap, n) = head \o first \o extended \o second
  BY DEF serialize_rate_information_elements
<1> HIDE DEF n, w
<1>4. supported \in 0 .. n /\ (n > 8 => supported = 8) /\ (~(n > 8) => supported = n)
  BY <1>2 DEF Smaller
<1>5. IsString(head, 2) BY PairIsString
<1>6. IsString(extended, size)
  <2>1. CASE n > 8
    <3>1. ~(n - supported = 0) /\ size = 2 BY <1>2, <1>4, <2>1
    <3>2. extended = <<IE_ID_RATES_EXT, n - supported>> BY <3>1 DEF ExtendedHeader
    <3> QED BY <3>1, <3>2, PairIsString
  <2>2. CASE ~(n > 8)
    <3>1. n - supported = 0 /\ size = 0 BY <1>2, <1>4, <2>2
    <3>2. extended = <<>> BY <3>1 DEF ExtendedHeader
    <3> QED BY <3>1, <3>2, NothingIsString
  <2> QED BY <2>1, <2>2
<1> DEFINE a == 2 + supported
           b == 2 + supported + size
           c == 2 + supported + size + (n - supported)
           rest == n - supported
           l == supported + 1
           one == 1
<1>7. /\ one \in Nat \ {0} /\ one <= supported + 1 /\ supported = supported - one + 1
      /\ l \in Nat \ {0} /\ l <= n + 1 /\ rest = n - l + 1 /\ n \in 0 .. n
      /\ b = a + size /\ c = b + rest /\ a = 2 + supported
  BY <1>2, <1>4
<1>8. c = rate_information_elements_size(n)
  <2>1. CASE n > 8
    <3>1. c = 2 + 8 + 2 + (n - 8) BY <1>2, <1>4, <2>1
    <3>2. rate_information_elements_size(n) = 2 + 8 + (2 + n - 8)
      BY <1>2, <1>4, <2>1 DEF rate_information_elements_size
    <3> QED BY <1>2, <3>1, <3>2
  <2>2. CASE ~(n > 8)
    <3>1. c = 2 + n + 0 + 0 BY <1>2, <1>4, <2>2
    <3>2. rate_information_elements_size(n) = 2 + n + 0
      BY <1>2, <1>4, <2>2 DEF rate_information_elements_size
    <3> QED BY <1>2, <3>1, <3>2
  <2> QED BY <2>1, <2>2
<1> HIDE DEF a, b, c, l, one, size, rest, head, extended
<1>9. IsString(SubSeq(w, one, supported), supported) BY <1>2, <1>4, <1>7, PartIsString
<1>10. IsString(first, supported) BY <1>9 DEF one
<1>11. IsString(SubSeq(w, l, n), rest) BY <1>2, <1>7, PartIsString
<1>12. IsString(second, rest) BY <1>11 DEF l
<1> HIDE DEF first, second, supported
<1>13. IsString(head \o first, a) BY <1>5, <1>7, <1>10, StringBehind
<1>14. IsString(head \o first \o extended, b) BY <1>6, <1>7, <1>13, StringBehind
<1>15. IsString(head \o first \o extended \o second, c) BY <1>7, <1>12, <1>14, StringBehind
<1> QED BY <1>3, <1>8, <1>15 DEF n

\* There is a first zero in the name of an access point, or none.
LEMMA NameExists ==
  ASSUME NEW ssid \in Seq(Nat)
  PROVE  \E size \in 0 .. Len(ssid) :
           /\ \A i \in 1 .. size : ssid[i] # 0
           /\ size < Len(ssid) => ssid[size + 1] = 0
<1> DEFINE last == Len(ssid)
           Ends(size, n) == (\A i \in 1 .. size : ssid[i] # 0) /\ (size < n => ssid[size + 1] = 0)
           parts == {n \in 0 .. last : \E size \in 0 .. n : Ends(size, n)}
<1>1. last \in Nat OBVIOUS
<1> HIDE DEF last
<1>2. 0 \in parts
  <2>1. 0 \in 0 .. 0 /\ Ends(0, 0) OBVIOUS
  <2> QED BY <1>1, <2>1
<1>3. ASSUME NEW n \in parts, n # last PROVE n + 1 \in parts
  <2>1. PICK size \in 0 .. n : Ends(size, n) OBVIOUS
  <2>2. n \in Nat /\ n + 1 \in 0 .. last BY <1>1, <1>3
  <2>3. CASE size < n \/ ssid[n + 1] = 0
    <3>1. size = n \/ size < n BY <2>2
    <3>2. Ends(size, n + 1) BY <2>1, <2>2, <2>3, <3>1
    <3>3. size \in 0 .. n + 1 BY <2>2
    <3> QED BY <2>2, <3>2, <3>3
  <2>4. CASE ~(size < n) /\ ssid[n + 1] # 0
    <3>1. size = n BY <2>2, <2>4
    <3>2. ASSUME NEW i \in 1 .. n + 1 PROVE ssid[i] # 0
      <4>1. i = n + 1 \/ i \in 1 .. size BY <2>2, <3>1
      <4> QED BY <2>1, <2>4, <4>1
    <3>3. ~(n + 1 < n + 1) /\ n + 1 \in 0 .. n + 1 BY <2>2
    <3>4. Ends(n + 1, n + 1) BY <3>2, <3>3
    <3> QED BY <2>2, <3>3, <3>4
  <2> QED BY <2>3, <2>4
<1> HIDE DEF parts
<1>4. parts \subseteq 0 .. last BY DEF parts
<1>5. last \in parts BY <1>1, <1>2, <1>3, <1>4, UpToLength
<1> QED BY <1>5 DEF parts, last

LEMMA NameIsString ==
  ASSUME NEW ssid \in Seq(Nat)
  PROVE  IsString(Name(ssid), Len(Name(ssid)))
<1> DEFINE names == {SubSeq(ssid, 1, size) : size \in 0 .. Len(ssid)}
           IsName(name) == /\ 0 \notin ToSet(name)
                           /\ Len(name) < Len(ssid) => ssid[Len(name) + 1] = 0
           one == 1
           n == Len(ssid)
<1>1. IsString(ssid, n) /\ n \in Nat BY SequencesAreStrings
<1>2. ASSUME NEW size \in 0 .. n
      PROVE  /\ IsString(SubSeq(ssid, 1, size), size) /\ Len(SubSeq(ssid, 1, size)) = size
             /\ \A i \in 1 .. size : SubSeq(ssid, 1, size)[i] = ssid[i]
  <2> HIDE DEF n
  <2> DEFINE part == SubSeq(ssid, one, size)
  <2>1. one \in Nat \ {0} /\ one <= size + 1 /\ size - one + 1 = size /\ size \in Nat
    BY <1>1
  <2>2. one - 1 = 0 OBVIOUS
  <2> HIDE DEF one
  <2>3. IsString(part, size) /\ \A i \in 1 .. size : part[i] = ssid[i + (one - 1)]
    BY <1>1, <2>1, PartsOfStrings
  <2>4. Len(part) = size BY <2>3, LengthOfString
  <2>5. \A i \in 1 .. size : i + (one - 1) = i BY <2>1, <2>2
  <2>6. \A i \in 1 .. size : part[i] = ssid[i] BY <2>3, <2>5
  <2> QED BY <2>3, <2>4, <2>6 DEF one
<1>3. \E name \in names : IsName(name)
  <2>1. PICK size \in 0 .. n :
          /\ \A i \in 1 .. size : ssid[i] # 0
          /\ size < n => ssid[size + 1] = 0
    BY NameExists
  <2> DEFINE name == SubSeq(ssid, 1, size)
  <2>2. /\ IsString(name, size) /\ Len(name) = size /\ name \in names
        /\ \A i \in 1 .. size : name[i] = ssid[i]
    BY <1>2
  <2>3. DOMAIN name = 1 .. size BY <2>2 DEF IsString
  <2> HIDE DEF name
  <2>4. \A i \in 1 .. size : name[i] # 0
    <3>1. \A i \in 1 .. size : name[i] = ssid[i] BY <2>2
    <3>2. \A i \in 1 .. size : ssid[i] # 0 BY <2>1
    <3> QED BY <3>1, <3>2
  <2>5. 0 \notin ToSet(name) BY <2>3, <2>4 DEF ToSet
  <2>6. Len(name) < n => ssid[Len(name) + 1] = 0 BY <2>1, <2>2
  <2>7. IsName(name) BY <2>5, <2>6
  <2> HIDE DEF IsName, names
  <2> QED BY <2>2, <2>7
<1>4. Name(ssid) = CHOOSE name \in names : IsName(name) BY DEF Name
<1> HIDE DEF IsName
<1>5. Name(ssid) \in names BY <1>3, <1>4
<1>6. PICK size \in 0 .. n : Name(ssid) = SubSeq(ssid, 1, size) BY <1>5
<1> HIDE DEF names
<1> QED BY <1>2, <1>6

LEMMA SixIsString ==
  ASSUME NEW a, NEW b, NEW c, NEW d, NEW e, NEW f
  PROVE  IsString(<<a, b, c, d, e, f>>, 6)
BY DEF IsString

\* The data of a probe request has the size that was reckoned.
LEMMA ProbeRequestSize ==
  ASSUME NEW bitmap \in SUBSET Nat
  PROVE  IsString(probe_request_data(bitmap), probe_request_data_size(bitmap))
<1> DEFINE n == rate_information_elements_size(count_rates(bitmap))
           rates == serialize_rate_information_elements(bitmap, count_rates(bitmap))
           k == probe_request_data_size(bitmap)
           head == <<IE_ID_SSID, 0>>
<1>1. IsString(rates, n) BY RateElementsSize
<1>2. k = 2 + n /\ probe_request_data(bitmap) = head \o rates
  BY DEF probe_request_data, probe_request_data_size
<1>3. IsString(head, 2) BY PairIsString
<1> HIDE DEF n, rates, k, head
<1>4. IsString(head \o rates, k) BY <1>1, <1>2, <1>3, StringBehind
<1> QED BY <1>2, <1>4 DEF k

\* And so has that of an association request.
LEMMA AssociationRequestSize ==
  ASSUME NEW ssid \in Seq(Nat), NEW bitmap \in SUBSET Nat, NEW elements \in Seq(Nat)
  PROVE  IsString(association_request_data(ssid, bitmap, elements),
                  association_request_data_size(ssid, bitmap, elements))
<1> DEFINE n == rate_information_elements_size(count_rates(bitmap))
           rates == serialize_rate_information_elements(bitmap, count_rates(bitmap))
           k == association_request_data_size(ssid, bitmap, elements)
           name == Name(ssid)
           m == Len(name)
           l == Len(elements)
           head == <<33, 4, 10, 0, IE_ID_SSID, m>>
           a == 6 + m
           b == 6 + m + n
<1>1. IsString(rates, n) BY RateElementsSize
<1>2. IsString(name, m) BY NameIsString
<1>3. IsString(elements, l) BY SequencesAreStrings
<1>4. m \in Nat /\ n \in Nat /\ l \in Nat BY <1>1, <1>2, <1>3 DEF IsString
<1>5. IsString(head, 6) BY SixIsString
<1>6. association_request_data(ssid, bitmap, elements) = head \o name \o rates \o elements
  BY DEF association_request_data
<1>7. k = 4 + 2 + m + n + l
  BY DEF association_request_data_size, ASSOCIATION_REQUEST_FIXED_SIZE
<1> HIDE DEF n, rates, k, head, name, m, l
<1>8. a = 6 + m /\ b = a + n /\ k = b + l BY <1>4, <1>7
<1> HIDE DEF a, b
<1>9. IsString(head \o name, a) BY <1>2, <1>5, <1>8, StringBehind
<1>10. IsString(head \o name \o rates, b) BY <1>1, <1>8, <1>9, StringBehind
<1>11. IsString(head \o name \o rates \o elements, k) BY <1>3, <1>8, <1>10, StringBehind
<1> QED BY <1>6, <1>11 DEF k

\* A request has as much data as it says.
WellSized(request) == request.size \in Nat /\ Wrote(request.data, request.size)

LEMMA RequestsAreWellSized == \A request \in Requests : WellSized(request)
<1>1. WellSized(u80211_send_authentication)
  <2> DEFINE names == <<"auth_algorithm", "auth_transaction", "status">>
  <2>1. Len(names) = 3 OBVIOUS
  <2>2. /\ u80211_send_authentication.size = 6
        /\ u80211_send_authentication.data = Fields(names)
    BY DEF u80211_send_authentication
  <2> HIDE DEF names
  <2>3. Wrote(Fields(names), 2 * 3) BY <2>1, FieldsWritten
  <2>4. 2 * 3 = 6 OBVIOUS
  <2> QED BY <2>2, <2>3, <2>4 DEF WellSized
<1>2. WellSized(u80211_send_deauthentication)
  <2> DEFINE names == <<"reason">>
  <2>1. Len(names) = 1 OBVIOUS
  <2>2. /\ u80211_send_deauthentication.size = 2
        /\ u80211_send_deauthentication.data = Fields(names)
    BY DEF u80211_send_deauthentication
  <2> HIDE DEF names
  <2>3. Wrote(Fields(names), 2 * 1) BY <2>1, FieldsWritten
  <2>4. 2 * 1 = 2 OBVIOUS
  <2> QED BY <2>2, <2>3, <2>4 DEF WellSized
<1>3. ASSUME NEW rates \in RateSets PROVE WellSized(u80211_send_probe_request(rates))
  <2> DEFINE n == probe_request_data_size(rates)
             numbers == probe_request_data(rates)
  <2>1. rates \in SUBSET Nat BY TransmissionAssumption
  <2>2. IsString(numbers, n) BY <2>1, ProbeRequestSize
  <2>3. /\ u80211_send_probe_request(rates).size = n
        /\ u80211_send_probe_request(rates).data = AsBytes(numbers)
    BY DEF u80211_send_probe_request
  <2> HIDE DEF n, numbers
  <2>4. n \in Nat /\ Wrote(AsBytes(numbers), n) BY <2>2, NumbersWritten DEF IsString
  <2> QED BY <2>3, <2>4 DEF WellSized
<1>4. ASSUME NEW ssid \in Ssids, NEW rates \in RateSets, NEW elements \in Elements
      PROVE  WellSized(u80211_send_association_request(ssid, rates, elements))
  <2> DEFINE n == association_request_data_size(ssid, rates, elements)
             numbers == association_request_data(ssid, rates, elements)
  <2>1. rates \in SUBSET Nat /\ ssid \in Seq(Nat) /\ elements \in Seq(Nat)
    BY TransmissionAssumption
  <2>2. IsString(numbers, n) BY <2>1, AssociationRequestSize
  <2>3. /\ u80211_send_association_request(ssid, rates, elements).size = n
        /\ u80211_send_association_request(ssid, rates, elements).data = AsBytes(numbers)
    BY DEF u80211_send_association_request
  <2> HIDE DEF n, numbers
  <2>4. n \in Nat /\ Wrote(AsBytes(numbers), n) BY <2>2, NumbersWritten DEF IsString
  <2> QED BY <2>3, <2>4 DEF WellSized
<1>5. ASSUME NEW r \in Ssids \X RateSets \X Elements
      PROVE  WellSized(u80211_send_association_request(r[1], r[2], r[3]))
  <2>1. r[1] \in Ssids /\ r[2] \in RateSets /\ r[3] \in Elements OBVIOUS
  <2> QED BY <1>4, <2>1
<1> QED BY <1>1, <1>2, <1>3, <1>5 DEF Requests

\* The packet of a management frame.
LEMMA ManagementPacketHeld ==
  ASSUME NEW request, WellSized(request)
  PROVE  /\ DescriptorOK(prepare_management_packet(request))
         /\ Unwritten \notin ToSet(prepare_management_packet(request).bytes)
<1> DEFINE n == request.size
           all == MANAGEMENT_HEADER_SIZE + n
           header == [control |-> FrameControl(Management, request.subtype, FALSE, FALSE),
                      sequence_control |-> tx_sequence_control,
                      addresses |-> <<request.address, Own, request.address>>]
           bytes == u80211_serialize_header(header)
           d == Put(request.data, u80211_descriptor_allocate_space(AllocatedByDriver(all), n))
           offset == all - n
<1>1. n \in Nat /\ Wrote(request.data, n) BY DEF WellSized
<1>2. /\ all \in Nat /\ n <= all /\ all = 24 + n /\ offset = 24 /\ 24 <= offset
      /\ offset - 24 \in Nat /\ 0 + all <= all
  BY <1>1 DEF MANAGEMENT_HEADER_SIZE
<1>3. ~HasFourAddresses(header.control)
  BY DEF HasFourAddresses, FrameControl, Management, Data
<1>4. prepare_management_packet(request) = Prepended(bytes, d)
  BY DEF prepare_management_packet
<1> HIDE DEF all, n, header
<1>5. Holds(d, all, 0, all, offset) BY <1>1, <1>2, PutsAll
<1>6. Wrote(bytes, 24) BY <1>3, HeaderWritten
<1> DEFINE new == offset - 24
<1> HIDE DEF bytes, d, offset
<1>7. Holds(Prepended(bytes, d), all, 0, all, new) BY <1>2, <1>5, <1>6, PutsBefore
<1> HIDE DEF new
<1>8. 0 \in Nat OBVIOUS
<1>9. DescriptorOK(Prepended(bytes, d)) /\ Unwritten \notin ToSet(Prepended(bytes, d).bytes)
  BY <1>2, <1>7, <1>8, HeldIsOK
<1> QED BY <1>4, <1>9

-----------------------------------------------------------------------------
(***************************************************************************)
(* The calls of u80211_transmit_buffer.  How much room there is before the *)
(* data says how far a call has come.                                      *)
(***************************************************************************)

\* What is left before the data of a buffer is no less than this.
Held(d, size, least) ==
  \E offset \in Nat : least <= offset /\ Holds(d, ETHERNET_MAX_FRAME_SIZE + 72, 0, size, offset)

\* The header of a data frame to the access point has three addresses.
Controls(type, subtype, to_ds, from_ds, protected) ==
  [type |-> type, subtype |-> subtype, to_ds |-> to_ds, from_ds |-> from_ds,
   protected |-> protected]

DataControl(protected) == Controls(Data, 0, TRUE, FALSE, protected)

Header(control, number, addresses) ==
  [control |-> control, sequence_control |-> number, addresses |-> addresses]

Plain(header) ==
  \E protected, number, addresses :
    header = Header(DataControl(protected), number, addresses)

\* In its room a descriptor takes what is put there.
LEMMA HeldTakes ==
  ASSUME NEW d, NEW size, NEW least \in Nat, Held(d, size, least),
         NEW bytes, NEW n, Wrote(bytes, n), n <= least, NEW left, left = least - n
  PROVE  Held(Prepended(bytes, d), size, left)
<1> DEFINE m == ETHERNET_MAX_FRAME_SIZE + 72
<1>1. PICK offset \in Nat : least <= offset /\ Holds(d, m, 0, size, offset) BY DEF Held
<1> DEFINE new == offset - n
<1>2. n \in Nat BY DEF Wrote, IsString
<1>3. n <= offset /\ new \in Nat /\ left <= new BY <1>1, <1>2
<1>4. Holds(Prepended(bytes, d), m, 0, size, new) BY <1>1, <1>3, PutsBefore
<1> HIDE DEF new
<1> QED BY <1>3, <1>4 DEF Held

LEMMA HeldHasSpace ==
  ASSUME NEW d, NEW size, NEW least \in Nat, Held(d, size, least)
  PROVE  \A n \in Nat : n <= least => HasSpace(d, n)
<1>1. PICK offset \in Nat :
        least <= offset /\ Holds(d, ETHERNET_MAX_FRAME_SIZE + 72, 0, size, offset)
  BY DEF Held
<1>2. d.current_offset = offset BY <1>1, ReadsHeld
<1> QED BY <1>1, <1>2 DEF HasSpace

LEMMA HeldWithin ==
  ASSUME NEW d, NEW size \in Nat, size <= ETHERNET_MAX_FRAME_SIZE + 72,
         NEW least, Held(d, size, least)
  PROVE  DescriptorOK(d) /\ Unwritten \notin ToSet(d.bytes)
<1> DEFINE m == ETHERNET_MAX_FRAME_SIZE + 72
           zero == 0
<1>1. PICK offset \in Nat : Holds(d, m, 0, size, offset) BY DEF Held
<1>2. m \in Nat /\ zero \in Nat /\ zero + size <= m BY TransmissionAssumption
<1>3. Holds(d, m, zero, size, offset) BY <1>1
<1> HIDE DEF m, zero
<1> QED BY <1>2, <1>3, HeldIsOK

LEMMA HeldWeaker ==
  ASSUME NEW d, NEW size, NEW least \in Nat, Held(d, size, least), NEW less \in Nat, less <= least
  PROVE  Held(d, size, less)
<1>1. \A offset \in Nat : least <= offset => less <= offset OBVIOUS
<1> QED BY <1>1 DEF Held

LEMMA HeldTakesMic ==
  ASSUME NEW d, NEW size, NEW least, Held(d, size, least), NEW mic, Wrote(mic, 8),
         NEW room, room = size + 8
  PROVE  Held(WithMic(d, mic), room, least)
<1> DEFINE m == ETHERNET_MAX_FRAME_SIZE + 72
<1>1. PICK offset \in Nat : least <= offset /\ Holds(d, m, 0, size, offset) BY DEF Held
<1>2. Holds(WithMic(d, mic), m, 0, room, offset) BY <1>1, AddsMic
<1> QED BY <1>1, <1>2 DEF Held

LEMMA ControlProtected ==
  ASSUME NEW type, NEW subtype, NEW to_ds, NEW from_ds, NEW protected, NEW new
  PROVE  [Controls(type, subtype, to_ds, from_ds, protected) EXCEPT !.protected = new]
           = Controls(type, subtype, to_ds, from_ds, new)
BY DEF Controls

LEMMA HeaderProtected ==
  ASSUME NEW control, NEW number, NEW addresses, NEW new
  PROVE  [Header(control, number, addresses) EXCEPT !.control = new]
           = Header(new, number, addresses)
BY DEF Header

ProtectedHeader(header, value) == [header EXCEPT !.control.protected = value]

LEMMA PlainProtected ==
  ASSUME NEW header, Plain(header), NEW value
  PROVE  Plain(ProtectedHeader(header, value))
<1>1. PICK protected, number, addresses :
        header = Header(DataControl(protected), number, addresses)
  BY DEF Plain
<1> DEFINE control == DataControl(protected)
           new == [control EXCEPT !.protected = value]
<1>2. header.control = control BY <1>1 DEF Header
<1>3. new = DataControl(value)
  <2> DEFINE yes == TRUE
             no == FALSE
             zero == 0
  <2>1. control = Controls(Data, zero, yes, no, protected) BY DEF DataControl
  <2>2. DataControl(value) = Controls(Data, zero, yes, no, value) BY DEF DataControl
  <2> HIDE DEF yes, no, zero, control
  <2>3. [Controls(Data, zero, yes, no, protected) EXCEPT !.protected = value]
          = Controls(Data, zero, yes, no, value)
    BY ControlProtected
  <2> QED BY <2>1, <2>2, <2>3
<1>4. header = Header(control, number, addresses) BY <1>1
<1> HIDE DEF control
<1>5. ProtectedHeader(header, value) = [header EXCEPT !.control = new]
  BY <1>2 DEF ProtectedHeader
<1> HIDE DEF new
<1>6. [header EXCEPT !.control = new] = Header(new, number, addresses)
  BY <1>4, HeaderProtected
<1> QED BY <1>3, <1>5, <1>6 DEF Plain

LEMMA PlainHasThreeAddresses ==
  ASSUME NEW header, Plain(header)
  PROVE  ~HasFourAddresses(header.control)
<1>1. PICK protected, number, addresses :
        header = Header(DataControl(protected), number, addresses)
  BY DEF Plain
<1> DEFINE control == DataControl(protected)
<1>2. control.from_ds = FALSE BY DEF Controls, DataControl
<1> HIDE DEF control
<1>3. header.control = control BY <1>1 DEF Header, control
<1> QED BY <1>2, <1>3 DEF HasFourAddresses

-----------------------------------------------------------------------------
(***************************************************************************)
(* The invariant.                                                          *)
(***************************************************************************)

IsCall(c) ==
  c = [at |-> c.at, frame |-> c.frame, descriptor |-> c.descriptor, header |-> c.header,
       key |-> c.key, sequence |-> c.sequence, disposals |-> c.disposals]

\* The sizes of a buffer before and after the code of TKIP is added to it.
UserSize == ETHERNET_MAX_FRAME_SIZE + 64
SizeWithMic == ETHERNET_MAX_FRAME_SIZE + 72

CallOK(c) ==
  /\ IsCall(c)
  /\ c.at \in Places
  /\ c.disposals = IF c.at = "returned" THEN 1 ELSE 0
  /\ c.at = "transmit" => Held(c.descriptor, UserSize, 64)
  /\ c.at \in {"key", "cipher", "protect"} => Held(c.descriptor, UserSize, 32) /\ Plain(c.header)
  /\ c.at = "serialize" =>
       /\ Held(c.descriptor, UserSize, 24) \/ Held(c.descriptor, SizeWithMic, 24)
       /\ Plain(c.header)

Calls == call = [u \in Users |-> call[u]] /\ \A u \in Users : CallOK(call[u])

KeyOK ==
  key # None =>
    /\ key = [index |-> key.index, cipher |-> key.cipher, counter |-> key.counter]
    /\ [index |-> key.index, cipher |-> key.cipher] \in Installed /\ key.counter \in Nat

NumberOK == tx_sequence_control \in SequenceControls

SentOK ==
  sent # None => DescriptorOK(sent.descriptor) /\ Unwritten \notin ToSet(sent.descriptor.bytes)

IInv ==
  /\ associated \in BOOLEAN /\ NumberOK
  /\ KeyOK /\ Calls /\ SentOK

-----------------------------------------------------------------------------
(***************************************************************************)
(* One call after a step of its own.                                       *)
(***************************************************************************)

LEMMA Sizes ==
  /\ UserSize \in Nat /\ SizeWithMic \in Nat /\ SizeWithMic = UserSize + 8
  /\ UserSize <= ETHERNET_MAX_FRAME_SIZE + 72 /\ SizeWithMic <= ETHERNET_MAX_FRAME_SIZE + 72
BY TransmissionAssumption DEF UserSize, SizeWithMic

LEMMA IdleOK == CallOK(Idle)
<1>1. Idle.at = "idle" /\ Idle.disposals = 0 BY DEF Idle
<1>2. IsCall(Idle) BY DEF Idle, IsCall
<1> QED BY <1>1, <1>2 DEF CallOK, Places

LEMMA ConsumedOK ==
  ASSUME NEW c, CallOK(c), c.at # "returned", NEW e,
         e = [c EXCEPT !.at = "returned", !.disposals = c.disposals + 1]
  PROVE  CallOK(e)
<1> DEFINE n == c.disposals + 1
<1>1. IsCall(c) /\ n = 1 BY DEF CallOK
<1>2. e = [c EXCEPT !.at = "returned", !.disposals = n] OBVIOUS
<1> HIDE DEF n
<1>3. IsCall(e) /\ e.at = "returned" /\ e.disposals = n BY <1>1, <1>2 DEF IsCall
<1> QED BY <1>1, <1>3 DEF CallOK, Places

\* What a user puts into a buffer.
LEMMA BeginOK ==
  ASSUME NEW destination, NEW size \in Nat, NEW d,
         d = Trimmed(AllocatedByDriver(
               ETHERNET_MAX_FRAME_SIZE + TX_BUFFER_HEADROOM + TX_BUFFER_TAILROOM)),
         HasSpace(d, size)
  PROVE  Held(Untrimmed(Prepended(EthernetFrame(destination, size), d)), UserSize, 64)
<1> DEFINE m == ETHERNET_MAX_FRAME_SIZE
           all == m + 72
           frame == EthernetFrame(destination, size)
           filled == Prepended(frame, d)
           left == m - size
           offset == left + 64
<1>1. m \in Nat BY TransmissionAssumption
<1>2. Holds(d, all, 64, m, m) BY <1>1, Trims
<1>3. size <= m
  <2>1. d.current_offset = m BY <1>2, ReadsHeld
  <2> QED BY <2>1 DEF HasSpace
<1>4. Wrote(frame, size) BY EthernetFrameWritten
<1> HIDE DEF frame, all
<1>5. Holds(filled, all, 64, m, left) BY <1>2, <1>3, <1>4, PutsBefore
<1>6. left \in Nat BY <1>1, <1>3
<1>7. offset \in Nat /\ 64 <= offset BY <1>6
<1> HIDE DEF filled, left
<1>8. Holds(Untrimmed(filled), all, 0, m + 64, offset) BY <1>5, Untrims
<1> HIDE DEF offset
<1> QED BY <1>7, <1>8 DEF Held, UserSize, all, filled, frame

\* The ethernet header gives way to the ethertype and what comes before it.
LEMMA TransmitOK ==
  ASSUME NEW d, Held(d, UserSize, 64), FrameSize(d) >= ETHERNET_HEADER_SIZE
  PROVE  Held(Prepended(LlcSnap \o Window(d.bytes, 12, 2), WithoutEthernetHeader(d)), UserSize, 32)
<1> DEFINE all == ETHERNET_MAX_FRAME_SIZE + 72
           snap == LlcSnap
           ethertype == Window(d.bytes, 12, 2)
           bytes == snap \o ethertype
<1>1. PICK offset \in Nat : 64 <= offset /\ Holds(d, all, 0, UserSize, offset) BY DEF Held
<1> DEFINE rest == UserSize - offset
           behind == offset + 14
<1>2. /\ d.size = UserSize /\ d.current_offset = offset /\ Wrote(d.bytes, rest)
      /\ UserSize \in Nat
  BY <1>1, ReadsHeld
<1>3. behind <= UserSize /\ behind \in Nat /\ 64 <= behind
  BY <1>1, <1>2 DEF FrameSize, ETHERNET_HEADER_SIZE
<1>4. Wrote(ethertype, 2) BY <1>2, WindowWritten
<1>5. Wrote(snap, 6) BY BytesWritten DEF LlcSnap
<1>6. 8 = 6 + 2 OBVIOUS
<1> HIDE DEF snap, ethertype, rest
<1>7. Wrote(bytes, 8) BY <1>4, <1>5, <1>6, WrittenBehind
<1>8. Holds(WithoutEthernetHeader(d), all, 0, UserSize, behind)
  BY <1>1, <1>3, SkipsEthernetHeader
<1> HIDE DEF behind, bytes
<1>9. Held(WithoutEthernetHeader(d), UserSize, 64) BY <1>3, <1>8 DEF Held, all
<1> DEFINE left == 56
           least == 64
<1>10. least \in Nat /\ 8 <= least /\ left = least - 8 /\ left \in Nat /\ 32 <= left /\ 32 \in Nat
  OBVIOUS
<1>11. Held(WithoutEthernetHeader(d), UserSize, least) BY <1>9
<1> HIDE DEF left, least
<1>12. Held(Prepended(bytes, WithoutEthernetHeader(d)), UserSize, left)
  BY <1>7, <1>10, <1>11, HeldTakes
<1>13. Held(Prepended(bytes, WithoutEthernetHeader(d)), UserSize, 32)
  BY <1>10, <1>12, HeldWeaker
<1> QED BY <1>13 DEF bytes, snap, ethertype

\* The header of a cipher, and the code of TKIP.
LEMMA CipherOK ==
  ASSUME NEW d, Held(d, UserSize, 32), NEW bytes, Wrote(bytes, 8), NEW mic, Wrote(mic, 8)
  PROVE  /\ Held(Prepended(bytes, d), UserSize, 24)
         /\ Held(WithMic(Prepended(bytes, d), mic), SizeWithMic, 24)
<1> DEFINE least == 32
           left == 24
<1>1. least \in Nat /\ 8 <= least /\ left = least - 8 OBVIOUS
<1>2. Held(d, UserSize, least) OBVIOUS
<1> HIDE DEF least, left
<1>3. Held(Prepended(bytes, d), UserSize, left) BY <1>1, <1>2, HeldTakes
<1>4. Held(WithMic(Prepended(bytes, d), mic), SizeWithMic, left)
  BY <1>3, Sizes, HeldTakesMic
<1> QED BY <1>3, <1>4 DEF left

\* The header of the frame.
LEMMA SerializeOK ==
  ASSUME NEW d, Held(d, UserSize, 24) \/ Held(d, SizeWithMic, 24), NEW header, Plain(header)
  PROVE  /\ HasSpace(d, Len(u80211_serialize_header(header)))
         /\ DescriptorOK(d)
         /\ DescriptorOK(Prepended(u80211_serialize_header(header), d))
         /\ Unwritten \notin ToSet(Prepended(u80211_serialize_header(header), d).bytes)
<1> DEFINE bytes == u80211_serialize_header(header)
           n == 24
           none == 0
<1>1. Wrote(bytes, n) BY HeaderWritten, PlainHasThreeAddresses
<1>2. Len(bytes) = n BY <1>1, LengthOfString DEF Wrote
<1>3. PICK size \in {UserSize, SizeWithMic} : Held(d, size, n) OBVIOUS
<1>4. n \in Nat /\ n <= n /\ none = n - n OBVIOUS
<1> HIDE DEF bytes, n, none
<1>5. HasSpace(d, n) BY <1>3, <1>4, HeldHasSpace
<1>6. Held(Prepended(bytes, d), size, none) BY <1>1, <1>3, <1>4, HeldTakes
<1>7. size \in Nat /\ size <= ETHERNET_MAX_FRAME_SIZE + 72 BY <1>3, Sizes
<1>8. DescriptorOK(d) BY <1>3, <1>7, HeldWithin
<1>9. DescriptorOK(Prepended(bytes, d)) /\ Unwritten \notin ToSet(Prepended(bytes, d).bytes)
  BY <1>6, <1>7, HeldWithin
<1> QED BY <1>2, <1>5, <1>8, <1>9 DEF bytes

-----------------------------------------------------------------------------
(***************************************************************************)
(* Every step keeps the invariant.                                         *)
(***************************************************************************)

LEMMA OneCall ==
  ASSUME Calls, NEW u \in Users, NEW new, CallOK(new), call' = [call EXCEPT ![u] = new]
  PROVE  Calls'
<1>1. call = [v \in Users |-> call[v]] /\ \A v \in Users : CallOK(call[v]) BY DEF Calls
<1>2. call' = [v \in Users |-> IF v = u THEN new ELSE call[v]] BY <1>1
<1>3. call' = [v \in Users |-> call'[v]] BY <1>2
<1>4. ASSUME NEW v \in Users PROVE CallOK(call'[v])
  <2>1. call'[v] = IF v = u THEN new ELSE call[v] BY <1>2
  <2> QED BY <1>1, <2>1
<1> QED BY <1>3, <1>4 DEF Calls

LEMMA OwnCall ==
  ASSUME Calls, NEW u \in Users
  PROVE  CallOK(call[u]) /\ IsCall(call[u])
BY DEF Calls, CallOK

LEMMA SentNothing ==
  ASSUME NothingSent
  PROVE  SentOK'
BY DEF NothingSent, SentOK

\* What a step leaves as it is.
LEMMA KeyKept == KeyOK /\ key' = key => KeyOK'
BY DEF KeyOK

LEMMA CallsKept == Calls /\ call' = call => Calls'
BY DEF Calls

LEMMA Remainder ==
  ASSUME NEW i \in Nat, NEW n \in Nat, NEW m \in Nat, n = m + 1
  PROVE  i % n \in 0 .. m
OBVIOUS

LEMMA TakesNumber ==
  ASSUME NumberOK, TakesSequenceControl
  PROVE  NumberOK'
<1> DEFINE i == tx_sequence_control + 16
           last == 65535
           n == 65536
<1>1. last \in Nat /\ n \in Nat /\ n = last + 1 OBVIOUS
<1>2. tx_sequence_control' = i % n BY DEF TakesSequenceControl
<1>3. SequenceControls = 0 .. last BY DEF SequenceControls
<1> HIDE DEF last, n
<1>4. i \in Nat BY <1>1, <1>3 DEF NumberOK
<1> HIDE DEF i
<1>5. i % n \in SequenceControls BY <1>1, <1>3, <1>4, Remainder
<1> QED BY <1>2, <1>5 DEF NumberOK

LEMMA NumberKept == NumberOK /\ tx_sequence_control' = tx_sequence_control => NumberOK'
BY DEF NumberOK

\* A call goes on, and what there is besides remains.
LEMMA ProceedsKeeps ==
  ASSUME IInv, NEW u \in Users, NEW new, CallOK(new), Proceeds(u, new),
         UNCHANGED <<associated, key>>, NumberOK'
  PROVE  IInv'
<1>1. Calls' BY OneCall DEF Proceeds, IInv
<1>2. SentOK' BY SentNothing DEF Proceeds
<1>3. KeyOK' /\ associated' \in BOOLEAN BY KeyKept DEF IInv
<1> QED BY <1>1, <1>2, <1>3 DEF IInv

LEMMA ConsumedKeeps ==
  ASSUME Calls, NEW u \in Users, call[u].at # "returned", Consumed(u)
  PROVE  Calls'
<1> DEFINE old == call[u]
           n == old.disposals + 1
           new == [old EXCEPT !.at = "returned", !.disposals = n]
<1>1. CallOK(old) BY OwnCall
<1>2. CallOK(new) BY <1>1, ConsumedOK
<1>3. call' = [call EXCEPT ![u] = new] BY DEF Consumed, Calls
<1> HIDE DEF new
<1> QED BY <1>2, <1>3, OneCall

LEMMA FreedKeeps ==
  ASSUME IInv, NEW u \in Users, call[u].at # "returned", Freed(u)
  PROVE  IInv'
<1>1. Calls' BY ConsumedKeeps DEF Freed, IInv
<1>2. SentOK' BY SentNothing DEF Freed
<1>3. KeyOK' /\ associated' \in BOOLEAN /\ NumberOK'
  BY KeyKept, NumberKept DEF Freed, IInv
<1> QED BY <1>1, <1>2, <1>3 DEF IInv

LEMMA BeginKeeps ==
  ASSUME IInv, NEW u \in Users, NEW destination, NEW size \in Reserved, Begin(u, destination, size)
  PROVE  IInv'
<1> DEFINE d == Trimmed(AllocatedByDriver(
                  ETHERNET_MAX_FRAME_SIZE + TX_BUFFER_HEADROOM + TX_BUFFER_TAILROOM))
           frame == EthernetFrame(destination, size)
           origin == [destination |-> destination, bytes |-> frame]
           ready == Untrimmed(Prepended(frame, d))
           new == [Idle EXCEPT !.at = "transmit", !.frame = origin, !.descriptor = ready]
<1>1. size \in Nat BY TransmissionAssumption
<1>2. HasSpace(d, size) /\ call' = [call EXCEPT ![u] = new] /\ NothingSent
  BY DEF Begin
<1>3. UNCHANGED <<associated, key, tx_sequence_control>> BY DEF Begin
<1>4. Held(ready, UserSize, 64) BY <1>1, <1>2, BeginOK
<1> HIDE DEF origin, ready, d
<1>5. IsCall(Idle) /\ Idle.disposals = 0 BY IdleOK DEF CallOK, Idle
<1> DEFINE idle == Idle
<1> HIDE DEF idle
<1>6. IsCall(idle) /\ idle.disposals = 0 BY <1>5 DEF idle
<1>7. new = [idle EXCEPT !.at = "transmit", !.frame = origin, !.descriptor = ready] BY DEF idle
<1> HIDE DEF new
<1>8. IsCall(new) /\ new.at = "transmit" /\ new.descriptor = ready /\ new.disposals = 0
  BY <1>6, <1>7 DEF IsCall
<1>9. CallOK(new) BY <1>4, <1>8 DEF CallOK, Places
<1>10. Proceeds(u, new) BY <1>2 DEF Proceeds
<1>11. NumberOK' BY <1>3, NumberKept DEF IInv
<1> QED BY <1>3, <1>9, <1>10, <1>11, ProceedsKeeps

LEMMA TransmitKeeps ==
  ASSUME IInv, NEW u \in Users, Transmit(u)
  PROVE  IInv'
<1> DEFINE c == call[u]
           d == c.descriptor
           ethernet(first, size) == Window(d.bytes, first, size)
           ready == Prepended(LlcSnap \o ethernet(12, 2), WithoutEthernetHeader(d))
           addresses == <<AccessPoint, Value(ethernet(6, 6)), Value(ethernet(0, 6))>>
           header == [control |-> FrameControl(Data, 0, TRUE, FALSE),
                      sequence_control |-> tx_sequence_control,
                      addresses |-> addresses]
           new == [c EXCEPT !.at = "key", !.descriptor = ready, !.header = header]
<1>1. CallOK(c) /\ IsCall(c) BY OwnCall DEF IInv
<1>2. c.at = "transmit" /\ FrameSize(d) >= ETHERNET_HEADER_SIZE BY DEF Transmit
<1>3. TakesSequenceControl /\ UNCHANGED <<associated, key>> BY DEF Transmit
<1>4. Proceeds(u, new) BY DEF Transmit
<1>5. Held(d, UserSize, 64) BY <1>1, <1>2 DEF CallOK
<1>6. Held(ready, UserSize, 32) BY <1>2, <1>5, TransmitOK
<1>7. Plain(header)
  <2> HIDE DEF addresses
  <2>1. header = Header(DataControl(FALSE), tx_sequence_control, addresses)
    BY DEF Header, DataControl, Controls, FrameControl
  <2> HIDE DEF header
  <2> QED BY <2>1 DEF Plain
<1>8. c.disposals = 0 BY <1>1, <1>2 DEF CallOK
<1> HIDE DEF ready, header, c
<1>9. new = [c EXCEPT !.at = "key", !.descriptor = ready, !.header = header] OBVIOUS
<1> HIDE DEF new
<1>10. /\ IsCall(new) /\ new.at = "key" /\ new.descriptor = ready /\ new.header = header
      /\ new.disposals = c.disposals
  BY <1>1, <1>9 DEF IsCall
<1>11. CallOK(new) BY <1>6, <1>7, <1>10, <1>8 DEF CallOK, Places
<1>12. NumberOK' BY <1>3, TakesNumber DEF IInv
<1> QED BY <1>3, <1>4, <1>11, <1>12, ProceedsKeeps

\* A call that only goes to another place, with its buffer as it is, or remembers a key.
LEMMA SelectKeeps ==
  ASSUME IInv, NEW u \in Users, NEW place, NEW kept,
         \/ /\ call[u].at \in {"key", "cipher"} /\ place \in {"cipher", "protect"}
         \/ call[u].at = "key" /\ place = "serialize",
         NEW new, new = [call[u] EXCEPT !.at = place, !.key = kept]
                    \/ new = [call[u] EXCEPT !.at = place],
         Proceeds(u, new), KeyUnchanged
  PROVE  IInv'
<1> DEFINE c == call[u]
<1>1. CallOK(c) /\ IsCall(c) BY OwnCall DEF IInv
<1>2. Held(c.descriptor, UserSize, 32) /\ Plain(c.header) /\ c.disposals = 0
  BY <1>1 DEF CallOK
<1>3. Held(c.descriptor, UserSize, 24)
  <2>1. 32 \in Nat /\ 24 \in Nat /\ 24 <= 32 OBVIOUS
  <2> QED BY <1>2, <2>1, HeldWeaker
<1>4. new = [c EXCEPT !.at = place, !.key = kept] \/ new = [c EXCEPT !.at = place] OBVIOUS
<1>5. place \in {"cipher", "protect", "serialize"} OBVIOUS
<1> HIDE DEF c
<1>6. /\ IsCall(new) /\ new.at = place /\ new.descriptor = c.descriptor
      /\ new.header = c.header /\ new.disposals = c.disposals
  BY <1>1, <1>4 DEF IsCall
<1>7. CallOK(new) BY <1>2, <1>3, <1>5, <1>6 DEF CallOK, Places
<1>8. UNCHANGED <<associated, key>> /\ NumberOK'
  BY NumberKept DEF KeyUnchanged, IInv
<1> QED BY <1>7, <1>8, ProceedsKeeps

LEMMA ProtectedKeeps ==
  ASSUME IInv, NEW u \in Users, call[u].at = "protect", NEW d, Protected(u, d),
         Held(d, UserSize, 24) \/ Held(d, SizeWithMic, 24)
  PROVE  IInv'
<1> DEFINE c == call[u]
           yes == TRUE
           number == key.counter + 1
           new == [c EXCEPT !.at = "serialize", !.sequence = number,
                            !.descriptor = d, !.header.control.protected = yes]
<1>1. CallOK(c) /\ IsCall(c) BY OwnCall DEF IInv
<1>2. Plain(c.header) /\ c.disposals = 0 BY <1>1 DEF CallOK
<1>3. Proceeds(u, new) BY DEF Protected
<1>4. /\ key' = [key EXCEPT !.counter = number] /\ key # None
      /\ UNCHANGED <<associated, tx_sequence_control>>
  BY DEF Protected, MayProtect, IsStillThere
<1> HIDE DEF c, yes, number
<1>5. new = [c EXCEPT !.at = "serialize", !.sequence = number,
                       !.descriptor = d, !.header.control.protected = yes]
  OBVIOUS
<1> HIDE DEF new
<1>6. /\ IsCall(new) /\ new.at = "serialize" /\ new.descriptor = d
      /\ new.header = ProtectedHeader(c.header, yes) /\ new.disposals = c.disposals
  BY <1>1, <1>5 DEF IsCall, ProtectedHeader
<1>7. Plain(new.header) BY <1>2, <1>6, PlainProtected
<1>8. CallOK(new) BY <1>2, <1>6, <1>7 DEF CallOK, Places
<1>9. Calls' BY <1>3, <1>8, OneCall DEF Proceeds, IInv
<1>10. SentOK' BY <1>3, SentNothing DEF Proceeds
<1>11. KeyOK'
  <2> DEFINE old == key
  <2>1. /\ old = [index |-> old.index, cipher |-> old.cipher, counter |-> old.counter]
        /\ [index |-> old.index, cipher |-> old.cipher] \in Installed /\ old.counter \in Nat
    BY <1>4 DEF IInv, KeyOK
  <2>2. key' = [old EXCEPT !.counter = number] BY <1>4
  <2>3. number \in Nat BY <2>1 DEF number
  <2> HIDE DEF old
  <2> DEFINE newKey == [old EXCEPT !.counter = number]
  <2>4. /\ newKey = [index |-> newKey.index, cipher |-> newKey.cipher,
                     counter |-> newKey.counter]
        /\ newKey.index = old.index /\ newKey.cipher = old.cipher /\ newKey.counter = number
    BY <2>1
  <2>5. key' = newKey BY <2>2
  <2> HIDE DEF newKey
  <2> QED BY <2>1, <2>3, <2>4, <2>5 DEF KeyOK
<1>12. associated' \in BOOLEAN /\ NumberOK' BY <1>4, NumberKept DEF IInv
<1> QED BY <1>9, <1>10, <1>11, <1>12 DEF IInv

LEMMA CiphersKeep ==
  ASSUME IInv, NEW u \in Users, prepare_ccmp_tx(u) \/ prepare_tkip_tx(u)
  PROVE  IInv'
<1> DEFINE d == call[u].descriptor
           header == call[u].header
           mic == Michael([destination |-> header.addresses[3], source |-> header.addresses[2]],
                          d.bytes)
           ccmp == CcmpHeader(call[u].key.index, SequenceBytes(key.counter + 1))
           tkip == TkipHeader(call[u].key.index, SequenceBytes(key.counter + 1))
<1>1. call[u].at = "protect" BY DEF prepare_ccmp_tx, prepare_tkip_tx
<1>2. \/ Protected(u, Prepended(ccmp, d))
      \/ Protected(u, WithMic(Prepended(tkip, d), mic))
  BY DEF prepare_ccmp_tx, prepare_tkip_tx
<1>3. Wrote(ccmp, 8) /\ Wrote(tkip, 8) BY CipherHeadersWritten
<1>4. Wrote(mic, 8) BY BytesWritten DEF Michael, TKIP_MIC_SIZE
<1>5. Held(d, UserSize, 32) BY <1>1, OwnCall DEF IInv, CallOK
<1> HIDE DEF d, mic, ccmp, tkip
<1>6. /\ Held(Prepended(ccmp, d), UserSize, 24)
      /\ Held(WithMic(Prepended(ccmp, d), mic), SizeWithMic, 24)
  BY <1>3, <1>4, <1>5, CipherOK
<1>7. /\ Held(Prepended(tkip, d), UserSize, 24)
      /\ Held(WithMic(Prepended(tkip, d), mic), SizeWithMic, 24)
  BY <1>3, <1>4, <1>5, CipherOK
<1>8. CASE Protected(u, Prepended(ccmp, d))
  BY <1>1, <1>6, <1>8, ProtectedKeeps
<1>9. CASE Protected(u, WithMic(Prepended(tkip, d), mic))
  BY <1>1, <1>7, <1>9, ProtectedKeeps
<1> QED BY <1>2, <1>8, <1>9

LEMMA SerializeKeeps ==
  ASSUME IInv, NEW u \in Users, Serialize(u)
  PROVE  IInv'
<1> DEFINE c == call[u]
           d == c.descriptor
           bytes == u80211_serialize_header(c.header)
           packet == Prepended(bytes, d)
           frame == Frame(c.frame, packet, c.key, c.sequence)
<1>1. c.at = "serialize" /\ Consumed(u) /\ KeyUnchanged BY DEF Serialize
<1>2. sent' = IF HasSpace(d, Len(bytes)) THEN frame ELSE None BY DEF Serialize
<1>3. (Held(d, UserSize, 24) \/ Held(d, SizeWithMic, 24)) /\ Plain(c.header)
  BY <1>1, OwnCall DEF IInv, CallOK
<1>4. DescriptorOK(packet) /\ Unwritten \notin ToSet(packet.bytes)
  BY <1>3, SerializeOK
<1> HIDE DEF packet
<1>5. frame.descriptor = packet BY DEF Frame
<1> HIDE DEF frame
<1>6. SentOK' BY <1>2, <1>4, <1>5 DEF SentOK
<1>7. Calls' BY <1>1, ConsumedKeeps DEF IInv
<1>8. KeyOK' /\ associated' \in BOOLEAN /\ NumberOK'
  BY <1>1, KeyKept, NumberKept DEF KeyUnchanged, IInv
<1> QED BY <1>6, <1>7, <1>8 DEF IInv

LEMMA UserStepKeeps ==
  ASSUME IInv, NEW u \in Users, UserStep(u)
  PROVE  IInv'
<1> DEFINE c == call[u]
<1>1. CASE \E destination \in {Peer, Group}, size \in Reserved : Begin(u, destination, size)
  BY <1>1, BeginKeeps
<1>2. CASE Transmit(u) BY <1>2, TransmitKeeps
<1>3. CASE prepare_ccmp_tx(u) \/ prepare_tkip_tx(u) BY <1>3, CiphersKeep
<1>4. CASE Serialize(u) BY <1>4, SerializeKeeps
<1>5. CASE TransmitRefused(u) \/ IndexRefused(u) \/ Unsupported(u) \/ NotPermitted(u)
  <2>1. c.at # "returned" /\ Freed(u)
    BY <1>5 DEF TransmitRefused, IndexRefused, Unsupported, NotPermitted
  <2> QED BY <2>1, FreedKeeps
<1>6. CASE SelectNoKey(u)
  <2> DEFINE new == [c EXCEPT !.at = "serialize"]
  <2>1. c.at = "key" /\ Proceeds(u, new) /\ KeyUnchanged BY <1>6 DEF SelectNoKey
  <2>2. new = [call[u] EXCEPT !.at = "serialize"] OBVIOUS
  <2> HIDE DEF new
  <2> QED BY <2>1, <2>2, SelectKeeps
<1>7. CASE SelectKey(u)
  <2> DEFINE new == [c EXCEPT !.at = "cipher", !.key = key]
  <2>1. c.at = "key" /\ Proceeds(u, new) /\ KeyUnchanged BY <1>7 DEF SelectKey
  <2>2. new = [call[u] EXCEPT !.at = "cipher", !.key = key] OBVIOUS
  <2> HIDE DEF new
  <2> QED BY <2>1, <2>2, SelectKeeps
<1>8. CASE SelectCipher(u)
  <2> DEFINE new == [c EXCEPT !.at = "protect", !.key = key]
  <2>1. c.at = "cipher" /\ Proceeds(u, new) /\ KeyUnchanged BY <1>8 DEF SelectCipher
  <2>2. new = [call[u] EXCEPT !.at = "protect", !.key = key] OBVIOUS
  <2> HIDE DEF new
  <2> QED BY <2>1, <2>2, SelectKeeps
<1>9. CASE Return(u)
  <2>1. Proceeds(u, Idle) /\ KeyUnchanged BY <1>9 DEF Return
  <2>2. UNCHANGED <<associated, key>> /\ NumberOK'
    BY <2>1, NumberKept DEF KeyUnchanged, IInv
  <2> QED BY <2>1, <2>2, IdleOK, ProceedsKeeps
<1> QED BY <1>1, <1>2, <1>3, <1>4, <1>5, <1>6, <1>7, <1>8, <1>9 DEF UserStep

\* New keys have not been used.
LEMMA FreshKeys ==
  ASSUME key' \in {None} \cup Fresh
  PROVE  KeyOK'
<1>1. CASE key' = None BY <1>1 DEF KeyOK
<1>2. CASE key' \in Fresh
  <2>1. PICK k \in Installed : key' = [index |-> k.index, cipher |-> k.cipher, counter |-> 0]
    BY <1>2 DEF Fresh
  <2>2. k = [index |-> k.index, cipher |-> k.cipher] BY TransmissionAssumption
  <2>3. key'.index = k.index /\ key'.cipher = k.cipher /\ key'.counter = 0 BY <2>1
  <2>4. [index |-> key'.index, cipher |-> key'.cipher] \in Installed
    BY <2>2, <2>3
  <2> QED BY <2>1, <2>3, <2>4 DEF KeyOK
<1> QED BY <1>1, <1>2

LEMMA LinkKeeps == IInv /\ Link => IInv'
<1> SUFFICES ASSUME IInv, Link PROVE IInv' OBVIOUS
<1>1. SentOK' BY SentNothing DEF Link
<1>2. KeyOK' /\ NumberOK' /\ Calls' BY KeyKept, NumberKept, CallsKept DEF Link, IInv
<1>3. associated' \in BOOLEAN BY DEF Link, IInv
<1> QED BY <1>1, <1>2, <1>3 DEF IInv

LEMMA ChangeKeyKeeps == IInv /\ ChangeKey => IInv'
<1> SUFFICES ASSUME IInv, ChangeKey PROVE IInv' OBVIOUS
<1>1. SentOK' BY SentNothing DEF ChangeKey
<1>2. NumberOK' /\ Calls' /\ associated' \in BOOLEAN
  BY NumberKept, CallsKept DEF ChangeKey, IInv
<1>3. KeyOK' BY FreshKeys DEF ChangeKey
<1> QED BY <1>1, <1>2, <1>3 DEF IInv

LEMMA SendManagementKeeps ==
  ASSUME IInv, NEW request \in Requests, SendManagement(request)
  PROVE  IInv'
<1> DEFINE packet == prepare_management_packet(request)
           frame == Frame(None, packet, None, 0)
<1>1. sent' = frame /\ TakesSequenceControl /\ UNCHANGED <<associated, key, call>>
  BY DEF SendManagement
<1>2. WellSized(request) BY RequestsAreWellSized
<1>3. DescriptorOK(packet) /\ Unwritten \notin ToSet(packet.bytes)
  BY <1>2, ManagementPacketHeld
<1> HIDE DEF packet
<1>4. frame.descriptor = packet BY DEF Frame
<1> HIDE DEF frame
<1>5. SentOK' BY <1>1, <1>3, <1>4 DEF SentOK
<1>6. KeyOK' /\ Calls' /\ associated' \in BOOLEAN BY <1>1, KeyKept, CallsKept DEF IInv
<1>7. NumberOK' BY <1>1, TakesNumber DEF IInv
<1> QED BY <1>5, <1>6, <1>7 DEF IInv

LEMMA InitHolds == Init => IInv
<1> SUFFICES ASSUME Init PROVE IInv OBVIOUS
<1>1. Calls
  <2>1. call = [u \in Users |-> Idle] BY DEF Init
  <2> QED BY <2>1, IdleOK DEF Calls
<1>2. SentOK BY DEF Init, SentOK
<1>3. NumberOK
  <2> DEFINE last == 65535
  <2>1. last \in Nat /\ SequenceControls = 0 .. last BY DEF SequenceControls
  <2> HIDE DEF last
  <2>2. 0 \in SequenceControls BY <2>1
  <2> QED BY <2>2 DEF Init, NumberOK
<1>4. KeyOK
  <2>1. CASE key = None BY <2>1 DEF KeyOK
  <2>2. CASE key \in Fresh
    <3>1. PICK k \in Installed : key = [index |-> k.index, cipher |-> k.cipher, counter |-> 0]
      BY <2>2 DEF Fresh
    <3>2. k = [index |-> k.index, cipher |-> k.cipher] BY TransmissionAssumption
    <3>3. key.index = k.index /\ key.cipher = k.cipher /\ key.counter = 0 BY <3>1
    <3>4. [index |-> key.index, cipher |-> key.cipher] \in Installed BY <3>2, <3>3
    <3> QED BY <3>1, <3>3, <3>4 DEF KeyOK
  <2> QED BY <2>1, <2>2 DEF Init
<1>5. associated \in BOOLEAN BY DEF Init
<1> QED BY <1>1, <1>2, <1>3, <1>4, <1>5 DEF IInv

LEMMA NextKeeps == IInv /\ [Next]_vars => IInv'
<1> SUFFICES ASSUME IInv, [Next]_vars PROVE IInv' OBVIOUS
<1>1. ASSUME NEW u \in Users, UserStep(u) PROVE IInv' BY <1>1, UserStepKeeps
<1>2. CASE Link BY <1>2, LinkKeeps
<1>3. CASE ChangeKey BY <1>3, ChangeKeyKeeps
<1>4. ASSUME NEW request \in Requests, SendManagement(request) PROVE IInv'
  BY <1>4, SendManagementKeeps
<1>5. CASE UNCHANGED vars
  <2>1. /\ associated' = associated /\ key' = key /\ call' = call /\ sent' = sent
        /\ tx_sequence_control' = tx_sequence_control
    BY <1>5 DEF vars
  <2>2. SentOK' BY <2>1 DEF IInv, SentOK
  <2>3. KeyOK' /\ NumberOK' /\ Calls' /\ associated' \in BOOLEAN
    BY <2>1, KeyKept, NumberKept, CallsKept DEF IInv
  <2> QED BY <2>2, <2>3 DEF IInv
<1> QED BY <1>1, <1>2, <1>3, <1>4, <1>5 DEF Next

\* For any users, keys and requests: every buffer that a call has keeps the room that the
\* headers to come need, and the header it will be given has three addresses.
THEOREM BuffersInvariant == Spec => []IInv
<1>1. Init => IInv BY InitHolds
<1>2. IInv /\ [Next]_vars => IInv' BY NextKeeps
<1> QED BY <1>1, <1>2, PTL DEF Spec

\* Whatever steps the calls are interrupted in, every descriptor stays inside of what the
\* driver allocated and says how many bytes there are, until the driver has it.
THEOREM TransmissionTypeCorrect == Spec => []TypeOK
<1>1. IInv => TypeOK
  <2> SUFFICES ASSUME IInv PROVE TypeOK OBVIOUS
  <2>1. ASSUME NEW u \in Users PROVE BufferOK(u)
    <3> DEFINE c == call[u]
    <3>1. CallOK(c) BY OwnCall DEF IInv
    <3> HIDE DEF c
    <3>2. c.at \in Places BY <3>1 DEF CallOK
    <3>3. ASSUME c.at \notin {"idle", "returned"} PROVE DescriptorOK(c.descriptor)
      <4>1. c.at \in {"transmit", "key", "cipher", "protect", "serialize"}
        BY <3>2, <3>3 DEF Places
      <4>2. PICK size \in {UserSize, SizeWithMic}, least \in {24, 32, 64} :
              Held(c.descriptor, size, least)
        BY <3>1, <4>1 DEF CallOK
      <4>3. size \in Nat /\ size <= ETHERNET_MAX_FRAME_SIZE + 72 BY <4>2, Sizes
      <4> QED BY <4>2, <4>3, HeldWithin
    <3> QED BY <3>2, <3>3 DEF c, BufferOK
  <2>2. sent # None => DescriptorOK(sent.descriptor) BY DEF IInv, SentOK
  <2>3. KeyInstalled BY DEF IInv, KeyOK, KeyInstalled
  <2>4. associated \in BOOLEAN BY DEF IInv
  <2>5. tx_sequence_control \in SequenceControls BY DEF IInv, NumberOK
  <2> QED BY <2>1, <2>2, <2>3, <2>4, <2>5 DEF TypeOK
<1> QED BY <1>1, BuffersInvariant, PTL

\* u80211_transmit_buffer consumes each buffer once whatever it returns, there is always
\* room for the headers, and the driver is given no byte that was not written: neither of
\* a user's frame nor of a request, whose size is reckoned before its elements are written.
THEOREM BuffersAreConsumed == Spec => []BuffersConsumed
<1>1. IInv => BuffersConsumed
  <2> SUFFICES ASSUME IInv PROVE BuffersConsumed OBVIOUS
  <2>1. ASSUME NEW u \in Users
        PROVE  /\ call[u].disposals = (IF call[u].at = "returned" THEN 1 ELSE 0)
               /\ call[u].at = "serialize" =>
                    HasSpace(call[u].descriptor, Len(u80211_serialize_header(call[u].header)))
    <3> DEFINE c == call[u]
    <3>1. CallOK(c) BY OwnCall DEF IInv
    <3> HIDE DEF c
    <3>2. c.disposals = IF c.at = "returned" THEN 1 ELSE 0 BY <3>1 DEF CallOK
    <3>3. ASSUME c.at = "serialize"
          PROVE  HasSpace(c.descriptor, Len(u80211_serialize_header(c.header)))
      BY <3>1, <3>3, SerializeOK DEF CallOK
    <3> QED BY <3>2, <3>3 DEF c
  <2>2. sent # None => Unwritten \notin ToSet(sent.descriptor.bytes) BY DEF IInv, SentOK
  <2> QED BY <2>1, <2>2 DEF BuffersConsumed
<1> QED BY <1>1, BuffersInvariant, PTL

=============================================================================
