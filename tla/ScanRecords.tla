----------------------------- MODULE ScanRecords -----------------------------
(***************************************************************************)
(* How src/scan.c uses the ring buffer: a response is a record of a header *)
(* and an RSN element whose size is in the header, written in two calls and*)
(* read in two.  Scan takes records as whole; this shows that they are.    *)
(*                                                                         *)
(* A header is one byte, the size.  Receivers write under the lock while   *)
(* the scan receives, the scan work reads when it does not, so each does   *)
(* its two calls undisturbed.                                              *)
(*                                                                         *)
(* A definition named X_Y, with a capital Y, is X with a defect; no action *)
(* uses it.                                                                *)
(***************************************************************************)
EXTENDS RingBuffer, SequencesExt

CONSTANT MaxRsn   \* the largest size of an element: a bound

\* A size can be told in a header.
ASSUME ScanRecordsAssumption == MaxRsn \in Nat /\ 0 .. MaxRsn \subseteq Byte

VARIABLES
  record,    \* between two calls: what is being done, and the size or the element
  pending    \* the elements of the records written and not read, oldest first

recordVars == <<record, pending>>

Rsns == UNION {[1 .. size -> Byte] : size \in 0 .. MaxRsn}

Header(rsn) == <<Len(rsn)>>
Between == [doing |-> "nothing", rsn |-> <<>>, size |-> 0]

RecordsInit == Init /\ record = Between /\ pending = <<>>

HasRoom_ForHeader(rsn) == FreeSpace >= Len(Header(rsn))
\* For both calls, or none is made.
HasRoom(rsn) == FreeSpace >= Len(Header(rsn)) + Len(rsn)

ResponseWritesHeader(rsn) ==
  /\ record = Between /\ HasRoom(rsn)
  /\ u80211_ringbuffer_write(Header(rsn))
  /\ record' = [Between EXCEPT !.doing = "write", !.rsn = rsn]
  /\ UNCHANGED pending

ResponseWritesRsn ==
  /\ record.doing = "write"
  /\ u80211_ringbuffer_write(record.rsn)
  /\ record' = Between
  /\ pending' = Append(pending, record.rsn)

WorkReadsHeader ==
  /\ record = Between /\ DataCount >= Len(Header(<<>>))
  /\ u80211_ringbuffer_read(Len(Header(<<>>)))
  /\ record' = [Between EXCEPT !.doing = "read", !.size = copied'[1]]
  /\ UNCHANGED pending

WorkReadsRsn ==
  /\ record.doing = "read"
  /\ u80211_ringbuffer_read(record.size)
  /\ record' = Between
  /\ pending' = Tail(pending)

RecordsNext ==
  \/ \E rsn \in Rsns : ResponseWritesHeader(rsn)
  \/ ResponseWritesRsn \/ WorkReadsHeader \/ WorkReadsRsn

-----------------------------------------------------------------------------
Written(rsns) == FlattenSeq([i \in DOMAIN rsns |-> Header(rsns[i]) \o rsns[i]])

\* The buffer has whole records, one after the other, whatever came while it was
\* full: when the work has read a header its element is what comes next.
RecordsWhole ==
  CASE record.doing = "nothing" -> Contents = Written(pending)
    [] record.doing = "write" -> Contents = Written(pending) \o Header(record.rsn)
    [] record.doing = "read" ->
         /\ pending # <<>> /\ record.size = Len(Head(pending))
         /\ Contents = Head(pending) \o Written(Tail(pending))

=============================================================================
