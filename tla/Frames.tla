------------------------------- MODULE Frames -------------------------------
(***************************************************************************)
(* How frames are put together and taken apart: the headers of src/packet.c*)
(* and of the ciphers, what u80211_process_packet makes of a data frame,   *)
(* and the handlers of src/packet_management.c of a management frame.      *)
(*                                                                         *)
(* A byte is named for what it belongs to and its place in that, and a     *)
(* packet is a sequence of such bytes; places in it count from 0.          *)
(*                                                                         *)
(* A definition named X_Y, with a capital Y, is X with a defect.           *)
(***************************************************************************)
EXTENDS InformationElements

CONSTANTS Group, None   \* the broadcast address; no value

ETHERNET_HEADER_SIZE == 14
LLCSNAP_SIZE == 8
CCMP_HEADER_SIZE == 8
CCMP_MIC_SIZE == 8
TKIP_HEADER_SIZE == 8
TKIP_MIC_SIZE == 8
TKIP_ICV_SIZE == 4
SIZE_MAX_1 == 65536   \* SIZE_MAX + 1: smaller than it is, and larger than any frame

Bytes(what, size) == [i \in 1 .. size |-> <<what, i>>]

Outside == <<None, -1>>   \* a byte that is not of the packet

Window(packet, start, size) ==
  [i \in 1 .. size |-> IF start + i \in DOMAIN packet THEN packet[start + i] ELSE Outside]

\* What some bytes are, if they are all of one thing.
Value(bytes) == IF bytes = Bytes(bytes[1][1], Len(bytes)) THEN bytes[1][1] ELSE None

-----------------------------------------------------------------------------
(***************************************************************************)
(* The header of a frame.                                                  *)
(***************************************************************************)

Management == 0
Data == 2

FrameControl(type, subtype, to_ds, from_ds) ==
  [type |-> type, subtype |-> subtype, to_ds |-> to_ds, from_ds |-> from_ds, protected |-> FALSE]

\* A frame from one distribution system to another has a fourth address.
HasFourAddresses(control) == control.type = Data /\ control.to_ds /\ control.from_ds

u80211_serialize_header(header) ==
  LET address(i) == Bytes(header.addresses[i], 6)
  IN  Bytes(header.control, 2) \o Bytes([duration |-> 0], 2) \o address(1) \o address(2)
        \o address(3) \o Bytes([sequence_control |-> header.sequence_control], 2)
        \o (IF HasFourAddresses(header.control) THEN address(4) ELSE <<>>)

Control(packet) == Value(Window(packet, 0, 2))

HeaderSize(packet) == IF HasFourAddresses(Control(packet)) THEN 30 ELSE 24

\* The conditions under which u80211_deserialize_header succeeds ...
HasHeader(packet) ==
  /\ Len(packet) >= 10
  /\ Control(packet).type \in {Management, Data}
  /\ Control(packet).type = Data => Control(packet).subtype \in {0, 4}
  /\ Len(packet) >= HeaderSize(packet)

\* ... and the addresses it finds.
Addresses(packet) ==
  LET address(start) == Value(Window(packet, start, 6))
  IN  <<address(4), address(10), address(16)>>
        \o (IF HasFourAddresses(Control(packet)) THEN <<address(24)>> ELSE <<>>)

\* Where a data frame goes to and comes from.
data_packet_addresses(control, addresses) ==
  [destination |-> addresses[IF control.to_ds THEN 3 ELSE 1],
   source |-> addresses[IF ~control.from_ds THEN 2 ELSE IF control.to_ds THEN 4 ELSE 3]]

-----------------------------------------------------------------------------
(***************************************************************************)
(* The headers of the ciphers.                                             *)
(***************************************************************************)

SequenceBytes(number) == Bytes([sequence |-> number], 6)

\* Tells that the header has its second half, and which key the frame is sent with.
KeyByte(index) == <<[ext_iv |-> TRUE, key |-> index], 1>>

\* Is made of one byte of the sequence.
Seed(byte) == <<[seed |-> byte], 1>>

CcmpHeader(index, s) ==
  <<s[1], s[2], <<[zero |-> 0], 1>>, KeyByte(index), s[3], s[4], s[5], s[6]>>

TkipHeader(index, s) ==
  <<s[2], Seed(s[2]), s[1], KeyByte(index), s[3], s[4], s[5], s[6]>>

\* No two texts have the same code.
Michael(addresses, data) == Bytes([michael |-> addresses, data |-> data], TKIP_MIC_SIZE)

-----------------------------------------------------------------------------
(***************************************************************************)
(* Ciphers and data frames.  Whether a sequence is new and whether a frame *)
(* is a repetition is the matter of Keys and Association; here they let in *)
(* all.  data and payload say where in the packet something is.            *)
(***************************************************************************)

DataOf(packet) == [start |-> HeaderSize(packet), size |-> Len(packet) - HeaderSize(packet)]

\* A byte of the header of the cipher.
CipherByte(packet, data, i) == Window(packet, data.start + i, 1)[1]

\* What is left without the first and the last bytes.  Sizes do not become negative.
Inner(data, before, after) ==
  [start |-> data.start + before, size |-> (data.size - before - after) % SIZE_MAX_1]

CcmpFits_HeaderOnly(data) == data.size >= CCMP_HEADER_SIZE
CcmpFits(data) == data.size >= CCMP_HEADER_SIZE + CCMP_MIC_SIZE
CcmpPayload(data) == Inner(data, CCMP_HEADER_SIZE, CCMP_MIC_SIZE)

TkipFits(data) == data.size >= TKIP_HEADER_SIZE + TKIP_MIC_SIZE + TKIP_ICV_SIZE
TkipPayload(data) == Inner(data, TKIP_HEADER_SIZE, TKIP_MIC_SIZE + TKIP_ICV_SIZE)

process_ccmp_rx(packet, data) ==
  /\ CcmpFits(data)
  /\ CipherByte(packet, data, 3)[1].ext_iv

process_tkip_rx(packet, data) ==
  LET payload == TkipPayload(data)
  IN  /\ Control(packet).type = Data /\ Control(packet).subtype = 0
      /\ TkipFits(data)
      /\ CipherByte(packet, data, 3)[1].ext_iv
      /\ CipherByte(packet, data, 1) = Seed(CipherByte(packet, data, 0))
      /\ Window(packet, payload.start + payload.size, TKIP_MIC_SIZE)
           = Michael(data_packet_addresses(Control(packet), Addresses(packet)),
                     Window(packet, payload.start, payload.size))

\* A protected frame is let in by the cipher of the key with its index.
IsLetIn(packet, data, key) ==
  Control(packet).protected =>
    /\ data.size >= 4
    /\ CipherByte(packet, data, 3)[1].key = key.index
    /\ CASE key.cipher = "CCMP" -> process_ccmp_rx(packet, data)
         [] key.cipher = "TKIP" -> process_tkip_rx(packet, data)
         [] OTHER -> FALSE

Payload(packet, data, key) ==
  IF ~Control(packet).protected THEN data
  ELSE IF key.cipher = "CCMP" THEN CcmpPayload(data) ELSE TkipPayload(data)

\* The sequence, in the order in which the key store has it.
SequenceOf(packet, data, key) ==
  LET order == IF key.cipher = "CCMP" THEN <<0, 1, 4, 5, 6, 7>> ELSE <<2, 0, 4, 5, 6, 7>>
  IN  IF Control(packet).protected
      THEN Value([i \in 1 .. 6 |-> CipherByte(packet, data, order[i])]) ELSE None

data_packet_for_device(own, packet) == Addresses(packet)[1] \in {own, Group}

LlcSnap == Bytes([llc |-> "snap"], 6)

HasLlcSnap(packet, payload) ==
  payload.size >= LLCSNAP_SIZE /\ Window(packet, payload.start, 6) = LlcSnap

Overwritten(packet, start, bytes) ==
  [i \in DOMAIN packet |-> IF i - start \in DOMAIN bytes THEN bytes[i - start] ELSE packet[i]]

\* An ethernet header is written in place, over what came before the ethertype:
\* by then the addresses have been read.
u80211_process_data_packet(packet, payload) ==
  LET addresses == data_packet_addresses(Control(packet), Addresses(packet))
      header == Bytes(addresses.destination, 6) \o Bytes(addresses.source, 6)
                  \o Window(packet, payload.start + 6, 2)
      start == payload.start + LLCSNAP_SIZE - ETHERNET_HEADER_SIZE
  IN  Window(Overwritten(packet, start, header), start,
             payload.size + ETHERNET_HEADER_SIZE - LLCSNAP_SIZE)

\* What u80211_kernel_receive_callback is given, and the sequence that was read on
\* the way; None if the frame is dropped.
DataReceived(own, packet, payload, sequence) ==
  IF data_packet_for_device(own, packet) /\ HasLlcSnap(packet, payload)
  THEN [frame |-> u80211_process_data_packet(packet, payload), sequence |-> sequence]
  ELSE None

-----------------------------------------------------------------------------
(***************************************************************************)
(* u80211_process_management_packet.                                       *)
(***************************************************************************)

\* Of the frames that are handled: the size of the fixed part of the data, where
\* the fields are in it that are read, and whether elements follow.
Handled ==
  [subtype \in {1, 5, 10, 11, 12} |->
     CASE subtype = 1 -> [size |-> 6, fields |-> <<0, 2, 4>>, elements |-> TRUE]
       [] subtype = 5 -> [size |-> 12, fields |-> <<8, 10>>, elements |-> TRUE]
       [] subtype = 11 -> [size |-> 6, fields |-> <<0, 2, 4>>, elements |-> FALSE]
       [] OTHER -> [size |-> 2, fields |-> <<0>>, elements |-> FALSE]]

MayBeBroadcast(subtype) == subtype \in {10, 12}

\* management_packet_for_device and management_packet_for_device_or_broadcast.
IsForDevice(own, subtype, addresses) ==
  /\ addresses[2] = addresses[3]
  /\ addresses[1] \in {own} \cup (IF MayBeBroadcast(subtype) THEN {Group} ELSE {})

\* What a handler is called for: the address, the fields, and the bytes that are
\* read as elements; None if the frame is dropped.
ManagementReceived(own, packet, data) ==
  LET subtype == Control(packet).subtype
      handled == Handled[subtype]
      rest == Inner(data, handled.size, 0)
  IN  IF /\ subtype \in DOMAIN Handled
         /\ data.size >= handled.size
         /\ IsForDevice(own, subtype, Addresses(packet))
      THEN [address |-> Addresses(packet)[3],
            fields |-> [i \in DOMAIN handled.fields |->
                          Value(Window(packet, data.start + handled.fields[i], 2))],
            elements |-> IF handled.elements THEN Window(packet, rest.start, rest.size) ELSE <<>>]
      ELSE None

-----------------------------------------------------------------------------
u80211_process_packet(own, packet, key) ==
  LET data == DataOf(packet)
      payload == Payload(packet, data, key)
  IN  IF ~HasHeader(packet) \/ ~IsLetIn(packet, data, key) THEN None
      ELSE CASE Control(packet).type = Management -> ManagementReceived(own, packet, payload)
             [] Control(packet).type = Data ->
                  DataReceived(own, packet, payload, SequenceOf(packet, data, key))

=============================================================================
