---------------------------- MODULE Transmission ----------------------------
(***************************************************************************)
(* The buffers of src/packet_data.c and src/packet_management.c, on their  *)
(* way from the driver to a user, through the library and back, while the  *)
(* link and the key come and go; and what a device that runs the same code *)
(* makes of the frames when they arrive there.                             *)
(*                                                                         *)
(* One action is one critical section of u80211_transmit_buffer and the    *)
(* work up to the next.  What the link and the key may be is left open     *)
(* here: Association and Keys have them in full.                           *)
(*                                                                         *)
(* A definition named X_Y, with a capital Y, is X with a defect; no action *)
(* uses it.                                                                *)
(***************************************************************************)
EXTENDS Frames

CONSTANTS
  Users,                     \* threads that transmit
  Own, Peer, AccessPoint,    \* addresses
  Reserved,                  \* how many bytes a user puts into a buffer
  ETHERNET_MAX_FRAME_SIZE,   \* 1514
  Installed,                 \* index and cipher of the keys there may be
  RateSets, Ssids, Elements, \* what requests are made of
  MaxFrames                  \* frames the device sends: a bound

ASSUME TransmissionAssumption ==
  /\ ETHERNET_MAX_FRAME_SIZE \in Nat /\ Reserved \subseteq Nat
  /\ \A k \in Installed : k = [index |-> k.index, cipher |-> k.cipher] /\ k.index \in Nat
  /\ RateSets \subseteq SUBSET Nat
  /\ \A string \in Ssids \cup Elements : string \in Seq(Nat)

TX_BUFFER_HEADROOM == 64
TX_BUFFER_TAILROOM == TKIP_MIC_SIZE
MANAGEMENT_HEADER_SIZE == 24

VARIABLES
  associated,            \* the device is ASSOCIATED, and has device->ap
  key,                   \* the key that is found for frames to the access point
  tx_sequence_control,
  call,                  \* of each thread: its call of u80211_transmit_buffer
  sent                   \* what the driver was given in the last step, if anything

vars == <<associated, key, tx_sequence_control, call, sent>>

-----------------------------------------------------------------------------
(***************************************************************************)
(* Descriptors.  bytes are those from current_offset to size; allocated and*)
(* start say how much the driver allocated, and where in that data points. *)
(***************************************************************************)

Unwritten == <<None, 0>>   \* a byte that was allocated and nobody wrote

AllocatedByDriver(size) ==
  [allocated |-> size, start |-> 0, size |-> size, current_offset |-> size, bytes |-> <<>>]

HasSpace(descriptor, size) == size <= descriptor.current_offset

u80211_descriptor_allocate_space(descriptor, size) ==
  [descriptor EXCEPT !.current_offset = @ - size,
                     !.bytes = [i \in 1 .. size |-> Unwritten] \o @]

\* Writes to where the descriptor begins.
Put(bytes, descriptor) ==
  [descriptor EXCEPT !.bytes = bytes \o SubSeq(@, Len(bytes) + 1, Len(@))]

Prepended(bytes, descriptor) ==
  Put(bytes, u80211_descriptor_allocate_space(descriptor, Len(bytes)))

Trimmed_NoTailroom(descriptor) ==
  [descriptor EXCEPT !.start = @ + TX_BUFFER_HEADROOM,
                     !.size = @ - TX_BUFFER_HEADROOM,
                     !.current_offset = @ - TX_BUFFER_HEADROOM]

\* u80211_allocate_tx_buffer: the user sees neither the headroom nor the tailroom,
\* which is for the code of TKIP.
Trimmed(descriptor) ==
  [descriptor EXCEPT !.start = @ + TX_BUFFER_HEADROOM,
                     !.size = @ - (TX_BUFFER_HEADROOM + TX_BUFFER_TAILROOM),
                     !.current_offset = @ - (TX_BUFFER_HEADROOM + TX_BUFFER_TAILROOM)]

\* u80211_transmit_buffer begins by giving the headroom back.
Untrimmed(descriptor) ==
  [descriptor EXCEPT !.start = @ - TX_BUFFER_HEADROOM,
                     !.size = @ + TX_BUFFER_HEADROOM,
                     !.current_offset = @ + TX_BUFFER_HEADROOM]

FrameSize(descriptor) == descriptor.size - descriptor.current_offset

WithoutEthernetHeader(descriptor) ==
  [descriptor EXCEPT !.current_offset = @ + ETHERNET_HEADER_SIZE,
                     !.bytes = SubSeq(@, ETHERNET_HEADER_SIZE + 1, Len(@))]

\* The code comes after the data.
WithMic(descriptor, mic) ==
  [descriptor EXCEPT !.bytes = @ \o mic, !.size = @ + TKIP_MIC_SIZE]

-----------------------------------------------------------------------------
(***************************************************************************)
(* u80211_transmit_buffer.                                                 *)
(***************************************************************************)

Idle == [at |-> "idle", frame |-> None, descriptor |-> None, header |-> None,
         key |-> None, sequence |-> 0, disposals |-> 0]

Fresh == {[index |-> k.index, cipher |-> k.cipher, counter |-> 0] : k \in Installed}

Init ==
  /\ associated \in BOOLEAN
  /\ key \in {None} \cup Fresh
  /\ tx_sequence_control = 0
  /\ call = [u \in Users |-> Idle]
  /\ sent = None

NothingSent == sent' = None

\* Every frame takes the next sequence control.
TakesSequenceControl ==
  /\ tx_sequence_control < 16 * MaxFrames
  /\ tx_sequence_control' = (tx_sequence_control + 16) % 65536

\* An ethernet frame to an address, or as much of it as a user has reserved.
EthernetFrame(destination, size) ==
  SubSeq(Bytes(destination, 6) \o Bytes(Own, 6) \o Bytes([ethertype |-> size], 2)
           \o Bytes([payload |-> size], size), 1, size)

\* u80211_allocate_tx_buffer, the user who fills the buffer, and the first lines of
\* u80211_transmit_buffer.
Begin(u, destination, size) ==
  LET descriptor == Trimmed(AllocatedByDriver(
        ETHERNET_MAX_FRAME_SIZE + TX_BUFFER_HEADROOM + TX_BUFFER_TAILROOM))
      frame == EthernetFrame(destination, size)
  IN  /\ call[u].at = "idle"
      /\ HasSpace(descriptor, size)
      /\ call' = [call EXCEPT ![u] = [Idle EXCEPT
           !.at = "transmit", !.frame = [destination |-> destination, bytes |-> frame],
           !.descriptor = Untrimmed(Prepended(frame, descriptor))]]
      /\ NothingSent
      /\ UNCHANGED <<associated, key, tx_sequence_control>>

Consumed(u) == call' = [call EXCEPT ![u].at = "returned", ![u].disposals = @ + 1]

\* free_tx_buffer, and the error is returned.
Freed(u) ==
  /\ Consumed(u)
  /\ NothingSent
  /\ UNCHANGED <<associated, key, tx_sequence_control>>

Proceeds(u, next) == call' = [call EXCEPT ![u] = next] /\ NothingSent

\* There is no link, or the frame is shorter than its header.
TransmitRefused(u) ==
  /\ call[u].at = "transmit"
  /\ associated => FrameSize(call[u].descriptor) < ETHERNET_HEADER_SIZE
  /\ Freed(u)

\* From the critical section of association_spinlock to the lookup of a key.
Transmit(u) ==
  LET descriptor == call[u].descriptor
      ethernet(first, size) == Window(descriptor.bytes, first, size)
  IN  /\ call[u].at = "transmit"
      /\ associated
      /\ FrameSize(descriptor) >= ETHERNET_HEADER_SIZE
      /\ TakesSequenceControl
      /\ Proceeds(u, [call[u] EXCEPT !.at = "key",
           !.descriptor = Prepended(LlcSnap \o ethernet(12, 2), WithoutEthernetHeader(@)),
           !.header =
             [control |-> FrameControl(Data, 0, TRUE, FALSE),
              sequence_control |-> tx_sequence_control,
              addresses |-> <<AccessPoint, Value(ethernet(6, 6)), Value(ethernet(0, 6))>>]])
      /\ UNCHANGED <<associated, key>>

KeyUnchanged == UNCHANGED <<associated, key, tx_sequence_control>>

\* u80211_select_key.
SelectNoKey(u) ==
  /\ call[u].at = "key"
  /\ key = None
  /\ Proceeds(u, [call[u] EXCEPT !.at = "serialize"]) /\ KeyUnchanged

\* Headers of ciphers have two bits for the index.
SelectKey(u) ==
  /\ call[u].at = "key"
  /\ key # None /\ key.index <= 3
  /\ Proceeds(u, [call[u] EXCEPT !.at = "cipher", !.key = key]) /\ KeyUnchanged

IndexRefused_NotFreed(u) ==
  /\ call[u].at = "key"
  /\ key # None /\ key.index > 3
  /\ Proceeds(u, [call[u] EXCEPT !.at = "returned"]) /\ KeyUnchanged

IndexRefused(u) ==
  /\ call[u].at = "key"
  /\ key # None /\ key.index > 3
  /\ Freed(u)

IsStillThere(u) == key # None /\ key.index = call[u].key.index

\* u80211_select_cipher_by_index.
SelectCipher(u) ==
  /\ call[u].at = "cipher"
  /\ IsStillThere(u) /\ key.cipher \in {"CCMP", "TKIP"}
  /\ Proceeds(u, [call[u] EXCEPT !.at = "protect", !.key = key]) /\ KeyUnchanged

Unsupported(u) ==
  /\ call[u].at = "cipher"
  /\ IsStillThere(u) => key.cipher \notin {"CCMP", "TKIP"}
  /\ Freed(u)

\* There is room for the header, and the key has still the index and the cipher.
MayProtect(u) ==
  /\ HasSpace(call[u].descriptor, CCMP_HEADER_SIZE)
  /\ IsStillThere(u) /\ key.cipher = call[u].key.cipher

\* The next number of the key is taken.
Protected(u, descriptor) ==
  /\ MayProtect(u)
  /\ Proceeds(u, [call[u] EXCEPT !.at = "serialize", !.sequence = key.counter + 1,
                                 !.descriptor = descriptor, !.header.control.protected = TRUE])
  /\ key' = [key EXCEPT !.counter = @ + 1]
  /\ UNCHANGED <<associated, tx_sequence_control>>

prepare_ccmp_tx(u) ==
  /\ call[u].at = "protect" /\ call[u].key.cipher = "CCMP"
  /\ Protected(u, Prepended(CcmpHeader(call[u].key.index, SequenceBytes(key.counter + 1)),
                            call[u].descriptor))

prepare_tkip_tx(u) ==
  LET header == call[u].header
      mic == Michael([destination |-> header.addresses[3], source |-> header.addresses[2]],
                     call[u].descriptor.bytes)
  IN  /\ call[u].at = "protect" /\ call[u].key.cipher = "TKIP"
      /\ Protected(u, WithMic(Prepended(
           TkipHeader(call[u].key.index, SequenceBytes(key.counter + 1)), call[u].descriptor), mic))

NotPermitted(u) ==
  /\ call[u].at = "protect"
  /\ ~MayProtect(u)
  /\ Freed(u)

\* What the driver is given.  Its origin is the ethernet frame of a user, None if it
\* is of the library.
Frame(origin, descriptor, usedKey, sequence) ==
  [origin |-> origin, descriptor |-> descriptor, key |-> usedKey, sequence |-> sequence]

\* The header, and the frame is transmitted; or freed, were there no room.
Serialize(u) ==
  LET header == u80211_serialize_header(call[u].header)
  IN  /\ call[u].at = "serialize"
      /\ sent' = IF HasSpace(call[u].descriptor, Len(header))
                 THEN Frame(call[u].frame, Prepended(header, call[u].descriptor),
                            call[u].key, call[u].sequence)
                 ELSE None
      /\ Consumed(u)
      /\ KeyUnchanged

Return(u) ==
  /\ call[u].at = "returned"
  /\ Proceeds(u, Idle) /\ KeyUnchanged

UserStep(u) ==
  \/ \E destination \in {Peer, Group}, size \in Reserved : Begin(u, destination, size)
  \/ TransmitRefused(u) \/ Transmit(u) \/ SelectNoKey(u) \/ SelectKey(u) \/ IndexRefused(u)
  \/ SelectCipher(u) \/ Unsupported(u) \/ prepare_ccmp_tx(u) \/ prepare_tkip_tx(u)
  \/ NotPermitted(u) \/ Serialize(u) \/ Return(u)

\* The link comes up or is lost.
Link ==
  /\ associated' = ~associated
  /\ NothingSent
  /\ UNCHANGED <<key, tx_sequence_control, call>>

\* A key is installed, in the place of the one there was, or removed.
ChangeKey ==
  /\ key' \in {None} \cup Fresh
  /\ NothingSent
  /\ UNCHANGED <<associated, tx_sequence_control, call>>

-----------------------------------------------------------------------------
(***************************************************************************)
(* The management frames the device sends.                                 *)
(***************************************************************************)

\* Fields of two bytes.
Fields(names) ==
  [i \in 1 .. 2 * Len(names) |-> <<[field |-> names[(i + 1) \div 2]], IF i % 2 = 1 THEN 1 ELSE 2>>]

AsBytes(numbers) == [i \in DOMAIN numbers |-> <<[byte |-> numbers[i]], i>>]

u80211_send_authentication ==
  [subtype |-> 11, address |-> AccessPoint, size |-> 6,
   data |-> Fields(<<"auth_algorithm", "auth_transaction", "status">>)]

u80211_send_deauthentication ==
  [subtype |-> 12, address |-> AccessPoint, size |-> 2, data |-> Fields(<<"reason">>)]

u80211_send_probe_request(rates) ==
  [subtype |-> 4, address |-> Group, size |-> probe_request_data_size(rates),
   data |-> AsBytes(probe_request_data(rates))]

u80211_send_association_request(ssid, rates, elements) ==
  [subtype |-> 0, address |-> AccessPoint,
   size |-> association_request_data_size(ssid, rates, elements),
   data |-> AsBytes(association_request_data(ssid, rates, elements))]

Requests ==
  {u80211_send_authentication, u80211_send_deauthentication}
    \cup {u80211_send_probe_request(rates) : rates \in RateSets}
    \cup {u80211_send_association_request(r[1], r[2], r[3]) : r \in Ssids \X RateSets \X Elements}

prepare_management_packet(request) ==
  LET allocated == AllocatedByDriver(MANAGEMENT_HEADER_SIZE + request.size)
  IN  Prepended(
        u80211_serialize_header(
          [control |-> FrameControl(Management, request.subtype, FALSE, FALSE),
           sequence_control |-> tx_sequence_control,
           addresses |-> <<request.address, Own, request.address>>]),
        Put(request.data, u80211_descriptor_allocate_space(allocated, request.size)))

SendManagement(request) ==
  /\ TakesSequenceControl
  /\ sent' = Frame(None, prepare_management_packet(request), None, 0)
  /\ UNCHANGED <<associated, key, call>>

-----------------------------------------------------------------------------
(***************************************************************************)
(* What an access point sends: the data it was given, in any form there is,*)
(* and answers.                                                            *)
(***************************************************************************)

AirHeader(control, addresses) ==
  Bytes(control, 2) \o Bytes([duration |-> 1], 2)
    \o Bytes(addresses[1], 6) \o Bytes(addresses[2], 6) \o Bytes(addresses[3], 6)
    \o Bytes([sequence_control |-> 0], 2)
    \o (IF Len(addresses) = 4 THEN Bytes(addresses[4], 6) ELSE <<>>)

Forms == {"direct", "to", "from", "both"}

RelayAddresses(form, own) ==
  LET destination == sent.origin.destination
  IN  CASE form = "direct" -> <<destination, Own, AccessPoint>>
        [] form = "from" -> <<destination, AccessPoint, Own>>
        [] form = "to" -> <<own, Own, destination>>
        [] form = "both" -> <<own, AccessPoint, destination, Own>>

\* The code of CCMP and the check of TKIP are added by the devices.
Trailer ==
  IF sent.key = None THEN <<>>
  ELSE IF sent.key.cipher = "CCMP" THEN Bytes([trailer |-> "mic"], CCMP_MIC_SIZE)
  ELSE Bytes([trailer |-> "icv"], TKIP_ICV_SIZE)

\* The frame that was just sent, on its way to a device.
Relayed(form, own) ==
  LET control == FrameControl(Data, 0, form \in {"to", "both"}, form \in {"from", "both"})
      bytes == sent.descriptor.bytes
  IN  AirHeader([control EXCEPT !.protected = sent.key # None], RelayAddresses(form, own))
        \o SubSeq(bytes, MANAGEMENT_HEADER_SIZE + 1, Len(bytes)) \o Trailer

\* By the standard; 8 is a beacon.
AnswerFields(subtype) ==
  CASE subtype = 1 -> <<"capabilities", "status", "association_id">>
    [] subtype \in {5, 8} -> <<"interval", "capabilities">>
    [] subtype = 11 -> <<"auth_algorithm", "auth_transaction", "status">>
    [] subtype \in {10, 12} -> <<"reason">>

AnswerElements(subtype) == IF subtype \in {1, 5, 8} THEN Bytes([elements |-> subtype], 3) ELSE <<>>

AnswerPacket(answer) ==
  AirHeader(FrameControl(Management, answer.subtype, FALSE, FALSE),
            <<answer.to, AccessPoint, answer.bss>>)
    \o (IF answer.subtype \in {5, 8} THEN Bytes([timestamp |-> 0], 8) ELSE <<>>)
    \o Fields(AnswerFields(answer.subtype)) \o AnswerElements(answer.subtype)

Answers == [subtype : {1, 5, 8, 10, 11, 12}, to : {Own, Peer, Group}, bss : {AccessPoint, Peer}]

-----------------------------------------------------------------------------
Next ==
  \/ \E u \in Users : UserStep(u)
  \/ Link \/ ChangeKey
  \/ \E request \in Requests : SendManagement(request)

Spec == Init /\ [][Next]_vars

\* A descriptor stays inside of what the driver allocated, and says how many bytes
\* there are.
DescriptorOK(descriptor) ==
  /\ descriptor.start >= 0 /\ descriptor.current_offset >= 0
  /\ descriptor.current_offset <= descriptor.size
  /\ descriptor.start + descriptor.size <= descriptor.allocated
  /\ Len(descriptor.bytes) = FrameSize(descriptor)

SequenceControls == 0 .. 65535   \* sixteen bits

Places == {"idle", "transmit", "key", "cipher", "protect", "serialize", "returned"}

\* A key is one of those there may be, and has been used some number of times.
KeyInstalled ==
  key # None =>
    [index |-> key.index, cipher |-> key.cipher] \in Installed /\ key.counter \in Nat

\* The buffer of a call is as it should be as long as the call has it.
BufferOK(u) ==
  /\ call[u].at \in Places
  /\ call[u].at \notin {"idle", "returned"} => DescriptorOK(call[u].descriptor)

\* The types; and that every descriptor is as it should be, whoever has it.
TypeOK ==
  /\ associated \in BOOLEAN
  /\ KeyInstalled
  /\ tx_sequence_control \in SequenceControls
  /\ \A u \in Users : BufferOK(u)
  /\ sent # None => DescriptorOK(sent.descriptor)

\* u80211_transmit_buffer consumes the buffer whatever it returns, and once; there
\* is always room for the headers; and in what the driver is given every byte was
\* written, though the size was reckoned before.
BuffersConsumed ==
  /\ \A u \in Users : call[u].disposals = (IF call[u].at = "returned" THEN 1 ELSE 0)
  /\ \A u \in Users : call[u].at = "serialize" =>
       HasSpace(call[u].descriptor, Len(u80211_serialize_header(call[u].header)))
  /\ sent # None => Unwritten \notin ToSet(sent.descriptor.bytes)

\* A device that receives a frame that is meant for it hands on just the ethernet
\* frame a user transmitted, under every cipher and in every form it may be relayed
\* in, and reads the sequence it was sent with.  Of a frame of which only the first
\* bytes arrive it hands on nothing or the beginning, and nothing under TKIP.
DataAsSent ==
  sent # None /\ sent.origin # None =>
    \A own \in {Own, Peer}, form \in Forms :
      LET packet == Relayed(form, own)
          meant == RelayAddresses(form, own)[1] \in {own, Group}
      IN  \A size \in 0 .. Len(packet) :
            LET outcome == u80211_process_packet(own, SubSeq(packet, 1, size), sent.key)
            IN  /\ outcome # None =>
                     /\ meant
                     /\ IsPrefix(outcome.frame, sent.origin.bytes)
                     /\ sent.key # None => outcome.sequence = [sequence |-> sent.sequence]
                     /\ sent.key # None /\ sent.key.cipher = "TKIP" => size = Len(packet)
                /\ meant /\ size = Len(packet) =>
                     outcome # None /\ outcome.frame = sent.origin.bytes

\* The handlers of management frames are called for what an access point sent to
\* this device, or to all where that is allowed, under its own name; they read what
\* it wrote and nothing beyond the end of the frame.
AnswerAsSent(answer) ==
  LET packet == AnswerPacket(answer)
      names == AnswerFields(answer.subtype)
      meant == /\ answer.to = Own \/ (answer.to = Group /\ answer.subtype \in {10, 12})
               /\ answer.bss = AccessPoint
               /\ answer.subtype # 8
  IN  \A size \in 0 .. Len(packet) :
        LET outcome == u80211_process_packet(Own, SubSeq(packet, 1, size), None)
        IN  /\ outcome # None =>
                 /\ meant /\ outcome.address = AccessPoint
                 /\ outcome.fields = [i \in DOMAIN names |-> [field |-> names[i]]]
                 /\ IsPrefix(outcome.elements, AnswerElements(answer.subtype))
            /\ meant /\ size = Len(packet) =>
                 outcome # None /\ outcome.elements = AnswerElements(answer.subtype)

=============================================================================
