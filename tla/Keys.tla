-------------------------------- MODULE Keys --------------------------------
(***************************************************************************)
(* The keys of src/key.c, and the paths of packet_data.c and packet.c that *)
(* use them: threads that install and remove keys, first in the driver and *)
(* then in the list; threads that transmit, and look at the list in three  *)
(* critical sections per frame; receivers, which look at it in two.        *)
(*                                                                         *)
(* One action is one critical section of key_spinlock or one call to the   *)
(* driver.                                                                 *)
(*                                                                         *)
(* A definition named X_Y, with a capital Y, is X with a defect; no action *)
(* uses it.                                                                *)
(***************************************************************************)
EXTENDS Integers, Sequences, SequencesExt

CONSTANTS
  Configurators,   \* threads that call u80211_set_key and u80211_del_key
  Transmitters,    \* threads that call u80211_transmit_buffer
  Receivers,       \* CPUs that run u80211_process_packet on a protected frame
  Peers,           \* addresses of access points
  Own, Group,      \* the device's address; the addresses of groups
  Identities,      \* what tells keys apart: index, peer and flags
  Ciphers,         \* what a key may be for
  Installations,   \* one for each call of u80211_set_key: a bound
  RxStarts,        \* received sequences a key may be installed with
  SequenceSize,    \* 6 bytes
  ByteMax,         \* UINT8_MAX
  None

Flags == {"PAIRWISE", "GROUP", "RX", "TX"}
Supported == {"CCMP", "TKIP"}
Sequence == [0 .. SequenceSize - 1 -> 0 .. ByteMax]

VARIABLES
  keys,           \* device->keys, the list of u80211_key_metadata_t
  driver,         \* the key the driver has for each identity
  unused,         \* installations not made yet
  configurator, transmitter, receiver,
  \* What happened so far; no guard reads these.
  given,          \* sequences given to frames, by installation
  accepted,       \* sequences of frames let in, by installation, with the one it began with
  crossed         \* identities whose calls have crossed: see CrossedBy

vars == <<keys, driver, unused, configurator, transmitter, receiver, given, accepted, crossed>>

Metadata == [installation : Installations, id : Identities, cipher : Ciphers,
             rx_sequence : Sequence, tx_sequence : Sequence]
Headers == [receiver : Peers \cup {Own, Group}, transmitter : Peers \cup {Own}]

ASSUME KeysAssumption ==
  /\ SequenceSize \in Nat \ {0} /\ ByteMax \in Nat
  /\ Own # Group /\ {Own, Group} \cap Peers = {}
  /\ Identities \subseteq [index : Nat, peer : Peers \cup {Own, Group}, flags : SUBSET Flags]
  /\ RxStarts \subseteq Sequence
  /\ None \notin Installations /\ None \notin Identities /\ None \notin Ciphers
  /\ None \notin Nat /\ None \notin Metadata /\ None \notin Headers

Zero == [i \in 0 .. SequenceSize - 1 |-> 0]
IdleConfigurator == [at |-> "idle", metadata |-> None, id |-> None]
IdleTransmitter == [at |-> "idle", header |-> None, key |-> None, cipher |-> None,
                    installation |-> None, sequence |-> Zero, disturbed |-> FALSE]
IdleReceiver == [at |-> "idle", header |-> None, key |-> None, cipher |-> None,
                 installation |-> None, sequence |-> Zero]

TypeOK ==
  /\ keys \in Seq(Metadata)
  /\ driver \in [Identities -> Installations \cup {None}]
  /\ unused \subseteq Installations
  /\ configurator \in [Configurators ->
       [at : {"idle", "set", "delete"}, metadata : Metadata \cup {None},
        id : Identities \cup {None}]]
  /\ transmitter \in [Transmitters ->
       [at : {"idle", "cipher", "sequence", "transmit"}, header : Headers \cup {None},
        key : Nat \cup {None}, cipher : Ciphers \cup {None},
        installation : Installations \cup {None}, sequence : Sequence, disturbed : BOOLEAN]]
  /\ receiver \in [Receivers ->
       [at : {"idle", "validate", "deliver"}, header : Headers \cup {None},
        key : Nat \cup {None}, cipher : Ciphers \cup {None},
        installation : Installations \cup {None}, sequence : Sequence]]
  /\ given \subseteq Installations \X Sequence
  /\ accepted \subseteq Installations \X Sequence
  /\ crossed \subseteq Identities

Init ==
  /\ keys = <<>>
  /\ driver = [id \in Identities |-> None]
  /\ unused = Installations
  /\ configurator = [c \in Configurators |-> IdleConfigurator]
  /\ transmitter = [t \in Transmitters |-> IdleTransmitter]
  /\ receiver = [r \in Receivers |-> IdleReceiver]
  /\ given = {} /\ accepted = {} /\ crossed = {}

-----------------------------------------------------------------------------
(***************************************************************************)
(* Sequences: numbers, least significant byte first.                       *)
(***************************************************************************)

sequence_is_newer_OrEqual(sequence, previous) ==
  \/ sequence = previous
  \/ \E i \in DOMAIN sequence :
       /\ sequence[i] > previous[i]
       /\ \A j \in DOMAIN sequence : j > i => sequence[j] = previous[j]

\* The most significant byte in which the two differ decides.
sequence_is_newer(sequence, previous) ==
  \E i \in DOMAIN sequence :
    /\ sequence[i] > previous[i]
    /\ \A j \in DOMAIN sequence : j > i => sequence[j] = previous[j]

CarryEnd_NoCarry(sequence) == 0
\* The first byte that is not at its end, SequenceSize if all are.
CarryEnd(sequence) ==
  CHOOSE i \in 0 .. SequenceSize :
    /\ i = SequenceSize \/ sequence[i] # ByteMax
    /\ \A j \in 0 .. i - 1 : sequence[j] = ByteMax

CanIncrement_Always(sequence) == TRUE
CanIncrement(sequence) == CarryEnd(sequence) # SequenceSize

Below_NotReset(sequence, i) == sequence[i]
\* What becomes of a byte below the one that is incremented.
Below(sequence, i) == 0

increment_sequence(sequence) ==
  [i \in 0 .. SequenceSize - 1 |->
     IF i < CarryEnd(sequence) THEN Below(sequence, i)
     ELSE IF i = CarryEnd(sequence) THEN sequence[i] + 1 ELSE sequence[i]]

-----------------------------------------------------------------------------
(***************************************************************************)
(* Looking for a key.                                                      *)
(***************************************************************************)

\* The device transmits a frame on behalf of itself only: one with another source
\* counts as received.
IsTx(header) == header.transmitter = Own

PeerOf_AlwaysSource(header) == header.transmitter
PeerOf(header) == IF IsTx(header) THEN header.receiver ELSE header.transmitter

key_matches_header(metadata, header) ==
  LET group == header.receiver = Group
  IN  /\ (IF IsTx(header) THEN "TX" ELSE "RX") \in metadata.id.flags
      /\ (IF group THEN "GROUP" ELSE "PAIRWISE") \in metadata.id.flags
      /\ group \/ metadata.id.peer = PeerOf(header)

\* The places in the list of the keys a header may use ...
Matching(header) == {i \in 1 .. Len(keys) : key_matches_header(keys[i], header)}
\* ... and of those with an index.
MatchingIndex(header, index) == {i \in Matching(header) : keys[i].id.index = index}

\* select_key and select_key_by_index take the first of these.
IsFirst(i, places) == i \in places /\ \A j \in places : i <= j

-----------------------------------------------------------------------------
(***************************************************************************)
(* u80211_set_key and u80211_del_key.  When memory is short or the driver  *)
(* refuses, nothing changes, and there is no action.                       *)
(***************************************************************************)

\* Frames on their way when the driver's keys change.
Disturb == transmitter' = [t \in Transmitters |->
  IF transmitter[t].at = "idle" THEN transmitter[t] ELSE [transmitter[t] EXCEPT !.disturbed = TRUE]]

Configuring == \E c \in Configurators : configurator[c].at # "idle"
\* The identities that some thread is between the driver and the list with.
Changing == {configurator[c].id : c \in {d \in Configurators : configurator[d].at # "idle"}}

\* Nothing keeps the calls about an identity apart: a call to the driver may come
\* between another's call to the driver and its change of the list.  They have
\* crossed then, until a call to the driver that meets none.
CrossedBy(id) == IF id \in Changing THEN crossed \cup {id} ELSE crossed \ {id}

SetDriver(c, id, cipher, rx, installation) ==
  /\ configurator[c].at = "idle"
  /\ unused' = unused \ {installation}
  /\ driver' = [driver EXCEPT ![id] = installation]
  /\ configurator' = [configurator EXCEPT ![c] =
       [at |-> "set", id |-> id,
        metadata |-> [installation |-> installation, id |-> id, cipher |-> cipher,
                      rx_sequence |-> rx, tx_sequence |-> Zero]]]
  /\ Disturb
  /\ accepted' = accepted \cup {<<installation, rx>>}
  /\ crossed' = CrossedBy(id)
  /\ UNCHANGED <<keys, receiver, given>>

Removed_Nothing(id) == keys

\* The list without the first key of an identity.
Removed(id) ==
  LET same == {i \in 1 .. Len(keys) : keys[i].id = id}
  IN  IF same = {} THEN keys ELSE RemoveAt(keys, CHOOSE i \in same : \A j \in same : i <= j)

SetList(c) ==
  /\ configurator[c].at = "set"
  /\ keys' = <<configurator[c].metadata>> \o Removed(configurator[c].id)
  /\ configurator' = [configurator EXCEPT ![c] = IdleConfigurator]
  /\ UNCHANGED <<driver, unused, transmitter, receiver, given, accepted, crossed>>

\* The driver may grant the removal of a key it does not have.
DelDriver(c, id) ==
  /\ configurator[c].at = "idle"
  /\ driver' = [driver EXCEPT ![id] = None]
  /\ configurator' = [configurator EXCEPT ![c] = [@ EXCEPT !.at = "delete", !.id = id]]
  /\ Disturb
  /\ crossed' = CrossedBy(id)
  /\ UNCHANGED <<keys, unused, receiver, given, accepted>>

DelList(c) ==
  /\ configurator[c].at = "delete"
  /\ keys' = Removed(configurator[c].id)
  /\ configurator' = [configurator EXCEPT ![c] = IdleConfigurator]
  /\ UNCHANGED <<driver, unused, transmitter, receiver, given, accepted, crossed>>

-----------------------------------------------------------------------------
(***************************************************************************)
(* u80211_transmit_buffer, from the header on.                             *)
(***************************************************************************)

TransmitOnly ==
  UNCHANGED <<keys, driver, unused, configurator, receiver, given, accepted, crossed>>

\* u80211_select_key.  Without a key the frame goes out as it is; an index
\* above 3 is refused.
TxSelect(t, header) ==
  /\ transmitter[t].at = "idle"
  /\ LET chosen == [IdleTransmitter EXCEPT !.header = header, !.disturbed = Configuring]
     IN  \/ /\ Matching(header) = {}
            /\ transmitter' = [transmitter EXCEPT ![t] = [chosen EXCEPT !.at = "transmit"]]
         \/ \E i \in 1 .. Len(keys) :
              /\ IsFirst(i, Matching(header))
              /\ keys[i].id.index <= 3
              /\ transmitter' = [transmitter EXCEPT ![t] =
                   [chosen EXCEPT !.at = "cipher", !.key = keys[i].id.index]]
  /\ TransmitOnly

\* u80211_select_cipher_by_index.
TxCipher(t) ==
  /\ transmitter[t].at = "cipher"
  /\ \E i \in 1 .. Len(keys) :
       /\ IsFirst(i, MatchingIndex(transmitter[t].header, transmitter[t].key))
       /\ keys[i].cipher \in Supported
       /\ transmitter' = [transmitter EXCEPT ![t].at = "sequence", ![t].cipher = keys[i].cipher]
  /\ TransmitOnly

CountingKey_NotRechecked(i, header, index, cipher) == IsFirst(i, Matching(header))

\* The key whose counter the frame uses: for CCMP the first that matches, which
\* must have the index, for TKIP the first with the index.
CountingKey(i, header, index, cipher) ==
  /\ cipher = "CCMP" => IsFirst(i, Matching(header)) /\ keys[i].id.index = index
  /\ cipher = "TKIP" => IsFirst(i, MatchingIndex(header, index))
  /\ keys[i].cipher = cipher

Kept_Discarded(before, after) == before
\* The counter that is written back.
Kept(before, after) == after

\* u80211_key_next_tx_sequence and u80211_key_prepare_tkip_tx.
TxSequence(t) ==
  /\ transmitter[t].at = "sequence"
  /\ \E i \in 1 .. Len(keys) :
       LET next == increment_sequence(keys[i].tx_sequence)
       IN  /\ CountingKey(i, transmitter[t].header, transmitter[t].key, transmitter[t].cipher)
           /\ CanIncrement(keys[i].tx_sequence)
           /\ keys' = [keys EXCEPT ![i].tx_sequence = Kept(@, next)]
           /\ given' = given \cup {<<keys[i].installation, next>>}
           /\ transmitter' = [transmitter EXCEPT ![t].at = "transmit",
                ![t].installation = keys[i].installation, ![t].sequence = next]
  /\ UNCHANGED <<driver, unused, configurator, receiver, accepted, crossed>>

\* There is no key with the index any more, or it is for a cipher this code does
\* not know: the buffer is freed.
TxUnsupported(t) ==
  /\ transmitter[t].at = "cipher"
  /\ ~ \E i \in 1 .. Len(keys) :
       /\ IsFirst(i, MatchingIndex(transmitter[t].header, transmitter[t].key))
       /\ keys[i].cipher \in Supported
  /\ transmitter' = [transmitter EXCEPT ![t] = IdleTransmitter]
  /\ TransmitOnly

\* The key is not as it was, its counter is at its end, the buffer or the key is
\* too short: the buffer is freed.
TxNotPermitted(t) ==
  /\ transmitter[t].at = "sequence"
  /\ transmitter' = [transmitter EXCEPT ![t] = IdleTransmitter]
  /\ TransmitOnly

\* The driver has the frame.
TxTransmit(t) ==
  /\ transmitter[t].at = "transmit"
  /\ transmitter' = [transmitter EXCEPT ![t] = IdleTransmitter]
  /\ TransmitOnly

-----------------------------------------------------------------------------
(***************************************************************************)
(* u80211_process_packet, for a protected frame.  One for which there is no*)
(* key changes nothing.                                                    *)
(***************************************************************************)

ReceiveOnly ==
  UNCHANGED <<keys, driver, unused, configurator, transmitter, given, accepted, crossed>>

RxSelect(r, header, index, sequence) ==
  /\ receiver[r].at = "idle"
  /\ \E i \in 1 .. Len(keys) :
       /\ IsFirst(i, MatchingIndex(header, index))
       /\ keys[i].cipher \in Supported
       /\ receiver' = [receiver EXCEPT ![r] =
            [at |-> "validate", header |-> header, key |-> index, cipher |-> keys[i].cipher,
             installation |-> None, sequence |-> sequence]]
  /\ ReceiveOnly

\* u80211_key_update_rx_sequence and u80211_key_validate_tkip_rx let the frame in.
RxAccept(r) ==
  /\ receiver[r].at = "validate"
  /\ \E i \in 1 .. Len(keys) :
       /\ IsFirst(i, MatchingIndex(receiver[r].header, receiver[r].key))
       /\ keys[i].cipher = receiver[r].cipher
       /\ sequence_is_newer(receiver[r].sequence, keys[i].rx_sequence)
       /\ keys' = [keys EXCEPT ![i].rx_sequence = receiver[r].sequence]
       /\ accepted' = accepted \cup {<<keys[i].installation, receiver[r].sequence>>}
       /\ receiver' = [receiver EXCEPT ![r].at = "deliver",
                                       ![r].installation = keys[i].installation]
  /\ UNCHANGED <<driver, unused, configurator, transmitter, given, crossed>>

\* Not as it should be, in its sequence or otherwise.
RxDrop(r) ==
  /\ receiver[r].at = "validate"
  /\ receiver' = [receiver EXCEPT ![r] = IdleReceiver]
  /\ ReceiveOnly

\* The handler of its type has had the frame.
RxDeliver(r) ==
  /\ receiver[r].at = "deliver"
  /\ receiver' = [receiver EXCEPT ![r] = IdleReceiver]
  /\ ReceiveOnly

-----------------------------------------------------------------------------
ConfiguratorStep(c) ==
  \/ \E id \in Identities, cipher \in Ciphers, rx \in RxStarts, installation \in unused :
       SetDriver(c, id, cipher, rx, installation)
  \/ SetList(c)
  \/ \E id \in Identities : DelDriver(c, id)
  \/ DelList(c)

\* Frames go to the access point, from the device or on behalf of another.
TransmitterStep(t) ==
  \/ \E header \in [receiver : Peers, transmitter : Peers \cup {Own}] : TxSelect(t, header)
  \/ TxCipher(t) \/ TxUnsupported(t) \/ TxSequence(t) \/ TxNotPermitted(t) \/ TxTransmit(t)

\* Cipher headers hold two bits of the index.
ReceiverStep(r) ==
  \/ \E header \in Headers, index \in 0 .. 3, sequence \in Sequence :
       RxSelect(r, header, index, sequence)
  \/ RxAccept(r) \/ RxDrop(r) \/ RxDeliver(r)

Next ==
  \/ \E c \in Configurators : ConfiguratorStep(c)
  \/ \E t \in Transmitters : TransmitterStep(t)
  \/ \E r \in Receivers : ReceiverStep(r)

Spec == Init /\ [][Next]_vars

-----------------------------------------------------------------------------
(***************************************************************************)
(* Safety.                                                                 *)
(***************************************************************************)

\* What a sequence stands for: the value of its i highest bytes, for all of them.
Number(sequence) ==
  LET value[i \in 0 .. SequenceSize] ==
        IF i = 0 THEN 0 ELSE value[i - 1] * (ByteMax + 1) + sequence[SequenceSize - i]
  IN  value[SequenceSize]

Listed(i, installation) == keys[i].installation = installation

\* An identity is in the list once, and the list and the driver have the same key
\* for it, or neither has one.  Excepted are those that a thread is between the
\* driver and the list with, and those whose calls have crossed.
ListMatchesDriver ==
  /\ \A i, j \in 1 .. Len(keys) : keys[i].id = keys[j].id => i = j
  /\ \A id \in Identities \ (Changing \cup crossed) :
       /\ driver[id] # None =>
            \E i \in 1 .. Len(keys) : keys[i].id = id /\ Listed(i, driver[id])
       /\ \A i \in 1 .. Len(keys) : keys[i].id = id => Listed(i, driver[id])

\* A frame that no installation or removal came across is handed to the driver
\* under the key whose counter it used, which the driver has, and only without one
\* if the driver has none to send to this access point with.  Excepted are the
\* identities whose calls have crossed.
TransmitsUnderDriverKey ==
  \A t \in Transmitters :
    LET frame == transmitter[t]
        fits == {id \in Identities : {"TX", "PAIRWISE"} \subseteq id.flags
                                      /\ id.peer = frame.header.receiver}
    IN  frame.at = "transmit" /\ ~frame.disturbed =>
          IF frame.installation # None
          THEN \E i \in 1 .. Len(keys) :
                 /\ Listed(i, frame.installation)
                 /\ keys[i].id.index = frame.key
                 /\ keys[i].id \in crossed \/ driver[keys[i].id] = frame.installation
          ELSE frame.header.transmitter = Own =>
                 \A id \in fits \ crossed : driver[id] = None

\* Whatever came across it, a frame has the cipher and the index of the key whose
\* counter it used, for both were looked up in critical sections of their own.
SequenceFitsCipher ==
  \A t \in Transmitters, i \in 1 .. Len(keys) :
    /\ transmitter[t].at = "transmit"
    /\ transmitter[t].installation # None
    /\ Listed(i, transmitter[t].installation)
    => keys[i].cipher = transmitter[t].cipher /\ keys[i].id.index = transmitter[t].key

\* A sequence is given to one frame of an installation at most, and to later
\* frames higher ones: the counter neither stands still nor wraps.
SequencesFresh ==
  [][\A t \in Transmitters :
       transmitter[t].at = "sequence" /\ transmitter'[t].at = "transmit" =>
         \A g \in given : g[1] = transmitter'[t].installation =>
           sequence_is_newer(transmitter'[t].sequence, g[2])]_vars

\* A frame uses the number after the one its key used last: none is left out, and
\* the carry goes where it should.
SequencesCount ==
  [][\A i \in 1 .. Len(keys), j \in 1 .. Len(keys') :
       /\ Listed(i, keys'[j].installation)
       /\ keys[i].tx_sequence # keys'[j].tx_sequence
       => Number(keys'[j].tx_sequence) = Number(keys[i].tx_sequence) + 1]_vars

\* No frame is let in twice under an installation, nor after a later one: the
\* number of each that a receiver lets in is above all that were let in before,
\* by whichever receiver, and above the one the key was installed with.
NothingReplayed ==
  [][\A r \in Receivers :
       receiver[r].at = "validate" /\ receiver'[r].at = "deliver" =>
         \A a \in accepted : a[1] = receiver'[r].installation =>
           Number(receiver'[r].sequence) > Number(a[2])]_vars

-----------------------------------------------------------------------------
(***************************************************************************)
(* What the safety properties rest on.  Each is inductive given those      *)
(* before it.                                                              *)
(***************************************************************************)

ConfiguratorLocals ==
  \A c \in Configurators :
    /\ configurator[c].at # "idle" => configurator[c].id \in Identities
    /\ configurator[c].at = "set" => /\ configurator[c].metadata \in Metadata
                                     /\ configurator[c].metadata.id = configurator[c].id

\* The driver has these already, the list does not.
Pending ==
  {configurator[c].metadata.installation : c \in {d \in Configurators : configurator[d].at = "set"}}

\* An installation is made once, reaches the list once, and before that no frame
\* has used it.
InstalledOnce ==
  /\ unused \cap Pending = {}
  /\ \A c, d \in Configurators :
       /\ configurator[c].at = "set" /\ configurator[d].at = "set"
       /\ configurator[c].metadata.installation = configurator[d].metadata.installation
       => c = d
  /\ \A i, j \in 1 .. Len(keys) : Listed(i, keys[j].installation) => i = j
  /\ \A i \in 1 .. Len(keys) : keys[i].installation \notin unused \cup Pending
  /\ \A t \in Transmitters : transmitter[t].installation \notin unused \cup Pending
  /\ \A g \in given : g[1] \notin unused \cup Pending
  /\ \A a \in accepted : a[1] \notin unused

\* The counters of a key are at the last sequence that was given or accepted under it.
CountersLast ==
  /\ \A i \in 1 .. Len(keys), g \in given :
       Listed(i, g[1]) => keys[i].tx_sequence = g[2] \/ sequence_is_newer(keys[i].tx_sequence, g[2])
  /\ \A i \in 1 .. Len(keys), a \in accepted :
       Listed(i, a[1]) => keys[i].rx_sequence = a[2] \/ sequence_is_newer(keys[i].rx_sequence, a[2])
  /\ \A c \in Configurators, a \in accepted :
       configurator[c].at = "set" /\ a[1] = configurator[c].metadata.installation
         => a[2] = configurator[c].metadata.rx_sequence

\* What the threads have done so far about an identity whose calls have not
\* crossed: one thread at most is changing it, and the driver is where it led it.
ListFollowsDriver ==
  \A c \in Configurators :
    configurator[c].at # "idle" /\ configurator[c].id \notin crossed =>
      /\ \A d \in Configurators :
           configurator[d].at # "idle" /\ configurator[d].id = configurator[c].id => d = c
      /\ driver[configurator[c].id] =
           IF configurator[c].at = "set" THEN configurator[c].metadata.installation ELSE None

\* A frame that nothing came across was begun, and is, between two changes.
UndisturbedFrames ==
  \A t \in Transmitters :
    transmitter[t].at # "idle" /\ ~transmitter[t].disturbed => ~Configuring

=============================================================================
