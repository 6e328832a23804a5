------------------------------ MODULE KeysProofs ------------------------------
(***************************************************************************)
(* Proofs about Keys, in layers: types; every installation in one place    *)
(* (InstalledOnce); the counters of a key at the last sequence that was    *)
(* used under it (CountersLast); from these, what frames are given and     *)
(* what is let in, and that the list follows the driver.                   *)
(*                                                                         *)
(* What an action does to the list and to a frame is said once, by         *)
(* ListMove and FrameMoves, and the layers are proved from that.           *)
(***************************************************************************)
EXTENDS Keys, TLAPS, SequenceTheorems, WellFoundedInduction

\* Numbers that are not none have a least.
LEMMA LeastNumber ==
  ASSUME NEW T, T \subseteq Nat, T # {}
  PROVE  \E x \in T : \A y \in T : x <= y
<1>1. PICK x \in T : \A y \in T : <<y, x>> \notin OpToRel(<, Nat)
  BY NatLessThanWellFounded, WFMin, Zenon
<1>2. ASSUME NEW y \in T PROVE x <= y
  <2>1. ~(y < x) BY <1>1 DEF OpToRel
  <2> QED BY <2>1
<1> QED BY <1>2

\* CarryEnd is the first byte that is not at its end.
LEMMA CarryEndProperties ==
  ASSUME NEW s \in Sequence
  PROVE  /\ CarryEnd(s) \in 0 .. SequenceSize
         /\ CarryEnd(s) = SequenceSize \/ s[CarryEnd(s)] # ByteMax
         /\ \A j \in 0 .. CarryEnd(s) - 1 : s[j] = ByteMax
<1> DEFINE ends == {i \in 0 .. SequenceSize : i = SequenceSize \/ s[i] # ByteMax}
<1>1. SequenceSize \in Nat \ {0} BY KeysAssumption
<1>2. ends \subseteq Nat /\ SequenceSize \in ends BY <1>1
<1> HIDE DEF ends
<1>3. PICK i \in ends : \A j \in ends : i <= j BY <1>2, LeastNumber
<1>4. \A j \in 0 .. i - 1 : s[j] = ByteMax BY <1>1, <1>3 DEF ends
<1>5. \E n \in 0 .. SequenceSize :
        /\ n = SequenceSize \/ s[n] # ByteMax
        /\ \A j \in 0 .. n - 1 : s[j] = ByteMax
  BY <1>3, <1>4 DEF ends
<1> QED BY <1>5 DEF CarryEnd

\* The next sequence is one, and newer.
LEMMA Increments ==
  ASSUME NEW s \in Sequence, CanIncrement(s)
  PROVE  /\ increment_sequence(s) \in Sequence
         /\ sequence_is_newer(increment_sequence(s), s)
<1> DEFINE e == CarryEnd(s)
<1>1. SequenceSize \in Nat \ {0} /\ ByteMax \in Nat BY KeysAssumption
<1>2. e \in 0 .. SequenceSize - 1 /\ s[e] # ByteMax
  BY <1>1, CarryEndProperties DEF CanIncrement
<1>3. \A i \in 0 .. SequenceSize - 1 : s[i] \in 0 .. ByteMax BY <1>1 DEF Sequence
<1> HIDE DEF e
<1>4. increment_sequence(s) = [i \in 0 .. SequenceSize - 1 |->
        IF i < e THEN 0 ELSE IF i = e THEN s[i] + 1 ELSE s[i]]
  BY DEF e, increment_sequence, Below
<1>5. increment_sequence(s) \in Sequence BY <1>1, <1>2, <1>3, <1>4 DEF Sequence
<1>6. /\ increment_sequence(s)[e] > s[e]
      /\ \A j \in 0 .. SequenceSize - 1 : j > e => increment_sequence(s)[j] = s[j]
  BY <1>1, <1>2, <1>3, <1>4
<1> QED BY <1>2, <1>4, <1>5, <1>6 DEF sequence_is_newer

\* Newer than what is newer is newer.
LEMMA NewerTransitive ==
  ASSUME NEW s \in Sequence, NEW t \in Sequence, NEW u \in Sequence,
         sequence_is_newer(s, t), sequence_is_newer(t, u)
  PROVE  sequence_is_newer(s, u)
<1>1. SequenceSize \in Nat \ {0} /\ ByteMax \in Nat BY KeysAssumption
<1>2. /\ DOMAIN s = 0 .. SequenceSize - 1 /\ DOMAIN t = 0 .. SequenceSize - 1
      /\ \A i \in 0 .. SequenceSize - 1 : s[i] \in Int /\ t[i] \in Int /\ u[i] \in Int
  BY <1>1 DEF Sequence
<1>3. PICK i \in 0 .. SequenceSize - 1 :
        s[i] > t[i] /\ \A k \in 0 .. SequenceSize - 1 : k > i => s[k] = t[k]
  BY <1>2 DEF sequence_is_newer
<1>4. PICK j \in 0 .. SequenceSize - 1 :
        t[j] > u[j] /\ \A k \in 0 .. SequenceSize - 1 : k > j => t[k] = u[k]
  BY <1>2 DEF sequence_is_newer
<1>5. PICK m \in 0 .. SequenceSize - 1 : i <= m /\ j <= m /\ (m = i \/ m = j)
  BY <1>1
<1>6. s[m] > u[m]
  <2>1. CASE i < m BY <1>2, <1>3, <1>4, <1>5, <2>1
  <2>2. CASE j < m BY <1>2, <1>3, <1>4, <1>5, <2>2
  <2>3. CASE i = m /\ j = m BY <1>2, <1>3, <1>4, <2>3
  <2> QED BY <1>1, <1>5, <2>1, <2>2, <2>3
<1>7. \A k \in 0 .. SequenceSize - 1 : k > m => s[k] = u[k]
  BY <1>1, <1>3, <1>4, <1>5
<1> QED BY <1>2, <1>6, <1>7 DEF sequence_is_newer

\* Removed leaves the list without its element p.
RemovedAt(id, p) ==
  /\ p \in Nat \ {0}
  /\ Len(Removed(id)) = IF p <= Len(keys) THEN Len(keys) - 1 ELSE Len(keys)
  /\ \A k \in 1 .. Len(Removed(id)) : Removed(id)[k] = IF k < p THEN keys[k] ELSE keys[k + 1]
  /\ p <= Len(keys) => keys[p].id = id
  /\ \A k \in 1 .. Len(keys) : k < p => keys[k].id # id

\* One key is taken out at most, the first of its identity.
LEMMA RemovedProperties ==
  ASSUME keys \in Seq(Metadata), NEW id
  PROVE  Removed(id) \in Seq(Metadata) /\ \E p : RemovedAt(id, p)
<1> DEFINE same == {i \in 1 .. Len(keys) : keys[i].id = id}
           s == keys
<1>0. Len(keys) \in Nat /\ \A i \in 1 .. Len(keys) : keys[i] \in Metadata OBVIOUS
<1>1. CASE same = {}
  <2>1. Removed(id) = keys BY <1>1 DEF Removed
  <2>2. RemovedAt(id, Len(keys) + 1) BY <1>0, <1>1, <2>1 DEF RemovedAt
  <2> QED BY <2>1, <2>2
<1>2. CASE same # {}
  <2>1. PICK p \in same : \A j \in same : p <= j
    <3>1. same \subseteq Nat BY <1>0
    <3> HIDE DEF same
    <3> QED BY <1>2, <3>1, LeastNumber
  <2>2. /\ p \in 1 .. Len(keys) /\ keys[p].id = id
        /\ \A k \in 1 .. Len(keys) : k < p => keys[k].id # id
    BY <2>1
  <2> DEFINE q == CHOOSE i \in same : \A j \in same : i <= j
  <2>3. q = p BY <1>0, <2>1
  <2>4. Removed(id) = RemoveAt(keys, q) BY <1>2 DEF Removed
  <2> HIDE DEF q, same
  <2> DEFINE a == SubSeq(keys, 1, p - 1)
             b == SubSeq(keys, p + 1, Len(keys))
  <2>5. Removed(id) = a \o b BY <2>3, <2>4 DEF RemoveAt
  <2>6. /\ a \in Seq(Metadata) /\ Len(a) = p - 1
        /\ \A k \in 1 .. p - 1 : a[k] = keys[k]
    <3>1. \A i \in 1 .. p - 1 : keys[i] \in Metadata BY <1>0, <2>2
    <3>2. /\ a \in Seq(Metadata) /\ Len(a) = IF 1 <= p - 1 THEN p - 1 - 1 + 1 ELSE 0
          /\ \A k \in 1 .. p - 1 - 1 + 1 : a[k] = keys[1 + k - 1]
      BY <2>2, <3>1, SubSeqProperties
    <3> QED BY <2>2, <3>2
  <2>7. /\ b \in Seq(Metadata) /\ Len(b) = Len(keys) - p
        /\ \A k \in 1 .. Len(keys) - p : b[k] = keys[k + p]
    <3>1. \A i \in p + 1 .. Len(keys) : keys[i] \in Metadata BY <1>0, <2>2
    <3>2. /\ b \in Seq(Metadata)
          /\ Len(b) = IF p + 1 <= Len(keys) THEN Len(keys) - (p + 1) + 1 ELSE 0
          /\ \A k \in 1 .. Len(keys) - (p + 1) + 1 : b[k] = keys[p + 1 + k - 1]
      BY <1>0, <2>2, <3>1, SubSeqProperties
    <3> QED BY <1>0, <2>2, <3>2
  <2> HIDE DEF a, b
  <2>8. /\ a \o b \in Seq(Metadata) /\ Len(a \o b) = Len(a) + Len(b)
        /\ \A k \in 1 .. Len(a) + Len(b) : (a \o b)[k] = IF k <= Len(a) THEN a[k] ELSE b[k - Len(a)]
    BY <2>6, <2>7, ConcatProperties
  <2>9. Len(a \o b) = Len(keys) - 1
    BY <1>0, <2>2, <2>6, <2>7, <2>8
  <2>10. ASSUME NEW k \in 1 .. Len(keys) - 1
         PROVE  (a \o b)[k] = IF k < p THEN keys[k] ELSE keys[k + 1]
    <3>1. CASE k < p
      <4>1. k \in 1 .. Len(a) + Len(b) /\ k <= Len(a) /\ k \in 1 .. p - 1
        BY <1>0, <2>2, <2>6, <2>7, <3>1
      <4>2. (a \o b)[k] = a[k] BY <2>8, <4>1
      <4>3. a[k] = keys[k] BY <2>6, <4>1
      <4> QED BY <3>1, <4>2, <4>3
    <3>2. CASE ~(k < p)
      <4>1. (a \o b)[k] = b[k - (p - 1)] BY <1>0, <2>2, <2>6, <2>7, <2>8, <3>2
      <4>2. k - (p - 1) \in 1 .. Len(keys) - p /\ k - (p - 1) + p = k + 1 BY <1>0, <2>2, <3>2
      <4>3. b[k - (p - 1)] = keys[k - (p - 1) + p] BY <2>7, <4>2
      <4> QED BY <3>2, <4>1, <4>2, <4>3
    <3> QED BY <3>1, <3>2
  <2>11. RemovedAt(id, p) BY <1>0, <2>2, <2>5, <2>9, <2>10 DEF RemovedAt
  <2> QED BY <2>5, <2>8, <2>11
<1> QED BY <1>1, <1>2
-----------------------------------------------------------------------------
(***************************************************************************)
(* Types.                                                                  *)
(***************************************************************************)

Types == TypeOK /\ ConfiguratorLocals

ConfiguratorRecords ==
  [at : {"idle", "set", "delete"}, metadata : Metadata \cup {None}, id : Identities \cup {None}]
TransmitterRecords ==
  [at : {"idle", "cipher", "sequence", "transmit"}, header : Headers \cup {None},
   key : Nat \cup {None}, cipher : Ciphers \cup {None},
   installation : Installations \cup {None}, sequence : Sequence, disturbed : BOOLEAN]
ReceiverRecords ==
  [at : {"idle", "validate", "deliver"}, header : Headers \cup {None},
   key : Nat \cup {None}, cipher : Ciphers \cup {None},
   installation : Installations \cup {None}, sequence : Sequence]

\* TypeOK, one variable at a time.
LEMMA TypesByVariable ==
  TypeOK <=>
    /\ keys \in Seq(Metadata)
    /\ driver \in [Identities -> Installations \cup {None}]
    /\ unused \subseteq Installations
    /\ configurator \in [Configurators -> ConfiguratorRecords]
    /\ transmitter \in [Transmitters -> TransmitterRecords]
    /\ receiver \in [Receivers -> ReceiverRecords]
    /\ given \subseteq Installations \X Sequence
    /\ accepted \subseteq Installations \X Sequence
    /\ crossed \subseteq Identities
  BY DEF TypeOK, ConfiguratorRecords, TransmitterRecords, ReceiverRecords

\* The same, of the next state.
LEMMA TypesNext ==
  ASSUME keys' \in Seq(Metadata), driver' \in [Identities -> Installations \cup {None}],
         unused' \subseteq Installations,
         configurator' \in [Configurators -> ConfiguratorRecords],
         transmitter' \in [Transmitters -> TransmitterRecords],
         receiver' \in [Receivers -> ReceiverRecords],
         given' \subseteq Installations \X Sequence,
         accepted' \subseteq Installations \X Sequence, crossed' \subseteq Identities,
         ConfiguratorLocals'
  PROVE  Types'
  BY DEF Types, TypeOK, ConfiguratorRecords, TransmitterRecords, ReceiverRecords

\* The sequence that keys start to transmit with.
LEMMA ZeroIsSequence == Zero \in Sequence
  BY KeysAssumption DEF Zero, Sequence

\* What is in the list.
LEMMA KeyTypes ==
  ASSUME keys \in Seq(Metadata), NEW i \in 1 .. Len(keys)
  PROVE  /\ keys[i] \in Metadata
         /\ keys[i].installation \in Installations /\ keys[i].id \in Identities
         /\ keys[i].id.index \in Nat /\ keys[i].cipher \in Ciphers
         /\ keys[i].rx_sequence \in Sequence /\ keys[i].tx_sequence \in Sequence
<1>1. keys[i] \in Metadata OBVIOUS
<1>2. Identities \subseteq [index : Nat, peer : Peers \cup {Own, Group}, flags : SUBSET Flags]
  BY KeysAssumption
<1> QED BY <1>1, <1>2 DEF Metadata

\* The frames on their way are only marked.
LEMMA DisturbType ==
  ASSUME transmitter \in [Transmitters -> TransmitterRecords], Disturb
  PROVE  /\ transmitter' \in [Transmitters -> TransmitterRecords]
         /\ \A t \in Transmitters :
              /\ transmitter'[t].at = transmitter[t].at
              /\ transmitter'[t].header = transmitter[t].header
              /\ transmitter'[t].key = transmitter[t].key
              /\ transmitter'[t].cipher = transmitter[t].cipher
              /\ transmitter'[t].installation = transmitter[t].installation
              /\ transmitter'[t].sequence = transmitter[t].sequence
              /\ transmitter[t].at # "idle" => transmitter'[t].disturbed
<1> SUFFICES ASSUME NEW t \in Transmitters
             PROVE  /\ transmitter'[t] \in TransmitterRecords
                    /\ transmitter'[t].at = transmitter[t].at
                    /\ transmitter'[t].header = transmitter[t].header
                    /\ transmitter'[t].key = transmitter[t].key
                    /\ transmitter'[t].cipher = transmitter[t].cipher
                    /\ transmitter'[t].installation = transmitter[t].installation
                    /\ transmitter'[t].sequence = transmitter[t].sequence
                    /\ transmitter[t].at # "idle" => transmitter'[t].disturbed
  <2>1. /\ DOMAIN transmitter' = Transmitters
        /\ transmitter' = [t \in Transmitters |-> transmitter'[t]]
    BY DEF Disturb
  <2> QED BY <2>1
<1>1. transmitter[t] \in TransmitterRecords OBVIOUS
<1>2. transmitter'[t] = IF transmitter[t].at = "idle" THEN transmitter[t]
                        ELSE [transmitter[t] EXCEPT !.disturbed = TRUE]
  BY DEF Disturb
<1> QED BY <1>1, <1>2 DEF TransmitterRecords

\* No device starts with keys.
LEMMA TypesInit == Init => Types
<1> SUFFICES ASSUME Init PROVE Types OBVIOUS
<1>1. /\ IdleConfigurator \in ConfiguratorRecords /\ IdleTransmitter \in TransmitterRecords
      /\ IdleReceiver \in ReceiverRecords
  BY ZeroIsSequence
  DEF IdleConfigurator, IdleTransmitter, IdleReceiver, ConfiguratorRecords, TransmitterRecords,
      ReceiverRecords
<1>2. TypeOK BY <1>1, TypesByVariable DEF Init
<1> QED BY <1>2 DEF Init, Types, ConfiguratorLocals, IdleConfigurator

\* Threads that install and remove keys.
LEMMA ConfiguratorTypes ==
  ASSUME Types, NEW c \in Configurators, ConfiguratorStep(c)
  PROVE  Types'
<1>1. /\ keys \in Seq(Metadata) /\ driver \in [Identities -> Installations \cup {None}]
      /\ unused \subseteq Installations /\ configurator \in [Configurators -> ConfiguratorRecords]
      /\ transmitter \in [Transmitters -> TransmitterRecords]
      /\ receiver \in [Receivers -> ReceiverRecords]
      /\ given \subseteq Installations \X Sequence /\ accepted \subseteq Installations \X Sequence
      /\ crossed \subseteq Identities /\ ConfiguratorLocals
  BY TypesByVariable DEF Types
<1>2. ASSUME NEW id \in Identities, NEW cipher \in Ciphers, NEW rx \in RxStarts,
             NEW installation \in unused, SetDriver(c, id, cipher, rx, installation)
      PROVE  Types'
  <2>1. rx \in Sequence BY KeysAssumption
  <2> DEFINE m == [installation |-> installation, id |-> id, cipher |-> cipher,
                   rx_sequence |-> rx, tx_sequence |-> Zero]
  <2>2. m \in Metadata /\ m.id = id BY <1>1, <2>1, ZeroIsSequence DEF Metadata
  <2> HIDE DEF m
  <2>3. configurator' = [configurator EXCEPT ![c] = [at |-> "set", id |-> id, metadata |-> m]]
    BY <1>2 DEF SetDriver, m
  <2>4. configurator' \in [Configurators -> ConfiguratorRecords] /\ ConfiguratorLocals'
    BY <1>1, <2>2, <2>3 DEF ConfiguratorRecords, ConfiguratorLocals
  <2>5. /\ UNCHANGED <<keys, receiver, given>> /\ unused' \subseteq Installations
        /\ driver' \in [Identities -> Installations \cup {None}]
        /\ accepted' \subseteq Installations \X Sequence /\ crossed' \subseteq Identities
        /\ transmitter' \in [Transmitters -> TransmitterRecords]
    BY <1>1, <1>2, <2>1, DisturbType DEF SetDriver, CrossedBy
  <2> QED BY <1>1, <2>4, <2>5, TypesNext
<1>3. ASSUME SetList(c) \/ DelList(c) PROVE Types'
  <2>1. /\ configurator[c].at \in {"set", "delete"}
        /\ configurator' = [configurator EXCEPT ![c] = IdleConfigurator]
        /\ UNCHANGED <<driver, unused, transmitter, receiver, given, accepted, crossed>>
    BY <1>3 DEF SetList, DelList
  <2>2. configurator' \in [Configurators -> ConfiguratorRecords] /\ ConfiguratorLocals'
    BY <1>1, <2>1 DEF ConfiguratorRecords, ConfiguratorLocals, IdleConfigurator
  <2>3. keys' \in Seq(Metadata)
    <3>1. Removed(configurator[c].id) \in Seq(Metadata) BY <1>1, RemovedProperties
    <3>2. CASE DelList(c) BY <3>1, <3>2 DEF DelList
    <3>3. CASE SetList(c)
      <4>1. <<configurator[c].metadata>> \in Seq(Metadata)
        BY <1>1, <3>3 DEF SetList, ConfiguratorLocals
      <4>2. keys' = <<configurator[c].metadata>> \o Removed(configurator[c].id)
        BY <3>3 DEF SetList
      <4> QED BY <3>1, <4>1, <4>2, ConcatProperties
    <3> QED BY <1>3, <3>2, <3>3
  <2> QED BY <1>1, <2>1, <2>2, <2>3, TypesNext
<1>4. ASSUME NEW id \in Identities, DelDriver(c, id) PROVE Types'
  <2>1. /\ UNCHANGED <<keys, unused, receiver, given, accepted>>
        /\ driver' \in [Identities -> Installations \cup {None}]
        /\ transmitter' \in [Transmitters -> TransmitterRecords] /\ crossed' \subseteq Identities
    BY <1>1, <1>4, DisturbType DEF DelDriver, CrossedBy
  <2> DEFINE next == [configurator[c] EXCEPT !.at = "delete", !.id = id]
  <2>2. configurator' = [configurator EXCEPT ![c] = next] BY <1>4 DEF DelDriver
  <2>3. next \in ConfiguratorRecords /\ next.at = "delete" /\ next.id = id
    BY <1>1 DEF ConfiguratorRecords
  <2> HIDE DEF next
  <2>4. configurator' \in [Configurators -> ConfiguratorRecords] /\ ConfiguratorLocals'
    BY <1>1, <2>2, <2>3 DEF ConfiguratorLocals
  <2> QED BY <1>1, <2>1, <2>4, TypesNext
<1> QED BY <1>2, <1>3, <1>4 DEF ConfiguratorStep

\* The list in which one counter of one key has changed.
LEMMA CounterTypes ==
  ASSUME keys \in Seq(Metadata), NEW i \in 1 .. Len(keys), NEW s \in Sequence
  PROVE  /\ [keys EXCEPT ![i].tx_sequence = s] \in Seq(Metadata)
         /\ [keys EXCEPT ![i].rx_sequence = s] \in Seq(Metadata)
<1>1. keys[i] \in Metadata BY KeyTypes
<1> DEFINE a == [keys[i] EXCEPT !.tx_sequence = s]
           b == [keys[i] EXCEPT !.rx_sequence = s]
<1>2. a \in Metadata /\ b \in Metadata BY <1>1 DEF Metadata
<1>3. /\ [keys EXCEPT ![i].tx_sequence = s] = [keys EXCEPT ![i] = a]
      /\ [keys EXCEPT ![i].rx_sequence = s] = [keys EXCEPT ![i] = b]
  OBVIOUS
<1> HIDE DEF a, b
<1>4. [keys EXCEPT ![i] = a] \in Seq(Metadata) /\ [keys EXCEPT ![i] = b] \in Seq(Metadata)
  BY <1>2, ExceptSeq
<1> QED BY <1>3, <1>4

\* Threads that transmit.
LEMMA TransmitterTypes ==
  ASSUME Types, NEW t \in Transmitters, TransmitterStep(t)
  PROVE  Types'
<1>1. /\ keys \in Seq(Metadata) /\ driver \in [Identities -> Installations \cup {None}]
      /\ unused \subseteq Installations /\ configurator \in [Configurators -> ConfiguratorRecords]
      /\ transmitter \in [Transmitters -> TransmitterRecords]
      /\ receiver \in [Receivers -> ReceiverRecords]
      /\ given \subseteq Installations \X Sequence /\ accepted \subseteq Installations \X Sequence
      /\ crossed \subseteq Identities /\ ConfiguratorLocals
  BY TypesByVariable DEF Types
<1>2. IdleTransmitter \in TransmitterRecords
  BY ZeroIsSequence DEF IdleTransmitter, TransmitterRecords
<1>3. ASSUME TransmitOnly, NEW next \in TransmitterRecords,
             transmitter' = [transmitter EXCEPT ![t] = next]
      PROVE  Types'
  <2>1. transmitter' \in [Transmitters -> TransmitterRecords] BY <1>1, <1>3
  <2>2. ConfiguratorLocals' BY <1>1, <1>3 DEF TransmitOnly, ConfiguratorLocals
  <2> QED BY <1>1, <1>3, <2>1, <2>2, TypesNext DEF TransmitOnly
<1>4. ASSUME NEW header \in [receiver : Peers, transmitter : Peers \cup {Own}],
             TxSelect(t, header)
      PROVE  Types'
  <2>1. header \in Headers BY DEF Headers
  <2>2. Configuring \in BOOLEAN BY Zenon DEF Configuring
  <2> DEFINE chosen == [IdleTransmitter EXCEPT !.header = header, !.disturbed = Configuring]
  <2>3. chosen \in TransmitterRecords BY <1>2, <2>1, <2>2 DEF TransmitterRecords
  <2> HIDE DEF chosen
  <2>4. CASE transmitter' = [transmitter EXCEPT ![t] = [chosen EXCEPT !.at = "transmit"]]
    <3>1. [chosen EXCEPT !.at = "transmit"] \in TransmitterRecords
      BY <2>3 DEF TransmitterRecords
    <3> QED BY <1>3, <1>4, <2>4, <3>1 DEF TxSelect
  <2>5. ASSUME NEW i \in 1 .. Len(keys),
               transmitter' = [transmitter EXCEPT ![t] =
                                 [chosen EXCEPT !.at = "cipher", !.key = keys[i].id.index]]
        PROVE  Types'
    <3>1. keys[i].id.index \in Nat BY <1>1, KeyTypes
    <3>2. [chosen EXCEPT !.at = "cipher", !.key = keys[i].id.index] \in TransmitterRecords
      BY <2>3, <3>1 DEF TransmitterRecords
    <3> QED BY <1>3, <1>4, <2>5, <3>2 DEF TxSelect
  <2> QED BY <1>4, <2>4, <2>5 DEF TxSelect, chosen
<1>5. CASE TxCipher(t)
  <2>1. PICK i \in 1 .. Len(keys) :
          transmitter' =
            [transmitter EXCEPT ![t].at = "sequence", ![t].cipher = keys[i].cipher]
    BY <1>5 DEF TxCipher
  <2> DEFINE next == [transmitter[t] EXCEPT !.at = "sequence", !.cipher = keys[i].cipher]
  <2>2. keys[i].cipher \in Ciphers /\ transmitter[t] \in TransmitterRecords BY <1>1, KeyTypes
  <2>3. next \in TransmitterRecords BY <2>2 DEF TransmitterRecords
  <2>4. transmitter' = [transmitter EXCEPT ![t] = next] BY <1>1, <2>1
  <2> HIDE DEF next
  <2> QED BY <1>3, <1>5, <2>3, <2>4 DEF TxCipher
<1>6. CASE TxUnsupported(t) \/ TxNotPermitted(t) \/ TxTransmit(t)
  BY <1>2, <1>3, <1>6 DEF TxUnsupported, TxNotPermitted, TxTransmit
<1>7. CASE TxSequence(t)
  <2>1. PICK i \in 1 .. Len(keys) :
          LET next == increment_sequence(keys[i].tx_sequence)
          IN  /\ CanIncrement(keys[i].tx_sequence)
              /\ keys' = [keys EXCEPT ![i].tx_sequence = next]
              /\ given' = given \cup {<<keys[i].installation, next>>}
              /\ transmitter' = [transmitter EXCEPT ![t].at = "transmit",
                   ![t].installation = keys[i].installation, ![t].sequence = next]
    BY <1>7 DEF TxSequence, Kept
  <2> DEFINE s == increment_sequence(keys[i].tx_sequence)
             next == [transmitter[t] EXCEPT !.at = "transmit",
                        !.installation = keys[i].installation, !.sequence = s]
  <2>2. keys[i].tx_sequence \in Sequence /\ keys[i].installation \in Installations
    BY <1>1, KeyTypes
  <2>3. s \in Sequence BY <2>1, <2>2, Increments
  <2>4. /\ keys' = [keys EXCEPT ![i].tx_sequence = s]
        /\ given' = given \cup {<<keys[i].installation, s>>}
        /\ transmitter' = [transmitter EXCEPT ![t] = next]
    BY <1>1, <2>1
  <2> HIDE DEF s
  <2>5. transmitter[t] \in TransmitterRecords BY <1>1
  <2>6. next \in TransmitterRecords BY <2>2, <2>3, <2>5 DEF TransmitterRecords
  <2> HIDE DEF next
  <2>7. transmitter' \in [Transmitters -> TransmitterRecords] BY <1>1, <2>4, <2>6
  <2>8. keys' \in Seq(Metadata) BY <1>1, <2>3, <2>4, CounterTypes
  <2>9. given' \subseteq Installations \X Sequence BY <1>1, <2>2, <2>3, <2>4
  <2>10. UNCHANGED <<driver, unused, configurator, receiver, accepted, crossed>>
    BY <1>7 DEF TxSequence
  <2>11. ConfiguratorLocals' BY <1>1, <2>10 DEF ConfiguratorLocals
  <2> QED BY <1>1, <2>7, <2>8, <2>9, <2>10, <2>11, TypesNext
<1> QED BY <1>4, <1>5, <1>6, <1>7 DEF TransmitterStep

\* Receivers.
LEMMA ReceiverTypes ==
  ASSUME Types, NEW r \in Receivers, ReceiverStep(r)
  PROVE  Types'
<1>1. /\ keys \in Seq(Metadata) /\ driver \in [Identities -> Installations \cup {None}]
      /\ unused \subseteq Installations /\ configurator \in [Configurators -> ConfiguratorRecords]
      /\ transmitter \in [Transmitters -> TransmitterRecords]
      /\ receiver \in [Receivers -> ReceiverRecords]
      /\ given \subseteq Installations \X Sequence /\ accepted \subseteq Installations \X Sequence
      /\ crossed \subseteq Identities /\ ConfiguratorLocals
  BY TypesByVariable DEF Types
<1>2. ASSUME NEW next \in ReceiverRecords, receiver' = [receiver EXCEPT ![r] = next],
             UNCHANGED <<driver, unused, configurator, transmitter, given, crossed>>,
             keys' \in Seq(Metadata), accepted' \subseteq Installations \X Sequence
      PROVE  Types'
  <2>1. receiver' \in [Receivers -> ReceiverRecords] BY <1>1, <1>2
  <2>2. ConfiguratorLocals' BY <1>1, <1>2 DEF ConfiguratorLocals
  <2> QED BY <1>1, <1>2, <2>1, <2>2, TypesNext
<1>3. IdleReceiver \in ReceiverRecords
  BY ZeroIsSequence DEF IdleReceiver, ReceiverRecords
<1>4. ASSUME NEW header \in Headers, NEW index \in 0 .. 3, NEW sequence \in Sequence,
             RxSelect(r, header, index, sequence)
      PROVE  Types'
  <2>1. PICK i \in 1 .. Len(keys) :
          receiver' = [receiver EXCEPT ![r] =
            [at |-> "validate", header |-> header, key |-> index, cipher |-> keys[i].cipher,
             installation |-> None, sequence |-> sequence]]
    BY <1>4 DEF RxSelect
  <2> DEFINE next == [at |-> "validate", header |-> header, key |-> index,
                      cipher |-> keys[i].cipher, installation |-> None, sequence |-> sequence]
  <2>2. keys[i].cipher \in Ciphers BY <1>1, KeyTypes
  <2>3. next \in ReceiverRecords BY <2>2 DEF ReceiverRecords
  <2>4. receiver' = [receiver EXCEPT ![r] = next] BY <2>1
  <2> HIDE DEF next
  <2> QED BY <1>1, <1>2, <1>4, <2>3, <2>4 DEF RxSelect, ReceiveOnly
<1>5. CASE RxAccept(r)
  <2>1. PICK i \in 1 .. Len(keys) :
          /\ keys' = [keys EXCEPT ![i].rx_sequence = receiver[r].sequence]
          /\ accepted' = accepted \cup {<<keys[i].installation, receiver[r].sequence>>}
          /\ receiver' = [receiver EXCEPT ![r].at = "deliver",
                                          ![r].installation = keys[i].installation]
    BY <1>5 DEF RxAccept
  <2> DEFINE next == [receiver[r] EXCEPT !.at = "deliver", !.installation = keys[i].installation]
  <2>2. receiver[r] \in ReceiverRecords BY <1>1
  <2>3. receiver[r].sequence \in Sequence /\ keys[i].installation \in Installations
    BY <1>1, <2>2, KeyTypes DEF ReceiverRecords
  <2>4. keys' \in Seq(Metadata) BY <1>1, <2>1, <2>3, CounterTypes
  <2>5. accepted' \subseteq Installations \X Sequence BY <1>1, <2>1, <2>3
  <2>6. next \in ReceiverRecords BY <2>2, <2>3 DEF ReceiverRecords
  <2>7. receiver' = [receiver EXCEPT ![r] = next] BY <1>1, <2>1
  <2> HIDE DEF next
  <2> QED BY <1>2, <1>5, <2>4, <2>5, <2>6, <2>7 DEF RxAccept
<1>6. CASE RxDrop(r) \/ RxDeliver(r)
  BY <1>1, <1>2, <1>3, <1>6 DEF RxDrop, RxDeliver, ReceiveOnly
<1> QED BY <1>4, <1>5, <1>6 DEF ReceiverStep

\* Every variable keeps its type.
LEMMA TypesStep == Types /\ [Next]_vars => Types'
<1> SUFFICES ASSUME Types, [Next]_vars PROVE Types' OBVIOUS
<1>1. CASE UNCHANGED vars
  BY <1>1 DEF vars, Types, TypeOK, ConfiguratorLocals
<1> QED BY <1>1, ConfiguratorTypes, TransmitterTypes, ReceiverTypes DEF Next

\* The type invariant of the key store.
THEOREM KeysTypeCorrect == Spec => []TypeOK
<1>1. Types => TypeOK BY DEF Types
<1> QED BY <1>1, TypesInit, TypesStep, PTL DEF Spec

-----------------------------------------------------------------------------
(***************************************************************************)
(* What a step does to the list.                                           *)
(***************************************************************************)

SameKey(m, n) == m.installation = n.installation /\ m.id = n.id /\ m.cipher = n.cipher

\* Where the keys of the list were before: no two in one place, 0 for a new one.
Origins(f) ==
  /\ f \in [1 .. Len(keys') -> 0 .. Len(keys)]
  /\ \A i, j \in 1 .. Len(keys') : f[i] = f[j] => i = j
  /\ \A i \in 1 .. Len(keys') : f[i] # 0 => SameKey(keys'[i], keys[f[i]])

\* The key that an installation puts in front.
ListGains(c, f) ==
  /\ SetList(c) /\ Origins(f)
  /\ \A i \in 1 .. Len(keys') : IF f[i] = 0 THEN keys'[i] = configurator[c].metadata
                                            ELSE keys'[i] = keys[f[i]]
  /\ \A j \in 1 .. Len(keys) :
       keys[j].id # configurator[c].id => \E i \in 1 .. Len(keys') : f[i] = j
  /\ \E i \in 1 .. Len(keys') : f[i] = 0

\* The key that a removal takes out.
ListLoses(c, f) ==
  /\ DelList(c) /\ Origins(f)
  /\ \A i \in 1 .. Len(keys') : f[i] # 0 /\ keys'[i] = keys[f[i]]
  /\ \A j \in 1 .. Len(keys) :
       keys[j].id # configurator[c].id => \E i \in 1 .. Len(keys') : f[i] = j

\* The first key of the identity is gone, if there was one; so all of them, when the
\* list has each identity once.
IdentityGone(c) ==
  (\A i, j \in 1 .. Len(keys) : keys[i].id = keys[j].id => i = j)
    => \A i \in 1 .. Len(keys') : keys'[i].id = configurator[c].id
         => SetList(c) /\ keys'[i] = configurator[c].metadata

\* A removal takes out one key at most; where each other key was.
LEMMA Removal ==
  ASSUME keys \in Seq(Metadata), NEW c \in Configurators, DelList(c)
  PROVE  IdentityGone(c) /\ \E f : ListLoses(c, f)
<1> DEFINE id == configurator[c].id
<1>1. PICK p : RemovedAt(id, p) BY RemovedProperties
<1>2. keys' = Removed(id) /\ Removed(id) \in Seq(Metadata) BY RemovedProperties DEF DelList
<1> HIDE DEF id
<1>3. /\ Len(keys) \in Nat /\ Len(keys') \in Nat BY <1>2
<1>4. /\ p \in Nat \ {0}
      /\ Len(keys') = IF p <= Len(keys) THEN Len(keys) - 1 ELSE Len(keys)
      /\ \A k \in 1 .. Len(keys') : keys'[k] = IF k < p THEN keys[k] ELSE keys[k + 1]
      /\ p <= Len(keys) => keys[p].id = id
      /\ \A k \in 1 .. Len(keys) : k < p => keys[k].id # id
  BY <1>1, <1>2 DEF RemovedAt
<1> DEFINE f == [k \in 1 .. Len(keys') |-> IF k < p THEN k ELSE k + 1]
<1>5. /\ f \in [1 .. Len(keys') -> 0 .. Len(keys)]
      /\ \A i \in 1 .. Len(keys') : f[i] # 0 /\ keys'[i] = keys[f[i]]
      /\ \A i, j \in 1 .. Len(keys') : f[i] = f[j] => i = j
      /\ \A i \in 1 .. Len(keys') : f[i] # p
  BY <1>3, <1>4
<1>6. \A j \in 1 .. Len(keys) : j # p => \E i \in 1 .. Len(keys') : f[i] = j
  <2> SUFFICES ASSUME NEW j \in 1 .. Len(keys), j # p
               PROVE  \E i \in 1 .. Len(keys') : f[i] = j
    OBVIOUS
  <2>1. CASE j < p
    <3>1. j \in 1 .. Len(keys') /\ f[j] = j BY <1>3, <1>4, <2>1
    <3> QED BY <3>1
  <2>2. CASE j > p
    <3>1. j - 1 \in 1 .. Len(keys') /\ f[j - 1] = j BY <1>3, <1>4, <2>2
    <3> QED BY <3>1
  <2>3. p \in Nat /\ j \in Nat BY <1>3, <1>4
  <2> QED BY <2>1, <2>2, <2>3
<1> HIDE DEF f
<1>7. \A j \in 1 .. Len(keys) : keys[j].id # id => \E i \in 1 .. Len(keys') : f[i] = j
  BY <1>3, <1>4, <1>6
<1>8. Origins(f) BY <1>5 DEF Origins, SameKey
<1>9. IdentityGone(c)
  <2> SUFFICES ASSUME \A i, j \in 1 .. Len(keys) : keys[i].id = keys[j].id => i = j,
                      NEW i \in 1 .. Len(keys'), keys'[i].id = id
               PROVE  FALSE
    BY DEF IdentityGone, id
  <2>1. f[i] \in 1 .. Len(keys) /\ keys[f[i]].id = id /\ f[i] # p BY <1>3, <1>5
  <2>2. p \in 1 .. Len(keys) /\ keys[p].id = id BY <1>3, <1>4, <2>1
  <2> QED BY <2>1, <2>2
<1> QED BY <1>5, <1>7, <1>8, <1>9 DEF ListLoses, id

\* An installation adds one key and takes out one at most; where each other was.
LEMMA Installation ==
  ASSUME Types, NEW c \in Configurators, SetList(c)
  PROVE  IdentityGone(c) /\ \E f : ListGains(c, f)
<1> DEFINE id == configurator[c].id
           m == configurator[c].metadata
<1>0. keys \in Seq(Metadata) /\ m \in Metadata
  BY DEF Types, TypeOK, ConfiguratorLocals, SetList
<1>1. PICK p : RemovedAt(id, p) BY <1>0, RemovedProperties
<1>2. keys' = <<m>> \o Removed(id) /\ Removed(id) \in Seq(Metadata)
  BY <1>0, RemovedProperties DEF SetList
<1> HIDE DEF id, m
<1>3. <<m>> \in Seq(Metadata) /\ Len(<<m>>) = 1 /\ <<m>>[1] = m BY <1>0
<1>4. /\ keys' \in Seq(Metadata) /\ Len(keys') = 1 + Len(Removed(id))
      /\ \A i \in 1 .. Len(<<m>>) + Len(Removed(id)) :
           keys'[i] = IF i <= Len(<<m>>) THEN <<m>>[i] ELSE Removed(id)[i - Len(<<m>>)]
  BY <1>2, <1>3, ConcatProperties
<1>5. /\ Len(keys) \in Nat /\ Len(keys') \in Nat /\ Len(Removed(id)) \in Nat BY <1>0, <1>2, <1>4
<1>6. \A i \in 1 .. Len(keys') : keys'[i] = IF i = 1 THEN m ELSE Removed(id)[i - 1]
  BY <1>3, <1>4, <1>5
<1>7. /\ p \in Nat \ {0}
      /\ Len(keys') = IF p <= Len(keys) THEN Len(keys) ELSE Len(keys) + 1
      /\ p <= Len(keys) => keys[p].id = id
      /\ \A k \in 1 .. Len(keys) : k < p => keys[k].id # id
  BY <1>1, <1>4, <1>5 DEF RemovedAt
<1>8. \A i \in 1 .. Len(keys') : keys'[i] = IF i = 1 THEN m ELSE
                                            IF i - 1 < p THEN keys[i - 1] ELSE keys[i]
  <2> SUFFICES ASSUME NEW i \in 1 .. Len(keys'), i # 1
               PROVE  keys'[i] = IF i - 1 < p THEN keys[i - 1] ELSE keys[i]
    BY <1>6
  <2>1. i - 1 \in 1 .. Len(Removed(id)) /\ i - 1 + 1 = i BY <1>4, <1>5
  <2>2. keys'[i] = Removed(id)[i - 1] BY <1>6
  <2>3. Removed(id)[i - 1] = IF i - 1 < p THEN keys[i - 1] ELSE keys[i - 1 + 1]
    BY <1>1, <2>1 DEF RemovedAt
  <2> QED BY <2>1, <2>2, <2>3
<1> DEFINE f == [k \in 1 .. Len(keys') |-> IF k = 1 THEN 0 ELSE IF k - 1 < p THEN k - 1 ELSE k]
<1>9. /\ f \in [1 .. Len(keys') -> 0 .. Len(keys)]
      /\ \A i \in 1 .. Len(keys') :
           /\ f[i] # p
           /\ f[i] = 0 => i = 1
           /\ IF f[i] = 0 THEN keys'[i] = m ELSE keys'[i] = keys[f[i]]
      /\ \A i, j \in 1 .. Len(keys') : f[i] = f[j] => i = j
      /\ 1 \in 1 .. Len(keys') /\ f[1] = 0
  <2>1. f \in [1 .. Len(keys') -> 0 .. Len(keys)] BY <1>5, <1>7
  <2>2. \A i, j \in 1 .. Len(keys') : f[i] = f[j] => i = j BY <1>5, <1>7
  <2>3. 1 \in 1 .. Len(keys') /\ f[1] = 0 BY <1>4, <1>5
  <2>4. ASSUME NEW i \in 1 .. Len(keys')
        PROVE  f[i] # p /\ (f[i] = 0 => i = 1) /\ (f[i] = 0 => keys'[i] = m)
    BY <1>5, <1>7, <1>8
  <2>5. ASSUME NEW i \in 1 .. Len(keys'), f[i] # 0 PROVE keys'[i] = keys[f[i]]
    BY <1>5, <1>7, <1>8, <2>5
  <2> HIDE DEF f
  <2> QED BY <2>1, <2>2, <2>3, <2>4, <2>5
<1>10. \A j \in 1 .. Len(keys) : j # p => \E i \in 1 .. Len(keys') : f[i] = j
  <2> SUFFICES ASSUME NEW j \in 1 .. Len(keys), j # p
               PROVE  \E i \in 1 .. Len(keys') : f[i] = j
    OBVIOUS
  <2>1. CASE j < p
    <3>1. j + 1 \in 1 .. Len(keys') /\ f[j + 1] = j BY <1>5, <1>7, <2>1
    <3> QED BY <3>1
  <2>2. CASE j > p
    <3>1. j \in 1 .. Len(keys') /\ f[j] = j BY <1>5, <1>7, <2>2
    <3> QED BY <3>1
  <2>3. p \in Nat /\ j \in Nat BY <1>5, <1>7
  <2> HIDE DEF f
  <2> QED BY <2>1, <2>2, <2>3
<1> HIDE DEF f
<1>11. \A j \in 1 .. Len(keys) : keys[j].id # id => \E i \in 1 .. Len(keys') : f[i] = j
  BY <1>5, <1>7, <1>10
<1>12. Origins(f) BY <1>9 DEF Origins, SameKey
<1>13. IdentityGone(c)
  <2> SUFFICES ASSUME \A i, j \in 1 .. Len(keys) : keys[i].id = keys[j].id => i = j,
                      NEW i \in 1 .. Len(keys'), keys'[i].id = id
               PROVE  keys'[i] = m
    BY DEF IdentityGone, id, m
  <2>1. CASE f[i] = 0 BY <1>9, <2>1
  <2>2. CASE f[i] # 0
    <3>1. f[i] \in 1 .. Len(keys) /\ keys[f[i]].id = id /\ f[i] # p BY <1>5, <1>9, <2>2
    <3>2. p \in 1 .. Len(keys) /\ keys[p].id = id BY <1>5, <1>7, <3>1
    <3> QED BY <3>1, <3>2
  <2> QED BY <2>1, <2>2
<1> QED BY <1>9, <1>11, <1>12, <1>13 DEF ListGains, id, m

\* A frame takes the next sequence of key p.
Counts(t, p) ==
  /\ transmitter[t].at = "sequence"
  /\ CountingKey(p, transmitter[t].header, transmitter[t].key, transmitter[t].cipher)
  /\ CanIncrement(keys[p].tx_sequence)
  /\ Len(keys') = Len(keys)
  /\ \A i \in 1 .. Len(keys) :
       /\ SameKey(keys'[i], keys[i]) /\ keys'[i].rx_sequence = keys[i].rx_sequence
       /\ i # p => keys'[i].tx_sequence = keys[i].tx_sequence
  /\ keys'[p].tx_sequence = increment_sequence(keys[p].tx_sequence)
  /\ given' = given \cup {<<keys[p].installation, keys'[p].tx_sequence>>}
  /\ transmitter' = [transmitter EXCEPT ![t] =
       [@ EXCEPT !.at = "transmit", !.installation = keys[p].installation,
                 !.sequence = keys'[p].tx_sequence]]
  /\ UNCHANGED <<driver, unused, configurator, receiver, accepted, crossed>>

\* TxSequence moves one counter, of the key it found.
LEMMA Counting ==
  ASSUME Types, NEW t \in Transmitters, TxSequence(t)
  PROVE  \E p \in 1 .. Len(keys) : Counts(t, p)
<1>1. /\ keys \in Seq(Metadata) /\ transmitter \in [Transmitters -> TransmitterRecords]
  BY TypesByVariable DEF Types
<1>2. PICK p \in 1 .. Len(keys) :
        LET next == increment_sequence(keys[p].tx_sequence)
        IN  /\ CountingKey(p, transmitter[t].header, transmitter[t].key, transmitter[t].cipher)
            /\ CanIncrement(keys[p].tx_sequence)
            /\ keys' = [keys EXCEPT ![p].tx_sequence = next]
            /\ given' = given \cup {<<keys[p].installation, next>>}
            /\ transmitter' = [transmitter EXCEPT ![t].at = "transmit",
                 ![t].installation = keys[p].installation, ![t].sequence = next]
  BY DEF TxSequence, Kept
<1> DEFINE s == increment_sequence(keys[p].tx_sequence)
           m == [keys[p] EXCEPT !.tx_sequence = s]
           next == [transmitter[t] EXCEPT !.at = "transmit",
                      !.installation = keys[p].installation, !.sequence = s]
<1>3. keys[p] \in Metadata /\ keys[p].tx_sequence \in Sequence BY <1>1, KeyTypes
<1>4. s \in Sequence BY <1>2, <1>3, Increments
<1>5. keys' = [keys EXCEPT ![p] = m] /\ transmitter' = [transmitter EXCEPT ![t] = next]
  BY <1>1, <1>2
<1> HIDE DEF s
<1>6. /\ m \in Metadata /\ SameKey(m, keys[p]) /\ m.rx_sequence = keys[p].rx_sequence
      /\ m.tx_sequence = s
  BY <1>3, <1>4 DEF Metadata, SameKey
<1> HIDE DEF m
<1>7. /\ Len(keys') = Len(keys)
      /\ \A j \in 1 .. Len(keys) : keys'[j] = IF j = p THEN m ELSE keys[j]
  BY <1>1, <1>5, <1>6, ExceptSeq
<1>8. \A j \in 1 .. Len(keys) : SameKey(keys[j], keys[j]) BY DEF SameKey
<1>9. keys'[p].tx_sequence = s BY <1>6, <1>7
<1>10. given' = given \cup {<<keys[p].installation, s>>} BY <1>2 DEF s
<1>11. /\ transmitter[t].at = "sequence"
       /\ UNCHANGED <<driver, unused, configurator, receiver, accepted, crossed>>
  BY DEF TxSequence
<1>12. \A i \in 1 .. Len(keys) :
         /\ SameKey(keys'[i], keys[i]) /\ keys'[i].rx_sequence = keys[i].rx_sequence
         /\ i # p => keys'[i].tx_sequence = keys[i].tx_sequence
  BY <1>6, <1>7, <1>8
<1> QED BY <1>2, <1>5, <1>7, <1>9, <1>10, <1>11, <1>12 DEF Counts, s

\* A frame that is let in moves the counter of key p.
Accepts(r, p) ==
  /\ receiver[r].at = "validate" /\ receiver[r].sequence \in Sequence
  /\ sequence_is_newer(receiver[r].sequence, keys[p].rx_sequence)
  /\ Len(keys') = Len(keys)
  /\ \A i \in 1 .. Len(keys) :
       /\ SameKey(keys'[i], keys[i]) /\ keys'[i].tx_sequence = keys[i].tx_sequence
       /\ i # p => keys'[i].rx_sequence = keys[i].rx_sequence
  /\ keys'[p].rx_sequence = receiver[r].sequence
  /\ accepted' = accepted \cup {<<keys[p].installation, receiver[r].sequence>>}
  /\ receiver' = [receiver EXCEPT ![r] =
       [@ EXCEPT !.at = "deliver", !.installation = keys[p].installation]]
  /\ UNCHANGED <<driver, unused, configurator, transmitter, given, crossed>>

\* RxAccept moves one counter, to the sequence of the frame.
LEMMA Accepting ==
  ASSUME Types, NEW r \in Receivers, RxAccept(r)
  PROVE  \E p \in 1 .. Len(keys) : Accepts(r, p)
<1>1. keys \in Seq(Metadata) /\ receiver \in [Receivers -> ReceiverRecords]
  BY TypesByVariable DEF Types
<1>2. PICK p \in 1 .. Len(keys) :
        /\ sequence_is_newer(receiver[r].sequence, keys[p].rx_sequence)
        /\ keys' = [keys EXCEPT ![p].rx_sequence = receiver[r].sequence]
        /\ accepted' = accepted \cup {<<keys[p].installation, receiver[r].sequence>>}
        /\ receiver' = [receiver EXCEPT ![r].at = "deliver",
                                        ![r].installation = keys[p].installation]
  BY DEF RxAccept
<1>3. keys[p] \in Metadata BY <1>1, KeyTypes
<1>4. receiver[r].sequence \in Sequence
  <2>1. receiver[r] \in ReceiverRecords BY <1>1
  <2> QED BY <2>1 DEF ReceiverRecords
<1> DEFINE s == receiver[r].sequence
           m == [keys[p] EXCEPT !.rx_sequence = s]
<1>5. keys' = [keys EXCEPT ![p] = m] BY <1>2
<1>6. /\ m \in Metadata /\ SameKey(m, keys[p]) /\ m.tx_sequence = keys[p].tx_sequence
      /\ m.rx_sequence = s
  BY <1>3, <1>4 DEF Metadata, SameKey
<1> HIDE DEF m
<1>7. /\ Len(keys') = Len(keys)
      /\ \A j \in 1 .. Len(keys) : keys'[j] = IF j = p THEN m ELSE keys[j]
  BY <1>1, <1>5, <1>6, ExceptSeq
<1>8. \A j \in 1 .. Len(keys) : SameKey(keys[j], keys[j]) BY DEF SameKey
<1>9. /\ receiver[r].at = "validate"
      /\ UNCHANGED <<driver, unused, configurator, transmitter, given, crossed>>
  BY DEF RxAccept
<1>10. \A i \in 1 .. Len(keys) :
         /\ SameKey(keys'[i], keys[i]) /\ keys'[i].tx_sequence = keys[i].tx_sequence
         /\ i # p => keys'[i].rx_sequence = keys[i].rx_sequence
  BY <1>6, <1>7, <1>8
<1>11. receiver' = [receiver EXCEPT ![r] =
         [receiver[r] EXCEPT !.at = "deliver", !.installation = keys[p].installation]]
  BY <1>1, <1>2
<1> QED BY <1>2, <1>4, <1>6, <1>7, <1>9, <1>10, <1>11 DEF Accepts

\* Neither changes which keys there are.
SamePlaces == [i \in 1 .. Len(keys) |-> i]

\* When only counters move, every key is where it was.
LEMMA CountingOrigins ==
  ASSUME keys \in Seq(Metadata), Len(keys') = Len(keys),
         \A i \in 1 .. Len(keys) : SameKey(keys'[i], keys[i])
  PROVE  Origins(SamePlaces)
<1>1. Len(keys) \in Nat OBVIOUS
<1> QED BY <1>1 DEF Origins, SamePlaces

\* The list changes in no other way.
ListKept == UNCHANGED <<keys, given>>

ListMove ==
  \/ ListKept
  \/ \E c \in Configurators : \E f : ListGains(c, f) \/ ListLoses(c, f)
  \/ \E t \in Transmitters, p \in 1 .. Len(keys) : Counts(t, p)
  \/ \E r \in Receivers, p \in 1 .. Len(keys) : Accepts(r, p)

\* The list changes in one of these ways, whatever the step.
LEMMA ListMoves == Types /\ [Next]_vars => ListMove
<1> SUFFICES ASSUME Types, [Next]_vars PROVE ListMove OBVIOUS
<1>1. keys \in Seq(Metadata) BY TypesByVariable DEF Types
<1>2. CASE UNCHANGED vars BY <1>2 DEF vars, ListKept, ListMove
<1>3. ASSUME NEW c \in Configurators, ConfiguratorStep(c) PROVE ListMove
  <2>1. CASE SetList(c) BY <2>1, Installation DEF ListMove
  <2>2. CASE DelList(c) BY <1>1, <2>2, Removal DEF ListMove
  <2>3. CASE ~(SetList(c) \/ DelList(c))
    BY <1>3, <2>3 DEF ConfiguratorStep, SetDriver, DelDriver, ListKept, ListMove
  <2> QED BY <2>1, <2>2, <2>3
<1>4. ASSUME NEW t \in Transmitters, TransmitterStep(t) PROVE ListMove
  <2>1. CASE TxSequence(t) BY <2>1, Counting DEF ListMove
  <2>2. CASE ~TxSequence(t)
    BY <1>4, <2>2
    DEF TransmitterStep, TxSelect, TxCipher, TxUnsupported, TxNotPermitted, TxTransmit,
        TransmitOnly, ListKept, ListMove
  <2> QED BY <2>1, <2>2
<1>5. ASSUME NEW r \in Receivers, ReceiverStep(r) PROVE ListMove
  <2>1. CASE RxAccept(r) BY <2>1, Accepting DEF ListMove
  <2>2. CASE ~RxAccept(r)
    BY <1>5, <2>2
    DEF ReceiverStep, RxSelect, RxDrop, RxDeliver, ReceiveOnly, ListKept, ListMove
  <2> QED BY <2>1, <2>2
<1> QED BY <1>2, <1>3, <1>4, <1>5 DEF Next

\* What there is in the list was there before, or was installed by the step.
LEMMA ListOrigins ==
  ASSUME Types, [Next]_vars
  PROVE  \E f : /\ Origins(f)
                /\ \A i \in 1 .. Len(keys') : f[i] = 0 =>
                     \E c \in Configurators :
                       SetList(c) /\ keys'[i] = configurator[c].metadata
<1>1. keys \in Seq(Metadata) BY TypesByVariable DEF Types
<1>2. Len(keys) \in Nat BY <1>1
<1>3. ASSUME Len(keys') = Len(keys), \A i \in 1 .. Len(keys) : SameKey(keys'[i], keys[i])
      PROVE  /\ Origins(SamePlaces)
             /\ \A i \in 1 .. Len(keys') : SamePlaces[i] # 0
  BY <1>1, <1>2, <1>3, CountingOrigins DEF SamePlaces
<1>4. CASE ListKept BY <1>3, <1>4 DEF ListKept, SameKey
<1>5. CASE \E t \in Transmitters, p \in 1 .. Len(keys) : Counts(t, p)
  BY <1>3, <1>5 DEF Counts
<1>6. CASE \E r \in Receivers, p \in 1 .. Len(keys) : Accepts(r, p)
  BY <1>3, <1>6 DEF Accepts
<1>7. ASSUME NEW c \in Configurators, NEW f, ListGains(c, f) \/ ListLoses(c, f)
      PROVE  /\ Origins(f)
             /\ \A i \in 1 .. Len(keys') : f[i] = 0 =>
                  SetList(c) /\ keys'[i] = configurator[c].metadata
  BY <1>7 DEF ListGains, ListLoses
<1> QED BY <1>4, <1>5, <1>6, <1>7, ListMoves DEF ListMove

-----------------------------------------------------------------------------
(***************************************************************************)
(* Every installation is in one place.                                     *)
(***************************************************************************)

Fresh == unused \cup Pending
Sets(c) == configurator[c].at = "set"
Brings(c) == configurator[c].metadata.installation

\* The conjuncts of InstalledOnce about threads that are installing.
OneInstaller ==
  /\ unused \cap Pending = {}
  /\ \A c, d \in Configurators : Sets(c) /\ Sets(d) /\ Brings(c) = Brings(d) => c = d

\* What a step does to the installations that the list does not have yet.
LEMMA FreshMoves ==
  ASSUME Types, OneInstaller, [Next]_vars
  PROVE  /\ OneInstaller' /\ Fresh' \subseteq Fresh /\ unused' \subseteq unused
         /\ \A c \in Configurators : SetList(c) => Brings(c) \in Fresh /\ Brings(c) \notin Fresh'
<1>1. configurator \in [Configurators -> ConfiguratorRecords] BY TypesByVariable DEF Types
<1>2. Pending = {Brings(c) : c \in {d \in Configurators : Sets(d)}}
  BY DEF Pending, Brings, Sets
<1>3. Pending' = {Brings(c)' : c \in {d \in Configurators : Sets(d)'}}
  BY DEF Pending, Brings, Sets
<1>4. CASE UNCHANGED <<configurator, unused>>
  <2>1. UNCHANGED <<Fresh, Pending>> /\ OneInstaller'
    BY <1>4 DEF Fresh, Pending, OneInstaller, Sets, Brings
  <2>2. \A c \in Configurators : ~SetList(c)
    BY <1>1, <1>4 DEF SetList, IdleConfigurator
  <2> QED BY <1>4, <2>1, <2>2
<1>5. ASSUME NEW c \in Configurators, NEW id, NEW cipher, NEW rx, NEW installation \in unused,
             SetDriver(c, id, cipher, rx, installation)
      PROVE  /\ OneInstaller' /\ Fresh' \subseteq Fresh /\ unused' \subseteq unused
             /\ \A d \in Configurators : ~SetList(d)
  <2>1. /\ ~Sets(c) /\ Sets(c)' /\ Brings(c)' = installation
        /\ unused' = unused \ {installation}
        /\ \A d \in Configurators \ {c} : (Sets(d)' <=> Sets(d)) /\ Brings(d)' = Brings(d)
    BY <1>1, <1>5 DEF SetDriver, Sets, Brings
  <2>2. Pending' = Pending \cup {installation} BY <1>2, <1>3, <2>1
  <2>3. \A d \in Configurators : ~SetList(d)
    BY <1>1, <1>5 DEF SetDriver, SetList, IdleConfigurator
  <2>4. \A d \in Configurators : Sets(d) => Brings(d) \in Pending BY <1>2
  <2>5. OneInstaller' BY <2>1, <2>2, <2>4 DEF OneInstaller
  <2> QED BY <2>1, <2>2, <2>3, <2>5 DEF Fresh
<1>6. ASSUME NEW c \in Configurators, SetList(c)
      PROVE  /\ OneInstaller' /\ Fresh' \subseteq Fresh /\ unused' \subseteq unused
             /\ \A d \in Configurators :
                  SetList(d) => Brings(d) \in Fresh /\ Brings(d) \notin Fresh'
  <2>1. /\ Sets(c) /\ ~Sets(c)' /\ UNCHANGED unused
        /\ \A d \in Configurators \ {c} : (Sets(d)' <=> Sets(d)) /\ Brings(d)' = Brings(d)
    BY <1>1, <1>6 DEF SetList, IdleConfigurator, Sets, Brings
  <2>2. Pending' \subseteq Pending /\ Brings(c) \in Pending /\ Brings(c) \notin Pending'
    <3>1. \A x \in Pending' : \E d \in Configurators \ {c} : Sets(d) /\ x = Brings(d)
      BY <1>3, <2>1
    <3> QED BY <1>2, <2>1, <3>1 DEF OneInstaller
  <2>3. \A d \in Configurators : SetList(d) => d = c
    BY <1>1, <1>6 DEF SetList, IdleConfigurator
  <2>4. OneInstaller' BY <2>1, <2>2 DEF OneInstaller
  <2> QED BY <2>1, <2>2, <2>3, <2>4 DEF Fresh, OneInstaller
<1>7. ASSUME NEW c \in Configurators, (\E id \in Identities : DelDriver(c, id)) \/ DelList(c)
      PROVE  /\ OneInstaller' /\ Fresh' \subseteq Fresh /\ unused' \subseteq unused
             /\ \A d \in Configurators : ~SetList(d)
  <2>0. /\ configurator[c].at # "set" /\ UNCHANGED unused
        /\ \E next : next.at # "set" /\ configurator' = [configurator EXCEPT ![c] = next]
    <3>1. configurator[c] \in ConfiguratorRecords BY <1>1
    <3>2. CASE DelList(c) BY <3>2 DEF DelList, IdleConfigurator
    <3>3. ASSUME NEW id \in Identities, DelDriver(c, id)
          PROVE  /\ configurator[c].at # "set" /\ UNCHANGED unused
                 /\ \E next : next.at # "set" /\ configurator' = [configurator EXCEPT ![c] = next]
      <4> DEFINE next == [configurator[c] EXCEPT !.at = "delete", !.id = id]
      <4>1. next.at = "delete" BY <3>1 DEF ConfiguratorRecords
      <4>2. configurator' = [configurator EXCEPT ![c] = next] BY <3>3 DEF DelDriver
      <4> HIDE DEF next
      <4> QED BY <3>3, <4>1, <4>2 DEF DelDriver
    <3> QED BY <1>7, <3>2, <3>3
  <2>1. /\ ~Sets(c) /\ ~Sets(c)' /\ UNCHANGED unused
        /\ \A d \in Configurators \ {c} : (Sets(d)' <=> Sets(d)) /\ Brings(d)' = Brings(d)
    BY <1>1, <2>0 DEF Sets, Brings
  <2>2. Pending' = Pending BY <1>2, <1>3, <2>1
  <2>3. \A d \in Configurators : ~SetList(d)
    <3>1. ASSUME NEW d \in Configurators, SetList(d) PROVE FALSE
      <4>1. Sets(d) /\ ~Sets(d)' BY <1>1, <3>1 DEF SetList, IdleConfigurator, Sets
      <4> QED BY <2>1, <4>1
    <3> QED BY <3>1
  <2>4. OneInstaller' BY <2>1, <2>2 DEF OneInstaller
  <2> QED BY <2>1, <2>2, <2>3, <2>4 DEF Fresh
<1>8. ASSUME NEW t \in Transmitters, TransmitterStep(t) PROVE UNCHANGED <<configurator, unused>>
  BY <1>8
  DEF TransmitterStep, TxSelect, TxCipher, TxUnsupported, TxSequence, TxNotPermitted,
      TxTransmit, TransmitOnly
<1>9. ASSUME NEW r \in Receivers, ReceiverStep(r) PROVE UNCHANGED <<configurator, unused>>
  BY <1>9 DEF ReceiverStep, RxSelect, RxAccept, RxDrop, RxDeliver, ReceiveOnly
<1>10. UNCHANGED vars => UNCHANGED <<configurator, unused>> BY DEF vars
<1> QED BY <1>4, <1>5, <1>6, <1>7, <1>8, <1>9, <1>10 DEF Next, ConfiguratorStep

\* What a step does to the installations of frames, and to those that were used.
LEMMA UsesMove ==
  ASSUME Types, [Next]_vars
  PROVE  /\ \A t \in Transmitters :
              \/ transmitter'[t].installation \in {None, transmitter[t].installation}
              \/ \E p \in 1 .. Len(keys) : transmitter'[t].installation = keys[p].installation
         /\ \A g \in given' \ given : \E p \in 1 .. Len(keys) : g[1] = keys[p].installation
         /\ \A a \in accepted' \ accepted :
              \/ a[1] \notin unused'
              \/ \E p \in 1 .. Len(keys) : a[1] = keys[p].installation
<1>1. /\ keys \in Seq(Metadata) /\ transmitter \in [Transmitters -> TransmitterRecords]
  BY TypesByVariable DEF Types
<1>2. ASSUME UNCHANGED <<transmitter, given, accepted>>
      PROVE  /\ \A t \in Transmitters : transmitter'[t].installation = transmitter[t].installation
             /\ given' \ given = {} /\ accepted' \ accepted = {}
  BY <1>2
<1>3. ASSUME NEW c \in Configurators, ConfiguratorStep(c)
      PROVE  /\ \A t \in Transmitters : transmitter'[t].installation = transmitter[t].installation
             /\ given' \ given = {} /\ \A a \in accepted' \ accepted : a[1] \notin unused'
  <2>1. CASE Disturb
    <3>1. \A t \in Transmitters : transmitter'[t].installation = transmitter[t].installation
      BY <1>1, <2>1, DisturbType
    <3>2. given' = given /\ \A a \in accepted' \ accepted : a[1] \notin unused'
      <4>1. ASSUME NEW id, NEW cipher, NEW rx, NEW installation,
                   SetDriver(c, id, cipher, rx, installation)
            PROVE  given' = given /\ \A a \in accepted' \ accepted : a[1] \notin unused'
        BY <4>1 DEF SetDriver
      <4> QED BY <1>3, <4>1 DEF ConfiguratorStep, SetList, DelDriver, DelList
    <3> QED BY <3>1, <3>2
  <2>2. CASE ~Disturb
    BY <1>2, <1>3, <2>2 DEF ConfiguratorStep, SetDriver, SetList, DelDriver, DelList
  <2> QED BY <2>1, <2>2
<1>4. ASSUME NEW t \in Transmitters, TransmitterStep(t)
      PROVE  /\ \A u \in Transmitters :
                  \/ transmitter'[u].installation \in {None, transmitter[u].installation}
                  \/ \E p \in 1 .. Len(keys) : transmitter'[u].installation = keys[p].installation
             /\ \A g \in given' \ given : \E p \in 1 .. Len(keys) : g[1] = keys[p].installation
             /\ accepted' \ accepted = {}
  <2>1. ASSUME NEW next, transmitter' = [transmitter EXCEPT ![t] = next],
               next.installation \in {None, transmitter[t].installation}
        PROVE  \A u \in Transmitters :
                 transmitter'[u].installation \in {None, transmitter[u].installation}
    BY <1>1, <2>1
  <2>2. CASE TxSequence(t)
    <3>1. PICK p \in 1 .. Len(keys) : Counts(t, p) BY <2>2, Counting
    <3>2. /\ transmitter' = [transmitter EXCEPT ![t] = [@ EXCEPT !.at = "transmit",
                               !.installation = keys[p].installation,
                               !.sequence = keys'[p].tx_sequence]]
          /\ given' = given \cup {<<keys[p].installation, keys'[p].tx_sequence>>}
          /\ UNCHANGED accepted
      BY <3>1 DEF Counts
    <3>3. transmitter[t] \in TransmitterRecords BY <1>1
    <3>4. transmitter'[t].installation = keys[p].installation
      BY <1>1, <3>2, <3>3 DEF TransmitterRecords
    <3>5. \A u \in Transmitters \ {t} : transmitter'[u] = transmitter[u] BY <1>1, <3>2
    <3> QED BY <3>2, <3>4, <3>5
  <2>3. CASE TxUnsupported(t) \/ TxNotPermitted(t) \/ TxTransmit(t)
    BY <2>1, <2>3
    DEF TxUnsupported, TxNotPermitted, TxTransmit, TransmitOnly, IdleTransmitter
  <2>4. CASE TxCipher(t)
    <3>1. PICK i \in 1 .. Len(keys) :
            transmitter' = [transmitter EXCEPT ![t].at = "sequence", ![t].cipher = keys[i].cipher]
      BY <2>4 DEF TxCipher
    <3>2. transmitter[t] \in TransmitterRecords BY <1>1
    <3>3. \A u \in Transmitters : transmitter'[u].installation = transmitter[u].installation
      BY <1>1, <3>1, <3>2 DEF TransmitterRecords
    <3> QED BY <2>4, <3>3 DEF TxCipher, TransmitOnly
  <2>5. ASSUME NEW header \in [receiver : Peers, transmitter : Peers \cup {Own}],
               TxSelect(t, header)
        PROVE  /\ \A u \in Transmitters :
                    transmitter'[u].installation \in {None, transmitter[u].installation}
               /\ given' \ given = {} /\ accepted' \ accepted = {}
    <3> DEFINE chosen == [IdleTransmitter EXCEPT !.header = header, !.disturbed = Configuring]
    <3>1. /\ [chosen EXCEPT !.at = "transmit"].installation = None
          /\ \A k : [chosen EXCEPT !.at = "cipher", !.key = k].installation = None
      BY DEF IdleTransmitter
    <3> HIDE DEF chosen
    <3>2. CASE transmitter' = [transmitter EXCEPT ![t] = [chosen EXCEPT !.at = "transmit"]]
      BY <2>1, <2>5, <3>1, <3>2 DEF TxSelect, TransmitOnly
    <3>3. ASSUME NEW k,
                 transmitter' = [transmitter EXCEPT ![t] =
                                   [chosen EXCEPT !.at = "cipher", !.key = k]]
          PROVE  \A u \in Transmitters :
                   transmitter'[u].installation \in {None, transmitter[u].installation}
      BY <2>1, <3>1, <3>3
    <3> QED BY <2>5, <3>2, <3>3 DEF TxSelect, TransmitOnly, chosen
  <2> QED BY <1>4, <2>2, <2>3, <2>4, <2>5 DEF TransmitterStep
<1>5. ASSUME NEW r \in Receivers, ReceiverStep(r)
      PROVE  /\ UNCHANGED <<transmitter, given>>
             /\ \A a \in accepted' \ accepted :
                  \E p \in 1 .. Len(keys) : a[1] = keys[p].installation
  <2>1. CASE RxAccept(r)
    <3>1. PICK p \in 1 .. Len(keys) : Accepts(r, p) BY <2>1, Accepting
    <3> QED BY <3>1 DEF Accepts
  <2>2. CASE ~RxAccept(r)
    <3>1. UNCHANGED <<transmitter, given, accepted>>
      BY <1>5, <2>2 DEF ReceiverStep, RxSelect, RxDrop, RxDeliver, ReceiveOnly
    <3> QED BY <3>1
  <2> QED BY <2>1, <2>2
<1>6. UNCHANGED vars => UNCHANGED <<transmitter, given, accepted>> BY DEF vars
<1> QED BY <1>2, <1>3, <1>4, <1>5, <1>6 DEF Next

\* An installation is made once, reaches the list once, and is used only after that.
LEMMA OnceStep == Types /\ InstalledOnce /\ [Next]_vars => InstalledOnce'
<1> SUFFICES ASSUME Types, InstalledOnce, [Next]_vars PROVE InstalledOnce' OBVIOUS
<1>1. OneInstaller BY DEF InstalledOnce, OneInstaller, Sets, Brings
<1>2. /\ OneInstaller' /\ Fresh' \subseteq Fresh /\ unused' \subseteq unused
      /\ \A c \in Configurators : SetList(c) => Brings(c) \in Fresh /\ Brings(c) \notin Fresh'
  BY <1>1, FreshMoves
<1>3. Fresh \subseteq Installations
  <2>1. unused \subseteq Installations BY DEF Types, TypeOK
  <2>2. Pending \subseteq Installations BY DEF Types, ConfiguratorLocals, Pending, Metadata
  <2> QED BY <2>1, <2>2 DEF Fresh
<1>4. None \notin Installations BY KeysAssumption
<1>5. /\ \A i, j \in 1 .. Len(keys) : Listed(i, keys[j].installation) => i = j
      /\ \A i \in 1 .. Len(keys) : keys[i].installation \notin Fresh
      /\ \A t \in Transmitters : transmitter[t].installation \notin Fresh
      /\ \A g \in given : g[1] \notin Fresh
      /\ \A a \in accepted : a[1] \notin unused
  BY DEF InstalledOnce, Fresh
<1>6. PICK f : /\ Origins(f)
               /\ \A i \in 1 .. Len(keys') : f[i] = 0 =>
                    \E c \in Configurators : SetList(c) /\ keys'[i] = configurator[c].metadata
  BY ListOrigins
<1>7. ASSUME NEW i \in 1 .. Len(keys')
      PROVE  \/ /\ f[i] \in 1 .. Len(keys) /\ keys'[i].installation = keys[f[i]].installation
             \/ f[i] = 0 /\ keys'[i].installation \in Fresh /\ keys'[i].installation \notin Fresh'
  <2>1. CASE f[i] = 0 BY <1>2, <1>6, <2>1 DEF Brings
  <2>2. CASE f[i] # 0 BY <1>6, <2>2 DEF Origins, SameKey
  <2> QED BY <2>1, <2>2
<1>8. \A i, j \in 1 .. Len(keys') : f[i] = f[j] => i = j BY <1>6 DEF Origins
<1>9. \A i, j \in 1 .. Len(keys') : keys'[i].installation = keys'[j].installation => i = j
  BY <1>5, <1>7, <1>8 DEF Listed
<1>10. \A i \in 1 .. Len(keys') : keys'[i].installation \notin Fresh'
  BY <1>2, <1>5, <1>7
<1>11. \A t \in Transmitters : transmitter'[t].installation \notin Fresh'
  BY <1>2, <1>3, <1>4, <1>5, UsesMove
<1>12. \A g \in given' : g[1] \notin Fresh'
  BY <1>2, <1>5, UsesMove
<1>13. \A a \in accepted' : a[1] \notin unused'
  BY <1>2, <1>5, UsesMove DEF Fresh
<1> QED BY <1>2, <1>9, <1>10, <1>11, <1>12, <1>13
  DEF InstalledOnce, OneInstaller, Sets, Brings, Fresh, Listed

-----------------------------------------------------------------------------
(***************************************************************************)
(* The counters of a key are at the last sequence that was used under it.  *)
(***************************************************************************)

\* A new installation is pending, with the sequence that it begins with ...
BeginsAt(c, installation, rx) ==
  /\ ~Sets(c) /\ Sets(c)' /\ Brings(c)' = installation /\ installation \in unused
  /\ configurator'[c].metadata.rx_sequence = rx
  /\ \A d \in Configurators \ {c} : configurator'[d] = configurator[d]
  /\ accepted' = accepted \cup {<<installation, rx>>}
  /\ UNCHANGED keys

\* ... and otherwise none becomes pending, and only receivers let frames in.
NoneBegins ==
  /\ \A c \in Configurators :
       Sets(c)' => Sets(c) /\ configurator'[c].metadata = configurator[c].metadata
  /\ UNCHANGED accepted \/ \E r \in Receivers, p \in 1 .. Len(keys) : Accepts(r, p)

\* Only a call that reaches the driver makes an installation pending.
LEMMA InstallationsBegin ==
  ASSUME Types, [Next]_vars
  PROVE  NoneBegins
           \/ \E c \in Configurators : \E installation, rx : BeginsAt(c, installation, rx)
<1>1. configurator \in [Configurators -> ConfiguratorRecords] BY TypesByVariable DEF Types
<1>2. CASE UNCHANGED <<configurator, accepted>>
  BY <1>2 DEF NoneBegins, Sets
<1>3. ASSUME NEW c \in Configurators, ConfiguratorStep(c)
      PROVE  NoneBegins \/ \E installation, rx : BeginsAt(c, installation, rx)
  <2>1. ASSUME NEW id \in Identities, NEW cipher \in Ciphers, NEW rx \in RxStarts,
               NEW installation \in unused, SetDriver(c, id, cipher, rx, installation)
        PROVE  BeginsAt(c, installation, rx)
    BY <1>1, <2>1 DEF SetDriver, BeginsAt, Sets, Brings
  <2>2. ASSUME UNCHANGED accepted, NEW next, next.at # "set",
               configurator' = [configurator EXCEPT ![c] = next]
        PROVE  NoneBegins
    BY <1>1, <2>2 DEF NoneBegins, Sets
  <2>3. CASE SetList(c) \/ DelList(c)
    BY <2>2, <2>3 DEF SetList, DelList, IdleConfigurator
  <2>4. ASSUME NEW id \in Identities, DelDriver(c, id) PROVE NoneBegins
    <3> DEFINE next == [configurator[c] EXCEPT !.at = "delete", !.id = id]
    <3>1. configurator[c] \in ConfiguratorRecords BY <1>1
    <3>2. next.at = "delete" BY <3>1 DEF ConfiguratorRecords
    <3>3. configurator' = [configurator EXCEPT ![c] = next] BY <2>4 DEF DelDriver
    <3> HIDE DEF next
    <3> QED BY <2>2, <2>4, <3>2, <3>3 DEF DelDriver
  <2> QED BY <1>3, <2>1, <2>3, <2>4 DEF ConfiguratorStep
<1>4. ASSUME NEW t \in Transmitters, TransmitterStep(t) PROVE UNCHANGED <<configurator, accepted>>
  BY <1>4
  DEF TransmitterStep, TxSelect, TxCipher, TxUnsupported, TxSequence, TxNotPermitted,
      TxTransmit, TransmitOnly
<1>5. ASSUME NEW r \in Receivers, ReceiverStep(r) PROVE NoneBegins
  <2>1. UNCHANGED configurator
    BY <1>5 DEF ReceiverStep, RxSelect, RxAccept, RxDrop, RxDeliver, ReceiveOnly
  <2>2. UNCHANGED accepted \/ \E p \in 1 .. Len(keys) : Accepts(r, p)
    BY <1>5, Accepting DEF ReceiverStep, RxSelect, RxDrop, RxDeliver, ReceiveOnly
  <2> QED BY <2>1, <2>2 DEF NoneBegins, Sets
<1>6. UNCHANGED vars => UNCHANGED <<configurator, accepted>> BY DEF vars
<1> QED BY <1>2, <1>3, <1>4, <1>5, <1>6 DEF Next

\* The number s is that of the last frame, or above it.
Covers(s, last) == s = last \/ sequence_is_newer(s, last)

TxLast ==
  \A i \in 1 .. Len(keys), g \in given : Listed(i, g[1]) => Covers(keys[i].tx_sequence, g[2])
RxLast ==
  \A i \in 1 .. Len(keys), a \in accepted : Listed(i, a[1]) => Covers(keys[i].rx_sequence, a[2])
Begun ==
  \A c \in Configurators, a \in accepted :
    Sets(c) /\ a[1] = Brings(c) => a[2] = configurator[c].metadata.rx_sequence

\* CountersLast, one counter at a time.
LEMMA CountersByPart == CountersLast <=> TxLast /\ RxLast /\ Begun
  BY DEF CountersLast, TxLast, RxLast, Begun, Covers, Sets, Brings

\* A sequence that is newer than one that covers is newer.
LEMMA CoversTransitive ==
  ASSUME NEW s \in Sequence, NEW t \in Sequence, NEW u \in Sequence,
         sequence_is_newer(s, t), Covers(t, u)
  PROVE  sequence_is_newer(s, u)
  BY NewerTransitive DEF Covers

\* The installations of the list are not fresh, nor any that was used.
LEMMA OldOnes ==
  ASSUME InstalledOnce
  PROVE  /\ \A i \in 1 .. Len(keys) : keys[i].installation \notin Fresh
         /\ \A g \in given : g[1] \notin Fresh
         /\ \A a \in accepted : a[1] \notin unused
         /\ \A c \in Configurators : Sets(c) => Brings(c) \in Fresh /\ Brings(c) \notin unused
         /\ unused \subseteq Fresh
         /\ \A i, j \in 1 .. Len(keys) : keys[i].installation = keys[j].installation => i = j
  BY DEF InstalledOnce, Fresh, Pending, Sets, Brings, Listed

\* A frame is given a sequence that is newer than those given under its key before.
LEMMA GivenIsNewer ==
  ASSUME Types, TxLast, NEW t \in Transmitters, NEW p \in 1 .. Len(keys), Counts(t, p)
  PROVE  /\ keys'[p].tx_sequence \in Sequence
         /\ \A g \in given : keys[p].installation = g[1]
              => sequence_is_newer(keys'[p].tx_sequence, g[2])
<1>1. keys \in Seq(Metadata) /\ given \subseteq Installations \X Sequence
  BY TypesByVariable DEF Types
<1>2. keys[p].tx_sequence \in Sequence BY <1>1, KeyTypes
<1>3. /\ keys'[p].tx_sequence \in Sequence
      /\ sequence_is_newer(keys'[p].tx_sequence, keys[p].tx_sequence)
  BY <1>2, Increments DEF Counts
<1>4. ASSUME NEW g \in given, keys[p].installation = g[1]
      PROVE  sequence_is_newer(keys'[p].tx_sequence, g[2])
  <2>1. g[2] \in Sequence BY <1>1
  <2>2. Covers(keys[p].tx_sequence, g[2]) BY <1>4 DEF TxLast, Listed
  <2> QED BY <1>2, <1>3, <2>1, <2>2, CoversTransitive
<1> QED BY <1>3, <1>4

\* A frame that is let in is newer than those let in under its key before.
LEMMA AcceptedIsNewer ==
  ASSUME Types, RxLast, NEW r \in Receivers, NEW p \in 1 .. Len(keys), Accepts(r, p)
  PROVE  \A a \in accepted : keys[p].installation = a[1]
           => sequence_is_newer(keys'[p].rx_sequence, a[2])
<1>1. keys \in Seq(Metadata) /\ accepted \subseteq Installations \X Sequence
  BY TypesByVariable DEF Types
<1>2. keys[p].rx_sequence \in Sequence BY <1>1, KeyTypes
<1>3. /\ keys'[p].rx_sequence \in Sequence
      /\ sequence_is_newer(keys'[p].rx_sequence, keys[p].rx_sequence)
  BY DEF Accepts
<1> SUFFICES ASSUME NEW a \in accepted, keys[p].installation = a[1]
             PROVE  sequence_is_newer(keys'[p].rx_sequence, a[2])
  OBVIOUS
<1>4. a[2] \in Sequence BY <1>1
<1>5. Covers(keys[p].rx_sequence, a[2]) BY DEF RxLast, Listed
<1> QED BY <1>2, <1>3, <1>4, <1>5, CoversTransitive

\* The counters for transmission stay at the last sequence that was given.
LEMMA TxLastStep == Types /\ InstalledOnce /\ TxLast /\ [Next]_vars => TxLast'
<1> SUFFICES ASSUME Types, InstalledOnce, TxLast, [Next]_vars,
                    NEW i \in 1 .. Len(keys'), NEW g \in given', keys'[i].installation = g[1]
             PROVE  Covers(keys'[i].tx_sequence, g[2])
  BY DEF TxLast, Listed, Covers, sequence_is_newer
<1>1. CASE ListKept BY <1>1 DEF ListKept, TxLast, Listed
<1>2. ASSUME NEW c \in Configurators, NEW f, ListGains(c, f) \/ ListLoses(c, f)
      PROVE  Covers(keys'[i].tx_sequence, g[2])
  <2>1. given' = given BY <1>2 DEF ListGains, ListLoses, SetList, DelList
  <2>2. CASE f[i] = 0
    <3>1. Sets(c) /\ keys'[i].installation = Brings(c)
      BY <1>2, <2>2 DEF ListGains, ListLoses, SetList, Sets, Brings
    <3> QED BY <2>1, <3>1, OldOnes
  <2>3. CASE f[i] # 0
    <3>1. f[i] \in 1 .. Len(keys) /\ keys'[i] = keys[f[i]]
      BY <1>2, <2>3 DEF ListGains, ListLoses, Origins
    <3> QED BY <2>1, <3>1 DEF TxLast, Listed
  <2> QED BY <2>2, <2>3
<1>3. ASSUME NEW t \in Transmitters, NEW p \in 1 .. Len(keys), Counts(t, p)
      PROVE  Covers(keys'[i].tx_sequence, g[2])
  <2>1. i \in 1 .. Len(keys) /\ keys'[i].installation = keys[i].installation
    BY <1>3 DEF Counts, SameKey
  <2>2. given' = given \cup {<<keys[p].installation, keys'[p].tx_sequence>>}
    BY <1>3 DEF Counts
  <2>3. CASE i = p
    <3>1. CASE g \in given BY <1>3, <2>1, <2>3, <3>1, GivenIsNewer DEF Covers
    <3>2. CASE g \notin given BY <2>2, <2>3, <3>2 DEF Covers
    <3> QED BY <3>1, <3>2
  <2>4. CASE i # p
    <3>1. keys[i].installation # keys[p].installation BY <2>1, <2>4, OldOnes
    <3>2. g[1] # keys[p].installation BY <2>1, <3>1
    <3>3. g # <<keys[p].installation, keys'[p].tx_sequence>> BY <3>2
    <3>4. g \in given BY <2>2, <3>3
    <3>5. keys'[i].tx_sequence = keys[i].tx_sequence BY <1>3, <2>1, <2>4 DEF Counts
    <3> QED BY <2>1, <3>4, <3>5 DEF TxLast, Listed
  <2> QED BY <2>3, <2>4
<1>4. ASSUME NEW r \in Receivers, NEW p \in 1 .. Len(keys), Accepts(r, p)
      PROVE  Covers(keys'[i].tx_sequence, g[2])
  BY <1>4 DEF Accepts, SameKey, TxLast, Listed
<1> QED BY <1>1, <1>2, <1>3, <1>4, ListMoves DEF ListMove

\* Those for reception stay at the last that was let in.
LEMMA RxLastStep ==
  Types /\ InstalledOnce /\ RxLast /\ Begun /\ [Next]_vars => RxLast' /\ Begun'
<1> SUFFICES ASSUME Types, InstalledOnce, RxLast, Begun, [Next]_vars PROVE RxLast' /\ Begun'
  OBVIOUS
<1>1. ASSUME UNCHANGED accepted PROVE RxLast'
  <2> SUFFICES ASSUME NEW i \in 1 .. Len(keys'), NEW a \in accepted, keys'[i].installation = a[1]
               PROVE  Covers(keys'[i].rx_sequence, a[2])
    BY <1>1 DEF RxLast, Listed, Covers, sequence_is_newer
  <2>1. CASE ListKept BY <2>1 DEF ListKept, RxLast, Listed
  <2>2. ASSUME NEW c \in Configurators, NEW f, ListGains(c, f) \/ ListLoses(c, f)
        PROVE  Covers(keys'[i].rx_sequence, a[2])
    <3>1. CASE f[i] = 0
      <4>1. Sets(c) /\ keys'[i] = configurator[c].metadata
        BY <2>2, <3>1 DEF ListGains, ListLoses, SetList, Sets
      <4> QED BY <4>1 DEF Begun, Brings, Covers
    <3>2. CASE f[i] # 0
      <4>1. f[i] \in 1 .. Len(keys) /\ keys'[i] = keys[f[i]]
        BY <2>2, <3>2, SMTT(30) DEF ListGains, ListLoses, Origins
      <4> QED BY <4>1 DEF RxLast, Listed
    <3> QED BY <3>1, <3>2
  <2>3. ASSUME NEW t \in Transmitters, NEW p \in 1 .. Len(keys), Counts(t, p)
        PROVE  Covers(keys'[i].rx_sequence, a[2])
    BY <2>3 DEF Counts, SameKey, RxLast, Listed
  <2>4. ASSUME NEW r \in Receivers, NEW p \in 1 .. Len(keys), Accepts(r, p)
        PROVE  Covers(keys'[i].rx_sequence, a[2])
    <3>1. i \in 1 .. Len(keys) /\ keys'[i].installation = keys[i].installation
      BY <2>4 DEF Accepts, SameKey
    <3>2. CASE i = p BY <2>4, <3>1, <3>2, AcceptedIsNewer DEF Covers
    <3>3. CASE i # p BY <2>4, <3>1, <3>3 DEF Accepts, RxLast, Listed
    <3> QED BY <3>2, <3>3
  <2> QED BY <2>1, <2>2, <2>3, <2>4, ListMoves DEF ListMove
<1>2. ASSUME NEW c \in Configurators, NEW installation, NEW rx, BeginsAt(c, installation, rx)
      PROVE  RxLast' /\ Begun'
  <2>1. /\ UNCHANGED keys /\ accepted' = accepted \cup {<<installation, rx>>}
        /\ installation \in unused
    BY <1>2 DEF BeginsAt
  <2>2. RxLast'
    <3> SUFFICES ASSUME NEW i \in 1 .. Len(keys), NEW a \in accepted', keys[i].installation = a[1]
                 PROVE  Covers(keys[i].rx_sequence, a[2])
      BY <2>1 DEF RxLast, Listed, Covers, sequence_is_newer
    <3>1. keys[i].installation # installation BY <2>1, OldOnes
    <3>2. a \in accepted BY <2>1, <3>1
    <3> QED BY <3>2 DEF RxLast, Listed
  <2>3. ASSUME NEW d \in Configurators, NEW a \in accepted', Sets(d)', a[1] = Brings(d)'
        PROVE  a[2] = configurator'[d].metadata.rx_sequence
    <3>1. CASE d = c
      <4>1. Brings(d)' = installation /\ configurator'[d].metadata.rx_sequence = rx
        BY <1>2, <3>1 DEF BeginsAt
      <4>2. a \notin accepted BY <2>1, <2>3, <4>1, OldOnes
      <4> QED BY <2>1, <4>1, <4>2
    <3>2. CASE d # c
      <4>1. configurator'[d] = configurator[d] BY <1>2, <3>2 DEF BeginsAt
      <4>2. Sets(d) /\ Brings(d)' = Brings(d) BY <2>3, <4>1 DEF Sets, Brings
      <4>3. Brings(d) # installation BY <2>1, <4>2, OldOnes
      <4>4. a \in accepted BY <2>1, <2>3, <4>2, <4>3
      <4> QED BY <2>3, <4>1, <4>2, <4>4 DEF Begun
    <3> QED BY <3>1, <3>2
  <2> QED BY <2>2, <2>3 DEF Begun
<1>3. CASE NoneBegins
  <2>1. ASSUME NEW d \in Configurators, Sets(d)'
        PROVE  Sets(d) /\ configurator'[d].metadata = configurator[d].metadata
    BY <1>3, <2>1 DEF NoneBegins
  <2>2. CASE UNCHANGED accepted
    <3>1. Begun' BY <2>1, <2>2 DEF Begun, Brings
    <3> QED BY <1>1, <2>2, <3>1
  <2>3. ASSUME NEW r \in Receivers, NEW p \in 1 .. Len(keys), Accepts(r, p)
        PROVE  RxLast' /\ Begun'
    <3>1. accepted' = accepted \cup {<<keys[p].installation, keys'[p].rx_sequence>>}
      BY <2>3 DEF Accepts
    <3>2. ASSUME NEW i \in 1 .. Len(keys'), NEW a \in accepted', keys'[i].installation = a[1]
          PROVE  Covers(keys'[i].rx_sequence, a[2])
      <4>1. i \in 1 .. Len(keys) /\ keys'[i].installation = keys[i].installation
        BY <2>3 DEF Accepts, SameKey
      <4>2. CASE i = p
        <5>1. CASE a \in accepted BY <2>3, <3>2, <4>1, <4>2, <5>1, AcceptedIsNewer DEF Covers
        <5>2. CASE a \notin accepted BY <3>1, <4>2, <5>2 DEF Covers
        <5> QED BY <5>1, <5>2
      <4>3. CASE i # p
        <5>1. keys[i].installation # keys[p].installation BY <4>1, <4>3, OldOnes
        <5>2. a[1] # keys[p].installation BY <3>2, <4>1, <5>1
        <5>3. a # <<keys[p].installation, keys'[p].rx_sequence>> BY <5>2
        <5>4. a \in accepted BY <3>1, <5>3
        <5>5. keys'[i].rx_sequence = keys[i].rx_sequence BY <2>3, <4>1, <4>3 DEF Accepts
        <5> QED BY <3>2, <4>1, <5>4, <5>5 DEF RxLast, Listed
      <4> QED BY <4>2, <4>3
    <3>3. RxLast' BY <3>2 DEF RxLast, Listed, Covers, sequence_is_newer
    <3>4. ASSUME NEW d \in Configurators, NEW a \in accepted', Sets(d)', a[1] = Brings(d)'
          PROVE  a[2] = configurator'[d].metadata.rx_sequence
      <4>1. /\ Sets(d) /\ configurator'[d].metadata = configurator[d].metadata
            /\ Brings(d)' = Brings(d)
        BY <2>1, <3>4 DEF Brings
      <4>2. keys[p].installation # Brings(d) BY <4>1, OldOnes
      <4>3. a \in accepted BY <3>1, <3>4, <4>1, <4>2
      <4> QED BY <3>4, <4>1, <4>3 DEF Begun
    <3> QED BY <3>3, <3>4 DEF Begun
  <2> QED BY <1>3, <2>2, <2>3 DEF NoneBegins
<1> QED BY <1>2, <1>3, InstallationsBegin

\* Before anything is installed there is nothing to relate.
LEMMA KeysInit == Init => InstalledOnce /\ CountersLast
<1> SUFFICES ASSUME Init PROVE InstalledOnce /\ CountersLast OBVIOUS
<1>1. /\ keys = <<>> /\ given = {} /\ accepted = {} /\ unused = Installations
      /\ \A c \in Configurators : configurator[c].at = "idle"
      /\ \A t \in Transmitters : transmitter[t].installation = None
  BY DEF Init, IdleConfigurator, IdleTransmitter
<1>2. Pending = {} BY <1>1 DEF Pending
<1>3. None \notin Installations BY KeysAssumption
<1>4. \A i : i \notin 1 .. Len(keys) BY <1>1
<1>5. InstalledOnce
  <2>1. \A t \in Transmitters : transmitter[t].installation \notin unused \cup Pending
    BY <1>1, <1>2, <1>3
  <2> QED BY <1>1, <1>2, <1>4, <2>1 DEF InstalledOnce
<1>6. CountersLast BY <1>1, <1>4 DEF CountersLast
<1> QED BY <1>5, <1>6

KeysInvariant == Types /\ InstalledOnce /\ CountersLast

\* The three layers are kept by every step.
LEMMA KeysStep == KeysInvariant /\ [Next]_vars => KeysInvariant'
<1> SUFFICES ASSUME Types, InstalledOnce, CountersLast, [Next]_vars
             PROVE  Types' /\ InstalledOnce' /\ CountersLast'
  BY DEF KeysInvariant
<1>1. TxLast /\ RxLast /\ Begun BY CountersByPart
<1>2. TxLast' /\ RxLast' /\ Begun' BY <1>1, TxLastStep, RxLastStep
<1>3. CountersLast' BY <1>2 DEF CountersLast, TxLast, RxLast, Begun, Covers, Sets, Brings
<1> QED BY <1>3, TypesStep, OnceStep

\* However installations, removals and frames interleave: each installation is in one
\* place, and its counters stand at the last sequence that was used under it.
THEOREM CountersFollowUse == Spec => []KeysInvariant
<1>1. Init => KeysInvariant BY TypesInit, KeysInit DEF KeysInvariant
<1> QED BY <1>1, KeysStep, PTL DEF Spec

-----------------------------------------------------------------------------
(***************************************************************************)
(* What a step does to a frame on its way.                                 *)
(***************************************************************************)

\* It is where it was.  When the driver's keys change, it is marked.
FrameStays(t) ==
  /\ transmitter'[t].at = transmitter[t].at
  /\ transmitter'[t].header = transmitter[t].header
  /\ transmitter'[t].key = transmitter[t].key
  /\ transmitter'[t].cipher = transmitter[t].cipher
  /\ transmitter'[t].installation = transmitter[t].installation
  /\ transmitter'[t].sequence = transmitter[t].sequence
  /\ transmitter[t].disturbed => transmitter'[t].disturbed
  /\ \/ transmitter[t].at = "idle" \/ transmitter'[t].disturbed
     \/ UNCHANGED <<driver, crossed>> /\ (Configuring' => Configuring)

FrameBegins(t) ==
  /\ transmitter[t].at = "idle"
  /\ transmitter'[t].disturbed <=> Configuring
  /\ transmitter'[t].installation = None
  /\ \/ transmitter'[t].at = "cipher"
     \/ /\ transmitter'[t].at = "transmit" /\ Matching(transmitter'[t].header) = {}
        /\ transmitter'[t].header.receiver \in Peers
  /\ UNCHANGED <<keys, driver, configurator, crossed>>

FrameHasCipher(t) ==
  /\ transmitter[t].at = "cipher" /\ transmitter'[t].at = "sequence"
  /\ transmitter'[t].cipher \in Supported
  /\ transmitter'[t].disturbed <=> transmitter[t].disturbed
  /\ UNCHANGED <<driver, configurator>>

FrameMoves(t) ==
  \/ FrameStays(t) \/ FrameBegins(t) \/ FrameHasCipher(t) \/ transmitter'[t].at = "idle"
  \/ \E p \in 1 .. Len(keys) : Counts(t, p)

\* A thread that transmits does one of these to its own frame, and nothing to others.
LEMMA TransmittersMove ==
  ASSUME Types, NEW t \in Transmitters, TransmitterStep(t)
  PROVE  \A u \in Transmitters : FrameMoves(u)
<1>1. /\ keys \in Seq(Metadata) /\ transmitter \in [Transmitters -> TransmitterRecords]
  BY TypesByVariable DEF Types
<1>2. ASSUME NEW next, transmitter' = [transmitter EXCEPT ![t] = next],
             UNCHANGED <<driver, configurator, crossed>>, NEW u \in Transmitters \ {t}
      PROVE  FrameStays(u)
  BY <1>1, <1>2 DEF FrameStays, Configuring
<1>3. CASE TxSequence(t)
  <2>1. PICK p \in 1 .. Len(keys) : Counts(t, p) BY <1>3, Counting
  <2>2. \A u \in Transmitters \ {t} : FrameStays(u) BY <1>2, <2>1 DEF Counts
  <2> QED BY <2>1, <2>2 DEF FrameMoves
<1>4. CASE TxUnsupported(t) \/ TxNotPermitted(t) \/ TxTransmit(t)
  <2>1. /\ transmitter' = [transmitter EXCEPT ![t] = IdleTransmitter]
        /\ UNCHANGED <<driver, configurator, crossed>>
    BY <1>4 DEF TxUnsupported, TxNotPermitted, TxTransmit, TransmitOnly
  <2>2. transmitter'[t].at = "idle" BY <1>1, <2>1 DEF IdleTransmitter
  <2> QED BY <1>2, <2>1, <2>2 DEF FrameMoves
<1>5. CASE TxCipher(t)
  <2>1. PICK i \in 1 .. Len(keys) :
          /\ keys[i].cipher \in Supported
          /\ transmitter' =
               [transmitter EXCEPT ![t].at = "sequence", ![t].cipher = keys[i].cipher]
    BY <1>5 DEF TxCipher
  <2> DEFINE next == [transmitter[t] EXCEPT !.at = "sequence", !.cipher = keys[i].cipher]
  <2>2. transmitter[t] \in TransmitterRecords BY <1>1
  <2>3. /\ next.at = "sequence" /\ next.cipher = keys[i].cipher
        /\ next.disturbed = transmitter[t].disturbed
    BY <2>2 DEF TransmitterRecords
  <2>4. transmitter' = [transmitter EXCEPT ![t] = next] BY <1>1, <2>1
  <2> HIDE DEF next
  <2>5. UNCHANGED <<driver, configurator, crossed>> /\ transmitter[t].at = "cipher"
    BY <1>5 DEF TxCipher, TransmitOnly
  <2>6. transmitter'[t] = next BY <1>1, <2>4
  <2>7. FrameHasCipher(t) BY <2>1, <2>3, <2>5, <2>6 DEF FrameHasCipher
  <2> QED BY <1>2, <2>4, <2>5, <2>7 DEF FrameMoves
<1>6. ASSUME NEW header \in [receiver : Peers, transmitter : Peers \cup {Own}],
             TxSelect(t, header)
      PROVE  \A u \in Transmitters : FrameMoves(u)
  <2> DEFINE d == Configuring
             chosen == [IdleTransmitter EXCEPT !.header = header, !.disturbed = d]
  <2>1. d \in BOOLEAN BY Zenon DEF Configuring
  <2>2. \/ /\ Matching(header) = {}
           /\ transmitter' = [transmitter EXCEPT ![t] = [chosen EXCEPT !.at = "transmit"]]
        \/ \E i \in 1 .. Len(keys) :
             transmitter' = [transmitter EXCEPT ![t] =
               [chosen EXCEPT !.at = "cipher", !.key = keys[i].id.index]]
    BY <1>6 DEF TxSelect
  <2>3. transmitter[t].at = "idle" /\ UNCHANGED <<keys, driver, configurator, crossed>>
    BY <1>6 DEF TxSelect, TransmitOnly
  <2>4. ASSUME NEW next, transmitter' = [transmitter EXCEPT ![t] = next],
               next.disturbed = d, next.installation = None,
               \/ next.at = "cipher"
               \/ next.at = "transmit" /\ next.header = header /\ Matching(header) = {}
        PROVE  \A u \in Transmitters : FrameMoves(u)
    <3>1. transmitter'[t] = next BY <1>1, <2>4
    <3>2. transmitter'[t].disturbed <=> Configuring BY <2>4, <3>1
    <3>3. FrameBegins(t) BY <2>3, <2>4, <3>1, <3>2 DEF FrameBegins
    <3> QED BY <1>2, <2>3, <2>4, <3>3 DEF FrameMoves
  <2> HIDE DEF d
  <2>5. CASE /\ Matching(header) = {}
             /\ transmitter' = [transmitter EXCEPT ![t] = [chosen EXCEPT !.at = "transmit"]]
    <3> DEFINE next == [chosen EXCEPT !.at = "transmit"]
    <3>1. /\ next.disturbed = d /\ next.installation = None /\ next.at = "transmit"
          /\ next.header = header
      BY DEF IdleTransmitter
    <3> HIDE DEF next
    <3> QED BY <2>4, <2>5, <3>1 DEF next
  <2>6. ASSUME NEW i \in 1 .. Len(keys),
               transmitter' = [transmitter EXCEPT ![t] =
                 [chosen EXCEPT !.at = "cipher", !.key = keys[i].id.index]]
        PROVE  \A u \in Transmitters : FrameMoves(u)
    <3> DEFINE next == [chosen EXCEPT !.at = "cipher", !.key = keys[i].id.index]
    <3>1. next.disturbed = d /\ next.installation = None /\ next.at = "cipher"
      BY DEF IdleTransmitter
    <3>2. transmitter' = [transmitter EXCEPT ![t] = next] BY <2>6
    <3> HIDE DEF next
    <3> QED BY <2>4, <3>1, <3>2
  <2> QED BY <2>2, <2>5, <2>6
<1> QED BY <1>3, <1>4, <1>5, <1>6 DEF TransmitterStep

\* So does any step.
LEMMA FramesMove ==
  ASSUME Types, [Next]_vars
  PROVE  \A t \in Transmitters : FrameMoves(t)
<1>1. /\ transmitter \in [Transmitters -> TransmitterRecords]
      /\ configurator \in [Configurators -> ConfiguratorRecords]
  BY TypesByVariable DEF Types
<1>2. CASE UNCHANGED <<transmitter, driver, configurator, crossed>>
  BY <1>2 DEF FrameMoves, FrameStays, Configuring
<1>3. ASSUME NEW c \in Configurators, ConfiguratorStep(c)
      PROVE  \A t \in Transmitters : FrameStays(t)
  <2>1. CASE Disturb
    <3> SUFFICES ASSUME NEW t \in Transmitters PROVE FrameStays(t) OBVIOUS
    <3>1. /\ transmitter'[t].at = transmitter[t].at
          /\ transmitter'[t].header = transmitter[t].header
          /\ transmitter'[t].key = transmitter[t].key
          /\ transmitter'[t].cipher = transmitter[t].cipher
          /\ transmitter'[t].installation = transmitter[t].installation
          /\ transmitter'[t].sequence = transmitter[t].sequence
          /\ transmitter[t].at # "idle" => transmitter'[t].disturbed
      BY <1>1, <2>1, DisturbType
    <3>2. transmitter[t].at = "idle" => transmitter'[t] = transmitter[t] BY <2>1 DEF Disturb
    <3> QED BY <3>1, <3>2 DEF FrameStays
  <2>2. CASE SetList(c) \/ DelList(c)
    <3>1. /\ configurator[c].at # "idle" /\ UNCHANGED <<transmitter, driver, crossed>>
          /\ configurator' = [configurator EXCEPT ![c] = IdleConfigurator]
      BY <2>2 DEF SetList, DelList
    <3>2. Configuring BY <3>1 DEF Configuring
    <3> QED BY <3>1, <3>2 DEF FrameStays
  <2> QED BY <1>3, <2>1, <2>2 DEF ConfiguratorStep, SetDriver, DelDriver
<1>4. ASSUME NEW r \in Receivers, ReceiverStep(r)
      PROVE  UNCHANGED <<transmitter, driver, configurator, crossed>>
  BY <1>4 DEF ReceiverStep, RxSelect, RxAccept, RxDrop, RxDeliver, ReceiveOnly
<1>5. UNCHANGED vars => UNCHANGED <<transmitter, driver, configurator, crossed>> BY DEF vars
<1> QED BY <1>2, <1>3, <1>4, <1>5, TransmittersMove DEF Next, FrameMoves

-----------------------------------------------------------------------------
(***************************************************************************)
(* What frames use.                                                        *)
(***************************************************************************)

\* The frames that look for their counter know a cipher that has one.
CipherKnown ==
  \A t \in Transmitters : transmitter[t].at = "sequence" => transmitter[t].cipher \in Supported

\* A frame gets its cipher before it looks for the counter.
LEMMA CipherKnownStep == Types /\ CipherKnown /\ [Next]_vars => CipherKnown'
<1> SUFFICES ASSUME Types, CipherKnown, [Next]_vars, NEW t \in Transmitters,
                    transmitter'[t].at = "sequence"
             PROVE  transmitter'[t].cipher \in Supported
  BY DEF CipherKnown
<1>1. ASSUME NEW p \in 1 .. Len(keys), Counts(t, p) PROVE FALSE
  <2>1. transmitter \in [Transmitters -> TransmitterRecords] BY TypesByVariable DEF Types
  <2>2. transmitter[t] \in TransmitterRecords BY <2>1
  <2> DEFINE next == [transmitter[t] EXCEPT !.at = "transmit",
                        !.installation = keys[p].installation, !.sequence = keys'[p].tx_sequence]
  <2>3. transmitter' = [transmitter EXCEPT ![t] = next] BY <1>1 DEF Counts
  <2>4. next.at = "transmit" BY <2>2 DEF TransmitterRecords
  <2> HIDE DEF next
  <2> QED BY <2>1, <2>3, <2>4
<1> QED BY <1>1, FramesMove
  DEF FrameMoves, FrameStays, FrameBegins, FrameHasCipher, CipherKnown

\* What a frame that was given a sequence is.
LEMMA Counted ==
  ASSUME Types, NEW t \in Transmitters, NEW p \in 1 .. Len(keys), Counts(t, p)
  PROVE  /\ transmitter'[t].at = "transmit"
         /\ transmitter'[t].header = transmitter[t].header
         /\ transmitter'[t].key = transmitter[t].key
         /\ transmitter'[t].cipher = transmitter[t].cipher
         /\ transmitter'[t].installation = keys[p].installation
         /\ transmitter'[t].sequence = keys'[p].tx_sequence
         /\ transmitter'[t].disturbed = transmitter[t].disturbed
         /\ \A u \in Transmitters \ {t} : transmitter'[u] = transmitter[u]
<1>1. transmitter \in [Transmitters -> TransmitterRecords] BY TypesByVariable DEF Types
<1>2. transmitter[t] \in TransmitterRecords BY <1>1
<1> DEFINE n == keys[p].installation
           s == keys'[p].tx_sequence
           next == [transmitter[t] EXCEPT !.at = "transmit", !.installation = n, !.sequence = s]
<1>3. transmitter' = [transmitter EXCEPT ![t] = next] BY DEF Counts
<1> HIDE DEF n, s
<1>4. /\ next.at = "transmit" /\ next.header = transmitter[t].header
      /\ next.key = transmitter[t].key /\ next.cipher = transmitter[t].cipher
      /\ next.installation = n /\ next.sequence = s
      /\ next.disturbed = transmitter[t].disturbed
  BY <1>2 DEF TransmitterRecords
<1> HIDE DEF next
<1>5. transmitter'[t] = next /\ \A u \in Transmitters \ {t} : transmitter'[u] = transmitter[u]
  BY <1>1, <1>3
<1> QED BY <1>4, <1>5 DEF n, s

\* The key that counts has the cipher and the index that were looked up before.
LEMMA CountingKeyFits ==
  ASSUME NEW i \in 1 .. Len(keys), NEW header, NEW index, NEW cipher \in Supported,
         CountingKey(i, header, index, cipher)
  PROVE  keys[i].cipher = cipher /\ keys[i].id.index = index
<1>1. CASE cipher = "CCMP" BY <1>1 DEF CountingKey
<1>2. CASE cipher = "TKIP" BY <1>2 DEF CountingKey, IsFirst, MatchingIndex
<1> QED BY <1>1, <1>2 DEF Supported

\* A key keeps its cipher and index, and a new key is of no frame.
LEMMA FitsCipherStep ==
  KeysInvariant /\ CipherKnown /\ SequenceFitsCipher /\ [Next]_vars => SequenceFitsCipher'
<1> SUFFICES ASSUME Types, InstalledOnce, CipherKnown, SequenceFitsCipher, [Next]_vars,
                    NEW t \in Transmitters, NEW i \in 1 .. Len(keys'),
                    transmitter'[t].at = "transmit", transmitter'[t].installation # None,
                    keys'[i].installation = transmitter'[t].installation
             PROVE  /\ keys'[i].cipher = transmitter'[t].cipher
                    /\ keys'[i].id.index = transmitter'[t].key
  BY DEF KeysInvariant, SequenceFitsCipher, Listed
<1>1. PICK f : /\ Origins(f)
               /\ \A k \in 1 .. Len(keys') : f[k] = 0 =>
                    \E c \in Configurators : SetList(c) /\ keys'[k] = configurator[c].metadata
  BY ListOrigins
<1>2. ASSUME f[i] # 0
      PROVE  f[i] \in 1 .. Len(keys) /\ SameKey(keys'[i], keys[f[i]])
  BY <1>1, <1>2 DEF Origins
<1>3. ASSUME f[i] = 0
      PROVE  /\ keys'[i].installation \in Fresh /\ UNCHANGED <<transmitter>>
  <2>1. PICK c \in Configurators : SetList(c) /\ keys'[i] = configurator[c].metadata
    BY <1>1, <1>3
  <2>2. Sets(c) /\ keys'[i].installation = Brings(c) BY <2>1 DEF SetList, Sets, Brings
  <2> QED BY <2>1, <2>2, OldOnes DEF SetList
<1>4. \A u \in Transmitters : transmitter[u].installation \notin Fresh
  BY DEF InstalledOnce, Fresh
<1>5. f[i] # 0 BY <1>3, <1>4
<1>6. CASE FrameStays(t)
  BY <1>2, <1>5, <1>6 DEF FrameStays, SameKey, SequenceFitsCipher, Listed
<1>7. ASSUME NEW p \in 1 .. Len(keys), Counts(t, p)
      PROVE  keys'[i].cipher = transmitter'[t].cipher /\ keys'[i].id.index = transmitter'[t].key
  <2>1. /\ transmitter[t].at = "sequence"
        /\ CountingKey(p, transmitter[t].header, transmitter[t].key, transmitter[t].cipher)
    BY <1>7 DEF Counts
  <2>2. keys[p].cipher = transmitter[t].cipher /\ keys[p].id.index = transmitter[t].key
    BY <2>1, CountingKeyFits DEF CipherKnown
  <2>3. /\ transmitter'[t].key = transmitter[t].key
        /\ transmitter'[t].cipher = transmitter[t].cipher
        /\ transmitter'[t].installation = keys[p].installation
    BY <1>7, Counted
  <2>4. f[i] = p BY <1>2, <1>5, <2>3, OldOnes DEF SameKey
  <2> QED BY <1>2, <1>5, <2>2, <2>3, <2>4 DEF SameKey
<1> QED BY <1>6, <1>7, FramesMove DEF FrameMoves, FrameBegins, FrameHasCipher

\* A frame is handed over with the cipher and the index of the key whose counter it used,
\* although each was looked up in a critical section of its own, between which keys come
\* and go.
THEOREM SequencesFitCiphers == Spec => []SequenceFitsCipher
<1>1. Init => KeysInvariant /\ CipherKnown /\ SequenceFitsCipher
  <2>1. Init => CipherKnown /\ SequenceFitsCipher
    BY DEF Init, IdleTransmitter, CipherKnown, SequenceFitsCipher
  <2> QED BY <2>1, TypesInit, KeysInit DEF KeysInvariant
<1>2. KeysInvariant /\ CipherKnown /\ SequenceFitsCipher /\ [Next]_vars
        => KeysInvariant' /\ CipherKnown' /\ SequenceFitsCipher'
  BY KeysStep, CipherKnownStep, FitsCipherStep DEF KeysInvariant
<1> QED BY <1>1, <1>2, PTL DEF Spec

\* The step that SequencesFresh speaks of.
GivesFreshSequences ==
  \A t \in Transmitters :
    transmitter[t].at = "sequence" /\ transmitter'[t].at = "transmit" =>
      \A g \in given : g[1] = transmitter'[t].installation =>
        sequence_is_newer(transmitter'[t].sequence, g[2])

\* What a frame is given is above all that was given under its key.
LEMMA FreshStep == KeysInvariant /\ [Next]_vars => GivesFreshSequences
<1> SUFFICES ASSUME Types, TxLast, [Next]_vars, NEW t \in Transmitters,
                    transmitter[t].at = "sequence", transmitter'[t].at = "transmit",
                    NEW g \in given, g[1] = transmitter'[t].installation
             PROVE  sequence_is_newer(transmitter'[t].sequence, g[2])
  BY CountersByPart DEF KeysInvariant, GivesFreshSequences
<1>1. PICK p \in 1 .. Len(keys) : Counts(t, p)
  BY FramesMove DEF FrameMoves, FrameStays, FrameBegins, FrameHasCipher
<1>2. /\ transmitter'[t].installation = keys[p].installation
      /\ transmitter'[t].sequence = keys'[p].tx_sequence
  BY <1>1, Counted
<1> QED BY <1>1, <1>2, GivenIsNewer

\* No sequence is given to two frames of an installation, whoever else transmits, installs
\* or removes at the time: each is newer than all before it.
THEOREM SequencesStayFresh == Spec => SequencesFresh
<1>1. KeysInvariant /\ [Next]_vars => GivesFreshSequences BY FreshStep
<1>2. Spec => [][GivesFreshSequences]_vars BY <1>1, CountersFollowUse, PTL DEF Spec
<1> QED BY <1>2, PTL DEF SequencesFresh, GivesFreshSequences

-----------------------------------------------------------------------------
(***************************************************************************)
(* The list and the driver, whatever the number of threads that install    *)
(* and remove keys.                                                        *)
(***************************************************************************)

\* The parts of ListMatchesDriver and ListFollowsDriver.
EachOnce == \A i, j \in 1 .. Len(keys) : keys[i].id = keys[j].id => i = j
Settled == Identities \ (Changing \cup crossed)
Agrees(id) ==
  /\ driver[id] # None => \E i \in 1 .. Len(keys) : keys[i].id = id /\ Listed(i, driver[id])
  /\ \A i \in 1 .. Len(keys) : keys[i].id = id => Listed(i, driver[id])
Uncrossed(c) == configurator[c].at # "idle" /\ configurator[c].id \notin crossed
Leads(c) ==
  /\ \A d \in Configurators :
       configurator[d].at # "idle" /\ configurator[d].id = configurator[c].id => d = c
  /\ driver[configurator[c].id] =
       IF configurator[c].at = "set" THEN configurator[c].metadata.installation ELSE None

Follows == ListMatchesDriver /\ ListFollowsDriver

\* The two are these parts.
LEMMA FollowsByPart ==
  Follows <=> /\ EachOnce
              /\ \A id \in Settled : Agrees(id)
              /\ \A c \in Configurators : Uncrossed(c) => Leads(c)
  BY DEF Follows, ListMatchesDriver, ListFollowsDriver, EachOnce, Settled, Agrees, Uncrossed, Leads

\* The same, of the next state.
LEMMA FollowsNext ==
  ASSUME EachOnce', \A id \in Settled' : Agrees(id)',
         \A c \in Configurators : Uncrossed(c)' => Leads(c)'
  PROVE  Follows'
  BY DEF Follows, ListMatchesDriver, ListFollowsDriver, EachOnce, Settled, Agrees, Uncrossed,
         Leads, Listed

\* Who is changing what.
LEMMA ChangingIs ==
  /\ \A c \in Configurators : configurator[c].at # "idle" => configurator[c].id \in Changing
  /\ \A id \in Changing : \E c \in Configurators :
       configurator[c].at # "idle" /\ configurator[c].id = id
  BY DEF Changing

\* What a call to the driver about an identity changes.
Calls(c, id, next) ==
  /\ configurator[c].at = "idle" /\ next.at \in {"set", "delete"} /\ next.id = id
  /\ configurator' = [configurator EXCEPT ![c] = next]
  /\ driver' = [driver EXCEPT ![id] =
       IF next.at = "set" THEN next.metadata.installation ELSE None]
  /\ crossed' = CrossedBy(id)
  /\ UNCHANGED keys

\* A thread goes to the driver ...
LEMMA DriverCallFollows ==
  ASSUME Types, Follows, NEW c \in Configurators, NEW id \in Identities, NEW next,
         Calls(c, id, next)
  PROVE  Follows'
<1>1. /\ driver \in [Identities -> Installations \cup {None}]
      /\ configurator \in [Configurators -> ConfiguratorRecords] /\ ConfiguratorLocals
  BY TypesByVariable DEF Types
<1>2. /\ EachOnce /\ \A x \in Settled : Agrees(x)
      /\ \A d \in Configurators : Uncrossed(d) => Leads(d)
  BY FollowsByPart
<1>3. /\ configurator'[c] = next /\ next.at # "idle" /\ next.id = id
      /\ \A d \in Configurators \ {c} : configurator'[d] = configurator[d]
  BY <1>1 DEF Calls
<1>4. /\ driver'[id] = IF next.at = "set" THEN next.metadata.installation ELSE None
      /\ \A x \in Identities \ {id} : driver'[x] = driver[x]
  BY <1>1 DEF Calls
<1>5. /\ \A x : x # id => (x \in crossed' <=> x \in crossed)
      /\ id \notin crossed' => id \notin Changing
  BY DEF Calls, CrossedBy
<1>6. id \in Changing' /\ Changing \subseteq Changing'
  <2>1. id \in Changing' BY <1>3, ChangingIs DEF Changing
  <2>2. ASSUME NEW d \in Configurators, configurator[d].at # "idle"
        PROVE  configurator[d].id \in Changing'
    <3>1. d # c BY <2>2 DEF Calls
    <3>2. configurator'[d] = configurator[d] BY <1>3, <3>1
    <3> QED BY <2>2, <3>2 DEF Changing
  <2> QED BY <2>1, <2>2 DEF Changing
<1>7. keys' = keys BY DEF Calls
<1>8. EachOnce' BY <1>2, <1>7 DEF EachOnce
<1>9. ASSUME NEW x \in Settled' PROVE Agrees(x)'
  <2>1. x \in Identities /\ x # id /\ x \in Settled BY <1>5, <1>6, <1>9 DEF Settled
  <2>2. Agrees(x) /\ driver'[x] = driver[x] BY <1>2, <1>4, <2>1
  <2> QED BY <1>7, <2>2 DEF Agrees, Listed
<1>10. ASSUME NEW d \in Configurators, Uncrossed(d)' PROVE Leads(d)'
  <2>1. CASE d = c
    <3>1. id \notin Changing BY <1>3, <1>5, <1>10, <2>1 DEF Uncrossed
    <3>2. ASSUME NEW e \in Configurators, configurator'[e].at # "idle", configurator'[e].id = id,
                 e # c
          PROVE  FALSE
      <4>1. configurator[e].at # "idle" /\ configurator[e].id = id BY <1>3, <3>2
      <4> QED BY <3>1, <4>1, ChangingIs
    <3> QED BY <1>3, <1>4, <2>1, <3>2 DEF Leads
  <2>2. CASE d # c
    <3>1. configurator'[d] = configurator[d] BY <1>3, <2>2
    <3>2. configurator[d].at # "idle" /\ configurator[d].id \notin crossed'
      BY <1>10, <3>1 DEF Uncrossed
    <3>3. configurator[d].id \in Changing /\ configurator[d].id \in Identities
      BY <1>1, <3>2, ChangingIs DEF ConfiguratorLocals
    <3>4. configurator[d].id # id BY <1>5, <3>2, <3>3
    <3>5. Leads(d) BY <1>2, <1>5, <3>2, <3>4 DEF Uncrossed
    <3>6. driver'[configurator[d].id] = driver[configurator[d].id] BY <1>4, <3>3, <3>4
    <3>7. ASSUME NEW e \in Configurators, configurator'[e].at # "idle",
                 configurator'[e].id = configurator[d].id
          PROVE  e = d
      <4>1. e # c BY <1>3, <3>4, <3>7
      <4>2. configurator'[e] = configurator[e] BY <1>3, <4>1
      <4> QED BY <3>5, <3>7, <4>2 DEF Leads
    <3> QED BY <3>1, <3>5, <3>6, <3>7 DEF Leads
  <2> QED BY <2>1, <2>2
<1> QED BY <1>8, <1>9, <1>10, FollowsNext

\* ... then to the list.
LEMMA ListCallFollows ==
  ASSUME Types, Follows, InstalledOnce', NEW c \in Configurators, SetList(c) \/ DelList(c)
  PROVE  Follows'
<1> DEFINE id == configurator[c].id
           m == configurator[c].metadata
<1>1. /\ keys \in Seq(Metadata) /\ configurator \in [Configurators -> ConfiguratorRecords]
      /\ ConfiguratorLocals
  BY TypesByVariable DEF Types
<1>2. /\ EachOnce /\ \A x \in Settled : Agrees(x)
      /\ \A d \in Configurators : Uncrossed(d) => Leads(d)
  BY FollowsByPart
<1>3. /\ configurator[c].at # "idle" /\ UNCHANGED <<driver, crossed>>
      /\ SetList(c) => configurator[c].at = "set"
      /\ DelList(c) => configurator[c].at = "delete"
      /\ configurator' = [configurator EXCEPT ![c] = IdleConfigurator]
  BY DEF SetList, DelList
<1>4. /\ configurator'[c].at = "idle"
      /\ \A d \in Configurators \ {c} : configurator'[d] = configurator[d]
  BY <1>1, <1>3 DEF IdleConfigurator
<1>5. id \in Identities /\ (SetList(c) => m.id = id)
  BY <1>1, <1>3 DEF ConfiguratorLocals
<1>6. IdentityGone(c) /\ \E f : ListGains(c, f) \/ ListLoses(c, f)
  BY <1>1, Installation, Removal
<1>7. \A i, j \in 1 .. Len(keys) : keys[i].id = keys[j].id => i = j BY <1>2 DEF EachOnce
<1>8. \A i \in 1 .. Len(keys') : keys'[i].id = id => SetList(c) /\ keys'[i] = m
  BY <1>6, <1>7 DEF IdentityGone
<1>9. PICK f : ListGains(c, f) \/ ListLoses(c, f) BY <1>6
<1>10. ~(SetList(c) /\ DelList(c)) BY <1>3
<1>11. id \notin crossed =>
         driver[id] = IF configurator[c].at = "set" THEN m.installation ELSE None
  BY <1>2, <1>3 DEF Uncrossed, Leads
<1>12. Changing \subseteq Changing' \cup {id}
  <2> SUFFICES ASSUME NEW d \in Configurators, configurator[d].at # "idle", d # c
               PROVE  configurator[d].id \in Changing'
    BY DEF Changing
  <2>1. configurator'[d] = configurator[d] BY <1>4
  <2> QED BY <2>1 DEF Changing
<1> HIDE DEF id, m
<1>13. /\ Origins(f)
       /\ \A i \in 1 .. Len(keys') : keys'[i].id # id => f[i] # 0 /\ keys'[i] = keys[f[i]]
       /\ \A j \in 1 .. Len(keys) : keys[j].id # id => \E i \in 1 .. Len(keys') : f[i] = j
       /\ SetList(c) => \E i \in 1 .. Len(keys') : keys'[i] = m
  BY <1>5, <1>9, <1>10 DEF ListGains, ListLoses, id, m
<1>14. \A i \in 1 .. Len(keys') : keys'[i].id # id =>
         f[i] \in 1 .. Len(keys) /\ keys'[i] = keys[f[i]]
  BY <1>13 DEF Origins
<1>15. \A i, j \in 1 .. Len(keys') : f[i] = f[j] => i = j BY <1>13 DEF Origins
<1>16. \A i, j \in 1 .. Len(keys') : keys'[i].installation = keys'[j].installation => i = j
  BY DEF InstalledOnce, Listed
<1>17. ASSUME NEW i \in 1 .. Len(keys'), NEW j \in 1 .. Len(keys'), keys'[i].id = keys'[j].id
       PROVE  i = j
  <2>1. CASE keys'[i].id = id BY <1>8, <1>16, <1>17, <2>1
  <2>2. CASE keys'[i].id # id BY <1>7, <1>14, <1>15, <1>17, <2>2
  <2> QED BY <2>1, <2>2
<1>18. ASSUME NEW x \in Settled'
       PROVE  /\ driver[x] # None =>
                   \E i \in 1 .. Len(keys') : keys'[i].id = x /\ keys'[i].installation = driver[x]
              /\ \A i \in 1 .. Len(keys') : keys'[i].id = x => keys'[i].installation = driver[x]
  <2>1. x \in Identities /\ x \notin crossed /\ x \notin Changing' BY <1>3, <1>18 DEF Settled
  <2>2. CASE x = id
    <3>1. driver[id] = IF configurator[c].at = "set" THEN m.installation ELSE None
      BY <1>11, <2>1, <2>2
    <3>2. CASE SetList(c) BY <1>3, <1>5, <1>8, <1>13, <2>2, <3>1, <3>2
    <3>3. CASE DelList(c)
      <4>1. driver[id] = None BY <1>3, <3>1, <3>3
      <4> QED BY <1>8, <1>10, <2>2, <3>3, <4>1
    <3> QED BY <3>2, <3>3
  <2>3. CASE x # id
    <3>1. Agrees(x) BY <1>2, <1>12, <2>1, <2>3 DEF Settled
    <3>2. ASSUME NEW i \in 1 .. Len(keys'), keys'[i].id = x
          PROVE  keys'[i].installation = driver[x]
      BY <1>14, <2>3, <3>1, <3>2 DEF Agrees, Listed
    <3>3. ASSUME driver[x] # None
          PROVE  \E i \in 1 .. Len(keys') : keys'[i].id = x /\ keys'[i].installation = driver[x]
      <4>1. PICK j \in 1 .. Len(keys) : keys[j].id = x /\ keys[j].installation = driver[x]
        BY <3>1, <3>3 DEF Agrees, Listed
      <4>2. PICK i \in 1 .. Len(keys') : f[i] = j BY <1>13, <2>3, <4>1
      <4>3. f[i] # 0 BY <1>1, <4>1, <4>2
      <4>4. keys'[i].id = x BY <1>13, <4>1, <4>2, <4>3 DEF Origins, SameKey
      <4> QED BY <3>2, <4>4
    <3> QED BY <3>2, <3>3
  <2> QED BY <2>2, <2>3
<1>19. ASSUME NEW d \in Configurators, Uncrossed(d)' PROVE Leads(d)'
  <2>1. d # c /\ configurator'[d] = configurator[d] BY <1>4, <1>19 DEF Uncrossed
  <2>2. Leads(d) BY <1>2, <1>3, <1>19, <2>1 DEF Uncrossed
  <2>3. ASSUME NEW e \in Configurators, configurator'[e].at # "idle",
               configurator'[e].id = configurator[d].id
        PROVE  e = d
    <3>1. e # c /\ configurator'[e] = configurator[e] BY <1>4, <2>3
    <3> QED BY <2>2, <2>3, <3>1 DEF Leads
  <2> QED BY <1>3, <2>1, <2>2, <2>3 DEF Leads
<1>20. EachOnce' BY <1>17 DEF EachOnce
<1>21. \A x \in Settled' : Agrees(x)' BY <1>3, <1>18 DEF Agrees, Listed
<1> QED BY <1>19, <1>20, <1>21, FollowsNext

\* Threads that transmit and receive leave the keys where they are.
LEMMA PlacesKept ==
  ASSUME Types, [Next]_vars, ~ \E c \in Configurators : SetList(c) \/ DelList(c)
  PROVE  /\ Len(keys') = Len(keys)
         /\ \A i \in 1 .. Len(keys) : SameKey(keys'[i], keys[i])
<1>1. CASE ListKept BY <1>1 DEF ListKept, SameKey
<1>2. ASSUME NEW t \in Transmitters, NEW p \in 1 .. Len(keys), Counts(t, p)
      PROVE  /\ Len(keys') = Len(keys)
             /\ \A i \in 1 .. Len(keys) : SameKey(keys'[i], keys[i])
  BY <1>2 DEF Counts
<1>3. ASSUME NEW r \in Receivers, NEW p \in 1 .. Len(keys), Accepts(r, p)
      PROVE  /\ Len(keys') = Len(keys)
             /\ \A i \in 1 .. Len(keys) : SameKey(keys'[i], keys[i])
  BY <1>3 DEF Accepts
<1>4. \A c \in Configurators : \A f : ~ListGains(c, f) /\ ~ListLoses(c, f)
  BY DEF ListGains, ListLoses
<1> QED BY <1>1, <1>2, <1>3, <1>4, ListMoves DEF ListMove

\* Only a call to the driver, or one to the list, could part the two; neither does so
\* for an identity about which no calls cross.
LEMMA FollowsStep ==
  ASSUME KeysInvariant, Follows, [Next]_vars
  PROVE  Follows'
<1>1. Types /\ InstalledOnce' BY KeysStep DEF KeysInvariant
<1>2. configurator \in [Configurators -> ConfiguratorRecords] BY <1>1, TypesByVariable DEF Types
<1>3. ASSUME NEW c \in Configurators, ConfiguratorStep(c) PROVE Follows'
  <2>1. ASSUME NEW id \in Identities, NEW cipher, NEW rx, NEW installation,
               SetDriver(c, id, cipher, rx, installation)
        PROVE  Follows'
    <3> DEFINE n == [installation |-> installation, id |-> id, cipher |-> cipher,
                     rx_sequence |-> rx, tx_sequence |-> Zero]
               next == [at |-> "set", id |-> id, metadata |-> n]
    <3>1. configurator' = [configurator EXCEPT ![c] = next] BY <2>1 DEF SetDriver
    <3>2. next.at = "set" /\ next.id = id /\ next.metadata.installation = installation OBVIOUS
    <3> HIDE DEF next
    <3>3. Calls(c, id, next) BY <2>1, <3>1, <3>2 DEF SetDriver, Calls
    <3> QED BY <1>1, <3>3, DriverCallFollows
  <2>2. ASSUME NEW id \in Identities, DelDriver(c, id) PROVE Follows'
    <3> DEFINE next == [configurator[c] EXCEPT !.at = "delete", !.id = id]
    <3>1. configurator[c] \in ConfiguratorRecords BY <1>2
    <3>2. next.at = "delete" /\ next.id = id BY <3>1 DEF ConfiguratorRecords
    <3>3. configurator' = [configurator EXCEPT ![c] = next] BY <2>2 DEF DelDriver
    <3> HIDE DEF next
    <3>4. Calls(c, id, next) BY <2>2, <3>2, <3>3 DEF DelDriver, Calls
    <3> QED BY <1>1, <3>4, DriverCallFollows
  <2> QED BY <1>1, <1>3, <2>1, <2>2, ListCallFollows DEF ConfiguratorStep
<1>4. ASSUME UNCHANGED <<driver, configurator, crossed>> PROVE Follows'
  <2>1. \A c \in Configurators : ~SetList(c) /\ ~DelList(c)
    BY <1>2, <1>4 DEF SetList, DelList, IdleConfigurator
  <2>2. /\ Len(keys') = Len(keys)
        /\ \A i \in 1 .. Len(keys) : SameKey(keys'[i], keys[i])
    BY <1>1, <2>1, PlacesKept
  <2>3. Settled' = Settled BY <1>4 DEF Settled, Changing
  <2>4. EachOnce' BY <2>2, FollowsByPart DEF EachOnce, SameKey
  <2>5. ASSUME NEW x \in Settled PROVE Agrees(x)'
    <3>1. Agrees(x) BY FollowsByPart
    <3> QED BY <1>4, <2>2, <3>1 DEF Agrees, Listed, SameKey
  <2>6. \A c \in Configurators : Uncrossed(c)' => Leads(c)'
    BY <1>4, FollowsByPart DEF Uncrossed, Leads
  <2> QED BY <2>3, <2>4, <2>5, <2>6, FollowsNext
<1>5. ASSUME NEW t \in Transmitters, TransmitterStep(t)
      PROVE  UNCHANGED <<driver, configurator, crossed>>
  BY <1>5
  DEF TransmitterStep, TxSelect, TxCipher, TxUnsupported, TxSequence, TxNotPermitted,
      TxTransmit, TransmitOnly
<1>6. ASSUME NEW r \in Receivers, ReceiverStep(r) PROVE UNCHANGED <<driver, configurator, crossed>>
  BY <1>6 DEF ReceiverStep, RxSelect, RxAccept, RxDrop, RxDeliver, ReceiveOnly
<1>7. UNCHANGED vars => UNCHANGED <<driver, configurator, crossed>> BY DEF vars
<1> QED BY <1>3, <1>4, <1>5, <1>6, <1>7 DEF Next

\* A thread that goes to the driver marks the frames on their way, and those that begin
\* before it reaches the list begin marked.
LEMMA UndisturbedStep ==
  ASSUME Types, UndisturbedFrames, [Next]_vars
  PROVE  UndisturbedFrames'
<1> SUFFICES ASSUME NEW t \in Transmitters, transmitter'[t].at # "idle",
                    ~transmitter'[t].disturbed
             PROVE  ~Configuring'
  BY DEF UndisturbedFrames
<1>1. transmitter[t].at # "idle" /\ ~transmitter[t].disturbed => ~Configuring
  BY DEF UndisturbedFrames
<1>2. CASE FrameStays(t) BY <1>1, <1>2 DEF FrameStays
<1>3. CASE FrameBegins(t) BY <1>3 DEF FrameBegins, Configuring
<1>4. CASE FrameHasCipher(t) BY <1>1, <1>4 DEF FrameHasCipher, Configuring
<1>5. ASSUME NEW p \in 1 .. Len(keys), Counts(t, p) PROVE ~Configuring'
  BY <1>1, <1>5, Counted DEF Counts, Configuring
<1> QED BY <1>2, <1>3, <1>4, <1>5, FramesMove DEF FrameMoves

\* What is to hold of a frame that is handed to the driver.
UnderKey(t) ==
  \E i \in 1 .. Len(keys) :
    /\ Listed(i, transmitter[t].installation)
    /\ keys[i].id.index = transmitter[t].key
    /\ keys[i].id \in crossed \/ driver[keys[i].id] = transmitter[t].installation
WithoutKey(t) ==
  transmitter[t].header.transmitter = Own =>
    \A id \in Identities :
      /\ {"TX", "PAIRWISE"} \subseteq id.flags /\ id.peer = transmitter[t].header.receiver
      /\ id \notin crossed
      => driver[id] = None
UnderDriverKey(t) ==
  IF transmitter[t].installation # None THEN UnderKey(t) ELSE WithoutKey(t)

\* TransmitsUnderDriverKey, one frame at a time.
LEMMA UnderDriverKeyIs ==
  TransmitsUnderDriverKey <=>
    \A t \in Transmitters :
      transmitter[t].at = "transmit" /\ ~transmitter[t].disturbed => UnderDriverKey(t)
  BY DEF TransmitsUnderDriverKey, UnderDriverKey, UnderKey, WithoutKey

\* The same, of the next state.
LEMMA UnderDriverKeyNext ==
  ASSUME \A t \in Transmitters :
           transmitter'[t].at = "transmit" /\ ~transmitter'[t].disturbed => UnderDriverKey(t)'
  PROVE  TransmitsUnderDriverKey'
  BY DEF TransmitsUnderDriverKey, UnderDriverKey, UnderKey, WithoutKey, Listed

\* No key in the list for the access point: none in the driver.
LEMMA NoneToSendWith ==
  ASSUME Types, Follows, ~Configuring, NEW header,
         Matching(header) = {}, header.receiver \in Peers, header.transmitter = Own,
         NEW id \in Identities, {"TX", "PAIRWISE"} \subseteq id.flags, id.peer = header.receiver,
         id \notin crossed
  PROVE  driver[id] = None
<1> SUFFICES ASSUME driver[id] # None PROVE FALSE OBVIOUS
<1>1. Changing = {} BY DEF Configuring, Changing
<1>2. Agrees(id) BY <1>1, FollowsByPart DEF Settled
<1>3. PICK i \in 1 .. Len(keys) : keys[i].id = id BY <1>2 DEF Agrees
<1>4. header.receiver # Group BY KeysAssumption
<1>5. key_matches_header(keys[i], header)
  BY <1>3, <1>4 DEF key_matches_header, IsTx, PeerOf
<1> QED BY <1>3, <1>5 DEF Matching

\* A frame is handed over between two changes, under a key that both have.
LEMMA TransmitsStep ==
  ASSUME KeysInvariant, CipherKnown, Follows, UndisturbedFrames,
         TransmitsUnderDriverKey, [Next]_vars
  PROVE  TransmitsUnderDriverKey'
<1>0. Types BY DEF KeysInvariant
<1> SUFFICES ASSUME NEW t \in Transmitters, transmitter'[t].at = "transmit",
                    ~transmitter'[t].disturbed
             PROVE  UnderDriverKey(t)'
  BY UnderDriverKeyNext
<1>1. ASSUME ~Configuring
      PROVE  /\ Len(keys') = Len(keys)
             /\ \A i \in 1 .. Len(keys) : SameKey(keys'[i], keys[i])
  <2>1. ~ \E c \in Configurators : SetList(c) \/ DelList(c)
    BY <1>1 DEF Configuring, SetList, DelList
  <2> QED BY <1>0, <2>1, PlacesKept
<1>2. CASE FrameStays(t)
  <2>1. /\ transmitter[t].at = "transmit" /\ ~transmitter[t].disturbed
        /\ UNCHANGED <<driver, crossed>>
        /\ transmitter'[t].header = transmitter[t].header
        /\ transmitter'[t].key = transmitter[t].key
        /\ transmitter'[t].installation = transmitter[t].installation
    BY <1>2 DEF FrameStays
  <2>2. UnderDriverKey(t) BY <2>1, UnderDriverKeyIs
  <2>3. ~Configuring BY <2>1 DEF UndisturbedFrames
  <2>4. ASSUME UnderKey(t) PROVE UnderKey(t)'
    BY <1>1, <2>1, <2>3, <2>4 DEF UnderKey, Listed, SameKey
  <2>5. ASSUME WithoutKey(t) PROVE WithoutKey(t)'
    BY <2>1, <2>5 DEF WithoutKey
  <2> QED BY <2>1, <2>2, <2>4, <2>5 DEF UnderDriverKey
<1>3. CASE FrameBegins(t)
  <2>1. /\ transmitter'[t].installation = None /\ ~Configuring
        /\ UNCHANGED <<driver, crossed>>
        /\ Matching(transmitter'[t].header) = {} /\ transmitter'[t].header.receiver \in Peers
    BY <1>3 DEF FrameBegins
  <2>2. WithoutKey(t)' BY <1>0, <2>1, NoneToSendWith DEF WithoutKey
  <2> QED BY <2>1, <2>2 DEF UnderDriverKey
<1>4. ASSUME NEW p \in 1 .. Len(keys), Counts(t, p) PROVE UnderDriverKey(t)'
  <2>1. /\ transmitter[t].at = "sequence" /\ ~transmitter[t].disturbed
        /\ transmitter'[t].installation = keys[p].installation
        /\ transmitter'[t].key = transmitter[t].key /\ UNCHANGED <<driver, crossed>>
        /\ Len(keys') = Len(keys) /\ SameKey(keys'[p], keys[p])
    BY <1>0, <1>4, Counted DEF Counts
  <2>2. keys[p].id.index = transmitter[t].key
    BY <1>4, <2>1, CountingKeyFits DEF Counts, CipherKnown
  <2>3. Changing = {}
    BY <2>1 DEF UndisturbedFrames, Configuring, Changing
  <2>4. keys \in Seq(Metadata) BY <1>0, TypesByVariable DEF Types
  <2>5. keys[p].id \in Identities /\ keys[p].installation # None
    BY <2>4, KeyTypes, KeysAssumption
  <2>6. keys[p].id \in crossed \/ driver[keys[p].id] = keys[p].installation
    <3>1. CASE keys[p].id \notin crossed
      <4>1. Agrees(keys[p].id) BY <2>3, <2>5, <3>1, FollowsByPart DEF Settled
      <4> QED BY <4>1 DEF Agrees, Listed
    <3> QED BY <3>1
  <2>7. UnderKey(t)' BY <2>1, <2>2, <2>6 DEF UnderKey, Listed, SameKey
  <2> QED BY <2>1, <2>5, <2>7 DEF UnderDriverKey
<1> QED BY <1>0, <1>2, <1>3, <1>4, FramesMove DEF FrameMoves, FrameHasCipher

ConfigurationInvariant ==
  KeysInvariant /\ CipherKnown /\ Follows /\ UndisturbedFrames /\ TransmitsUnderDriverKey

\* At the start there are no keys on either side.
LEMMA ConfigurationInit == Init => ConfigurationInvariant
<1> SUFFICES ASSUME Init PROVE ConfigurationInvariant OBVIOUS
<1>1. KeysInvariant BY TypesInit, KeysInit DEF KeysInvariant
<1>2. /\ keys = <<>> /\ \A id \in Identities : driver[id] = None
      /\ \A c \in Configurators : configurator[c].at = "idle"
      /\ \A t \in Transmitters : transmitter[t].at = "idle"
  BY DEF Init, IdleConfigurator, IdleTransmitter
<1>3. \A i : i \notin 1 .. Len(keys) BY <1>2
<1>4. ListMatchesDriver /\ ListFollowsDriver
  BY <1>2, <1>3 DEF ListMatchesDriver, ListFollowsDriver
<1> QED BY <1>1, <1>2, <1>4
  DEF ConfigurationInvariant, Follows, CipherKnown, UndisturbedFrames, TransmitsUnderDriverKey

\* Everything together is kept by every step.
LEMMA ConfigurationStep == ConfigurationInvariant /\ [Next]_vars => ConfigurationInvariant'
<1> SUFFICES ASSUME ConfigurationInvariant, [Next]_vars PROVE ConfigurationInvariant' OBVIOUS
<1>1. /\ KeysInvariant /\ Types /\ CipherKnown /\ Follows /\ UndisturbedFrames
      /\ TransmitsUnderDriverKey
  BY DEF ConfigurationInvariant, KeysInvariant
<1> QED BY <1>1, KeysStep, CipherKnownStep, FollowsStep, UndisturbedStep, TransmitsStep
  DEF ConfigurationInvariant

\* However many threads install and remove keys: the list has each identity once, and for
\* every identity that no thread is changing it has the key that the driver has, unless
\* calls about it have crossed.
THEOREM ListMatches == Spec => []ListMatchesDriver
<1>1. ConfigurationInvariant => ListMatchesDriver BY DEF ConfigurationInvariant, Follows
<1> QED BY <1>1, ConfigurationInit, ConfigurationStep, PTL DEF Spec

\* However many threads install and remove keys: a frame that none of their calls came
\* across is under the key whose counter it used, and goes out without one only when the
\* driver has none to send with, unless calls about the identity have crossed.
THEOREM FramesMatchDriver == Spec => []TransmitsUnderDriverKey
<1>1. ConfigurationInvariant => TransmitsUnderDriverKey BY DEF ConfigurationInvariant
<1> QED BY <1>1, ConfigurationInit, ConfigurationStep, PTL DEF Spec

-----------------------------------------------------------------------------
(***************************************************************************)
(* Numbers.  Whatever a recursive function has of every i, a least i that  *)
(* did not have it would contradict.                                       *)
(***************************************************************************)

Base == ByteMax + 1

\* What the i highest bytes of a sequence stand for, for each i up to n.
ValuesUpTo(n, s, v) ==
  /\ v \in [0 .. n -> Nat] /\ v[0] = 0
  /\ \A i \in 1 .. n : v[i] = v[i - 1] * Base + s[SequenceSize - i]

Values(s, v) == ValuesUpTo(SequenceSize, s, v)

\* If a step leads from each number to the next, all are reached.
LEMMA UpToSize ==
  ASSUME NEW Reached \in SUBSET (0 .. SequenceSize), NEW first \in Reached,
         \A i \in Reached : i # SequenceSize => i + 1 \in Reached
  PROVE  \A i \in first .. SequenceSize : i \in Reached
<1>1. SequenceSize \in Nat BY KeysAssumption
<1> DEFINE left == {i \in first .. SequenceSize : i \notin Reached}
<1> SUFFICES ASSUME left # {} PROVE FALSE OBVIOUS
<1>2. left \subseteq Nat BY <1>1
<1> HIDE DEF left
<1>3. PICK i \in left : \A j \in left : i <= j BY <1>2, LeastNumber
<1>4. i \in first .. SequenceSize /\ i \notin Reached /\ i # first BY <1>3 DEF left
<1>5. i - 1 \in first .. SequenceSize /\ i - 1 + 1 = i /\ ~(i <= i - 1) BY <1>1, <1>4
<1>6. i - 1 \in Reached BY <1>3, <1>5 DEF left
<1> QED BY <1>1, <1>4, <1>5, <1>6

\* The function that Number names is there, and its values are numbers.
LEMMA NumberIsValue ==
  ASSUME NEW s \in Sequence
  PROVE  \E v : Values(s, v) /\ Number(s) = v[SequenceSize]
<1>1. /\ SequenceSize \in Nat /\ ByteMax \in Nat /\ Base \in Nat
      /\ \A i \in 0 .. SequenceSize - 1 : s[i] \in Nat
  BY KeysAssumption DEF Sequence, Base
<1> DEFINE parts == {n \in 0 .. SequenceSize : \E v : ValuesUpTo(n, s, v)}
<1>2. 0 \in parts
  <2>1. ValuesUpTo(0, s, [i \in 0 .. 0 |-> 0]) BY DEF ValuesUpTo
  <2> QED BY <1>1, <2>1
<1>3. ASSUME NEW n \in parts, n # SequenceSize PROVE n + 1 \in parts
  <2>1. PICK v : ValuesUpTo(n, s, v) OBVIOUS
  <2>2. n \in 0 .. SequenceSize - 1 BY <1>1, <1>3
  <2> DEFINE x == v[n] * Base + s[SequenceSize - (n + 1)]
             w == [i \in 0 .. n + 1 |-> IF i = n + 1 THEN x ELSE v[i]]
  <2>3. x \in Nat
    <3>1. v[n] \in Nat /\ s[SequenceSize - (n + 1)] \in Nat
      BY <1>1, <2>1, <2>2 DEF ValuesUpTo
    <3>2. v[n] * Base \in Nat BY <1>1, <3>1
    <3> QED BY <3>1, <3>2
  <2>4. w \in [0 .. n + 1 -> Nat] /\ w[0] = 0 BY <2>1, <2>2, <2>3 DEF ValuesUpTo
  <2>5. ASSUME NEW i \in 1 .. n + 1 PROVE w[i] = w[i - 1] * Base + s[SequenceSize - i]
    <3>1. CASE i = n + 1
      <4>1. w[i] = x /\ w[i - 1] = v[n] BY <2>2, <3>1
      <4> QED BY <3>1, <4>1
    <3>2. CASE i # n + 1
      <4>1. i \in 1 .. n /\ w[i] = v[i] /\ w[i - 1] = v[i - 1] BY <2>2, <3>2
      <4> QED BY <2>1, <4>1 DEF ValuesUpTo
    <3> QED BY <3>1, <3>2
  <2> HIDE DEF w
  <2>6. ValuesUpTo(n + 1, s, w) BY <2>4, <2>5 DEF ValuesUpTo
  <2>7. n + 1 \in 0 .. SequenceSize BY <1>1, <2>2
  <2> QED BY <2>6, <2>7
<1> HIDE DEF parts
<1>4. parts \subseteq 0 .. SequenceSize BY DEF parts
<1>5. SequenceSize \in parts BY <1>1, <1>2, <1>3, <1>4, UpToSize
<1>6. PICK v : Values(s, v) BY <1>5 DEF parts, Values
<1>7. v = [i \in 0 .. SequenceSize |->
             IF i = 0 THEN 0 ELSE v[i - 1] * (ByteMax + 1) + s[SequenceSize - i]]
  BY <1>1, <1>6 DEF Base, Values, ValuesUpTo
<1> DEFINE value[i \in 0 .. SequenceSize] ==
             IF i = 0 THEN 0 ELSE value[i - 1] * (ByteMax + 1) + s[SequenceSize - i]
<1>8. value = [i \in 0 .. SequenceSize |->
                 IF i = 0 THEN 0 ELSE value[i - 1] * (ByteMax + 1) + s[SequenceSize - i]]
  <2> SUFFICES \E ff : ff = [i \in 0 .. SequenceSize |->
                 IF i = 0 THEN 0 ELSE ff[i - 1] * (ByteMax + 1) + s[SequenceSize - i]]
    OBVIOUS
  <2> QED BY <1>7
<1>9. Number(s) = value[SequenceSize] BY DEF Number
<1> HIDE DEF value
<1> DEFINE same == {i \in 0 .. SequenceSize : value[i] = v[i]}
<1>10. 0 \in same BY <1>1, <1>6, <1>8 DEF Values, ValuesUpTo
<1>11. ASSUME NEW n \in same, n # SequenceSize PROVE n + 1 \in same
  <2>1. n + 1 \in 1 .. SequenceSize /\ n + 1 - 1 = n BY <1>1, <1>11
  <2>2. value[n + 1] = value[n] * Base + s[SequenceSize - (n + 1)]
    BY <1>8, <2>1 DEF Base
  <2>3. v[n + 1] = v[n] * Base + s[SequenceSize - (n + 1)]
    BY <1>6, <2>1 DEF Values, ValuesUpTo
  <2> QED BY <2>1, <2>2, <2>3
<1> HIDE DEF same
<1>12. same \subseteq 0 .. SequenceSize BY DEF same
<1>13. SequenceSize \in same BY <1>1, <1>10, <1>11, <1>12, UpToSize
<1>14. value[SequenceSize] = v[SequenceSize] BY <1>13 DEF same
<1> QED BY <1>6, <1>9, <1>14

\* A digit more is worth a Base more.
LEMMA DigitsCarry ==
  ASSUME NEW x \in Nat, NEW y \in Nat, NEW b \in Nat, x > y
  PROVE  x * b >= y * b + b /\ (x = y + 1 => x * b = y * b + b)
<1> DEFINE d == x - (y + 1)
<1>1. d \in Nat /\ x = y + 1 + d OBVIOUS
<1> HIDE DEF d
<1>2. x * b = y * b + b + d * b BY <1>1
<1>3. d * b \in Nat BY <1>1
<1>4. y * b \in Nat /\ (d = 0 => d * b = 0) OBVIOUS
<1>5. x = y + 1 => d = 0 BY <1>1
<1> QED BY <1>2, <1>3, <1>4, <1>5

\* Two sequences have the same values above the highest byte in which they differ.
LEMMA ValuesAgree ==
  ASSUME NEW s \in Sequence, NEW t \in Sequence, NEW a, NEW b, Values(s, a), Values(t, b),
         NEW i \in 0 .. SequenceSize - 1,
         \A j \in 0 .. SequenceSize - 1 : j > i => s[j] = t[j]
  PROVE  a[SequenceSize - (i + 1)] = b[SequenceSize - (i + 1)]
<1>1. SequenceSize \in Nat /\ i \in Nat BY KeysAssumption
<1> DEFINE same == {n \in 0 .. SequenceSize : n <= SequenceSize - (i + 1) => a[n] = b[n]}
<1>2. 0 \in same BY <1>1 DEF Values, ValuesUpTo
<1>3. ASSUME NEW n \in same, n # SequenceSize PROVE n + 1 \in same
  <2>1. n + 1 \in 1 .. SequenceSize /\ n + 1 - 1 = n BY <1>1, <1>3
  <2> SUFFICES ASSUME n + 1 <= SequenceSize - (i + 1) PROVE a[n + 1] = b[n + 1] BY <2>1
  <2>2. a[n] = b[n] BY <1>1, <1>3
  <2>3. s[SequenceSize - (n + 1)] = t[SequenceSize - (n + 1)]
    <3>1. SequenceSize - (n + 1) \in 0 .. SequenceSize - 1 /\ SequenceSize - (n + 1) > i
      BY <1>1, <1>3
    <3> QED BY <3>1
  <2>4. /\ a[n + 1] = a[n] * Base + s[SequenceSize - (n + 1)]
        /\ b[n + 1] = b[n] * Base + t[SequenceSize - (n + 1)]
    BY <2>1 DEF Values, ValuesUpTo
  <2> QED BY <2>2, <2>3, <2>4
<1> HIDE DEF same
<1>4. same \subseteq 0 .. SequenceSize BY DEF same
<1>5. SequenceSize - (i + 1) \in 0 .. SequenceSize BY <1>1
<1>6. SequenceSize - (i + 1) \in same BY <1>2, <1>3, <1>4, <1>5, UpToSize
<1> QED BY <1>1, <1>6 DEF same

\* What byte i adds.
LEMMA ValueAt ==
  ASSUME NEW s \in Sequence, NEW a, Values(s, a), NEW i \in 0 .. SequenceSize - 1
  PROVE  /\ a[SequenceSize - i] = a[SequenceSize - (i + 1)] * Base + s[i]
         /\ a[SequenceSize - (i + 1)] \in Nat /\ s[i] \in 0 .. ByteMax
<1>1. SequenceSize \in Nat /\ i \in Nat /\ ByteMax \in Nat BY KeysAssumption
<1> DEFINE n == SequenceSize - i
<1>2. /\ n \in 1 .. SequenceSize /\ n - 1 = SequenceSize - (i + 1) /\ SequenceSize - n = i
      /\ n - 1 \in 0 .. SequenceSize
  BY <1>1
<1> HIDE DEF n
<1>3. a[n] = a[n - 1] * Base + s[SequenceSize - n] /\ a[n - 1] \in Nat
  BY <1>2 DEF Values, ValuesUpTo
<1>4. s[i] \in 0 .. ByteMax BY <1>1 DEF Sequence
<1> QED BY <1>2, <1>3, <1>4 DEF n

\* A newer sequence has a higher number: the comparison byte by byte is that of numbers.
LEMMA NewerIsHigher ==
  ASSUME NEW s \in Sequence, NEW t \in Sequence, sequence_is_newer(s, t)
  PROVE  Number(s) > Number(t)
<1>1. SequenceSize \in Nat /\ ByteMax \in Nat /\ Base \in Nat /\ Base = ByteMax + 1
  BY KeysAssumption DEF Base
<1>2. PICK i \in 0 .. SequenceSize - 1 :
        s[i] > t[i] /\ \A j \in 0 .. SequenceSize - 1 : j > i => s[j] = t[j]
  BY DEF sequence_is_newer, Sequence
<1>3. PICK a : Values(s, a) /\ Number(s) = a[SequenceSize] BY NumberIsValue
<1>4. PICK b : Values(t, b) /\ Number(t) = b[SequenceSize] BY NumberIsValue
<1> DEFINE first == SequenceSize - i
           above == {n \in 0 .. SequenceSize : n >= first => a[n] > b[n]}
<1>5. first \in 1 .. SequenceSize BY <1>1
<1>6. first \in above
  <2>1. a[SequenceSize - (i + 1)] = b[SequenceSize - (i + 1)]
    BY <1>2, <1>3, <1>4, ValuesAgree
  <2>2. /\ a[first] = a[SequenceSize - (i + 1)] * Base + s[i]
        /\ b[first] = b[SequenceSize - (i + 1)] * Base + t[i]
        /\ a[SequenceSize - (i + 1)] \in Nat /\ s[i] \in 0 .. ByteMax /\ t[i] \in 0 .. ByteMax
    BY <1>3, <1>4, ValueAt
  <2>3. a[SequenceSize - (i + 1)] * Base \in Nat BY <1>1, <2>2
  <2>4. a[first] > b[first] BY <1>1, <1>2, <2>1, <2>2, <2>3
  <2> QED BY <1>5, <2>4
<1>7. ASSUME NEW n \in above, n # SequenceSize PROVE n + 1 \in above
  <2>1. n + 1 \in 1 .. SequenceSize BY <1>1, <1>7
  <2>2. CASE n + 1 < first BY <1>1, <1>5, <2>1, <2>2
  <2>3. CASE n + 1 = first BY <1>6, <2>1, <2>3
  <2>4. CASE n >= first
    <3> DEFINE k == SequenceSize - (n + 1)
    <3>1. k \in 0 .. SequenceSize - 1 /\ SequenceSize - k = n + 1 /\ SequenceSize - (k + 1) = n
      BY <1>1, <2>1
    <3> HIDE DEF k
    <3>2. /\ a[n + 1] = a[n] * Base + s[k] /\ a[n] \in Nat /\ s[k] \in 0 .. ByteMax
          /\ b[n + 1] = b[n] * Base + t[k] /\ b[n] \in Nat /\ t[k] \in 0 .. ByteMax
      BY <1>3, <1>4, <3>1, ValueAt
    <3>3. a[n] > b[n] BY <2>4
    <3>4. a[n] * Base >= b[n] * Base + Base BY <1>1, <3>2, <3>3, DigitsCarry
    <3>5. a[n] * Base \in Nat /\ b[n] * Base \in Nat BY <1>1, <3>2
    <3>6. a[n + 1] > b[n + 1] BY <1>1, <3>2, <3>4, <3>5
    <3> QED BY <2>1, <3>6
  <2> QED BY <1>1, <1>5, <2>1, <2>2, <2>3, <2>4
<1>8. first \in 0 .. SequenceSize /\ SequenceSize >= first BY <1>1, <1>5
<1> HIDE DEF first
<1>9. above \subseteq 0 .. SequenceSize OBVIOUS
<1>10. (SequenceSize \in above) => a[SequenceSize] > b[SequenceSize] BY <1>8
<1> HIDE DEF above
<1>11. SequenceSize \in first .. SequenceSize BY <1>1, <1>8
<1>12. SequenceSize \in above BY <1>6, <1>7, <1>9, <1>11, UpToSize
<1> QED BY <1>3, <1>4, <1>10, <1>12

\* Incrementing adds one: the carry goes through the bytes that are at their end.
LEMMA IncrementAddsOne ==
  ASSUME NEW t \in Sequence, CanIncrement(t)
  PROVE  Number(increment_sequence(t)) = Number(t) + 1
<1> DEFINE s == increment_sequence(t)
           i == CarryEnd(t)
<1>1. SequenceSize \in Nat /\ ByteMax \in Nat /\ Base \in Nat /\ Base = ByteMax + 1
  BY KeysAssumption DEF Base
<1>2. /\ i \in 0 .. SequenceSize - 1
      /\ \A j \in 0 .. i - 1 : t[j] = ByteMax
  BY <1>1, CarryEndProperties DEF CanIncrement
<1>3. s \in Sequence BY Increments
<1>4. /\ s[i] = t[i] + 1
      /\ \A j \in 0 .. SequenceSize - 1 : j > i => s[j] = t[j]
      /\ \A j \in 0 .. i - 1 : s[j] = 0
  BY <1>1, <1>2 DEF increment_sequence, Below
<1> HIDE DEF s, i
<1>5. PICK a : Values(s, a) /\ Number(s) = a[SequenceSize] BY <1>3, NumberIsValue
<1>6. PICK b : Values(t, b) /\ Number(t) = b[SequenceSize] BY NumberIsValue
<1> DEFINE first == SequenceSize - i
           next == {n \in 0 .. SequenceSize : n >= first => a[n] = b[n] + 1}
<1>7. first \in 1 .. SequenceSize BY <1>1, <1>2
<1>8. first \in next
  <2>1. a[SequenceSize - (i + 1)] = b[SequenceSize - (i + 1)]
    BY <1>2, <1>3, <1>4, <1>5, <1>6, ValuesAgree
  <2>2. /\ a[first] = a[SequenceSize - (i + 1)] * Base + s[i]
        /\ b[first] = b[SequenceSize - (i + 1)] * Base + t[i]
        /\ a[SequenceSize - (i + 1)] \in Nat /\ s[i] \in 0 .. ByteMax /\ t[i] \in 0 .. ByteMax
    BY <1>2, <1>3, <1>5, <1>6, ValueAt
  <2>3. a[SequenceSize - (i + 1)] * Base \in Nat BY <1>1, <2>2
  <2>4. a[first] = b[first] + 1 BY <1>1, <1>4, <2>1, <2>2, <2>3
  <2> QED BY <1>7, <2>4
<1>9. ASSUME NEW n \in next, n # SequenceSize PROVE n + 1 \in next
  <2>1. n + 1 \in 1 .. SequenceSize BY <1>1, <1>9
  <2>2. CASE n + 1 < first BY <1>1, <1>7, <2>1, <2>2
  <2>3. CASE n + 1 = first BY <1>8, <2>1, <2>3
  <2>4. CASE n >= first
    <3> DEFINE k == SequenceSize - (n + 1)
    <3>1. /\ k \in 0 .. SequenceSize - 1 /\ SequenceSize - k = n + 1 /\ SequenceSize - (k + 1) = n
          /\ k \in 0 .. i - 1
      BY <1>1, <1>2, <2>1, <2>4
    <3> HIDE DEF k
    <3>2. /\ a[n + 1] = a[n] * Base + s[k] /\ a[n] \in Nat
          /\ b[n + 1] = b[n] * Base + t[k] /\ b[n] \in Nat
      BY <1>3, <1>5, <1>6, <3>1, ValueAt
    <3>3. s[k] = 0 /\ t[k] = ByteMax BY <1>2, <1>4, <3>1
    <3>4. a[n] = b[n] + 1 BY <2>4
    <3>5. a[n] * Base = b[n] * Base + Base
      BY <1>1, <3>2, <3>4, DigitsCarry
    <3>6. b[n] * Base \in Nat BY <1>1, <3>2
    <3>7. a[n + 1] = b[n + 1] + 1 BY <1>1, <3>2, <3>3, <3>5, <3>6
    <3> QED BY <2>1, <3>7
  <2> QED BY <1>1, <1>7, <2>1, <2>2, <2>3, <2>4
<1>10. first \in 0 .. SequenceSize /\ SequenceSize >= first BY <1>1, <1>7
<1> HIDE DEF first
<1>11. next \subseteq 0 .. SequenceSize OBVIOUS
<1>12. (SequenceSize \in next) => a[SequenceSize] = b[SequenceSize] + 1 BY <1>10
<1> HIDE DEF next
<1>13. SequenceSize \in first .. SequenceSize BY <1>1, <1>10
<1>14. SequenceSize \in next BY <1>8, <1>9, <1>11, <1>13, UpToSize
<1> QED BY <1>5, <1>6, <1>12, <1>14 DEF s

-----------------------------------------------------------------------------
(***************************************************************************)
(* What the numbers say of frames.                                         *)
(***************************************************************************)

\* The steps that SequencesCount and NothingReplayed speak of.
CountsByOne ==
  \A i \in 1 .. Len(keys), j \in 1 .. Len(keys') :
    /\ Listed(i, keys'[j].installation)
    /\ keys[i].tx_sequence # keys'[j].tx_sequence
    => Number(keys'[j].tx_sequence) = Number(keys[i].tx_sequence) + 1

AcceptsHigher ==
  \A r \in Receivers :
    receiver[r].at = "validate" /\ receiver'[r].at = "deliver" =>
      \A a \in accepted : a[1] = receiver'[r].installation =>
        Number(receiver'[r].sequence) > Number(a[2])

\* Only a frame that is given a sequence moves a counter, and by one.
LEMMA CountsByOneStep == KeysInvariant /\ [Next]_vars => CountsByOne
<1> SUFFICES ASSUME Types, InstalledOnce, [Next]_vars,
                    NEW i \in 1 .. Len(keys), NEW j \in 1 .. Len(keys'),
                    keys[i].installation = keys'[j].installation,
                    keys[i].tx_sequence # keys'[j].tx_sequence
             PROVE  Number(keys'[j].tx_sequence) = Number(keys[i].tx_sequence) + 1
  BY DEF KeysInvariant, CountsByOne, Listed
<1>1. keys \in Seq(Metadata) BY TypesByVariable DEF Types
<1>2. CASE ListKept BY <1>2, OldOnes DEF ListKept
<1>3. ASSUME NEW c \in Configurators, NEW f, ListGains(c, f) \/ ListLoses(c, f) PROVE FALSE
  <2>1. CASE f[j] = 0
    <3>1. Sets(c) /\ keys'[j].installation = Brings(c)
      BY <1>3, <2>1 DEF ListGains, ListLoses, SetList, Sets, Brings
    <3> QED BY <3>1, OldOnes
  <2>2. CASE f[j] # 0
    <3>1. f[j] \in 1 .. Len(keys) /\ keys'[j] = keys[f[j]]
      BY <1>3, <2>2, SMTT(30) DEF ListGains, ListLoses, Origins
    <3> QED BY <3>1, OldOnes
  <2> QED BY <2>1, <2>2
<1>4. ASSUME NEW t \in Transmitters, NEW p \in 1 .. Len(keys), Counts(t, p)
      PROVE  Number(keys'[j].tx_sequence) = Number(keys[i].tx_sequence) + 1
  <2>1. j \in 1 .. Len(keys) /\ keys'[j].installation = keys[j].installation
    BY <1>4 DEF Counts, SameKey
  <2>2. i = j BY <2>1, OldOnes
  <2>3. i = p BY <1>4, <2>1, <2>2 DEF Counts
  <2>4. /\ keys'[p].tx_sequence = increment_sequence(keys[p].tx_sequence)
        /\ CanIncrement(keys[p].tx_sequence)
    BY <1>4 DEF Counts
  <2>5. keys[p].tx_sequence \in Sequence BY <1>1, KeyTypes
  <2> QED BY <2>2, <2>3, <2>4, <2>5, IncrementAddsOne
<1>5. ASSUME NEW r \in Receivers, NEW p \in 1 .. Len(keys), Accepts(r, p) PROVE FALSE
  <2>1. /\ j \in 1 .. Len(keys) /\ keys'[j].installation = keys[j].installation
        /\ keys'[j].tx_sequence = keys[j].tx_sequence
    BY <1>5 DEF Accepts, SameKey
  <2> QED BY <2>1, OldOnes
<1> QED BY <1>2, <1>3, <1>4, <1>5, ListMoves DEF ListMove

\* The counter of a key goes up by one with each frame, and changes in no other way: no
\* number is left out, and the carry goes where it should at every length of a sequence.
THEOREM SequencesCountByOne == Spec => SequencesCount
<1>1. KeysInvariant /\ [Next]_vars => CountsByOne BY CountsByOneStep
<1>2. Spec => [][CountsByOne]_vars BY <1>1, CountersFollowUse, PTL DEF Spec
<1> QED BY <1>2, PTL DEF SequencesCount, CountsByOne

\* What a receiver that let a frame in keeps of it.
LEMMA AcceptedAs ==
  ASSUME Types, NEW r \in Receivers, NEW p \in 1 .. Len(keys), Accepts(r, p)
  PROVE  /\ receiver'[r].installation = keys[p].installation
         /\ receiver'[r].sequence = keys'[p].rx_sequence
         /\ \A q \in Receivers \ {r} : receiver'[q] = receiver[q]
<1>1. receiver \in [Receivers -> ReceiverRecords] BY TypesByVariable DEF Types
<1>2. receiver[r] \in ReceiverRecords BY <1>1
<1> DEFINE n == keys[p].installation
           next == [receiver[r] EXCEPT !.at = "deliver", !.installation = n]
<1>3. receiver' = [receiver EXCEPT ![r] = next] /\ keys'[p].rx_sequence = receiver[r].sequence
  BY DEF Accepts
<1> HIDE DEF n
<1>4. next.installation = n /\ next.sequence = receiver[r].sequence
  BY <1>2 DEF ReceiverRecords
<1> HIDE DEF next
<1>5. receiver'[r] = next /\ \A q \in Receivers \ {r} : receiver'[q] = receiver[q]
  BY <1>1, <1>3
<1> QED BY <1>3, <1>4, <1>5 DEF n

\* A receiver comes to deliver a frame only by letting it in.
LEMMA DeliversAccepted ==
  ASSUME Types, [Next]_vars, NEW r \in Receivers,
         receiver[r].at = "validate", receiver'[r].at = "deliver"
  PROVE  \E p \in 1 .. Len(keys) : Accepts(r, p)
<1>1. receiver \in [Receivers -> ReceiverRecords] BY TypesByVariable DEF Types
<1>2. ASSUME UNCHANGED receiver PROVE FALSE BY <1>2
<1>3. ASSUME NEW c \in Configurators, ConfiguratorStep(c) PROVE UNCHANGED receiver
  BY <1>3 DEF ConfiguratorStep, SetDriver, SetList, DelDriver, DelList
<1>4. ASSUME NEW t \in Transmitters, TransmitterStep(t) PROVE UNCHANGED receiver
  BY <1>4
  DEF TransmitterStep, TxSelect, TxCipher, TxUnsupported, TxSequence, TxNotPermitted,
      TxTransmit, TransmitOnly
<1>5. ASSUME NEW q \in Receivers, ReceiverStep(q), ~RxAccept(r) PROVE FALSE
  <2>1. ASSUME NEW next, next.at # "deliver", receiver' = [receiver EXCEPT ![q] = next]
        PROVE  FALSE
    BY <1>1, <2>1
  <2>2. CASE RxDrop(q) \/ RxDeliver(q) BY <2>1, <2>2 DEF RxDrop, RxDeliver, IdleReceiver
  <2>3. CASE RxAccept(q)
    <3>1. PICK p \in 1 .. Len(keys) : Accepts(q, p) BY <2>3, Accepting
    <3>2. q # r BY <1>5, <2>3
    <3>3. receiver'[r] = receiver[r] BY <3>1, <3>2, AcceptedAs
    <3> QED BY <3>3
  <2>4. ASSUME NEW header, NEW index, NEW sequence, RxSelect(q, header, index, sequence)
        PROVE  FALSE
    <3>1. PICK i \in 1 .. Len(keys) :
            receiver' = [receiver EXCEPT ![q] =
              [at |-> "validate", header |-> header, key |-> index, cipher |-> keys[i].cipher,
               installation |-> None, sequence |-> sequence]]
      BY <2>4 DEF RxSelect
    <3> DEFINE next == [at |-> "validate", header |-> header, key |-> index,
                        cipher |-> keys[i].cipher, installation |-> None, sequence |-> sequence]
    <3>2. next.at = "validate" OBVIOUS
    <3>3. receiver' = [receiver EXCEPT ![q] = next] BY <3>1
    <3> HIDE DEF next
    <3> QED BY <2>1, <3>2, <3>3
  <2> QED BY <1>5, <2>2, <2>3, <2>4 DEF ReceiverStep
<1>6. RxAccept(r) BY <1>2, <1>3, <1>4, <1>5 DEF Next, vars
<1> QED BY <1>6, Accepting

\* What a receiver lets in is above all that was let in under the key.
LEMMA AcceptsHigherStep == KeysInvariant /\ [Next]_vars => AcceptsHigher
<1> SUFFICES ASSUME Types, RxLast, [Next]_vars, NEW r \in Receivers,
                    receiver[r].at = "validate", receiver'[r].at = "deliver",
                    NEW a \in accepted, a[1] = receiver'[r].installation
             PROVE  Number(receiver'[r].sequence) > Number(a[2])
  BY CountersByPart DEF KeysInvariant, AcceptsHigher
<1>1. PICK p \in 1 .. Len(keys) : Accepts(r, p) BY DeliversAccepted
<1>2. /\ receiver'[r].installation = keys[p].installation
      /\ receiver'[r].sequence = keys'[p].rx_sequence
  BY <1>1, AcceptedAs
<1>3. sequence_is_newer(keys'[p].rx_sequence, a[2]) BY <1>1, <1>2, AcceptedIsNewer
<1>4. keys'[p].rx_sequence \in Sequence BY <1>1 DEF Accepts
<1>5. a[2] \in Sequence BY TypesByVariable DEF Types
<1> QED BY <1>2, <1>3, <1>4, <1>5, NewerIsHigher

\* Whatever receivers, installations and removals come between: each frame that a receiver
\* lets in has a number above all that were let in under the installation before, and so
\* none is let in twice.
THEOREM NothingIsReplayed == Spec => NothingReplayed
<1>1. KeysInvariant /\ [Next]_vars => AcceptsHigher BY AcceptsHigherStep
<1>2. Spec => [][AcceptsHigher]_vars BY <1>1, CountersFollowUse, PTL DEF Spec
<1> QED BY <1>2, PTL DEF NothingReplayed, AcceptsHigher

=============================================================================
