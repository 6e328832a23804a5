CONSTANTS
  Configurators = {c1, c2}
  Transmitters = {t1, t2}
  Receivers = {}
  Peers = {p1}
  Own = Own
  Group = Group
  Identities <- MCTxIdentities
  Ciphers = {"CCMP", "TKIP", "WEP40"}
  Installations = {i1, i2}
  RxStarts <- MCZeroStart
  SequenceSize = 2
  ByteMax = 1
  None = None
SPECIFICATION Spec
SYMMETRY MCSymmetry
INVARIANTS TypeOK ListMatchesDriver TransmitsUnderDriverKey SequenceFitsCipher
PROPERTIES SequencesFresh SequencesCount
