CONSTANTS
  Configurators = {c1}
  Transmitters = {}
  Receivers = {r1, r2}
  Peers = {p1}
  Own = Own
  Group = Group
  Identities <- MCIdentities
  Ciphers = {"CCMP", "TKIP"}
  Installations = {i1, i2}
  RxStarts <- MCRxStarts
  SequenceSize = 2
  ByteMax = 1
  None = None
SPECIFICATION Spec
SYMMETRY MCSymmetry
PROPERTIES NothingReplayed
