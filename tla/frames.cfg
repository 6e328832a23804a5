SPECIFICATION MCSpec
CONSTANTS
  Users = {u1, u2}
  Own = Own
  Peer = Peer
  AccessPoint = AccessPoint
  Group = Group
  Reserved = {13, 16}
  ETHERNET_MAX_FRAME_SIZE = 16
  Installed <- MCInstalled
  RateSets <- MCRateSets
  Ssids <- MCSsids
  Elements <- MCElements
  MaxFrames = 2
  MaxElements = 3
  Contents <- MCContents
  None = None
INVARIANTS TypeOK BuffersConsumed ReceivedAsSent ElementsAgree
CHECK_DEADLOCK FALSE
