CONSTANTS
  Callers = {t1, t2}
  Scans = {s1, s2}
  AccessPoints = {a1, a2}
  ValidAddresses = {a1}
  AllowedChannels <- MCAllowedChannels
  LastChannel = 3
  BufferSize = 3
  RecordSize <- MCRecordSize
  None = None
SPECIFICATION FairSpec
INVARIANTS TypeOK SingleDriver PointersLive WaitersServed RadioOnChannel EveryChannelScanned
PROPERTIES ReadBeforeLeaving ScanEnds ScanWaitReturns
