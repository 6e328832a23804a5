SPECIFICATION FairSpec
CONSTANTS
  AccessPoints = {a1}
  Contexts = {c1}
  Callers = {t1}
  Receivers = {r1}
  Frames <- MCFrames
  Answering = {a1}
  SequenceControls = {1}
  GenerationSize = 1
  None = None
CONSTRAINT MCNothingLost
PROPERTIES AttemptEnds WaitReturns DisconnectedReleased
