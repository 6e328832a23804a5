SPECIFICATION Spec
CONSTANTS
  AccessPoints = {a1}
  Contexts = {c1, c2}
  Callers = {t1, t2}
  Frames <- MCFrames
  Answering = {a1}
  Receivers = {r1}
  SequenceControls = {1}
  GenerationSize = 2
  None = None
SYMMETRY MCSymmetry
CONSTRAINT MCBound
INVARIANTS TypeOK CleanupNotLost WaitersServed WorksOwned ReferencesExact
PROPERTIES HandOver AttemptInProgressIsSafe
