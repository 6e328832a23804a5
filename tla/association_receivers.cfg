SPECIFICATION Spec
CONSTANTS
  AccessPoints = {a1, a2}
  Contexts = {c1}
  Callers = {t1}
  Frames <- MCFrames
  Answering = {a1}
  Receivers = {r1, r2}
  SequenceControls = {1}
  GenerationSize = 1
  None = None
SYMMETRY MCSymmetry
CONSTRAINT MCBound
INVARIANTS AttemptOwnership VerdictSound
