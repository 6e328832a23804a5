SPECIFICATION Spec
CONSTANTS
  AccessPoints = {a1}
  Contexts = {c1}
  Callers = {t1}
  Receivers = {r1}
  Frames <- MCFrames
  Answering = {a1}
  SequenceControls = {1}
  GenerationSize = 2
  None = None
INVARIANT TimersUsedWhileAllocated
