CONSTANTS
  Writers = {n1}
  Decoder = dec
  Task = task
  MaxResets = 0
SPECIFICATION Spec
INVARIANT HeldFrameStable
