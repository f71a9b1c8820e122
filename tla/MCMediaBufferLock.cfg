CONSTANTS
  Writers = {n1, n2}
  Decoder = dec
  Task = task
  MaxResets = 1
SPECIFICATION Spec
INVARIANT TypeOK
INVARIANT SleeperHasWaker
PROPERTY SleepersWake
\* A reset that races with another thread can put every thread to sleep.
CHECK_DEADLOCK FALSE
