CONSTANTS
  Files = 1
  Tracks = {"video", "audio"}
  Sessions <- Watchers
  Faults = FALSE
SPECIFICATION Spec
PROPERTY FinishedCalled
\* Everything stops when the files have been played.
CHECK_DEADLOCK FALSE
