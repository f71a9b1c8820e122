CONSTANTS
  Files = 2
  Tracks = {"video", "audio"}
  Sessions <- Viewers
  Faults = TRUE
SPECIFICATION TaskSpec
INVARIANTS TypeOK PlayingIsCurrent PreparedFindsPlayer HeldWhileActive
PROPERTY TasksEnd
\* Everything stops when the files have been played.
CHECK_DEADLOCK FALSE
