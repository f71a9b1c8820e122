CONSTANTS
  BufSize = 24
  HdrSize = 4
  NSlots = 1
  Sizes = {4, 6}
  ReadSize = 8
  Gop = 3
  MaxWrites = 8
  MaxResets = 1
  MaxReads = 7
SPECIFICATION Spec
INVARIANT TypeOK
INVARIANT FramesIntact
INVARIANT ResyncFindsNewestKey
INVARIANT DeliveryAdvances
\* The reader waits for ever once the bounds are used up.
CHECK_DEADLOCK FALSE
