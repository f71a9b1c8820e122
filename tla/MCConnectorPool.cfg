CONSTANTS
  Channels = {c1, c2}
  Links = 2
  Sessions <- PoolSessions
SPECIFICATION Spec
CONSTRAINT BeforeRace
INVARIANTS TypeOK UseCountsHolders HolderHasLink CachedIsThisLink 
 
