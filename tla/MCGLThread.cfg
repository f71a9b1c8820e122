CONSTANTS
  Sizes = {1}
  Modes = {"WHEN_DIRTY"}
  Preserve = FALSE
  Faults = TRUE
  MaxEvents = 1
  MaxDetach = 1
SPECIFICATION Spec
INVARIANTS TypeOK FlagsTrue NotUsedWhenGone FrameIsCurrent PausedReleases
PROPERTIES UICallsReturn SurfaceTried LoanSpec
