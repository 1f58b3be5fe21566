SPECIFICATION Spec
CONSTANTS
  Clients = {c1, c2}
  TicksPerFrame = 2
  Period = 2
  Wrap = 64
  HostSerializes = TRUE
  MaxTime = 10
  MaxStarts = 2
SYMMETRY MCSymmetry
INVARIANTS RunningCountExact StampsAreCurrent OneTimelinePerSeed
PROPERTIES StampsNeverGoBack ImplementsTimeline
CHECK_DEADLOCK FALSE
