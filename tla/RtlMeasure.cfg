SPECIFICATION FairSpec
CONSTANTS
  PulseFrames = 4
  HalfPeriod = 1
  Threshold = 25
  WarmupFrames = 2
  MaxFrames = 5
  OutputSizes <- MCOutputSizes
  InputSizes <- MCInputSizes
  Delays <- MCDelays
  Leads <- MCLeads
  Timeout = 2
  MaxTime = 13
INVARIANTS ReportNearsTheDelay InputHasItsBuffer
PROPERTIES DetectionIsFinal MeasureEnds
CHECK_DEADLOCK FALSE
