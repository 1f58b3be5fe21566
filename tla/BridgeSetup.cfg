SPECIFICATION FairSpec
CONSTANTS
  MaxInputs = 2
  MaxCommands = 2
  MaxFaults = 1
  MaxChanges = 3
INVARIANTS ExitTellsAggregates ReadyIsHealthy
PROPERTIES SetupGetsReady
CHECK_DEADLOCK FALSE
