SPECIFICATION HFairSpec
CONSTANTS
  Clients = {c1}
  Listener = c1
  HostSerializes = TRUE
  Capacity = 7
  MinTarget = 1
  MaxTarget = 2
  DefaultTarget = 2
  MaxCapture = 2
  MaxChunk = 2
  CaptureSizes <- MCSizes
  IOSizes <- MCIOSizes
  Requests <- MCRequests
  MaxLag = 3
  MaxFrames = 14
INVARIANTS NoTornRead NoSlotRace BoundedStaleness CursorBehindHead
INVARIANTS NeverReplays
PROPERTIES CallsAreWaitFree ReadReturns ImplementsChannel
