SPECIFICATION HSpec
CONSTANTS
  Clients = {c1}
  HostSerializes = TRUE
  Capacity = 7
  MinTarget = 1
  MaxTarget = 2
  DefaultTarget = 2
  MaxCapture = 2
  MaxChunk = 2
  CaptureSizes <- MCSizes
  IOSizes <- MCSizes
  Requests <- MCRequests
  MaxLag = 3
  MaxFrames = 14
INVARIANTS CompleteWindow
