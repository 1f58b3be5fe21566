SPECIFICATION HSpec
CONSTANTS
  Clients = {c1, c2}
  HostSerializes = TRUE
  Capacity = 4
  MinTarget = 1
  MaxTarget = 2
  DefaultTarget = 1
  MaxCapture = 1
  MaxChunk = 1
  CaptureSizes <- MCOneFrame
  IOSizes <- MCSizes
  Requests <- MCRequests
  MaxLag = 1
  MaxFrames = 6
INVARIANTS KeepsItsFrames
