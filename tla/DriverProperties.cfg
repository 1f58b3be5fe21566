SPECIFICATION Spec
CONSTANTS
  Threads = {t1, t2}
  MinFrames = 1
  DefaultFrames = 1
  MaxFrames = 2
  ChunkFrames = 4
  Requests <- MCRequests
  Driven = {1}
  MaxReferences = 3
  MaxInstances = 1
SYMMETRY MCSymmetry
INVARIANTS OneFormatPerCall HostIsUpToDate KeptWhileHeld
INVARIANTS SizesAgree ObjectTreeAgrees
