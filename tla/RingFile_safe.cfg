SPECIFICATION Spec
CONSTANTS
  Inodes = {i1, i2}
  Clients = {c1, c2}
  Ctls = {k1}
  MaxMaps = 2
  HostSerializes = TRUE
  None = None
SYMMETRY MCSymmetry
INVARIANTS ValidIsInitialised MappingsFit NoUseAfterUnmap OneMapping
PROPERTIES RingStableInIO ImplementsSupply
