SPECIFICATION FairSpec
CONSTANTS
  Inodes = {i1, i2}
  Clients = {c1}
  Ctls = {}
  MaxMaps = 1
  HostSerializes = TRUE
  None = None
PROPERTIES RefreshSettles RingComesUp
