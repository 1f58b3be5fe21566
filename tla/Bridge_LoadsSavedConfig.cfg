SPECIFICATION FairSpec
CONSTANTS
  Ctls = {k1}
  motu = motu
  mono = mono
  Devices <- MCDevices
  AutoDetected = motu
  Channels <- MCChannels
  Latencies <- MCLatencies
  DefaultLatency = 64
  EnvLatency = 64
  MaxCommands = 2
  MaxPlugs = 2
  MaxFaults = 1
  MaxAborts = 1
  None = None
  Torn = Torn
PROPERTIES LoadsSavedConfig
