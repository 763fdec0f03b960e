SPECIFICATION PartsFairSpec
CONSTANTS
  EVENT_BATCH = 2
  LogSize = 3
  Pasts <- MCPasts
  MaxEntries = 7
  MaxFetches = 3
  AWG_MAX_I = 2
  AWG_MAX_DNS = 2
  Chains = {1, 2, 3}
  MaxLines = 5
  AccMod = 4194304
  Keys <- MCKeys
  Renderings <- MCRenderings
  Addresses <- MCAddresses
  HOST_CAP = 6
  MAX_NAME = 4
  g_deny_suffix <- MCDeny
  Hellos <- MCHellos
  Hosts <- MCHosts
  Indices = {0, 1}
  InitKeys = {"i1", "i2", "i3"}
  AnswerKeys = {"r1", "r2"}
  MaxSpoils = 2
  NoiseLens = {0, 1, 33}
  S4 = 12
  PayloadCap = 32
  PBUF_POOL_SIZE = 3
  PBUF_POOL_BUFSIZE = 2
  HeapPbufs = 2
  Arriving <- MCArriving
  Written <- MCWritten
  Headers <- MCHeaders
CHECK_DEADLOCK FALSE
INVARIANTS
  EachReportedOnce
  ProbeConsistent
  OnlyRepeatsLeak
  ConversionsAgree
  EndsAgree
  BuffersConsistent
PROPERTIES
  KeepsPackets
  PartsGetOn
