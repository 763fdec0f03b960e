SPECIFICATION PartsFairSpec
CONSTANTS
  DNS_TABLE_SIZE = 2
  DNS_MAX_RETRIES = 2
  Names = {"a", "b", "c"}
  Txids = {1, 2}
  ServerTables <- MCServerTables
  NoServer = "any"
  MEMP_NUM_UDP_PCB = 1
  DnsSeqMod = 256
  Ttls = {0, 2}
  MaxQuestions = 3
  ClockMod = 32
  lwip_cyclic_timers <- MCTimers
  Interval <- MCInterval
  MEMP_NUM_SYS_TIMEOUT = 3
  MaxPause = 5
  MaxLag = 1
  Size <- MCSize
  MEMP_NUM_REASSDATA = 2
  IP_REASS_MAX_PBUFS = 4
  IP_REASS_MAXAGE = 2
  MEM_SIZE_ALIGNED = 120
  SIZEOF_STRUCT_MEM = 8
  MIN_SIZE_ALIGNED = 12
  Requests = {1, 14, 26, 40, 110}
CHECK_DEADLOCK FALSE
INVARIANTS
  DnsConsistent RightAddress
  TimersConsistent
  ReassConsistent
  HeapWellFormed RefusesOnlyWhenFull
PROPERTIES
  EveryQuestionAnswered
  TimersOnTime
  KeptUntilDue
