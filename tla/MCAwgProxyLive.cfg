CONSTANTS
  MAX_CONN = 2
  BUF_SIZE = 1
  SNIFF_LIMIT = 1
  SNIFF_TIMEOUT = 1
  IDLE_TIMEOUT = 2
  Pcbs = {p1}
  NoPcb = NoPcb
  DnsTable = 1
  Hosts = {good}
  Denied = {}
  NoHost = NoHost
  RxMax = 1
  ClockWrap = 3
  MaxAccepted = 2
SPECIFICATION FairSpec
INVARIANT NoPcbLeftBehind
PROPERTIES
  SlotsComeBack
