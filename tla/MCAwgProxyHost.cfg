CONSTANTS
  MAX_CONN = 2
  BUF_SIZE = 2
  SNIFF_LIMIT = 2
  SNIFF_TIMEOUT = 1
  IDLE_TIMEOUT = 2
  Pcbs = {p1}
  NoPcb = NoPcb
  DnsTable = 2
  Hosts = {good, other}
  Denied = {}
  NoHost = NoHost
  RxMax = 1
  ClockWrap = 3
  MaxAccepted = 2
SPECIFICATION Spec
INVARIANT RightHost
