CONSTANTS
  MAX_CONN = 2
  BUF_SIZE = 2
  SNIFF_LIMIT = 2
  SNIFF_TIMEOUT = 1
  IDLE_TIMEOUT = 2
  Pcbs = {p1, p2}
  NoPcb = NoPcb
  DnsTable = 1
  Hosts = {good, nintendo}
  Denied = {nintendo}
  NoHost = NoHost
  RxMax = 1
  ClockWrap = 3
  MaxAccepted = 2
SPECIFICATION Spec
SYMMETRY PcbSymmetry
INVARIANTS
  SlotsConsistent
  DeniedNeverLeaves
  NoEndUncounted
