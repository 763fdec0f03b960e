CONSTANTS
  TCP_MSS = 2
  TCP_WND = 3
  TCP_SND_BUF = 3
  TCP_SND_QUEUELEN = 2
  TCP_MAXRTX = 2
  TCP_SYNMAXRTX = 1
  CwndStart = 2
  TCPWND_MAX = 8
  DupMax = 4
  SeqMod = 32
  Iss = 31
  PeerIss = 30
  Loads <- MCLoads
SPECIFICATION TcpFairSpec
CHECK_DEADLOCK FALSE
INVARIANTS
  PcbConsistent
  StreamsInOrder
  NeverStuck
  ToldOnce
PROPERTIES
  EdgeNeverRetreats
  NothingHangs
