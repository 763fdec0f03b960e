CONSTANTS
  REPLAY_WINDOW = 3
  Cfg <- MCCfg
  Indices = {0, 1}
  AWG_PREV_KEEP = 1
  ClockWrap = 2
  MaxTime = 3
  MaxInitiations = 3
  MaxSeals = 2
  MaxCounter = 4
  Blocks = {0}
SPECIFICATION LoadedSpec
INVARIANTS
  NonceFresh
  NoReplay
  NoFalseReplay
  KeepaliveNeverLate
PROPERTIES
  RetiredKeysDie
  ChannelSpec
