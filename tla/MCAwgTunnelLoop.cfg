CONSTANTS
  REPLAY_WINDOW = 1
  Cfg <- MCCfg
  Indices = {0}
  AWG_PREV_KEEP = 1
  ClockWrap = 100
  MaxTime = 4
  MaxInitiations = 20
  MaxSeals = 20
  MaxCounter = 0
  Blocks = {}
  REBUILD_SPACING = 2
  UNREACHABLE_LIMIT = 1
  POWER_EVERY = 1
  MaxOutput = 1
  MaxFaults = 2
SPECIFICATION TunnelSpec
INVARIANTS
  NeverStranded
  StaleOnlyUntilRebuilt
  NoSessionSurvivesSleep
PROPERTIES
  RebuildsSpaced
  Patience
  SessionSpec
