SPECIFICATION Spec
CONSTANTS
  b0 = b0
  r0 = r0
  x = x
  y = y
  None = None
  BURST_LEN = 4
  Pwait = 40
  tRP = 1
  tRC = 3
  tMRD = 2
  tRCD = 1
  tCAS = 2
  REFRESH_PERIOD = 26
  PAGE = 8
  dRP = 1
  dRC = 3
  dRCD = 1
  dDPL = 2
  Banks <- MCBanks
  Rows <- MCRows
  UCols <- MCUCols
  Half <- MCHalf
  Lines <- MCLines
INVARIANTS NoBusContention DeviceRulesKept OneRefreshPerPeriod
PROPERTIES ActsAsBlockMemory EveryRequestTaken
