SPECIFICATION Spec
CONSTANTS
  Depth = 2
  None = None
  Window <- Windows
  Poll <- Periods
  Beat = 1
  Cap = 2
  MaxWork = 1
PROPERTIES
  KilledOnlyWhenIdle
  CallerOutlivesNested
  HungChainUnwinds
  NoCallOutlivesCaller
