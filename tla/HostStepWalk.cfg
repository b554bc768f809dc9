\* Two deploys one after the other; every failure.
SPECIFICATION Spec
CONSTANTS
  Host = Host
  Guest = Guest
  None = None
  file = file
  mount = mount
  kernel = kernel
  builder = builder
  driver = driver
  module = module
  Act <- MCAct
  System <- MCSystem
  Served <- MCServed
  Reboots <- MCReboots
  Plan <- MCPlan
  Inner <- MCInner
  MaxWalks = 2
  Polls = 2
  Faults = {"run", "capture", "step", "plugin", "stuck"}
CHECK_DEADLOCK FALSE
INVARIANTS
  NothingRunsIntoReboot
  HostKept
  ReverseComplete
PROPERTIES
  PollingEnds
