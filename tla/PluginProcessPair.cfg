SPECIFICATION ProcessSpec
CONSTANTS
  c1 = c1
  c2 = c2
  Request = {c1, c2}
CHECK_DEADLOCK FALSE
INVARIANTS
  ChildReaped
PROPERTIES
  AttemptsEnd
  ServersEndWithConnection
