SPECIFICATION Spec
CHECK_DEADLOCK FALSE
CONSTANTS
  vm = vm
  pod = pod
  app = app
  tool = tool
  part = part
  desk = desk
  cluster = cluster
  chart = chart
  web = web
  home = home
  there = there
  Operator = here
  None = None
  Machine = {here, there}
  Dir = {d}
  Word <- TheWords
  Node <- TheNodes
  Parent <- TheParent
  Ancestors <- TheAncestors
  Target <- TheTarget
  Host <- Away
  Bearing = {vm, pod, home, tool, cluster}
  Transport <- TheTransport
  Lifecycle = {"vm", "pod"}
  Overlaid = {"pod"}
  Bracketed = {"pod"}
  Hooked = {"pod"}
INVARIANTS
  MembersJoinParent
  StaysWhereAdded
  EmitsOwnContext
  ClaimHeldForSession
