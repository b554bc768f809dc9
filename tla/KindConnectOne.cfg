SPECIFICATION Spec
CONSTANTS
  proj = proj
  ns = ns
  other = other
  flat = flat
  imp = imp
  baked = baked
  core = core
  ghost = ghost
  Thread = {t1}
  None = None
  Silent = Silent
  MaxCalls = 2
  Root = proj
  Dir <- MCDir
  Word <- MCWord
  CompiledIn = {core}
  Baked = {baked}
  Bounds <- MCBounds
  Nodes <- MCNodes
  Declares <- MCDeclares
  Provides <- MCProvides
  Faults = {"connect", "load", "scan"}
CHECK_DEADLOCK FALSE
INVARIANTS
  NoSilentDrop
  SkipsHaveCause
  PassGuarded
PROPERTIES
  CauseKept
  CallsAnswered
