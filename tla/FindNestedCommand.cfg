SPECIFICATION Spec
CONSTANTS
  here = here  proj = proj  other = other  sub = sub  None = None
  box = box  list = list  check = check  liveT = liveT  pipe = pipe  mcp = mcp  version = version
  boxlist = boxlist  toplist = toplist  chk = chk  toppipe = toppipe  boxpipe = boxpipe  mcpc = mcpc
  pk = pk  ak = ak  core = core  front = front  aux = aux  server = server  tool = tool
  Dir = {here, proj, other}
  Relative = {sub}
  Project = {proj, other}
  Token = {box, list, check, liveT, pipe, mcp, version}
  Identity = {boxlist, toplist, chk, toppipe, boxpipe, mcpc}
  Kind = {pk, ak}
  Plugin = {core, front, aux, server, tool}
  Compiled = {core}
  Overridden = {front, server}
  Interactive = {mcpc}
  Spine = {box}
  Below <- MCBelow
  Declares <- MCDeclares
  WordOf <- MCWordOf
  ParentOf <- MCParentOf
  Subs <- MCSubs
  CorePaths <- MCCorePaths
  Commands <- MCCommands
  Kinds <- MCKinds
  BakedBy <- MCBakedBy
  Welded <- MCWelded
  Invocations <- MCInvocations
INVARIANTS
  NestedReached
