SPECIFICATION Spec
CONSTANTS
  Thread = {t1, t2}
  MaxLoads = 4
  MaxCalls = 1
  pod = pod
  tunnel = tunnel
  kube = kube
  kubeBaked = kubeBaked
  vm = vm
  core = core
  spice = spice
  spiceBaked = spiceBaked
  deployPod = deployPod
  verbTunnel = verbTunnel
  verbKube = verbKube
  kindVm = kindVm
  verbSpice = verbSpice
  verbFile = verbFile
  None = None
  Compiled = Compiled
  Origin = {"pod", "tunnel"}
  Schema = {"pod", "tunnel"}
  Def = {"pod", "tunnel"}
  CompiledKey = {}
  Unregistrable = {}
  Unit <- DuoUnits
  Key <- DuoKeys
  Word <- DuoKeys
  WordOf <- OwnWord
  OriginOf <- DuoOrigin
  Served <- DuoServed
  Declared <- DuoServed
  Requires <- DuoRequires
  SchemaOf <- DuoSchema
  DefsOf <- DuoDefs
  InputKeys <- DuoInputs
  Spliceable <- DuoUnits
  Local <- DuoLocal
  BakedFor <- NoUnit
  CanonicalRef <- NoUnit
  StartUnits <- NoStart
  Faults = {"connect"}
  SignalMayArrive = TRUE
CHECK_DEADLOCK FALSE
INVARIANTS
  ConnectionsAccounted
PROPERTIES
  RegistryImplemented
