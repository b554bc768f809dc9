SPECIFICATION Spec
CONSTANTS
  Thread = {t1}
  MaxLoads = 5
  MaxCalls = 2
  pod = pod
  tunnel = tunnel
  kube = kube
  kubeBaked = kubeBaked
  vm = vm
  core = core
  spice = spice
  spiceBaked = spiceBaked
  deployPod = deployPod
  verbTunnel = verbTunnel
  verbKube = verbKube
  kindVm = kindVm
  verbSpice = verbSpice
  verbFile = verbFile
  None = None
  Compiled = Compiled
  Origin = {"pod", "tunnel", "kube", "local:kube", "vm", "spice", "local:spice", "core"}
  Schema = {"pod", "tunnel", "kube", "vm", "spice"}
  Def = {"#PodInput", "#KubeInput", "#VmInput", "#SpiceInput"}
  CompiledKey = {kindVm}
  Unregistrable = {verbFile}
  Unit <- MeshUnits
  Key <- MeshKeys
  Word <- MeshKeys
  WordOf <- OwnWord
  OriginOf <- MeshOrigin
  Served <- MeshServed
  Declared <- MeshDeclared
  Requires <- MeshRequires
  SchemaOf <- MeshSchema
  DefsOf <- MeshDefs
  InputKeys <- MeshInputs
  Spliceable <- MeshUnits
  Local <- MeshLocal
  BakedFor <- MeshBaked
  CanonicalRef <- MeshRef
  StartUnits <- MeshStart
  Faults = {"connect", "scan", "config"}
  SignalMayArrive = TRUE
CHECK_DEADLOCK FALSE
INVARIANTS
  ServedThroughSchemaGate
  DefsUnambiguous
  RequirementsFirst
  OneServerPerSource
  DeadWordsWereRefused
PROPERTIES
  MarksLeftByRefusal
  CallsReturn
