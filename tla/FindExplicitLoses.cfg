SPECIFICATION Spec
CONSTANTS
  vm = vm  pod = pod  kubevirt = kubevirt  candyK = candyK  task = task  bed = bed  note = note  distro = distro  sidecar = sidecar
  a = a  b = b  c = c  d = d
  deploy = deploy  box = box  candy = candy
  Kind = {vm, pod, kubevirt, candyK, task, bed, note, distro, sidecar}
  Name = {a, b, c, d}
  File = {"f1", "f2", "m1", "m2", "m3", "m4", "e"}
  Substrate = {vm, pod}
  DeployOnly = {kubevirt}
  Candy = {candyK}
  ValueDef = {vm, pod, candyK, task}
  Structural = {bed}
  Validating = {vm, task}
  External = {bed, note}
  HasInput = {pod, bed, note, distro}
  Projects <- MCProjects
  Defaults <- MCDefaults
  MaxLoads = 2
INVARIANT
  ExplicitEntryWins
