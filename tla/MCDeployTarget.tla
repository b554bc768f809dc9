--------------------------- MODULE MCDeployTarget ---------------------------
(* A guest with a pod in it and a member in the pod, a local root on another  *)
(* machine with a member whose word no trait describes and a member of that,  *)
(* a local root with a cluster beside it, which may have no member, and a pod *)
(* that is a root.                                                            *)
EXTENDS DeployTarget, TLC

CONSTANTS vm, pod, app, home, tool, part, desk, cluster, chart, web, there

Roots == {vm, home, desk, web}
TheParent ==
  pod :> vm @@ app :> pod @@ tool :> home @@ part :> tool @@ cluster :> desk @@ chart :> cluster
  @@ [n \in Roots |-> None]
TheNodes == DOMAIN TheParent
TheAncestors ==
  pod :> <<vm>> @@ app :> <<vm, pod>> @@ tool :> <<home>> @@ part :> <<home, tool>>
  @@ cluster :> <<desk>> @@ chart :> <<desk, cluster>> @@ [n \in Roots |-> <<>>]
TheTarget ==
  vm :> "vm" @@ cluster :> "kubernetes" @@ tool :> "exampledeploy"
  @@ [n \in {pod, web} |-> "pod"] @@ [n \in {app, home, part, desk, chart} |-> "local"]
TheWords == {"vm", "pod", "local", "kubernetes", "exampledeploy"}
TheTransport ==
  "vm" :> "ssh" @@ "pod" :> "container-exec" @@ "local" :> "none" @@ "kubernetes" :> "reject"
  @@ "exampledeploy" :> "other"
Away == [n \in TheNodes |-> IF n = home THEN there ELSE Operator]
============================================================================
