--------------------------- MODULE MCPluginLoader ---------------------------
(* Small plugin closures for model-checking PluginLoader. *)
EXTENDS PluginLoader, TLC

CONSTANTS pod, tunnel, kube, kubeBaked, vm, core, spice, spiceBaked   \* units
CONSTANTS deployPod, verbTunnel, verbKube, kindVm, verbSpice, verbFile  \* identities

Must(k) == [key |-> k, optional |-> FALSE, ref |-> None]
May(k) == [key |-> k, optional |-> TRUE, ref |-> None]

NoUnit == [k \in Key |-> None]
OwnWord == [k \in Key |-> k]

-----------------------------------------------------------------------------
(* "Mesh": pod and tunnel need each other, and tunnel re-declares a def of kube's.  kube also
   serves pod's word; its baked copy serves a word register refuses.  pod serves the compiled-in
   kind:vm beside its own, which vm and core are compiled in for: vm has a peer of its own, and
   core needs one at start-up that is baked, and scanned too. *)

MeshUnits == {pod, tunnel, kube, kubeBaked, vm, core, spice, spiceBaked}
MeshKeys == {deployPod, verbTunnel, verbKube, kindVm, verbSpice, verbFile}
MeshServed == pod :> <<deployPod, kindVm>> @@ tunnel :> <<verbTunnel>>
              @@ kube :> <<verbKube, deployPod>> @@ kubeBaked :> <<verbKube, verbFile>>
              @@ vm :> <<kindVm>> @@ core :> <<kindVm>> @@ spice :> <<verbSpice>> @@ spiceBaked :> <<verbSpice>>
MeshDeclared == [MeshServed EXCEPT ![kube] = <<verbKube>>]
MeshRequires == pod :> <<May(verbTunnel), May(verbKube)>> @@ tunnel :> <<Must(deployPod)>>
                @@ kube :> <<May(deployPod)>> @@ kubeBaked :> <<>> @@ vm :> <<Must(verbKube)>>
                @@ core :> <<Must(verbSpice)>> @@ spice :> <<>> @@ spiceBaked :> <<>>
MeshOrigin == pod :> "pod" @@ tunnel :> "tunnel" @@ kube :> "kube" @@ kubeBaked :> "local:kube"
              @@ vm :> "vm" @@ core :> "core" @@ spice :> "spice" @@ spiceBaked :> "local:spice"
MeshSchema == pod :> "pod" @@ tunnel :> "tunnel" @@ kube :> "kube" @@ kubeBaked :> "kube"
              @@ vm :> "vm" @@ core :> "vm" @@ spice :> "spice" @@ spiceBaked :> "spice"
MeshDefs == "pod" :> {"#PodInput"} @@ "tunnel" :> {"#KubeInput"} @@ "kube" :> {"#KubeInput"}
            @@ "vm" :> {"#VmInput"} @@ "spice" :> {"#SpiceInput"}
MeshInputs == pod :> {deployPod} @@ tunnel :> {verbTunnel} @@ kube :> {verbKube}
              @@ kubeBaked :> {verbKube} @@ vm :> {kindVm} @@ core :> {kindVm}
              @@ spice :> {verbSpice} @@ spiceBaked :> {verbSpice}
MeshBaked == [NoUnit EXCEPT ![verbKube] = kubeBaked, ![verbSpice] = spiceBaked]
MeshLocal == {pod, tunnel, vm, spice}
MeshRef == [NoUnit EXCEPT ![verbKube] = kube]
MeshStart == <<core>>
NoStart == <<>>

-----------------------------------------------------------------------------
(* "Duo": pod needs tunnel, and nothing else; loaded by two goroutines. *)

DuoUnits == {pod, tunnel}
DuoKeys == {deployPod, verbTunnel}
DuoServed == pod :> <<deployPod>> @@ tunnel :> <<verbTunnel>>
DuoRequires == pod :> <<Must(verbTunnel)>> @@ tunnel :> <<>>
DuoOrigin == pod :> "pod" @@ tunnel :> "tunnel"
DuoSchema == DuoOrigin
DuoInputs == [u \in DuoUnits |-> Elems(DuoServed[u])]
DuoDefs == [o \in {"pod", "tunnel"} |-> {o}]
DuoLocal == DuoUnits

=============================================================================
