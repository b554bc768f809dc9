------------------------------ MODULE MCHostStep ------------------------------
(* A walk with a script of each scope, a reboot, and a plugin whose own step reboots, too. *)
EXTENDS HostStep

CONSTANTS file, mount, kernel, builder, driver, module

MCAct == {file, mount, module}
MCSystem == {mount, module}
MCServed == {builder}
MCReboots == {kernel, driver}
MCPlan == {file, mount, kernel, builder}
MCInner == [s \in MCServed |-> {module, driver}]

=============================================================================
