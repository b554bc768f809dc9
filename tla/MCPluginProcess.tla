--------------------------- MODULE MCPluginProcess ---------------------------
(* One process with two calls. *)
EXTENDS PluginProcess
CONSTANTS c1, c2
=============================================================================
