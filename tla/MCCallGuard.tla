---------------------------- MODULE MCCallGuard ----------------------------
(* A plugin that invokes another one. *)
EXTENDS CallGuard

\* The outer window is the longer one, as a step's is.
Windows == <<3, 2>>
Periods == <<2, 1>>
=============================================================================
