---------------------------- MODULE MCKindConnect ----------------------------
(***************************************************************************)
(* A project with an imported namespace, and another project, for TLC.     *)
(* "flat" comes from a candy of the project and "imp" from one of the      *)
(* namespace, which the project's own pre-scan knows of; "baked" from a    *)
(* binary beside charly, "core" from charly itself; nobody serves "ghost", *)
(* which the other project declares.                                       *)
(***************************************************************************)
EXTENDS KindConnect

CONSTANTS proj, ns, other, flat, imp, baked, core, ghost

MCDir == {proj, ns, other}
MCWord == {flat, imp, baked, core, ghost}

Of(p, n, o) == [d \in MCDir |-> CASE d = proj -> p [] d = ns -> n [] d = other -> o]

MCBounds == Of(<<proj, ns>>, <<ns>>, <<other>>)
MCNodes == Of({flat, baked, core}, {imp}, {ghost, baked})
MCDeclares == Of({flat, imp}, {imp}, {ghost})
MCProvides == Of({flat}, {imp}, {})

=============================================================================
