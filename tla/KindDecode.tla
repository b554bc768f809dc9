----------------------------- MODULE KindDecode -----------------------------
(* How the entities of a project become the merged configuration: the         *)
(* snapshot of recognized words a parse works from (loader_threaded.go), the  *)
(* five ways a node is checked and decoded (provider_kind_invoke.go), and the *)
(* folds of documents, discovered manifests and the embedded defaults         *)
(* (materialize.go), for every load of one process.                           *)
(*                                                                            *)
(* A node is its kind, its name and what the checks tell apart.  The parser,  *)
(* the order of the folds and the merge are the loader plugin's, modelled     *)
(* from the seams.  Connects fail, plugins refuse, and other goroutines of    *)
(* the process connect kinds, at any time.                                    *)
EXTENDS Naturals, Sequences

CONSTANTS
  Kind,
  Name,
  File,         \* where a node is authored
  Substrate,    \* standalone resource kinds: pod, vm, ...
  DeployOnly,   \* external deploy words, which no kind provider resolves
  Candy,        \* kinds whose provider carries IsCandyKind
  ValueDef,     \* spec.KindValueDefs
  Structural,   \* kinds whose provider carries IsStructuralKind
  Validating,   \* kinds whose provider carries IsValidatingKind
  External,     \* kinds declared by the project's plugins, to be connected
  HasInput,     \* kinds for which the schema of their plugin has an input definition
  deploy, box, candy,  \* the typed maps of the configuration
  Projects,     \* the projects to consider: documents and discovered manifests
  Defaults,     \* the embedded vocabulary
  MaxLoads      \* bound on the loads of one process

\* A child that is authored as a member; a declared field that is named like a kind;
\* a value with an unknown field (typo) or without a required one (hollow).
Node == [kind: Kind, name: Name, file: File, shape: {"deploy", "template", "image", "layer", "plain"},
         body: {"fine", "typo", "hollow", "scalar"}, nested: BOOLEAN, lookalike: BOOLEAN]
Manifest == [dir: Name, node: Node]

Nodes(doc) == {doc[j] : j \in DOMAIN doc}

OneNameEach(doc) == \A i, j \in DOMAIN doc : doc[i].name = doc[j].name => i = j

ASSUME KindAssumption ==
  /\ Substrate \cup DeployOnly \cup Candy \cup ValueDef \cup Structural \cup Validating \cup External \cup HasInput \subseteq Kind
  /\ External \cap (Substrate \cup Candy \cup ValueDef \cup DeployOnly) = {}
  /\ DeployOnly \cap (Substrate \cup Candy \cup ValueDef \cup Structural \cup HasInput) = {}
  /\ Structural \subseteq External
  /\ deploy \notin Kind \cup {box, candy} /\ box \notin Kind \cup {candy} /\ candy \notin Kind
  /\ MaxLoads \in Nat

ASSUME ProjectAssumption ==
  /\ Projects \subseteq [docs: Seq(Seq(Node)), found: Seq(Manifest)]
  /\ Defaults \in Seq(Node)
  /\ \A p \in Projects : \A i \in DOMAIN p.docs : OneNameEach(p.docs[i])
  /\ OneNameEach(Defaults)

\* A node is authored in one place: in one document, in one manifest or in the defaults.
ASSUME PlaceAssumption ==
  \A p \in Projects :
    LET documents == UNION {Nodes(p.docs[i]) : i \in DOMAIN p.docs}
        manifests == {p.found[i].node : i \in DOMAIN p.found} IN
    /\ \A i, j \in DOMAIN p.docs : i # j => Nodes(p.docs[i]) \cap Nodes(p.docs[j]) = {}
    /\ \A i, j \in DOMAIN p.found : i # j => p.found[i].node # p.found[j].node
    /\ documents \cap manifests = {} /\ Nodes(Defaults) \cap (documents \cup manifests) = {}

VARIABLES
  proj,     \* the project of the process
  loads,    \* loads begun
  stage,    \* where the load is
  at, node, \* the document or manifest, and the node of the document, that come next
  served,   \* kinds a provider is registered for
  gate,     \* builtinGateOnce: unrun, passed, broken
  known,    \* kinds whose input definition is registered
  snap,     \* spec.Threaded: the kinds whose declared fields the parse knew
  sub,      \* the accumulator of the document that is being folded
  uf,       \* the merged configuration: from slots to entries
  left,     \* nodes left out because nothing serves their kind
  late      \* kinds whose input definition was registered since the last parse

vars == <<proj, loads, stage, at, node, served, gate, known, snap, sub, uf, left, late>>

Empty == [s \in {} |-> s]
Entry == [node: Node, lazy: BOOLEAN, strayed: BOOLEAN]
Slots == (Kind \cup {deploy, box, candy}) \X Name
Idle == {"idle", "done", "scanned", "failed"}

(* ------------------------------- the parse --------------------------------- *)

\* The deploy substrates, and the kinds externalKindMayNestMembers accepts.
MayNest == Substrate \cup DeployOnly \cup External \cup (Structural \cap served)

ThreadedStructural == known \cap (External \cup Structural)

\* loaderThreaded: StructuralDeclaredFields and DeployDeclaredFields, the words whose fields
\* registeredInputDefFields finds.
Threaded == known \cap MayNest

\* The in-body scan of the parser: a key named like a kind is a member, unless the kind
\* of the body declares it as a field.
Strays(n) == n.lookalike /\ n.kind \in MayNest \ snap

(* ------------------------------- the schemas ------------------------------- *)

CompiledIn == Kind \ (External \cup DeployOnly)

\* loadBuiltinPluginUnits: once, with the definitions of the compiled-in kinds; a gate that
\* breaks at one unit has registered those of some.
GateRuns(defs) ==
  \/ gate = "unrun" /\ gate' = "passed" /\ defs = CompiledIn \cap HasInput
  \/ gate = "unrun" /\ gate' = "broken" /\ defs \subseteq CompiledIn \cap HasInput
  \/ gate # "unrun" /\ gate' = gate /\ defs = {}

Learn(defs) == known' = known \cup defs /\ late' = late \cup (defs \ known)

Gate == \E defs \in SUBSET (CompiledIn \cap HasInput) : GateRuns(defs) /\ Learn(defs)

\* loadProjectPlugins: the gate, and behind it the connects, each with its definition.
Connect(choices) ==
  \E defs \in SUBSET (CompiledIn \cap HasInput), connected \in choices :
    /\ GateRuns(defs) /\ (gate' = "broken" => connected = {})
    /\ served' = served \cup connected /\ Learn(defs \cup (connected \cap HasInput))

(* ------------------------------- the decode -------------------------------- *)

\* runPluginKind: the first test that holds.
Arm(k) ==
  CASE k \in Substrate -> "substrate"
    [] k \in Candy \ Substrate -> "candy"
    [] k \in ValueDef \ (Substrate \cup Candy) -> "gated"
    [] k \in Structural \ (Substrate \cup Candy \cup ValueDef) -> "structural"
    [] OTHER -> "flat"

HostValued == {"substrate", "candy", "gated"}

\* validateKindValueCUE: closed, not concrete, and nothing to test in a cross reference.
ValueRefused(n) == Arm(n.kind) \in HostValued /\ n.body = "typo"

\* validateAuthoredPluginInput: a registered definition, closed and concrete.
InputRefused(n) == Arm(n.kind) \notin HostValued /\ (n.kind \notin known' \/ n.body # "fine")

\* dispatchKindOpValidate
DeepRefused(n) == Arm(n.kind) # "candy" /\ n.kind \in Validating /\ n.body = "hollow"

MembersIgnored(n) == Arm(n.kind) = "gated" /\ (n.nested \/ Strays(n))

\* The members of kinds that have none.
MembersRefused(n) == Arm(n.kind) \in {"gated", "flat"} /\ (n.nested \/ Strays(n))

\* The map and the key under which an entity is kept.
Slot(n) ==
  LET map == CASE n.kind \in DeployOnly -> deploy
               [] Arm(n.kind) = "substrate" /\ n.shape = "deploy" -> deploy
               [] Arm(n.kind) = "candy" /\ n.shape = "image" -> box
               [] Arm(n.kind) = "candy" /\ n.shape # "image" -> candy
               [] Arm(n.kind) = "structural" -> deploy
               [] OTHER -> n.kind IN
  <<map, n.name>>

EntryOf(n) == [node |-> n, lazy |-> FALSE, strayed |-> Strays(n)]

Put(m, s, e) == [t \in DOMAIN m \cup {s} |-> IF t = s THEN e ELSE m[t]]

\* A node whose kind is served: its checks, in their order, and the plugin's OpLoad.
Decode(n, into, m) ==
  /\ n.kind \in served /\ n.kind \notin DeployOnly
  /\ IF Arm(n.kind) \in HostValued THEN UNCHANGED <<gate, known, late>> ELSE Gate
  /\ \/ /\ gate' # "broken" \/ Arm(n.kind) \in HostValued
        /\ ~ValueRefused(n) /\ ~InputRefused(n) /\ ~DeepRefused(n) /\ ~MembersRefused(n)
        /\ into = Put(m, Slot(n), EntryOf(n)) /\ UNCHANGED <<stage, left>>
     \/ /\ into = m /\ stage' = "failed" /\ UNCHANGED left

\* buildDeployEntityViaRegistry: an external deploy word, decoded without its plugin.
BuildDeploy(n, into, m) ==
  /\ n.kind \in DeployOnly
  /\ into = Put(m, Slot(n), EntryOf(n)) /\ UNCHANGED <<stage, left, gate, known, late>>

\* The materializer's policy for a declared kind whose plugin did not connect.
LeaveOut(n, into, m) ==
  /\ n.kind \notin served \cup DeployOnly
  /\ left' = left \cup {n} /\ into = m /\ UNCHANGED <<stage, gate, known, late>>

\* decodeEntityViaRegistry under materializeNodeInto.
Materialize(n, into, m) == Decode(n, into, m) \/ BuildDeploy(n, into, m) \/ LeaveOut(n, into, m)

(* ------------------------------- one load ---------------------------------- *)

Init ==
  /\ proj \in Projects /\ loads = 0 /\ stage = "idle" /\ at = 1 /\ node = 1
  /\ served = Kind \ (External \cup DeployOnly) /\ gate = "unrun" /\ known = {} /\ snap = {}
  /\ sub = Empty /\ uf = Empty /\ left = {} /\ late = {}

\* LoadUnified
StartLoad ==
  /\ stage \in Idle /\ loads < MaxLoads
  /\ stage' = "boundary" /\ loads' = loads + 1
  /\ at' = 1 /\ node' = 1 /\ sub' = Empty /\ uf' = Empty /\ left' = {}
  /\ UNCHANGED <<proj, served, gate, known, snap, late>>

\* hostWalkSeams: Boundary connects what it can before the parse; with nothing to connect, or
\* when its scan fails, it does not come to the gate.
Boundary ==
  /\ stage = "boundary" /\ stage' = "parse"
  /\ \/ UNCHANGED <<served, gate, known, late>>
     \/ External \ served # {} /\ Connect(SUBSET (External \ served))
  /\ UNCHANGED <<proj, loads, at, node, snap, sub, uf, left>>

AuthoredNodes ==
  (UNION {Nodes(proj.docs[i]) : i \in DOMAIN proj.docs}) \cup {proj.found[i].node : i \in DOMAIN proj.found}

\* The walk parses every document with the snapshot of that moment.
Parse ==
  /\ stage = "parse" /\ snap' = Threaded /\ late' = {}
  /\ IF \A n \in AuthoredNodes : n.nested => n.kind \in MayNest
     THEN stage' = "documents" ELSE stage' = "failed"
  /\ UNCHANGED <<proj, loads, at, node, served, gate, known, sub, uf, left>>

\* materializeProject: the nodes of one document, into an accumulator of their own.
FoldNode ==
  /\ stage = "documents" /\ at \in DOMAIN proj.docs /\ node \in DOMAIN proj.docs[at]
  /\ Materialize(proj.docs[at][node], sub', sub)
  /\ node' = node + 1
  /\ UNCHANGED <<proj, loads, at, served, snap, uf>>

MergeOver(root, other) ==
  [s \in DOMAIN root \cup DOMAIN other |-> IF s \in DOMAIN other THEN other[s] ELSE root[s]]

\* merge.MergeUnified: the root wins.
Merge(root, other) ==
  [s \in DOMAIN root \cup DOMAIN other |-> IF s \in DOMAIN root THEN root[s] ELSE other[s]]

MergeDocument ==
  /\ stage = "documents" /\ at \in DOMAIN proj.docs /\ node \notin DOMAIN proj.docs[at]
  /\ uf' = Merge(uf, sub) /\ sub' = Empty /\ at' = at + 1 /\ node' = 1
  /\ UNCHANGED <<proj, loads, stage, served, gate, known, snap, left, late>>

DocumentsDone ==
  /\ stage = "documents" /\ at \notin DOMAIN proj.docs
  /\ stage' = "discovered" /\ at' = 1
  /\ UNCHANGED <<proj, loads, node, served, gate, known, snap, sub, uf, left, late>>

\* Layer candies are registered by their directory and parsed later.
IsLayer(n) == n.kind \in Candy \cap served /\ n.shape # "image"

LazyEntry(n) == [node |-> n, lazy |-> TRUE, strayed |-> FALSE]

RegisterOver(m) ==
  LET s == <<candy, m.dir>> IN uf' = Put(uf, s, LazyEntry(m.node))

\* materializeDiscoveredNode, for a layer: an entry that is there wins.
RegisterLayer(m) ==
  LET s == <<candy, m.dir>> IN
  IF s \in DOMAIN uf THEN UNCHANGED uf ELSE uf' = Put(uf, s, LazyEntry(m.node))

\* foldDiscoveredManifests: everything else is decoded straight into the configuration.
FoldManifest ==
  /\ stage \in {"discovered", "rescan"} /\ at \in DOMAIN proj.found
  /\ LET m == proj.found[at] IN
     \/ IsLayer(m.node) /\ RegisterLayer(m) /\ UNCHANGED <<stage, gate, known, late, left>>
     \/ ~IsLayer(m.node) /\ Materialize(m.node, uf', uf)
  /\ at' = at + 1
  /\ UNCHANGED <<proj, loads, node, served, snap, sub>>

\* embeddedDefaults: parsed anew for every load, with a snapshot of its own.
ManifestsDone ==
  /\ stage = "discovered" /\ at \notin DOMAIN proj.found
  /\ stage' = "defaults" /\ node' = 1 /\ snap' = Threaded
  /\ UNCHANGED <<proj, loads, at, served, gate, known, sub, uf, left, late>>

\* materializeDocStream
FoldDefault ==
  /\ stage = "defaults" /\ node \in DOMAIN Defaults
  /\ Materialize(Defaults[node], sub', sub)
  /\ node' = node + 1
  /\ UNCHANGED <<proj, loads, at, served, snap, uf>>

\* applyEmbeddedDefaults: the plugin kinds only, under the project's own.
ApplyDefaults ==
  /\ stage = "defaults" /\ node \notin DOMAIN Defaults
  /\ stage' = "done" /\ sub' = Empty
  /\ uf' = Merge(uf, [s \in {t \in DOMAIN sub : t[1] \in Kind} |-> sub[s]])
  /\ UNCHANGED <<proj, loads, at, node, served, gate, known, snap, left, late>>

\* scanLocalCandies: ApplyDiscover on the loaded project, with a snapshot of its own.
Rescan ==
  /\ stage = "done" /\ stage' = "rescan" /\ at' = 1 /\ snap' = Threaded /\ late' = {}
  /\ UNCHANGED <<proj, loads, node, served, gate, known, sub, uf, left>>

RescanDone ==
  /\ stage = "rescan" /\ at \notin DOMAIN proj.found
  /\ stage' = "scanned"
  /\ UNCHANGED <<proj, loads, at, node, served, gate, known, snap, sub, uf, left, late>>

\* Another goroutine comes to the gate, and may connect a kind this one is still without.
ConnectedElsewhere ==
  /\ Connect({{}} \cup {{k} : k \in External \ served})
  /\ UNCHANGED <<proj, loads, stage, at, node, snap, sub, uf, left>>

Load == StartLoad \/ Boundary \/ Parse
Fold == FoldNode \/ MergeDocument \/ DocumentsDone \/ FoldManifest \/ ManifestsDone \/ FoldDefault \/ ApplyDefaults

\* The process needs no further load.
Over == stage \in Idle /\ UNCHANGED vars

Next == Load \/ Fold \/ Rescan \/ RescanDone \/ ConnectedElsewhere \/ Over

Spec == Init /\ [][Next]_vars

(* ------------------------------- properties -------------------------------- *)

\* The configuration and the accumulator map slots to entries; the rest has its type.
TypeOK ==
  /\ proj \in Projects /\ loads \in 0..MaxLoads
  /\ stage \in Idle \cup {"boundary", "parse", "documents", "discovered", "defaults", "rescan"}
  /\ at \in Nat /\ node \in Nat
  /\ served \subseteq Kind /\ known \subseteq HasInput /\ snap \subseteq HasInput
  /\ late \subseteq HasInput /\ gate \in {"unrun", "passed", "broken"} /\ left \subseteq Node
  /\ DOMAIN sub \subseteq Slots /\ DOMAIN uf \subseteq Slots
  /\ \A s \in DOMAIN sub : sub[s] \in Entry
  /\ \A s \in DOMAIN uf : uf[s] \in Entry

InDoc(i, s) == {n \in Nodes(proj.docs[i]) : Slot(n) = s /\ n \notin left}
Declaring(s) == {i \in DOMAIN proj.docs : InDoc(i, s) # {}}
Discovered(s) == {i \in DOMAIN proj.found :
  LET n == proj.found[i].node IN ~IsLayer(n) /\ Slot(n) = s /\ n \notin left}
Layers(s) == {i \in DOMAIN proj.found : IsLayer(proj.found[i].node) /\ s = <<candy, proj.found[i].dir>>}
Embedded(s) == {n \in Nodes(Defaults) : Slot(n) = s /\ s[1] \in Kind /\ n \notin left}

\* What a load leaves under each name, whatever the order in which documents, manifests and
\* defaults were folded: the first document's entity; else, of several discovered ones that
\* are not layers, the last; else the first layer directory; else the embedded one.  Where a
\* document and a manifest both name an entity that is not a layer it is one of the two.
\* Nothing that was authored and is served is missing, and nothing else is there.
ResultByPrecedence ==
  stage = "done" => \A s \in Slots :
    LET IsFirstDeclared == \E i \in Declaring(s) : (\A j \in Declaring(s) : i <= j) /\ uf[s].node \in InDoc(i, s)
        IsLastDiscovered == \E i \in Discovered(s) : (\A j \in Discovered(s) : j <= i) /\ uf[s].node = proj.found[i].node
        IsFirstLayer == \E i \in Layers(s) : (\A j \in Layers(s) : i <= j) /\ uf[s].node = proj.found[i].node IN
    /\ s \in DOMAIN uf <=> Declaring(s) \cup Discovered(s) \cup Layers(s) # {} \/ Embedded(s) # {}
    /\ Declaring(s) # {} => IsFirstDeclared \/ IsLastDiscovered
    /\ Declaring(s) = {} /\ Discovered(s) # {} => IsLastDiscovered
    /\ Declaring(s) \cup Discovered(s) = {} /\ Layers(s) # {} => IsFirstLayer
    /\ Declaring(s) \cup Discovered(s) \cup Layers(s) = {} /\ Embedded(s) # {} => uf[s].node \in Embedded(s)

\* "An explicit map entry always wins over a discovered one" (loader_threaded.go:442): what a
\* document spells out is what the configuration holds, after a load and after the second
\* discovery.  materializeDiscoveredNode keeps it for layer candies only.
ExplicitEntryWins ==
  stage \in {"done", "scanned"} => \A s \in Slots :
    Declaring(s) # {} => s \in DOMAIN uf /\ \E i \in Declaring(s) : uf[s].node \in InDoc(i, s)

\* Members an author nested are never dropped: what is in the configuration either had none
\* or is of a kind whose decode carries them.
MembersCarried ==
  \A s \in DOMAIN uf : uf[s].node.nested \/ uf[s].strayed =>
    uf[s].lazy \/ uf[s].node.kind \in Substrate \cup DeployOnly \cup Structural

\* A declared field named like a kind ends as a member of a body, of a substrate or of any
\* other kind, only when nothing could know it as a field: the kind has no input definition;
\* or it was registered after the parse; or the kind is compiled in and the gate that
\* registers it has not passed.  A load that connects the kind itself, or finds it connected,
\* reads it under its schema.
ReadUnderSchema ==
  stage \in {"documents", "discovered", "defaults", "done"} =>
    \A s \in DOMAIN uf : uf[s].strayed =>
      \/ uf[s].node.kind \notin HasInput
      \/ uf[s].node.kind \in late
      \/ uf[s].node.kind \in CompiledIn /\ gate # "passed"

\* Discovery runs a second time over the loaded project for the candy scan; the candies it
\* registered, and those the project spells out, stay what the load made them.
RescanKeepsCandies ==
  [][stage = "rescan" => \A s \in DOMAIN uf : s[1] = candy => s \in DOMAIN uf' /\ uf'[s] = uf[s]]_vars

=============================================================================
