-------------------------- MODULE KindDecodeProofs --------------------------
(* What the loads of KindDecode leave, for any projects, defaults, kinds and   *)
(* connects: each entry is the one that precedence names, no member is lost,   *)
(* and bodies are read under the schemas of their kinds.                       *)
EXTENDS KindDecode, TLAPS

(***************************************************************************)
(* Types                                                                   *)
(***************************************************************************)

\* The documents, the manifests and the defaults are sequences of nodes.
LEMMA Sources ==
  ASSUME proj \in Projects
  PROVE  /\ proj.docs \in Seq(Seq(Node)) /\ proj.found \in Seq(Manifest)
         /\ \A i \in DOMAIN proj.docs : proj.docs[i] \in Seq(Node) /\ Nodes(proj.docs[i]) \subseteq Node
         /\ \A i \in DOMAIN proj.found : proj.found[i].node \in Node /\ proj.found[i].dir \in Name
         /\ Defaults \in Seq(Node) /\ Nodes(Defaults) \subseteq Node
<1>1. proj.docs \in Seq(Seq(Node)) /\ proj.found \in Seq(Manifest) /\ Defaults \in Seq(Node)
  BY ProjectAssumption
<1>2. \A i \in DOMAIN proj.docs : proj.docs[i] \in Seq(Node)
  BY <1>1
<1>3. \A i \in DOMAIN proj.found : proj.found[i] \in Manifest
  BY <1>1
<1>4. ASSUME NEW doc \in Seq(Node) PROVE Nodes(doc) \subseteq Node
  BY DEF Nodes
<1> QED  BY <1>1, <1>2, <1>3, <1>4 DEF Manifest

\* Every node has a slot.
LEMMA SlotTyped == \A n \in Node : Slot(n) \in Slots /\ Slot(n)[1] \in Kind \cup {deploy, box, candy}
BY DEF Slot, Slots, Node

\* A manifest's layer has one.
LEMMA LayerTyped == \A d \in Name : <<candy, d>> \in Slots
BY DEF Slots

\* What a node becomes in the accumulator m: an entry in its slot, or nothing.
Puts(n, m, into) ==
  /\ into = Put(m, Slot(n), EntryOf(n)) /\ left' = left
  /\ \/ n.kind \in served \ DeployOnly /\ ~MembersRefused(n)
     \/ n.kind \in DeployOnly
Passes(n, m, into) == into = m /\ left' = left \cup {n}

\* The three ways of a node that does not fail the load come to these two.
LEMMA Materialized ==
  ASSUME NEW n, NEW m, NEW into, Materialize(n, into, m)
  PROVE  \/ stage' = stage /\ (Puts(n, m, into) \/ Passes(n, m, into))
         \/ stage' = "failed" /\ into = m /\ left' = left
<1>1. CASE Decode(n, into, m)
  BY <1>1 DEF Decode, Puts
<1>2. CASE BuildDeploy(n, into, m)
  BY <1>2 DEF BuildDeploy, Puts
<1>3. CASE LeaveOut(n, into, m)
  BY <1>3 DEF LeaveOut, Passes
<1> QED  BY <1>1, <1>2, <1>3 DEF Materialize

WordTypes ==
  /\ gate \in {"unrun", "passed", "broken"} /\ served \subseteq Kind
  /\ known \subseteq HasInput /\ late \subseteq HasInput

\* The gate is decided at most once, and registers input definitions.
LEMMA GateTyped ==
  ASSUME NEW n, NEW m, NEW into, Materialize(n, into, m), WordTypes, UNCHANGED served
  PROVE  WordTypes'
<1>1. Gate \/ UNCHANGED <<gate, known, late>>
  BY DEF Materialize, Decode, BuildDeploy, LeaveOut
<1> QED  BY <1>1 DEF WordTypes, Gate, GateRuns, Learn

LEMMA ConnectTyped ==
  ASSUME WordTypes, NEW choices \in SUBSET (SUBSET External), Connect(choices)
  PROVE  WordTypes'
<1>1. PICK defs \in SUBSET (CompiledIn \cap HasInput), connected \in choices :
        /\ GateRuns(defs)
        /\ served' = served \cup connected /\ Learn(defs \cup (connected \cap HasInput))
  BY DEF Connect
<1>2. connected \subseteq Kind
  BY KindAssumption
<1> QED  BY <1>1, <1>2 DEF WordTypes, GateRuns, Learn

Typed(m) == DOMAIN m \subseteq Slots /\ \A s \in DOMAIN m : m[s] \in Entry

LEMMA EntryTyped == \A n \in Node : EntryOf(n) \in Entry /\ LazyEntry(n) \in Entry
BY DEF EntryOf, LazyEntry, Entry, Strays, Node

LEMMA PutTyped ==
  ASSUME NEW m, Typed(m), NEW s \in Slots, NEW e \in Entry
  PROVE  Typed(Put(m, s, e))
BY DEF Typed, Put

LEMMA MergeTyped == ASSUME NEW m, NEW o, Typed(m), Typed(o) PROVE Typed(Merge(m, o))
BY DEF Typed, Merge

LEMMA EmptyTyped == Typed(Empty)
BY DEF Typed, Empty

LEMMA MaterializeTyped ==
  ASSUME TypeOK, NEW n \in Node, NEW m, NEW into, Typed(m), Materialize(n, into, m), UNCHANGED served
  PROVE  /\ Typed(into) /\ left' \subseteq Node /\ WordTypes'
         /\ stage' \in {stage, "failed"}
<1>1. WordTypes'
  BY GateTyped DEF TypeOK, WordTypes
<1>2. CASE Puts(n, m, into)
  BY <1>1, <1>2, Materialized, PutTyped, SlotTyped, EntryTyped DEF Puts, TypeOK
<1>3. CASE ~Puts(n, m, into)
  BY <1>1, <1>3, Materialized DEF Passes, TypeOK
<1> QED  BY <1>2, <1>3

Stages == Idle \cup {"boundary", "parse", "documents", "discovered", "defaults", "rescan"}

LEMMA TypesStep == ASSUME TypeOK, [Next]_vars PROVE TypeOK'
<1> USE DEF Idle
<1>0. Typed(uf) /\ Typed(sub) /\ Typed(Empty)
  BY EmptyTyped DEF TypeOK, Typed
<1> DEFINE Rest == /\ proj' = proj /\ loads' \in 0 .. MaxLoads /\ stage' \in Stages
                   /\ at' \in Nat /\ node' \in Nat
                   /\ WordTypes' /\ snap' \subseteq HasInput /\ left' \subseteq Node
<1>q. ASSUME Rest, Typed(uf'), Typed(sub') PROVE TypeOK'
  BY <1>q DEF TypeOK, Typed, Stages, WordTypes
<1>w. WordTypes
  BY DEF TypeOK, WordTypes
<1>1. CASE StartLoad
  <2>1. /\ loads' = loads + 1 /\ loads < MaxLoads /\ at' = 1 /\ node' = 1 /\ stage' = "boundary"
        /\ uf' = Empty /\ sub' = Empty /\ left' = {} /\ UNCHANGED <<proj, served, gate, known, snap, late>>
    BY <1>1 DEF StartLoad
  <2>2. loads' \in 0 .. MaxLoads
    BY <2>1, KindAssumption DEF TypeOK
  <2>3. WordTypes'
    BY <1>w, <2>1 DEF WordTypes
  <2> QED  BY <1>0, <1>q, <2>1, <2>2, <2>3 DEF TypeOK, Stages
<1>2. CASE Boundary
  <2>1. UNCHANGED <<served, gate, known, late>> \/ Connect(SUBSET (External \ served))
    BY <1>2 DEF Boundary
  <2>2. WordTypes'
    BY <1>w, <2>1, ConnectTyped DEF WordTypes
  <2> QED  BY <1>0, <1>2, <1>q, <2>2 DEF Boundary, TypeOK, Stages
<1>3. CASE Parse
  BY <1>0, <1>3, <1>q DEF Parse, Threaded, TypeOK, Stages, WordTypes
<1>4. CASE FoldNode
  <2>1. proj.docs[at][node] \in Node
    BY <1>4, Sources DEF FoldNode, TypeOK, Nodes
  <2>2. /\ Typed(sub') /\ left' \subseteq Node /\ WordTypes' /\ stage' \in {stage, "failed"}
    BY <1>0, <1>4, <2>1, MaterializeTyped DEF FoldNode
  <2> QED  BY <1>0, <1>4, <1>q, <2>2 DEF FoldNode, TypeOK, Stages
<1>5. CASE MergeDocument
  BY <1>0, <1>5, <1>q, MergeTyped DEF MergeDocument, TypeOK, Stages, WordTypes
<1>6. CASE DocumentsDone \/ ManifestsDone \/ Rescan \/ RescanDone
  BY <1>0, <1>6, <1>q DEF DocumentsDone, ManifestsDone, Rescan, RescanDone, Threaded, TypeOK, Stages, WordTypes
<1>7. CASE FoldManifest
  <2> DEFINE m == proj.found[at]
  <2>1. m.node \in Node /\ m.dir \in Name
    BY <1>7, Sources DEF FoldManifest, TypeOK
  <2>2. CASE IsLayer(m.node) /\ RegisterLayer(m) /\ UNCHANGED <<stage, gate, known, late, left>>
    <3>1. Typed(uf')
      <4>1. <<candy, m.dir>> \in Slots /\ LazyEntry(m.node) \in Entry
        BY <2>1, LayerTyped, EntryTyped
      <4>2. Typed(Put(uf, <<candy, m.dir>>, LazyEntry(m.node)))
        BY <1>0, <4>1, PutTyped
      <4> QED  BY <1>0, <2>2, <4>2 DEF RegisterLayer
    <3> QED  BY <1>0, <1>7, <1>q, <2>2, <3>1 DEF FoldManifest, TypeOK, Stages, WordTypes
  <2>3. CASE ~IsLayer(m.node) /\ Materialize(m.node, uf', uf)
    <3>1. /\ Typed(uf') /\ left' \subseteq Node /\ WordTypes' /\ stage' \in {stage, "failed"}
      BY <1>0, <1>7, <2>1, <2>3, MaterializeTyped DEF FoldManifest
    <3> QED  BY <1>0, <1>7, <1>q, <3>1 DEF FoldManifest, TypeOK, Stages
  <2> QED  BY <1>7, <2>2, <2>3 DEF FoldManifest
<1>8. CASE FoldDefault
  <2>1. Defaults[node] \in Node
    BY <1>8, Sources DEF FoldDefault, TypeOK, Nodes
  <2>2. /\ Typed(sub') /\ left' \subseteq Node /\ WordTypes' /\ stage' \in {stage, "failed"}
    BY <1>0, <1>8, <2>1, MaterializeTyped DEF FoldDefault
  <2> QED  BY <1>0, <1>8, <1>q, <2>2 DEF FoldDefault, TypeOK, Stages
<1>9. CASE ApplyDefaults
  <2>1. Typed([s \in {t \in DOMAIN sub : t[1] \in Kind} |-> sub[s]])
    BY <1>0 DEF Typed
  <2>2. Typed(uf')
    BY <1>0, <1>9, <2>1, MergeTyped DEF ApplyDefaults
  <2> QED  BY <1>0, <1>9, <1>q, <2>2 DEF ApplyDefaults, TypeOK, Stages, WordTypes
<1>10. CASE ConnectedElsewhere
  <2>1. WordTypes'
    BY <1>w, <1>10, ConnectTyped DEF ConnectedElsewhere
  <2> QED  BY <1>0, <1>10, <1>q, <2>1 DEF ConnectedElsewhere, TypeOK, Stages
<1>11. CASE UNCHANGED vars
  BY <1>11 DEF vars, TypeOK
<1> QED  BY <1>1, <1>2, <1>3, <1>4, <1>5, <1>6, <1>7, <1>8, <1>9, <1>10, <1>11 DEF Next, Load, Fold, Over

LEMMA TypesInit == Init => TypeOK
BY KindAssumption DEF Init, TypeOK, Idle, Empty

\* The configuration, the accumulators and the words keep their types, for any projects.
THEOREM KindDecodeTypes == Spec => []TypeOK
BY TypesInit, TypesStep, PTL DEF Spec

(***************************************************************************)
(* The words: who is served, and which members the parse lets through      *)
(***************************************************************************)

Parsed == {"documents", "discovered", "defaults", "done", "rescan", "scanned"}

\* The host's kinds are always served; a kind is connected with its definition, and the gate
\* brings those of the compiled-in kinds.
WordsSound ==
  /\ Candy \subseteq served /\ External \cap served \cap HasInput \subseteq known
  /\ gate = "passed" => CompiledIn \cap HasInput \subseteq known
  /\ gate = "unrun" => CompiledIn \cap known = {}
  /\ stage \in Parsed => known \cap (Substrate \cup External) \subseteq snap \cup late

\* What was parsed nests members only in kinds that may.
Nested(n) == n.nested => n.kind \in Substrate \cup DeployOnly \cup External
ParseChecked == stage \in Parsed => \A n \in AuthoredNodes : Nested(n)

\* An entry with members is of a kind that carries them.
Carries(e) == e.node.nested \/ e.strayed => e.lazy \/ e.node.kind \in Substrate \cup DeployOnly \cup Structural

\* An entry whose field was taken for a member is of a kind without a definition, or of one
\* that was or is missing, with the words l and the gate g.
ExcusedBy(e, l, g) ==
  e.strayed => \/ e.node.kind \notin HasInput \/ e.node.kind \in l
               \/ e.node.kind \in CompiledIn /\ g # "passed"
Excused(e) == ExcusedBy(e, late, gate)

EntriesSound ==
  /\ \A s \in DOMAIN uf : Carries(uf[s])
  /\ \A s \in DOMAIN sub : stage = "documents" \/ s[1] \in Kind => Carries(sub[s])
  /\ stage \in {"documents", "discovered", "defaults", "done"} =>
       (\A s \in DOMAIN uf : Excused(uf[s])) /\ \A s \in DOMAIN sub : Excused(sub[s])
  /\ stage \in {"boundary", "parse"} => uf = Empty
  /\ stage \notin {"documents", "defaults", "failed"} => sub = Empty
  /\ stage = "documents" /\ at \notin DOMAIN proj.docs => sub = Empty

WordInv == WordsSound /\ ParseChecked /\ EntriesSound

\* The kinds a parse lets nest members.
LEMMA MayNestKinds == ASSUME TypeOK PROVE MayNest = Substrate \cup DeployOnly \cup External
BY KindAssumption DEF MayNest

\* What a node of a served kind becomes is sound: its checks refuse members that its kind
\* has none of, and a field can only stray while its kind is missing in the snapshot.
LEMMA EntrySound ==
  ASSUME TypeOK, WordsSound, stage \in Parsed, NEW n \in Node, NEW m, NEW into, Puts(n, m, into)
  PROVE  /\ Excused(EntryOf(n))
         /\ Nested(n) \/ Slot(n)[1] \in Kind => Carries(EntryOf(n))
<1>1. EntryOf(n).node = n /\ EntryOf(n).strayed = Strays(n) /\ EntryOf(n).lazy = FALSE
  BY DEF EntryOf
<1>2. n.kind \in served \/ n.kind \in DeployOnly
  BY DEF Puts
<1>3. Strays(n) => n.kind \in (Substrate \cup DeployOnly \cup External) \ snap
  BY MayNestKinds DEF Strays
<1>4. Excused(EntryOf(n))
  <2> SUFFICES ASSUME Strays(n), n.kind \in HasInput
               PROVE  n.kind \in late \/ (n.kind \in CompiledIn /\ gate # "passed")
    BY <1>1 DEF Excused, ExcusedBy
  <2>1. n.kind \in served /\ n.kind \in (Substrate \cup External) \ snap
    BY <1>2, <1>3, KindAssumption
  <2>2. CASE n.kind \in External
    BY <2>1, <2>2 DEF WordsSound
  <2>3. CASE n.kind \notin External
    <3>1. n.kind \in CompiledIn
      BY <2>3, KindAssumption DEF CompiledIn, Node
    <3> QED  BY <2>1, <3>1 DEF WordsSound
  <2> QED  BY <2>2, <2>3
<1>5. ASSUME Nested(n) \/ Slot(n)[1] \in Kind, n.nested \/ Strays(n)
      PROVE  n.kind \in Substrate \cup DeployOnly \cup Structural
  <2>1. CASE n.kind \in DeployOnly
    BY <2>1
  <2>2. CASE n.kind \notin DeployOnly
    <3>1. Arm(n.kind) \notin {"gated", "flat"}
      BY <1>5, <2>2 DEF Puts, MembersRefused
    <3>2. CASE Arm(n.kind) = "candy"
      <4>1. n.kind \in Candy /\ n.kind \notin Substrate
        BY <3>2 DEF Arm
      <4>2. Slot(n)[1] \in {box, candy}
        BY <2>2, <3>2 DEF Slot
      <4>3. Nested(n)
        BY <1>5, <4>2, KindAssumption
      <4>4. n.kind \in Substrate \cup DeployOnly \cup External
        BY <1>3, <1>5, <4>3 DEF Nested
      <4> QED  BY <2>2, <4>1, <4>4, KindAssumption
    <3>3. CASE Arm(n.kind) # "candy"
      BY <3>1, <3>3 DEF Arm
    <3> QED  BY <3>2, <3>3
  <2> QED  BY <2>1, <2>2
<1> QED  BY <1>1, <1>4, <1>5 DEF Carries

\* What the gate or a connect does to the words: those that come late are counted as such.
WordsGrow ==
  /\ late \subseteq late' /\ known \subseteq known' /\ known' \subseteq known \cup late'
  /\ gate' = "passed" => gate = "passed" \/ (gate = "unrun" /\ CompiledIn \cap HasInput \subseteq known')
  /\ gate' = "unrun" => gate = "unrun" /\ known' \cap CompiledIn = known \cap CompiledIn

LEMMA GateGrows == ASSUME NEW n, NEW m, NEW into, Materialize(n, into, m) PROVE WordsGrow
<1>1. Gate \/ UNCHANGED <<gate, known, late>>
  BY DEF Materialize, Decode, BuildDeploy, LeaveOut
<1> QED  BY <1>1 DEF WordsGrow, Gate, GateRuns, Learn

LEMMA ConnectGrows ==
  ASSUME NEW choices \in SUBSET (SUBSET External), Connect(choices)
  PROVE  /\ WordsGrow /\ served \subseteq served'
         /\ \A k \in served' \ served : k \in HasInput => k \in known'
<1>1. PICK defs \in SUBSET (CompiledIn \cap HasInput), connected \in choices :
        /\ GateRuns(defs)
        /\ served' = served \cup connected /\ Learn(defs \cup (connected \cap HasInput))
  BY DEF Connect
<1>2. connected \cap CompiledIn = {}
  BY DEF CompiledIn
<1> QED  BY <1>1, <1>2 DEF WordsGrow, GateRuns, Learn

\* What was excused stays so: a definition that comes to be known only now comes late.
LEMMA ExcuseStays ==
  ASSUME WordsSound, WordsGrow, NEW e, Excused(e)
  PROVE  ExcusedBy(e, late', gate')
<1> SUFFICES ASSUME e.strayed, e.node.kind \in HasInput, e.node.kind \notin late', e.node.kind \in CompiledIn,
                    gate' = "passed"
             PROVE  gate = "passed"
  BY DEF Excused, ExcusedBy, WordsGrow
<1>1. CASE gate = "unrun"
  <2>1. e.node.kind \in known' /\ e.node.kind \notin known
    BY <1>1 DEF WordsGrow, WordsSound
  <2> QED  BY <2>1 DEF WordsGrow
<1>2. CASE gate # "unrun"
  BY <1>2 DEF WordsGrow
<1> QED  BY <1>1, <1>2

\* One node, into an accumulator that is sound.
LEMMA MaterializeSound ==
  ASSUME TypeOK, WordsSound, stage \in Parsed, NEW n \in Node, NEW m, NEW into, Materialize(n, into, m)
  PROVE  /\ (\A s \in DOMAIN m : Excused(m[s])) => \A s \in DOMAIN into : ExcusedBy(into[s], late', gate')
         /\ Nested(n) /\ (\A s \in DOMAIN m : Carries(m[s])) => \A s \in DOMAIN into : Carries(into[s])
         /\ (\A s \in DOMAIN m : s[1] \in Kind => Carries(m[s])) =>
              \A s \in DOMAIN into : s[1] \in Kind => Carries(into[s])
<1>0. \A e : Excused(e) => ExcusedBy(e, late', gate')
  BY GateGrows, ExcuseStays
<1>1. CASE Puts(n, m, into)
  <2>1. /\ Excused(EntryOf(n)) /\ (Nested(n) \/ Slot(n)[1] \in Kind => Carries(EntryOf(n)))
    BY <1>1, EntrySound
  <2>2. DOMAIN into = DOMAIN m \cup {Slot(n)}
        /\ \A s \in DOMAIN into : into[s] = IF s = Slot(n) THEN EntryOf(n) ELSE m[s]
    BY <1>1 DEF Puts, Put
  <2> QED  BY <1>0, <2>1, <2>2
<1>2. CASE ~Puts(n, m, into)
  <2>1. into = m
    BY <1>2, Materialized DEF Passes
  <2> QED  BY <1>0, <2>1
<1> QED  BY <1>1, <1>2

LEMMA WordsInit == Init => WordInv
<1> SUFFICES ASSUME Init PROVE WordInv
  OBVIOUS
<1>1. DOMAIN Empty = {}
  BY DEF Empty
<1>2. WordsSound /\ ParseChecked
  BY KindAssumption DEF Init, WordsSound, ParseChecked, Parsed
<1>3. EntriesSound
  BY <1>1 DEF Init, EntriesSound
<1> QED  BY <1>2, <1>3 DEF WordInv

\* Steps that touch no entry: the words only grow, and the parse takes a snapshot of them.
LEMMA WordsSoundStep == ASSUME TypeOK, WordsSound, [Next]_vars PROVE WordsSound'
<1> USE DEF WordsSound, Parsed
<1>g. ASSUME WordsGrow, served \subseteq served', \A k \in served' \ served : k \in HasInput => k \in known',
             stage' \in Parsed => stage \in Parsed /\ snap' = snap
      PROVE  WordsSound'
  BY <1>g DEF WordsGrow
<1>1. CASE StartLoad
  BY <1>1 DEF StartLoad, Idle
<1>2. CASE Boundary
  <2>1. UNCHANGED <<served, gate, known, late>> \/ Connect(SUBSET (External \ served))
    BY <1>2 DEF Boundary
  <2>2. /\ WordsGrow /\ served \subseteq served'
        /\ \A k \in served' \ served : k \in HasInput => k \in known'
    BY <2>1, ConnectGrows DEF WordsGrow
  <2> QED  BY <1>2, <1>g, <2>2 DEF Boundary
<1>3. CASE Parse \/ Rescan \/ ManifestsDone
  <2>1. snap' = Threaded /\ UNCHANGED <<served, gate, known>>
    BY <1>3 DEF Parse, Rescan, ManifestsDone
  <2>2. known \cap (Substrate \cup External) \subseteq Threaded
    BY MayNestKinds DEF Threaded
  <2> QED  BY <2>1, <2>2
<1>4. CASE ConnectedElsewhere
  <2>1. Connect({{}} \cup {{k} : k \in External \ served}) /\ UNCHANGED <<stage, snap>>
    BY <1>4 DEF ConnectedElsewhere
  <2> QED  BY <1>g, <2>1, ConnectGrows
<1>5. CASE FoldNode \/ FoldManifest \/ FoldDefault
  <2>1. UNCHANGED <<served, snap>> /\ stage \in Parsed
    BY <1>5 DEF FoldNode, FoldManifest, FoldDefault
  <2>2. WordsGrow
    <3>1. (\E n, m, into : Materialize(n, into, m)) \/ UNCHANGED <<gate, known, late>>
      BY <1>5 DEF FoldNode, FoldManifest, FoldDefault
    <3> QED  BY <3>1, GateGrows DEF WordsGrow
  <2> QED  BY <1>g, <2>1, <2>2
<1>6. CASE MergeDocument \/ DocumentsDone \/ ApplyDefaults \/ RescanDone \/ UNCHANGED vars
  <2>1. UNCHANGED <<served, gate, known, snap, late>>
    BY <1>6 DEF MergeDocument, DocumentsDone, ApplyDefaults, RescanDone, vars
  <2>2. stage' \in Parsed => stage \in Parsed
    BY <1>6 DEF MergeDocument, DocumentsDone, ApplyDefaults, RescanDone, vars
  <2> QED  BY <2>1, <2>2
<1> QED  BY <1>1, <1>2, <1>3, <1>4, <1>5, <1>6 DEF Next, Load, Fold, Over

LEMMA ParseCheckedStep == ASSUME TypeOK, ParseChecked, [Next]_vars PROVE ParseChecked'
<1>1. proj' = proj
  BY DEF Next, Load, Fold, Over, vars, StartLoad, Boundary, Parse, FoldNode, MergeDocument, DocumentsDone,
    FoldManifest, ManifestsDone, FoldDefault, ApplyDefaults, Rescan, RescanDone, ConnectedElsewhere
<1>2. AuthoredNodes' = AuthoredNodes
  BY <1>1 DEF AuthoredNodes, Nodes
<1>3. CASE Parse
  BY <1>2, <1>3, MayNestKinds DEF Parse, ParseChecked, Parsed, Nested
<1>4. CASE ~Parse
  <2>1. stage' \in Parsed => stage \in Parsed
    BY <1>4, Materialized DEF Parsed, Idle, Next, Load, Fold, Over, vars, StartLoad, Boundary, FoldNode, MergeDocument, DocumentsDone,
      FoldManifest, ManifestsDone, FoldDefault, ApplyDefaults, Rescan, RescanDone, ConnectedElsewhere
  <2> QED  BY <1>2, <2>1 DEF ParseChecked
<1> QED  BY <1>3, <1>4

\* The nodes of the documents and of the manifests are authored.
LEMMA Authored ==
  /\ \A i \in DOMAIN proj.docs : \A j \in DOMAIN proj.docs[i] : proj.docs[i][j] \in AuthoredNodes
  /\ \A i \in DOMAIN proj.found : proj.found[i].node \in AuthoredNodes
<1>1. ASSUME NEW i \in DOMAIN proj.docs, NEW j \in DOMAIN proj.docs[i] PROVE proj.docs[i][j] \in AuthoredNodes
  <2>1. proj.docs[i][j] \in Nodes(proj.docs[i])
    BY DEF Nodes
  <2> QED  BY <2>1 DEF AuthoredNodes
<1>2. \A i \in DOMAIN proj.docs : \A j \in DOMAIN proj.docs[i] : proj.docs[i][j] \in AuthoredNodes
  BY <1>1
<1>3. \A i \in DOMAIN proj.found : proj.found[i].node \in AuthoredNodes
  BY DEF AuthoredNodes
<1> HIDE DEF AuthoredNodes
<1> QED  BY <1>2, <1>3

LEMMA EntriesSoundStep == ASSUME TypeOK, WordInv, [Next]_vars PROVE EntriesSound'
<1> USE DEF EntriesSound
<1>0. DOMAIN Empty = {} /\ WordsSound /\ ParseChecked /\ EntriesSound
  BY DEF Empty, WordInv
<1>1. CASE StartLoad \/ Boundary \/ Parse
  <2>1. uf' = Empty /\ sub' = Empty
    BY <1>0, <1>1 DEF StartLoad, Boundary, Parse
  <2> QED  BY <1>0, <1>1, <2>1 DEF StartLoad, Boundary, Parse
<1>2. CASE FoldNode
  <2>1. proj.docs[at][node] \in Node /\ Nested(proj.docs[at][node])
    BY <1>0, <1>2, Sources, Authored DEF FoldNode, TypeOK, Nodes, ParseChecked, Parsed
  <2>2. stage = "documents" /\ uf' = uf /\ at \in DOMAIN proj.docs /\ UNCHANGED <<at, proj>>
        /\ Materialize(proj.docs[at][node], sub', sub)
    BY <1>2 DEF FoldNode
  <2>3. \A s \in DOMAIN sub' : ExcusedBy(sub'[s], late', gate') /\ Carries(sub'[s])
    BY <1>0, <2>1, <2>2, MaterializeSound DEF Parsed
  <2>4. stage' \in {"documents", "failed"}
    BY <2>2, Materialized
  <2>5. \A s \in DOMAIN uf : ExcusedBy(uf[s], late', gate')
    BY <1>0, <2>2, GateGrows, ExcuseStays
  <2> QED  BY <1>0, <2>2, <2>3, <2>4, <2>5 DEF Excused
<1>3. CASE MergeDocument
  <2>1. \A s \in DOMAIN uf' : (s \in DOMAIN uf /\ uf'[s] = uf[s]) \/ (s \in DOMAIN sub /\ uf'[s] = sub[s])
    BY <1>3 DEF MergeDocument, Merge
  <2>2. stage = "documents" /\ stage' = stage /\ sub' = Empty /\ UNCHANGED <<late, gate>>
    BY <1>3 DEF MergeDocument
  <2>3. \A s \in DOMAIN uf' : Carries(uf'[s]) /\ Excused(uf'[s])
    BY <1>0, <2>1, <2>2
  <2> QED  BY <1>0, <2>2, <2>3 DEF Excused
<1>4. CASE DocumentsDone
  BY <1>0, <1>4 DEF DocumentsDone, Excused
<1>5. CASE FoldManifest
  <2>1. proj.found[at].node \in Node /\ Nested(proj.found[at].node)
    BY <1>0, <1>5, Sources, Authored DEF FoldManifest, TypeOK, ParseChecked, Parsed
  <2>2. stage \in {"discovered", "rescan"} /\ sub = Empty /\ sub' = sub
    BY <1>0, <1>5 DEF FoldManifest
  <2>3. CASE IsLayer(proj.found[at].node) /\ RegisterLayer(proj.found[at]) /\ UNCHANGED <<stage, gate, known, late, left>>
    <3>1. \A s \in DOMAIN uf' :
            (s \in DOMAIN uf /\ uf'[s] = uf[s]) \/ (uf'[s].lazy = TRUE /\ uf'[s].strayed = FALSE)
      BY <2>3 DEF RegisterLayer, Put, LazyEntry
    <3> QED  BY <1>0, <2>2, <2>3, <3>1 DEF Excused, ExcusedBy, Carries
  <2>4. CASE ~IsLayer(proj.found[at].node) /\ Materialize(proj.found[at].node, uf', uf)
    <3>1. stage' \in {stage, "failed"}
      BY <2>4, Materialized
    <3>2. \A s \in DOMAIN uf' : Carries(uf'[s])
      BY <1>0, <2>1, <2>2, <2>4, MaterializeSound DEF Parsed
    <3>3. stage = "discovered" => \A s \in DOMAIN uf' : ExcusedBy(uf'[s], late', gate')
      BY <1>0, <2>1, <2>2, <2>4, MaterializeSound DEF Parsed
    <3> QED  BY <1>0, <2>2, <3>1, <3>2, <3>3 DEF Excused
  <2> QED  BY <1>5, <2>3, <2>4 DEF FoldManifest
<1>6. CASE ManifestsDone \/ Rescan \/ RescanDone
  BY <1>0, <1>6 DEF ManifestsDone, Rescan, RescanDone, Excused
<1>7. CASE FoldDefault
  <2>1. Defaults[node] \in Node
    BY <1>7, Sources DEF FoldDefault, TypeOK, Nodes
  <2>2. stage = "defaults" /\ uf' = uf /\ Materialize(Defaults[node], sub', sub)
    BY <1>7 DEF FoldDefault
  <2>3. \A s \in DOMAIN sub' : ExcusedBy(sub'[s], late', gate') /\ (s[1] \in Kind => Carries(sub'[s]))
    BY <1>0, <2>1, <2>2, MaterializeSound DEF Parsed
  <2>4. stage' \in {"defaults", "failed"}
    BY <2>2, Materialized
  <2>5. \A s \in DOMAIN uf : ExcusedBy(uf[s], late', gate')
    BY <1>0, <2>2, GateGrows, ExcuseStays
  <2> QED  BY <1>0, <2>2, <2>3, <2>4, <2>5 DEF Excused
<1>8. CASE ApplyDefaults
  <2>1. \A s \in DOMAIN uf' :
          (s \in DOMAIN uf /\ uf'[s] = uf[s]) \/ (s \in DOMAIN sub /\ s[1] \in Kind /\ uf'[s] = sub[s])
    BY <1>8 DEF ApplyDefaults, Merge
  <2>2. stage = "defaults" /\ stage' = "done" /\ sub' = Empty /\ UNCHANGED <<late, gate>>
    BY <1>8 DEF ApplyDefaults
  <2>3. \A s \in DOMAIN uf' : Carries(uf'[s]) /\ Excused(uf'[s])
    BY <1>0, <2>1, <2>2
  <2> QED  BY <1>0, <2>2, <2>3 DEF Excused
<1>9. CASE ConnectedElsewhere
  <2>1. \A e : Excused(e) => ExcusedBy(e, late', gate')
    BY <1>0, <1>9, ConnectGrows, ExcuseStays DEF ConnectedElsewhere
  <2>2. UNCHANGED <<uf, sub, stage, at, proj>>
    BY <1>9 DEF ConnectedElsewhere
  <2> QED  BY <1>0, <2>1, <2>2 DEF Excused
<1>10. CASE UNCHANGED vars
  BY <1>0, <1>10 DEF vars, Excused
<1> QED  BY <1>1, <1>2, <1>3, <1>4, <1>5, <1>6, <1>7, <1>8, <1>9, <1>10 DEF Next, Load, Fold, Over

\* The invariant of the words and the entries.
THEOREM WordsInvariance == Spec => []WordInv
<1>1. TypeOK /\ WordInv /\ [Next]_vars => WordInv'
  BY WordsSoundStep, ParseCheckedStep, EntriesSoundStep DEF WordInv
<1> QED  BY <1>1, WordsInit, KindDecodeTypes, PTL DEF Spec

\* Members an author nested are never dropped (runPluginKind, hostWalkSeams).
THEOREM NoMemberLost == Spec => []MembersCarried
<1>1. WordInv => MembersCarried
  BY DEF WordInv, EntriesSound, Carries, MembersCarried
<1> QED  BY <1>1, WordsInvariance, PTL

\* A declared field, of a substrate's body or of any other, is taken for a member only when
\* the definition of its kind is missing, or came after the parse (loaderThreaded).
THEOREM FieldsReadUnderSchema == Spec => []ReadUnderSchema
<1>1. WordInv => ReadUnderSchema
  BY DEF WordInv, EntriesSound, Excused, ExcusedBy, ReadUnderSchema
<1> QED  BY <1>1, WordsInvariance, PTL

\* A second discovery leaves the candies as the load made them (scanLocalCandies).
THEOREM RescanIsIdempotent == Spec => RescanKeepsCandies
<1>1. ASSUME TypeOK, WordInv, [Next]_vars, stage = "rescan", NEW s \in DOMAIN uf, s[1] = candy
      PROVE  s \in DOMAIN uf' /\ uf'[s] = uf[s]
  <2>1. CASE FoldManifest
    <3> DEFINE m == proj.found[at]
    <3>1. CASE IsLayer(m.node) /\ RegisterLayer(m)
      BY <1>1, <3>1 DEF RegisterLayer, Put
    <3>2. CASE ~IsLayer(m.node) /\ Materialize(m.node, uf', uf)
      <4>1. m.node \in Node
        BY <1>1, <2>1, Sources DEF FoldManifest, TypeOK
      <4>2. Slot(m.node)[1] # candy
        <5>1. m.node.kind \in Candy => m.node.shape = "image"
          BY <1>1, <3>2 DEF IsLayer, WordInv, WordsSound
        <5>2. m.node.kind # candy /\ candy # deploy /\ candy # box
          BY <4>1, KindAssumption DEF Node
        <5> QED  BY <5>1, <5>2 DEF Slot, Arm
      <4>3. uf' = uf \/ uf' = Put(uf, Slot(m.node), EntryOf(m.node))
        BY <3>2, Materialized DEF Puts, Passes
      <4>4. s # Slot(m.node)
        BY <1>1, <4>2
      <4> HIDE DEF m
      <4> QED  BY <4>3, <4>4 DEF Put
    <3> QED  BY <2>1, <3>1, <3>2 DEF FoldManifest
  <2>2. CASE ~FoldManifest
    BY <1>1, <2>2 DEF Idle, Next, Load, Fold, Over, vars, StartLoad, Boundary, Parse, FoldNode, MergeDocument, DocumentsDone,
      ManifestsDone, FoldDefault, ApplyDefaults, Rescan, RescanDone, ConnectedElsewhere
  <2> QED  BY <2>1, <2>2
<1>2. TypeOK /\ WordInv /\ [Next]_vars => [stage = "rescan" => \A s \in DOMAIN uf : s[1] = candy => s \in DOMAIN uf' /\ uf'[s] = uf[s]]_vars
  BY <1>1
<1> QED  BY <1>2, KindDecodeTypes, WordsInvariance, PTL DEF Spec, RescanKeepsCandies

(***************************************************************************)
(* The folds: what has been read so far decides every slot                 *)
(***************************************************************************)

\* The first k - 1 nodes of a document.
Read(doc, k) == {doc[j] : j \in {i \in DOMAIN doc : i < k}}

Kept(S, s, gone) == {n \in S : Slot(n) = s /\ n \notin gone}

\* An accumulator holds the nodes S, but those that were left out.
Folds(m, S, gone) ==
  \A s \in Slots :
    IF Kept(S, s, gone) # {} THEN s \in DOMAIN m /\ m[s].node \in Kept(S, s, gone) ELSE s \notin DOMAIN m

\* Of the first k - 1 documents the first that declares a slot wins it.
Merged(m, k) ==
  \A s \in Slots :
    LET D == {i \in Declaring(s) : i < k} IN
    /\ D # {} => \E i \in D : (\A j \in D : i <= j) /\ s \in DOMAIN m /\ m[s].node \in InDoc(i, s)
    /\ D = {} => s \notin DOMAIN m

\* The first k - 1 manifests on top of all documents.
Folded(m, k) ==
  \A s \in Slots :
    LET F == {i \in Discovered(s) : i < k}
        L == {i \in Layers(s) : i < k} IN
    /\ F # {} => \E i \in F : (\A j \in F : j <= i) /\ s \in DOMAIN m /\ m[s].node = proj.found[i].node
    /\ F = {} /\ Declaring(s) # {} =>
         \E i \in Declaring(s) : (\A j \in Declaring(s) : i <= j) /\ s \in DOMAIN m /\ m[s].node \in InDoc(i, s)
    /\ F \cup Declaring(s) = {} /\ L # {} =>
         \E i \in L : (\A j \in L : i <= j) /\ s \in DOMAIN m /\ m[s].node = proj.found[i].node
    /\ F \cup Declaring(s) \cup L = {} => s \notin DOMAIN m

\* What is still to be read has not been left out.
Unread ==
  /\ stage \in {"boundary", "parse"} => left = {} /\ uf = Empty /\ sub = Empty /\ at = 1 /\ node = 1
  /\ stage = "documents" =>
       \A i \in DOMAIN proj.docs : \A j \in DOMAIN proj.docs[i] :
         i > at \/ (i = at /\ j >= node) => proj.docs[i][j] \notin left
  /\ stage \in {"documents", "discovered"} =>
       \A i \in DOMAIN proj.found : stage = "documents" \/ i >= at => proj.found[i].node \notin left
  /\ stage \in {"documents", "discovered", "defaults"} =>
       \A j \in DOMAIN Defaults : stage # "defaults" \/ j >= node => Defaults[j] \notin left

InDocuments ==
  /\ at \in 1 .. Len(proj.docs) + 1 /\ Merged(uf, at)
  /\ at \in DOMAIN proj.docs => node \in 1 .. Len(proj.docs[at]) + 1 /\ Folds(sub, Read(proj.docs[at], node), left)
  /\ at \notin DOMAIN proj.docs => node = 1 /\ sub = Empty

InDiscovered == at \in 1 .. Len(proj.found) + 1 /\ Folded(uf, at) /\ sub = Empty

InDefaults ==
  /\ Folded(uf, Len(proj.found) + 1)
  /\ node \in 1 .. Len(Defaults) + 1 /\ Folds(sub, Read(Defaults, node), left)

FoldInv ==
  /\ Unread
  /\ stage = "documents" => InDocuments
  /\ stage = "discovered" => InDiscovered
  /\ stage = "defaults" => InDefaults
  /\ ResultByPrecedence

\* No node is authored twice.
LEMMA Places ==
  ASSUME proj \in Projects
  PROVE  /\ \A i, j \in DOMAIN proj.docs : i # j => \A n \in Nodes(proj.docs[i]) : n \notin Nodes(proj.docs[j])
         /\ \A i, j \in DOMAIN proj.found : i # j => proj.found[i].node # proj.found[j].node
         /\ \A i \in DOMAIN proj.docs : \A j \in DOMAIN proj.found : proj.found[j].node \notin Nodes(proj.docs[i])
         /\ \A n \in Nodes(Defaults) : /\ \A i \in DOMAIN proj.docs : n \notin Nodes(proj.docs[i])
                                       /\ \A i \in DOMAIN proj.found : n # proj.found[i].node
         /\ \A i \in DOMAIN proj.docs : \A j, k \in DOMAIN proj.docs[i] : j # k => proj.docs[i][j] # proj.docs[i][k]
         /\ \A j, k \in DOMAIN Defaults : j # k => Defaults[j] # Defaults[k]
<1> DEFINE documents == UNION {Nodes(proj.docs[i]) : i \in DOMAIN proj.docs}
           manifests == {proj.found[i].node : i \in DOMAIN proj.found}
<1>1. /\ \A i, j \in DOMAIN proj.docs : i # j => Nodes(proj.docs[i]) \cap Nodes(proj.docs[j]) = {}
      /\ \A i, j \in DOMAIN proj.found : i # j => proj.found[i].node # proj.found[j].node
      /\ documents \cap manifests = {} /\ Nodes(Defaults) \cap (documents \cup manifests) = {}
  BY PlaceAssumption
<1>2. \A i \in DOMAIN proj.docs : \A n \in Nodes(proj.docs[i]) : n \in documents
  OBVIOUS
<1>3. \A i \in DOMAIN proj.found : proj.found[i].node \in manifests
  OBVIOUS
<1>4. (\A i \in DOMAIN proj.docs : OneNameEach(proj.docs[i])) /\ OneNameEach(Defaults)
  BY ProjectAssumption
<1> HIDE DEF documents, manifests
<1>5. \A i, j \in DOMAIN proj.docs : i # j => \A n \in Nodes(proj.docs[i]) : n \notin Nodes(proj.docs[j])
  BY <1>1
<1>6. \A i \in DOMAIN proj.docs : \A j \in DOMAIN proj.found : proj.found[j].node \notin Nodes(proj.docs[i])
  BY <1>1, <1>2, <1>3
<1>7. \A n \in Nodes(Defaults) : /\ \A i \in DOMAIN proj.docs : n \notin Nodes(proj.docs[i])
                                 /\ \A i \in DOMAIN proj.found : n # proj.found[i].node
  BY <1>1, <1>2, <1>3
<1>8. \A i \in DOMAIN proj.docs : \A j, k \in DOMAIN proj.docs[i] : j # k => proj.docs[i][j] # proj.docs[i][k]
  BY <1>4 DEF OneNameEach
<1>9. \A j, k \in DOMAIN Defaults : j # k => Defaults[j] # Defaults[k]
  BY <1>4 DEF OneNameEach
<1> QED  BY <1>1, <1>5, <1>6, <1>7, <1>8, <1>9

\* One node more of a document.
LEMMA ReadOn ==
  ASSUME NEW doc \in Seq(Node), NEW k \in DOMAIN doc
  PROVE  Read(doc, k + 1) = Read(doc, k) \cup {doc[k]}
<1>1. DOMAIN doc = 1 .. Len(doc) /\ Len(doc) \in Nat
  OBVIOUS
<1>2. ASSUME NEW x \in Read(doc, k + 1) PROVE x \in Read(doc, k) \cup {doc[k]}
  <2>1. PICK j \in DOMAIN doc : j < k + 1 /\ x = doc[j]
    BY <1>2 DEF Read
  <2>2. j < k \/ j = k
    BY <1>1, <2>1
  <2> QED  BY <2>1, <2>2 DEF Read
<1>3. ASSUME NEW x \in Read(doc, k) \cup {doc[k]} PROVE x \in Read(doc, k + 1)
  <2>1. PICK j \in DOMAIN doc : j < k + 1 /\ x = doc[j]
    <3>1. k < k + 1
      BY <1>1
    <3>2. CASE x = doc[k]
      BY <3>1, <3>2
    <3>3. CASE x \in Read(doc, k)
      <4>1. PICK j \in DOMAIN doc : j < k /\ x = doc[j]
        BY <3>3 DEF Read
      <4> QED  BY <1>1, <4>1
    <3> QED  BY <1>3, <3>2, <3>3
  <2> QED  BY <2>1 DEF Read
<1> QED  BY <1>2, <1>3

\* A document that was read to its end.
LEMMA ReadAll ==
  ASSUME NEW doc \in Seq(Node), NEW k \in 1 .. Len(doc) + 1, k \notin DOMAIN doc
  PROVE  Read(doc, k) = Nodes(doc)
<1>1. DOMAIN doc = 1 .. Len(doc) /\ Len(doc) \in Nat
  OBVIOUS
<1>2. \A j \in DOMAIN doc : j < k
  BY <1>1
<1> QED  BY <1>2 DEF Read, Nodes

LEMMA ReadNone == ASSUME NEW doc \in Seq(Node) PROVE Read(doc, 1) = {}
BY DEF Read

\* What a document declares changes only when one of its own nodes is left out.
LEMMA DocFrame ==
  ASSUME proj' = proj, NEW i \in DOMAIN proj.docs, \A n \in Nodes(proj.docs[i]) : n \in left' <=> n \in left
  PROVE  \A s : InDoc(i, s)' = InDoc(i, s) /\ (i \in Declaring(s)' <=> i \in Declaring(s))
<1>1. \A s : InDoc(i, s)' = InDoc(i, s)
  BY DEF InDoc, Nodes
<1> QED  BY <1>1 DEF Declaring

\* The same of a manifest; which manifests are layers never changes.
LEMMA ManifestFrame ==
  ASSUME proj' = proj, WordsSound, WordsSound', NEW i \in DOMAIN proj.found
  PROVE  /\ (proj.found[i].node \in left' <=> proj.found[i].node \in left) =>
              \A s : i \in Discovered(s)' <=> i \in Discovered(s)
         /\ \A s : i \in Layers(s)' <=> i \in Layers(s)
<1>1. \A n : IsLayer(n)' <=> IsLayer(n)
  BY DEF IsLayer, WordsSound
<1> QED  BY <1>1 DEF Discovered, Layers

\* One node, folded into an accumulator.
LEMMA FoldsOn ==
  ASSUME NEW m, NEW S, NEW into, NEW n, Folds(m, S, left), n \notin S, n \notin left,
         Puts(n, m, into) \/ Passes(n, m, into)
  PROVE  Folds(into, S \cup {n}, left')
<1>1. CASE Puts(n, m, into)
  <2>1. EntryOf(n).node = n
    BY DEF EntryOf
  <2>2. left' = left /\ into = Put(m, Slot(n), EntryOf(n))
    BY <1>1 DEF Puts
  <2>3. \A s : Kept(S \cup {n}, s, left') = IF s = Slot(n) THEN Kept(S, s, left) \cup {n} ELSE Kept(S, s, left)
    BY <2>2 DEF Kept
  <2>4. DOMAIN into = DOMAIN m \cup {Slot(n)}
        /\ \A s \in DOMAIN into : into[s] = IF s = Slot(n) THEN EntryOf(n) ELSE m[s]
    BY <2>2 DEF Put
  <2> QED  BY <2>1, <2>3, <2>4 DEF Folds
<1>2. CASE Passes(n, m, into)
  <2>1. into = m /\ left' = left \cup {n}
    BY <1>2 DEF Passes
  <2>2. \A s : Kept(S \cup {n}, s, left') = Kept(S, s, left)
    BY <2>1 DEF Kept
  <2> QED  BY <2>1, <2>2 DEF Folds
<1> QED  BY <1>1, <1>2

\* A step that leaves out at most n, which is none of the documents', keeps what these say.
LEMMA MergedFrame ==
  ASSUME proj' = proj, NEW m, NEW k,
         \A i \in DOMAIN proj.docs : i < k => \A n \in Nodes(proj.docs[i]) : n \in left' <=> n \in left,
         Merged(m, k)
  PROVE  Merged(m, k)'
<1>1. \A i \in DOMAIN proj.docs : i < k => \A s : InDoc(i, s)' = InDoc(i, s) /\ (i \in Declaring(s)' <=> i \in Declaring(s))
  BY DocFrame
<1>2. \A s : Declaring(s) \subseteq DOMAIN proj.docs /\ Declaring(s)' \subseteq DOMAIN proj.docs
  BY DEF Declaring
<1>3. \A s : {i \in Declaring(s)' : i < k} = {i \in Declaring(s) : i < k}
  BY <1>1, <1>2
<1> QED  BY <1>1, <1>2, <1>3 DEF Merged

\* A step that leaves out no node of the documents and of the manifests keeps what these say.
LEMMA FoldedFrame ==
  ASSUME proj' = proj, WordsSound, WordsSound',
         \A i \in DOMAIN proj.docs : \A n \in Nodes(proj.docs[i]) : n \in left' <=> n \in left,
         \A i \in DOMAIN proj.found : proj.found[i].node \in left' <=> proj.found[i].node \in left
  PROVE  \A s : /\ Declaring(s)' = Declaring(s) /\ Discovered(s)' = Discovered(s) /\ Layers(s)' = Layers(s)
                /\ \A i \in Declaring(s) : InDoc(i, s)' = InDoc(i, s)
<1>1. \A i \in DOMAIN proj.docs : \A s : InDoc(i, s)' = InDoc(i, s) /\ (i \in Declaring(s)' <=> i \in Declaring(s))
  BY DocFrame
<1>2. \A i \in DOMAIN proj.found : \A s : /\ i \in Discovered(s)' <=> i \in Discovered(s)
                                          /\ i \in Layers(s)' <=> i \in Layers(s)
  BY ManifestFrame
<1>3. \A s : /\ Declaring(s) \subseteq DOMAIN proj.docs /\ Declaring(s)' \subseteq DOMAIN proj.docs
             /\ Discovered(s) \subseteq DOMAIN proj.found /\ Discovered(s)' \subseteq DOMAIN proj.found
             /\ Layers(s) \subseteq DOMAIN proj.found /\ Layers(s)' \subseteq DOMAIN proj.found
  BY DEF Declaring, Discovered, Layers
<1>4. \A s : Declaring(s)' = Declaring(s)
  BY <1>1, <1>3
<1>5. \A s : Discovered(s)' = Discovered(s)
  <2>1. \A s : \A i \in DOMAIN proj.found : i \in Discovered(s)' <=> i \in Discovered(s)
    BY <1>2
  <2>2. \A s : Discovered(s) \subseteq DOMAIN proj.found /\ Discovered(s)' \subseteq DOMAIN proj.found
    BY <1>3
  <2> QED  BY <2>1, <2>2
<1>6. \A s : Layers(s)' = Layers(s)
  BY <1>2, <1>3
<1>7. \A s : \A i \in Declaring(s) : InDoc(i, s)' = InDoc(i, s)
  BY <1>1, <1>3
<1> QED  BY <1>4, <1>5, <1>6, <1>7

LEMMA MergeNext ==
  ASSUME TypeOK, at \in DOMAIN proj.docs, Merged(uf, at), Folds(sub, Nodes(proj.docs[at]), left)
  PROVE  Merged(Merge(uf, sub), at + 1)
<1>0. at \in Nat /\ proj.docs \in Seq(Seq(Node)) /\ DOMAIN proj.docs \subseteq Nat
  BY Sources DEF TypeOK
<1> DEFINE m == Merge(uf, sub)
           D(s) == {i \in Declaring(s) : i < at}
<1>1. \A s : Kept(Nodes(proj.docs[at]), s, left) = InDoc(at, s)
  BY DEF Kept, InDoc
<1>2. \A s : at \in Declaring(s) <=> InDoc(at, s) # {}
  BY DEF Declaring
<1>3. \A s : {i \in Declaring(s) : i < at + 1} = IF at \in Declaring(s) THEN D(s) \cup {at} ELSE D(s)
  <2>1. \A i \in DOMAIN proj.docs : i < at + 1 <=> i < at \/ i = at
    BY <1>0
  <2> QED  BY <2>1 DEF Declaring
<1>4. /\ DOMAIN m = DOMAIN uf \cup DOMAIN sub
      /\ \A s \in DOMAIN m : m[s] = IF s \in DOMAIN uf THEN uf[s] ELSE sub[s]
  BY DEF Merge
<1>5. \A s \in Slots : /\ D(s) # {} => \E i \in D(s) : (\A j \in D(s) : i <= j) /\ s \in DOMAIN uf /\ uf[s].node \in InDoc(i, s)
                       /\ D(s) = {} => s \notin DOMAIN uf
  BY DEF Merged
<1>6. \A s \in Slots : IF at \in Declaring(s) THEN s \in DOMAIN sub /\ sub[s].node \in InDoc(at, s) ELSE s \notin DOMAIN sub
  BY <1>1, <1>2 DEF Folds
<1>7. \A s : \A i \in D(s) : i \in Nat /\ i <= at
  BY <1>0 DEF Declaring
<1> HIDE DEF m, D
<1>8. ASSUME NEW s \in Slots, NEW E, E = {i \in Declaring(s) : i < at + 1}
      PROVE  /\ E # {} => \E i \in E : (\A j \in E : i <= j) /\ s \in DOMAIN m /\ m[s].node \in InDoc(i, s)
             /\ E = {} => s \notin DOMAIN m
  <2>1. CASE D(s) # {}
    <3>1. PICK i \in D(s) : (\A j \in D(s) : i <= j) /\ s \in DOMAIN uf /\ uf[s].node \in InDoc(i, s)
      BY <1>5, <2>1
    <3>2. i \in E /\ \A j \in E : i <= j
      BY <1>3, <1>7, <1>8, <3>1
    <3> QED  BY <1>4, <3>1, <3>2
  <2>2. CASE D(s) = {}
    <3>1. s \notin DOMAIN uf
      BY <1>5, <2>2
    <3>2. CASE at \in Declaring(s)
      <4>1. E = {at} /\ at <= at
        BY <1>0, <1>3, <1>8, <2>2, <3>2
      <4> QED  BY <1>4, <1>6, <3>1, <3>2, <4>1
    <3>3. CASE at \notin Declaring(s)
      <4>1. E = {}
        BY <1>3, <1>8, <2>2, <3>3
      <4> QED  BY <1>4, <1>6, <3>1, <3>3, <4>1
    <3> QED  BY <3>2, <3>3
  <2> QED  BY <2>1, <2>2
<1> QED  BY <1>8 DEF Merged, m

\* All documents, no manifest yet.
LEMMA DocumentsFolded ==
  ASSUME TypeOK, Merged(uf, at), at \in Nat, at > Len(proj.docs)
  PROVE  Folded(uf, 1)
<1>0. /\ DOMAIN proj.docs = 1 .. Len(proj.docs) /\ DOMAIN proj.found = 1 .. Len(proj.found)
      /\ Len(proj.docs) \in Nat /\ Len(proj.found) \in Nat
  BY Sources DEF TypeOK
<1>1. \A s : {i \in Declaring(s) : i < at} = Declaring(s)
  BY <1>0 DEF Declaring
<1>2. \A s : {i \in Discovered(s) : i < 1} = {} /\ {i \in Layers(s) : i < 1} = {}
  BY <1>0 DEF Discovered, Layers
<1> QED  BY <1>1, <1>2 DEF Merged, Folded

\* One manifest more that becomes a layer or an entry.
LEMMA FoldNext ==
  ASSUME TypeOK, at \in DOMAIN proj.found, Folded(uf, at), NEW into,
         LET n == proj.found[at].node
             t == <<candy, proj.found[at].dir>> IN
         \/ IsLayer(n) /\ into = (IF t \in DOMAIN uf THEN uf ELSE Put(uf, t, LazyEntry(n)))
         \/ ~IsLayer(n) /\ n \notin left /\ into = Put(uf, Slot(n), EntryOf(n))
  PROVE  Folded(into, at + 1)
<1> DEFINE n == proj.found[at].node
           t == <<candy, proj.found[at].dir>>
           F(s) == {i \in Discovered(s) : i < at}
           L(s) == {i \in Layers(s) : i < at}
<1>0. at \in Nat /\ DOMAIN proj.found \subseteq Nat /\ DOMAIN proj.docs \subseteq Nat
  BY Sources DEF TypeOK
<1>1. \A i \in DOMAIN proj.found : i < at + 1 <=> i < at \/ i = at
  BY <1>0
<1>2. \A s : at \in Discovered(s) <=> ~IsLayer(n) /\ Slot(n) = s /\ n \notin left
  BY DEF Discovered
<1>3. \A s : at \in Layers(s) <=> IsLayer(n) /\ s = t
  BY DEF Layers
<1>4. \A s : {i \in Discovered(s) : i < at + 1} = IF at \in Discovered(s) THEN F(s) \cup {at} ELSE F(s)
  BY <1>1 DEF Discovered
<1>5. \A s : {i \in Layers(s) : i < at + 1} = IF at \in Layers(s) THEN L(s) \cup {at} ELSE L(s)
  BY <1>1 DEF Layers
<1>6. \A s : \A i \in F(s) \cup L(s) : i \in Nat /\ i <= at
  BY <1>0 DEF Discovered, Layers
<1>7. \A s \in Slots :
        /\ F(s) # {} => \E i \in F(s) : (\A j \in F(s) : j <= i) /\ s \in DOMAIN uf /\ uf[s].node = proj.found[i].node
        /\ F(s) = {} /\ Declaring(s) # {} =>
             \E i \in Declaring(s) : (\A j \in Declaring(s) : i <= j) /\ s \in DOMAIN uf /\ uf[s].node \in InDoc(i, s)
        /\ F(s) \cup Declaring(s) = {} /\ L(s) # {} =>
             \E i \in L(s) : (\A j \in L(s) : i <= j) /\ s \in DOMAIN uf /\ uf[s].node = proj.found[i].node
        /\ F(s) \cup Declaring(s) \cup L(s) = {} => s \notin DOMAIN uf
  BY DEF Folded
<1>8. EntryOf(n).node = n /\ LazyEntry(n).node = n
  BY DEF EntryOf, LazyEntry
<1>9. \/ IsLayer(n) /\ into = (IF t \in DOMAIN uf THEN uf ELSE Put(uf, t, LazyEntry(n)))
      \/ ~IsLayer(n) /\ n \notin left /\ into = Put(uf, Slot(n), EntryOf(n))
  OBVIOUS
<1>10. n = proj.found[at].node
  OBVIOUS
<1> HIDE DEF n, t, F, L
<1>11. ASSUME NEW s \in Slots, NEW G, G = {i \in Discovered(s) : i < at + 1}, NEW M, M = {i \in Layers(s) : i < at + 1}
       PROVE
        /\ G # {} => \E i \in G : (\A j \in G : j <= i) /\ s \in DOMAIN into /\ into[s].node = proj.found[i].node
        /\ G = {} /\ Declaring(s) # {} =>
             \E i \in Declaring(s) : (\A j \in Declaring(s) : i <= j) /\ s \in DOMAIN into /\ into[s].node \in InDoc(i, s)
        /\ G \cup Declaring(s) = {} /\ M # {} =>
             \E i \in M : (\A j \in M : i <= j) /\ s \in DOMAIN into /\ into[s].node = proj.found[i].node
        /\ G \cup Declaring(s) \cup M = {} => s \notin DOMAIN into
  <2>1. CASE at \in Discovered(s)
    <3>1. G = F(s) \cup {at} /\ s = Slot(n) /\ into = Put(uf, Slot(n), EntryOf(n))
      BY <1>2, <1>4, <1>9, <1>11, <2>1
    <3>2. s \in DOMAIN into /\ into[s].node = n
      BY <1>8, <3>1 DEF Put
    <3>3. at \in G /\ \A j \in G : j <= at
      BY <1>0, <1>6, <3>1
    <3> QED  BY <1>10, <3>2, <3>3
  <2>2. CASE at \in Layers(s)
    <3>1. IsLayer(n) /\ s = t /\ at \notin Discovered(s) /\ G = F(s) /\ M = L(s) \cup {at}
      BY <1>2, <1>3, <1>4, <1>5, <1>11, <2>2
    <3>2. CASE s \in DOMAIN uf
      <4>1. into = uf /\ F(s) \cup Declaring(s) \cup L(s) # {}
        BY <1>7, <1>9, <3>1, <3>2
      <4>2. ASSUME F(s) \cup Declaring(s) = {}
            PROVE  \E i \in M : (\A j \in M : i <= j) /\ s \in DOMAIN into /\ into[s].node = proj.found[i].node
        <5>1. PICK i \in L(s) : (\A j \in L(s) : i <= j) /\ uf[s].node = proj.found[i].node
          BY <1>7, <4>1, <4>2
        <5>2. i \in M /\ \A j \in M : i <= j
          BY <1>6, <3>1, <5>1
        <5> QED  BY <3>2, <4>1, <5>1, <5>2
      <4> QED  BY <1>7, <3>1, <4>1, <4>2
    <3>3. CASE s \notin DOMAIN uf
      <4>1. F(s) \cup Declaring(s) \cup L(s) = {} /\ M = {at} /\ at <= at
        BY <1>0, <1>7, <3>1, <3>3
      <4>2. s \in DOMAIN into /\ into[s].node = n
        BY <1>8, <1>9, <3>1, <3>3 DEF Put
      <4> QED  BY <1>10, <3>1, <4>1, <4>2
    <3> QED  BY <3>2, <3>3
  <2>3. CASE at \notin Discovered(s) /\ at \notin Layers(s)
    <3>1. G = F(s) /\ M = L(s)
      BY <1>4, <1>5, <1>11, <2>3
    <3>2. (s \in DOMAIN into <=> s \in DOMAIN uf) /\ (s \in DOMAIN uf => into[s] = uf[s])
      BY <1>2, <1>3, <1>9, <2>3 DEF Put
    <3> QED  BY <1>7, <3>1, <3>2
  <2> QED  BY <2>1, <2>2, <2>3
<1> QED  BY <1>11 DEF Folded

\* What precedence says of a slot.
Decided(m, s) ==
  CASE Discovered(s) # {} ->
         \E i \in Discovered(s) : (\A j \in Discovered(s) : j <= i) /\ s \in DOMAIN m /\ m[s].node = proj.found[i].node
    [] Discovered(s) = {} /\ Declaring(s) # {} ->
         \E i \in Declaring(s) : (\A j \in Declaring(s) : i <= j) /\ s \in DOMAIN m /\ m[s].node \in InDoc(i, s)
    [] Discovered(s) \cup Declaring(s) = {} /\ Layers(s) # {} ->
         \E i \in Layers(s) : (\A j \in Layers(s) : i <= j) /\ s \in DOMAIN m /\ m[s].node = proj.found[i].node
    [] Discovered(s) \cup Declaring(s) \cup Layers(s) = {} ->
         IF Embedded(s) # {} THEN s \in DOMAIN m /\ m[s].node \in Embedded(s) ELSE s \notin DOMAIN m

\* The defaults fill the slots that are still free.
LEMMA DefaultsUnder ==
  ASSUME TypeOK, Folded(uf, Len(proj.found) + 1), Folds(sub, Nodes(Defaults), left),
         NEW into, into = Merge(uf, [s \in {t \in DOMAIN sub : t[1] \in Kind} |-> sub[s]])
  PROVE  \A s \in Slots : Decided(into, s)
<1>0. DOMAIN proj.found = 1 .. Len(proj.found) /\ Len(proj.found) \in Nat
  BY Sources DEF TypeOK
<1>1. \A s : /\ {i \in Discovered(s) : i < Len(proj.found) + 1} = Discovered(s)
             /\ {i \in Layers(s) : i < Len(proj.found) + 1} = Layers(s)
  BY <1>0 DEF Discovered, Layers
<1>2. \A s : Embedded(s) = IF s[1] \in Kind THEN Kept(Nodes(Defaults), s, left) ELSE {}
  BY DEF Embedded, Kept
<1>3. \A s \in Slots :
        IF Embedded(s) # {} THEN s \in DOMAIN sub /\ s[1] \in Kind /\ sub[s].node \in Embedded(s)
        ELSE s \notin DOMAIN sub \/ s[1] \notin Kind
  BY <1>2 DEF Folds
<1>4. \A s : /\ s \in DOMAIN into <=> s \in DOMAIN uf \/ (s \in DOMAIN sub /\ s[1] \in Kind)
             /\ s \in DOMAIN uf => into[s] = uf[s]
             /\ s \notin DOMAIN uf /\ s \in DOMAIN sub /\ s[1] \in Kind => into[s] = sub[s]
  BY DEF Merge
<1>5. ASSUME NEW s \in Slots PROVE Decided(into, s)
  <2>1. /\ Discovered(s) # {} =>
             \E i \in Discovered(s) : (\A j \in Discovered(s) : j <= i) /\ s \in DOMAIN uf /\ uf[s].node = proj.found[i].node
        /\ Discovered(s) = {} /\ Declaring(s) # {} =>
             \E i \in Declaring(s) : (\A j \in Declaring(s) : i <= j) /\ s \in DOMAIN uf /\ uf[s].node \in InDoc(i, s)
        /\ Discovered(s) \cup Declaring(s) = {} /\ Layers(s) # {} =>
             \E i \in Layers(s) : (\A j \in Layers(s) : i <= j) /\ s \in DOMAIN uf /\ uf[s].node = proj.found[i].node
        /\ Discovered(s) \cup Declaring(s) \cup Layers(s) = {} => s \notin DOMAIN uf
    BY <1>1 DEF Folded
  <2>2. CASE Discovered(s) # {}
    BY <1>4, <2>1, <2>2 DEF Decided
  <2>3. CASE Discovered(s) = {} /\ Declaring(s) # {}
    BY <1>4, <2>1, <2>3 DEF Decided
  <2>4. CASE Discovered(s) \cup Declaring(s) = {} /\ Layers(s) # {}
    BY <1>4, <2>1, <2>4 DEF Decided
  <2>5. CASE Discovered(s) \cup Declaring(s) \cup Layers(s) = {}
    BY <1>3, <1>4, <2>1, <2>5 DEF Decided
  <2> QED  BY <2>2, <2>3, <2>4, <2>5
<1> QED  BY <1>5

LEMMA FoldInit == Init => FoldInv
<1>1. ASSUME Init PROVE Unread /\ ResultByPrecedence /\ stage = "idle"
  BY <1>1 DEF Init, Unread, ResultByPrecedence
<1> QED  BY <1>1 DEF FoldInv

\* Before the parse nothing is read; the parse starts with the first node of the first document.
LEMMA FoldsFromNothing == ASSUME TypeOK, WordInv, FoldInv, StartLoad \/ Boundary \/ Parse PROVE FoldInv'
<1>0. DOMAIN Empty = {}
  BY DEF Empty
<1>1. CASE StartLoad
  BY <1>1 DEF FoldInv, StartLoad, Unread, ResultByPrecedence
<1>2. CASE Boundary
  BY <1>2 DEF FoldInv, Boundary, Unread, ResultByPrecedence
<1>3. CASE Parse
  <2>1. /\ left' = {} /\ uf' = Empty /\ sub' = Empty /\ at' = 1 /\ node' = 1 /\ stage' \in {"documents", "failed"}
        /\ proj' = proj
    BY <1>3 DEF FoldInv, Parse, Unread
  <2>2. Unread' /\ ResultByPrecedence'
    BY <2>1 DEF Unread, ResultByPrecedence
  <2>3. /\ proj.docs \in Seq(Seq(Node)) /\ Len(proj.docs) \in Nat /\ \A i \in DOMAIN proj.docs : proj.docs[i] \in Seq(Node)
    BY Sources DEF TypeOK
  <2>4. \A s : {i \in Declaring(s) : i < at}' = {}
    BY <2>1, <2>3 DEF Declaring
  <2>5. Merged(uf, at)'
    BY <1>0, <2>1, <2>4 DEF Merged
  <2>6. ASSUME 1 \in DOMAIN proj.docs PROVE Folds(sub, Read(proj.docs[at], node), left)'
    <3>1. Read(proj.docs[1], 1) = {}
      BY <2>3, <2>6, ReadNone
    <3>2. Read(proj.docs[at], node)' = {}
      BY <2>1, <3>1 DEF Read
    <3>3. \A s : Kept(Read(proj.docs[at], node), s, left)' = {}
      BY <3>2 DEF Kept
    <3> QED  BY <1>0, <2>1, <3>3 DEF Folds
  <2>7. 1 \in DOMAIN proj.docs => Len(proj.docs[1]) \in Nat
    BY <2>3
  <2>8. InDocuments'
    BY <2>1, <2>3, <2>5, <2>6, <2>7 DEF InDocuments
  <2> QED  BY <2>1, <2>2, <2>8 DEF FoldInv
<1> QED  BY <1>1, <1>2, <1>3

\* A load that failed promises nothing.
LEMMA FailedFolds == ASSUME stage' = "failed" PROVE FoldInv'
BY DEF FoldInv, Unread, ResultByPrecedence

\* The next node of a document.
LEMMA FoldsNode == ASSUME TypeOK, WordInv, FoldInv, FoldNode PROVE FoldInv'
<1> DEFINE n == proj.docs[at][node]
           doc == proj.docs[at]
<1>1. /\ stage = "documents" /\ at \in DOMAIN proj.docs /\ node \in DOMAIN doc
      /\ UNCHANGED <<proj, at, uf>> /\ node' = node + 1 /\ Materialize(n, sub', sub)
  BY DEF FoldNode
<1>2. /\ proj \in Projects /\ doc \in Seq(Node) /\ DOMAIN doc = 1 .. Len(doc) /\ Len(doc) \in Nat
      /\ DOMAIN proj.docs \subseteq Nat /\ at \in Nat /\ node \in Nat
  BY <1>1, Sources DEF TypeOK
<1>3. Unread /\ Merged(uf, at) /\ Folds(sub, Read(doc, node), left)
  BY <1>1 DEF FoldInv, InDocuments
<1>4. n \in Nodes(doc) /\ n \notin left
  BY <1>1, <1>2, <1>3 DEF Unread, Nodes
<1>5. n \notin Read(doc, node)
  <2>1. \A j \in DOMAIN doc : j < node => doc[j] # n
    BY <1>1, <1>2, Places
  <2> QED  BY <2>1 DEF Read
<1>6. CASE stage' = stage
  <2>1. Puts(n, sub, sub') \/ Passes(n, sub, sub')
    BY <1>1, <1>6, Materialized
  <2>2. left \subseteq left' /\ left' \subseteq left \cup {n}
    BY <2>1 DEF Puts, Passes
  <2>3. Folds(sub', Read(doc, node) \cup {n}, left')
    BY <1>3, <1>4, <1>5, <2>1, FoldsOn
  <2>4. Read(doc, node + 1) = Read(doc, node) \cup {n}
    BY <1>1, <1>2, ReadOn
  <2>5. InDocuments'
    <3>1. Folds(sub, Read(proj.docs[at], node), left)'
      BY <1>1, <2>3, <2>4
    <3>2. node + 1 \in 1 .. Len(doc) + 1
      BY <1>1, <1>2
    <3>3. Merged(uf, at)
      BY <1>3
    <3>4. \A i \in DOMAIN proj.docs : i < at => \A x \in Nodes(proj.docs[i]) : x \in left' <=> x \in left
      <4>1. \A i \in DOMAIN proj.docs : i < at => i # at
        BY <1>2
      <4> QED  BY <1>1, <1>2, <1>4, <2>2, <4>1, Places
    <3>5. Merged(uf, at)'
      <4>1. \A m, k : (/\ \A i \in DOMAIN proj.docs : i < k => \A x \in Nodes(proj.docs[i]) : x \in left' <=> x \in left
                       /\ Merged(m, k)) => Merged(m, k)'
        BY <1>1, MergedFrame
      <4> QED  BY <1>1, <3>3, <3>4, <4>1 DEF Merged
    <3>6. at \in 1 .. Len(proj.docs) + 1
      BY <1>1, <1>3 DEF FoldInv, InDocuments
    <3> QED  BY <1>1, <3>1, <3>2, <3>5, <3>6 DEF InDocuments
  <2>6. Unread'
    <3>1. \A i \in DOMAIN proj.docs : \A j \in DOMAIN proj.docs[i] :
            i > at \/ (i = at /\ j >= node + 1) => proj.docs[i][j] # n
      <4>1. ASSUME NEW i \in DOMAIN proj.docs, NEW j \in DOMAIN proj.docs[i], i > at PROVE proj.docs[i][j] # n
        <5>1. i # at /\ proj.docs[i][j] \in Nodes(proj.docs[i])
          BY <1>2, <4>1 DEF Nodes
        <5> QED  BY <1>1, <1>2, <1>4, <5>1, Places
      <4>2. ASSUME NEW j \in DOMAIN doc, j >= node + 1 PROVE doc[j] # n
        <5>1. j # node
          BY <1>2, <4>2
        <5> QED  BY <1>1, <1>2, <5>1, Places
      <4> QED  BY <4>1, <4>2
    <3>2. \A i \in DOMAIN proj.found : proj.found[i].node # n
      BY <1>1, <1>2, <1>4, Places
    <3>3. \A j \in DOMAIN Defaults : Defaults[j] # n
      <4>1. \A j \in DOMAIN Defaults : Defaults[j] \in Nodes(Defaults)
        BY DEF Nodes
      <4> QED  BY <1>1, <1>2, <1>4, <4>1, Places
    <3>4. \A i \in DOMAIN proj.docs : \A j \in DOMAIN proj.docs[i] :
            i > at \/ (i = at /\ j >= node + 1) => i > at \/ (i = at /\ j >= node)
      <4>1. \A i \in DOMAIN proj.docs : DOMAIN proj.docs[i] \subseteq Nat
        BY <1>2, Sources
      <4> QED  BY <1>2, <4>1
    <3> HIDE DEF n, doc
    <3> QED  BY <1>1, <1>3, <1>6, <2>2, <3>1, <3>2, <3>3, <3>4 DEF Unread
  <2>7. ResultByPrecedence'
    BY <1>1, <1>6 DEF ResultByPrecedence
  <2> QED  BY <1>1, <1>6, <2>5, <2>6, <2>7 DEF FoldInv
<1> QED  BY <1>1, <1>6, Materialized, FailedFolds

\* The end of a document, and of all.
LEMMA FoldsMerge == ASSUME TypeOK, WordInv, FoldInv, MergeDocument \/ DocumentsDone PROVE FoldInv'
<1>0. DOMAIN Empty = {}
  BY DEF Empty
<1>1. /\ stage = "documents" /\ UNCHANGED <<proj, left>> /\ Unread /\ InDocuments
  BY DEF MergeDocument, DocumentsDone, FoldInv
<1>2. /\ proj \in Projects /\ proj.docs \in Seq(Seq(Node)) /\ DOMAIN proj.docs = 1 .. Len(proj.docs) /\ Len(proj.docs) \in Nat
      /\ \A i \in DOMAIN proj.docs : proj.docs[i] \in Seq(Node) /\ DOMAIN proj.docs[i] \subseteq Nat
      /\ at \in Nat /\ node \in Nat
  BY Sources DEF TypeOK
<1>3. \A i : \A s : InDoc(i, s)' = InDoc(i, s) /\ Declaring(s)' = Declaring(s)
  BY <1>1 DEF InDoc, Declaring, Nodes
<1>4. CASE MergeDocument
  <2>1. /\ at \in DOMAIN proj.docs /\ node \notin DOMAIN proj.docs[at] /\ stage' = stage
        /\ uf' = Merge(uf, sub) /\ sub' = Empty /\ at' = at + 1 /\ node' = 1
    BY <1>4 DEF MergeDocument
  <2>2. Folds(sub, Nodes(proj.docs[at]), left)
    BY <1>1, <1>2, <2>1, ReadAll DEF InDocuments
  <2>3. Merged(Merge(uf, sub), at + 1)
    BY <1>1, <2>1, <2>2, MergeNext DEF InDocuments
  <2>4. Merged(uf, at)'
    BY <1>1, <1>3, <2>1, <2>3 DEF Merged
  <2>5. ASSUME at + 1 \in DOMAIN proj.docs PROVE Folds(Empty, Read(proj.docs[at + 1], 1), left)
    <3>1. Read(proj.docs[at + 1], 1) = {}
      BY <1>2, <2>5, ReadNone
    <3> QED  BY <1>0, <3>1 DEF Folds, Kept
  <2>6. InDocuments'
    <3>1. at + 1 \in 1 .. Len(proj.docs) + 1
      BY <1>2, <2>1
    <3>2. at + 1 \in DOMAIN proj.docs => 1 \in 1 .. Len(proj.docs[at + 1]) + 1
      <4>1. at + 1 \in DOMAIN proj.docs => Len(proj.docs[at + 1]) \in Nat
        BY <1>2
      <4> QED  BY <4>1
    <3>3. at + 1 \in DOMAIN proj.docs => Folds(sub, Read(proj.docs[at], node), left)'
      BY <1>1, <2>1, <2>5
    <3> QED  BY <1>1, <2>1, <2>4, <3>1, <3>2, <3>3 DEF InDocuments
  <2>7. Unread'
    <3>1. \A i \in DOMAIN proj.docs : i > at + 1 \/ i = at + 1 => i > at
      BY <1>2
    <3> QED  BY <1>1, <2>1, <3>1 DEF Unread
  <2>8. ResultByPrecedence'
    BY <1>1, <2>1 DEF ResultByPrecedence
  <2> QED  BY <1>1, <2>1, <2>6, <2>7, <2>8 DEF FoldInv
<1>5. CASE DocumentsDone
  <2>1. at \notin DOMAIN proj.docs /\ stage' = "discovered" /\ at' = 1 /\ UNCHANGED <<uf, sub, served>>
    BY <1>5 DEF DocumentsDone
  <2>2. Folded(uf, 1)
    BY <1>1, <1>2, <2>1, DocumentsFolded DEF InDocuments
  <2>3. \A s : Discovered(s)' = Discovered(s) /\ Layers(s)' = Layers(s)
    BY <1>1, <2>1 DEF Discovered, Layers, IsLayer
  <2>4. Folded(uf, at)'
    BY <1>1, <1>3, <2>1, <2>2, <2>3 DEF Folded
  <2>5. Len(proj.found) \in Nat
    BY <1>2, Sources
  <2>6. InDiscovered'
    BY <1>1, <2>1, <2>4, <2>5 DEF InDiscovered, InDocuments
  <2>7. Unread' /\ ResultByPrecedence'
    BY <1>1, <2>1 DEF Unread, ResultByPrecedence
  <2> QED  BY <2>1, <2>6, <2>7 DEF FoldInv
<1> QED  BY <1>4, <1>5

\* The next manifest.
LEMMA FoldsManifest == ASSUME TypeOK, WordInv, WordInv', FoldInv, FoldManifest PROVE FoldInv'
<1> DEFINE n == proj.found[at].node
           t == <<candy, proj.found[at].dir>>
<1>1. /\ stage \in {"discovered", "rescan"} /\ at \in DOMAIN proj.found /\ UNCHANGED <<proj, sub, served>> /\ at' = at + 1
      /\ \/ IsLayer(n) /\ RegisterLayer(proj.found[at]) /\ UNCHANGED <<stage, gate, left>>
         \/ ~IsLayer(n) /\ Materialize(n, uf', uf)
  BY DEF FoldManifest
<1>2. /\ proj \in Projects /\ DOMAIN proj.found = 1 .. Len(proj.found) /\ Len(proj.found) \in Nat /\ at \in Nat
  BY <1>1, Sources DEF TypeOK
<1>3. CASE stage' = "rescan"
  BY <1>3 DEF FoldInv, Unread, ResultByPrecedence
<1>4. CASE stage = "discovered" /\ stage' = "discovered"
  <2>1. Unread /\ InDiscovered /\ n \notin left
    <3>1. at >= at
      BY <1>2
    <3> QED  BY <1>1, <1>4, <3>1 DEF FoldInv, Unread
  <2>2. \/ IsLayer(n) /\ uf' = (IF t \in DOMAIN uf THEN uf ELSE Put(uf, t, LazyEntry(n))) /\ left' = left
        \/ ~IsLayer(n) /\ uf' = Put(uf, Slot(n), EntryOf(n)) /\ left' = left
        \/ ~IsLayer(n) /\ uf' = uf /\ left' = left \cup {n}
    <3>1. CASE IsLayer(n) /\ RegisterLayer(proj.found[at]) /\ UNCHANGED <<stage, gate, left>>
      BY <3>1 DEF RegisterLayer
    <3>2. CASE ~IsLayer(n) /\ Materialize(n, uf', uf)
      BY <1>4, <3>2, Materialized DEF Puts, Passes
    <3> QED  BY <1>1, <3>1, <3>2
  <2>3. left \subseteq left' /\ left' \subseteq left \cup {n}
    BY <2>2
  <2>4. /\ \A i \in DOMAIN proj.docs : \A x \in Nodes(proj.docs[i]) : x \in left' <=> x \in left
        /\ \A i \in DOMAIN proj.found : i # at => (proj.found[i].node \in left' <=> proj.found[i].node \in left)
        /\ \A j \in DOMAIN Defaults : Defaults[j] \in left' <=> Defaults[j] \in left
    <3>1. \A j \in DOMAIN Defaults : Defaults[j] \in Nodes(Defaults)
      BY DEF Nodes
    <3>2. /\ \A i \in DOMAIN proj.docs : \A x \in Nodes(proj.docs[i]) : x # n
          /\ \A i \in DOMAIN proj.found : i # at => proj.found[i].node # n
          /\ \A j \in DOMAIN Defaults : Defaults[j] # n
      BY <1>1, <1>2, <3>1, Places
    <3> HIDE DEF n
    <3> QED  BY <2>3, <3>2
  <2>5. \A s : /\ Declaring(s)' = Declaring(s) /\ Declaring(s) \subseteq DOMAIN proj.docs
               /\ \A i \in Declaring(s) : InDoc(i, s)' = InDoc(i, s)
    <3>1. \A i \in DOMAIN proj.docs : \A s : InDoc(i, s)' = InDoc(i, s) /\ (i \in Declaring(s)' <=> i \in Declaring(s))
      BY <1>1, <2>4, DocFrame
    <3>2. \A s : Declaring(s) \subseteq DOMAIN proj.docs /\ Declaring(s)' \subseteq DOMAIN proj.docs
      BY <1>1 DEF Declaring
    <3> QED  BY <3>1, <3>2
  <2>6. \A s : /\ \A i \in DOMAIN proj.found : i # at => (i \in Discovered(s)' <=> i \in Discovered(s))
               /\ Layers(s)' = Layers(s)
               /\ Discovered(s) \subseteq DOMAIN proj.found /\ Discovered(s)' \subseteq DOMAIN proj.found
               /\ Layers(s) \subseteq DOMAIN proj.found
    BY <1>1, <2>4 DEF Discovered, Layers, IsLayer
  <2>7. Folded(uf, at)'
    <3>1. CASE left' = left
      <4>1. Folded(uf', at + 1)
        BY <1>1, <2>1, <2>2, <3>1, FoldNext DEF InDiscovered
      <4>2. \A s : Discovered(s)' = Discovered(s)
        BY <1>1, <3>1 DEF Discovered, IsLayer
      <4> QED  BY <1>1, <2>5, <2>6, <4>1, <4>2 DEF Folded
    <3>2. CASE ~IsLayer(n) /\ uf' = uf /\ left' = left \cup {n}
      <4>1. \A s : at \notin Discovered(s)' /\ at \notin Layers(s)
        BY <1>1, <3>2 DEF Discovered, Layers
      <4>2. \A i \in DOMAIN proj.found : i < at + 1 /\ i # at <=> i < at
        BY <1>2
      <4>3. \A s : {i \in Discovered(s)' : i < at + 1} = {i \in Discovered(s) : i < at}
        BY <1>2, <2>6, <4>1, <4>2
      <4>4. \A s : {i \in Layers(s) : i < at + 1} = {i \in Layers(s) : i < at}
        BY <1>2, <2>6, <4>1, <4>2
      <4>5. Folded(uf, at)
        BY <2>1 DEF InDiscovered
      <4> HIDE DEF n, t
      <4> QED  BY <1>1, <2>5, <2>6, <3>2, <4>3, <4>4, <4>5 DEF Folded
    <3> QED  BY <2>2, <3>1, <3>2
  <2>8. InDiscovered'
    <3>1. at + 1 \in 1 .. Len(proj.found) + 1
      BY <1>1, <1>2
    <3> QED  BY <1>1, <2>1, <2>7, <3>1 DEF InDiscovered
  <2>9. Unread'
    <3>1. \A i \in DOMAIN proj.found : i >= at + 1 => i >= at /\ i # at
      BY <1>2
    <3> QED  BY <1>1, <1>4, <2>1, <2>4, <3>1 DEF Unread
  <2>10. ResultByPrecedence'
    BY <1>4 DEF ResultByPrecedence
  <2> QED  BY <1>4, <2>8, <2>9, <2>10 DEF FoldInv
<1>5. stage' = "failed" \/ stage' = stage
  BY <1>1, Materialized
<1> QED  BY <1>1, <1>3, <1>4, <1>5, FailedFolds

\* The manifests are done, and the defaults follow.
LEMMA FoldsManifestsDone == ASSUME TypeOK, FoldInv, ManifestsDone PROVE FoldInv'
<1>1. /\ stage = "discovered" /\ at \notin DOMAIN proj.found /\ stage' = "defaults" /\ node' = 1
      /\ UNCHANGED <<proj, at, served, sub, uf, left>> /\ Unread /\ InDiscovered
  BY DEF ManifestsDone, FoldInv
<1>2. /\ DOMAIN proj.found = 1 .. Len(proj.found) /\ Len(proj.found) \in Nat
      /\ Defaults \in Seq(Node) /\ Len(Defaults) \in Nat
  BY Sources DEF TypeOK
<1>3. at = Len(proj.found) + 1
  BY <1>1, <1>2 DEF InDiscovered
<1>4. (\A s : \A i : InDoc(i, s)' = InDoc(i, s)) /\ \A s : Declaring(s)' = Declaring(s)
  BY <1>1 DEF InDoc, Declaring, Nodes
<1>5. \A s : Discovered(s)' = Discovered(s) /\ Layers(s)' = Layers(s)
  BY <1>1 DEF Discovered, Layers, IsLayer
<1>6. Folded(uf, Len(proj.found) + 1)'
  BY <1>1, <1>3, <1>4, <1>5 DEF Folded, InDiscovered
<1>7. Folds(Empty, Read(Defaults, 1), left)
  BY <1>2, ReadNone DEF Folds, Kept, Empty
<1>8. InDefaults'
  BY <1>1, <1>2, <1>6, <1>7 DEF InDefaults, InDiscovered
<1> QED  BY <1>1, <1>8 DEF FoldInv, Unread, ResultByPrecedence

\* The next of the defaults.
LEMMA FoldsDefault == ASSUME TypeOK, WordInv, WordInv', FoldInv, FoldDefault PROVE FoldInv'
<1> DEFINE n == Defaults[node]
<1>1. /\ stage = "defaults" /\ node \in DOMAIN Defaults
      /\ UNCHANGED <<proj, at, uf, served>> /\ node' = node + 1 /\ Materialize(n, sub', sub)
  BY DEF FoldDefault
<1>2. /\ proj \in Projects /\ Defaults \in Seq(Node) /\ DOMAIN Defaults = 1 .. Len(Defaults) /\ Len(Defaults) \in Nat
      /\ node \in Nat
  BY <1>1, Sources DEF TypeOK
<1>3. Unread /\ InDefaults
  BY <1>1 DEF FoldInv
<1>4. n \in Nodes(Defaults) /\ n \notin left
  <2>1. node >= node
    BY <1>2
  <2> QED  BY <1>1, <1>3, <2>1 DEF Unread, Nodes
<1>5. n \notin Read(Defaults, node)
  <2>1. \A j \in DOMAIN Defaults : j < node => Defaults[j] # n
    BY <1>1, <1>2, Places
  <2> QED  BY <2>1 DEF Read
<1>6. CASE stage' = stage
  <2>1. Puts(n, sub, sub') \/ Passes(n, sub, sub')
    BY <1>1, <1>6, Materialized
  <2>2. left \subseteq left' /\ left' \subseteq left \cup {n}
    BY <2>1 DEF Puts, Passes
  <2>3. Folds(sub', Read(Defaults, node) \cup {n}, left')
    BY <1>3, <1>4, <1>5, <2>1, FoldsOn DEF InDefaults
  <2>4. Read(Defaults, node + 1) = Read(Defaults, node) \cup {n}
    BY <1>1, <1>2, ReadOn
  <2>5. /\ \A i \in DOMAIN proj.docs : \A x \in Nodes(proj.docs[i]) : x \in left' <=> x \in left
        /\ \A i \in DOMAIN proj.found : proj.found[i].node \in left' <=> proj.found[i].node \in left
    <3>1. /\ \A i \in DOMAIN proj.docs : \A x \in Nodes(proj.docs[i]) : x # n
          /\ \A i \in DOMAIN proj.found : proj.found[i].node # n
      BY <1>1, <1>2, <1>4, Places
    <3> HIDE DEF n
    <3> QED  BY <2>2, <3>1
  <2>6. Folded(uf, Len(proj.found) + 1)'
    <3>1. \A s : /\ Declaring(s)' = Declaring(s) /\ Discovered(s)' = Discovered(s) /\ Layers(s)' = Layers(s)
                 /\ \A i \in Declaring(s) : InDoc(i, s)' = InDoc(i, s)
      BY <1>1, <2>5, FoldedFrame DEF WordInv
    <3>2. Folded(uf, Len(proj.found) + 1)
      BY <1>3 DEF InDefaults
    <3> QED  BY <1>1, <3>1, <3>2 DEF Folded
  <2>7. InDefaults'
    <3>1. node + 1 \in 1 .. Len(Defaults) + 1
      BY <1>1, <1>2
    <3> QED  BY <1>1, <2>3, <2>4, <2>6, <3>1 DEF InDefaults
  <2>8. Unread'
    <3>1. \A j \in DOMAIN Defaults : j >= node + 1 => j >= node /\ Defaults[j] # n
      <4>1. \A j \in DOMAIN Defaults : j >= node + 1 => j >= node /\ j # node
        BY <1>2
      <4> QED  BY <1>1, <1>2, <4>1, Places
    <3> HIDE DEF n
    <3> QED  BY <1>1, <1>3, <1>6, <2>2, <3>1 DEF Unread
  <2> QED  BY <1>1, <1>6, <2>7, <2>8 DEF FoldInv, ResultByPrecedence
<1> QED  BY <1>1, <1>6, Materialized, FailedFolds

\* The result.
LEMMA FoldsApplied == ASSUME TypeOK, FoldInv, ApplyDefaults PROVE FoldInv'
<1>1. /\ stage = "defaults" /\ node \notin DOMAIN Defaults /\ stage' = "done"
      /\ uf' = Merge(uf, [s \in {t \in DOMAIN sub : t[1] \in Kind} |-> sub[s]])
      /\ UNCHANGED <<proj, served, left>> /\ InDefaults
  BY DEF ApplyDefaults, FoldInv
<1>2. Folds(sub, Nodes(Defaults), left)
  BY <1>1, Sources, ReadAll DEF InDefaults, TypeOK
<1>3. /\ \A s : Declaring(s)' = Declaring(s) /\ Discovered(s)' = Discovered(s) /\ Layers(s)' = Layers(s)
                /\ Embedded(s)' = Embedded(s)
      /\ \A s : \A i : InDoc(i, s)' = InDoc(i, s)
  BY <1>1 DEF InDoc, Declaring, Nodes, Discovered, Layers, IsLayer, Embedded
<1>4. Folded(uf, Len(proj.found) + 1)
  BY <1>1 DEF InDefaults
<1>5. \A s \in Slots : Decided(uf', s)
  BY <1>1, <1>2, <1>4, DefaultsUnder
<1>6. ResultByPrecedence'
  BY <1>1, <1>3, <1>5 DEF ResultByPrecedence, Decided
<1> QED  BY <1>1, <1>6 DEF FoldInv, Unread

\* Steps that fold nothing: another load connects a kind, and the rescan begins or ends.
LEMMA FoldsQuiet ==
  ASSUME TypeOK, WordInv, WordInv', FoldInv, Rescan \/ RescanDone \/ ConnectedElsewhere \/ UNCHANGED vars
  PROVE  FoldInv'
<1>1. CASE Rescan \/ RescanDone
  BY <1>1 DEF FoldInv, Rescan, RescanDone, Unread, ResultByPrecedence
<1>2. CASE ConnectedElsewhere \/ UNCHANGED vars
  <2>1. UNCHANGED <<proj, stage, at, node, sub, uf, left>>
    BY <1>2 DEF ConnectedElsewhere, vars
  <2>2. \A x : IsLayer(x)' <=> IsLayer(x)
    BY DEF IsLayer, WordInv, WordsSound
  <2>3. /\ \A s : Declaring(s)' = Declaring(s) /\ Discovered(s)' = Discovered(s) /\ Layers(s)' = Layers(s)
                  /\ Embedded(s)' = Embedded(s)
        /\ \A s : \A i : InDoc(i, s)' = InDoc(i, s)
    BY <2>1, <2>2 DEF InDoc, Declaring, Nodes, Discovered, Layers, Embedded
  <2>4. Unread'
    BY <2>1 DEF FoldInv, Unread
  <2>5. stage = "documents" => InDocuments'
    BY <2>1, <2>3 DEF FoldInv, InDocuments, Merged
  <2>6. /\ stage = "discovered" => InDiscovered'
        /\ stage = "defaults" => InDefaults'
    BY <2>1, <2>3 DEF FoldInv, InDiscovered, InDefaults, Folded
  <2>7. ResultByPrecedence'
    BY <2>1, <2>3 DEF FoldInv, ResultByPrecedence
  <2> QED  BY <2>1, <2>4, <2>5, <2>6, <2>7 DEF FoldInv
<1> QED  BY <1>1, <1>2

LEMMA FoldStep == ASSUME TypeOK, WordInv, WordInv', FoldInv, [Next]_vars PROVE FoldInv'
<1>1. CASE Load
  BY <1>1, FoldsFromNothing DEF Load
<1>2. CASE Fold
  BY <1>2, FoldsNode, FoldsMerge, FoldsManifest, FoldsManifestsDone, FoldsDefault, FoldsApplied DEF Fold
<1>3. CASE Rescan \/ RescanDone \/ ConnectedElsewhere \/ UNCHANGED vars
  BY <1>3, FoldsQuiet
<1> QED  BY <1>1, <1>2, <1>3 DEF Next, Over

\* The configuration under every name is the one precedence names (materializeProject,
\* foldDiscoveredManifests, applyEmbeddedDefaults).
THEOREM PrecedenceDecides == Spec => []ResultByPrecedence
<1>1. FoldInv => ResultByPrecedence
  BY DEF FoldInv
<1> QED  BY <1>1, FoldInit, FoldStep, KindDecodeTypes, WordsInvariance, PTL DEF Spec
=============================================================================
