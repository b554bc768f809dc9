---------------------------- MODULE DeployTarget ----------------------------
(***************************************************************************)
(* One deployment operation after the other: a node of the deploy tree is  *)
(* added, deleted, rebuilt, started, stopped or entered through a fresh    *)
(* target (unified_targets.go), on a venue the host derives anew from the  *)
(* node's ancestors (deploy_add_cmd.go), with the overlay build of a pod   *)
(* (build_overlay.go, step_emit_hostbuild.go) and the claims on shared     *)
(* resources (host_build_pod_lifecycle_dispatch.go).                       *)
(*                                                                         *)
(* A venue is the machine an executor runs on, followed by the guests and  *)
(* containers it hops into; Nil is a nil DeployExecutor.  The walk over    *)
(* the tree and the substrates are plugins outside the repository.         *)
(***************************************************************************)
EXTENDS Naturals, Sequences

CONSTANTS
  Node, Machine, Word, Dir,
  Operator,     \* the machine charly runs on
  None,
  Parent,       \* [Node -> Node or None]
  Ancestors,    \* [Node -> its ancestors, root first]
  Target,       \* [Node -> Word]
  Host,         \* [Node -> Machine], its host: field
  Bearing,      \* nodes with members in their substrate; the others have members beside them only
  Transport,    \* [Word -> how its children are reached]
  Lifecycle,    \* words whose provider prepares the venue itself
  Overlaid,     \* words whose add builds an overlay image
  Bracketed,    \* words with the declared trait bracketed_lifecycle
  Hooked        \* words with a registered plan hook

Transports == {"none", "container-exec", "ssh", "reject", "other"}
Hops == {"container-exec", "ssh"}
Nil == <<>>
Venue == Seq(Machine \cup Node)

TreeAssumption ==
  /\ Operator \in Machine /\ None \notin Node /\ Node \cap Machine = {}
  /\ Parent \in [Node -> Node \cup {None}]
  /\ Ancestors \in [Node -> Seq(Node)]
  /\ \A n \in Node :
       /\ Ancestors[n] = IF Parent[n] = None THEN <<>> ELSE Append(Ancestors[Parent[n]], Parent[n])
       /\ \A i \in 1 .. Len(Ancestors[n]) :
            Parent[Ancestors[n][i]] = IF i = 1 THEN None ELSE Ancestors[n][i - 1]
  /\ Target \in [Node -> Word] /\ Host \in [Node -> Machine]
  /\ Bearing \subseteq Node /\ Transport \in [Word -> Transports]
  /\ Overlaid \subseteq Lifecycle

ASSUME TreeAssumption

VARIABLES
  req,       \* the operation in progress, or one that is idle
  venue,     \* [Node -> the venues its plan was applied on, {} when it is not deployed]
  acts,      \* the venues this operation has touched
  cache,     \* overlayBuildContextCache: [Dir -> the deploy whose context it holds, or None]
  emitted,   \* the contexts this operation's steps were rendered with
  claims,    \* the nodes that hold a claim on shared resources
  session    \* the node an outer charly holds the lease for (CHARLY_PREEMPT_LEASE), or None

vars == <<req, venue, acts, cache, emitted, claims, session>>
build == <<cache, emitted>>
lease == <<claims, session>>

Verbs == {"start", "stop", "attach"}          \* of dispatchAndRunLifecycle
ByName == {"rebuild"} \cup Verbs                \* by the name of an entry, not by a path
Op == {"add", "del"} \cup ByName
Idle == [op |-> "none"]
Request(op, n, d) ==
  [op |-> op, node |-> n, dir |-> d, exec |-> Nil, hop |-> 1, base |-> None,
   pc |-> CASE op = "add" -> "hops" [] op = "del" -> "resolve" [] op \in ByName -> "plugins"]

Deployed(n) == venue[n] # {}
WordOf(n) == Target[n]
HasLifecycle(n) == WordOf(n) \in Lifecycle
Root(n) == <<Host[n]>>   \* RootExecutorForDeployNode

\* A request that went wrong, or is over.
Over == req' = Idle

-----------------------------------------------------------------------------
(* The venue of a node's children: one hop of ReconstructParentExec *)

Local(parent) == IF parent = Nil THEN <<Operator>> ELSE parent
Reached(a) == Transport[WordOf(a)]

\* What is no parent to anybody inside it, or of no known transport, hands the executor on.
HandsOn(a) == a \notin Bearing \/ Reached(a) = "other"

BareHop(a, parent) == Local(parent)   \* mutant: the container of the parent is left out
DeriveChild(a, parent) ==
  IF HandsOn(a) THEN parent ELSE IF Reached(a) \in Hops THEN Append(Local(parent), a) ELSE Local(parent)

Rejects(a) == a \in Bearing /\ Reached(a) = "reject"

Hop ==
  /\ req.op # "none" /\ req.pc = "hops" /\ req.hop <= Len(Ancestors[req.node])
  /\ LET a == Ancestors[req.node][req.hop] IN
       IF Rejects(a)
         THEN Over
         ELSE req' = [req EXCEPT !.exec = DeriveChild(a, @), !.hop = @ + 1]
  /\ UNCHANGED <<venue, acts, build, lease>>

-----------------------------------------------------------------------------
(* Resolving the target *)

\* The operator's walk is pre-order for adds and post-order for deletes; updates and the pod
\* verbs name one entry of the deploy configuration, a root of the tree.
Begin(op, n, d) ==
  /\ req = Idle
  /\ CASE op = "add" -> \A p \in Node : Parent[n] = p => Deployed(p)
       [] op = "del" -> Deployed(n) /\ \A m \in Node : Parent[m] = n => ~Deployed(m)
       [] op \in ByName -> Deployed(n) /\ Parent[n] = None
  /\ req' = Request(op, n, d)
  /\ acts' = {} /\ emitted' = {}
  /\ UNCHANGED <<venue, cache, lease>>

\* loadDeployPlugins, before an update or a pod verb.
LoadPlugins ==
  /\ req.op # "none" /\ req.pc = "plugins"
  /\ \/ req' = [req EXCEPT !.pc = "resolve"]
     \/ Over
  /\ UNCHANGED <<venue, acts, build, lease>>

\* add has its plans and its configuration to read first.
HopsDone ==
  /\ req.op # "none" /\ req.pc = "hops" /\ req.hop > Len(Ancestors[req.node])
  /\ \/ req' = [req EXCEPT !.pc = IF req.op = "add" THEN "resolve" ELSE "dispatch"]
     \/ req.op = "add" /\ Over
  /\ UNCHANGED <<venue, acts, build, lease>>

\* ResolveTarget: the provider is connected, or it is unknown, not connected, not a process.
Resolve ==
  /\ req.op # "none" /\ req.pc = "resolve"
  /\ \/ req' = [req EXCEPT !.pc = IF req.op = "del" THEN "hops" ELSE "dispatch"]
     \/ Over
  /\ UNCHANGED <<venue, acts, build, lease>>

-----------------------------------------------------------------------------
(* The dispatch *)

Overridden(r) == ~HasLifecycle(r.node) /\ r.exec # Nil

\* The venue the reverse server runs on: applyParentExecOverride and its twin for del.
KeepsRoot(r) == IF r.op = "add" /\ Overridden(r) THEN r.exec ELSE Root(r.node)   \* mutant: no twin
Exec(r) == IF Overridden(r) THEN r.exec ELSE Root(r.node)

\* The venue on the wire, from the same executor; without one the plugin takes the node's root.
Wire(r) == IF Overridden(r) THEN r.exec ELSE Root(r.node)

\* What the provider of a word with a lifecycle prepares: its guest or container, in the venue
\* its ancestors lead to.
Prepared(r) == Append(IF r.exec = Nil THEN Root(r.node) ELSE r.exec, r.node)

Touches(r) == IF HasLifecycle(r.node) THEN {Prepared(r)} ELSE {Exec(r), Wire(r)}

\* Start, Stop and Attach on a target without a lifecycle, or whose trait has no hook.
NoHook(r) == r.op # "attach" /\ WordOf(r.node) \in Bracketed \ Hooked
Refused(r) == r.op \in Verbs /\ (~HasLifecycle(r.node) \/ NoHook(r))

Refuse ==
  /\ req.op # "none" /\ req.pc = "dispatch" /\ Refused(req)
  /\ Over
  /\ UNCHANGED <<venue, acts, build, lease>>

Dispatch ==
  /\ req.op # "none" /\ req.pc = "dispatch" /\ ~Refused(req)
  /\ acts' = Touches(req)
  /\ req' = [req EXCEPT !.pc =
       IF req.op = "add" /\ WordOf(req.node) \in Overlaid THEN "overlay" ELSE "walk"]
  /\ UNCHANGED <<venue, build, lease>>

\* The bracket around a start and a stop is the deploy plugin's, under the same lease.
Bracket(r) ==
  IF session # None \/ WordOf(r.node) \notin Bracketed THEN claims
  ELSE CASE r.op = "start" -> claims \cup {r.node}
         [] r.op = "stop" -> claims \ {r.node}
         [] OTHER -> claims

\* The dispatch ends, or fails half way with what it did done.
Walk ==
  /\ req.op # "none" /\ req.pc = "walk"
  /\ Over
  /\ \/ /\ venue' = [venue EXCEPT ![req.node] =
                       CASE req.op = "add" -> @ \cup acts [] req.op = "del" -> {} [] OTHER -> @]
        /\ claims' = Bracket(req)
     \/ /\ venue' = [venue EXCEPT ![req.node] = IF req.op = "add" THEN @ \cup acts ELSE @]
        /\ UNCHANGED claims
  /\ UNCHANGED <<acts, build, session>>

-----------------------------------------------------------------------------
(* The overlay image of a pod *)

Taggable == {"tagged", "elected", "qualified"}

\* overlayBaseRef: a tag decides, then the local resolver, then the shape of the name.
BaseRef(tag, qualified, resolver) ==
  IF tag THEN "tagged" ELSE IF resolver = "elects" THEN "elected"
  ELSE IF qualified THEN "qualified" ELSE "error"

StoreOnce(d, n) == cache' = [cache EXCEPT ![d] = IF @ = None THEN n ELSE @]   \* mutant
Store(d, n) == cache' = [cache EXCEPT ![d] = n]

\* hostBuildOverlay: the configuration and the base may fail; then the context is cached.
Overlay(tag, qualified, resolver) ==
  /\ req.op # "none" /\ req.pc = "overlay" /\ req.base = None
  /\ LET ref == BaseRef(tag, qualified, resolver) IN
       \/ /\ ref # "error"
          /\ Store(req.dir, req.node)
          /\ req' = [req EXCEPT !.base = ref]
       \/ (ref = "error" \/ ~qualified) /\ Over /\ UNCHANGED cache
  /\ UNCHANGED <<venue, acts, emitted, lease>>

Cached(d) == cache[d]
Render(c) == emitted' = emitted \cup {c}   \* dispatchOCIStep

\* stepEmitOCIEmitStep: each step is rendered with the context cached for the directory.
EmitStep ==
  /\ req.op # "none" /\ req.pc = "overlay" /\ req.base # None
  /\ Render(Cached(req.dir))
  /\ UNCHANGED <<req, venue, acts, cache, lease>>

\* The image is built and tagged, or not.
OverlayBuilt ==
  /\ req.op # "none" /\ req.pc = "overlay" /\ req.base # None
  /\ req' = [req EXCEPT !.pc = "walk"] \/ Over
  /\ UNCHANGED <<venue, acts, build, lease>>

-----------------------------------------------------------------------------
(* Claims *)

\* An outer charly takes the lease, and every charly it starts sees it.
BeginSession(n) ==
  /\ req = Idle /\ session = None
  /\ session' = n /\ claims' = claims \cup {n}
  /\ UNCHANGED <<req, venue, acts, build>>

EndSession ==
  /\ req = Idle /\ session # None
  /\ session' = None /\ claims' = claims \ {session}
  /\ UNCHANGED <<req, venue, acts, build>>

Release(n) == claims' = claims \ {n}   \* mutant
\* releaseResourceClaim, the last step of a pod's removal; an arbiter that fails is reported only.
ReleaseResourceClaim(n) ==
  claims' \in IF session # None THEN {claims} ELSE {claims, claims \ {n}}

Remove(n) ==
  /\ req = Idle
  /\ ReleaseResourceClaim(n)
  /\ UNCHANGED <<req, venue, acts, build, session>>

-----------------------------------------------------------------------------

Init ==
  /\ req = Idle
  /\ venue = [n \in Node |-> {}] /\ acts = {}
  /\ cache = [d \in Dir |-> None] /\ emitted = {}
  /\ claims = {} /\ session = None

Next ==
  \/ \E op \in Op, n \in Node, d \in Dir : Begin(op, n, d)
  \/ LoadPlugins \/ Hop \/ HopsDone \/ Resolve \/ Refuse \/ Dispatch \/ Walk
  \/ \E tag, qualified \in BOOLEAN, resolver \in {"elects", "silent", "refuses"} :
       Overlay(tag, qualified, resolver)
  \/ EmitStep \/ OverlayBuilt
  \/ EndSession
  \/ \E n \in Node : BeginSession(n) \/ Remove(n)

Spec == Init /\ [][Next]_vars

-----------------------------------------------------------------------------

Requests ==
  [op : Op, node : Node, dir : Dir, exec : Venue, hop : Nat \ {0},
   base : Taggable \cup {"empty", None},
   pc : {"plugins", "hops", "resolve", "dispatch", "overlay", "walk"}]

TypeOK ==
  /\ req \in Requests \cup {Idle}
  /\ venue \in [Node -> SUBSET Venue] /\ acts \in SUBSET Venue
  /\ cache \in [Dir -> Node \cup {None}] /\ emitted \in SUBSET (Node \cup {None})
  /\ claims \in SUBSET Node /\ session \in Node \cup {None}

\* No ancestor of the node gives the walk an executor, which starts from none whatever the
\* host: of the root.
Unmoored(n) == \A i \in 1 .. Len(Ancestors[n]) : HandsOn(Ancestors[n][i])

\* Where the member of an unmoored parent misses it: reached from the operator's machine although
\* the parent is on another, or, when the parent hands nothing on, on a host: of its own.
Misses(n) ==
  LET p == Parent[n] IN
    Unmoored(p) /\ IF HandsOn(p) THEN Host[n] # Host[p] ELSE Host[p] # Operator

InsideParent(n) == Parent[n] \in Bearing /\ ~HasLifecycle(n) /\ Deployed(n)

\* A member in the substrate of its parent, without a lifecycle of its own, is applied in the
\* venue of the parent, however deep the tree and whatever mixture of guests, containers and plain
\* nodes leads there (applyParentExecOverride); only what a parent on another machine carries
\* itself is not, as ReconstructParentExec starts from no executor and not from the root's own.
MembersJoinParent ==
  \A n \in Node : InsideParent(n) /\ ~Misses(n) => venue[n] \subseteq venue[Parent[n]]

\* The rule as the comment of deriveChildExecutorForPath has it, without the exception.
AlwaysJoinParent == \A n \in Node : InsideParent(n) => venue[n] \subseteq venue[Parent[n]]

\* Whatever is done to a deployed node later, by another process on a fresh target, touches no
\* venue but those its add touched (charly#765).
StaysWhereAdded ==
  req # Idle /\ req.op # "add" /\ req.pc = "walk" => acts \subseteq venue[req.node]

\* A step of an overlay is rendered with the context of the deploy it belongs to, although the
\* contexts of all deploys of a directory share one entry.
EmitsOwnContext == req # Idle => emitted \subseteq {req.node}

\* An overlay is never built on a base that names no image (charly#867, charly#968).
BaseTaggable == req # Idle /\ req.base # None => req.base \in Taggable

\* While an outer charly holds the lease, nothing a nested one does releases its claim.
ClaimHeldForSession == session # None => session \in claims

=============================================================================
