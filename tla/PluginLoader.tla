---------------------------- MODULE PluginLoader ----------------------------
(***************************************************************************)
(* The plugin load path of the charly host: the process-wide provider      *)
(* registry (provider_registry.go), the schema gate and the loader         *)
(* (plugin_loader.go), and the declared-dependency gate                    *)
(* (plugin_requires.go).                                                   *)
(*                                                                         *)
(* A host call (a peer invoke, a deploy, a check) runs on a goroutine.     *)
(* Loading recurses: connecting a word scans the project's candies, a      *)
(* scanned candy is loaded as a unit, a unit's requirement gate connects   *)
(* another word.  stack[t] is goroutine t's chain of active Go frames,     *)
(* innermost first, and ret[t] the value the last finished frame returned. *)
(***************************************************************************)
EXTENDS Naturals, Sequences, FiniteSets

CONSTANTS
  Thread,          \* goroutines that run host calls
  MaxLoads,        \* bound: unit activations alive at a time
  MaxCalls,        \* bound: host calls one goroutine makes
  Unit,            \* loadable copies of a plugin: a scanned candy, a baked binary, a compiled-in unit
  Key, Word,       \* capability identities class:word[:parent], and their words
  Origin,          \* candy sources and "local:<bin>" origins
  Schema, Def,     \* served CUE sources, and the top-level definition names in them
  None, Compiled,  \* "no value", and the origin tag of a compiled-in provider
  WordOf,          \* [Key -> Word]
  CompiledKey,     \* identities registered from init()
  OriginOf,        \* [Unit -> Origin]
  Served,          \* [Unit -> Seq(Key)]: the providers Describe advertises, in order
  Declared,        \* [Unit -> Seq(Key)]: the manifest's plugin.providers
  Requires,        \* [Unit -> Seq(Requirement)]
  SchemaOf,        \* [Unit -> Schema]
  DefsOf,          \* [Schema -> SUBSET Def]
  InputKeys,       \* [Unit -> SUBSET Key]: identities with a declared input def
  Spliceable,      \* units whose schema is non-empty, compiles alone and splices onto the base
  Unregistrable,   \* identities register rejects on sight (a word that is an #Op field, a primary conflict)
  Local,           \* candies a scan of the project's own closure finds
  BakedFor,        \* [Key -> Unit \cup {None}]: bakedPluginBinaries
  CanonicalRef,    \* [Key -> Unit \cup {None}]: canonicalProviderRef
  StartUnits,      \* Seq(Unit): builtinPluginUnits
  Faults,          \* environment failures that may happen
  SignalMayArrive  \* whether a catchable signal may interrupt the process

Load == 1 .. MaxLoads

Requirement == [key : Key, optional : BOOLEAN, ref : Unit \cup {None}]

ASSUME SizeAssumption == MaxLoads \in Nat /\ MaxCalls \in Nat

ASSUME TagAssumption ==
  /\ None \notin Key /\ None \notin Unit /\ \A u \in Unit : InputKeys[u] # None
  /\ None \notin Schema /\ None \notin Load
  /\ Compiled \notin Load /\ Compiled \notin Origin
  /\ None \notin Origin /\ None # Compiled

ASSUME ManifestAssumption ==
  /\ WordOf \in [Key -> Word]
  /\ CompiledKey \subseteq Key
  /\ OriginOf \in [Unit -> Origin]
  /\ Served \in [Unit -> Seq(Key)]
  /\ Declared \in [Unit -> Seq(Key)]
  /\ Requires \in [Unit -> Seq(Requirement)]
  /\ SchemaOf \in [Unit -> Schema]
  /\ DefsOf \in [Schema -> SUBSET Def]
  /\ InputKeys \in [Unit -> SUBSET Key]
  /\ Spliceable \subseteq Unit
  /\ Unregistrable \subseteq Key
  /\ Local \subseteq Unit
  /\ BakedFor \in [Key -> Unit \cup {None}]
  /\ CanonicalRef \in [Key -> Unit \cup {None}]
  /\ StartUnits \in Seq(Unit)
  /\ Faults \subseteq {"connect", "scan", "config"}
  /\ SignalMayArrive \in BOOLEAN

VARIABLES
  byKey,     \* [Key -> Load \cup {None, Compiled}]: the activation whose provider serves a key
  origins,   \* [Key -> Origin \cup {None, Compiled}]
  closers,   \* activations whose connection Close() will shut down
  load,      \* [Load -> activation record]
  conn,      \* [Load -> {"none", "open", "closed"}]: the plugin child process
  sources,   \* committed schema sources, each with the identity that declared it
  defOwner,  \* [Def -> identity of the unit that declared it, or None]
  inputDef,  \* [Key -> Schema \cup {None}]: the def authored input is validated against
  inFlight,  \* [Key -> Unit \cup {None}]: requiresInFlight
  once,      \* builtinGateOnce: "new", "running", "done", or "broken" (done with an error)
  stack,     \* [Thread -> Seq(frame)]
  ret,       \* [Thread -> result of the last frame that returned, or None]
  calls,     \* [Thread -> 0..MaxCalls]
  host       \* "running", "signalled" (shutdown hook has run), "exited"

registry == <<byKey, origins, closers>>
schemas == <<sources, defOwner, inputDef>>
control == <<stack, ret>>
vars == <<byKey, origins, closers, load, conn, sources, defOwner, inputDef,
          inFlight, once, stack, ret, calls, host>>

-----------------------------------------------------------------------------
(* Frames, calls and returns *)

ConnectFrame(k, ref) == [kind |-> "connect", key |-> k, ref |-> ref, leg |-> "baked"]
ScanFrame(todo)      == [kind |-> "scan", gated |-> FALSE, todo |-> todo]
OnceFrame            == [kind |-> "once", next |-> 1]
UnitFrame(l)         == [kind |-> "unit", load |-> l]

Idle(t) == stack[t] = <<>>
Top(t) == Head(stack[t])
Below(t) == Tail(stack[t])

\* Goroutine t is about to run the next step of a frame of this kind.
At(t, kind) == /\ host # "exited"
               /\ ~Idle(t)
               /\ Top(t).kind = kind
               /\ ret[t] = None

\* A frame of this kind has just been returned to.
Resumes(t, kind) == /\ host # "exited"
                    /\ ~Idle(t)
                    /\ Top(t).kind = kind
                    /\ ret[t] # None

Replace(t, frame) == stack' = [stack EXCEPT ![t] = <<frame>> \o Below(t)]

\* The top frame becomes "frame" and calls "callee".
Call(t, frame, callee) ==
  /\ stack' = [stack EXCEPT ![t] = <<callee, frame>> \o Below(t)]
  /\ ret' = [ret EXCEPT ![t] = None]

Continue(t, frame) ==
  /\ Replace(t, frame)
  /\ ret' = [ret EXCEPT ![t] = None]

\* A connect returns the key it was asked for; every other frame returns key None.
Return(t, k, ok) ==
  /\ stack' = [stack EXCEPT ![t] = Below(t)]
  /\ ret' = [ret EXCEPT ![t] = [key |-> k, ok |-> ok]]

-----------------------------------------------------------------------------
(* Activations: one run of loadPluginUnit or of a requirement gate *)

Free == [unit |-> None, kind |-> "none", pc |-> "free", req |-> 1, reg |-> 1]

Fresh(l) == /\ load[l].pc = "free"
            /\ \A m \in Load : m < l => load[m].pc # "free"

Begin(l, u, kind, pc) ==
  load' = [load EXCEPT ![l] = [unit |-> u, kind |-> kind, pc |-> pc, req |-> 1, reg |-> 1]]

Advance(l, pc) == load' = [load EXCEPT ![l].pc = pc]

\* Goroutine t runs activation l, which is at pc.
Runs(t, l, pc) == At(t, "unit") /\ Top(t).load = l /\ load[l].pc = pc

UnitOf(l) == load[l].unit

\* The source a load's providers are registered under.
SourceOf(l) == OriginOf[UnitOf(l)]

Elems(seq) == {seq[i] : i \in DOMAIN seq}

\* The identities a gate marks in flight: the served ones for a connected unit,
\* the declared ones for a scanned candy that is already connected.
Own(l) == IF load[l].kind = "manifest" THEN Declared[UnitOf(l)] ELSE Served[UnitOf(l)]

Registered(k) == byKey[k] # None

\* An activation that fails closes its connection, if it has one.  Nothing refers to it any
\* more, unless a provider of it is registered; MaxLoads so bounds the loads alive at a time.
Fail(t, l) ==
  /\ Return(t, None, FALSE)
  /\ IF \E k \in Key : byKey[k] = l
       THEN /\ conn' = [conn EXCEPT ![l] = "closed"]
            /\ Advance(l, "failed")
       ELSE /\ conn' = [conn EXCEPT ![l] = "none"]
            /\ load' = [load EXCEPT ![l] = Free]

-----------------------------------------------------------------------------
(* connectPluginByWordRef: registry, baked binary, own closure, canonical ref *)

\* A host call that needs one identity (InvokeProvider, ensureDeployProviderConnected).
CallConnect(t, k) ==
  /\ host # "exited" /\ Idle(t) /\ calls[t] < MaxCalls
  /\ calls' = [calls EXCEPT ![t] = @ + 1]
  /\ stack' = [stack EXCEPT ![t] = <<ConnectFrame(k, CanonicalRef[k])>>]
  /\ ret' = [ret EXCEPT ![t] = None]
  /\ UNCHANGED <<registry, schemas, load, conn, inFlight, once, host>>

\* A resolve leg finds the identity.
Resolve(t) ==
  /\ At(t, "connect")
  /\ Top(t).leg \in {"baked", "afterOwn", "afterRef"}
  /\ Registered(Top(t).key)
  /\ Return(t, Top(t).key, TRUE)
  /\ UNCHANGED <<registry, schemas, load, conn, inFlight, once, calls, host>>

\* The identity is missing and a baked binary declares it.
ConnectBaked(t) ==
  /\ At(t, "connect") /\ Top(t).leg = "baked"
  /\ ~Registered(Top(t).key)
  /\ BakedFor[Top(t).key] # None
  /\ \E l \in Load :
       /\ Fresh(l)
       /\ Begin(l, BakedFor[Top(t).key], "binary", "connect")
       /\ Call(t, [Top(t) EXCEPT !.leg = "afterBaked"], UnitFrame(l))
  /\ UNCHANGED <<registry, schemas, conn, inFlight, once, calls, host>>

NoBaked(t) ==
  /\ At(t, "connect") /\ Top(t).leg = "baked"
  /\ ~Registered(Top(t).key)
  /\ BakedFor[Top(t).key] = None
  /\ Continue(t, [Top(t) EXCEPT !.leg = "own"])
  /\ UNCHANGED <<registry, schemas, load, conn, inFlight, once, calls, host>>

\* Only a baked load that succeeded is followed by a second lookup.
BakedDone(t) ==
  /\ Resumes(t, "connect") /\ Top(t).leg = "afterBaked"
  /\ IF ret[t].ok /\ Registered(Top(t).key)
       THEN Return(t, Top(t).key, TRUE)
       ELSE Continue(t, [Top(t) EXCEPT !.leg = "own"])
  /\ UNCHANGED <<registry, schemas, load, conn, inFlight, once, calls, host>>

\* The candies whose declared words meet the referenced ones; class is ignored.
Referenced(candies, words) ==
  {u \in candies : \E k \in Elems(Declared[u]) : WordOf[k] \in words}

PassCandies(frame) ==
  Referenced(IF frame.leg = "own" THEN Local ELSE Local \cup {frame.ref},
             {WordOf[frame.key]})

\* One pass of the two-pass scan.
Scan(t) ==
  /\ At(t, "connect") /\ Top(t).leg \in {"own", "ref"}
  /\ LET next == IF Top(t).leg = "own" THEN "afterOwn" ELSE "afterRef"
     IN  Call(t, [Top(t) EXCEPT !.leg = next], ScanFrame(PassCandies(Top(t))))
  /\ UNCHANGED <<registry, schemas, load, conn, inFlight, once, calls, host>>

\* A pass whose scan errors is skipped without a lookup.
ScanFails(t) ==
  /\ "scan" \in Faults
  /\ At(t, "connect") /\ Top(t).leg \in {"own", "ref"}
  /\ LET next == IF Top(t).leg = "own" /\ Top(t).ref # None THEN "ref" ELSE "afterRef"
     IN  Continue(t, [Top(t) EXCEPT !.leg = next])
  /\ UNCHANGED <<registry, schemas, load, conn, inFlight, once, calls, host>>

\* An error of loadProjectPlugins is only a warning here.
ScanReturned(t) ==
  /\ Resumes(t, "connect") /\ Top(t).leg \in {"afterOwn", "afterRef"}
  /\ Continue(t, Top(t))
  /\ UNCHANGED <<registry, schemas, load, conn, inFlight, once, calls, host>>

SecondPass(t) ==
  /\ At(t, "connect") /\ Top(t).leg = "afterOwn"
  /\ ~Registered(Top(t).key)
  /\ Continue(t, [Top(t) EXCEPT !.leg = IF Top(t).ref # None THEN "ref" ELSE "afterRef"])
  /\ UNCHANGED <<registry, schemas, load, conn, inFlight, once, calls, host>>

\* No leg found the identity, or the project's configuration does not load.
Missing(t) ==
  /\ At(t, "connect")
  /\ \/ Top(t).leg = "afterRef" /\ ~Registered(Top(t).key)
     \/ Top(t).leg = "own" /\ "config" \in Faults
  /\ Return(t, Top(t).key, FALSE)
  /\ UNCHANGED <<registry, schemas, load, conn, inFlight, once, calls, host>>

-----------------------------------------------------------------------------
(* loadProjectPlugins: the process-start gate, then the referenced candies in map order *)

\* A host call that loads every candy of the project that the given words reference.
CallLoad(t, words) ==
  /\ host # "exited" /\ Idle(t) /\ calls[t] < MaxCalls
  /\ calls' = [calls EXCEPT ![t] = @ + 1]
  /\ stack' = [stack EXCEPT ![t] = <<ScanFrame(Referenced(Local, words))>>]
  /\ ret' = [ret EXCEPT ![t] = None]
  /\ UNCHANGED <<registry, schemas, load, conn, inFlight, once, host>>

\* builtinGateOnce.Do: the first caller runs the gate, the others wait for it.
StartOnce(t) ==
  /\ At(t, "scan") /\ ~Top(t).gated
  /\ once = "new"
  /\ once' = "running"
  /\ Call(t, Top(t), OnceFrame)
  /\ UNCHANGED <<registry, schemas, load, conn, inFlight, calls, host>>

PassOnce(t) ==
  /\ At(t, "scan") /\ ~Top(t).gated
  /\ once \in {"done", "broken"}
  /\ IF once = "done" THEN Continue(t, [Top(t) EXCEPT !.gated = TRUE])
                      ELSE Return(t, None, FALSE)
  /\ UNCHANGED <<registry, schemas, load, conn, inFlight, once, calls, host>>

OnceReturned(t) ==
  /\ Resumes(t, "scan") /\ ~Top(t).gated
  /\ Continue(t, Top(t))
  /\ UNCHANGED <<registry, schemas, load, conn, inFlight, once, calls, host>>

\* loadBuiltinPluginUnits gates the compiled-in units one after the other.
GateStartUnit(t) ==
  /\ At(t, "once")
  /\ Top(t).next <= Len(StartUnits)
  /\ \E l \in Load :
       /\ Fresh(l)
       /\ Begin(l, StartUnits[Top(t).next], "compiled", "schema")
       /\ Call(t, Top(t), UnitFrame(l))
  /\ UNCHANGED <<registry, schemas, conn, inFlight, once, calls, host>>

StartUnitReturned(t) ==
  /\ Resumes(t, "once")
  /\ IF ret[t].ok
       THEN once' = once /\ Continue(t, [Top(t) EXCEPT !.next = @ + 1])
       ELSE once' = "broken" /\ Return(t, None, FALSE)
  /\ UNCHANGED <<registry, schemas, load, conn, inFlight, calls, host>>

OnceDone(t) ==
  /\ At(t, "once")
  /\ Top(t).next > Len(StartUnits)
  /\ once' = "done"
  /\ Return(t, None, TRUE)
  /\ UNCHANGED <<registry, schemas, load, conn, inFlight, calls, host>>

OriginsOf(u) == {origins[k] : k \in Elems(Declared[u])}

\* pluginAlreadyConnected: a declared word is served from another source ...
Collides(u) == OriginsOf(u) \ {None, Compiled, OriginOf[u]} # {}

AllCompiledIn(u) == OriginsOf(u) \subseteq {Compiled}   \* mutant: re-loads are not recognised

\* ... one is served from this source, or every one is compiled in.
Connected(u) == OriginOf[u] \in OriginsOf(u) \/ OriginsOf(u) \subseteq {Compiled}

\* One candy of the scan, in any order.
VisitCandy(t, u) ==
  /\ At(t, "scan") /\ Top(t).gated /\ u \in Top(t).todo
  /\ LET rest == [Top(t) EXCEPT !.todo = @ \ {u}]
         start(kind, pc) == \E l \in Load : /\ Fresh(l)
                                            /\ Begin(l, u, kind, pc)
                                            /\ Call(t, rest, UnitFrame(l))
     IN  \/ /\ Collides(u)
            /\ Return(t, None, FALSE)
            /\ UNCHANGED load
         \/ /\ ~Collides(u) /\ Connected(u)
            /\ IF Requires[u] = <<>> THEN Continue(t, rest) /\ UNCHANGED load
                                     ELSE start("manifest", "mark")
         \/ /\ ~Collides(u) /\ ~Connected(u)
            /\ start("binary", "connect")
  /\ UNCHANGED <<registry, schemas, conn, inFlight, once, calls, host>>

\* The first unit that fails ends the scan.
CandyReturned(t) ==
  /\ Resumes(t, "scan") /\ Top(t).gated
  /\ IF ret[t].ok THEN Continue(t, Top(t)) ELSE Return(t, None, FALSE)
  /\ UNCHANGED <<registry, schemas, load, conn, inFlight, once, calls, host>>

ScanDone(t) ==
  /\ At(t, "scan") /\ Top(t).gated /\ Top(t).todo = {}
  /\ Return(t, None, TRUE)
  /\ UNCHANGED <<registry, schemas, load, conn, inFlight, once, calls, host>>

-----------------------------------------------------------------------------
(* loadPluginUnit: connect, schema gate *)

\* The binary resolves and the child answers Describe.
Connect(t, l) ==
  /\ Runs(t, l, "connect")
  /\ conn' = [conn EXCEPT ![l] = "open"]
  /\ Advance(l, "schema")
  /\ UNCHANGED <<registry, schemas, inFlight, once, control, calls, host>>

\* No binary, or a failed connect, whose own teardown leaves no child behind.
ConnectFails(t, l) ==
  /\ "connect" \in Faults
  /\ Runs(t, l, "connect")
  /\ Fail(t, l)
  /\ UNCHANGED <<registry, schemas, inFlight, once, calls, host>>

\* unitSchemaIdentity: the declared input words, or the display name when there are none.
Identity(u) == IF InputKeys[u] = {} THEN u ELSE InputKeys[u]

Replay(u) == \E x \in sources : x.src = SchemaOf[u]

\* The def-name collision gate: declaration identity, never a value comparison.
NoClash(u) == FALSE   \* mutant: no collision gate

DefClash(u) == /\ ~Replay(u)
               /\ \E d \in DefsOf[SchemaOf[u]] : defOwner[d] \notin {None, Identity(u)}

\* What follows the requirement gate of an activation of this kind.
AfterGate(kind) == IF kind = "binary" THEN "register" ELSE "finish"

ForgetSource(u) == sources   \* mutant: an accepted schema is not added to the set

Committed(u) == IF Replay(u) THEN sources
                ELSE sources \cup {[src |-> SchemaOf[u], id |-> Identity(u)]}

SchemaGate(t, l) ==
  LET u == UnitOf(l) IN
  /\ Runs(t, l, "schema")
  /\ u \in Spliceable /\ ~DefClash(u)
  /\ sources' = Committed(u)
  /\ defOwner' = [d \in Def |-> IF d \in DefsOf[SchemaOf[u]] /\ defOwner[d] = None
                                THEN Identity(u) ELSE defOwner[d]]
  /\ inputDef' = [k \in Key |-> IF k \in InputKeys[u] THEN SchemaOf[u] ELSE inputDef[k]]
  /\ Advance(l, IF Requires[u] = <<>> THEN AfterGate(load[l].kind) ELSE "mark")
  /\ UNCHANGED <<registry, conn, inFlight, once, control, calls, host>>

SchemaRejected(t, l) ==
  /\ Runs(t, l, "schema")
  /\ UnitOf(l) \notin Spliceable \/ DefClash(UnitOf(l))
  /\ Fail(t, l)
  /\ UNCHANGED <<registry, schemas, inFlight, once, calls, host>>

-----------------------------------------------------------------------------
(* registerPluginRequires *)

\* Positions of this activation's own keys that another unit has in flight.
Conflicts(l) == {i \in DOMAIN Own(l) : inFlight[Own(l)[i]] \notin {None, UnitOf(l)}}

MarkKeys(keys, u) == inFlight' = [k \in Key |-> IF k \in keys THEN u ELSE inFlight[k]]

Mark(t, l) ==
  /\ Runs(t, l, "mark") /\ Conflicts(l) = {}
  /\ MarkKeys(Elems(Own(l)), UnitOf(l))
  /\ Advance(l, "gate")
  /\ UNCHANGED <<registry, schemas, conn, once, control, calls, host>>

\* The early return comes before the deferred cleanup: the keys marked so far stay marked.
MarkConflict(t, l) ==
  /\ Runs(t, l, "mark")
  /\ \E i \in Conflicts(l) :
       /\ \A j \in Conflicts(l) : i <= j
       /\ MarkKeys({Own(l)[j] : j \in 1 .. i - 1}, UnitOf(l))
  /\ Fail(t, l)
  /\ UNCHANGED <<registry, schemas, once, calls, host>>

Required(l) == Requires[UnitOf(l)][load[l].req]
NeverCyclic(l) == FALSE   \* mutant: a requirement in flight is connected like any other
Cyclic(l) == inFlight[Required(l).key] \notin {None, UnitOf(l)}

PassedEarly(l) == load[l].req >= Len(Requires[UnitOf(l)])   \* mutant: the last one is skipped
Passed(l) == load[l].req > Len(Requires[UnitOf(l)])

Gating(t, l) == Runs(t, l, "gate") /\ ~Passed(l)

UnmarkNothing(l) == UNCHANGED inFlight   \* mutant: no cleanup
\* The deferred cleanup deletes the keys whoever marked them.
Unmark(l) == MarkKeys(Elems(Own(l)), None)

RequirementCyclic(t, l) ==
  /\ Gating(t, l) /\ Cyclic(l)
  /\ Unmark(l)
  /\ Fail(t, l)
  /\ UNCHANGED <<registry, schemas, once, calls, host>>

RequirementServed(t, l) ==
  /\ Gating(t, l) /\ ~Cyclic(l)
  /\ Registered(Required(l).key)
  /\ load' = [load EXCEPT ![l].req = @ + 1]
  /\ UNCHANGED <<registry, schemas, conn, inFlight, once, control, calls, host>>

\* The requirement's own source is the ref of the connect, else the canonical one.
RequirementConnect(t, l) ==
  /\ Gating(t, l) /\ ~Cyclic(l)
  /\ ~Registered(Required(l).key)
  /\ Advance(l, "peer")
  /\ LET r == Required(l)
     IN  Call(t, Top(t), ConnectFrame(r.key, IF r.ref # None THEN r.ref ELSE CanonicalRef[r.key]))
  /\ UNCHANGED <<registry, schemas, conn, inFlight, once, calls, host>>

CarryOn(t, l) == TRUE   \* mutant: every requirement is optional
MayContinue(t, l) == ret[t].ok \/ Required(l).optional

PeerReturned(t, l) ==
  /\ Resumes(t, "unit") /\ Top(t).load = l /\ load[l].pc = "peer"
  /\ ret[t].key = Required(l).key
  /\ IF MayContinue(t, l)
       THEN /\ load' = [load EXCEPT ![l].pc = "gate", ![l].req = @ + 1]
            /\ Continue(t, Top(t))
            /\ UNCHANGED <<conn, inFlight>>
       ELSE Unmark(l) /\ Fail(t, l)
  /\ UNCHANGED <<registry, schemas, once, calls, host>>

GateDone(t, l) ==
  /\ Runs(t, l, "gate") /\ Passed(l)
  /\ Unmark(l)
  /\ Advance(l, AfterGate(load[l].kind))
  /\ UNCHANGED <<registry, schemas, conn, once, control, calls, host>>

\* A gate-only activation (a compiled-in unit, a connected candy) registers nothing.
Finish(t, l) ==
  /\ Runs(t, l, "finish")
  /\ load' = [load EXCEPT ![l] = Free]
  /\ Return(t, None, TRUE)
  /\ UNCHANGED <<registry, schemas, conn, inFlight, once, calls, host>>

-----------------------------------------------------------------------------
(* RegisterPluginProviders: one provider at a time, then the closer *)

\* mutant: the words are published while the requirements are still being resolved
RegisteringEarly(t, l) == /\ Runs(t, l, "register") \/ Runs(t, l, "gate")
                          /\ load[l].reg <= Len(Served[UnitOf(l)])
Registering(t, l) == Runs(t, l, "register") /\ load[l].reg <= Len(Served[UnitOf(l)])
NextProvider(l) == Served[UnitOf(l)][load[l].reg]

\* A compiled-in word stays in process, and the same origin again is no collision.
Coexists(l, k) == origins[k] \in {Compiled, SourceOf(l)}

Register(t, l) ==
  LET k == NextProvider(l) IN
  /\ Registering(t, l)
  /\ k \notin Unregistrable /\ ~Registered(k)
  /\ byKey' = [byKey EXCEPT ![k] = l]
  /\ origins' = [origins EXCEPT ![k] = SourceOf(l)]
  /\ load' = [load EXCEPT ![l].reg = @ + 1]
  /\ UNCHANGED <<closers, schemas, conn, inFlight, once, control, calls, host>>

RegisterNothing(t, l) ==
  LET k == NextProvider(l) IN
  /\ Registering(t, l)
  /\ k \notin Unregistrable /\ Registered(k) /\ Coexists(l, k)
  /\ load' = [load EXCEPT ![l].reg = @ + 1]
  /\ UNCHANGED <<registry, schemas, conn, inFlight, once, control, calls, host>>

\* The providers registered before the refused one stay in the registry.
RegisterRefused(t, l) ==
  LET k == NextProvider(l) IN
  /\ Registering(t, l)
  /\ k \in Unregistrable \/ (Registered(k) /\ ~Coexists(l, k))
  /\ Fail(t, l)
  /\ UNCHANGED <<registry, schemas, inFlight, once, calls, host>>

TrackNothing(t, l) ==   \* mutant: the connection is not handed to the registry
  /\ Runs(t, l, "register") /\ load[l].reg > Len(Served[UnitOf(l)])
  /\ Advance(l, "serving")
  /\ Return(t, None, TRUE)
  /\ UNCHANGED <<registry, schemas, conn, inFlight, once, calls, host>>

TrackCloser(t, l) ==
  /\ Runs(t, l, "register") /\ load[l].reg > Len(Served[UnitOf(l)])
  /\ closers' = closers \cup {l}
  /\ Advance(l, "serving")
  /\ Return(t, None, TRUE)
  /\ UNCHANGED <<byKey, origins, schemas, conn, inFlight, once, calls, host>>

-----------------------------------------------------------------------------
(* Registry.Close and the ways the process ends *)

Close ==
  /\ conn' = [l \in Load |-> IF l \in closers THEN "closed" ELSE conn[l]]
  /\ closers' = {}

\* main: dispatch has returned, reapPlugins runs, the process exits.
FinishDispatch ==
  /\ host = "running" /\ \A t \in Thread : Idle(t)
  /\ Close
  /\ host' = "exited"
  /\ UNCHANGED <<byKey, origins, schemas, load, inFlight, once, control, calls>>

\* The shutdown hook reaps on the signal goroutine while loads are still running ...
ShutdownHook ==
  /\ SignalMayArrive /\ host = "running"
  /\ Close
  /\ host' = "signalled"
  /\ UNCHANGED <<byKey, origins, schemas, load, inFlight, once, control, calls>>

\* ... and the process then exits wherever they are.
SignalExit ==
  /\ host = "signalled"
  /\ host' = "exited"
  /\ UNCHANGED <<registry, schemas, load, conn, inFlight, once, control, calls>>

-----------------------------------------------------------------------------
Init ==
  /\ byKey = [k \in Key |-> IF k \in CompiledKey THEN Compiled ELSE None]
  /\ origins = [k \in Key |-> IF k \in CompiledKey THEN Compiled ELSE None]
  /\ closers = {}
  /\ load = [l \in Load |-> Free]
  /\ conn = [l \in Load |-> "none"]
  /\ sources = {}
  /\ defOwner = [d \in Def |-> None]
  /\ inputDef = [k \in Key |-> None]
  /\ inFlight = [k \in Key |-> None]
  /\ once = "new"
  /\ stack = [t \in Thread |-> <<>>]
  /\ ret = [t \in Thread |-> None]
  /\ calls = [t \in Thread |-> 0]
  /\ host = "running"

HostCall(t) ==
  \/ \E k \in Key : CallConnect(t, k)
  \/ \E words \in SUBSET Word : CallLoad(t, words)

ConnectStep(t) ==
  \/ Resolve(t) \/ ConnectBaked(t) \/ NoBaked(t) \/ BakedDone(t)
  \/ Scan(t) \/ ScanFails(t) \/ ScanReturned(t) \/ SecondPass(t) \/ Missing(t)

ScanStep(t) ==
  \/ StartOnce(t) \/ PassOnce(t) \/ OnceReturned(t)
  \/ GateStartUnit(t) \/ StartUnitReturned(t) \/ OnceDone(t)
  \/ \E u \in Unit : VisitCandy(t, u)
  \/ CandyReturned(t) \/ ScanDone(t)

UnitStep(t, l) ==
  \/ Connect(t, l) \/ ConnectFails(t, l)
  \/ SchemaGate(t, l) \/ SchemaRejected(t, l)
  \/ Mark(t, l) \/ MarkConflict(t, l)
  \/ RequirementCyclic(t, l) \/ RequirementServed(t, l) \/ RequirementConnect(t, l)
  \/ PeerReturned(t, l) \/ GateDone(t, l) \/ Finish(t, l)
  \/ Register(t, l) \/ RegisterNothing(t, l) \/ RegisterRefused(t, l)
  \/ TrackCloser(t, l)

Step(t) == ConnectStep(t) \/ ScanStep(t) \/ \E l \in Load : UnitStep(t, l)

Next ==
  \/ \E t \in Thread : HostCall(t) \/ Step(t)
  \/ FinishDispatch \/ ShutdownHook \/ SignalExit

\* A goroutine that can run keeps running; nobody is obliged to call or to signal.
Spec == Init /\ [][Next]_vars /\ \A t \in Thread : WF_vars(Step(t))

-----------------------------------------------------------------------------
(* Properties *)

Pcs == {"free", "connect", "schema", "mark", "gate", "peer", "finish", "register",
        "serving", "failed"}
Kinds == {"none", "binary", "manifest", "compiled"}
Activation == [unit : Unit \cup {None}, kind : Kinds, pc : Pcs, req : Nat \ {0}, reg : Nat \ {0}]

Legs == {"baked", "afterBaked", "own", "afterOwn", "ref", "afterRef"}
ConnectFrames == [kind : {"connect"}, key : Key, ref : Unit \cup {None}, leg : Legs]
ScanFrames == [kind : {"scan"}, gated : BOOLEAN, todo : SUBSET (Unit \cup {None})]
OnceFrames == [kind : {"once"}, next : Nat \ {0}]
UnitFrames == [kind : {"unit"}, load : Load]
Frame == ConnectFrames \cup ScanFrames \cup OnceFrames \cup UnitFrames
Result == [key : Key \cup {None}, ok : BOOLEAN]

\* The state has the shapes the Go types give it, and every frame on a goroutine's stack has
\* the locals of its function.
TypeOK ==
  /\ byKey \in [Key -> Load \cup {None, Compiled}]
  /\ origins \in [Key -> Origin \cup {None, Compiled}]
  /\ closers \subseteq Load
  /\ load \in [Load -> Activation]
  /\ conn \in [Load -> {"none", "open", "closed"}]
  /\ inputDef \in [Key -> Schema \cup {None}]
  /\ inFlight \in [Key -> Unit \cup {None}]
  /\ once \in {"new", "running", "done", "broken"}
  /\ stack \in [Thread -> Seq(Frame)]
  /\ ret \in [Thread -> Result \cup {None}]
  /\ calls \in [Thread -> Nat]
  /\ host \in {"running", "signalled", "exited"}

\* The activation that serves an out-of-process identity, and its unit.
External(k) == byKey[k] \in Load
Server(k) == UnitOf(byKey[k])

\* A provider in the registry belongs to a unit that advertised it, is recorded under that
\* unit's source, and its schema, with a def for every typed input, is in the validated set:
\* no registration path bypasses the schema gate (registerPluginUnitSchema).
ServedThroughSchemaGate ==
  \A k \in Key : External(k) =>
    /\ k \in Elems(Served[Server(k)])
    /\ origins[k] = OriginOf[Server(k)]
    /\ \E x \in sources : x.src = SchemaOf[Server(k)]
    /\ \A j \in InputKeys[Server(k)] : inputDef[j] # None

\* An identity is served only once every mandatory requirement its unit declares is
\* registered, whichever way the peers were connected (registerPluginRequires runs before
\* RegisterPluginProviders).
RequirementsFirst ==
  \A k \in Key : External(k) =>
    \A r \in Elems(Requires[Server(k)]) : ~r.optional => Registered(r.key)

\* Two committed schema sources never declare the same definition on behalf of different
\* plugins: CUE would silently unify them (the def-name collision gate).
DefsUnambiguous ==
  \A x, y \in sources : DefsOf[x.src] \cap DefsOf[y.src] # {} => x.id = y.id

\* The mandatory requirements of a unit.
MustServe(u) == {r.key : r \in {q \in Elems(Requires[u]) : ~q.optional}}

Offers(u) == Elems(Served[u])

\* The unit behind an identity, whichever activation of it serves.
Owner == [k \in Key |-> IF External(k) THEN Server(k) ELSE byKey[k]]

Registry == INSTANCE CapabilityRegistry WITH Needs <- MustServe, owner <- Owner

\* The whole load path implements the one-step registry: every step of it claims one identity
\* for a unit that may have it, or changes no owner.
RegistryImplemented == Registry!Spec

OnStack(t, l) == \E i \in DOMAIN stack[t] : stack[t][i] = UnitFrame(l)

\* Every child process is in exactly one place: a load that is still running, or the closers
\* of the registry.  None leaks when a load fails, and none is closed twice.
ConnectionsAccounted ==
  \A l \in Load :
    IF l \in closers THEN conn[l] = "open" /\ ~\E t \in Thread : OnStack(t, l)
                     ELSE conn[l] = "open" => \E t \in Thread : OnStack(t, l)

\* The gate that marked a key in flight is at work, and will take the mark off.
MarkedBy(k, l) ==
  /\ load[l].pc \in {"gate", "peer"}
  /\ UnitOf(l) = inFlight[k] /\ k \in Elems(Own(l))

Orphaned(k) == inFlight[k] # None /\ ~\E l \in Load : MarkedBy(k, l)

\* The marks last "for the duration" of their gate (registerPluginRequires): whatever fails in
\* it or below it, no key stays in flight behind a gate that is over, where it would refuse
\* later loads for a cycle that is not there.  One way to leave a mark exists, the return on
\* another unit's mark, which comes before the cleanup is deferred.
MarksLeftByRefusal ==
  [][\A k \in Key : Orphaned(k)' /\ ~Orphaned(k) =>
       \E t \in Thread, l \in Load : MarkConflict(t, l)]_vars

\* What the comment of registerPluginRequires says without that way out.
MarksAreActive == \A k \in Key : ~Orphaned(k)

\* A source is connected once: a re-load on a later connect path spawns no second child
\* (pluginAlreadyConnected).
OneServerPerSource ==
  \A l, m \in Load :
    load[l].pc = "serving" /\ load[m].pc = "serving" /\ OriginOf[UnitOf(l)] = OriginOf[UnitOf(m)]
      => l = m

\* register refuses the provider activation l came to: it is not registrable, or another source has it.
RefusedAt(l) ==
  /\ load[l].pc = "failed" /\ load[l].reg <= Len(Served[UnitOf(l)])
  /\ NextProvider(l) \in Unregistrable
     \/ (Registered(NextProvider(l)) /\ ~Coexists(l, NextProvider(l)))

\* An identity in the registry is served over a live connection while the host runs, so that one
\* registered word proves its source loaded (pluginAlreadyConnected rests on it).  A dead one has
\* a single cause: register refused a later word of the same plugin, for good.
DeadWordsWereRefused ==
  host = "running" => \A k \in Key : External(k) =>
    conn[byKey[k]] = "open" \/ RefusedAt(byKey[k])

\* What the comments say: a unit's providers are connected atomically.
ServersAreLive ==
  host = "running" => \A k \in Key : External(k) => conn[byKey[k]] = "open"

\* Goroutine t waits for builtinGateOnce while it runs the gate itself, further down its stack:
\* a sync.Once is not reentrant, and t is parked for good.
ParkedOnOnce(t) ==
  /\ once = "running" /\ ~Idle(t)
  /\ Top(t).kind = "scan" /\ ~Top(t).gated
  /\ \E i \in DOMAIN stack[t] : stack[t][i].kind = "once"

\* Every host call comes back, with or without a provider: plugins that need each other are
\* refused as a cycle and not loaded inside one another without end, and no call waits for a
\* gate or a load that is over.  Only the goroutine of the start-up gate can park, on its own Once.
CallsReturn == \A t \in Thread : ~Idle(t) ~> (Idle(t) \/ host = "exited" \/ ParkedOnOnce(t))

=============================================================================
