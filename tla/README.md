# A TLA+ model of the charly host

`charly` is a host process with almost no verbs of its own. What it can do is provided by
*plugins*: some are compiled in, most are child processes that speak gRPC over go-plugin.
The kernel in `src/charly/` connects plugins on demand, checks what they declare, keeps the
registry of what they serve, dispatches calls to them, and serves the calls they make back.
This directory models that kernel, checks the models with TLC, and proves the parts that
matter most with TLAPS for every closure of plugins, every number of goroutines and every
depth of calls.

`PROJECT.json` lists components, runs, mutants, the line map from definitions to source,
hazards, findings and theorems. The rest of this file says how to read them.

## The system and its components

Paths are relative to `src/charly/` unless they begin with `src/`.

| Component | State | Operations | Correct when |
|---|---|---|---|
| Provider registry (`provider_registry.go`) | `byKey`, `byClass`, `origins`, `primaries`, `closers`, under one RW lock | `register`, `RegisterPluginProviders`, `resolve`, `registeredOrigin`, `Close` | an identity has one owner for good; every connection is closed once |
| Plugin loader (`plugin_loader.go`) | validated schema set, `builtinGateOnce` and its error, scope diagnostics | `loadBuiltinPluginUnits`, `loadProjectPlugins`, `connectPluginByWordRef`, `connectBakedPlugin`, `loadPluginUnit`, `registerPluginUnitSchema` | nothing is served past the schema gate; a source starts once; a load that fails leaves no process |
| Requirement gate (`plugin_requires.go`) | `requiresInFlight` | `registerPluginRequires`, `gateCandyRequires` | no plugin serves without its mandatory peers; cycles are found; marks do not outlive their gate |
| Process transport (`plugin_transport.go`, `plugin_connect_deadline.go`) | the child, its connection, the read deadline | connect and describe, bounded teardown | a connect ends; a failed one leaves nothing running |
| Idle guard (`plugin_activity.go`) | activity clock: wake channel, high-water of the process tree, watchdog per call | `touch`, `observe`, `idleBoundedContext`, heartbeats | a call is killed only when nothing happened for a window; a hung one is |
| Plugin-to-plugin calls, host builds (`plugin_dispatch_reverse.go`, `provider_invoke.go`) | contexts, deadlines, nested reverse servers | `InvokeProvider`, `HostBuild`, `invokeTyped` | a caller outlives its nested call and a nested call never its caller |
| Reverse legs and host steps (`plugin_executor_reverse.go`) | the venue (shell, container, guest) | run, put, get, stream, `RunHostStep` with reboot and service arms | a step's effect matches what it reports; a reboot is seen once |
| gRPC adapter (`plugin_grpc.go`, `plugin_inproc*.go`) | broker, reverse server of a call | `invokeWithReverse`, describe, serve | the reverse server stops with its call |
| Kind pre-scan and pre-pass (`plugin_prescan.go`, `provider_kind_invoke.go`, `loader_threaded.go`, `readiness_config.go`) | declared kind words, `inKindConnectPass`, retained causes, `readinessOnce` | scan for words, connect kinds before decoding, defer unserved nodes, parse a file threaded | a word is declared by one candy; a nested load defers instead of recursing; a failure is reported, and no longer once it is cured |
| Command dispatch (`provider_command_external.go`, `plugin_command_prescan.go`, `main.go`, `preflight_phase.go`) | declared command and kind words, the dispatch table, the working directory, connected plugins | complete the grammar, parse, enter the project, connect, run in the process, over a connection or as another program | the command parsed is the command run, on the project whose words were in the grammar, from the code an override asks for |
| Kind decode (`provider_kind_invoke.go`, `materialize.go`, `loader_threaded.go`, `embed_defaults.go`, `layers.go`) | the parse snapshot, the merged configuration | five decodes with their gates, folds of documents, discovered manifests and defaults | what is left under a name does not depend on the walk; nothing authored is lost |
| Deploy targets and lifecycle (`unified_targets.go`, `deploy_target_dispatch.go`, `deploy_add_cmd.go`, `update_deploy_dispatch.go`, `pod_lifecycle_verb.go`, `host_build_pod_lifecycle_dispatch.go`) | a target's executor and venue, made anew for each operation; claims on resources | add, del, rebuild, start, stop and attach, each one dispatch to the deploy plugin | a nested target acts on its parent's venue, and later operations on that of the add; the operator's machine is never rebooted |
| Overlay and image builds (`build_overlay.go`, `step_emit_hostbuild.go`, `image.go`) | overlay contexts, cached per project directory | base reference resolution, emit of a step, engine calls | a step is rendered with the context of its own deploy |
| Generator of the plugin tables (`internal/pluginsgen`) | the generated files in the tree | index the corpus, pin welded plugins, write the files | what is built is what the last run was asked for, in whatever state earlier runs left the tree |
| Check seams, GPU and credential clients, host builders | little | adapters and codecs | |
| Generated tables (`plugins_generated.go`, `plugins_refs_generated.go`), `src/tools`, `src/check` | none | build-time tools | |

They meet as follows. A command or a deploy needs a *capability identity* (`class:word`, with
a parent for nested ones). The host asks the registry; if nobody serves it, the loader looks
for a baked binary, then scans the project's candies, then the candy a canonical reference
names. Each candidate is *loaded*: its process is started, its schema goes through the
schema gate, its requirements through the requirement gate (which asks for further
identities and so recurses through the whole loader), and its providers are registered. A
call to a plugin then runs under an activity clock; the plugin may call back (run a shell
command on the host, build, or invoke another plugin), and every such leg heartbeats the
clock of the call it belongs to. At exit the process, or its signal hook, closes what the
registry tracks.

What is hard is in those seams: loads that nest inside loads, a `sync.Once` in the middle of
the recursion, process-global marks that are set and deleted by several frames, a schema set
that keeps what a failed load committed, closures scanned in map order, several goroutines
over one registry that is read, then written under another lock; and timers, heartbeats and
samples that are ready at once; venues, directories and tables that are worked out anew by
each operation from inputs that have changed since; and files, caches and claims an earlier or
an outer process left. The hazards in `PROJECT.json` name them line by line.

## Modules

| Module | What it is |
|---|---|
| `PluginLoader` | registry, schema gate, loader, requirement gate, start-up gate, shutdown |
| `CapabilityRegistry` | the abstract registry `PluginLoader` implements |
| `MCPluginLoader` | two small closures of plugins (Mesh, Duo) for TLC |
| `PluginLoaderProofs` | theorems about `PluginLoader` |
| `CallGuard` | nested calls, heartbeats, watchdog, cancellation and deadlines |
| `MCCallGuard` | windows and periods for TLC |
| `CallGuardProofs` | theorems about `CallGuard` |
| `KindConnect` | project loads, the pre-scan and pre-pass for kind words, the cached wait bounds |
| `MCKindConnect` | a project with a namespace, and another project, for TLC |
| `KindConnectProofs` | theorems about `KindConnect` |
| `HostStep` | the walk of a plan over plugins and the host, scripts and reboots of a guest |
| `MCHostStep` | a plan with a script of each scope, a reboot, and a step whose plugin reboots too, for TLC |
| `HostStepProofs` | theorems about `HostStep` |
| `PluginProcess` | one child process: connect, bounded teardown, and the reverse servers of its calls |
| `MCPluginProcess` | two calls for TLC; the theorems are in `CallGuardProofs`, the other module of a call's life |
| `DeployTarget` | operations on the deploy tree: venues, overlay contexts, claims |
| `MCDeployTarget`, `DeployTargetProofs` | a tree of ten nodes for TLC; theorems |
| `CommandDispatch` | one run of the binary, from its arguments to its exit |
| `MCCommandDispatch`, `CommandDispatchProofs` | five plugins, three directories and 108 command lines for TLC; theorems |
| `KindDecode` | the loads of one process, from parse snapshot to merged configuration |
| `MCKindDecode`, `KindDecodeProofs` | 21 projects for TLC; theorems |
| `PluginsGen` | runs of the generator over one tree |
| `MCPluginsGen`, `PluginsGenProofs` | four plugins, six configurations for TLC; theorems |

Three pairs overlap on purpose. A connect is one step that works or fails in `KindConnect` and
`CommandDispatch`, a sequence of gates in `PluginLoader`, and the life of a process in
`PluginProcess`. A dispatch to a deploy plugin is one step in `DeployTarget`, and in `HostStep` the walk
that it starts. A load is a recursion over boundaries in `KindConnect`, and in `KindDecode` what one
boundary's documents become.

### PluginLoader

The loader is recursive Go code, and its interleavings happen between its calls. `stack[t]`
is goroutine *t*'s chain of active frames, innermost first, and `ret[t]` what the last frame
that finished returned; an action is one stretch of code between two calls or two lock
acquisitions.

| State | Code |
|---|---|
| `stack`, `ret` | frames of `connectPluginByWordRef` ("connect", with the leg it is at), `loadProjectPlugins` ("scan", with the candies still to visit), `builtinGateOnce.Do` ("once"), `loadPluginUnit` and the gates ("unit") |
| `load[l]` | one activation of `loadPluginUnit`, of the gate of an already connected candy ("manifest") or of a compiled-in unit ("compiled"); `pc` is where it is, `req` and `reg` the loop indices over requirements and providers |
| `conn[l]` | the child process the activation started |
| `byKey`, `origins`, `closers` | the fields of `Registry`; `byKey` holds the activation that serves, so a re-load cannot pass for the first load |
| `sources`, `defOwner`, `inputDef` | the validated schema set and the input definitions |
| `inFlight` | `requiresInFlight` |
| `once` | `builtinGateOnce` with `builtinGateErr` |
| `host` | the process: running, its signal hook has run, gone |

The manifest side is constant: which unit advertises, declares and requires what, which is
baked, which source it has, which definitions its schema has. Building a binary, cloning a
source and parsing are outside; a connect, a scan and the reading of the configuration may
fail at any time (`Faults`). `Word` is separate from `Key` because the scan selects candies
by word and forgets the class. A frame that called and returns runs its own next step; a
deferred cleanup (the marks, the closing of the connection) is part of the step it runs in.

`CapabilityRegistry` has one action: a unit claims an identity it offers that nobody owns,
when everything it cannot do without is owned. `Registry == INSTANCE CapabilityRegistry WITH
owner <- Owner` maps an activation to its unit; `RegistryImplemented` is the abstract
specification as a property.

### CallGuard

A chain of at most `Depth` calls: the host dispatches call 1, the peer of call *c* makes call
*c + 1*. Which peers are compiled in (`inproc`) is chosen at the start.

| State | Code |
|---|---|
| `phase`, `cause`, `left` | the call, the cause its context was cancelled with, the time to its deadline |
| `leg`, `beat`, `fresh` | the leg the host runs for the peer, its heartbeat ticker, whether it has beaten |
| `watch`, `timer`, `poll`, `token` | the watchdog goroutine of `idleBoundedContext`, its timer, its sampling ticker, its one-element wake channel |
| `sum`, `seen` | the work the watched process tree shows, and the high-water the watchdog has of it |
| `idle` | history: time since something happened that the watchdog can see |

The watchdog is a `select` over four cases; when several are ready any of them is taken, and
it may take them late. A heartbeat is prompt: time does not pass a due one. A context that
carries a deadline gets no clock (`idleBoundedContext` returns it unchanged), so a capped
leaf call is bounded by its cap alone. A plugin process is a child of the host: the work of
any plugin shows in the tree of each compiled-in peer, and a child that exits takes its work
out of the sum, since the host's own counters are left out. A remote call returns when its
context is cancelled; a compiled-in peer that ignores its context does not.

### KindConnect

A project load meets entities whose kind a plugin serves that is not connected. At each
boundary of the load (its root file, then each namespace root) the host pre-scans the
declared kind words and runs a *pass*: load the project (twice, for its configuration and
for the scan), connect the candies that provide a missing word, then the baked binaries.
Each connect asks for the wait bounds, which are read once per process from yet another load.
The frames are as in `PluginLoader`, with the recursion load, pass, connect, bounds, load.

| State | Code |
|---|---|
| `stack`, `ret` | frames of `LoadUnified` ("load", with the boundary it is at and the entities to decode), `connectDeclaredKindPlugins` ("pass"), a connect, and `loadedReadiness` ("ready") |
| `registered` | the kind words `ResolveKind` answers |
| `declared`, `cause`, `passing` | `declaredKind`, `declaredKindConnectErr`, `inKindConnectPassFlag`; a cause is the boundary whose attempt failed, or `Silent` for "did not register during load" |
| `cached`, `loading` | `readinessOnce`, `readinessLoading` |
| `deferred`, `skipped` (of a load) | the entities it left out without a word, and with a warning that names a cause |

A connect is one step here that works or fails; `PluginLoader` has what happens inside. The
walk and the materializer are plugins outside the repository and are modelled from the seams
they call: the parse accepts the kinds of `loaderThreaded`, an entity the registry does not
serve is deferred when `InKindConnectPass` says so, and warned about with
`DeclaredKindConnectError` otherwise. The builtin start-up gate is not in this module.

### HostStep

A deploy is dispatched to the deploy plugin, which calls the plugin of the substrate, which
walks a plan and asks the host, over its reverse channel, for the steps it cannot run itself.
A step another plugin serves is a further call with a channel of its own, and that plugin may
send steps in turn. `stack` and `ret` are the chain of handlers and steps, as in the other
modules; the walk is sequential and only the guest acts on its own.

| State | Code |
|---|---|
| `stack`, `ret` | the deploy plugin ("fleet"), a handler behind a reverse server ("handler", with the `exec` and `rebootable` of its `executorReverseServer`, the steps it still sends and the reverse operations it has collected), the `OpStep` arm ("act"), `rebootVenueAndWait` ("reboot", with `oldBoot` and the polls left) |
| `boot`, `up`, `armed` | the venue: its `boot_id`, whether it answers, whether the backgrounded `sleep 1; reboot` is still to strike |
| `acts` | what each script ran as in this walk |
| `blind`, `expired` | history: reboots reported done without an old boot id, reboots given up |

`Channel` is the heart of it: a nested call inherits the caller's executor or the one a
descriptor names, and always the caller's leave to reboot. The six arms that go to a plugin
(builders, package installs, extraction, verbs, external kinds) are one action, since all end
in `invokeExternalStep` and differ in parameters. Steps of a plan are sent in any order.
Plugins are outside the repository and modelled from how the host uses them: a handler stops at
its first failed step, and the deploy plugin describes the guest it has prepared when it calls
the substrate of a target with a lifecycle. `HostKept` rests on the latter. Of dry runs only
the reboot's is there.

### PluginProcess

| State | Code |
|---|---|
| `host` | the goroutine that connects and later closes: the phases of `connectPluginWithRunner` ("start/handshake", "dispense", "describe", "protocol-gate"), ready, failing, closing |
| `child` | the process: answering, hung (alive, answers nothing), dead |
| `kill`, `grace` | the goroutine that runs `Client.Kill`, and the two graces of `boundedTeardown` |
| `broker` | the connection's broker; `Kill` closes it first |
| `call`, `accept`, `stored` | a call, its `AcceptAndServe` goroutine, and whether the callback has stored the server that the deferred function of `invokeWithReverse` stops |

Time is left out: a bound that runs may expire at any moment, so each race between an answer
and a bound is there. The child hangs or dies whenever it likes. The wording of errors and the
phase they name are left out; a read that the child itself ends with `DeadlineExceeded` is
reported as if the bound had struck, which the model does not distinguish either.

### DeployTarget

A venue is a sequence: the machine an executor runs on, then the guests and containers it
hops into. Every operation makes a target of its own and works the venue out from the node's
ancestors; nothing is remembered between processes.

| State | Code |
|---|---|
| `req` | one operation: what it is, its node, the executor folded so far (`exec`, with the ancestor at `hop`), the base of its overlay, and where it is |
| `venue` | history: the venues on which the plan of a node was applied; `acts` are those of the current operation |
| `cache`, `emitted` | `overlayBuildContextCache`, and the contexts this operation's steps were rendered with |
| `claims`, `session` | claims on shared resources, and the lease an outer charly announces in `CHARLY_PREEMPT_LEASE` |

`Hop` is one step of the fold over the ancestors (`deriveChildExecutorForPath`), `Exec` and `Wire` are the
executor the reverse server gets and the venue the request carries, from the two copies of the
parent override (`applyParentExecOverride`, `applyDelParentExec`). A node that has no member in its substrate (outside
`Bearing`), and one of a word core knows no hop for (transport "other"), hand the executor on as it is (`HandsOn`): the last
branch and the first of `deriveChildExecutorForPath`. The walk (parents first to add, last to
delete), the preparation of a guest and the bracket around a start are plugins', modelled from
the requests the host answers. Descriptors are assumed to describe every executor the fold
makes, so `Wire` is `Exec`; `venueJSONFor` returns none for an executor it cannot describe (`unified_targets.go:208-218`).

### CommandDispatch

A run goes through fixed phases: baked words, welded words, the pre-scan of the project, the
parse, the chdir, preflight, dispatch, exit. What a run is given (directory, environment,
flags, words) is one of `Invocations`; what plugins serve and projects declare is constant.

| State | Code |
|---|---|
| `cwd`, `scanned` | the working directory, and the one `prescanProjectCommandWords` read |
| `ids`, `kinds` | `declaredExternalCommand`, `declaredKind` |
| `leaf`, `cmd` | the path kong parsed, and the entry `resolveCommandDispatch` finds for it |
| `pass` | `connectDeclaredKindPlugins` during the dispatch: its directory and what is left to connect |
| `live`, `ran` | connected plugins with the bytes each was started from (an override's tree, baked, built); the handler that got the command and its lane |
| `failed`, `flaked` | history: something in a pass failed; a clone failed |

`PreParse` (the selectors before the parse, and again in the dispatch) and `Flagged` (after it) are two
readings of one command line; `SeesOneProject` is about their agreement. `OnTheWire` is the key a
plugin's server looks a call up by. A connect is all or nothing here. The exit code of a
handler is zero or not; `--host` re-execution and a `--repo` among the arguments passed through are
left out.

### KindDecode

A node is its kind, its name and what the checks tell apart (an unknown field, a missing one,
members, a field that is named like a kind).

| State | Code |
|---|---|
| `served`, `known`, `snap` | kinds with a provider; kinds whose input definition is registered, compiled-in and connected ones; of both, those whose fields the parse knew (`loaderThreaded`: structural kinds and deploy substrates) |
| `stage`, `at`, `node` | where the load is: boundary, parse, documents, discovered manifests, defaults, and the second discovery of `scanLocalCandies` |
| `sub`, `uf` | the accumulator of one document, and the merged configuration |
| `gate` | `builtinGateOnce`, which registers the schemas of the compiled-in kinds: not run, passed, broken half way |
| `left`, `late` | nodes nobody serves; history: kinds whose input definition was registered since the parse |

`Arm` is the chain of tests in `runPluginKind`; each arm has its own gates (the closed value check, the
input check, the deep validation, the refusal of members). Documents are merged under the root's,
discovered manifests are put straight into the configuration except layers, and of the
defaults only the plugin kinds are taken. Parser, walk and merge are the loader plugin's.

The start-up gate runs in front of the first decode of a node, or in front of a scan that has something to connect
(`Gate`, `Connect`), and is not run by the parse. So the first load of a process with nothing to connect parses before it,
and a compiled-in substrate's declared fields are not in its snapshot.

### PluginsGen

A plugin stands for its repository, its candy and its ref; a file is what it was rendered from.
`Begin` chooses what the tree and the flags say this time; `SkipRepo`, `IndexRepo`, `WeldLine` and `Entry` take one repository,
line or plugin each; the files are written one by one in the order of the code, and each
write, read or fetch may fail or be interrupted half way (`torn`). `Build` is the bootstrap's build, which
uses the files that are there. `binary` is what went into the last build. The guard that
restores or refuses a dirty tree (`check-generated-clean.sh`) is left out: it could only help.

## Runs

Passing runs explore every reachable state of the instance.

| Run | Instance | What it shows |
|---|---|---|
| `loader_mesh` | one goroutine, 2 host calls, 5 activations; `pod` and `tunnel` need each other, `tunnel` re-declares a def of `kube`'s, `kube` serves `pod`'s word beside its own, its baked copy a word `register` refuses, `pod` a word that is compiled in, a compiled-in unit is also a candy and has a peer, and the start-up unit needs a peer that is baked and scanned; connect, scan and config failures; a signal anywhere | schema gate and provenance hold on each way to load, no plugin serves without its peers, no source starts twice, marks and dead words are left by refusals only, every call returns |
| `loader_pair` | two goroutines, one call each, the same two-unit closure, 4 activations, connects that fail, a signal | the registry implements `CapabilityRegistry`, each live process is somebody's to close |
| `call_guard` | a call and the call its peer makes, windows 3 and 2, sampling periods 2 and 1, beat 1, cap 2, every placement of the peers | no kill without a silent window, a waiting caller is kept, a hung chain comes apart, nothing outlives a caller that was cut off |
| `kind_connect` | one goroutine, 2 calls, a project with a namespace and another project, words from a candy of each, from a baked binary, compiled in, and from nowhere; connect, scan and load failures | only nested loads defer, every warning has its cause, causes are kept over passes of other boundaries, the recursion ends |
| `host_step` | two walks of a plan with a script of each scope, a reboot, and a step whose plugin sends a script and a reboot; three kinds of target and a command; commands lost, boot ids unread, steps and plugins failing, guests that stay up | nothing runs on a guest that is about to go down, the operator's machine stays up, reverse operations match the scripts that ran, a wait for a reboot ends |
| `plugin_process` | one child, two calls | connects and closes end, leave no live child, and each reverse server ends with its connection |
| `deploy_target` | a guest with a pod and a member in the pod; a local root on another machine with a member of a word core does not know and one inside that; a local root with nothing in its substrate beside a cluster whose children are refused; a pod of its own; one directory | a member is where its parent is, but for the exception the property names, later operations meet the add's venue, overlays use their own context, an outer lease keeps its claim |
| `command_dispatch` | 12 ways to select a project, 9 command lines; five plugins: compiled in, front end with one word twice, baked and interactive, welded, kind-only; two of them overridden | one project, one command, the override's bytes, a host behind each plugin that serves a needed kind |
| `kind_decode` | two loads; projects with one name authored four ways, with shared directory names, and with each spoilt value for each decode; a pod, a connected and a compiled-in kind with a field named like a kind, and a kind without a schema; kinds that connect, and a gate that runs or breaks, at any time | the precedence of sources, members refused or kept, bodies read with their schema, a second discovery that keeps candies |
| `plugins_gen` | two runs; four plugins, of which the compiled-in ones vary, six configurations, seven sets of overrides, good and bad | the index names the owner, welded plugins are pinned, the binary is the one asked for |
| `find_nested_command` | as `command_dispatch` | a nested command of a connected plugin reaches the top-level command of the same word |
| `find_explicit_loses` | as `kind_decode` | a discovered box replaces the one a document spells out |

**Bounds.** `MaxLoads` bounds the activations *alive* at a time: one that failed and serves
nothing, or that was a gate only, is freed. The bound (5 and 4 in the two loader instances) is what the closures here can nest and
serve, so no behaviour is cut: with 6, `loader_mesh` has the same states. `MaxCalls` is 2 where a second call must meet what a first,
failed one left (marks, schemas, half-registered units), 1 with two goroutines, where the
other goroutine plays that part. The units of `loader_mesh` are the fewest that have each relation two plugins can have at
once: a cycle, a shared word, a shared source, a shared definition, a word refused for good and a peer of the start-up gate. `Depth` is 2 in the runs: each rule relates a call to the one it
nests, and the proofs are for any depth. The windows exceed the beat by more than one unit, so
that a leg can begin before, at and after a deadline; `Cap` is below one of the windows;
`MaxWork` 1 lets a tree advance, be reaped, and advance again. `kind_connect` makes two calls, so
that the second meets the causes, registrations and cached bounds of the first; of its three
directories one is a namespace of another, because the causes of one boundary must survive
the pass of the next; there is a word for each way to be served, and one for none. Its instance
assumes that the pre-scan of a boundary declares the kinds its own documents use, and leaves
out a pre-scan whose fetch fails and works later. `host_step` makes two walks, so that the
second meets a guest the first left going down; two polls, so that one can see the old boot id
and the next the new one or nothing; and its plan nests one plugin in another, so that venue,
leave and reverse operations pass through two channels. `plugin_process` has two calls, so that one
can be late while the other is answered; they meet in the broker only. The tree of
`deploy_target` is three deep, the least at which a hop taken twice or left out differs from one taken
once; it has two pods in one directory for the cache. `command_dispatch` is one process and has no bound but
its constants. `MaxLoads` of `kind_decode` is 2: the second load meets what the first connected. `MaxRuns` of
`plugins_gen` is 2: the second run meets the files of the first, stopped at any point, and a third
could meet no others, since each run writes or removes the same files in the same order.

**Deadlock.** The loader runs say `CHECK_DEADLOCK FALSE`: the process exits, and nothing
happens after that; so do those of `KindConnect`, `HostStep`, `PluginProcess` and `DeployTarget`, whose calls, walks
and processes are bounded. A goroutine that
parks for ever is found by `CallsReturn` and `CallsAnswered`. `call_guard` checks
deadlock: there a new call can always be dispatched or a running one does something. `CommandDispatch`, `KindDecode` and
`PluginsGen` have an explicit step for a process that is over, and are checked for deadlock.

**One goroutine only.** `OneServerPerSource` is checked for one goroutine. With two, the code does not promise it: both may
find a source absent and start it. `ConnectionsAccounted` and `RegistryImplemented`, which hold in all cases, are checked with two.
The marks need no such condition: `MarksLeftByRefusal` says which step leaves one, whoever runs beside it, and is proved for any
number of goroutines, as is `DeadWordsWereRefused`. One goroutine alone does not make `OneServerPerSource` true of every closure: a candy whose
closure leads back to it may be loaded inside its own load; the theorem names the condition.

In `KindConnect`, `NoSilentDrop`, `PassGuarded` and `SkipsHaveCause` hold for one goroutine and fail for two, for
one reason: the flag that tells a nested load from an outer one is a variable of the
process, set by whoever starts a pass and cleared by whoever ends one. `CauseKept` holds for
any number of goroutines.

## Fairness

`PluginLoader`: weak fairness of each goroutine's steps. The Go scheduler runs a goroutine
that can run, and a step that waits (`StartOnce` behind another goroutine) is not enabled.
Nobody must call or signal; a connect that hangs is ended by its read deadline, which is the
step `ConnectFails`.

`CallGuard`: weak fairness of time, of heartbeats and of the watchdog's cases, of the
cancellation that a context hands down, and of the return of a *remote* call whose context
was cancelled (gRPC returns at once). Nobody is obliged to answer, to end a leg, or, when
compiled in, to look at its context. So `HungChainUnwinds` is stated for chains of plugin
processes and excludes host work that never ends; the code gives no guarantee for the rest.

`KindConnect`: weak fairness of each goroutine's steps, as in `PluginLoader`; a goroutine that
waits for `readinessOnce` behind another is not enabled.

`HostStep`: weak fairness of the polling (`PollStep`), and of nothing else. `PollUntil` looks again and again up to its
cap, under a context that ends with it. The boot id read and the reboot command before it (`CommandStep`,
`plugin_executor_reverse.go:435, 442`) run on a context without a deadline, which the leg itself heartbeats: a guest that hangs
there never ends the step, so `PollingEnds` begins where the polling does. Neither the guest nor a plugin owes an answer.

`PluginProcess`: weak fairness of the host's own steps: the start-up timeout of go-plugin, the read
bound, the graces, the goroutines that close the broker and serve on it. The child owes nothing;
`Client.Kill` and a call need not return, and nobody need close.

The other modules have safety properties only, and no fairness.

## Where code and comments disagree

**Shown by a run.** `find_nested_command`: a command's parent is "load-bearing at dispatch, not
decoration" (`provider_command_external.go:30-34`), and an `OpRun` handler "behaves identically in either placement"
(`plugin_grpc.go:430`). The call that carries a reverse channel does not send the parent
(`plugin_grpc.go:484-487`, plain `Invoke` does), so the server looks up the top-level command of that word.
`NestedReached` fails; `ParsedIsRun` is the rule that holds. The channel lookup (`plugin_grpc.go:127`) and the
describe of the served set leave the parent out too.

`find_explicit_loses`: "an explicit map entry always wins over a discovered one" (`loader_threaded.go:442`).
`materializeDiscoveredNode` looks for an existing entry in its branch of layer candies only (`materialize.go:79-81`); any other
discovered entity is decoded into the configuration (91) over what a document put there. `ExplicitEntryWins` fails;
`ResultByPrecedence`, which says what a slot can hold, does not say which of the two wins.

**Definitions kept, no run.** Each of these is a definition a cfg can list as INVARIANT to get the
counterexample.

- *A unit registers as a whole* (`plugin_loader.go:1346-1348`): `RegisterPluginProviders` stops at the first refused
  word and keeps the earlier ones, and the caller kills the process. `ServersAreLive`, in the cfg of
  `loader_mesh`; `DeadWordsWereRefused` is the rule that holds.
- *The marks last for the gate* (`plugin_requires.go:150-168`): a gate that has set marks of its own and meets another's returns
  before its cleanup is deferred, and leaves them. `MarksAreActive`, in the cfg of `loader_mesh`; `MarksLeftByRefusal` is the rule that holds.
- *Never a silent drop; the nested load defers* (`plugin_prescan.go:224-229`): any load on any goroutine
  defers while some pass runs, although loads are not serialised. `NoSilentDrop`, with two threads in the cfg of `kind_connect`.
- *The still-up sshd cannot be mistaken for a rebooted one* (`plugin_executor_reverse.go:422-424`): it is, when
  the first reading of the boot id fails, which nobody looks at (435, 457). `RebootsAreAwaited`, in the cfg of `host_step`;
  `NothingRunsIntoReboot` is the rule for every reboot that knew the old id.
- *The reverse server stops when the Invoke returns* (`plugin_grpc.go:405-406, 444-445`): a call that
  returns before the broker's goroutine has stored the server stops nothing. `ServerEndsWithCall`, in the cfg of
  `plugin_process`; `ServersEndWithConnection` is the rule that holds.
- *A member runs inside its parent* (`deploy_add_cmd.go:24-34`): a member of a `local` root with `host: user@m` is
  applied on the operator's machine, since a nil parent becomes the local shell; and under a word core knows no hop for, a member with a
  `host:` of its own is applied there. `AlwaysJoinParent`, in the cfg of `deploy_target`; `MembersJoinParent` is the rule with
  that exception (`Misses`).

**Met while modelling.** Loader: a compiled-in unit with an optional requirement that only a candy serves
re-enters the start-up gate's own `Once` and parks; two candies with one word in two classes make
the scan load the requiring unit inside its own load, although a requirement that resolves
back is said to be a cycle, not a recursion. Guard: a leg younger than a beat does not protect
its call, although the header of `plugin_activity.go` says each leg does for its duration; a compiled-in peer that
ignores its cancelled context never returns. Steps: a script with system scope runs as the user first, and only
the second outcome counts; the leave to reboot is called that of a virtual machine, while the
dispatch gives it to every target with a lifecycle, pods included.

Deploys: `update_deploy_dispatch.go:77-92` says kubernetes "deliberately falls out here", but every `pluginDeployTarget` is a
`LifecycleTarget`; a rebuild gets no parent override (updates name roots only); emits with an empty
directory miss the cache, so each fails for want of a context.

Commands: a relative `-C` or `CHARLY_PROJECT_DIR` is resolved again after the chdir (`dispatchCommand`); the environment
beats `-C` before the parse and `-C` the environment after it; a `-C` after the command word, meant for the plugin, is taken by
the pre-scan (`Plain` in `SeesOneProject` excludes these); the exit code of a command that runs in a child is 1 whatever the
handler said; parents other than `box` are in the table and never in the grammar; the baked leg of a
pass connects an overridden plugin's baked binary when the override's build failed; the welded leg takes any
candy of the project that declares the word, in map order.

Decode: of two layer directories with one base name the second is dropped in silence; the snapshot that keeps a pod's `iterate:` from being
read as members (`loader_threaded.go:256-264`) lacks the compiled-in substrates in the first load of a process with nothing to
connect, because the gate that registers them has not run (`ReadUnderSchema` names the case); a flat kind's `OpLoad` runs before its members are
refused; embedded defaults of the typed maps are not taken.

Generator: two external plugins with one word are "a hard error" (`main.go:154-157`) unless a
compiled-in owner comes before both; within one repository the last declaration in map order wins;
`generate` is said not to write and writes the sibling; a run that fails leaves a stale
`go.work.dev`, which `BinaryAsAsked` shows to be harmless for later builds; an override of a plugin that is
not compiled in is accepted, although the doc of `resolveDevPlugins` says it must be; a baked plugin whose only word a
compiled-in one owns fails the run, although the generated comment says such words are listed;
a repository that cannot be fetched shrinks the index without failing the run.

## Proofs

The theorems hold for every value of the constants that satisfies the assumptions: any units,
identities, requirements and goroutines for the loader; any depth, windows and periods for
the guard. `SizeAssumption`, `TagAssumption` and `ManifestAssumption` say that bounds are
numbers, that the tags `None` and `Compiled` are none of the values they stand beside, and
that the manifest functions have their types; no well-formedness of a closure is assumed (it
may be cyclic, its names may collide, it may advertise what it does not declare), except by the theorems below that
state a hypothesis.
`BeatAssumption` says that the beat is shorter than each window: the code takes a fourth of
the shortest. TLC evaluates them in the runs.

**Loader** (`PluginLoaderProofs`). None of the properties is inductive. That a served
identity has passed the schema gate depends on the activation having reached
"register" by way of `SchemaGate`; that its requirements are there depends on the loop
position, on honest return values through any depth of frames, and on the registry only
growing. The invariant is

    IInv == TypeOK /\ HonestResults /\ LoadsNamed /\ ProvidersPlaced /\ Progress /\ DefsOwned

`HonestResults`: a connect that reports success names a registered key. `LoadsNamed`: an
activation in use has a unit. `ProvidersPlaced`: an activation that serves an identity got as
far as registering it, and its unit advertised it under its own source. `Progress`: past the
schema gate the schema is committed; at requirement *n* all before it are met. `DefsOwned`:
each committed source is the owner of its definitions. It gives `TypeOK`,
`ServedThroughSchemaGate`, `RequirementsFirst`, `DefsUnambiguous`, and with it each step is a claim of the abstract registry or a stutter
(`RegistryImplemented`). `ConnectionsAccounted` needs a second invariant, `Held`, of each activation: it is in at most one
frame of all stacks, and is running when it is in one; while it runs it has a live process exactly when it is a binary's and past its
connect; the reaper's list holds live processes of finished loads only; and a live process is on that list or in a frame.

*Dead words.* `OneCauseOfDeadWords`: what resolves to a dead process was left by a registration that a later word of the same
plugin cut short. `Held` says who kills a process; `Refusals`, that a load which failed at "register" stands before a word it may not
register; `Tracked`, that a load which registered all its words is on the reaper's list until the shutdown.

*Marks.* `MarksEndWithGate`, for any goroutines and any closure: a mark whose gate is not at work any more was left by a gate that was
refused over another's mark in that very step, after it had set some of its own. Each action but that refusal keeps a
mark with its gate or takes it back (`NextMarks`).

*Servers.* `ServerInv` says that an origin is recorded for registered identities only (`Recorded`), that the identities a load has
been through are registered under its source or compiled in (`Sourced`), and that a load that is at work found none of its
source's before it (`NotYet`). The rule of the code is that one registered word proves a source connected; hence the hypotheses
`CopiesAlike` (copies of a source declare and serve the same), `WordProves` (some declared word that charly does not serve itself
is one the plugin registers) and `BakedServes` (a baked binary serves the words it is found by). It is kept as long as no two
loads of one source overlap. Nothing in the code serialises the loads of two goroutines, so the theorem is about one.

*One goroutine.* `OneGoroutineServesOnce` (`OneServerPerSource`) and `OneGoroutineMarks` (`MarksAreActive`) have a condition on the closure,
`Descends(rank)`: it is not cyclic. What a requirement can reach, by the resolver's two legs and both passes of a scan, ranks lower than
who requires it, copies rank alike, and the units the start-up gate connects rank below the baked ones with requirements, since the gate runs inside
whichever scan comes first. `NestedInv` carries it through the recursion, for any number of goroutines: whatever a frame may
still start ranks below every load it is nested in, those loads wait at a requirement, and before the gate has run only baked units
were loaded (`OrderedInv`, `BeforeGate`). So two loads at work on one goroutine have different ranks, hence different sources. For the
marks `SharedAlike` is needed too: plugins with requirements that share an identity rank alike, as copies do. Two candies with one word in two
classes are a closure that does not descend. The closure of `loader_pair` satisfies all hypotheses, with rank 0 for `tunnel` and 1
for `pod`, on one goroutine. That of `loader_mesh` is cyclic, and there `OneServerPerSource` is model-checked only.

**Guard** (`CallGuardProofs`). `IInv` is `TypeOK` and, for each call: `Confirmed` (a watched
clock for which nothing is pending has counted a window, or will have when its timer
expires), `HighWater` (the high-water never exceeds a remote peer's sum, which is why the
comparison with it hides no work), `Beating` (a leg that has beaten keeps the clock younger
than a beat), `Watched` (a watchdog belongs to a call without a deadline). It gives
`KilledOnlyWhenIdle` and `CallerOutlivesNested`.

**Kinds** (`KindConnectProofs`). `TypeOK` and `CauseKept` are proved for any number of
goroutines, `PassGuarded` and `NoSilentDrop` under the assumption `Thread = {only}`, without
which they are false. Neither of the two is inductive, because the flag is read in one step and
set in a later one, with a recursion of loads around it. `Disciplined(stack, passing)` is: a
stack has at most one pass and has one exactly when the flag is up; what deferred is above
that pass; a load that has called somebody waits at "parse"; a load about to start a pass is
in none. Each action is one of three moves of the stack (`Goes`, `Calls`, `Returns`), and three
lemmas about sequences show that each keeps the discipline. `ProjectAssumption` gives the types of the
constants and says that a project has at least one boundary.

`SkipsHaveCause` (`EverySkipHasACause`, one goroutine) says what every pass of a load left behind. A word is `Told` when it is registered or has a
retained cause. `Sound` says that a pass about to end has told of all it was started for; that what an outer load has parsed is
told of; and that what it is about to parse is told of or is `Owed` by the pass it waits for, the frame just above it.
A cause goes only when its word is registered, so `Told` only grows. The theorem has a hypothesis, `OwnKindsDeclared`: a kind that some project's
plugins declare and another project's documents use is declared by that project too, or baked. It is
needed. The bounds a connect waits for are read by a load of the host's own project, which happens inside the pass and may declare
further words after the pass has worked out what to connect; the parse that follows then accepts entities of a kind that no
pass was told of. With one such kind in the second project TLC finds `SkipsHaveCause` violated.

**Walks** (`HostStepProofs`). All safety properties of `HostStep` are proved, for any plan, depth of
plugins, number of walks and polls. `IInv == TypeOK /\ Orderly(stack)`: the outermost frame is
the deploy's or the command's, each handler has its leave to reboot, one with leave
works on the guest, so does a reboot, and a script at "system" has system scope. It gives
`HostKept` and `NoRebootUnasked`. `ReverseComplete` needs `Accounted`, which says of the middle
of a walk what the property says of its end: what is collected ran, and unless the last reply
is a failure, what ran is collected somewhere on the stack or in that reply.
`NothingRunsIntoReboot` needs `Callers` (below the top are handlers only, so a return never
uncovers a reboot half done) and `Awaited`: a guest that is going is polled for, and while its
reboot is pending its boot id is still the one the step read. Lemmas about sequences show
what the four moves of the control (`Call`, `Continue`, `Answer`, `Return`) do to each of these.
`PlanAssumption` gives the constants their types, and says that the kinds of steps are
disjoint and that `None` is neither a venue nor a reply.

**Processes** (`CallGuardProofs`). `Reaping`, a few lines over the phases of the teardown, gives
`ChildReaped`: when the host leaves a teardown either `Kill` returned, and the child is gone, or the second grace
elapsed, and the force came before it.

**Deploys** (`DeployTargetProofs`). `ClaimHeldForSession` and `EmitsOwnContext` hold for any tree; the latter needs that the entry
of the directory is the current deploy's once its base is known. `StaysWhereAdded` and
`MembersJoinParent` are proved under two assumptions that are hypotheses of the theorems and not of the module, and that the instance
meets: `HopsWhenPrepared` (a word prepares a venue exactly when its children are reached by a hop) and `GroupsOnTop` (a node with
members beside it only is a root, or lies under ancestors that all hand their executor on). Where roots are hosted is free. `VenueInv` says that each deployed node is on exactly one venue, the one `Due` makes of
its parent's; that the walk's order holds (ancestors of a node added are deployed, no child of one deleted is); and that the
executor folded so far is the venue of the last ancestor hopped over. The induction over depth is in the fold: one
hop at a time.

**Commands** (`CommandDispatchProofs`). `ReapedOnExit`; `OneDirectory`, from an invariant that says at which phases the working
directory is still the caller's and at which it is the target of the selectors, and that each
evaluation gives that target; `CommandParsedIsRun`, from the injectivity of `Key` and of dropping the last token (no
command of the CLI struct lies below a plugin's command, `IdentityAssumption`); `OverriddenFromTree`, from an invariant that says
what a pass without failure has connected at each leg. `HostBehindCommand` joins what is known to what is connected: `Learnt` says that
the known kinds are those of the baked manifests and of the scanned project, `HostInv` that a pass without failure leaves none of
them unserved, and that only then a command goes to the exec lane. `ManifestAssumption` says that the `.providers` manifest of a baked
binary lists all the plugin provides, as the generator writes it.

**Generator** (`PluginsGenProofs`). `IInv` says which files are this run's at each stage: the sibling after it is written, then the
registrations, then the dev workspace or its absence, and that the registrations cover the compiled-in
plugins. `SortAssumption` says that a sort lists the members of its set, each once;
`MarksAreApart`, that a file that is absent is not one rendered from overrides. `IInv` gives `BinaryAsAsked` and
`NothingLocalLeft` for any number of runs, each stopped anywhere. `IndexInv` says of the repositories read so far what
`IndexNamesOwner` says of all of them: the index is already the one that would result if no further repository came, no
repository is read twice, and no compiled-in one is passed over. `OwnerOfMore` is the step: one more
repository adds at most one owner to a word, and two owners of the same standing are a clash. Of the baked lines read so far it
says what `WeldedPinned` says of all: a pin, once given, is never moved.

**Decode** (`KindDecodeProofs`). `WordInv` says which kinds are connected, with which schema and snapshot, that a
field that strayed was unknown to the snapshot of its parse and for one of the causes `ReadUnderSchema` names, and that an
entry with members is of a kind that carries them; it gives `MembersCarried` and `ReadUnderSchema`. `ResultByPrecedence` and
`RescanKeepsCandies` compare the end of a load with folds over all its documents, so `FoldInv` says of what has been
read so far what they say of all: each slot is what the documents, layers and discovered manifests up to here decide
(`Folds`, `Merged`, `Folded`), what is still `Unread` is in no slot, and a node left out on the way is left out of both sides.
The kinds connected between two steps only add to what later steps accept. `PlaceAssumption` says that a node is authored in one
place, in one document, one manifest or the defaults: nodes stand for positions in files, and without it an entry would not tell
which of two places it came from.

**Only model-checked.** Liveness (`CallsReturn`, `HungChainUnwinds`, `NoCallOutlivesCaller`, `CallsAnswered`, `PollingEnds`,
`AttemptsEnd`, `ServersEndWithConnection`) is out of the prover's reach, as is anything with `ENABLED`. Every safety property of
a passing run is stated by a theorem; those whose theorem has a hypothesis are named above with it.

The types of the state (`TypeOK`, `ProcessTypeOK`) are proved for all nine models, and so are not in the runs.

## Not modelled

The component list in `PROJECT.json` gives a status and a reason for each part. The plugins
themselves, the SDK and the schema language are not part of `src/charly`; what crosses their
boundary (serve these words, require those, answer or not) is a constant or a free choice.
The check engine's seams, the GPU and credential clients and most host builders are codecs over
functions of other components. Wording of reports, parsing of `/proc`, marshalling, rendering of
files and image builds by external engines are left out, as are the offline tools under `src/tools` and
`src/check`, which run once over their input and keep nothing.

## Plan

1. The lock order of `readinessOnce` and `builtinGateOnce`: a module that composes the recursion
   of `KindConnect` with the start-up gate of `PluginLoader`.
2. `DeployTarget` composed with `HostStep`: the reboots of a walk against the venue of a nested target.
3. A registry channel of a handler without a venue, which a process does not get and a
   compiled-in peer does (`plugin_grpc.go:415`).

Proofs: every safety property of a passing run is stated by a theorem. What is left is to weaken hypotheses: `Descends` (to the
cyclic closures in which no plugin is loaded inside its own load), `OwnKindsDeclared` (the kinds of the namespaces a
project imports would do), and to carry `NestedInv` over to the composition of item 1, where what waits for a lock
must rank above what holds it.
