----------------------------- MODULE KindConnect -----------------------------
(***************************************************************************)
(* Loading a project whose entities have kinds that plugins serve: the     *)
(* pre-scan of declared words and the pre-pass that connects them          *)
(* (plugin_prescan.go), the seams the walk and the materializer call       *)
(* (loader_threaded.go, materialize.go), and the readiness bounds every    *)
(* connect needs, which are read from a load of their own                  *)
(* (readiness_config.go).                                                  *)
(*                                                                         *)
(* The pre-pass loads the project it is part of, twice, and each connect   *)
(* may load it once more.  stack[t] is goroutine t's chain of frames,      *)
(* innermost first, and ret[t] what the last frame that finished returned. *)
(***************************************************************************)
EXTENDS Naturals, Sequences

CONSTANTS
  Thread,      \* goroutines that load projects
  MaxCalls,    \* bound: host calls one goroutine makes
  Dir, Root,   \* project directories, and the one the process runs in
  Word,        \* kind words
  None,
  Silent,      \* the cause "did not register during load"
  CompiledIn,  \* words served from the start
  Baked,       \* words a binary beside charly serves, declared from the start
  Bounds,      \* [Dir -> Seq(Dir)]: the root file and the namespace roots its walk visits
  Nodes,       \* [Dir -> SUBSET Word]: the kinds of the entities its documents hold
  Declares,    \* [Dir -> SUBSET Word]: what the pre-scan of that boundary learns
  Provides,    \* [Dir -> SUBSET Word]: words of the candies a scan of that project finds
  Faults       \* environment failures that may happen

ASSUME ProjectAssumption ==
  /\ MaxCalls \in Nat /\ Root \in Dir
  /\ None \notin Dir \cup Word /\ Silent \notin Dir /\ Silent # None
  /\ \A outcome \in [ok : BOOLEAN] : outcome # None
  /\ CompiledIn \subseteq Word /\ Baked \subseteq Word
  /\ Bounds \in [Dir -> Seq(Dir) \ {<<>>}]
  /\ Nodes \in [Dir -> SUBSET Word] /\ Declares \in [Dir -> SUBSET Word]
  /\ Provides \in [Dir -> SUBSET Word]
  /\ Faults \subseteq {"connect", "load", "scan"}

VARIABLES
  registered,  \* kind words the provider registry serves
  declared,    \* declaredKind
  cause,       \* declaredKindConnectErr: [Word -> the boundary whose attempt failed, Silent or None]
  passing,     \* inKindConnectPassFlag
  cached,      \* readinessOnce: "new", "running", "done"
  loading,     \* readinessLoading
  stack, ret, calls

words == <<registered, declared, cause>>
readiness == <<cached, loading>>
vars == <<words, passing, readiness, stack, ret, calls>>

-----------------------------------------------------------------------------
(* Frames *)

LoadFrame(p) == [kind |-> "load", dir |-> p, at |-> 1, pc |-> "prescan",
                 todo |-> {}, node |-> None, deferred |-> {}, skipped |-> {}]
PassFrame(d, need) == [kind |-> "pass", dir |-> d, need |-> need, pc |-> "config", todo |-> {}]
ConnectFrame(w) == [kind |-> "connect", word |-> w, ready |-> FALSE]
ReadyFrame == [kind |-> "ready", pc |-> "test"]

Done == [ok |-> TRUE]
Failed == [ok |-> FALSE]

Idle(t) == stack[t] = <<>>
Top(t) == Head(stack[t])
Below(t) == Tail(stack[t])

At(t, kind, pc) == ~Idle(t) /\ ret[t] = None /\ Top(t).kind = kind /\ Top(t).pc = pc
Resumes(t, kind, pc) == ~Idle(t) /\ ret[t] # None /\ Top(t).kind = kind /\ Top(t).pc = pc

Call(t, frame, callee) ==
  /\ stack' = [stack EXCEPT ![t] = <<callee, frame>> \o Below(t)]
  /\ ret' = [ret EXCEPT ![t] = None]

Continue(t, frame) ==
  /\ stack' = [stack EXCEPT ![t] = <<frame>> \o Below(t)]
  /\ ret' = [ret EXCEPT ![t] = None]

Return(t, outcome) ==
  /\ stack' = [stack EXCEPT ![t] = Below(t)]
  /\ ret' = [ret EXCEPT ![t] = outcome]

Step(t, pc) == Continue(t, [Top(t) EXCEPT !.pc = pc])

-----------------------------------------------------------------------------
(* Host calls: a command loads its project, an executor asks for its wait bounds *)

CallLoad(t, p) ==
  /\ Idle(t) /\ calls[t] < MaxCalls
  /\ calls' = [calls EXCEPT ![t] = @ + 1]
  /\ stack' = [stack EXCEPT ![t] = <<LoadFrame(p)>>]
  /\ ret' = [ret EXCEPT ![t] = None]
  /\ UNCHANGED <<words, passing, readiness>>

CallReadiness(t) ==
  /\ Idle(t) /\ calls[t] < MaxCalls
  /\ calls' = [calls EXCEPT ![t] = @ + 1]
  /\ stack' = [stack EXCEPT ![t] = <<ReadyFrame>>]
  /\ ret' = [ret EXCEPT ![t] = None]
  /\ UNCHANGED <<words, passing, readiness>>

-----------------------------------------------------------------------------
(* LoadUnified: at each boundary the pre-scan, the pre-pass and the parse; then the entities *)

Boundary(t) == Bounds[Top(t).dir][Top(t).at]
Missing == declared \ registered

Prescan(t) ==
  /\ At(t, "load", "prescan")
  /\ declared' = declared \cup Declares[Boundary(t)]
  /\ Step(t, "guard")
  /\ UNCHANGED <<registered, cause, passing, readiness, calls>>

\* The flag is read in one critical section and set in another.
Guard(t) ==
  /\ At(t, "load", "guard")
  /\ Step(t, IF passing THEN "parse" ELSE "need")
  /\ UNCHANGED <<words, passing, readiness, calls>>

NothingMissing(t) ==
  /\ At(t, "load", "need") /\ Missing = {}
  /\ Step(t, "parse")
  /\ UNCHANGED <<words, passing, readiness, calls>>

StartPass(t) ==
  /\ At(t, "load", "need") /\ Missing # {}
  /\ passing' = TRUE
  /\ Call(t, [Top(t) EXCEPT !.pc = "parse"], PassFrame(Boundary(t), Missing))
  /\ UNCHANGED <<words, readiness, calls>>

PassReturned(t) ==
  /\ Resumes(t, "load", "parse")
  /\ Continue(t, Top(t))
  /\ UNCHANGED <<words, passing, readiness, calls>>

\* A document with a kind that is neither served nor declared does not parse.
Parse(t) ==
  /\ At(t, "load", "parse")
  /\ LET todo == Top(t).todo \cup Nodes[Boundary(t)]
     IN  IF ~(Nodes[Boundary(t)] \subseteq registered \cup declared)
           THEN Return(t, Failed)
         ELSE IF Top(t).at < Len(Bounds[Top(t).dir])
           THEN Continue(t, [Top(t) EXCEPT !.at = @ + 1, !.pc = "prescan", !.todo = todo])
           ELSE Continue(t, [Top(t) EXCEPT !.pc = "decode", !.todo = todo])
  /\ UNCHANGED <<words, passing, readiness, calls>>

\* An entity whose kind is served is decoded by its plugin.
Decode(t) ==
  /\ At(t, "load", "decode")
  /\ \E w \in Top(t).todo \cap registered :
       Continue(t, [Top(t) EXCEPT !.todo = @ \ {w}])
  /\ UNCHANGED <<words, passing, readiness, calls>>

\* The registry does not serve it: the materializer asks about the pass, then about the cause.
Lookup(t) ==
  /\ At(t, "load", "decode")
  /\ \E w \in Top(t).todo \ registered :
       Continue(t, [Top(t) EXCEPT !.todo = @ \ {w}, !.node = w, !.pc = "missing"])
  /\ UNCHANGED <<words, passing, readiness, calls>>

DeferAlways(t) ==   \* mutant: the materializer does not ask about the pass
  /\ At(t, "load", "missing")
  /\ Continue(t, [Top(t) EXCEPT !.deferred = @ \cup {Top(t).node}, !.node = None, !.pc = "decode"])
  /\ UNCHANGED <<words, passing, readiness, calls>>

\* Inside a pass it is left out without a word; otherwise with a warning that has the cause.
DeferOrSkip(t) ==
  /\ At(t, "load", "missing")
  /\ LET w == Top(t).node
     IN  Continue(t, IF passing
           THEN [Top(t) EXCEPT !.deferred = @ \cup {w}, !.node = None, !.pc = "decode"]
           ELSE [Top(t) EXCEPT !.skipped = @ \cup {[word |-> w, why |-> cause[w]]},
                               !.node = None, !.pc = "decode"])
  /\ UNCHANGED <<words, passing, readiness, calls>>

LoadDone(t) ==
  /\ At(t, "load", "decode") /\ Top(t).todo = {}
  /\ Return(t, Done)
  /\ UNCHANGED <<words, passing, readiness, calls>>

\* Anything else that ends a load: an import that cannot be fetched, a document that is no YAML,
\* a plugin that refuses an entity.
LoadFails(t) ==
  /\ "load" \in Faults
  /\ At(t, "load", "parse") \/ At(t, "load", "decode")
  /\ Return(t, Failed)
  /\ UNCHANGED <<words, passing, readiness, calls>>

-----------------------------------------------------------------------------
(* connectDeclaredKindPlugins: load, scan, the project's candies, baked binaries, causes *)

Record(w, why) == [x \in Word |-> IF x \in w THEN why ELSE cause[x]]

\* LoadConfig, and the scan, load the project again.
PassLoads(t) ==
  /\ At(t, "pass", "config") \/ At(t, "pass", "scan")
  /\ Call(t, Top(t), LoadFrame(Top(t).dir))
  /\ UNCHANGED <<words, passing, readiness, calls>>

\* A failure is recorded for every word of the pass, and does not end the pass.
RecordFailure(t) ==
  /\ cause' = Record(Top(t).need, Top(t).dir)
  /\ Continue(t, [Top(t) EXCEPT !.pc = "baked", !.todo = @ \cup Top(t).need])

\* Only candies that provide a word of the pass are connected.
Wanted(pass) == Provides[pass.dir] \cap pass.need

PassLoaded(t) ==
  /\ Resumes(t, "pass", "config") \/ Resumes(t, "pass", "scan")
  /\ IF ~ret[t].ok
       THEN RecordFailure(t)
       ELSE /\ UNCHANGED cause
            /\ Continue(t, IF Top(t).pc = "config"
                 THEN [Top(t) EXCEPT !.pc = "scan"]
                 ELSE [Top(t) EXCEPT !.pc = "candies",
                                     !.todo = Wanted(Top(t))])
  /\ UNCHANGED <<registered, declared, passing, readiness, calls>>

ScanFails(t) ==
  /\ "scan" \in Faults
  /\ At(t, "pass", "candies")
  /\ RecordFailure(t)
  /\ UNCHANGED <<registered, declared, passing, readiness, calls>>

\* loadProjectPlugins, or the baked leg, takes one word; each in map order.
Pick(t) ==
  /\ At(t, "pass", "candies") \/ At(t, "pass", "baked")
  /\ \E w \in Top(t).todo :
       LET rest == [Top(t) EXCEPT !.todo = @ \ {w}]
       IN  IF w \in registered \/ (Top(t).pc = "baked" /\ w \notin Baked)
             THEN Continue(t, rest)
             ELSE Call(t, rest, ConnectFrame(w))
  /\ UNCHANGED <<words, passing, readiness, calls>>

\* The first candy that fails ends the project leg; a failing binary only warns.
Picked(t) ==
  /\ Resumes(t, "pass", "candies") \/ Resumes(t, "pass", "baked")
  /\ IF Top(t).pc = "candies" /\ ~ret[t].ok
       THEN RecordFailure(t)
       ELSE Continue(t, Top(t)) /\ UNCHANGED cause
  /\ UNCHANGED <<registered, declared, passing, readiness, calls>>

CandiesDone(t) ==
  /\ At(t, "pass", "candies") /\ Top(t).todo = {}
  /\ Continue(t, [Top(t) EXCEPT !.pc = "baked", !.todo = Top(t).need])
  /\ UNCHANGED <<words, passing, readiness, calls>>

\* finalizeDeclaredKindConnections: a cause goes when its word is registered, and a word that
\* never registered gets one if it has none.
FinalizeAll(t) ==   \* mutant: the pass erases what an earlier boundary recorded
  /\ At(t, "pass", "baked") /\ Top(t).todo = {}
  /\ cause' = [w \in Word |-> IF w \in Top(t).need \cap registered THEN None
                              ELSE IF w \in Top(t).need /\ w \notin Provides[Top(t).dir] THEN Silent
                              ELSE cause[w]]
  /\ Step(t, "clear")
  /\ UNCHANGED <<registered, declared, passing, readiness, calls>>

FinalizeNothing(t) ==   \* mutant: only errors leave a cause
  /\ At(t, "pass", "baked") /\ Top(t).todo = {}
  /\ cause' = [w \in Word |-> IF w \in Top(t).need \cap registered THEN None ELSE cause[w]]
  /\ Step(t, "clear")
  /\ UNCHANGED <<registered, declared, passing, readiness, calls>>

Finalize(t) ==
  /\ At(t, "pass", "baked") /\ Top(t).todo = {}
  /\ cause' = [w \in Word |-> IF w \notin Top(t).need THEN cause[w]
                              ELSE IF w \in registered THEN None
                              ELSE IF cause[w] = None THEN Silent ELSE cause[w]]
  /\ Step(t, "clear")
  /\ UNCHANGED <<registered, declared, passing, readiness, calls>>

KeepFlag(t) ==   \* mutant: the flag is not cleared
  /\ At(t, "pass", "clear")
  /\ Return(t, Done)
  /\ UNCHANGED <<words, passing, readiness, calls>>

\* The deferred reset, whoever set the flag.
Clear(t) ==
  /\ At(t, "pass", "clear")
  /\ passing' = FALSE
  /\ Return(t, Done)
  /\ UNCHANGED <<words, readiness, calls>>

-----------------------------------------------------------------------------
(* One connect, which needs the readiness bounds before it starts the process *)

Connecting(t) == ~Idle(t) /\ Top(t).kind = "connect"

AskReadiness(t) ==
  /\ Connecting(t) /\ ret[t] = None /\ ~Top(t).ready
  /\ Call(t, [Top(t) EXCEPT !.ready = TRUE], ReadyFrame)
  /\ UNCHANGED <<words, passing, readiness, calls>>

\* A second registration of the same source is no error.
Connect(t) ==
  /\ Connecting(t) /\ ret[t] # None
  /\ registered' = registered \cup {Top(t).word}
  /\ Return(t, Done)
  /\ UNCHANGED <<declared, cause, passing, readiness, calls>>

ConnectFails(t) ==
  /\ "connect" \in Faults
  /\ Connecting(t) /\ ret[t] # None
  /\ Return(t, Failed)
  /\ UNCHANGED <<words, passing, readiness, calls>>

-----------------------------------------------------------------------------
(* loadedReadiness: once per process, from a load of the project; defaults during that load *)

TestNothing(t) ==   \* mutant: no re-entrancy guard
  /\ At(t, "ready", "test")
  /\ Step(t, "do")
  /\ UNCHANGED <<words, passing, readiness, calls>>

TestLoading(t) ==
  /\ At(t, "ready", "test")
  /\ IF loading THEN Return(t, Done) ELSE Step(t, "do")
  /\ UNCHANGED <<words, passing, readiness, calls>>

\* The first caller loads; later ones wait for it in the Once, or find it done.
Resolve(t) ==
  /\ At(t, "ready", "do") /\ cached = "new"
  /\ cached' = "running" /\ loading' = TRUE
  /\ Call(t, [Top(t) EXCEPT !.pc = "resolved"], LoadFrame(Root))
  /\ UNCHANGED <<words, passing, calls>>

Resolved(t) ==
  /\ Resumes(t, "ready", "resolved")
  /\ cached' = "done" /\ loading' = FALSE
  /\ Return(t, Done)
  /\ UNCHANGED <<words, passing, calls>>

UseCached(t) ==
  /\ At(t, "ready", "do") /\ cached = "done"
  /\ Return(t, Done)
  /\ UNCHANGED <<words, passing, readiness, calls>>

-----------------------------------------------------------------------------
Init ==
  /\ registered = CompiledIn
  /\ declared = Baked
  /\ cause = [w \in Word |-> None]
  /\ passing = FALSE
  /\ cached = "new" /\ loading = FALSE
  /\ stack = [t \in Thread |-> <<>>]
  /\ ret = [t \in Thread |-> None]
  /\ calls = [t \in Thread |-> 0]

HostCall(t) == CallReadiness(t) \/ \E p \in Dir : CallLoad(t, p)

LoadStep(t) ==
  \/ Prescan(t) \/ Guard(t) \/ NothingMissing(t) \/ StartPass(t) \/ PassReturned(t)
  \/ Parse(t) \/ Decode(t) \/ Lookup(t) \/ DeferOrSkip(t) \/ LoadDone(t) \/ LoadFails(t)

PassStep(t) ==
  \/ PassLoads(t) \/ PassLoaded(t) \/ ScanFails(t) \/ Pick(t) \/ Picked(t)
  \/ CandiesDone(t) \/ Finalize(t) \/ Clear(t)

ConnectStep(t) == AskReadiness(t) \/ Connect(t) \/ ConnectFails(t)

ReadyStep(t) == TestLoading(t) \/ Resolve(t) \/ Resolved(t) \/ UseCached(t)

Run(t) == LoadStep(t) \/ PassStep(t) \/ ConnectStep(t) \/ ReadyStep(t)

Next == \E t \in Thread : HostCall(t) \/ Run(t)

Spec == Init /\ [][Next]_vars /\ \A t \in Thread : WF_vars(Run(t))

-----------------------------------------------------------------------------
(* Properties *)

Skip == [word : Word, why : Dir \cup {Silent, None}]

LoadFrames ==
  {f \in [kind : {"load"}, dir : Dir, at : Nat,
          pc : {"prescan", "guard", "need", "parse", "decode", "missing"},
          todo : SUBSET Word, node : Word \cup {None}, deferred : SUBSET Word, skipped : SUBSET Skip] :
     f.at \in 1..Len(Bounds[f.dir]) /\ (f.pc = "missing" => f.node \in Word)}

PassFrames ==
  {f \in [kind : {"pass"}, dir : Dir, need : SUBSET Word,
          pc : {"config", "scan", "candies", "baked", "clear"}, todo : SUBSET Word] :
     f.todo \subseteq f.need}

ConnectFrames == [kind : {"connect"}, word : Word, ready : BOOLEAN]
ReadyFrames == [kind : {"ready"}, pc : {"test", "do", "resolved"}]
Frame == LoadFrames \cup PassFrames \cup ConnectFrames \cup ReadyFrames

\* Types: the words served, declared and failed, the two guards, and every frame.
TypeOK ==
  /\ registered \subseteq Word /\ declared \subseteq Word
  /\ cause \in [Word -> Dir \cup {Silent, None}]
  /\ passing \in BOOLEAN /\ loading \in BOOLEAN /\ cached \in {"new", "running", "done"}
  /\ calls \in [Thread -> 0..MaxCalls]
  /\ stack \in [Thread -> Seq(Frame)]
  /\ ret \in [Thread -> [ok : BOOLEAN] \cup {None}]

\* The frames of loads that no pass encloses: those whose result somebody outside the loader sees.
Passes(t) == {i \in 1..Len(stack[t]) : stack[t][i].kind = "pass"}
Outer(t) == {i \in 1..Len(stack[t]) : stack[t][i].kind = "load" /\ \A j \in Passes(t) : j < i}

OuterLoads == UNION {{stack[t][i] : i \in Outer(t)} : t \in Thread}

\* A load that is not nested in a pass leaves no entity out without a warning: whatever loads,
\* passes and readiness lookups ran inside it, the flag is down when it decodes.
NoSilentDrop == \A f \in OuterLoads : f.deferred = {}

\* Every warning about a skipped entity has a cause to name, over all boundaries and nested loads.
SkipsHaveCause == \A f \in OuterLoads : \A s \in f.skipped : s.why # None

KeepsCauses ==
  \A w \in Word \ registered' : /\ cause[w] # None => cause'[w] # None
                                /\ cause[w] \in Dir => cause'[w] \in Dir

\* A retained failure is erased only when its word registers: no later pass, of another
\* boundary, of a nested load or of another goroutine, removes it or makes it silent.
CauseKept == [][KeepsCauses]_vars

\* Exactly while one goroutine runs a pass is the flag up, and no pass runs inside a pass.
PassGuarded ==
  /\ \A t \in Thread : \A i, j \in Passes(t) : i = j
  /\ passing <=> \E t \in Thread : Passes(t) # {}

\* Every load and every question for the bounds is answered, although a connect asks for
\* bounds that are read from a load that connects.
CallsAnswered == \A t \in Thread : ~Idle(t) ~> Idle(t)

=============================================================================
