--------------------------- MODULE CommandDispatch ---------------------------
(* One run of the charly binary, from its arguments to its exit: the grammar  *)
(* is completed with the command words of baked, welded and declared plugins  *)
(* before the command line is parsed (main.go, plugin_command_prescan.go),    *)
(* the project is entered, and the parsed command goes to a handler in the    *)
(* process, to a plugin over its connection, or to a plugin's binary that     *)
(* replaces the process (provider_command_external.go).                       *)
(*                                                                            *)
(* A command line is a sequence of tokens and a record of the project         *)
(* selectors it carries; what a plugin serves, what a project declares and    *)
(* which binaries are baked are constants.  Clones, loads, builds, connects   *)
(* and handlers may fail at any time.                                         *)
EXTENDS Naturals, Sequences, SequencesExt

CONSTANTS
  Dir,          \* existing directories
  Relative,     \* directory names that are not absolute
  Below,        \* Below[d][r]: what r names in d, None when there is nothing
  None,
  Project,      \* the directories that hold a charly.yml
  Declares,     \* Declares[d]: the plugins the project in d declares
  Token,        \* command words, parents and subcommands
  Identity,     \* command identities, class:word:parent
  WordOf,       \* the word of an identity
  ParentOf,     \* the parent it nests under, None for a top-level command
  Subs,         \* Subs[c]: the subcommands the provider of c declares
  Spine,        \* parents in the grammar that take nested commands: box
  CorePaths,    \* commands that are fields of the CLI struct
  Interactive,  \* identities that need the terminal
  Kind,         \* kind words
  Plugin,
  Commands,     \* Commands[p]: the identities p serves
  Kinds,        \* Kinds[p]: the kind words p serves
  Compiled,     \* plugins compiled into the binary
  BakedBy,      \* .providers: the baked plugin of an identity or kind, or None
  Welded,       \* Welded[w]: the plugin of a welded top-level word, or None
  Overridden,   \* plugins whose repository CHARLY_REPO_OVERRIDE names
  Invocations   \* the command lines and environments to consider

Place == Dir \cup Relative \cup {None}

ASSUME ProjectAssumption ==
  /\ Project \subseteq Dir
  /\ None \notin Dir \cup Relative \cup Token \cup Identity \cup Plugin \cup Kind
  /\ Below \in [Dir -> [Relative -> Dir \cup {None}]]
  /\ Declares \in [Project -> SUBSET (Plugin \ Compiled)]

ASSUME PluginAssumption ==
  /\ Compiled \subseteq Plugin /\ Overridden \subseteq Plugin
  /\ WordOf \in [Identity -> Token] /\ ParentOf \in [Identity -> Token \cup {None}]
  /\ Subs \in [Identity -> SUBSET Token]
  /\ Commands \in [Plugin -> SUBSET Identity] /\ Kinds \in [Plugin -> SUBSET Kind]
  /\ BakedBy \in [Identity \cup Kind -> (Plugin \ Compiled) \cup {None}]
  /\ Welded \in [Token -> (Plugin \ Compiled) \cup {None}]
  /\ \A k \in Kind : BakedBy[k] # None => k \in Kinds[BakedBy[k]]
  /\ \A c \in Identity : BakedBy[c] # None => c \in Commands[BakedBy[c]]

\* A baked plugin's .providers manifest lists all that the plugin provides.
ASSUME ManifestAssumption ==
  \A w \in Identity \cup Kind : BakedBy[w] # None =>
    \A v \in Commands[BakedBy[w]] \cup Kinds[BakedBy[w]] : BakedBy[v] # None

ASSUME InvocationAssumption ==
  Invocations \subseteq
    [at: Dir, env: Place, flag: Place, stray: Place, repo: Dir \cup {None},
     repoEnv: Dir \cup {None}, typed: Seq(Token)]

VARIABLES
  inv,      \* the command line: where it was given, CHARLY_PROJECT_DIR, -C, a -C
            \* among the arguments passed through, --repo and CHARLY_PROJECT_REPO
            \* (as the clone they name), and the words
  phase,    \* where main is
  cwd,
  scanned,  \* the directory the prescan read
  ids,      \* declaredExternalCommand
  kinds,    \* declaredKind
  leaf,     \* ctx.Command(): the path of the parsed node
  cmd,      \* the entry of the dispatch table: identity and subcommand
  pass,     \* the connect pass: its directory, the words it needs, the candies left
  failed,   \* something in the pass failed
  flaked,   \* a clone failed that another evaluation of the selectors needed
  live,     \* connected plugins, with the bytes each was started from
  ran,      \* the handler that got the command
  status    \* exit status

vars == <<inv, phase, cwd, scanned, ids, kinds, leaf, cmd, pass, failed, flaked, live, ran, status>>

NoPass == [dir |-> None, need |-> {}, todo |-> {}]
Bytes == {"tree", "baked", "built", "linked"}

Connected == {l.plugin : l \in live}
Serving == Compiled \cup Connected

\* resolveCommand: the registry's provider of an identity.
Serves(c) == {p \in Serving : c \in Commands[p]}
ServedKinds == UNION {Kinds[p] : p \in Serving}
Unserved == kinds \ ServedKinds

(* ------------------------------ the selectors ------------------------------ *)

At(d, place) == CASE place \in Relative -> Below[d][place] [] OTHER -> place

FirstOf(a, b) == IF a # None THEN a ELSE b

Repo == FirstOf(inv.repo, inv.repoEnv)

PreParseNoRepo(cloned) ==
  LET dir == FirstOf(inv.env, FirstOf(inv.flag, inv.stray)) IN
  IF dir # None THEN At(cwd, dir) ELSE cwd

\* projectDirPreParse, with the current directory as it is when it is called:
\* cloned says whether the repository could be resolved.
PreParse(cloned) ==
  LET dir == FirstOf(inv.env, FirstOf(inv.flag, inv.stray)) IN
  CASE dir # None -> At(cwd, dir)
    [] dir = None /\ Repo # None /\ cloned -> Repo
    [] OTHER -> cwd

\* cli.Dir as kong fills it, made absolute.
Flagged == At(cwd, FirstOf(inv.flag, inv.env))

Declared(d) == IF d \in Project THEN Declares[d] ELSE {}

(* ------------------------------- the grammar ------------------------------- *)

\* The path of an identity, which is also its key in the dispatch table.
Key(c) == IF ParentOf[c] = None THEN <<WordOf[c]>> ELSE <<ParentOf[c], WordOf[c]>>

\* An identity is its word and its parent (providerKey), and no command of the CLI struct
\* lies below the path of a plugin's command.
ASSUME IdentityAssumption ==
  /\ \A c, d \in Identity : WordOf[c] = WordOf[d] /\ ParentOf[c] = ParentOf[d] => c = d
  /\ CorePaths \subseteq Seq(Token)
  /\ \A path \in CorePaths, c \in Identity : Len(path) > 1 => Key(c) # Front(path)

Linked == UNION {Commands[p] : p \in Compiled}
Known == ids \cup Linked
SubsOf(c) == IF c \in Linked THEN Subs[c] ELSE {}
Attached(c) == ParentOf[c] \in Spine \cup {None}

Leaves(c) == IF SubsOf(c) = {} THEN {Key(c)} ELSE {Append(Key(c), s) : s \in SubsOf(c)}
Grammar == CorePaths \cup UNION {Leaves(c) : c \in {d \in Known : Attached(d)}}

NoCommand == [id |-> None, sub |-> None]

EntriesByWord(path) ==
  LET word == {c \in Known : WordOf[c] = Last(path)} IN
  {[id |-> c, sub |-> None] : c \in word}

\* resolveCommandDispatch: the whole path, else the path without its last token.
Entries(path) ==
  LET exact == {c \in Known : Key(c) = path}
      group == {c \in Known : Len(path) > 1 /\ Key(c) = Front(path)} IN
  IF exact # {} THEN {[id |-> c, sub |-> None] : c \in exact}
  ELSE {[id |-> c, sub |-> Last(path)] : c \in group}

(* ----------------------------- before the parse ---------------------------- *)

Init ==
  /\ inv \in Invocations
  /\ phase = "start" /\ cwd = inv.at /\ scanned = None
  /\ ids = {} /\ kinds = {} /\ leaf = <<>> /\ cmd = NoCommand
  /\ pass = NoPass /\ failed = FALSE /\ flaked = FALSE
  /\ live = {} /\ ran = None /\ status = None

\* discoverBakedPluginWords: command words for the grammar, kind words for the parse.
DiscoverBaked ==
  /\ phase = "start" /\ phase' = "baked"
  /\ ids' = {c \in Identity : BakedBy[c] # None}
  /\ kinds' = {k \in Kind : BakedBy[k] # None}
  /\ UNCHANGED <<inv, cwd, scanned, leaf, cmd, pass, failed, flaked, live, ran, status>>

\* registerWeldedCommandWords
RegisterWelded ==
  /\ phase = "baked" /\ phase' = "welded"
  /\ ids' = ids \cup {c \in Identity : ParentOf[c] = None /\ Welded[WordOf[c]] # None}
  /\ UNCHANGED <<inv, cwd, scanned, kinds, leaf, cmd, pass, failed, flaked, live, ran, status>>

\* prescanProjectCommandWords
Prescan ==
  /\ phase = "welded" /\ phase' = "scanned"
  /\ \E cloned \in BOOLEAN :
       /\ scanned' = PreParse(cloned)
       /\ flaked' = (flaked \/ (Repo # None /\ ~cloned))
  /\ ids' = ids \cup UNION {Commands[p] : p \in Declared(scanned')}
  /\ kinds' = kinds \cup UNION {Kinds[p] : p \in Declared(scanned')}
  /\ UNCHANGED <<inv, cwd, leaf, cmd, pass, failed, live, ran, status>>

Quit(code) == phase' = "exited" /\ status' = code

\* kong.Parse, over the holders collectExternalCommandPlugins built.
Parse ==
  /\ phase = "scanned"
  /\ \/ \E path \in Grammar :
          /\ IsPrefix(path, inv.typed)
          /\ leaf' = path /\ phase' = "parsed" /\ UNCHANGED status
     \/ /\ \A path \in Grammar : ~IsPrefix(path, inv.typed)
        /\ Quit(1) /\ UNCHANGED leaf
  /\ UNCHANGED <<inv, cwd, scanned, ids, kinds, cmd, pass, failed, flaked, live, ran>>

\* main: --repo is resolved, then one chdir for every later os.Getwd().
Enter ==
  /\ phase = "parsed"
  /\ LET both == Repo # None /\ FirstOf(inv.flag, inv.env) # None IN
     \/ /\ both \/ Repo # None \/ (FirstOf(inv.flag, inv.env) # None /\ Flagged = None)
        /\ Quit(1) /\ UNCHANGED cwd
     \/ /\ ~both
        /\ \/ Repo # None /\ cwd' = Repo
           \/ Repo = None /\ FirstOf(inv.flag, inv.env) # None /\ Flagged # None /\ cwd' = Flagged
           \/ Repo = None /\ FirstOf(inv.flag, inv.env) = None /\ cwd' = cwd
        /\ phase' = "entered" /\ UNCHANGED status
  /\ UNCHANGED <<inv, scanned, ids, kinds, leaf, cmd, pass, failed, flaked, live, ran>>

\* runPreflightPhase, then the shutdown hook and the deferred reap.
Preflight ==
  /\ phase = "entered"
  /\ \/ Quit(1)
     \/ phase' = "armed" /\ UNCHANGED status
  /\ UNCHANGED <<inv, cwd, scanned, ids, kinds, leaf, cmd, pass, failed, flaked, live, ran>>

(* -------------------------------- dispatch --------------------------------- *)

\* A connect registers all of a plugin's words or fails; a word somebody serves fails it.
Registrable(p, l) ==
  LET serving == Compiled \cup {q.plugin : q \in l} IN
  p \notin serving /\ \A q \in serving :
    Commands[p] \cap Commands[q] = {} /\ Kinds[p] \cap Kinds[q] = {}

IsBaked(p) == \E w \in Identity \cup Kind : BakedBy[w] = p

BakedFirst(p) == IF IsBaked(p) THEN "baked" ELSE IF p \in Overridden THEN "tree" ELSE "built"

\* resolvePluginBinary: the override's tree, else the baked binary, else a build.
BytesOf(p) == IF p \in Overridden THEN "tree" ELSE IF IsBaked(p) THEN "baked" ELSE "built"
\* The three lanes of dispatchCommand, for a provider that was found.
Lane(p) ==
  CASE cmd'.id \in Interactive -> "exec"
    [] cmd'.id \notin Interactive /\ p \in Compiled -> "inproc"
    [] OTHER -> "connected"

Resolve(otherwise) ==
  \/ \E p \in Serves(cmd'.id) : phase' = Lane(p)
  \/ Serves(cmd'.id) = {} /\ phase' = otherwise

\* main and the first half of dispatchCommand.
Dispatch ==
  /\ phase = "armed"
  /\ IF Entries(leaf) = {} THEN cmd' = NoCommand /\ phase' = "core"
     ELSE /\ cmd' \in Entries(leaf)
          /\ Resolve(IF kinds # {} THEN "missed" ELSE "exec")
  /\ UNCHANGED <<inv, cwd, scanned, ids, kinds, leaf, pass, failed, flaked, live, ran, status>>

NoPassAtAll ==
  /\ phase = "missed" /\ phase' = "passed"
  /\ UNCHANGED <<inv, cwd, scanned, ids, kinds, leaf, cmd, pass, failed, flaked, live, ran, status>>

\* connectDeclaredKindPlugins(projectDirPreParse()): the selectors again, after the chdir.
StartPass ==
  /\ phase = "missed"
  /\ \E cloned \in BOOLEAN :
       /\ pass' = [dir |-> PreParse(cloned), need |-> Unserved, todo |-> {}]
       /\ flaked' = (flaked \/ (Repo # None /\ ~cloned))
  /\ phase' = IF Unserved = {} THEN "passed" ELSE "loading"
  /\ UNCHANGED <<inv, cwd, scanned, ids, kinds, leaf, cmd, failed, live, ran, status>>

\* connectDeclaredKindsFromProject: LoadConfig, the scan, the candies of the needed kinds.
PassLoad ==
  /\ phase = "loading"
  /\ \/ /\ pass.dir \in Project /\ phase' = "connecting" /\ UNCHANGED failed
        /\ pass' = [pass EXCEPT !.todo = {p \in Declares[pass.dir] : Kinds[p] \cap pass.need # {}}]
     \/ phase' = "bakedleg" /\ failed' = TRUE /\ UNCHANGED pass
  /\ UNCHANGED <<inv, cwd, scanned, ids, kinds, leaf, cmd, flaked, live, ran, status>>

\* loadProjectPlugins: the map's order, the first failure ends it.
PassConnect ==
  /\ phase = "connecting"
  /\ \/ \E p \in pass.todo :
          /\ Registrable(p, live)
          /\ live' = live \cup {[plugin |-> p, bytes |-> BytesOf(p)]}
          /\ pass' = [pass EXCEPT !.todo = @ \ {p}]
          /\ UNCHANGED <<phase, failed>>
     \/ /\ pass.todo # {}
        /\ phase' = "bakedleg" /\ failed' = TRUE /\ UNCHANGED <<live, pass>>
     \/ /\ pass.todo = {}
        /\ phase' = "bakedleg" /\ UNCHANGED <<live, pass, failed>>
  /\ UNCHANGED <<inv, cwd, scanned, ids, kinds, leaf, cmd, flaked, ran, status>>

\* The baked leg: connectBakedPlugin for each needed kind nobody serves yet.
BakedLeg ==
  /\ phase = "bakedleg"
  /\ \/ \E k \in pass.need \ ServedKinds :
          LET p == BakedBy[k] IN
          /\ p # None /\ Registrable(p, live)
          /\ live' = live \cup {[plugin |-> p, bytes |-> "baked"]}
          /\ UNCHANGED <<phase, failed>>
     \/ /\ phase' = "passed" /\ UNCHANGED live
        /\ failed' = (failed \/ \E k \in pass.need \ ServedKinds : BakedBy[k] # None)
  /\ UNCHANGED <<inv, cwd, scanned, ids, kinds, leaf, cmd, pass, flaked, ran, status>>

\* dispatchCommand looks again, and runs the binary when there is still nobody to ask.
LookAgain ==
  /\ phase = "passed" /\ UNCHANGED cmd
  /\ Resolve("exec")
  /\ UNCHANGED <<inv, cwd, scanned, ids, kinds, leaf, pass, failed, flaked, live, ran, status>>

(* ------------------------------- the exec lane ----------------------------- *)

\* projectCommandPluginCandy loads the current project, whose own connect pass tries
\* again what the first one could not.
ExecBoundary ==
  /\ phase = "exec"
  /\ \E k \in Unserved :
       \/ \E p \in Declared(cwd) :
            /\ k \in Kinds[p] /\ Registrable(p, live)
            /\ live' = live \cup {[plugin |-> p, bytes |-> BytesOf(p)]}
            /\ UNCHANGED failed
       \/ LET p == BakedBy[k] IN
            /\ p # None /\ Registrable(p, live)
            /\ live' = live \cup {[plugin |-> p, bytes |-> "baked"]}
            /\ failed' = (failed \/ p \in Declared(cwd))
  /\ UNCHANGED <<inv, phase, cwd, scanned, ids, kinds, leaf, cmd, pass, flaked, ran, status>>

\* buildWeldedCommandPlugin: any candy of the project with the pinned one that declares it.
WeldedSources ==
  IF cwd \notin Project THEN {}
  ELSE {p \in Declared(cwd) \cup {Welded[WordOf[cmd.id]]} : cmd.id \in Commands[p]}

\* resolveCommandPluginBinary: own is the candy of the project in the current directory
\* that declares the command, None when there is none or the project cannot be read.
Sources(own) ==
  LET tree == own # None /\ own \in Overridden
      baked == BakedBy[cmd.id] # None
      welded == Welded[WordOf[cmd.id]] # None IN
  CASE tree -> {[plugin |-> own, bytes |-> "tree"]}
    [] ~tree /\ baked -> {[plugin |-> BakedBy[cmd.id], bytes |-> "baked"]}
    [] ~tree /\ ~baked /\ welded -> {[plugin |-> p, bytes |-> BytesOf(p)] : p \in WeldedSources}
    [] OTHER -> {[plugin |-> p, bytes |-> BytesOf(p)] : p \in {own} \ {None}}

\* The candies projectCommandPluginCandy can answer with.
Owners ==
  IF cwd \in Project THEN {p \in Declares[cwd] : cmd.id \in Commands[p]} ELSE {}

\* dispatchExternalCommand: on success the plugin's binary is the process.
Exec ==
  /\ phase = "exec"
  /\ \/ \E own \in Owners \cup {None} : \E s \in Sources(own) :
          /\ ran' = [id |-> cmd.id, plugin |-> s.plugin, bytes |-> s.bytes, lane |-> "exec", own |-> own]
          /\ phase' = "replaced" /\ UNCHANGED status
     \/ phase' = "returned" /\ status' = 1 /\ UNCHANGED ran
  /\ UNCHANGED <<inv, cwd, scanned, ids, kinds, leaf, cmd, pass, failed, flaked, live>>

(* ------------------------------- the other lanes --------------------------- *)

\* The key the plugin's server looks a request up by: invokeWithReverse sends class and
\* word, and no parent.
OnTheWire(c) == {d \in Identity : WordOf[d] = WordOf[c] /\ ParentOf[d] = None}

\* dispatchConnectedCommand
InvokeConnected ==
  /\ phase = "connected"
  /\ \E l \in {q \in live : cmd.id \in Commands[q.plugin]} :
       \/ \E c \in OnTheWire(cmd.id) \cap Commands[l.plugin] :
            /\ ran' = [id |-> c, plugin |-> l.plugin, bytes |-> l.bytes, lane |-> "connected", own |-> None]
            /\ phase' = "handling" /\ UNCHANGED status
       \/ /\ OnTheWire(cmd.id) \cap Commands[l.plugin] = {}
          /\ phase' = "returned" /\ status' = 1 /\ UNCHANGED ran
  /\ UNCHANGED <<inv, cwd, scanned, ids, kinds, leaf, cmd, pass, failed, flaked, live>>

\* dispatchInProcCommand
InvokeInProc ==
  /\ phase = "inproc" /\ phase' = "handling"
  /\ \E p \in {q \in Compiled : cmd.id \in Commands[q]} :
       ran' = [id |-> cmd.id, plugin |-> p, bytes |-> "linked", lane |-> "inproc", own |-> None]
  /\ UNCHANGED <<inv, cwd, scanned, ids, kinds, leaf, cmd, pass, failed, flaked, live, status>>

\* ctx.Run, for the commands of the CLI struct.
RunCore ==
  /\ phase = "core" /\ phase' = "handling"
  /\ UNCHANGED <<inv, cwd, scanned, ids, kinds, leaf, cmd, pass, failed, flaked, live, ran, status>>

\* A handler reaches the host through its reverse channel, which connects plugins.
HandlerConnects ==
  /\ phase = "handling"
  /\ \E p \in Declared(cwd) : Registrable(p, live) /\ live' = live \cup {[plugin |-> p, bytes |-> BytesOf(p)]}
  /\ UNCHANGED <<inv, phase, cwd, scanned, ids, kinds, leaf, cmd, pass, failed, flaked, ran, status>>

HandlerReturns ==
  /\ phase = "handling" /\ phase' = "returned" /\ status' \in {0, 1}
  /\ UNCHANGED <<inv, cwd, scanned, ids, kinds, leaf, cmd, pass, failed, flaked, live, ran>>

\* main after the dispatch: reapPlugins, and then the exit that skips the deferred calls.
Exit ==
  /\ phase = "returned" /\ phase' = "exited" /\ live' = {}
  /\ UNCHANGED <<inv, cwd, scanned, ids, kinds, leaf, cmd, pass, failed, flaked, ran, status>>

Armed == {"armed", "missed", "loading", "connecting", "bakedleg", "passed", "exec", "connected",
          "inproc", "core", "handling", "returned"}

\* The signal handler runs the shutdown hooks and exits.
Signal ==
  /\ phase \in Armed /\ Quit(2) /\ live' = {}
  /\ UNCHANGED <<inv, cwd, scanned, ids, kinds, leaf, cmd, pass, failed, flaked, ran>>

BeforeParse == DiscoverBaked \/ RegisterWelded \/ Prescan \/ Parse \/ Enter \/ Preflight
Pass == StartPass \/ PassLoad \/ PassConnect \/ BakedLeg \/ LookAgain
Run == ExecBoundary \/ Exec \/ InvokeConnected \/ InvokeInProc \/ RunCore \/ HandlerConnects \/ HandlerReturns

\* The process is over, or has become another program.
Over == phase \in {"exited", "replaced"} /\ UNCHANGED vars

Next == BeforeParse \/ Dispatch \/ Pass \/ Run \/ Exit \/ Signal \/ Over

Spec == Init /\ [][Next]_vars

(* ------------------------------- properties -------------------------------- *)

Phases == {"start", "baked", "welded", "scanned", "parsed", "entered", "exited", "replaced"} \cup Armed

\* The state of a run: its control point, the words learnt, the table entry and the servers.
TypeOK ==
  /\ inv \in Invocations /\ phase \in Phases /\ cwd \in Dir /\ scanned \in Dir \cup {None}
  /\ ids \subseteq Identity /\ kinds \subseteq Kind /\ leaf \in Seq(Token)
  /\ cmd \in [id : Identity \cup {None}, sub : Token \cup {None}]
  /\ pass \in [dir : Dir \cup {None}, need : SUBSET Kind, todo : SUBSET Plugin]
  /\ failed \in BOOLEAN /\ flaked \in BOOLEAN
  /\ live \subseteq [plugin : Plugin, bytes : Bytes]
  /\ status \in {None, 0, 1, 2}

\* The selectors name one directory: absolute, the same in the environment and the flag,
\* none among the arguments passed through, and every clone works.
Plain ==
  /\ {inv.env, inv.flag} \cap Relative = {} /\ inv.stray = None /\ ~flaked
  /\ inv.env # None /\ inv.flag # None => inv.env = inv.flag

\* One command line works on one project: the directory whose words went into the grammar
\* before the parse (projectDirPreParse), the one main enters after it and the one the
\* connect pass reads during the dispatch are the same, although each is worked out from
\* the flags and the environment anew.
SeesOneProject ==
  Plain /\ phase \in Armed \cup {"replaced"} =>
    scanned = cwd /\ (pass.dir # None => pass.dir = cwd)

\* A command whose plugin also serves a kind that nobody else serves is run with the host
\* behind it, not as a bare program, unless a connect failed (dispatchCommand, #1006).
HostedWhenServed ==
  ran # None /\ Plain /\ ~failed =>
    (ran.lane = "exec" /\ ran.id \notin Interactive =>
       \A p \in Plugin : ran.id \in Commands[p]
         /\ (p \in Declared(cwd) \/ \E k \in Kinds[p] : BakedBy[k] = p) => Kinds[p] \subseteq ServedKinds)

\* The code of a plugin whose repository is overridden in the project comes from the tree:
\* a baked binary of it is connected only after something in a pass failed, and replaces the
\* process only when the project did not name that plugin as the command's.
OverrideServes ==
  /\ ~failed => \A l \in live : l.bytes = "baked" =>
       ~(l.plugin \in Overridden /\ l.plugin \in Declared(pass.dir))
  /\ ran # None => (ran.bytes = "baked" /\ ran.lane = "exec" /\ ran.plugin \in Overridden => ran.own # ran.plugin)

\* Whatever way main takes out, no plugin server outlives it (reapPlugins).
ExitReaps == phase = "exited" => live = {}

\* The capability that gets the command is the one whose node was parsed, word and parent:
\* a nested command never ends at the top-level one of the same word, and a token is cut
\* off only as a subcommand.  Nested commands of connected plugins are excepted, whose
\* parent is not sent (NestedReached).
ParsedIsRun ==
  ran # None /\ (ran.lane = "connected" => ParentOf[cmd.id] = None) /\ Attached(cmd.id) =>
    /\ ran.id = cmd.id
    /\ IF cmd.sub = None THEN leaf = Key(ran.id)
       ELSE leaf = Append(Key(ran.id), cmd.sub) /\ cmd.sub \in Subs[ran.id]

\* The same for every lane: what the dispatch table records the parent for.
NestedReached == ran # None => ran.id = cmd.id
=============================================================================
