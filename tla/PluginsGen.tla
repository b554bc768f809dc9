----------------------------- MODULE PluginsGen -----------------------------
(* The generator of the plugin tables (charly/internal/pluginsgen/main.go), as *)
(* scripts/bootstrap-charly.sh runs it: again and again over one tree, each    *)
(* time with other compiled-in plugins and other local checkouts, stopped at   *)
(* any point and by any error, and followed by a build when it succeeds.       *)
(*                                                                             *)
(* A plugin stands for its repository, its candy and the ref of its candy; a   *)
(* tree (a checkout, a fetched default branch or tag) is what the generator    *)
(* reads of it.  A file is what it was rendered from: formats are left out.    *)
EXTENDS Naturals, Sequences

CONSTANTS
  Plugin,
  Word,            \* provider identities, "<class>:<word>[:<parent>]"
  Command,         \* those of top-level commands
  Sorted,          \* sort.Strings: a set of plugins in the order of their repository paths
  Branch, Tag,     \* what the default branch of a plugin, and its pinned tag, hold
  Configs,         \* what the files of the tree say, of which each run finds one
  Overrides,       \* the -dev-plugin flags of a run
  absent, torn,    \* a file that is not there, or half written
  locked,          \* the checksums a build writes beside the dev workspace
  pinned,          \* a module that a build takes from the module proxy
  MaxRuns          \* bound on the runs

\* The providers: and source: pairs of the plugin blocks; whether all manifests parse; the
\* plugin block and the shape of the candy; the module its go.mod declares.
Tree == [decl: SUBSET (Word \X Plugin), parses: BOOLEAN, block: BOOLEAN, kit: BOOLEAN, module: Plugin]
Line == [name: Plugin, tag: Nat]
Config == [compiled: Seq(Plugin), corpus: SUBSET Plugin, pins: SUBSET Plugin,
           packaged: BOOLEAN, baked: Seq(Line), gover: Nat]
Flag == [name: Plugin, tree: Tree]

ASSUME GenAssumption ==
  /\ Command \subseteq Word /\ MaxRuns \in Nat
  /\ Branch \in [Plugin -> Tree] /\ Tag \in [Plugin -> Tree]
  /\ Configs \subseteq Config /\ Overrides \subseteq Seq(Flag) /\ <<>> \in Overrides

\* A sort lists the members of the set, each once.
ASSUME SortAssumption ==
  /\ Sorted \in [SUBSET Plugin -> Seq(Plugin)]
  /\ \A S \in SUBSET Plugin :
       /\ {Sorted[S][i] : i \in DOMAIN Sorted[S]} = S
       /\ \A i, j \in DOMAIN Sorted[S] : Sorted[S][i] = Sorted[S][j] => i = j

\* A missing file is not one that was rendered from an override.
ASSUME MarksAreApart == \A S \in SUBSET Plugin : absent \notin [S -> Tree]

VARIABLES
  runs,      \* runs begun
  stage,     \* where the run is
  cfg,       \* the files it read
  flags,     \* its -dev-plugin flags
  devRoots,  \* the checkout of each overridden plugin
  todo,      \* repositories, lines or compiled plugins that are still to be read
  wordRefs,  \* the index: from words to refs
  indexed,   \* from the repositories that were indexed to the refs they declare
  weldedRefs,\* from command words to a plugin and its tag
  entries,   \* the compiled plugins with their shapes
  files,     \* the generated files
  binary     \* the binary the last successful build left, as what went into it

gen == <<cfg, flags, devRoots, wordRefs, indexed, weldedRefs, entries>>
vars == <<runs, stage, todo, gen, files, binary>>

Ended == {"idle", "failed", "done"}
Compiled == {cfg.compiled[i] : i \in DOMAIN cfg.compiled}

\* corpusRepoList
Corpus == Compiled \cup cfg.corpus

Nothing == [x \in {} |-> x]
OutOfProcess == [p \in DOMAIN devRoots \ Compiled |-> devRoots[p]]

Fail == stage' = "failed" /\ UNCHANGED <<runs, todo, gen, files, binary>>

(* -------------------------------- one run ---------------------------------- *)

Init ==
  /\ runs = 0 /\ stage = "idle" /\ cfg \in Configs /\ flags = <<>> /\ devRoots = Nothing
  /\ todo = <<>> /\ wordRefs = Nothing /\ indexed = Nothing /\ weldedRefs = Nothing /\ entries = <<>>
  /\ files = [go |-> absent, sibling |-> absent, work |-> absent, refs |-> absent, dev |-> absent, sum |-> absent]
  /\ binary = [linked |-> Nothing, seeds |-> Nothing]

\* main, run, and what generate reads first.
Begin ==
  /\ stage \in Ended /\ runs < MaxRuns
  /\ runs' = runs + 1 /\ stage' = "resolve"
  /\ cfg' \in Configs /\ flags' \in Overrides
  /\ devRoots' = Nothing /\ wordRefs' = Nothing /\ indexed' = Nothing /\ weldedRefs' = Nothing /\ entries' = <<>>
  /\ UNCHANGED <<todo, files, binary>>

Twice == \E i, j \in DOMAIN flags : i # j /\ flags[i].name = flags[j].name
OtherModule == \E i \in DOMAIN flags : flags[i].tree.module # flags[i].name

\* resolveDevPlugins
ResolveDevPlugins ==
  /\ stage = "resolve"
  /\ \/ (Twice \/ OtherModule) /\ Fail
     \/ /\ ~Twice /\ ~OtherModule
        /\ stage' = "index" /\ todo' = Sorted[Corpus]
        /\ devRoots' = [p \in {flags[i].name : i \in DOMAIN flags} |->
                          (CHOOSE f \in {flags[i] : i \in DOMAIN flags} : f.name = p).tree]
        /\ UNCHANGED <<runs, cfg, flags, wordRefs, indexed, weldedRefs, entries, files, binary>>

(* ------------------------------- the index --------------------------------- *)

\* indexRepoPluginRefs: of two candies of a repository that declare one word, either.
RefsOf(tree) ==
  LET words == {d[1] : d \in tree.decl} IN
  {f \in [words -> Plugin] : \A w \in words : <<w, f[w]>> \in tree.decl}

\* An override applies to the repository it names, compiled in or not.
TreeOf(repo) == IF repo \in DOMAIN devRoots THEN devRoots[repo] ELSE Branch[repo]

\* Two refs of one word that are both compiled in, or both not.
Clash(index, refs) ==
  \E w \in DOMAIN index \cap DOMAIN refs :
    index[w] # refs[w] /\ (index[w] \in Compiled <=> refs[w] \in Compiled)

FirstComeIndex(index, refs) ==
  [w \in DOMAIN index \cup DOMAIN refs |-> IF w \in DOMAIN index THEN index[w] ELSE refs[w]]

\* The compiled-in provider owns the word.
WithRefs(index, refs) ==
  [w \in DOMAIN index \cup DOMAIN refs |->
     IF w \in DOMAIN index /\ (w \in DOMAIN refs => index[w] \in Compiled \/ refs[w] \notin Compiled)
     THEN index[w] ELSE refs[w]]

\* One repository that cannot be fetched (an override needs no fetch) or read: fatal only for
\* a compiled-in one.
SkipRepo ==
  LET repo == Head(todo) IN
  /\ stage = "index" /\ todo # <<>>
  /\ repo \notin DOMAIN devRoots \/ ~TreeOf(repo).parses
  /\ IF repo \in Compiled THEN Fail
     ELSE todo' = Tail(todo) /\ UNCHANGED <<runs, stage, gen, files, binary>>

\* collectWordRefs: one repository.
IndexRepo ==
  LET repo == Head(todo) IN
  /\ stage = "index" /\ todo # <<>> /\ TreeOf(repo).parses
  /\ \E refs \in RefsOf(TreeOf(repo)) :
       \/ Clash(wordRefs, refs) /\ Fail
       \/ /\ ~Clash(wordRefs, refs)
          /\ wordRefs' = WithRefs(wordRefs, refs)
          /\ indexed' = [r \in DOMAIN indexed \cup {repo} |-> IF r = repo THEN refs ELSE indexed[r]]
          /\ todo' = Tail(todo)
          /\ UNCHANGED <<runs, stage, cfg, flags, devRoots, weldedRefs, entries, files, binary>>

Indexed ==
  /\ stage = "index" /\ todo = <<>>
  /\ stage' = "weld" /\ todo' = cfg.baked
  /\ UNCHANGED <<runs, gen, files, binary>>

(* --------------------------- the welded commands --------------------------- *)

OwnedInManifest(p) == IF p \in DOMAIN indexed THEN DOMAIN indexed[p] \cap Command ELSE {}

OwnedBy(p) == {w \in DOMAIN wordRefs \cap Command : wordRefs[w] = p}

\* buildWeldedCommandRefs: one line of host-command-plugins.txt, which a tree that is not
\* the packaging tree does not have.
WeldLine ==
  LET line == Head(todo)
      owned == OwnedBy(line.name)
      ref == <<line.name, line.tag>>
      other == \E w \in owned \cap DOMAIN weldedRefs : weldedRefs[w] # ref IN
  /\ stage = "weld" /\ cfg.packaged /\ todo # <<>>
  /\ IF line.name \notin Corpus THEN Fail
     ELSE IF line.name \notin DOMAIN indexed
     THEN todo' = Tail(todo) /\ UNCHANGED <<runs, stage, gen, files, binary>>
     ELSE IF owned = {} \/ other THEN Fail
     ELSE /\ weldedRefs' = [w \in DOMAIN weldedRefs \cup owned |-> IF w \in owned THEN ref ELSE weldedRefs[w]]
          /\ todo' = Tail(todo)
          /\ UNCHANGED <<runs, stage, cfg, flags, devRoots, wordRefs, indexed, entries, files, binary>>

Welded ==
  /\ stage = "weld" /\ (~cfg.packaged \/ todo = <<>>)
  /\ IF cfg.packaged /\ cfg.baked = <<>> THEN Fail
     ELSE stage' = "entries" /\ todo' = cfg.compiled /\ UNCHANGED <<runs, gen, files, binary>>

(* --------------------------- the registrations ----------------------------- *)

SourceOf(p) == IF p \in DOMAIN devRoots THEN devRoots[p] ELSE Tag[p]

\* generate: one compiled plugin, which must be pinned even when it is overridden; a fetch
\* that fails is a Stop.
Entry ==
  LET p == Head(todo) IN
  /\ stage = "entries" /\ todo # <<>>
  /\ IF p \notin cfg.pins \/ ~SourceOf(p).block THEN Fail
     ELSE /\ entries' = Append(entries, <<p, SourceOf(p).kit>>) /\ todo' = Tail(todo)
          /\ UNCHANGED <<runs, stage, cfg, flags, devRoots, wordRefs, indexed, weldedRefs, files, binary>>

Entered ==
  /\ stage = "entries" /\ todo = <<>> /\ stage' = "sibling"
  /\ UNCHANGED <<runs, todo, gen, files, binary>>

(* -------------------------------- the files -------------------------------- *)

\* os.WriteFile or os.Remove, which may fail, or be interrupted, half way.
Write(from, file, content, to) ==
  /\ stage = from
  /\ \/ files' = [files EXCEPT ![file] = content] /\ stage' = to
     \/ content # absent /\ files' = [files EXCEPT ![file] = torn] /\ stage' = "failed"
  /\ UNCHANGED <<runs, todo, gen, binary>>

KeepSibling ==
  Write("sibling", "sibling", IF DOMAIN OutOfProcess = {} THEN files.sibling ELSE OutOfProcess, "go")

\* writeDevOverrideSibling: inside generate, before the last of its errors.
WriteSibling ==
  Write("sibling", "sibling", IF DOMAIN OutOfProcess = {} THEN absent ELSE OutOfProcess, "go")

WriteGo == Write("go", "go", entries, "work")
WriteWork == Write("work", "work", cfg.gover, "refs")
WriteRefs == Write("refs", "refs", <<wordRefs, weldedRefs>>, "dev")

\* writeDevWork: with an override the dev workspace; without, it and its checksums go.
WriteDevWork ==
  \/ DOMAIN devRoots # {} /\ Write("dev", "dev", devRoots, "build")
  \/ DOMAIN devRoots = {} /\ Write("dev", "dev", absent, "sum")

RemoveSum == Write("sum", "sum", absent, "build")

\* The bootstrap builds with the dev workspace if it was given an override, else with go.work;
\* the sibling is one of the package's files whenever it is there.
Build ==
  LET modules == {files.go[i][1] : i \in DOMAIN files.go}
      use == IF flags # <<>> THEN files.dev ELSE Nothing IN
  /\ stage = "build" /\ stage' = "done"
  /\ binary' = [linked |-> [p \in modules |-> IF p \in DOMAIN use THEN use[p] ELSE pinned],
                seeds |-> IF files.sibling = absent THEN Nothing ELSE files.sibling]
  /\ files' = IF flags # <<>> THEN [files EXCEPT !.sum = locked] ELSE files
  /\ UNCHANGED <<runs, todo, gen>>

\* A read, a fetch or the build fails, or the run is interrupted.
Stop ==
  \/ stage \notin Ended /\ Fail
  \/ /\ stage = "build" /\ flags # <<>>
     /\ stage' = "failed" /\ files' = [files EXCEPT !.sum = locked]
     /\ UNCHANGED <<runs, todo, gen, binary>>

\* No further run is needed.
Over == stage \in Ended /\ UNCHANGED vars

Index == SkipRepo \/ IndexRepo \/ Indexed
Weld == WeldLine \/ Welded
Emit == WriteSibling \/ WriteGo \/ WriteWork \/ WriteRefs \/ WriteDevWork \/ RemoveSum

Next == Begin \/ ResolveDevPlugins \/ Index \/ Weld \/ Entry \/ Entered \/ Emit \/ Build \/ Stop \/ Over

Spec == Init /\ [][Next]_vars

(* ------------------------------- properties -------------------------------- *)

\* The index and the files have their types.
TypeOK ==
  /\ runs \in 0..MaxRuns /\ cfg \in Configs /\ flags \in Overrides
  /\ stage \in Ended \cup {"resolve", "index", "weld", "entries", "sibling", "go", "work", "refs", "dev", "sum", "build"}
  /\ DOMAIN devRoots \subseteq Plugin /\ \A p \in DOMAIN devRoots : devRoots[p] \in Tree
  /\ DOMAIN wordRefs \subseteq Word /\ \A w \in DOMAIN wordRefs : wordRefs[w] \in Plugin
  /\ DOMAIN indexed \subseteq Plugin /\ DOMAIN weldedRefs \subseteq Command
  /\ DOMAIN files = {"go", "sibling", "work", "refs", "dev", "sum"}

Declared(w) == {indexed[r][w] : r \in {r \in DOMAIN indexed : w \in DOMAIN indexed[r]}}

\* Whatever the order of the repositories: the index of a run that succeeds covers every
\* compiled-in repository, and names for each word that an indexed repository declares the
\* compiled-in plugin that declares it, of which there is one, or else the one plugin that
\* does.  An overridden repository is indexed from its checkout.
IndexNamesOwner ==
  stage = "done" =>
    /\ Compiled \subseteq DOMAIN indexed
    /\ DOMAIN wordRefs = UNION {DOMAIN indexed[r] : r \in DOMAIN indexed}
    /\ \A w \in DOMAIN wordRefs :
         {wordRefs[w]} = IF Declared(w) \cap Compiled # {} THEN Declared(w) \cap Compiled ELSE Declared(w)
    /\ \A r \in DOMAIN indexed \cap DOMAIN devRoots : indexed[r] \in RefsOf(devRoots[r])

\* Every plugin that the packages bake and whose repository was read keeps a command of its
\* own at its one pin, and no command is pinned to a plugin that the index gives it not.
WeldedPinned ==
  stage = "done" /\ cfg.packaged =>
    /\ \A i \in DOMAIN cfg.baked : LET line == cfg.baked[i] IN
         line.name \in DOMAIN indexed => \E w \in DOMAIN weldedRefs : weldedRefs[w] = <<line.name, line.tag>>
    /\ \A w \in DOMAIN weldedRefs : w \in DOMAIN wordRefs /\ wordRefs[w] = weldedRefs[w][1]

\* A binary is built from the checkouts its own run was given and from no other, whatever
\* interrupted runs left behind: a compiled-in plugin is linked from its checkout or from its
\* pin, and only the plugins that are not compiled in are redirected at run time.
BinaryAsAsked ==
  stage = "done" =>
    /\ binary.linked = [p \in Compiled |-> IF p \in DOMAIN devRoots THEN devRoots[p] ELSE pinned]
    /\ binary.seeds = OutOfProcess

\* A plain run that succeeds leaves nothing of any dev build before it.
NothingLocalLeft ==
  stage = "done" /\ flags = <<>> => files.dev = absent /\ files.sum = absent /\ files.sibling = absent
=============================================================================
