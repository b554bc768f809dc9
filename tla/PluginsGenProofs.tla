------------------------- MODULE PluginsGenProofs --------------------------
(* What a bootstrap of the plugin tables leaves behind, for any tree and any   *)
(* sequence of runs: the inductive invariant says which files of the current   *)
(* run are already written at each stage, so nothing of an interrupted run is  *)
(* in what a later one builds.                                                 *)
EXTENDS PluginsGen, TLAPS

Named(seq) == {seq[i] : i \in DOMAIN seq}
Entrants(seq) == {seq[i][1] : i \in DOMAIN seq}

Reading == {"index", "weld", "entries", "sibling"}
Writing == {"go", "work", "refs", "dev", "sum", "build"}

Roots == UNION {[S -> Tree] : S \in SUBSET Plugin}

\* The values of a run, at whatever point it stopped.
Values ==
  /\ cfg \in Configs /\ flags \in Overrides /\ devRoots \in Roots
  /\ DOMAIN files = {"go", "sibling", "work", "refs", "dev", "sum"}
  /\ entries \in Seq(Plugin \X BOOLEAN)

Resolved == stage \in Reading \cup Writing \cup {"done"} => (DOMAIN devRoots = {} <=> flags = <<>>)

\* Every compiled plugin is registered or still to come.
Registering ==
  /\ stage \in {"resolve", "index", "weld"} => entries = <<>>
  /\ stage = "entries" => todo \in Seq(Plugin) /\ Entrants(entries) \cup Named(todo) = Compiled
  /\ stage \in {"sibling"} \cup Writing => Entrants(entries) = Compiled

SiblingWritten ==
  stage \in Writing \cup {"done"} => files["sibling"] = IF DOMAIN OutOfProcess = {} THEN absent ELSE OutOfProcess

GoWritten == stage \in Writing \ {"go"} => files["go"] = entries

DevWritten ==
  /\ stage \in {"build", "done"} /\ flags # <<>> => files["dev"] = devRoots
  /\ stage \in {"sum", "build", "done"} /\ flags = <<>> => files["dev"] = absent
  /\ stage = "sum" => flags = <<>>
  /\ stage \in {"build", "done"} /\ flags = <<>> => files["sum"] = absent

IInv == Values /\ Resolved /\ Registering /\ SiblingWritten /\ GoWritten /\ DevWritten /\ BinaryAsAsked

LEMMA TailNamed ==
  ASSUME NEW S, NEW seq \in Seq(S), seq # <<>>
  PROVE  /\ Head(seq) \in S /\ Tail(seq) \in Seq(S)
         /\ Named(seq) = {Head(seq)} \cup Named(Tail(seq))
<1>1. Head(seq) \in S /\ Tail(seq) \in Seq(S)
  OBVIOUS
<1>2. Len(Tail(seq)) = Len(seq) - 1 /\ Head(seq) = seq[1] /\ Len(seq) \in Nat \ {0}
  OBVIOUS
<1>3. \A i \in 1..Len(Tail(seq)) : Tail(seq)[i] = seq[i + 1]
  OBVIOUS
<1>4. DOMAIN seq = 1..Len(seq) /\ DOMAIN Tail(seq) = 1..Len(Tail(seq))
  BY <1>1
<1>5. ASSUME NEW x \in Named(seq) PROVE x \in {Head(seq)} \cup Named(Tail(seq))
  <2>1. PICK i \in 1..Len(seq) : x = seq[i]
    BY <1>4 DEF Named
  <2>2. CASE i = 1
    BY <2>1, <2>2, <1>2
  <2>3. CASE i # 1
    <3>1. i - 1 \in 1..Len(Tail(seq)) /\ Tail(seq)[i - 1] = seq[i]
      BY <2>3, <1>2, <1>3
    <3> QED BY <3>1, <2>1, <1>4 DEF Named
  <2> QED BY <2>2, <2>3
<1>6. ASSUME NEW x \in Named(Tail(seq)) PROVE x \in Named(seq)
  <2>1. PICK i \in 1..Len(Tail(seq)) : x = Tail(seq)[i]
    BY <1>4 DEF Named
  <2>2. i + 1 \in 1..Len(seq) /\ x = seq[i + 1]
    BY <2>1, <1>2, <1>3
  <2> QED BY <2>2, <1>4 DEF Named
<1>7. Head(seq) \in Named(seq)
  BY <1>2, <1>4 DEF Named
<1> QED BY <1>1, <1>5, <1>6, <1>7

LEMMA AppendEntrants ==
  ASSUME NEW seq \in Seq(Plugin \X BOOLEAN), NEW p \in Plugin, NEW kit \in BOOLEAN
  PROVE  /\ Append(seq, <<p, kit>>) \in Seq(Plugin \X BOOLEAN)
         /\ Entrants(Append(seq, <<p, kit>>)) = Entrants(seq) \cup {p}
<1> DEFINE more == Append(seq, <<p, kit>>)
<1>1. more \in Seq(Plugin \X BOOLEAN)
  OBVIOUS
<1>2. Len(more) = Len(seq) + 1 /\ Len(seq) \in Nat /\ DOMAIN seq = 1..Len(seq) /\ DOMAIN more = 1..Len(more)
  BY <1>1
<1>3. (\A i \in 1..Len(seq) : more[i] = seq[i]) /\ more[Len(seq) + 1] = <<p, kit>>
  OBVIOUS
<1> HIDE DEF more
<1>4. \A i \in 1..Len(more) : i \in 1..Len(seq) \/ i = Len(seq) + 1
  BY <1>2
<1>5. ASSUME NEW x \in Entrants(more) PROVE x \in Entrants(seq) \cup {p}
  <2>1. PICK i \in 1..Len(more) : x = more[i][1]
    BY <1>2 DEF Entrants
  <2> QED BY <2>1, <1>2, <1>3, <1>4 DEF Entrants
<1>6. ASSUME NEW x \in Entrants(seq) PROVE x \in Entrants(more)
  <2>1. PICK i \in 1..Len(seq) : x = seq[i][1]
    BY <1>2 DEF Entrants
  <2>2. i \in 1..Len(more) /\ x = more[i][1]
    BY <2>1, <1>2, <1>3
  <2> QED BY <2>2, <1>2 DEF Entrants
<1>7. p \in Entrants(more)
  <2>1. Len(seq) + 1 \in 1..Len(more) /\ more[Len(seq) + 1][1] = p
    BY <1>2, <1>3
  <2> QED BY <2>1, <1>2 DEF Entrants
<1>8. Entrants(more) = Entrants(seq) \cup {p}
  BY <1>5, <1>6, <1>7
<1> QED BY <1>1, <1>8 DEF more

LEMMA Begun == Init => IInv
<1> SUFFICES ASSUME Init PROVE IInv
  OBVIOUS
<1>1. stage = "idle" /\ cfg \in Configs /\ flags \in Overrides /\ DOMAIN files = {"go", "sibling", "work", "refs", "dev", "sum"}
  BY GenAssumption DEF Init
<1>2. Nothing \in [{} -> Tree] /\ devRoots = Nothing
  BY DEF Nothing, Init
<1>3. devRoots \in Roots
  BY <1>2 DEF Roots
<1>4. entries \in Seq(Plugin \X BOOLEAN)
  BY DEF Init
<1> QED BY <1>1, <1>3, <1>4 DEF IInv, Values, Resolved, Registering, SiblingWritten, GoWritten, DevWritten,
  BinaryAsAsked, Reading, Writing

\* A run that stops leaves the invariant with its values only.
LEMMA Failing ==
  ASSUME Values', stage' = "failed" \/ (stage' = "resolve" /\ entries' = <<>>)
  PROVE  IInv'
BY DEF IInv, Resolved, Registering, SiblingWritten, GoWritten, DevWritten, BinaryAsAsked, Reading, Writing

LEMMA ValuesKept ==
  ASSUME Values, UNCHANGED <<gen, files>>
  PROVE  Values'
BY DEF Values, gen

LEMMA FailStep == ASSUME IInv, Fail PROVE IInv'
<1>1. Values'
  BY ValuesKept DEF IInv, Fail
<1> QED BY <1>1, Failing DEF Fail

LEMMA BeginStep == ASSUME IInv, Begin PROVE IInv'
<1>1. Nothing \in [{} -> Tree]
  BY DEF Nothing
<1>2. Nothing \in Roots
  BY <1>1 DEF Roots
<1>3. Values'
  BY <1>2 DEF IInv, Values, Begin
<1> QED BY <1>3, Failing DEF Begin

LEMMA FlagNames ==
  ASSUME NEW fs \in Seq(Flag)
  PROVE  /\ {fs[i].name : i \in DOMAIN fs} \subseteq Plugin
         /\ {fs[i].name : i \in DOMAIN fs} = {} <=> fs = <<>>
         /\ \A p \in {fs[i].name : i \in DOMAIN fs} : (CHOOSE f \in {fs[i] : i \in DOMAIN fs} : f.name = p).tree \in Tree
<1>1. \A i \in DOMAIN fs : fs[i] \in Flag
  OBVIOUS
<1>2. \A f \in Flag : f.name \in Plugin /\ f.tree \in Tree
  BY DEF Flag
<1>3. ASSUME fs # <<>> PROVE 1 \in DOMAIN fs
  BY <1>3
<1>4. ASSUME NEW p \in {fs[i].name : i \in DOMAIN fs}
      PROVE  (CHOOSE f \in {fs[i] : i \in DOMAIN fs} : f.name = p).tree \in Tree
  <2>1. \E f \in {fs[i] : i \in DOMAIN fs} : f.name = p
    OBVIOUS
  <2>2. (CHOOSE f \in {fs[i] : i \in DOMAIN fs} : f.name = p) \in {fs[i] : i \in DOMAIN fs}
    BY <2>1
  <2> QED BY <2>2, <1>1, <1>2
<1>5. {fs[i].name : i \in DOMAIN fs} \subseteq Plugin
  BY <1>1, <1>2
<1>6. fs = <<>> => {fs[i].name : i \in DOMAIN fs} = {}
  OBVIOUS
<1>7. fs # <<>> => {fs[i].name : i \in DOMAIN fs} # {}
  BY <1>3
<1> QED BY <1>4, <1>5, <1>6, <1>7

LEMMA ResolveStep == ASSUME IInv, ResolveDevPlugins PROVE IInv'
<1>1. CASE Fail
  BY <1>1, FailStep
<1>2. CASE ~Fail
  <2> DEFINE names == {flags[i].name : i \in DOMAIN flags}
             tree(p) == (CHOOSE f \in {flags[i] : i \in DOMAIN flags} : f.name = p).tree
  <2>1. stage' = "index" /\ devRoots' = [p \in names |-> tree(p)] /\ UNCHANGED <<cfg, flags, entries, files>>
    BY <1>2 DEF ResolveDevPlugins
  <2>2. flags \in Seq(Flag)
    BY GenAssumption DEF IInv, Values
  <2>3. names \subseteq Plugin /\ (names = {} <=> flags = <<>>) /\ \A p \in names : tree(p) \in Tree
    BY <2>2, FlagNames
  <2> HIDE DEF names, tree
  <2>4. devRoots' \in [names -> Tree] /\ DOMAIN devRoots' = names
    BY <2>1, <2>3
  <2>5. devRoots' \in Roots
    BY <2>3, <2>4 DEF Roots
  <2>6. Values'
    BY <2>1, <2>5 DEF IInv, Values
  <2>7. Resolved'
    BY <2>1, <2>3, <2>4 DEF Resolved
  <2>8. entries = <<>>
    BY DEF IInv, Registering, ResolveDevPlugins
  <2> QED BY <2>1, <2>6, <2>7, <2>8 DEF IInv, Registering, SiblingWritten, GoWritten, DevWritten, BinaryAsAsked, Writing
<1> QED BY <1>1, <1>2

\* Until the registrations, a step that keeps the files keeps the invariant.
LEMMA ReadingStep ==
  ASSUME IInv, stage \in {"index", "weld"}, stage' \in {"index", "weld"},
         UNCHANGED <<cfg, flags, devRoots, entries, files>>
  PROVE  IInv'
<1>1. Values'
  BY DEF IInv, Values
<1>2. Resolved'
  BY DEF IInv, Resolved, Reading
<1> QED BY <1>1, <1>2 DEF IInv, Registering, SiblingWritten, GoWritten, DevWritten, BinaryAsAsked, Writing

LEMMA IndexStep == ASSUME IInv, Index PROVE IInv'
<1>1. CASE SkipRepo
  <2>1. CASE Fail
    BY <2>1, FailStep
  <2>2. CASE ~Fail
    BY <1>1, <2>2, ReadingStep DEF SkipRepo, gen
  <2> QED BY <2>1, <2>2
<1>2. CASE IndexRepo
  <2>1. CASE Fail
    BY <2>1, FailStep
  <2>2. CASE ~Fail
    BY <1>2, <2>2, ReadingStep DEF IndexRepo
  <2> QED BY <2>1, <2>2
<1>3. CASE Indexed
  BY <1>3, ReadingStep DEF Indexed, gen
<1> QED BY <1>1, <1>2, <1>3 DEF Index

LEMMA WeldStep == ASSUME IInv, Weld PROVE IInv'
<1>1. CASE WeldLine
  <2>1. CASE Fail
    BY <2>1, FailStep
  <2>2. CASE ~Fail
    BY <1>1, <2>2, ReadingStep DEF WeldLine, gen
  <2> QED BY <2>1, <2>2
<1>2. CASE Welded
  <2>1. CASE Fail
    BY <2>1, FailStep
  <2>2. CASE ~Fail
    <3>1. stage = "weld" /\ stage' = "entries" /\ todo' = cfg.compiled /\ UNCHANGED <<cfg, flags, devRoots, entries, files>>
      BY <1>2, <2>2 DEF Welded, gen
    <3>2. Values'
      BY <3>1 DEF IInv, Values
    <3>3. Resolved'
      BY <3>1 DEF IInv, Resolved, Reading
    <3>4. entries = <<>> /\ cfg \in Config
      BY <3>1, GenAssumption DEF IInv, Registering, Values
    <3>5. cfg.compiled \in Seq(Plugin) /\ Named(cfg.compiled) = Compiled
      BY <3>4 DEF Config, Named, Compiled
    <3>6. Entrants(<<>>) = {}
      BY DEF Entrants
    <3>7. Compiled' = Compiled
      BY <3>1 DEF Compiled
    <3>8. Entrants(entries) \cup Named(cfg.compiled) = Compiled
      BY <3>4, <3>5, <3>6
    <3>9. Registering'
      BY <3>1, <3>5, <3>7, <3>8 DEF Registering, Writing
    <3> QED BY <3>1, <3>2, <3>3, <3>9 DEF IInv, SiblingWritten, GoWritten, DevWritten, BinaryAsAsked, Writing
  <2> QED BY <2>1, <2>2
<1> QED BY <1>1, <1>2 DEF Weld

LEMMA EntryStep == ASSUME IInv, Entry PROVE IInv'
<1>1. CASE Fail
  BY <1>1, FailStep
<1>2. CASE ~Fail
  <2> DEFINE p == Head(todo)
             kit == SourceOf(p).kit
  <2>1. /\ stage = "entries" /\ stage' = "entries" /\ todo # <<>>
        /\ entries' = Append(entries, <<p, kit>>) /\ todo' = Tail(todo)
        /\ UNCHANGED <<cfg, flags, devRoots, files>>
    BY <1>2 DEF Entry
  <2>2. todo \in Seq(Plugin) /\ Entrants(entries) \cup Named(todo) = Compiled
    BY <2>1 DEF IInv, Registering
  <2>3. p \in Plugin /\ Tail(todo) \in Seq(Plugin) /\ Named(todo) = {p} \cup Named(Tail(todo))
    BY <2>1, <2>2, TailNamed
  <2>4. PICK S \in SUBSET Plugin : devRoots \in [S -> Tree]
    BY DEF IInv, Values, Roots
  <2>5. SourceOf(p) \in Tree
    BY <2>3, <2>4, GenAssumption DEF SourceOf
  <2>6. kit \in BOOLEAN
    BY <2>5 DEF Tree
  <2> HIDE DEF p, kit
  <2>7. entries' \in Seq(Plugin \X BOOLEAN) /\ Entrants(entries') = Entrants(entries) \cup {p}
    BY <2>1, <2>3, <2>6, AppendEntrants DEF IInv, Values
  <2>8. Compiled' = Compiled
    BY <2>1 DEF Compiled
  <2>9. Entrants(entries') \cup Named(Tail(todo)) = Compiled
    BY <2>2, <2>3, <2>7
  <2>10. Values'
    BY <2>1, <2>7 DEF IInv, Values
  <2>11. Resolved'
    BY <2>1 DEF IInv, Resolved, Reading
  <2>12. Registering'
    BY <2>1, <2>3, <2>8, <2>9 DEF Registering, Writing
  <2> QED BY <2>1, <2>10, <2>11, <2>12 DEF IInv, SiblingWritten, GoWritten, DevWritten, BinaryAsAsked, Writing
<1> QED BY <1>1, <1>2

LEMMA EnteredStep == ASSUME IInv, Entered PROVE IInv'
<1>1. stage = "entries" /\ todo = <<>> /\ stage' = "sibling" /\ UNCHANGED <<cfg, flags, devRoots, entries, files>>
  BY DEF Entered, gen
<1>2. Values'
  BY <1>1 DEF IInv, Values
<1>3. Resolved'
  BY <1>1 DEF IInv, Resolved, Reading
<1>4. Named(<<>>) = {}
  BY DEF Named
<1>5. Entrants(entries) = Compiled
  BY <1>1, <1>4 DEF IInv, Registering
<1>6. Compiled' = Compiled
  BY <1>1 DEF Compiled
<1>7. Registering'
  BY <1>1, <1>5, <1>6 DEF Registering, Writing
<1> QED BY <1>1, <1>2, <1>3, <1>7 DEF IInv, SiblingWritten, GoWritten, DevWritten, BinaryAsAsked, Writing

\* A write that succeeds: what it leaves alone, and what follows for the parts that read none
\* of the files.
LEMMA Written ==
  ASSUME IInv, NEW from, NEW file, NEW content, NEW to, Write(from, file, content, to),
         file \in {"go", "sibling", "work", "refs", "dev", "sum"},
         from \in {"sibling"} \cup Writing, to \in Writing
  PROVE  \/ IInv'
         \/ /\ stage = from /\ stage' = to /\ files' = [files EXCEPT ![file] = content]
            /\ UNCHANGED <<cfg, flags, devRoots, entries, todo, binary>>
            /\ Values' /\ Resolved' /\ Registering'
            /\ files'[file] = content
            /\ \A other \in DOMAIN files : other # file => files'[other] = files[other]
            /\ OutOfProcess' = OutOfProcess
<1>1. UNCHANGED <<cfg, flags, devRoots, entries, todo, binary>> /\ stage = from
  BY DEF Write, gen
<1>2. DOMAIN files' = DOMAIN files
  BY DEF Write
<1>3. Values'
  BY <1>1, <1>2 DEF IInv, Values
<1>4. CASE stage' = "failed"
  BY <1>3, <1>4, Failing
<1>5. CASE stage' # "failed"
  <2>1. stage' = to /\ files' = [files EXCEPT ![file] = content]
    BY <1>5 DEF Write
  <2>2. Resolved'
    BY <1>1, <2>1 DEF IInv, Resolved, Reading, Writing
  <2>3. Compiled' = Compiled
    BY <1>1 DEF Compiled
  <2>4. Registering'
    BY <1>1, <2>1, <2>3 DEF IInv, Registering, Writing
  <2>5. file \in DOMAIN files
    BY DEF IInv, Values
  <2>6. OutOfProcess' = OutOfProcess
    BY <1>1, <2>3 DEF OutOfProcess
  <2> QED BY <1>1, <1>3, <2>1, <2>2, <2>4, <2>5, <2>6
<1> QED BY <1>4, <1>5

LEMMA SiblingStep == ASSUME IInv, WriteSibling PROVE IInv'
<1> DEFINE content == IF DOMAIN OutOfProcess = {} THEN absent ELSE OutOfProcess
<1>1. Write("sibling", "sibling", content, "go")
  BY DEF WriteSibling
<1> HIDE DEF content
<1>2. CASE ~IInv'
  <2>1. /\ stage' = "go" /\ Values' /\ Resolved' /\ Registering'
        /\ files'["sibling"] = content /\ OutOfProcess' = OutOfProcess
    BY <1>1, <1>2, Written DEF Writing
  <2>2. SiblingWritten'
    BY <2>1 DEF SiblingWritten, content
  <2> QED BY <2>1, <2>2 DEF IInv, GoWritten, DevWritten, BinaryAsAsked
<1> QED BY <1>2

LEMMA TrackedStep == ASSUME IInv, WriteGo \/ WriteWork \/ WriteRefs PROVE IInv'
<1>1. CASE WriteGo
  <2>1. Write("go", "go", entries, "work")
    BY <1>1 DEF WriteGo
  <2>2. CASE ~IInv'
    <3>1. /\ stage = "go" /\ stage' = "work" /\ Values' /\ Resolved' /\ Registering' /\ UNCHANGED entries
          /\ files'["go"] = entries /\ OutOfProcess' = OutOfProcess
          /\ \A other \in DOMAIN files : other # "go" => files'[other] = files[other]
      BY <2>1, <2>2, Written DEF Writing
    <3>2. files'["sibling"] = files["sibling"]
      BY <3>1 DEF IInv, Values
    <3>3. SiblingWritten'
      BY <3>1, <3>2 DEF IInv, SiblingWritten, Writing
    <3>4. GoWritten'
      BY <3>1 DEF GoWritten
    <3> QED BY <3>1, <3>3, <3>4 DEF IInv, DevWritten, BinaryAsAsked
  <2> QED BY <2>2
<1>2. ASSUME NEW from \in {"work", "refs"}, NEW content, NEW to \in {"refs", "dev"}, Write(from, from, content, to)
      PROVE  IInv'
  <2>1. CASE ~IInv'
    <3>1. /\ stage = from /\ stage' = to /\ Values' /\ Resolved' /\ Registering' /\ UNCHANGED entries
          /\ OutOfProcess' = OutOfProcess
          /\ \A other \in DOMAIN files : other # from => files'[other] = files[other]
      BY <1>2, <2>1, Written DEF Writing
    <3>2. files'["sibling"] = files["sibling"] /\ files'["go"] = files["go"]
      BY <3>1 DEF IInv, Values
    <3>3. SiblingWritten'
      BY <3>1, <3>2 DEF IInv, SiblingWritten, Writing
    <3>4. GoWritten'
      BY <3>1, <3>2 DEF IInv, GoWritten, Writing
    <3> QED BY <3>1, <3>3, <3>4 DEF IInv, DevWritten, BinaryAsAsked
  <2> QED BY <2>1
<1> QED BY <1>1, <1>2 DEF WriteWork, WriteRefs

LEMMA DevStep == ASSUME IInv, WriteDevWork PROVE IInv'
<1>1. CASE DOMAIN devRoots # {}
  <2>1. Write("dev", "dev", devRoots, "build")
    BY <1>1 DEF WriteDevWork
  <2>2. CASE ~IInv'
    <3>1. /\ stage = "dev" /\ stage' = "build" /\ Values' /\ Resolved' /\ Registering' /\ UNCHANGED <<flags, entries, devRoots>>
          /\ files'["dev"] = devRoots /\ OutOfProcess' = OutOfProcess
          /\ \A other \in DOMAIN files : other # "dev" => files'[other] = files[other]
      BY <2>1, <2>2, Written DEF Writing
    <3>2. files'["sibling"] = files["sibling"] /\ files'["go"] = files["go"]
      BY <3>1 DEF IInv, Values
    <3>3. SiblingWritten'
      BY <3>1, <3>2 DEF IInv, SiblingWritten, Writing
    <3>4. GoWritten'
      BY <3>1, <3>2 DEF IInv, GoWritten, Writing
    <3>5. flags # <<>>
      BY <1>1, <3>1 DEF IInv, Resolved, Writing
    <3>6. DevWritten'
      BY <3>1, <3>5 DEF DevWritten
    <3> QED BY <3>1, <3>3, <3>4, <3>6 DEF IInv, BinaryAsAsked
  <2> QED BY <2>2
<1>2. CASE DOMAIN devRoots = {}
  <2>1. Write("dev", "dev", absent, "sum")
    BY <1>2 DEF WriteDevWork
  <2>2. CASE ~IInv'
    <3>1. /\ stage = "dev" /\ stage' = "sum" /\ Values' /\ Resolved' /\ Registering' /\ UNCHANGED <<flags, entries, devRoots>>
          /\ files'["dev"] = absent /\ OutOfProcess' = OutOfProcess
          /\ \A other \in DOMAIN files : other # "dev" => files'[other] = files[other]
      BY <2>1, <2>2, Written DEF Writing
    <3>2. files'["sibling"] = files["sibling"] /\ files'["go"] = files["go"]
      BY <3>1 DEF IInv, Values
    <3>3. SiblingWritten'
      BY <3>1, <3>2 DEF IInv, SiblingWritten, Writing
    <3>4. GoWritten'
      BY <3>1, <3>2 DEF IInv, GoWritten, Writing
    <3>5. flags = <<>>
      BY <1>2, <3>1 DEF IInv, Resolved, Writing
    <3>6. DevWritten'
      BY <3>1, <3>5 DEF DevWritten
    <3> QED BY <3>1, <3>3, <3>4, <3>6 DEF IInv, BinaryAsAsked
  <2> QED BY <2>2
<1> QED BY <1>1, <1>2

LEMMA SumStep == ASSUME IInv, RemoveSum PROVE IInv'
<1>1. Write("sum", "sum", absent, "build")
  BY DEF RemoveSum
<1>2. CASE ~IInv'
  <2>1. /\ stage = "sum" /\ stage' = "build" /\ Values' /\ Resolved' /\ Registering' /\ UNCHANGED <<flags, entries>>
        /\ files'["sum"] = absent /\ OutOfProcess' = OutOfProcess
        /\ \A other \in DOMAIN files : other # "sum" => files'[other] = files[other]
    BY <1>1, <1>2, Written DEF Writing
  <2>2. files'["sibling"] = files["sibling"] /\ files'["go"] = files["go"] /\ files'["dev"] = files["dev"]
    BY <2>1 DEF IInv, Values
  <2>3. SiblingWritten'
    BY <2>1, <2>2 DEF IInv, SiblingWritten, Writing
  <2>4. GoWritten'
    BY <2>1, <2>2 DEF IInv, GoWritten, Writing
  <2>5. DevWritten'
    BY <2>1, <2>2 DEF IInv, DevWritten
  <2> QED BY <2>1, <2>3, <2>4, <2>5 DEF IInv, BinaryAsAsked
<1> QED BY <1>2

LEMMA OutOfProcessThere == ASSUME Values PROVE OutOfProcess # absent
<1>1. PICK S \in SUBSET Plugin : devRoots \in [S -> Tree]
  BY DEF Values, Roots
<1>2. S \ Compiled \in SUBSET Plugin /\ OutOfProcess \in [S \ Compiled -> Tree]
  BY <1>1 DEF OutOfProcess
<1> QED BY <1>2, MarksAreApart

LEMMA NothingIsEmpty == ASSUME NEW f, f = [x \in DOMAIN f |-> f[x]], DOMAIN f = {} PROVE f = Nothing
BY DEF Nothing

LEMMA BuildStep == ASSUME IInv, Build PROVE IInv'
<1> DEFINE use == IF flags # <<>> THEN files["dev"] ELSE Nothing
           linked == [p \in Entrants(files["go"]) |-> IF p \in DOMAIN use THEN use[p] ELSE pinned]
<1>1. /\ stage = "build" /\ stage' = "done" /\ UNCHANGED <<cfg, flags, devRoots, entries>>
      /\ binary' = [linked |-> linked, seeds |-> IF files["sibling"] = absent THEN Nothing ELSE files["sibling"]]
      /\ files' = IF flags # <<>> THEN [files EXCEPT !.sum = locked] ELSE files
  BY DEF Build, gen, Entrants
<1>2. Entrants(files["go"]) = Compiled
  BY <1>1 DEF IInv, GoWritten, Registering, Writing
<1>3. PICK S \in SUBSET Plugin : devRoots \in [S -> Tree]
  BY DEF IInv, Values, Roots
<1>4. DOMAIN devRoots = {} <=> flags = <<>>
  BY <1>1 DEF IInv, Resolved, Writing
<1>5. DOMAIN use = DOMAIN devRoots /\ \A p \in DOMAIN devRoots : use[p] = devRoots[p]
  <2>1. CASE flags # <<>>
    BY <2>1, <1>1 DEF IInv, DevWritten
  <2>2. CASE flags = <<>>
    <3>1. DOMAIN Nothing = {}
      BY DEF Nothing
    <3> QED BY <2>2, <3>1, <1>4
  <2> QED BY <2>1, <2>2
<1> HIDE DEF use
<1>6. linked = [p \in Compiled |-> IF p \in DOMAIN devRoots THEN devRoots[p] ELSE pinned]
  BY <1>2, <1>5
<1> HIDE DEF linked
<1>7. files["sibling"] = IF DOMAIN OutOfProcess = {} THEN absent ELSE OutOfProcess
  BY <1>1 DEF IInv, SiblingWritten, Writing
<1>8. (IF files["sibling"] = absent THEN Nothing ELSE files["sibling"]) = OutOfProcess
  <2>1. CASE DOMAIN OutOfProcess = {}
    <3>1. OutOfProcess = [x \in DOMAIN OutOfProcess |-> OutOfProcess[x]]
      BY DEF OutOfProcess
    <3>2. OutOfProcess = Nothing
      BY <2>1, <3>1, NothingIsEmpty
    <3> QED BY <2>1, <3>2, <1>7
  <2>2. CASE DOMAIN OutOfProcess # {}
    BY <2>2, <1>7, OutOfProcessThere DEF IInv
  <2> QED BY <2>1, <2>2
<1>9. binary'.linked = linked /\ binary'.seeds = OutOfProcess
  BY <1>1, <1>8
<1>10. Compiled' = Compiled
  BY <1>1 DEF Compiled
<1>11. OutOfProcess' = OutOfProcess
  BY <1>1, <1>10 DEF OutOfProcess
<1>12. BinaryAsAsked'
  BY <1>1, <1>6, <1>9, <1>10, <1>11 DEF BinaryAsAsked
<1>13. DOMAIN files' = DOMAIN files /\ files'["sibling"] = files["sibling"] /\ files'["dev"] = files["dev"]
       /\ (flags = <<>> => files'["sum"] = files["sum"])
  BY <1>1 DEF IInv, Values
<1>14. Values'
  BY <1>1, <1>13 DEF IInv, Values
<1>15. Resolved'
  BY <1>1, <1>4 DEF Resolved
<1>16. SiblingWritten'
  BY <1>7, <1>11, <1>13 DEF SiblingWritten
<1>17. DevWritten'
  BY <1>1, <1>13 DEF IInv, DevWritten
<1> QED BY <1>1, <1>12, <1>14, <1>15, <1>16, <1>17 DEF IInv, Registering, GoWritten, Writing

LEMMA StopStep == ASSUME IInv, Stop PROVE IInv'
<1>1. CASE Fail
  BY <1>1, FailStep
<1>2. CASE ~Fail
  <2>1. stage' = "failed" /\ DOMAIN files' = DOMAIN files /\ UNCHANGED <<cfg, flags, devRoots, entries>>
    BY <1>2 DEF Stop, gen
  <2>2. Values'
    BY <2>1 DEF IInv, Values
  <2> QED BY <2>1, <2>2, Failing
<1> QED BY <1>1, <1>2

LEMMA Stutter == ASSUME IInv, UNCHANGED vars PROVE IInv'
<1>1. UNCHANGED <<stage, cfg, flags, devRoots, entries, todo, files, binary>>
  BY DEF vars, gen
<1>2. Compiled' = Compiled
  BY <1>1 DEF Compiled
<1>3. OutOfProcess' = OutOfProcess
  BY <1>1, <1>2 DEF OutOfProcess
<1> QED BY <1>1, <1>2, <1>3 DEF IInv, Values, Resolved, Registering, SiblingWritten, GoWritten, DevWritten, BinaryAsAsked

\* The bootstrap's files and binary at every stage: type correctness of a run's values, which
\* files of this run are written, and what the last binary was built from.
THEOREM Inductive == Spec => []IInv
<1>1. IInv /\ [Next]_vars => IInv'
  <2> SUFFICES ASSUME IInv, [Next]_vars PROVE IInv'
    OBVIOUS
  <2>1. CASE Begin
    BY <2>1, BeginStep
  <2>2. CASE ResolveDevPlugins
    BY <2>2, ResolveStep
  <2>3. CASE Index
    BY <2>3, IndexStep
  <2>4. CASE Weld
    BY <2>4, WeldStep
  <2>5. CASE Entry
    BY <2>5, EntryStep
  <2>6. CASE Entered
    BY <2>6, EnteredStep
  <2>7. CASE Emit
    BY <2>7, SiblingStep, TrackedStep, DevStep, SumStep DEF Emit
  <2>8. CASE Build
    BY <2>8, BuildStep
  <2>9. CASE Stop
    BY <2>9, StopStep
  <2>10. CASE Over \/ UNCHANGED vars
    BY <2>10, Stutter DEF Over
  <2> QED BY <2>1, <2>2, <2>3, <2>4, <2>5, <2>6, <2>7, <2>8, <2>9, <2>10 DEF Next
<1> QED BY <1>1, Begun, PTL DEF Spec

\* A binary is built from the checkouts its own run was given and no other, whatever
\* interrupted runs left behind (run, writeDevWork, writeDevOverrideSibling, bootstrap-charly.sh).
THEOREM BuiltAsAsked == Spec => []BinaryAsAsked
<1>1. IInv => BinaryAsAsked
  BY DEF IInv
<1> QED BY <1>1, Inductive, PTL

\* A plain run that succeeds leaves no dev workspace, no checksums of one and no redirections
\* (writeDevWork, writeDevOverrideSibling).
THEOREM PlainLeavesNothing == Spec => []NothingLocalLeft
<1>1. IInv => NothingLocalLeft
  <2> SUFFICES ASSUME IInv, stage = "done", flags = <<>>
      PROVE  files["dev"] = absent /\ files["sum"] = absent /\ files["sibling"] = absent
    BY DEF NothingLocalLeft
  <2>1. DOMAIN devRoots = {}
    BY DEF IInv, Resolved
  <2>2. DOMAIN OutOfProcess = {}
    BY <2>1 DEF OutOfProcess
  <2> QED BY <2>2 DEF IInv, DevWritten, SiblingWritten
<1> QED BY <1>1, Inductive, PTL

(***************************************************************************)
(* The index and the welded commands                                       *)
(***************************************************************************)

Distinct(seq) == \A i, j \in DOMAIN seq : seq[i] = seq[j] => i = j

\* The index so far is what it would be if no further repository came.
IndexSound ==
  /\ DOMAIN indexed \subseteq Plugin
  /\ DOMAIN wordRefs = UNION {DOMAIN indexed[r] : r \in DOMAIN indexed}
  /\ \A w \in DOMAIN wordRefs :
       {wordRefs[w]} = IF Declared(w) \cap Compiled # {} THEN Declared(w) \cap Compiled ELSE Declared(w)
  /\ \A r \in DOMAIN indexed : indexed[r] \in RefsOf(TreeOf(r))

Covered == Compiled \subseteq DOMAIN indexed

\* No repository is read twice, and no compiled-in one is passed over.
ToIndex ==
  /\ todo \in Seq(Plugin) /\ Distinct(todo) /\ Named(todo) \cap DOMAIN indexed = {}
  /\ Compiled \subseteq DOMAIN indexed \cup Named(todo)

\* Each line that was read has a command at its pin, and a pin follows the index.
Welds ==
  /\ \A w \in DOMAIN weldedRefs : w \in DOMAIN wordRefs /\ wordRefs[w] = weldedRefs[w][1]
  /\ stage = "weld" => todo \in Seq(Line)
  /\ \A line \in Named(cfg.baked) :
       \/ stage = "weld" /\ line \in Named(todo)
       \/ line.name \notin DOMAIN indexed
       \/ \E w \in DOMAIN weldedRefs : weldedRefs[w] = <<line.name, line.tag>>

Later == {"entries", "sibling", "done"} \cup Writing

IndexInv ==
  /\ stage = "resolve" => wordRefs = Nothing /\ indexed = Nothing /\ weldedRefs = Nothing
  /\ stage \in {"index", "weld"} \cup Later => IndexSound
  /\ stage = "index" => ToIndex /\ weldedRefs = Nothing
  /\ stage \in {"weld"} \cup Later => Covered /\ (cfg.packaged => Welds)

\* What does not touch the index leaves it as sound as it was.
LEMMA IndexUntouched ==
  ASSUME UNCHANGED <<cfg, devRoots, wordRefs, indexed>>
  PROVE  IndexSound' = IndexSound /\ Covered' = Covered /\ Compiled' = Compiled
BY DEF IndexSound, Covered, Declared, Compiled, TreeOf

\* Only the two stages of the index and of the welds write them.
LEMMA IndexCarried ==
  ASSUME IndexInv, UNCHANGED gen, stage \in Later, stage' \in Later
  PROVE  IndexInv'
<1>1. UNCHANGED <<cfg, devRoots, wordRefs, indexed, weldedRefs>>
  BY DEF gen
<1>2. IndexSound' = IndexSound /\ Covered' = Covered
  BY <1>1 DEF IndexSound, Covered, Declared, Compiled, TreeOf
<1>3. Welds => Welds'
  BY <1>1 DEF Welds, Named, Later, Writing
<1> QED  BY <1>1, <1>2, <1>3 DEF IndexInv, Later, Writing

\* A run that has stopped, or begins, has no index to speak of.
LEMMA IndexBlank ==
  ASSUME \/ stage' \in {"idle", "failed"}
         \/ stage' = "resolve" /\ wordRefs' = Nothing /\ indexed' = Nothing /\ weldedRefs' = Nothing
  PROVE  IndexInv'
BY DEF IndexInv, Later, Writing

LEMMA ResolveIndexes == ASSUME IInv, IndexInv, ResolveDevPlugins PROVE IndexInv'
<1>1. CASE Fail
  BY <1>1, IndexBlank DEF Fail
<1>2. CASE ~Fail
  <2>1. /\ stage' = "index" /\ todo' = Sorted[Corpus] /\ UNCHANGED <<cfg, wordRefs, indexed, weldedRefs>>
        /\ wordRefs = Nothing /\ indexed = Nothing /\ weldedRefs = Nothing
    BY <1>2 DEF ResolveDevPlugins, IndexInv
  <2>2. IndexSound'
    <3>1. DOMAIN Nothing = {}
      BY DEF Nothing
    <3> QED  BY <2>1, <3>1 DEF IndexSound
  <2>3. cfg \in Config
    BY GenAssumption DEF IInv, Values
  <2>4. Corpus \in SUBSET Plugin /\ Compiled \subseteq Corpus
    BY <2>3 DEF Corpus, Compiled, Config
  <2>5. todo' \in Seq(Plugin) /\ Distinct(todo') /\ Named(todo') = Corpus
    BY <2>1, <2>4, SortAssumption DEF Distinct, Named
  <2>6. DOMAIN indexed' = {} /\ Compiled' = Compiled
    BY <2>1 DEF Nothing, Compiled
  <2>7. ToIndex'
    BY <2>4, <2>5, <2>6 DEF ToIndex
  <2> QED  BY <2>1, <2>2, <2>7 DEF IndexInv, Later, Writing
<1> QED  BY <1>1, <1>2

\* What is left of a list without repetitions does not name its head.
LEMMA TailDistinct ==
  ASSUME NEW S, NEW seq \in Seq(S), seq # <<>>, Distinct(seq)
  PROVE  Distinct(Tail(seq)) /\ Head(seq) \notin Named(Tail(seq))
<1>1. /\ Tail(seq) \in Seq(S) /\ Len(Tail(seq)) = Len(seq) - 1 /\ Head(seq) = seq[1] /\ Len(seq) \in Nat \ {0}
      /\ \A i \in 1 .. Len(Tail(seq)) : Tail(seq)[i] = seq[i + 1]
      /\ DOMAIN seq = 1 .. Len(seq) /\ DOMAIN Tail(seq) = 1 .. Len(Tail(seq))
  OBVIOUS
<1>2. ASSUME NEW i \in DOMAIN Tail(seq) PROVE i + 1 \in DOMAIN seq /\ i + 1 # 1 /\ Tail(seq)[i] = seq[i + 1] /\ i \in Nat
  BY <1>1
<1>3. Distinct(Tail(seq))
  <2> SUFFICES ASSUME NEW i \in DOMAIN Tail(seq), NEW j \in DOMAIN Tail(seq), Tail(seq)[i] = Tail(seq)[j]
               PROVE  i = j
    BY DEF Distinct
  <2>1. i + 1 = j + 1
    BY <1>2 DEF Distinct
  <2> QED  BY <1>2, <2>1
<1>4. Head(seq) \notin Named(Tail(seq))
  <2> SUFFICES ASSUME NEW i \in DOMAIN Tail(seq), Tail(seq)[i] = Head(seq) PROVE FALSE
    BY DEF Named
  <2>1. 1 \in DOMAIN seq
    BY <1>1
  <2> QED  BY <1>1, <1>2, <2>1 DEF Distinct
<1> QED  BY <1>3, <1>4

LEMMA SkipIndexes == ASSUME IInv, IndexInv, SkipRepo PROVE IndexInv'
<1>1. CASE Fail
  BY <1>1, IndexBlank DEF Fail
<1>2. CASE ~Fail
  <2>1. /\ stage = "index" /\ stage' = "index" /\ todo # <<>> /\ todo' = Tail(todo) /\ Head(todo) \notin Compiled
        /\ UNCHANGED <<cfg, devRoots, wordRefs, indexed, weldedRefs>>
    BY <1>2 DEF SkipRepo, gen
  <2>2. ToIndex /\ IndexSound
    BY <2>1 DEF IndexInv
  <2>3. IndexSound'
    BY <2>1, <2>2, IndexUntouched
  <2>4. /\ todo' \in Seq(Plugin) /\ Distinct(todo') /\ Named(todo) = {Head(todo)} \cup Named(todo')
    BY <2>1, <2>2, TailNamed, TailDistinct DEF ToIndex
  <2>5. Compiled' = Compiled
    BY <2>1 DEF Compiled
  <2>6. ToIndex'
    BY <2>1, <2>2, <2>4, <2>5 DEF ToIndex
  <2> QED  BY <2>1, <2>2, <2>3, <2>6 DEF IndexInv, Later, Writing
<1> QED  BY <1>1, <1>2

\* One more repository: who declares a word now, and who is its owner.
LEMMA OwnerOfMore ==
  ASSUME IndexSound, NEW repo \in Plugin \ DOMAIN indexed, NEW refs \in RefsOf(TreeOf(repo)),
         ~Clash(wordRefs, refs), wordRefs' = WithRefs(wordRefs, refs),
         indexed' = [r \in DOMAIN indexed \cup {repo} |-> IF r = repo THEN refs ELSE indexed[r]],
         UNCHANGED <<cfg, devRoots>>
  PROVE  IndexSound'
<1>1. DOMAIN indexed' = DOMAIN indexed \cup {repo} /\ indexed'[repo] = refs
      /\ \A r \in DOMAIN indexed : indexed'[r] = indexed[r]
  OBVIOUS
<1>2. DOMAIN wordRefs' = DOMAIN wordRefs \cup DOMAIN refs
  BY DEF WithRefs
<1>3. DOMAIN wordRefs' = UNION {DOMAIN indexed'[r] : r \in DOMAIN indexed'}
  <2>1. ASSUME NEW w \in DOMAIN indexed, NEW x \in DOMAIN indexed[w] PROVE x \in DOMAIN wordRefs
    BY DEF IndexSound
  <2>2. ASSUME NEW x \in DOMAIN wordRefs PROVE \E r \in DOMAIN indexed : x \in DOMAIN indexed[r]
    BY DEF IndexSound
  <2>3. ASSUME NEW x \in DOMAIN wordRefs' PROVE \E r \in DOMAIN indexed' : x \in DOMAIN indexed'[r]
    BY <1>1, <1>2, <2>2
  <2>4. ASSUME NEW r \in DOMAIN indexed', NEW x \in DOMAIN indexed'[r] PROVE x \in DOMAIN wordRefs'
    BY <1>1, <1>2, <2>1
  <2> HIDE DEF IndexSound
  <2> QED  BY ONLY <2>3, <2>4
<1>4. ASSUME NEW w PROVE Declared(w)' = Declared(w) \cup (IF w \in DOMAIN refs THEN {refs[w]} ELSE {})
  BY <1>1 DEF Declared
<1>5. Compiled' = Compiled
  BY DEF Compiled
<1>6. ASSUME NEW w \in DOMAIN wordRefs'
      PROVE  {wordRefs'[w]} = IF Declared(w)' \cap Compiled' # {} THEN Declared(w)' \cap Compiled' ELSE Declared(w)'
  <2>1. w \notin DOMAIN wordRefs => Declared(w) = {}
    BY DEF IndexSound, Declared
  <2>2. w \in DOMAIN wordRefs =>
          {wordRefs[w]} = IF Declared(w) \cap Compiled # {} THEN Declared(w) \cap Compiled ELSE Declared(w)
    BY DEF IndexSound
  <2>3. CASE w \notin DOMAIN wordRefs
    <3>1. w \in DOMAIN refs /\ wordRefs'[w] = refs[w]
      BY <1>2, <2>3 DEF WithRefs
    <3>2. Declared(w)' = {refs[w]}
      BY <1>4, <2>1, <2>3, <3>1
    <3> QED  BY <1>5, <3>1, <3>2
  <2>4. CASE w \in DOMAIN wordRefs /\ w \notin DOMAIN refs
    <3>1. wordRefs'[w] = wordRefs[w] /\ Declared(w)' = Declared(w)
      BY <1>2, <1>4, <2>4 DEF WithRefs
    <3> QED  BY <1>5, <2>2, <2>4, <3>1
  <2>5. CASE w \in DOMAIN wordRefs /\ w \in DOMAIN refs
    <3> DEFINE x == wordRefs[w]
               y == refs[w]
    <3>1. wordRefs'[w] = IF x \in Compiled \/ y \notin Compiled THEN x ELSE y
      BY <2>5 DEF WithRefs
    <3>2. x # y => ~(x \in Compiled <=> y \in Compiled)
      BY <2>5 DEF Clash
    <3>3. Declared(w)' = Declared(w) \cup {y}
      BY <1>4, <2>5
    <3>4. {x} = IF Declared(w) \cap Compiled # {} THEN Declared(w) \cap Compiled ELSE Declared(w)
      BY <2>2, <2>5
    <3> HIDE DEF x, y
    <3>5. CASE x \in Compiled
      BY <1>5, <3>1, <3>2, <3>3, <3>4, <3>5
    <3>6. CASE x \notin Compiled /\ y \notin Compiled
      BY <1>5, <3>1, <3>2, <3>3, <3>4, <3>6
    <3>7. CASE x \notin Compiled /\ y \in Compiled
      BY <1>5, <3>1, <3>2, <3>3, <3>4, <3>7
    <3> QED  BY <3>5, <3>6, <3>7
  <2> QED  BY <2>3, <2>4, <2>5
<1>7. ASSUME NEW r \in DOMAIN indexed' PROVE indexed'[r] \in RefsOf(TreeOf(r))'
  <2>1. TreeOf(r)' = TreeOf(r)
    BY DEF TreeOf
  <2>2. indexed'[r] \in RefsOf(TreeOf(r))
    BY <1>1, <1>7 DEF IndexSound
  <2> QED  BY <2>1, <2>2 DEF RefsOf
<1> QED  BY <1>1, <1>3, <1>6, <1>7 DEF IndexSound

LEMMA RepoIndexes == ASSUME IInv, IndexInv, IndexRepo PROVE IndexInv'
<1>1. CASE Fail
  BY <1>1, IndexBlank DEF Fail
<1>2. CASE ~Fail
  <2> DEFINE repo == Head(todo)
  <2>1. PICK refs \in RefsOf(TreeOf(repo)) :
          /\ ~Clash(wordRefs, refs) /\ wordRefs' = WithRefs(wordRefs, refs)
          /\ indexed' = [r \in DOMAIN indexed \cup {repo} |-> IF r = repo THEN refs ELSE indexed[r]]
          /\ todo' = Tail(todo)
          /\ UNCHANGED <<stage, cfg, devRoots, weldedRefs>>
    BY <1>2 DEF IndexRepo
  <2>2. stage = "index" /\ todo # <<>> /\ ToIndex /\ IndexSound /\ weldedRefs = Nothing
    BY DEF IndexRepo, IndexInv
  <2>3. /\ repo \in Plugin /\ todo' \in Seq(Plugin) /\ Distinct(todo') /\ repo \notin Named(todo')
        /\ Named(todo) = {repo} \cup Named(todo')
    BY <2>1, <2>2, TailNamed, TailDistinct DEF ToIndex
  <2>4. repo \notin DOMAIN indexed
    BY <2>2, <2>3 DEF ToIndex
  <2> HIDE DEF repo
  <2>5. IndexSound'
    BY <2>1, <2>2, <2>3, <2>4, OwnerOfMore
  <2>6. DOMAIN indexed' = DOMAIN indexed \cup {repo} /\ Compiled' = Compiled
    BY <2>1 DEF Compiled
  <2>7. ToIndex'
    BY <2>2, <2>3, <2>6 DEF ToIndex
  <2> QED  BY <2>1, <2>2, <2>5, <2>7 DEF IndexInv, Later, Writing
<1> QED  BY <1>1, <1>2

LEMMA IndexedIndexes == ASSUME IInv, IndexInv, Indexed PROVE IndexInv'
<1>1. /\ stage = "index" /\ todo = <<>> /\ stage' = "weld" /\ todo' = cfg.baked
      /\ UNCHANGED <<cfg, devRoots, wordRefs, indexed, weldedRefs>>
  BY DEF Indexed, gen
<1>2. ToIndex /\ IndexSound /\ weldedRefs = Nothing
  BY <1>1 DEF IndexInv
<1>3. IndexSound' /\ Compiled' = Compiled
  BY <1>1, <1>2, IndexUntouched
<1>4. Covered'
  BY <1>1, <1>2, <1>3 DEF ToIndex, Covered, Named
<1>5. cfg \in Config
  BY GenAssumption DEF IInv, Values
<1>6. Welds'
  <2>1. cfg.baked \in Seq(Line)
    BY <1>5 DEF Config
  <2>2. DOMAIN Nothing = {}
    BY DEF Nothing
  <2>3. Named(cfg.baked)' = Named(todo)'
    BY <1>1 DEF Named
  <2> QED  BY <1>1, <1>2, <2>1, <2>2, <2>3 DEF Welds
<1> QED  BY <1>1, <1>3, <1>4, <1>6 DEF IndexInv, Later, Writing

LEMMA WeldLineWelds == ASSUME IInv, IndexInv, WeldLine PROVE IndexInv'
<1>1. CASE Fail
  BY <1>1, IndexBlank DEF Fail
<1>2. CASE ~Fail
  <2>1. PICK line, owned, ref : line = Head(todo) /\ owned = OwnedBy(line.name) /\ ref = <<line.name, line.tag>>
    OBVIOUS
  <2>2. /\ stage = "weld" /\ stage' = "weld" /\ cfg.packaged /\ todo # <<>> /\ todo' = Tail(todo)
        /\ UNCHANGED <<cfg, devRoots, wordRefs, indexed>>
        /\ \/ line.name \notin DOMAIN indexed /\ UNCHANGED weldedRefs
           \/ /\ owned # {} /\ \A w \in owned \cap DOMAIN weldedRefs : weldedRefs[w] = ref
              /\ weldedRefs' = [w \in DOMAIN weldedRefs \cup owned |-> IF w \in owned THEN ref ELSE weldedRefs[w]]
    BY <1>2, <2>1 DEF WeldLine, gen
  <2>3. Welds /\ Covered /\ IndexSound
    BY <2>2 DEF IndexInv
  <2>4. IndexSound' /\ Covered'
    BY <2>2, <2>3, IndexUntouched
  <2>5. todo \in Seq(Line) /\ todo' \in Seq(Line) /\ Named(todo) = {line} \cup Named(todo')
    BY <2>1, <2>2, <2>3, TailNamed DEF Welds
  <2>6. ASSUME NEW w \in DOMAIN weldedRefs
        PROVE  w \in DOMAIN weldedRefs' /\ weldedRefs'[w] = weldedRefs[w]
    BY <2>2
  <2>7. ASSUME NEW w \in DOMAIN weldedRefs'
        PROVE  w \in DOMAIN wordRefs /\ wordRefs[w] = weldedRefs'[w][1]
    <3>1. CASE w \in DOMAIN weldedRefs
      BY <2>3, <2>6, <3>1 DEF Welds
    <3>2. CASE w \notin DOMAIN weldedRefs
      <4>1. w \in owned /\ weldedRefs'[w] = ref
        BY <2>2, <2>7, <3>2
      <4> QED  BY <2>1, <4>1 DEF OwnedBy
    <3> QED  BY <3>1, <3>2
  <2>8. line.name \in DOMAIN indexed => \E w \in DOMAIN weldedRefs' : weldedRefs'[w] = <<line.name, line.tag>>
    BY <2>1, <2>2
  <2>9. ASSUME NEW other \in Named(cfg.baked), other \notin Named(todo'), other.name \in DOMAIN indexed
        PROVE  \E w \in DOMAIN weldedRefs' : weldedRefs'[w] = <<other.name, other.tag>>
    <3>1. CASE other = line
      BY <2>8, <2>9, <3>1
    <3>2. CASE other # line
      <4>1. \E w \in DOMAIN weldedRefs : weldedRefs[w] = <<other.name, other.tag>>
        BY <2>3, <2>5, <2>9, <3>2 DEF Welds
      <4> QED  BY <2>6, <4>1
    <3> QED  BY <3>1, <3>2
  <2>10. Named(cfg.baked)' = Named(cfg.baked) /\ Named(todo)' = Named(todo')
    BY <2>2 DEF Named
  <2>11. Welds'
    BY <2>2, <2>5, <2>7, <2>9, <2>10 DEF Welds
  <2> QED  BY <2>2, <2>4, <2>11 DEF IndexInv, Later, Writing
<1> QED  BY <1>1, <1>2

LEMMA WeldedWelds == ASSUME IInv, IndexInv, Welded PROVE IndexInv'
<1>1. CASE Fail
  BY <1>1, IndexBlank DEF Fail
<1>2. CASE ~Fail
  <2>1. /\ stage = "weld" /\ stage' = "entries" /\ (cfg.packaged => todo = <<>>)
        /\ UNCHANGED <<cfg, devRoots, wordRefs, indexed, weldedRefs>>
    BY <1>2 DEF Welded, gen
  <2>2. Covered /\ IndexSound /\ (cfg.packaged => Welds)
    BY <2>1 DEF IndexInv
  <2>3. IndexSound' /\ Covered'
    BY <2>1, <2>2, IndexUntouched
  <2>4. cfg.packaged => Welds'
    BY <2>1, <2>2 DEF Welds, Named
  <2> QED  BY <2>1, <2>3, <2>4 DEF IndexInv, Later, Writing
<1> QED  BY <1>1, <1>2

\* The index and the welds follow their invariant through every step of every run.
LEMMA NextIndexes == ASSUME IInv, IndexInv, [Next]_vars PROVE IndexInv'
<1>1. CASE Begin
  BY <1>1, IndexBlank DEF Begin
<1>2. CASE ResolveDevPlugins
  BY <1>2, ResolveIndexes
<1>3. CASE Index
  BY <1>3, SkipIndexes, RepoIndexes, IndexedIndexes DEF Index
<1>4. CASE Weld
  BY <1>4, WeldLineWelds, WeldedWelds DEF Weld
<1>5. CASE Entry
  <2>1. CASE Fail
    BY <2>1, IndexBlank DEF Fail
  <2>2. CASE ~Fail
    <3>1. stage = "entries" /\ stage' = "entries" /\ UNCHANGED <<cfg, devRoots, wordRefs, indexed, weldedRefs>>
      BY <1>5, <2>2 DEF Entry
    <3>2. IndexSound' = IndexSound /\ Covered' = Covered /\ (Welds => Welds')
      BY <3>1, IndexUntouched DEF Welds, Named
    <3> QED  BY <3>1, <3>2 DEF IndexInv, Later, Writing
  <2> QED  BY <2>1, <2>2
<1>6. CASE Entered \/ Build
  BY <1>6, IndexCarried DEF Entered, Build, Later, Writing
<1>7. ASSUME NEW from \in Later, NEW file, NEW content, NEW to \in Later, Write(from, file, content, to)
      PROVE  IndexInv'
  BY <1>7, IndexCarried, IndexBlank DEF Write
<1>8. CASE Emit
  BY <1>7, <1>8 DEF Emit, WriteSibling, WriteGo, WriteWork, WriteRefs, WriteDevWork, RemoveSum, Later, Writing
<1>9. CASE Stop
  BY <1>9, IndexBlank DEF Stop, Fail
<1>10. CASE Over \/ UNCHANGED vars
  <2>1. UNCHANGED <<stage, todo, cfg, devRoots, wordRefs, indexed, weldedRefs>>
    BY <1>10 DEF Over, vars, gen
  <2>2. /\ IndexSound' = IndexSound /\ Covered' = Covered /\ (Welds => Welds') /\ (ToIndex => ToIndex')
    BY <2>1 DEF IndexSound, Covered, Declared, Compiled, TreeOf, Welds, ToIndex, Named, Distinct
  <2> QED  BY <2>1, <2>2 DEF IndexInv
<1> QED  BY <1>1, <1>2, <1>3, <1>4, <1>5, <1>6, <1>8, <1>9, <1>10 DEF Next

LEMMA InitIndexes == Init => IndexInv
BY DEF Init, IndexInv, Later, Writing

\* The run's invariant, for the theorems about the index.
THEOREM IndexInductive == Spec => []IndexInv
<1>1. IInv /\ IndexInv /\ [Next]_vars => IndexInv'
  BY NextIndexes
<1> QED  BY <1>1, InitIndexes, Inductive, PTL DEF Spec

\* The index of a run that succeeds names for each word its one compiled-in owner, or else its
\* one owner, in whatever order the repositories are read (collectWordRefs).
THEOREM IndexNames == Spec => []IndexNamesOwner
<1>1. IndexInv => IndexNamesOwner
  <2> SUFFICES ASSUME IndexInv, stage = "done" PROVE IndexNamesOwner
    BY DEF IndexNamesOwner
  <2>1. IndexSound /\ Covered
    BY DEF IndexInv, Later
  <2> QED  BY <2>1 DEF IndexNamesOwner, IndexSound, Covered, TreeOf
<1> QED  BY <1>1, IndexInductive, PTL

\* Every baked plugin that was read keeps a command at its pin, and no command is pinned to a
\* plugin the index does not give it (buildWeldedCommandRefs).
THEOREM WeldsFollowIndex == Spec => []WeldedPinned
<1>1. IndexInv => WeldedPinned
  <2> SUFFICES ASSUME IndexInv, stage = "done", cfg.packaged PROVE WeldedPinned
    BY DEF WeldedPinned
  <2>1. Welds
    BY DEF IndexInv, Later
  <2> QED  BY <2>1 DEF WeldedPinned, Welds, Named
<1> QED  BY <1>1, IndexInductive, PTL
=============================================================================
