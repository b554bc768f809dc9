------------------------ MODULE CommandDispatchProofs ------------------------
(* Proofs about CommandDispatch for every set of plugins, projects and command *)
(* lines: the state keeps its types, no server outlives main, the directory of *)
(* the prescan is the one the command works in, and the command parsed is the  *)
(* command run.                                                                *)
EXTENDS CommandDispatch, TLAPS

\* Before the hooks are armed: nothing has been connected.
Early == {"start", "baked", "welded", "scanned", "parsed", "entered"}

(* ---------------------------------- types ---------------------------------- *)

LEMMA Places ==
  ASSUME TypeOK
  PROVE /\ \A p \in Place, d \in Dir : At(d, p) \in Dir \cup {None}
        /\ Repo \in Dir \cup {None}
        /\ Flagged \in Dir \cup {None}
        /\ \A cloned \in BOOLEAN : PreParse(cloned) \in Dir \cup {None}
<1>1. /\ inv.at \in Dir /\ inv.env \in Place /\ inv.flag \in Place /\ inv.stray \in Place
      /\ inv.repo \in Dir \cup {None} /\ inv.repoEnv \in Dir \cup {None} /\ cwd \in Dir
  BY InvocationAssumption DEF TypeOK
<1>2. \A p \in Place, d \in Dir : At(d, p) \in Dir \cup {None}
  BY ProjectAssumption DEF At, Place
<1>3. Repo \in Dir \cup {None}
  BY <1>1 DEF Repo, FirstOf
<1>4. \A a, b \in Place : FirstOf(a, b) \in Place
  BY DEF FirstOf
<1>5. Flagged \in Dir \cup {None}
  BY <1>1, <1>2, <1>4 DEF Flagged
<1>6. ASSUME NEW cloned \in BOOLEAN PROVE PreParse(cloned) \in Dir \cup {None}
  <2> DEFINE dir == FirstOf(inv.env, FirstOf(inv.flag, inv.stray))
  <2>1. dir \in Place
    BY <1>1, <1>4
  <2>2. At(cwd, dir) \in Dir \cup {None}
    BY <2>1, <1>1, <1>2
  <2>3. PreParse(cloned) \in {At(cwd, dir), Repo, cwd}
    <3> HIDE DEF dir
    <3>1. PreParse(cloned) = CASE dir # None -> At(cwd, dir)
                               [] dir = None /\ Repo # None /\ cloned -> Repo
                               [] OTHER -> cwd
      BY DEF PreParse, dir
    <3> QED BY <3>1
  <2> QED BY <2>2, <2>3, <1>1, <1>3
<1> QED BY <1>2, <1>3, <1>5, <1>6

LEMMA Paths ==
  ASSUME TypeOK
  PROVE /\ Grammar \subseteq Seq(Token)
        /\ \A c \in Identity : Key(c) \in Seq(Token) /\ Key(c) # <<>>
        /\ Known \subseteq Identity
<1>1. Linked \subseteq Identity
  BY PluginAssumption DEF Linked
<1>2. Known \subseteq Identity
  BY <1>1 DEF Known, TypeOK
<1>3. ASSUME NEW c \in Identity PROVE Key(c) \in Seq(Token) /\ Key(c) # <<>>
  <2>1. CASE ParentOf[c] = None
    BY <2>1, PluginAssumption DEF Key
  <2>2. CASE ParentOf[c] # None
    <3>1. ParentOf[c] \in Token /\ WordOf[c] \in Token
      BY <2>2, PluginAssumption
    <3> QED BY <2>2, <3>1 DEF Key
  <2> QED BY <2>1, <2>2
<1>4. ASSUME NEW c \in Identity PROVE Leaves(c) \subseteq Seq(Token)
  <2>1. SubsOf(c) \subseteq Token
    BY PluginAssumption DEF SubsOf
  <2>2. \A s \in Token : Append(Key(c), s) \in Seq(Token)
    BY <1>3
  <2> QED BY <2>1, <2>2, <1>3 DEF Leaves
<1>5. Grammar \subseteq Seq(Token)
  BY <1>2, <1>4, IdentityAssumption DEF Grammar
<1> QED BY <1>2, <1>3, <1>5

LEMMA EntryTypes ==
  ASSUME TypeOK, leaf \in Seq(Token), NEW e \in Entries(leaf)
  PROVE e \in [id : Identity, sub : Token \cup {None}]
<1>1. Known \subseteq Identity
  BY Paths
<1>2. CASE e.sub = None /\ e.id \in Known /\ e = [id |-> e.id, sub |-> None]
  BY <1>1, <1>2
<1>3. CASE e = [id |-> e.id, sub |-> Last(leaf)] /\ e.id \in Known /\ Len(leaf) > 1
  <2>1. Last(leaf) \in Token
    BY <1>3 DEF Last
  <2> QED BY <2>1, <1>1, <1>3
<1> QED BY <1>2, <1>3 DEF Entries


LEMMA TypeInit == Init => TypeOK
<1> SUFFICES ASSUME Init PROVE TypeOK
  OBVIOUS
<1>1. inv.at \in Dir
  BY InvocationAssumption DEF Init
<1>2. <<>> \in Seq(Token)
  OBVIOUS
<1> QED BY <1>1, <1>2, ProjectAssumption DEF Init, TypeOK, Phases, NoCommand, NoPass

LEMMA TypeStep == TypeOK /\ [Next]_vars => TypeOK'
<1> SUFFICES ASSUME TypeOK, [Next]_vars PROVE TypeOK'
  OBVIOUS
<1> USE DEF TypeOK, Phases, Armed
<1>1. CASE DiscoverBaked
  BY <1>1 DEF DiscoverBaked
<1>2. CASE RegisterWelded
  BY <1>2 DEF RegisterWelded
<1>3. CASE Prescan
  <2>1. scanned' \in Dir \cup {None} /\ flaked' \in BOOLEAN
    BY <1>3, Places DEF Prescan
  <2>2. /\ UNION {Commands[p] : p \in Declared(scanned')} \subseteq Identity
        /\ UNION {Kinds[p] : p \in Declared(scanned')} \subseteq Kind
    BY PluginAssumption, ProjectAssumption DEF Declared
  <2> QED BY <1>3, <2>1, <2>2 DEF Prescan
<1>4. CASE Parse
  BY <1>4, Paths DEF Parse, Quit
<1>5. CASE Enter
  <2>1. cwd' \in Dir
    BY <1>5, Places DEF Enter
  <2> QED BY <1>5, <2>1 DEF Enter, Quit
<1>6. CASE Preflight
  BY <1>6 DEF Preflight, Quit
<1>7. CASE Dispatch
  <2>1. cmd' \in [id : Identity \cup {None}, sub : Token \cup {None}]
    BY <1>7, EntryTypes DEF Dispatch, NoCommand
  <2>2. phase' \in Phases
    BY <1>7 DEF Dispatch, Resolve, Lane
  <2> QED BY <1>7, <2>1, <2>2 DEF Dispatch
<1>8. CASE StartPass
  <2>1. PICK cloned \in BOOLEAN : pass' = [dir |-> PreParse(cloned), need |-> Unserved, todo |-> {}]
                                  /\ flaked' = (flaked \/ (Repo # None /\ ~cloned))
    BY <1>8 DEF StartPass
  <2>2. PreParse(cloned) \in Dir \cup {None}
    BY Places
  <2>3. Unserved \subseteq Kind
    BY DEF Unserved
  <2>4. pass' \in [dir : Dir \cup {None}, need : SUBSET Kind, todo : SUBSET Plugin] /\ flaked' \in BOOLEAN
    BY <2>1, <2>2, <2>3
  <2> QED BY <1>8, <2>4 DEF StartPass
<1>9. CASE PassLoad
  <2>1. ASSUME pass.dir \in Project PROVE {p \in Declares[pass.dir] : Kinds[p] \cap pass.need # {}} \subseteq Plugin
    BY <2>1, ProjectAssumption
  <2> QED BY <1>9, <2>1 DEF PassLoad
<1>10. CASE PassConnect
  <2>1. \A p \in pass.todo : [plugin |-> p, bytes |-> BytesOf(p)] \in [plugin : Plugin, bytes : Bytes]
    BY DEF BytesOf, Bytes
  <2>2. live' \subseteq [plugin : Plugin, bytes : Bytes]
    BY <1>10, <2>1 DEF PassConnect
  <2>3. \A p : [pass EXCEPT !.todo = @ \ {p}] \in [dir : Dir \cup {None}, need : SUBSET Kind, todo : SUBSET Plugin]
    OBVIOUS
  <2>4. pass' \in [dir : Dir \cup {None}, need : SUBSET Kind, todo : SUBSET Plugin]
    BY <1>10, <2>3 DEF PassConnect
  <2>5. phase' \in Phases /\ failed' \in BOOLEAN
    BY <1>10 DEF PassConnect
  <2> QED BY <1>10, <2>2, <2>4, <2>5 DEF PassConnect
<1>11. CASE BakedLeg
  <2>1. \A k \in pass.need : BakedBy[k] \in Plugin \cup {None}
    BY PluginAssumption
  <2>2. live' \subseteq [plugin : Plugin, bytes : Bytes]
    BY <1>11, <2>1 DEF BakedLeg, Bytes
  <2>3. failed' \in BOOLEAN /\ phase' \in Phases
    BY <1>11 DEF BakedLeg
  <2> QED BY <1>11, <2>2, <2>3 DEF BakedLeg
<1>12. CASE LookAgain
  BY <1>12 DEF LookAgain, Resolve, Lane
<1>13. CASE ExecBoundary
  <2>1. Unserved \subseteq Kind /\ Declared(cwd) \subseteq Plugin
    BY ProjectAssumption DEF Unserved, Declared
  <2>2. \A p \in Plugin : [plugin |-> p, bytes |-> BytesOf(p)] \in [plugin : Plugin, bytes : Bytes]
    BY DEF BytesOf, Bytes
  <2>3. \A k \in Kind : BakedBy[k] # None => [plugin |-> BakedBy[k], bytes |-> "baked"] \in [plugin : Plugin, bytes : Bytes]
    BY PluginAssumption DEF Bytes
  <2>4. live' \subseteq [plugin : Plugin, bytes : Bytes]
    <3>1. PICK k \in Unserved :
            \/ \E p \in Declared(cwd) : live' = live \cup {[plugin |-> p, bytes |-> BytesOf(p)]}
            \/ BakedBy[k] # None /\ live' = live \cup {[plugin |-> BakedBy[k], bytes |-> "baked"]}
      BY <1>13 DEF ExecBoundary
    <3> QED BY <3>1, <2>1, <2>2, <2>3
  <2>5. failed' \in BOOLEAN
    BY <1>13 DEF ExecBoundary
  <2> QED BY <1>13, <2>4, <2>5 DEF ExecBoundary
<1>14. CASE Exec
  BY <1>14 DEF Exec
<1>15. CASE InvokeConnected
  BY <1>15 DEF InvokeConnected
<1>16. CASE InvokeInProc
  BY <1>16 DEF InvokeInProc
<1>17. CASE RunCore
  BY <1>17 DEF RunCore
<1>18. CASE HandlerConnects
  <2>1. Declared(cwd) \subseteq Plugin
    BY ProjectAssumption DEF Declared
  <2>2. \A p \in Plugin : [plugin |-> p, bytes |-> BytesOf(p)] \in [plugin : Plugin, bytes : Bytes]
    BY DEF BytesOf, Bytes
  <2> QED BY <1>18, <2>1, <2>2 DEF HandlerConnects
<1>19. CASE HandlerReturns
  BY <1>19 DEF HandlerReturns
<1>20. CASE Exit
  BY <1>20 DEF Exit
<1>21. CASE Signal
  BY <1>21 DEF Signal, Quit
<1>22. CASE Over \/ UNCHANGED vars
  BY <1>22 DEF Over, vars
<1> QED BY <1>1, <1>2, <1>3, <1>4, <1>5, <1>6, <1>7, <1>8, <1>9, <1>10, <1>11, <1>12, <1>13, <1>14, <1>15,
           <1>16, <1>17, <1>18, <1>19, <1>20, <1>21, <1>22 DEF Next, BeforeParse, Pass, Run

\* Every part of the state of a run keeps its type.
THEOREM TypeCorrect == Spec => []TypeOK
<1> QED BY TypeInit, TypeStep, PTL DEF Spec

(* ------------------------------ the servers -------------------------------- *)

\* Nothing is connected before the hooks that reap it are in place.
NoneEarly == phase \in Early \cup {"exited"} => live = {}

\* No connected plugin server is left when main has exited, on every path out: refused
\* command lines, clones and preflights, failed and finished commands, signals.
THEOREM ReapedOnExit == Spec => []ExitReaps
<1>1. Init => NoneEarly
  BY DEF Init, NoneEarly
<1>2. NoneEarly /\ [Next]_vars => NoneEarly'
  <2> SUFFICES ASSUME NoneEarly, [Next]_vars PROVE NoneEarly'
    OBVIOUS
  <2> USE DEF NoneEarly, Early
  <2>1. CASE BeforeParse
    BY <2>1 DEF BeforeParse, DiscoverBaked, RegisterWelded, Prescan, Parse, Enter, Preflight, Quit
  <2>2. CASE Dispatch
    BY <2>2 DEF Dispatch, Resolve, Lane
  <2>3. CASE Pass
    BY <2>3 DEF Pass, StartPass, PassLoad, PassConnect, BakedLeg, LookAgain, Resolve, Lane
  <2>4. CASE Run
    BY <2>4 DEF Run, ExecBoundary, Exec, InvokeConnected, InvokeInProc, RunCore, HandlerConnects, HandlerReturns
  <2>5. CASE Exit \/ Signal
    BY <2>5 DEF Exit, Signal
  <2>6. CASE Over \/ UNCHANGED vars
    BY <2>6 DEF Over, vars
  <2> QED BY <2>1, <2>2, <2>3, <2>4, <2>5, <2>6 DEF Next
<1>3. NoneEarly => ExitReaps
  BY DEF NoneEarly, ExitReaps
<1> QED BY <1>1, <1>2, <1>3, PTL DEF Spec

(* ------------------------------- one project ------------------------------- *)

\* The selectors alone, without the clones that fail on the way.
Agree ==
  /\ {inv.env, inv.flag} \cap Relative = {} /\ inv.stray = None
  /\ inv.env # None /\ inv.flag # None => inv.env = inv.flag

\* Where a command line leads that carries at most one selector.
Target ==
  IF FirstOf(inv.flag, inv.env) # None THEN FirstOf(inv.flag, inv.env)
  ELSE IF Repo # None THEN Repo ELSE inv.at

OneProject ==
  Agree /\ ~flaked =>
    /\ phase \in {"start", "baked", "welded", "scanned", "parsed"} => cwd = inv.at
    /\ phase \notin {"start", "baked", "welded"} => scanned = Target
    /\ phase \in {"entered", "replaced"} \cup Armed =>
         cwd = Target /\ (Repo # None => FirstOf(inv.flag, inv.env) = None)
    /\ pass.dir # None => pass.dir = Target

LEMMA PreParseTarget ==
  ASSUME TypeOK, Agree, Repo = None \/ FirstOf(inv.flag, inv.env) # None, cwd \in {inv.at, Target}
  PROVE \A cloned \in BOOLEAN : PreParse(cloned) = Target
<1> DEFINE dir == FirstOf(inv.env, FirstOf(inv.flag, inv.stray))
<1>1. dir = FirstOf(inv.flag, inv.env)
  BY DEF Agree, FirstOf
<1>2. dir \notin Relative
  BY <1>1, ProjectAssumption DEF Agree, FirstOf
<1>3. At(cwd, dir) = dir
  BY <1>2 DEF At
<1>4. ASSUME NEW cloned \in BOOLEAN PROVE PreParse(cloned) = Target
  <2>1. CASE dir # None
    BY <2>1, <1>3, <1>1 DEF PreParse, Target
  <2>2. CASE dir = None
    <3>1. Repo = None
      BY <2>2, <1>1
    <3>2. Target = inv.at
      BY <2>2, <1>1, <3>1 DEF Target
    <3> QED BY <2>2, <3>1, <3>2 DEF PreParse
  <2> QED BY <2>1, <2>2
<1> QED BY <1>4

LEMMA PreParseClone ==
  ASSUME TypeOK, Agree, Repo # None, FirstOf(inv.flag, inv.env) = None
  PROVE PreParse(TRUE) = Target
<1>1. FirstOf(inv.env, FirstOf(inv.flag, inv.stray)) = None
  BY DEF Agree, FirstOf
<1> QED BY <1>1 DEF PreParse, Target

LEMMA PreParseAgain ==
  ASSUME TypeOK, Agree, cwd \in {inv.at, Target}, NEW cloned \in BOOLEAN, Repo # None => cloned
  PROVE PreParse(cloned) = Target
<1>1. CASE Repo = None \/ FirstOf(inv.flag, inv.env) # None
  BY <1>1, PreParseTarget
<1>2. CASE Repo # None /\ FirstOf(inv.flag, inv.env) = None
  BY <1>2, PreParseClone
<1> QED BY <1>1, <1>2

LEMMA OneProjectStep == TypeOK /\ OneProject /\ [Next]_vars => OneProject'
<1> SUFFICES ASSUME TypeOK, OneProject, [Next]_vars, Agree', ~flaked' PROVE OneProject'
  BY DEF OneProject
<1>0. inv' = inv
  BY DEF Next, BeforeParse, Pass, Run, DiscoverBaked, RegisterWelded, Prescan, Parse, Enter, Preflight, Dispatch,
    StartPass, PassLoad, PassConnect, BakedLeg, LookAgain, ExecBoundary, Exec, InvokeConnected, InvokeInProc,
    RunCore, HandlerConnects, HandlerReturns, Exit, Signal, Over, vars
<1>a. Agree /\ Target' = Target /\ Repo' = Repo
  BY <1>0 DEF Agree, Target, Repo, FirstOf
<1>b. ~flaked
  BY DEF Next, BeforeParse, Pass, Run, DiscoverBaked, RegisterWelded, Prescan, Parse, Enter, Preflight, Dispatch,
    StartPass, PassLoad, PassConnect, BakedLeg, LookAgain, ExecBoundary, Exec, InvokeConnected, InvokeInProc,
    RunCore, HandlerConnects, HandlerReturns, Exit, Signal, Over, vars
<1>c. /\ phase \in {"start", "baked", "welded", "scanned", "parsed"} => cwd = inv.at
      /\ phase \notin {"start", "baked", "welded"} => scanned = Target
      /\ phase \in {"entered", "replaced"} \cup Armed =>
           cwd = Target /\ (Repo # None => FirstOf(inv.flag, inv.env) = None)
      /\ pass.dir # None => pass.dir = Target
  BY <1>a, <1>b DEF OneProject
<1>d. /\ phase' \in {"start", "baked", "welded", "scanned", "parsed"} => cwd' = inv.at
      /\ phase' \notin {"start", "baked", "welded"} => scanned' = Target
      /\ phase' \in {"entered", "replaced"} \cup Armed =>
           cwd' = Target /\ (Repo # None => FirstOf(inv.flag, inv.env) = None)
      /\ pass.dir' # None => pass.dir' = Target
  <2>1. CASE Prescan
    <3>1. PICK cloned \in BOOLEAN : scanned' = PreParse(cloned) /\ flaked' = (flaked \/ (Repo # None /\ ~cloned))
      BY <2>1 DEF Prescan
    <3>2. cwd = inv.at /\ (Repo # None => cloned)
      BY <2>1, <3>1, <1>c DEF Prescan
    <3>3. scanned' = Target
      BY <3>1, <3>2, <1>a, PreParseAgain
    <3> QED BY <2>1, <3>2, <3>3, <1>c DEF Prescan, Armed
  <2>2. CASE DiscoverBaked \/ RegisterWelded
    BY <2>2, <1>c DEF DiscoverBaked, RegisterWelded, Armed
  <2>3. CASE Parse
    BY <2>3, <1>c DEF Parse, Quit, Armed
  <2>4. CASE Enter
    <3>1. CASE Quit(1) /\ UNCHANGED cwd
      BY <2>4, <3>1, <1>c DEF Enter, Quit, Armed
    <3>2. CASE phase' = "entered"
      <4>1. cwd = inv.at /\ scanned = Target
        BY <2>4, <1>c DEF Enter
      <4>2. Repo # None => FirstOf(inv.flag, inv.env) = None
        BY <2>4, <3>2 DEF Enter, Quit
      <4>3. FirstOf(inv.flag, inv.env) # None => Flagged = FirstOf(inv.flag, inv.env)
        BY <1>a, ProjectAssumption DEF Flagged, At, Agree, FirstOf
      <4>4. cwd' = Target
        BY <2>4, <3>2, <4>1, <4>2, <4>3 DEF Enter, Target, Quit
      <4> QED BY <2>4, <3>2, <4>1, <4>2, <4>4, <1>c DEF Enter, Armed
    <3> QED BY <2>4, <3>1, <3>2 DEF Enter
  <2>5. CASE Preflight
    BY <2>5, <1>c DEF Preflight, Quit, Armed
  <2>6. CASE Dispatch
    BY <2>6, <1>c DEF Dispatch, Resolve, Lane, Armed
  <2>7. CASE StartPass
    <3>1. PICK cloned \in BOOLEAN : pass' = [dir |-> PreParse(cloned), need |-> Unserved, todo |-> {}]
                                    /\ flaked' = (flaked \/ (Repo # None /\ ~cloned))
      BY <2>7 DEF StartPass
    <3>2. cwd = Target /\ (Repo # None => cloned)
      BY <2>7, <3>1, <1>c DEF StartPass, Armed
    <3>3. pass.dir' = Target
      BY <3>1, <3>2, <1>a, PreParseAgain
    <3> QED BY <2>7, <3>3, <1>c DEF StartPass, Armed
  <2>8. CASE PassLoad \/ PassConnect
    <3>1. pass.dir' = pass.dir
      BY <2>8 DEF PassLoad, PassConnect, TypeOK
    <3> QED BY <2>8, <3>1, <1>c DEF PassLoad, PassConnect, Armed
  <2>9. CASE BakedLeg \/ LookAgain
    BY <2>9, <1>c DEF BakedLeg, LookAgain, Resolve, Lane, Armed
  <2>10. CASE Run
    BY <2>10, <1>c DEF Run, ExecBoundary, Exec, InvokeConnected, InvokeInProc, RunCore, HandlerConnects,
      HandlerReturns, Armed
  <2>11. CASE Exit \/ Signal
    BY <2>11, <1>c DEF Exit, Signal, Quit, Armed
  <2>12. CASE Over \/ UNCHANGED vars
    BY <2>12, <1>c DEF Over, vars, Armed
  <2> QED BY <2>1, <2>2, <2>3, <2>4, <2>5, <2>6, <2>7, <2>8, <2>9, <2>10, <2>11, <2>12
       DEF Next, BeforeParse, Pass
<1> QED BY <1>0, <1>a, <1>d DEF OneProject, Armed

\* With selectors that agree and clones that work, the project that filled the grammar, the
\* one main entered and the one the connect pass reads are one directory.
THEOREM OneDirectory == Spec => []SeesOneProject
<1>1. Init => OneProject
  BY DEF Init, OneProject, NoPass, Armed
<1>2. TypeOK /\ OneProject => SeesOneProject
  BY DEF OneProject, SeesOneProject, Plain, Agree, Armed
<1> QED BY <1>1, <1>2, TypeInit, TypeStep, OneProjectStep, PTL DEF Spec

(* ------------------------------- the command ------------------------------- *)

LEMMA FrontOfAppend ==
  ASSUME NEW s \in Seq(Token), NEW t \in Token
  PROVE Front(Append(s, t)) = s /\ Last(Append(s, t)) = t /\ Len(Append(s, t)) = Len(s) + 1
<1>1. Append(s, t) \in Seq(Token) /\ Len(Append(s, t)) = Len(s) + 1 /\ Len(s) \in Nat
  OBVIOUS
<1>2. Last(Append(s, t)) = t
  BY <1>1 DEF Last
<1>3. Front(Append(s, t)) = SubSeq(Append(s, t), 1, Len(s))
  BY <1>1 DEF Front
<1>4. SubSeq(Append(s, t), 1, Len(s)) = s
  OBVIOUS
<1> QED BY <1>1, <1>2, <1>3, <1>4

LEMMA KeyInjective == \A c, d \in Identity : Key(c) = Key(d) => c = d
<1> SUFFICES ASSUME NEW c \in Identity, NEW d \in Identity, Key(c) = Key(d) PROVE c = d
  OBVIOUS
<1>1. /\ \A e \in Identity : ParentOf[e] = None => Key(e) = <<WordOf[e]>>
      /\ \A e \in Identity : ParentOf[e] # None => Key(e) = <<ParentOf[e], WordOf[e]>>
  BY DEF Key
<1>2. CASE ParentOf[c] = None /\ ParentOf[d] = None
  BY <1>1, <1>2, IdentityAssumption
<1>3. CASE ParentOf[c] # None /\ ParentOf[d] # None
  BY <1>1, <1>3, IdentityAssumption
<1>4. CASE ParentOf[c] = None /\ ParentOf[d] # None
  <2>1. Len(Key(c)) = 1 /\ Len(Key(d)) = 2
    BY <1>1, <1>4
  <2> QED BY <2>1
<1>5. CASE ParentOf[c] # None /\ ParentOf[d] = None
  <2>1. Len(Key(c)) = 2 /\ Len(Key(d)) = 1
    BY <1>1, <1>5
  <2> QED BY <2>1
<1> QED BY <1>2, <1>3, <1>4, <1>5

\* The path an entry of the table stands for.
Names(e) ==
  IF e.sub = None THEN leaf = Key(e.id)
  ELSE leaf = Append(Key(e.id), e.sub) /\ e.sub \in Subs[e.id]

LEMMA EntryNames ==
  ASSUME TypeOK, leaf \in Grammar, NEW e \in Entries(leaf)
  PROVE Names(e)
<1>1. Known \subseteq Identity /\ \A c \in Identity : Key(c) \in Seq(Token)
  BY Paths
<1>2. CASE \E c \in Known : Key(c) = leaf
  <2>1. e \in {[id |-> c, sub |-> None] : c \in {d \in Known : Key(d) = leaf}}
    BY <1>2 DEF Entries
  <2> QED BY <2>1 DEF Names
<1>3. CASE ~\E c \in Known : Key(c) = leaf
  <2>1. PICK c \in Known : Len(leaf) > 1 /\ Key(c) = Front(leaf) /\ e = [id |-> c, sub |-> Last(leaf)]
    BY <1>3 DEF Entries
  <2>2. leaf \notin CorePaths
    BY <2>1, <1>1, IdentityAssumption
  <2>3. PICK d \in Known : leaf \in Leaves(d)
    BY <2>2 DEF Grammar
  <2>4. PICK s \in SubsOf(d) : leaf = Append(Key(d), s)
    BY <2>3, <1>3 DEF Leaves
  <2>5. s \in Token /\ s \in Subs[d]
    BY <2>3, <1>1, PluginAssumption DEF SubsOf
  <2>6. Front(leaf) = Key(d) /\ Last(leaf) = s
    BY <2>4, <2>5, <2>3, <1>1, FrontOfAppend
  <2>7. c = d
    BY <2>1, <2>3, <2>6, <1>1, KeyInjective
  <2>8. s # None
    BY <2>5, ProjectAssumption
  <2> QED BY <2>1, <2>4, <2>5, <2>6, <2>7, <2>8 DEF Names
<1> QED BY <1>2, <1>3

CommandInv ==
  /\ phase \in {"parsed", "entered", "armed"} => leaf \in Grammar
  /\ cmd.id # None => Names(cmd)
  /\ ran # None =>
       /\ cmd.id \in Identity
       /\ ran.lane # "connected" => ran.id = cmd.id
       /\ ran.lane = "connected" => ran.id \in OnTheWire(cmd.id)
  /\ phase \in {"start", "baked", "welded", "scanned", "parsed", "entered", "armed"} => cmd.id = None /\ ran = None
  /\ phase \in {"missed", "loading", "connecting", "bakedleg", "passed", "exec", "connected", "inproc"} => cmd.id # None

LEMMA CommandStep == TypeOK /\ TypeOK' /\ CommandInv /\ [Next]_vars => CommandInv'
<1> SUFFICES ASSUME TypeOK, TypeOK', CommandInv, [Next]_vars PROVE CommandInv'
  OBVIOUS
<1> USE DEF CommandInv
<1>1. CASE DiscoverBaked \/ RegisterWelded \/ Prescan
  BY <1>1 DEF DiscoverBaked, RegisterWelded, Prescan, Names
<1>2. CASE Parse
  <2>1. Grammar' = Grammar
    BY <1>2 DEF Parse, Grammar, Known, Leaves, SubsOf
  <2> QED BY <1>2, <2>1 DEF Parse, Quit
<1>3. CASE Enter \/ Preflight
  <2>1. Grammar' = Grammar
    BY <1>3 DEF Enter, Preflight, Grammar, Known, Leaves, SubsOf
  <2> QED BY <1>3, <2>1 DEF Enter, Preflight, Quit, Names
<1>4. CASE Dispatch
  <2>1. phase' \notin {"start", "baked", "welded", "scanned", "parsed", "entered", "armed"}
    BY <1>4 DEF Dispatch, Resolve, Lane
  <2>2. CASE Entries(leaf) = {}
    BY <1>4, <2>1, <2>2 DEF Dispatch, NoCommand, Names
  <2>3. CASE Entries(leaf) # {}
    <3>1. cmd' \in Entries(leaf) /\ ran' = None /\ leaf' = leaf
      BY <1>4, <2>3 DEF Dispatch
    <3>2. Names(cmd')
      BY <3>1, EntryNames, <1>4 DEF Dispatch
    <3>3. cmd'.id # None
      BY <3>1, EntryTypes, ProjectAssumption DEF TypeOK
    <3> QED BY <2>1, <3>1, <3>2, <3>3 DEF Names
  <2> QED BY <2>2, <2>3
<1>5. CASE Pass
  <2>1. cmd' = cmd /\ leaf' = leaf /\ ran' = ran
    BY <1>5 DEF Pass, StartPass, PassLoad, PassConnect, BakedLeg, LookAgain
  <2> QED BY <1>5, <2>1 DEF Pass, StartPass, PassLoad, PassConnect, BakedLeg, LookAgain, Resolve, Lane, Names
<1>6. CASE ExecBoundary \/ RunCore \/ HandlerConnects \/ HandlerReturns
  BY <1>6 DEF ExecBoundary, RunCore, HandlerConnects, HandlerReturns, Names
<1>9. CASE Exec
  <2>1. cmd' = cmd /\ leaf' = leaf /\ cmd.id \in Identity
    BY <1>9 DEF Exec, TypeOK
  <2>2. ran' = ran \/ \E own \in Owners \cup {None} : \E s \in Sources(own) :
          ran' = [id |-> cmd.id, plugin |-> s.plugin, bytes |-> s.bytes, lane |-> "exec", own |-> own]
    BY <1>9 DEF Exec
  <2>3. ran' # None => (ran'.id = cmd.id /\ ran'.lane = "exec") \/ ran' = ran
    BY <2>2
  <2>4. phase' \in {"replaced", "returned"}
    BY <1>9 DEF Exec
  <2> QED BY <2>1, <2>3, <2>4 DEF Names
<1>10. CASE InvokeConnected
  <2>1. cmd' = cmd /\ leaf' = leaf /\ cmd.id \in Identity /\ phase' \in {"handling", "returned"}
    BY <1>10 DEF InvokeConnected, TypeOK
  <2>2. ran' = ran \/ \E l \in live : \E c \in OnTheWire(cmd.id) :
          ran' = [id |-> c, plugin |-> l.plugin, bytes |-> l.bytes, lane |-> "connected", own |-> None]
    BY <1>10 DEF InvokeConnected
  <2>3. ran' # None => (ran'.id \in OnTheWire(cmd.id) /\ ran'.lane = "connected") \/ ran' = ran
    BY <2>2
  <2>4. OnTheWire(cmd.id)' = OnTheWire(cmd.id)
    BY <2>1 DEF OnTheWire
  <2> QED BY <2>1, <2>3, <2>4 DEF Names
<1>11. CASE InvokeInProc
  <2>1. cmd' = cmd /\ leaf' = leaf /\ cmd.id \in Identity /\ phase' = "handling"
    BY <1>11 DEF InvokeInProc, TypeOK
  <2>2. \E p \in Compiled : ran' = [id |-> cmd.id, plugin |-> p, bytes |-> "linked", lane |-> "inproc", own |-> None]
    BY <1>11 DEF InvokeInProc
  <2> QED BY <2>1, <2>2 DEF Names
<1>7. CASE Exit \/ Signal
  BY <1>7 DEF Exit, Signal, Quit, Names
<1>8. CASE Over \/ UNCHANGED vars
  <2>1. Grammar' = Grammar /\ OnTheWire(cmd.id)' = OnTheWire(cmd.id) /\ Names(cmd)' = Names(cmd)
    BY <1>8 DEF Over, vars, Grammar, Known, Leaves, SubsOf, OnTheWire, Names
  <2>2. UNCHANGED <<phase, leaf, cmd, ran>>
    BY <1>8 DEF Over, vars
  <2> QED BY <2>1, <2>2
<1> QED BY <1>1, <1>2, <1>3, <1>4, <1>5, <1>6, <1>7, <1>8, <1>9, <1>10, <1>11 DEF Next, BeforeParse, Run

\* The command that runs, in the process or as a program of its own, is the one whose node
\* kong parsed: its word under its parent, a token being cut off only as its subcommand; over
\* a connection the same holds for top-level commands.
THEOREM CommandParsedIsRun == Spec => []ParsedIsRun
<1>1. Init => CommandInv
  BY DEF Init, CommandInv, NoCommand
<1>2. TypeOK /\ CommandInv => ParsedIsRun
  <2> SUFFICES ASSUME TypeOK, CommandInv, ran # None, ran.lane = "connected" => ParentOf[cmd.id] = None
               PROVE ran.id = cmd.id /\ Names(cmd)
    BY DEF ParsedIsRun, Names
  <2>1. cmd.id \in Identity /\ cmd.id # None
    BY ProjectAssumption DEF CommandInv
  <2>2. ran.id = cmd.id
    <3>1. CASE ran.lane = "connected"
      <4>1. ran.id \in Identity /\ WordOf[ran.id] = WordOf[cmd.id] /\ ParentOf[ran.id] = None
        BY <3>1 DEF CommandInv, OnTheWire
      <4> QED BY <4>1, <2>1, <3>1, IdentityAssumption
    <3> QED BY <3>1 DEF CommandInv
  <2> QED BY <2>1, <2>2 DEF CommandInv
<1> QED BY <1>1, <1>2, TypeInit, TypeStep, CommandStep, PTL DEF Spec

(* ------------------------------- the override ------------------------------ *)

\* A pass that met no failure connected every plugin of its project that serves a word it
\* needed, so its baked leg is left with plugins the project does not declare.
TreeInv ==
  /\ ~failed => \A l \in live : l.bytes = "baked" => ~(l.plugin \in Overridden /\ l.plugin \in Declared(pass.dir))
  /\ phase \in Early \cup {"armed", "missed"} => live = {} /\ pass = NoPass
  /\ ~failed /\ phase = "connecting" =>
       \A p \in Declared(pass.dir) : Kinds[p] \cap pass.need # {} => p \in pass.todo \/ p \in Connected
  /\ ~failed /\ phase \in {"bakedleg", "passed", "exec"} /\ pass.dir # None =>
       \A p \in Declared(pass.dir) : Kinds[p] \cap pass.need # {} => p \in Connected
  /\ phase \in {"loading", "connecting", "bakedleg", "passed", "exec"} /\ pass.dir # None => Unserved \subseteq pass.need
  /\ phase \in {"loading", "connecting"} => pass.dir \in Project \/ phase = "loading"
  /\ ran # None => (ran.bytes = "baked" /\ ran.lane = "exec" /\ ran.plugin \in Overridden => ran.own # ran.plugin)

LEMMA NoProjectAtNone == Declared(None) = {}
BY ProjectAssumption DEF Declared

LEMMA BytesOfTree == \A p \in Overridden : BytesOf(p) = "tree"
BY DEF BytesOf

\* More connections leave fewer words unserved.
LEMMA ServedGrows ==
  ASSUME live \subseteq live', kinds' = kinds
  PROVE Unserved' \subseteq Unserved /\ Connected \subseteq Connected'
<1>1. Connected \subseteq Connected'
  BY DEF Connected
<1>2. Serving \subseteq Serving'
  BY <1>1 DEF Serving
<1>3. ServedKinds \subseteq ServedKinds'
  BY <1>2 DEF ServedKinds
<1> QED BY <1>1, <1>3 DEF Unserved

LEMMA ConnectedServes ==
  ASSUME NEW p \in Connected, NEW k \in Kinds[p]
  PROVE k \notin Unserved
BY DEF Unserved, ServedKinds, Serving

LEMMA TreeStep == TypeOK /\ TreeInv /\ [Next]_vars => TreeInv'
<1> SUFFICES ASSUME TypeOK, TreeInv, [Next]_vars PROVE TreeInv'
  OBVIOUS
<1>0. \A d : Declared(d)' = Declared(d)
  BY DEF Declared
<1>1. CASE BeforeParse
  <2>1. UNCHANGED <<live, pass, ran, failed>> /\ phase \in Early
    BY <1>1 DEF BeforeParse, DiscoverBaked, RegisterWelded, Prescan, Parse, Enter, Preflight, Early
  <2>2. phase' \in Early \cup {"armed", "exited"}
    BY <1>1 DEF BeforeParse, DiscoverBaked, RegisterWelded, Prescan, Parse, Enter, Preflight, Early, Quit
  <2> QED BY <2>1, <2>2 DEF TreeInv, Early
<1>2. CASE Dispatch
  <2>1. UNCHANGED <<live, pass, ran, failed>> /\ live = {} /\ pass = NoPass
    BY <1>2 DEF Dispatch, TreeInv
  <2>2. phase' \in {"core", "missed", "exec", "inproc", "connected"}
    BY <1>2 DEF Dispatch, Resolve, Lane
  <2>3. pass'.dir = None
    BY <2>1 DEF NoPass
  <2> QED BY <2>1, <2>2, <2>3 DEF TreeInv, Early
<1>3. CASE StartPass
  <2>1. PICK cloned \in BOOLEAN : pass' = [dir |-> PreParse(cloned), need |-> Unserved, todo |-> {}]
    BY <1>3 DEF StartPass
  <2>2. live' = {} /\ live = {} /\ ran' = ran /\ failed' = failed /\ kinds' = kinds
    BY <1>3 DEF StartPass, TreeInv
  <2>3. Unserved' = Unserved /\ Connected' = Connected
    BY <2>2 DEF Unserved, ServedKinds, Serving, Connected
  <2>4. pass'.need = Unserved
    BY <2>1
  <2>5. phase' \in {"passed", "loading"} /\ (phase' = "passed" => pass'.need = {})
    BY <1>3, <2>4 DEF StartPass
  <2> QED BY <2>2, <2>3, <2>4, <2>5 DEF TreeInv, Early
<1>4. CASE PassLoad
  <2>1. UNCHANGED <<live, ran, kinds>> /\ phase = "loading" /\ pass'.dir = pass.dir /\ pass'.need = pass.need
    BY <1>4 DEF PassLoad, TypeOK
  <2>2. Unserved' = Unserved /\ Connected' = Connected
    BY <2>1 DEF Unserved, ServedKinds, Serving, Connected
  <2>3. CASE phase' = "bakedleg" /\ failed'
    BY <2>1, <2>2, <2>3 DEF TreeInv, Early
  <2>4. CASE phase' = "connecting" /\ pass.dir \in Project /\ failed' = failed
             /\ pass' = [pass EXCEPT !.todo = {p \in Declares[pass.dir] : Kinds[p] \cap pass.need # {}}]
    <3>1. pass'.todo = {p \in Declares[pass.dir] : Kinds[p] \cap pass.need # {}} /\ Declared(pass.dir) = Declares[pass.dir]
      BY <2>4 DEF TypeOK, Declared
    <3> QED BY <2>1, <2>2, <2>4, <3>1, <1>0 DEF TreeInv, Early
  <2> QED BY <1>4, <2>3, <2>4 DEF PassLoad
<1>5. CASE PassConnect
  <2>1. ran' = ran /\ kinds' = kinds /\ phase = "connecting" /\ pass'.dir = pass.dir /\ pass'.need = pass.need
        /\ live \subseteq live'
    BY <1>5 DEF PassConnect, TypeOK
  <2>2. Unserved' \subseteq Unserved /\ Connected \subseteq Connected'
    BY <2>1, ServedGrows
  <2>3. ASSUME NEW p \in pass.todo, live' = live \cup {[plugin |-> p, bytes |-> BytesOf(p)]},
               pass' = [pass EXCEPT !.todo = @ \ {p}], UNCHANGED <<phase, failed>>
        PROVE TreeInv'
    <3>1. p \in Connected'
      <4>1. [plugin |-> p, bytes |-> BytesOf(p)] \in live'
        BY <2>3
      <4> QED BY <4>1 DEF Connected
    <3>2. pass'.todo = pass.todo \ {p}
      BY <2>3 DEF TypeOK
    <3>3. \A l \in live' : l.bytes = "baked" /\ l.plugin \in Overridden => l \in live
      BY <2>3, BytesOfTree
    <3> QED BY <2>1, <2>2, <2>3, <3>1, <3>2, <3>3, <1>0 DEF TreeInv, Early
  <2>4. CASE phase' = "bakedleg" /\ failed' /\ UNCHANGED <<live, pass>>
    BY <2>1, <2>2, <2>4, <1>0 DEF TreeInv, Early
  <2>5. CASE pass.todo = {} /\ phase' = "bakedleg" /\ UNCHANGED <<live, pass, failed>>
    BY <2>1, <2>2, <2>5, <1>0 DEF TreeInv, Early
  <2> QED BY <1>5, <2>3, <2>4, <2>5 DEF PassConnect
<1>6. CASE BakedLeg
  <2>1. ran' = ran /\ kinds' = kinds /\ phase = "bakedleg" /\ pass' = pass /\ live \subseteq live'
    BY <1>6 DEF BakedLeg
  <2>2. Unserved' \subseteq Unserved /\ Connected \subseteq Connected'
    BY <2>1, ServedGrows
  <2>3. ASSUME NEW k \in pass.need \ ServedKinds, BakedBy[k] # None, UNCHANGED <<phase, failed>>,
               live' = live \cup {[plugin |-> BakedBy[k], bytes |-> "baked"]}
        PROVE TreeInv'
    <3>1. k \in Kind /\ k \in Kinds[BakedBy[k]]
      BY <2>3, PluginAssumption DEF TypeOK
    <3>2. ~failed => BakedBy[k] \notin Declared(pass.dir)
      <4> SUFFICES ASSUME ~failed, BakedBy[k] \in Declared(pass.dir) PROVE FALSE
        OBVIOUS
      <4>1. pass.dir # None
        BY NoProjectAtNone
      <4>2. BakedBy[k] \in Connected
        BY <2>1, <2>3, <3>1, <4>1 DEF TreeInv
      <4>3. k \in ServedKinds
        BY <3>1, <4>2 DEF ServedKinds, Serving
      <4> QED BY <2>3, <4>3
    <3> QED BY <2>1, <2>2, <2>3, <3>2, <1>0 DEF TreeInv, Early
  <2>4. CASE phase' = "passed" /\ UNCHANGED live /\ (failed => failed')
    BY <2>1, <2>2, <2>4, <1>0 DEF TreeInv, Early
  <2> QED BY <1>6, <2>3, <2>4 DEF BakedLeg
<1>7. CASE LookAgain
  <2>1. UNCHANGED <<live, pass, ran, failed, kinds>> /\ phase = "passed"
    BY <1>7 DEF LookAgain
  <2>2. phase' \in {"exec", "inproc", "connected"}
    BY <1>7 DEF LookAgain, Resolve, Lane
  <2>3. Unserved' \subseteq Unserved /\ Connected \subseteq Connected'
    BY <2>1, ServedGrows
  <2> QED BY <2>1, <2>2, <2>3, <1>0 DEF TreeInv, Early
<1>8. CASE ExecBoundary
  <2>1. UNCHANGED <<pass, ran, kinds, phase, cwd>> /\ phase = "exec" /\ live \subseteq live'
    BY <1>8 DEF ExecBoundary
  <2>2. Unserved' \subseteq Unserved /\ Connected \subseteq Connected'
    BY <2>1, ServedGrows
  <2>3. ASSUME NEW p, live' = live \cup {[plugin |-> p, bytes |-> BytesOf(p)]}, UNCHANGED failed
        PROVE TreeInv'
    <3>1. \A l \in live' : l.bytes = "baked" /\ l.plugin \in Overridden => l \in live
      BY <2>3, BytesOfTree
    <3> QED BY <2>1, <2>2, <2>3, <3>1, <1>0 DEF TreeInv, Early
  <2>4. ASSUME NEW k \in Unserved, BakedBy[k] # None, failed => failed', BakedBy[k] \in Declared(cwd) => failed',
               live' = live \cup {[plugin |-> BakedBy[k], bytes |-> "baked"]}
        PROVE TreeInv'
    <3>1. k \in Kind /\ k \in Kinds[BakedBy[k]]
      BY <2>4, PluginAssumption DEF TypeOK, Unserved
    <3>2. ~failed => BakedBy[k] \notin Declared(pass.dir)
      <4> SUFFICES ASSUME ~failed, BakedBy[k] \in Declared(pass.dir) PROVE FALSE
        OBVIOUS
      <4>1. pass.dir # None
        BY NoProjectAtNone
      <4>2. k \in pass.need
        BY <2>1, <2>4, <4>1 DEF TreeInv
      <4>3. BakedBy[k] \in Connected
        BY <2>1, <3>1, <4>1, <4>2 DEF TreeInv
      <4> QED BY <2>4, <3>1, <4>3, ConnectedServes
    <3> QED BY <2>1, <2>2, <2>4, <3>2, <1>0 DEF TreeInv, Early
  <2>5. PICK k \in Unserved :
          \/ \E p \in Declared(cwd) : live' = live \cup {[plugin |-> p, bytes |-> BytesOf(p)]} /\ UNCHANGED failed
          \/ /\ BakedBy[k] # None /\ live' = live \cup {[plugin |-> BakedBy[k], bytes |-> "baked"]}
             /\ (failed => failed') /\ (BakedBy[k] \in Declared(cwd) => failed')
    BY <1>8, Zenon DEF ExecBoundary
  <2> QED BY <2>3, <2>4, <2>5
<1>9. CASE Exec
  <2>1. UNCHANGED <<live, pass, failed>> /\ phase' \in {"replaced", "returned"}
    BY <1>9 DEF Exec
  <2>2. ASSUME NEW own \in Owners \cup {None}, NEW s \in Sources(own), s.bytes = "baked", s.plugin = own, own \in Overridden
        PROVE FALSE
    <3>1. own # None
      BY <2>2, PluginAssumption, ProjectAssumption
    <3>2. Sources(own) = {[plugin |-> own, bytes |-> "tree"]}
      BY <2>2, <3>1 DEF Sources
    <3> QED BY <2>2, <3>2
  <2>3. ran' = ran \/ \E own \in Owners \cup {None} : \E s \in Sources(own) :
          ran' = [id |-> cmd.id, plugin |-> s.plugin, bytes |-> s.bytes, lane |-> "exec", own |-> own]
    BY <1>9 DEF Exec
  <2>4. ran' # None => (ran'.bytes = "baked" /\ ran'.lane = "exec" /\ ran'.plugin \in Overridden => ran'.own # ran'.plugin)
    BY <2>2, <2>3 DEF TreeInv
  <2> QED BY <2>1, <2>4, <1>0 DEF TreeInv, Early
<1>10. CASE InvokeConnected
  <2>1. UNCHANGED <<live, pass, failed>> /\ phase' \in {"handling", "returned"}
    BY <1>10 DEF InvokeConnected
  <2>2. ran' = ran \/ ran'.lane = "connected"
    BY <1>10 DEF InvokeConnected
  <2> QED BY <2>1, <2>2, <1>0 DEF TreeInv, Early
<1>11. CASE InvokeInProc
  <2>1. UNCHANGED <<live, pass, failed>> /\ phase' = "handling"
    BY <1>11 DEF InvokeInProc
  <2>2. ran'.lane = "inproc"
    BY <1>11 DEF InvokeInProc
  <2> QED BY <2>1, <2>2, <1>0 DEF TreeInv, Early
<1>12. CASE RunCore \/ HandlerReturns
  <2>1. UNCHANGED <<live, pass, failed, ran>> /\ phase' \in {"handling", "returned"}
    BY <1>12 DEF RunCore, HandlerReturns
  <2> QED BY <2>1, <1>0 DEF TreeInv, Early
<1>13. CASE HandlerConnects
  <2>1. UNCHANGED <<pass, failed, ran, phase>> /\ phase = "handling"
    BY <1>13 DEF HandlerConnects
  <2>2. \A l \in live' : l.bytes = "baked" /\ l.plugin \in Overridden => l \in live
    BY <1>13, BytesOfTree DEF HandlerConnects
  <2> QED BY <2>1, <2>2, <1>0 DEF TreeInv, Early
<1>14. CASE Exit \/ Signal
  <2>1. UNCHANGED <<pass, failed, ran>> /\ phase' = "exited" /\ live' = {}
    BY <1>14 DEF Exit, Signal, Quit
  <2> QED BY <2>1 DEF TreeInv, Early
<1>15. CASE Over \/ UNCHANGED vars
  <2>1. UNCHANGED <<phase, kinds, pass, failed, live, ran>>
    BY <1>15 DEF Over, vars
  <2>2. Unserved' = Unserved /\ Connected' = Connected
    BY <2>1 DEF Unserved, ServedKinds, Serving, Connected
  <2> QED BY <2>1, <2>2, <1>0 DEF TreeInv
<1> QED BY <1>1, <1>2, <1>3, <1>4, <1>5, <1>6, <1>7, <1>8, <1>9, <1>10, <1>11, <1>12, <1>13, <1>14, <1>15
    DEF Next, Pass, Run

\* A plugin whose repository is overridden is never connected from its baked binary while
\* the passes succeed, nor executed from it as the project's own provider of the command.
THEOREM OverriddenFromTree == Spec => []OverrideServes
<1>1. Init => TreeInv
  BY DEF Init, TreeInv, Early
<1>2. TreeInv => OverrideServes
  BY DEF TreeInv, OverrideServes
<1> QED BY <1>1, <1>2, TypeInit, TypeStep, TreeStep, PTL DEF Spec

(* --------------------------------- the host -------------------------------- *)

\* The kinds that are known are those the baked manifests and the scanned project name.
Learnt ==
  /\ \A k \in kinds : BakedBy[k] # None \/ \E p \in Declared(scanned) : k \in Kinds[p]
  /\ phase # "start" => \A k \in Kind : BakedBy[k] # None => k \in kinds
  /\ phase \notin {"start", "baked", "welded"} => \A p \in Declared(scanned) : Kinds[p] \subseteq kinds
  /\ phase \in {"start", "baked", "welded"} => scanned = None

\* A pass without failures leaves no known kind unserved, and only such a pass, or the lack
\* of any kind, sends a command that needs no terminal to the exec lane.
HostInv ==
  /\ ~failed /\ phase \in {"connecting", "bakedleg"} => pass.dir \in Project
  /\ ~failed /\ phase = "passed" =>
       (\A k \in Unserved : BakedBy[k] = None) /\ (Unserved = {} \/ pass.dir \in Project)
  /\ Agree /\ ~flaked /\ ~failed /\ phase = "exec" /\ cmd.id \notin Interactive => Unserved = {}
  /\ ran # None /\ ran.lane = "exec" => phase = "replaced"
  /\ Agree /\ ~flaked /\ ~failed /\ ran # None =>
       (ran.lane = "exec" /\ ran.id \notin Interactive => Unserved = {})

LEMMA LearntStep == ASSUME TypeOK, Learnt, [Next]_vars PROVE Learnt'
<1>0. \A d : Declared(d)' = Declared(d)
  BY DEF Declared
<1>1. CASE DiscoverBaked
  BY <1>0, <1>1, NoProjectAtNone DEF DiscoverBaked, Learnt
<1>2. CASE RegisterWelded
  BY <1>0, <1>2 DEF RegisterWelded, Learnt
<1>3. CASE Prescan
  <2>1. kinds' = kinds \cup UNION {Kinds[p] : p \in Declared(scanned')} /\ phase = "welded" /\ phase' = "scanned"
    BY <1>3 DEF Prescan
  <2>2. \A k \in kinds : BakedBy[k] # None
    BY <2>1, NoProjectAtNone DEF Learnt
  <2>3. \A k \in kinds' : k \in kinds \/ \E p \in Declared(scanned') : k \in Kinds[p]
    BY <2>1
  <2>4. \A p \in Declared(scanned') : Kinds[p] \subseteq kinds'
    BY <2>1
  <2> QED  BY <1>0, <2>1, <2>2, <2>3, <2>4 DEF Learnt
<1>4. CASE ~(DiscoverBaked \/ RegisterWelded \/ Prescan)
  <2>1. UNCHANGED <<kinds, scanned>>
    BY <1>4 DEF Next, BeforeParse, Pass, Run, Parse, Enter, Preflight, Dispatch, StartPass, PassLoad, PassConnect, BakedLeg,
      LookAgain, ExecBoundary, Exec, InvokeConnected, InvokeInProc, RunCore, HandlerConnects, HandlerReturns,
      Exit, Signal, Over, vars
  <2>2. phase' = phase \/ {phase, phase'} \cap {"start", "baked", "welded"} = {}
    BY <1>4 DEF Next, BeforeParse, Pass, Run, Parse, Enter, Preflight, Dispatch, StartPass, PassLoad, PassConnect, BakedLeg,
      LookAgain, Resolve, Lane, ExecBoundary, Exec, InvokeConnected, InvokeInProc, RunCore, HandlerConnects, HandlerReturns,
      Exit, Signal, Quit, Armed, Over, vars
  <2> QED  BY <1>0, <2>1, <2>2 DEF Learnt
<1> QED  BY <1>1, <1>2, <1>3, <1>4

\* Who serves what depends on the connected plugins and the kinds alone.
LEMMA ServedSame == ASSUME UNCHANGED <<live, kinds>> PROVE Unserved' = Unserved
BY DEF Unserved, ServedKinds, Serving, Connected

\* The command line stays, and a failure that has happened stays one.
LEMMA AgreeSame == ASSUME TypeOK, [Next]_vars PROVE (Agree' <=> Agree) /\ (flaked => flaked') /\ (failed => failed')
<1>1. inv' = inv
  BY DEF Next, BeforeParse, Pass, Run, DiscoverBaked, RegisterWelded, Prescan, Parse, Enter, Preflight, Dispatch,
    StartPass, PassLoad, PassConnect, BakedLeg, LookAgain, ExecBoundary, Exec, InvokeConnected, InvokeInProc,
    RunCore, HandlerConnects, HandlerReturns, Exit, Signal, Over, vars
<1>2. inv' = inv => (Agree' <=> Agree)
  BY DEF Agree
<1>3. CASE Prescan \/ StartPass
  <2>1. failed' = failed /\ (flaked => flaked')
    BY <1>3, Zenon DEF Prescan, StartPass
  <2> QED  BY <1>2, <1>1, <2>1
<1>4. CASE PassLoad \/ PassConnect
  <2>1. flaked' = flaked /\ (failed => failed')
    BY <1>4, SMT DEF PassLoad, PassConnect, TypeOK
  <2> QED  BY <1>2, <1>1, <2>1
<1>5. CASE BakedLeg
  <2>1. flaked' = flaked /\ (failed => failed')
    BY <1>5, SMT DEF BakedLeg, TypeOK
  <2> QED  BY <1>2, <1>1, <2>1
<1>6. CASE ExecBoundary
  <2>1. flaked' = flaked
    BY <1>6 DEF ExecBoundary
  <2>2. failed' = failed \/ \E k \in Unserved : failed' = (failed \/ BakedBy[k] \in Declared(cwd))
    BY <1>6 DEF ExecBoundary
  <2>3. failed => failed'
    BY <2>2, Zenon
  <2> QED  BY <1>2, <1>1, <2>1, <2>3
<1>7. CASE ~(Prescan \/ StartPass \/ PassLoad \/ PassConnect \/ BakedLeg \/ ExecBoundary)
  <2>1. UNCHANGED <<flaked, failed>>
    BY <1>7 DEF Next, BeforeParse, Pass, Run, DiscoverBaked, RegisterWelded, Parse, Enter, Preflight, Dispatch,
      LookAgain, Exec, InvokeConnected, InvokeInProc, RunCore, HandlerConnects, HandlerReturns, Exit, Signal, Over, vars
  <2> QED  BY <1>2, <1>1, <2>1
<1> QED  BY <1>3, <1>4, <1>5, <1>7, <1>6

\* After a pass that met no failure every known kind is served: the declared ones are of the
\* project it connected, which is the one that was scanned, and the baked ones were tried.
LEMMA PassServes ==
  ASSUME TypeOK, Learnt, TreeInv, HostInv, OneProject, Agree, ~flaked, ~failed, phase = "passed"
  PROVE  Unserved = {}
<1> SUFFICES ASSUME NEW k \in Unserved PROVE FALSE
  OBVIOUS
<1>1. BakedBy[k] = None /\ pass.dir \in Project
  BY DEF HostInv
<1>2. pass.dir # None
  BY <1>1, ProjectAssumption
<1>3. pass.dir = Target /\ scanned = Target
  BY <1>2 DEF OneProject
<1>4. PICK p \in Declared(scanned) : k \in Kinds[p]
  BY <1>1 DEF Learnt, Unserved
<1>5. k \in pass.need
  BY <1>2 DEF TreeInv
<1>6. p \in Connected
  BY <1>2, <1>3, <1>4, <1>5 DEF TreeInv
<1> QED  BY <1>4, <1>6, ConnectedServes

LEMMA HostStep ==
  ASSUME TypeOK, Learnt, TreeInv, OneProject, CommandInv, HostInv, [Next]_vars
  PROVE  HostInv'
<1>0. (Agree' <=> Agree) /\ (flaked => flaked') /\ (failed => failed')
  BY AgreeSame
<1>1. CASE BeforeParse
  <2>1. UNCHANGED <<live, pass, ran, failed>> /\ phase \in Early
    BY <1>1 DEF BeforeParse, DiscoverBaked, RegisterWelded, Prescan, Parse, Enter, Preflight, Early
  <2>2. phase' \in Early \cup {"armed", "exited"} /\ ran = None
    BY <1>1, <2>1 DEF BeforeParse, DiscoverBaked, RegisterWelded, Prescan, Parse, Enter, Preflight, Early, Quit, CommandInv
  <2> QED BY <2>1, <2>2 DEF HostInv, Early
<1>2. CASE Dispatch
  <2>1. UNCHANGED <<live, kinds, pass, ran, failed>> /\ ran = None /\ phase' \in {"core", "missed", "exec", "inproc", "connected"}
    BY <1>2 DEF Dispatch, Resolve, Lane, CommandInv
  <2>2. phase' = "exec" /\ cmd'.id \notin Interactive => kinds = {}
    BY <1>2 DEF Dispatch, Resolve, Lane
  <2>3. kinds = {} => Unserved' = {}
    BY <2>1 DEF Unserved
  <2> QED BY <2>1, <2>2, <2>3 DEF HostInv
<1>3. CASE StartPass
  <2>1. UNCHANGED <<live, kinds, ran, failed>> /\ phase' = IF Unserved = {} THEN "passed" ELSE "loading"
    BY <1>3 DEF StartPass
  <2>2. Unserved' = Unserved
    BY <2>1, ServedSame
  <2>3. ran # None => ran.lane # "exec"
    BY <1>3 DEF StartPass, HostInv
  <2> QED BY <2>1, <2>2, <2>3 DEF HostInv
<1>4. CASE PassLoad
  <2>1. ran' = ran /\ phase = "loading"
        /\ \/ phase' = "connecting" /\ pass.dir \in Project /\ pass'.dir = pass.dir
           \/ phase' = "bakedleg" /\ failed'
    BY <1>4 DEF PassLoad, TypeOK
  <2>2. ran # None => ran.lane # "exec"
    BY <2>1 DEF HostInv
  <2> QED BY <2>1, <2>2 DEF HostInv
<1>5. CASE PassConnect
  <2>1. ran' = ran /\ phase = "connecting" /\ pass'.dir = pass.dir /\ phase' \in {"connecting", "bakedleg"}
    BY <1>5 DEF PassConnect, TypeOK
  <2>2. ran # None => ran.lane # "exec"
    BY <2>1 DEF HostInv
  <2> QED BY <1>0, <2>1, <2>2 DEF HostInv
<1>6. CASE BakedLeg
  <2>1. ran' = ran /\ kinds' = kinds /\ pass' = pass /\ phase = "bakedleg" /\ phase' \in {"bakedleg", "passed"}
    BY <1>6 DEF BakedLeg
  <2>2. ran # None => ran.lane # "exec"
    BY <2>1 DEF HostInv
  <2>3. ~failed' => pass.dir \in Project
    BY <1>0, <2>1 DEF HostInv
  <2>4. CASE phase' = "passed" /\ ~failed'
    <3>1. live' = live /\ \A k \in pass.need \ ServedKinds : BakedBy[k] = None
      BY <1>6, <2>1, <2>4 DEF BakedLeg
    <3>2. Unserved' = Unserved
      BY <2>1, <3>1, ServedSame
    <3>3. Unserved \subseteq pass.need
      BY <1>0, <2>1, <2>3, <2>4, ProjectAssumption DEF TreeInv
    <3>4. \A k \in Unserved : BakedBy[k] = None
      BY <3>1, <3>3 DEF Unserved
    <3> QED BY <2>1, <2>2, <2>3, <2>4, <3>2, <3>4 DEF HostInv
  <2>5. CASE phase' = "bakedleg" \/ failed'
    BY <2>1, <2>2, <2>3, <2>5 DEF HostInv
  <2> QED BY <2>1, <2>4, <2>5
<1>7. CASE LookAgain
  <2>1. UNCHANGED <<live, pass, ran, failed, kinds, flaked, cmd>> /\ phase = "passed" /\ phase' \in {"exec", "inproc", "connected"}
    BY <1>7 DEF LookAgain, Resolve, Lane
  <2>2. Unserved' = Unserved
    BY <2>1, ServedSame
  <2>3. Agree /\ ~flaked /\ ~failed => Unserved = {}
    BY <2>1, PassServes
  <2>4. ran # None => ran.lane # "exec"
    BY <2>1 DEF HostInv
  <2> QED BY <1>0, <2>1, <2>2, <2>3, <2>4 DEF HostInv
<1>8. CASE ExecBoundary
  <2>1. UNCHANGED <<pass, ran, kinds, phase, cmd>> /\ phase = "exec" /\ live \subseteq live'
    BY <1>8 DEF ExecBoundary
  <2>2. Unserved' \subseteq Unserved
    BY <2>1, ServedGrows
  <2>3. ran # None => ran.lane # "exec"
    BY <2>1 DEF HostInv
  <2> QED BY <1>0, <2>1, <2>2, <2>3 DEF HostInv
<1>9. CASE Exec
  <2>1. UNCHANGED <<live, kinds, pass, failed, flaked>> /\ phase = "exec"
    BY <1>9 DEF Exec
  <2>2. Unserved' = Unserved
    BY <2>1, ServedSame
  <2>3. CASE phase' = "returned" /\ UNCHANGED ran
    <3>1. ran # None => ran.lane # "exec"
      BY <2>1 DEF HostInv
    <3> QED BY <2>1, <2>3, <3>1 DEF HostInv
  <2>4. CASE phase' = "replaced" /\ \E own \in Owners \cup {None} : \E s \in Sources(own) :
          ran' = [id |-> cmd.id, plugin |-> s.plugin, bytes |-> s.bytes, lane |-> "exec", own |-> own]
    <3>1. ran'.id = cmd.id
      BY <2>4
    <3> QED BY <1>0, <2>1, <2>2, <2>4, <3>1 DEF HostInv
  <2> QED BY <1>9, <2>3, <2>4 DEF Exec
<1>10. CASE InvokeConnected \/ InvokeInProc
  <2>1. phase' \in {"handling", "returned"} /\ phase \in {"connected", "inproc"} /\ (ran' = ran \/ ran'.lane \in {"connected", "inproc"})
    BY <1>10 DEF InvokeConnected, InvokeInProc
  <2>2. ran # None => ran.lane # "exec"
    BY <2>1 DEF HostInv
  <2> QED BY <2>1, <2>2 DEF HostInv
<1>11. CASE RunCore \/ HandlerConnects \/ HandlerReturns
  <2>1. phase' \in {"handling", "returned"} /\ phase \in {"core", "handling"} /\ ran' = ran
    BY <1>11 DEF RunCore, HandlerConnects, HandlerReturns
  <2>2. ran # None => ran.lane # "exec"
    BY <2>1 DEF HostInv
  <2> QED BY <2>1, <2>2 DEF HostInv
<1>12. CASE Exit \/ Signal
  <2>1. phase' = "exited" /\ phase \in Armed /\ ran' = ran
    BY <1>12 DEF Exit, Signal, Quit, Armed
  <2>2. ran # None => ran.lane # "exec"
    BY <2>1 DEF HostInv, Armed
  <2> QED BY <2>1, <2>2 DEF HostInv
<1>13. CASE Over \/ UNCHANGED vars
  <2>1. UNCHANGED <<phase, kinds, pass, failed, flaked, live, ran, cmd>>
    BY <1>13 DEF Over, vars
  <2>2. Unserved' = Unserved
    BY <2>1, ServedSame
  <2> QED BY <1>0, <2>1, <2>2 DEF HostInv
<1> QED BY <1>1, <1>2, <1>3, <1>4, <1>5, <1>6, <1>7, <1>8, <1>9, <1>10, <1>11, <1>12, <1>13 DEF Next, Pass, Run

\* While nothing fails and the selectors agree, a command whose plugin serves kinds is executed
\* as a bare program only when all of them are served already (dispatchCommand,
\* connectDeclaredKindPlugins).
THEOREM HostBehindCommand == Spec => []HostedWhenServed
<1>1. Init => Learnt /\ HostInv /\ TreeInv /\ OneProject /\ CommandInv
  BY DEF Init, Learnt, HostInv, TreeInv, Early, OneProject, NoPass, Armed, CommandInv, NoCommand
<1>2. TypeOK /\ Learnt /\ OneProject /\ HostInv => HostedWhenServed
  <2> SUFFICES ASSUME TypeOK, Learnt, OneProject, HostInv, ran # None, Plain, ~failed, ran.lane = "exec", ran.id \notin Interactive,
                      NEW p \in Plugin, ran.id \in Commands[p],
                      p \in Declared(cwd) \/ \E k \in Kinds[p] : BakedBy[k] = p
               PROVE  Kinds[p] \subseteq ServedKinds
    BY DEF HostedWhenServed
  <2>1. Agree /\ ~flaked /\ phase = "replaced"
    BY DEF Plain, Agree, HostInv
  <2>2. Unserved = {}
    BY <2>1 DEF HostInv
  <2>3. CASE p \in Declared(cwd)
    <3>1. cwd = scanned
      BY <2>1 DEF OneProject
    <3>2. Kinds[p] \subseteq kinds
      BY <2>1, <2>3, <3>1 DEF Learnt
    <3> QED BY <2>2, <3>2 DEF Unserved
  <2>4. CASE \E k \in Kinds[p] : BakedBy[k] = p
    <3>1. Kinds[p] \subseteq Kind /\ p # None
      BY PluginAssumption, ProjectAssumption
    <3>2. \A k \in Kinds[p] : BakedBy[k] # None
      BY <2>4, <3>1, ManifestAssumption
    <3>3. Kinds[p] \subseteq kinds
      BY <2>1, <3>1, <3>2 DEF Learnt
    <3> QED BY <2>2, <3>3 DEF Unserved
  <2> QED BY <2>3, <2>4
<1> QED BY <1>1, <1>2, TypeInit, TypeStep, LearntStep, HostStep, TreeStep, OneProjectStep, CommandStep, PTL DEF Spec
=============================================================================
