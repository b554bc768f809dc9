------------------------- MODULE PluginLoaderProofs -------------------------
(* Theorems about PluginLoader, for every closure of plugins and any number of goroutines. *)
EXTENDS PluginLoader, TLAPS

(***************************************************************************)
(* Frames and calls                                                        *)
(***************************************************************************)

\* The top of a stack is a frame, and what is below it a stack of frames.
LEMMA FrameTyped ==
  ASSUME TypeOK, NEW t \in Thread, ~Idle(t)
  PROVE  Top(t) \in Frame /\ Below(t) \in Seq(Frame)
<1>1. stack[t] \in Seq(Frame) /\ stack[t] # <<>>
  BY DEF TypeOK, Idle
<1> QED  BY <1>1 DEF Top, Below

\* One or two frames on a stack of frames make a stack of frames.
LEMMA PushTyped ==
  ASSUME NEW S, NEW s \in Seq(S), NEW f \in S, NEW g \in S
  PROVE  <<f>> \o s \in Seq(S) /\ <<f, g>> \o s \in Seq(S)
OBVIOUS

\* A step that rewrites the top of t's stack keeps stacks and results typed.
LEMMA ControlTyped ==
  ASSUME TypeOK, NEW t \in Thread, ~Idle(t),
         NEW f \in Frame, NEW g \in Frame, NEW k \in Key \cup {None}, NEW ok \in BOOLEAN,
         Continue(t, f) \/ Call(t, f, g) \/ Return(t, k, ok)
  PROVE  stack' \in [Thread -> Seq(Frame)] /\ ret' \in [Thread -> Result \cup {None}]
<1>1. Below(t) \in Seq(Frame) /\ <<f>> \o Below(t) \in Seq(Frame) /\ <<g, f>> \o Below(t) \in Seq(Frame)
  BY FrameTyped, PushTyped
<1>2. [key |-> k, ok |-> ok] \in Result
  BY DEF Result
<1> QED  BY <1>1, <1>2 DEF TypeOK, Continue, Call, Return, Replace

\* The locals of a connect or a scan frame stay typed as its function advances.
LEMMA LocalsTyped ==
  ASSUME TypeOK, NEW t \in Thread, ~Idle(t)
  PROVE  /\ Top(t).kind = "connect" =>
              /\ Top(t) \in ConnectFrames
              /\ \A leg \in Legs : [Top(t) EXCEPT !.leg = leg] \in Frame
         /\ Top(t).kind = "scan" =>
              /\ Top(t) \in ScanFrames
              /\ [Top(t) EXCEPT !.gated = TRUE] \in Frame
              /\ \A u : [Top(t) EXCEPT !.todo = @ \ {u}] \in Frame
         /\ Top(t).kind = "once" =>
              /\ Top(t) \in OnceFrames
              /\ [Top(t) EXCEPT !.next = @ + 1] \in Frame
         /\ Top(t).kind = "unit" => Top(t) \in UnitFrames
<1>1. Top(t) \in Frame
  BY FrameTyped
<1>2. CASE Top(t).kind = "connect"
  BY <1>1, <1>2 DEF Frame, ConnectFrames, ScanFrames, OnceFrames, UnitFrames
<1>3. CASE Top(t).kind = "scan"
  BY <1>1, <1>3 DEF Frame, ConnectFrames, ScanFrames, OnceFrames, UnitFrames
<1>4. CASE Top(t).kind = "once"
  BY <1>1, <1>4 DEF Frame, ConnectFrames, ScanFrames, OnceFrames, UnitFrames
<1>5. CASE Top(t).kind = "unit"
  BY <1>1, <1>5 DEF Frame, ConnectFrames, ScanFrames, OnceFrames, UnitFrames
<1> QED  BY <1>2, <1>3, <1>4, <1>5

(***************************************************************************)
(* The steps of connect, scan and once frames: they touch neither the      *)
(* registry nor the schemas, and at most start an activation.              *)
(***************************************************************************)

\* A connect that returns "found" has seen the identity in the registry.
HonestResults ==
  \A t \in Thread : ret[t] # None /\ ret[t].ok /\ ret[t].key # None => Registered(ret[t].key)

Starts ==
  \E l \in Load, u \in Unit :
    /\ Fresh(l)
    /\ \/ Begin(l, u, "binary", "connect")
       \/ Begin(l, u, "manifest", "mark")
       \/ Begin(l, u, "compiled", "schema")

ControlTypes ==
  /\ once \in {"new", "running", "done", "broken"}
  /\ stack \in [Thread -> Seq(Frame)]
  /\ ret \in [Thread -> Result \cup {None}]
  /\ calls \in [Thread -> Nat]

ControlOnly ==
  /\ UNCHANGED <<registry, schemas, conn, inFlight, host>>
  /\ UNCHANGED load \/ Starts
  /\ ControlTypes'
  /\ HonestResults'

\* What t returns, the others keep; only a hit in the registry is returned as "found".
LEMMA HonestReturn ==
  ASSUME TypeOK, HonestResults, UNCHANGED byKey, NEW t \in Thread,
         \/ ret' = [ret EXCEPT ![t] = None]
         \/ \E k \in Key \cup {None}, ok \in BOOLEAN :
              /\ Return(t, k, ok)
              /\ ok /\ k # None => Registered(k)
  PROVE  HonestResults'
<1> SUFFICES ASSUME NEW p \in Thread, ret'[p] # None, ret'[p].ok, ret'[p].key # None
             PROVE  byKey[ret'[p].key] # None
  BY DEF HonestResults, Registered
<1>1. CASE p # t
  <2>1. ret'[p] = ret[p]
    BY <1>1 DEF TypeOK, Return
  <2> QED  BY <2>1 DEF HonestResults, Registered
<1>2. CASE p = t
  BY <1>2 DEF TypeOK, Return, Registered
<1> QED  BY <1>1, <1>2

\* The frame of an activation is a frame ...
LEMMA UnitFrameTyped == \A l \in Load : UnitFrame(l) \in Frame
BY DEF UnitFrame, Frame, UnitFrames

\* ... so is the frame a scan starts with ...
LEMMA ScanFrameTyped == \A todo \in SUBSET (Unit \cup {None}) : ScanFrame(todo) \in Frame
BY DEF ScanFrame, Frame, ScanFrames

\* ... and the frame a connect starts with.
LEMMA ConnectFrameTyped == \A k \in Key, ref \in Unit \cup {None} : ConnectFrame(k, ref) \in Frame
BY DEF ConnectFrame, Frame, ConnectFrames, Legs

\* A pass scans units, and possibly the absent ref.
LEMMA PassTyped ==
  ASSUME TypeOK, NEW f \in ConnectFrames
  PROVE  PassCandies(f) \in SUBSET (Unit \cup {None})
BY ManifestAssumption DEF PassCandies, Referenced, ConnectFrames

\* A host call puts one frame on an empty stack and keeps stacks and results typed.
LEMMA HostCallControls ==
  ASSUME TypeOK, HonestResults, NEW t \in Thread, HostCall(t)
  PROVE  ControlOnly
<1>1. ASSUME NEW f \in Frame, stack' = [stack EXCEPT ![t] = <<f>>], ret' = [ret EXCEPT ![t] = None],
             calls' = [calls EXCEPT ![t] = @ + 1],
             UNCHANGED <<registry, schemas, load, conn, inFlight, once, host>>
      PROVE  ControlOnly
  <2>1. HonestResults'
    BY <1>1, HonestReturn DEF registry
  <2>2. ControlTypes'
    BY <1>1 DEF TypeOK, ControlTypes
  <2> QED  BY <1>1, <2>1, <2>2 DEF ControlOnly
<1>2. ASSUME NEW k \in Key, CallConnect(t, k) PROVE ControlOnly
  <2>1. ConnectFrame(k, CanonicalRef[k]) \in Frame
    BY ConnectFrameTyped, ManifestAssumption
  <2> QED  BY <1>1, <1>2, <2>1 DEF CallConnect
<1>3. ASSUME NEW words \in SUBSET Word, CallLoad(t, words) PROVE ControlOnly
  <2>1. ScanFrame(Referenced(Local, words)) \in Frame
    BY ScanFrameTyped, ManifestAssumption DEF Referenced
  <2> QED  BY <1>1, <1>3, <2>1 DEF CallLoad
<1> QED  BY <1>2, <1>3 DEF HostCall

\* A connect or scan step that rewrites t's stack, and starts at most one activation.
LEMMA ControlStep ==
  ASSUME TypeOK, HonestResults, NEW t \in Thread, ~Idle(t),
         NEW f \in Frame, NEW g \in Frame, NEW k \in Key \cup {None}, NEW ok \in BOOLEAN,
         \/ Continue(t, f)
         \/ Call(t, f, g)
         \/ Return(t, k, ok) /\ (ok /\ k # None => Registered(k)),
         UNCHANGED load \/ Starts,
         once' \in {"new", "running", "done", "broken"},
         UNCHANGED <<registry, schemas, conn, inFlight, calls, host>>
  PROVE  ControlOnly
<1>1. stack' \in [Thread -> Seq(Frame)] /\ ret' \in [Thread -> Result \cup {None}]
  BY ControlTyped
<1>2. HonestResults'
  <2>1. CASE Continue(t, f) \/ Call(t, f, g)
    BY <2>1, HonestReturn DEF Continue, Call, registry
  <2>2. CASE Return(t, k, ok)
    BY <2>2, HonestReturn DEF registry, Return, Continue, Call
  <2> QED  BY <2>1, <2>2
<1> QED  BY <1>1, <1>2 DEF ControlOnly, ControlTypes, TypeOK

\* Every step of a connect keeps stacks and results typed and results honest.
LEMMA ConnectControls ==
  ASSUME TypeOK, HonestResults, NEW t \in Thread, ConnectStep(t)
  PROVE  ControlOnly
<1> USE DEF At, Resumes
<1>1. ~Idle(t) /\ Top(t).kind = "connect"
  BY DEF ConnectStep, Resolve, ConnectBaked, NoBaked, BakedDone, Scan, ScanFails, ScanReturned,
         SecondPass, Missing
<1>2. Top(t) \in ConnectFrames /\ Top(t) \in Frame /\ Top(t).key \in Key /\ Top(t).ref \in Unit \cup {None}
  BY <1>1, FrameTyped, LocalsTyped DEF ConnectFrames
<1>3. \A leg \in Legs : [Top(t) EXCEPT !.leg = leg] \in Frame
  BY <1>1, LocalsTyped
<1>4. once \in {"new", "running", "done", "broken"}
  BY DEF TypeOK
<1>5. CASE Resolve(t)
  BY <1>1, <1>2, <1>4, <1>5, ControlStep DEF Resolve
<1>6. CASE ConnectBaked(t)
  <2>1. PICK l \in Load : /\ Fresh(l)
                          /\ Begin(l, BakedFor[Top(t).key], "binary", "connect")
                          /\ Call(t, [Top(t) EXCEPT !.leg = "afterBaked"], UnitFrame(l))
    BY <1>6 DEF ConnectBaked
  <2>2. Starts
    BY <1>2, <1>6, <2>1, ManifestAssumption DEF ConnectBaked, Starts
  <2>3. [Top(t) EXCEPT !.leg = "afterBaked"] \in Frame /\ UnitFrame(l) \in Frame
    BY <1>3, UnitFrameTyped DEF Legs
  <2> QED  BY <1>1, <1>4, <1>6, <2>1, <2>2, <2>3, ControlStep DEF ConnectBaked
<1>7. CASE NoBaked(t)
  <2>1. [Top(t) EXCEPT !.leg = "own"] \in Frame
    BY <1>3 DEF Legs
  <2> QED  BY <1>1, <1>4, <1>7, <2>1, ControlStep DEF NoBaked
<1>8. CASE BakedDone(t)
  <2>1. [Top(t) EXCEPT !.leg = "own"] \in Frame
    BY <1>3 DEF Legs
  <2> QED  BY <1>1, <1>2, <1>4, <1>8, <2>1, ControlStep DEF BakedDone
<1>9. CASE Scan(t)
  <2>1. ScanFrame(PassCandies(Top(t))) \in Frame
    BY <1>2, PassTyped, ScanFrameTyped
  <2>2. /\ [Top(t) EXCEPT !.leg = "afterOwn"] \in Frame
        /\ [Top(t) EXCEPT !.leg = "afterRef"] \in Frame
    BY <1>3 DEF Legs
  <2> QED  BY <1>1, <1>4, <1>9, <2>1, <2>2, ControlStep DEF Scan
<1>10. CASE ScanFails(t)
  <2>1. [Top(t) EXCEPT !.leg = "ref"] \in Frame /\ [Top(t) EXCEPT !.leg = "afterRef"] \in Frame
    BY <1>3 DEF Legs
  <2> QED  BY <1>1, <1>4, <1>10, <2>1, ControlStep DEF ScanFails
<1>11. CASE ScanReturned(t)
  BY <1>1, <1>2, <1>4, <1>11, ControlStep DEF ScanReturned
<1>12. CASE SecondPass(t)
  <2>1. [Top(t) EXCEPT !.leg = "ref"] \in Frame /\ [Top(t) EXCEPT !.leg = "afterRef"] \in Frame
    BY <1>3 DEF Legs
  <2>2. [Top(t) EXCEPT !.leg = IF Top(t).ref # None THEN "ref" ELSE "afterRef"] \in Frame
    BY <2>1
  <2> QED  BY <1>1, <1>4, <1>12, <2>2, ControlStep DEF SecondPass
<1>13. CASE Missing(t)
  BY <1>1, <1>2, <1>4, <1>13, ControlStep DEF Missing
<1> QED  BY <1>5, <1>6, <1>7, <1>8, <1>9, <1>10, <1>11, <1>12, <1>13 DEF ConnectStep

\* Every step of a scan or of the start-up gate keeps stacks and results typed and results honest.
LEMMA ScanControls ==
  ASSUME TypeOK, HonestResults, NEW t \in Thread, ScanStep(t)
  PROVE  ControlOnly
<1> USE DEF At, Resumes
<1>1. ~Idle(t) /\ Top(t).kind \in {"scan", "once"}
  BY DEF ScanStep, StartOnce, PassOnce, OnceReturned, GateStartUnit, StartUnitReturned, OnceDone,
         VisitCandy, CandyReturned, ScanDone
<1>2. Top(t) \in Frame /\ OnceFrame \in Frame
  BY <1>1, FrameTyped DEF OnceFrame, Frame, OnceFrames
<1>3. Top(t).kind = "scan" => /\ [Top(t) EXCEPT !.gated = TRUE] \in Frame
                              /\ \A u : [Top(t) EXCEPT !.todo = @ \ {u}] \in Frame
  BY <1>1, LocalsTyped
<1>4. once \in {"new", "running", "done", "broken"}
  BY DEF TypeOK
<1>5. CASE StartOnce(t)
  BY <1>1, <1>2, <1>5, ControlStep DEF StartOnce
<1>6. CASE PassOnce(t)
  BY <1>1, <1>2, <1>3, <1>4, <1>6, ControlStep DEF PassOnce
<1>7. CASE OnceReturned(t)
  BY <1>1, <1>2, <1>4, <1>7, ControlStep DEF OnceReturned
<1>8. CASE GateStartUnit(t)
  <2>1. PICK l \in Load : /\ Fresh(l)
                          /\ Begin(l, StartUnits[Top(t).next], "compiled", "schema")
                          /\ Call(t, Top(t), UnitFrame(l))
    BY <1>8 DEF GateStartUnit
  <2>2. Top(t) \in OnceFrames
    BY <1>1, <1>8, LocalsTyped DEF GateStartUnit
  <2>3. StartUnits[Top(t).next] \in Unit
    BY <1>8, <2>2, ManifestAssumption DEF OnceFrames, GateStartUnit
  <2>4. Starts
    BY <2>1, <2>3 DEF Starts
  <2> QED  BY <1>1, <1>2, <1>4, <1>8, <2>1, <2>4, UnitFrameTyped, ControlStep DEF GateStartUnit
<1>9. CASE StartUnitReturned(t)
  <2>1. [Top(t) EXCEPT !.next = @ + 1] \in Frame
    BY <1>1, <1>9, LocalsTyped DEF StartUnitReturned
  <2> QED  BY <1>1, <1>2, <1>4, <1>9, <2>1, ControlStep DEF StartUnitReturned
<1>10. CASE OnceDone(t)
  BY <1>1, <1>2, <1>4, <1>10, ControlStep DEF OnceDone
<1>11. ASSUME NEW u \in Unit, VisitCandy(t, u) PROVE ControlOnly
  <2> DEFINE rest == [Top(t) EXCEPT !.todo = @ \ {u}]
  <2>1. rest \in Frame
    BY <1>3, <1>11 DEF VisitCandy
  <2>2. UNCHANGED <<registry, schemas, conn, inFlight, once, calls, host>>
    BY <1>11 DEF VisitCandy
  <2>3. \/ Return(t, None, FALSE) /\ UNCHANGED load
        \/ Continue(t, rest) /\ UNCHANGED load
        \/ \E l \in Load : Starts /\ Call(t, rest, UnitFrame(l))
    BY <1>11 DEF VisitCandy, Starts
  <2> HIDE DEF rest
  <2> QED  BY <1>1, <1>2, <1>4, <2>1, <2>2, <2>3, UnitFrameTyped, ControlStep
<1>12. CASE CandyReturned(t)
  BY <1>1, <1>2, <1>4, <1>12, ControlStep DEF CandyReturned
<1>13. CASE ScanDone(t)
  BY <1>1, <1>2, <1>4, <1>13, ControlStep DEF ScanDone
<1> QED  BY <1>5, <1>6, <1>7, <1>8, <1>9, <1>10, <1>11, <1>12, <1>13 DEF ScanStep

(***************************************************************************)
(* The steps of an activation: types                                       *)
(***************************************************************************)

LoadsNamed == \A l \in Load : load[l].pc # "free" => UnitOf(l) \in Unit

\* What t's stack and results look like after a step of an activation.
LEMMA UnitReturnTyped ==
  ASSUME TypeOK, HonestResults, UNCHANGED byKey, NEW t \in Thread, ~Idle(t),
         \/ UNCHANGED control
         \/ \E ok \in BOOLEAN : Return(t, None, ok)
         \/ Continue(t, Top(t))
         \/ \E k \in Key, ref \in Unit \cup {None} : Call(t, Top(t), ConnectFrame(k, ref))
  PROVE  /\ stack' \in [Thread -> Seq(Frame)]
         /\ ret' \in [Thread -> Result \cup {None}]
         /\ HonestResults'
<1>1. Top(t) \in Frame
  BY FrameTyped
<1>2. CASE UNCHANGED control
  BY <1>2 DEF control, TypeOK, HonestResults, Registered
<1>3. ASSUME NEW ok \in BOOLEAN, Return(t, None, ok)
      PROVE  /\ stack' \in [Thread -> Seq(Frame)]
             /\ ret' \in [Thread -> Result \cup {None}]
             /\ HonestResults'
  BY <1>1, <1>3, ControlTyped, HonestReturn
<1>4. CASE Continue(t, Top(t))
  <2>1. HonestResults'
    BY <1>4, HonestReturn DEF Continue
  <2> QED  BY <1>1, <1>4, <2>1, ControlTyped
<1>5. ASSUME NEW k \in Key, NEW ref \in Unit \cup {None}, Call(t, Top(t), ConnectFrame(k, ref))
      PROVE  /\ stack' \in [Thread -> Seq(Frame)]
             /\ ret' \in [Thread -> Result \cup {None}]
             /\ HonestResults'
  <2>1. HonestResults'
    BY <1>5, HonestReturn DEF Call
  <2> QED  BY <1>1, <1>5, <2>1, ControlTyped, ConnectFrameTyped
<1> QED  BY <1>2, <1>3, <1>4, <1>5

\* The record of an activation that is not in use is typed.
LEMMA FreeTyped == Free \in Activation /\ Free.pc = "free"
BY DEF Free, Activation, Kinds, Pcs

\* An activation changes at most where it is; its unit and kind stay, and so do the others.
Moves(l) ==
  /\ load' \in [Load -> Activation]
  /\ load'[l].unit = load[l].unit /\ load'[l].kind = load[l].kind
  /\ \A m \in Load : m # l => load'[m] = load[m]

\* Advancing an activation changes its pc and no other activation.
LEMMA AdvanceMoves ==
  ASSUME TypeOK, NEW l \in Load, NEW pc \in Pcs, Advance(l, pc)
  PROVE  /\ Moves(l) /\ load'[l].pc = pc
         /\ load'[l].req = load[l].req /\ load'[l].reg = load[l].reg
<1>1. load[l] \in Activation
  BY DEF TypeOK
<1>2. load' = [load EXCEPT ![l] = [load[l] EXCEPT !.pc = pc]]
  BY DEF Advance, TypeOK
<1>3. [load[l] EXCEPT !.pc = pc] \in Activation
  BY <1>1 DEF Activation
<1>4. load'[l] = [load[l] EXCEPT !.pc = pc]
  BY <1>2 DEF TypeOK
<1> QED  BY <1>1, <1>2, <1>3, <1>4 DEF Moves, TypeOK, Activation

\* A failing activation keeps loads and connections typed.
LEMMA FailTyped ==
  ASSUME TypeOK, LoadsNamed, NEW t \in Thread, NEW l \in Load, load[l].pc # "free", Fail(t, l)
  PROVE  /\ Return(t, None, FALSE)
         /\ load' \in [Load -> Activation]
         /\ conn' \in [Load -> {"none", "open", "closed"}]
         /\ LoadsNamed'
<1>1. CASE \E k \in Key : byKey[k] = l
  <2>1. Advance(l, "failed") /\ conn' = [conn EXCEPT ![l] = "closed"]
    BY <1>1 DEF Fail
  <2>2. Moves(l)
    BY <2>1, AdvanceMoves DEF Pcs
  <2>3. LoadsNamed'
    BY <2>2 DEF Moves, LoadsNamed, UnitOf
  <2> QED  BY <2>1, <2>2, <2>3 DEF Fail, Moves, TypeOK
<1>2. CASE ~\E k \in Key : byKey[k] = l
  <2>1. load' = [load EXCEPT ![l] = Free] /\ conn' = [conn EXCEPT ![l] = "none"]
    BY <1>2 DEF Fail
  <2>2. LoadsNamed'
    BY <2>1, FreeTyped DEF TypeOK, LoadsNamed, UnitOf
  <2> QED  BY <2>1, <2>2, FreeTyped DEF Fail, TypeOK
<1> QED  BY <1>1, <1>2

\* Marking keys in flight keeps the marks typed ...
LEMMA MarksTyped ==
  ASSUME TypeOK, NEW keys, NEW u \in Unit \cup {None}, MarkKeys(keys, u)
  PROVE  inFlight' \in [Key -> Unit \cup {None}]
BY DEF TypeOK, MarkKeys

\* ... and so does the deferred cleanup.
LEMMA UnmarkTyped ==
  ASSUME TypeOK, NEW l, Unmark(l)
  PROVE  inFlight' \in [Key -> Unit \cup {None}]
BY MarksTyped DEF Unmark

\* Moving to the next requirement or the next provider.
LEMMA ServedMoves ==
  ASSUME TypeOK, NEW l \in Load, load' = [load EXCEPT ![l].req = @ + 1]
  PROVE  /\ Moves(l)
         /\ load'[l].pc = load[l].pc /\ load'[l].reg = load[l].reg
         /\ load'[l].req = load[l].req + 1
<1>1. load[l] \in Activation
  BY DEF TypeOK
<1>2. load' = [load EXCEPT ![l] = [load[l] EXCEPT !.req = @ + 1]]
  BY DEF TypeOK
<1>3. [load[l] EXCEPT !.req = @ + 1] \in Activation
  BY <1>1 DEF Activation, Pcs
<1>4. load'[l] = [load[l] EXCEPT !.req = @ + 1]
  BY <1>2 DEF TypeOK
<1> QED  BY <1>1, <1>2, <1>3, <1>4 DEF Moves, TypeOK, Activation

\* A returning requirement moves its activation to the next one, and touches no other.
LEMMA PeerMoves ==
  ASSUME TypeOK, NEW l \in Load, load' = [load EXCEPT ![l].pc = "gate", ![l].req = @ + 1]
  PROVE  /\ Moves(l)
         /\ load'[l].pc = "gate" /\ load'[l].reg = load[l].reg
         /\ load'[l].req = load[l].req + 1
<1>1. load[l] \in Activation
  BY DEF TypeOK
<1>2. load' = [load EXCEPT ![l] = [load[l] EXCEPT !.pc = "gate", !.req = @ + 1]]
  BY DEF TypeOK
<1>3. [load[l] EXCEPT !.pc = "gate", !.req = @ + 1] \in Activation
  <2>1. "gate" \in Pcs /\ load[l].req + 1 \in Nat \ {0}
    BY <1>1 DEF Activation, Pcs
  <2> QED  BY <1>1, <2>1 DEF Activation
<1>4. load'[l] = [load[l] EXCEPT !.pc = "gate", !.req = @ + 1]
  BY <1>2 DEF TypeOK
<1> QED  BY <1>1, <1>2, <1>3, <1>4 DEF Moves, TypeOK, Activation

\* Going to the next provider moves one activation only.
LEMMA ProviderMoves ==
  ASSUME TypeOK, NEW l \in Load, load' = [load EXCEPT ![l].reg = @ + 1]
  PROVE  /\ Moves(l)
         /\ load'[l].pc = load[l].pc /\ load'[l].req = load[l].req
         /\ load'[l].reg = load[l].reg + 1
<1>1. load[l] \in Activation
  BY DEF TypeOK
<1>2. load' = [load EXCEPT ![l] = [load[l] EXCEPT !.reg = @ + 1]]
  BY DEF TypeOK
<1>3. [load[l] EXCEPT !.reg = @ + 1] \in Activation
  BY <1>1 DEF Activation, Pcs
<1>4. load'[l] = [load[l] EXCEPT !.reg = @ + 1]
  BY <1>2 DEF TypeOK
<1> QED  BY <1>1, <1>2, <1>3, <1>4 DEF Moves, TypeOK, Activation

\* After the gates a connected unit registers and every other activation finishes.
LEMMA AfterGateTyped ==
  \A kind : AfterGate(kind) \in {"register", "finish"} /\ (AfterGate(kind) = "register" => kind = "binary")
BY DEF AfterGate

(***************************************************************************)
(* The inductive invariant: how far an activation is says what has been    *)
(* done for it, and a provider in the registry belongs to an activation    *)
(* that got as far as registering.                                         *)
(***************************************************************************)

SchemaCommitted(u) ==
  /\ \E x \in sources : x.src = SchemaOf[u]
  /\ \A j \in InputKeys[u] : inputDef[j] # None

\* Past the schema gate the schema is in the set.  The gate of a connected candy has no
\* schema of its own, and never gets to registering.
SchemaDone(l) ==
  /\ load[l].kind # "manifest" /\ load[l].pc \notin {"free", "connect", "schema"}
       => SchemaCommitted(UnitOf(l))
  /\ load[l].pc \in {"register", "serving", "failed"} => load[l].kind = "binary"

Met(u, i) == ~Requires[u][i].optional => Registered(Requires[u][i].key)

\* The gate has met every requirement before the one it looks at, and then all of them.
RequirementsDone(l) ==
  /\ load[l].pc \in {"connect", "schema", "mark"} => load[l].req = 1
  /\ load[l].pc \in {"gate", "peer"} =>
       \A i \in DOMAIN Requires[UnitOf(l)] : i < load[l].req => Met(UnitOf(l), i)
  /\ load[l].pc \in {"register", "serving", "failed"} =>
       \A i \in DOMAIN Requires[UnitOf(l)] : Met(UnitOf(l), i)

RegisteredBy(k, l) ==
  /\ load[l].kind = "binary" /\ load[l].pc \in {"register", "serving", "failed"}
  /\ k \in Elems(Served[UnitOf(l)])
  /\ origins[k] = OriginOf[UnitOf(l)]

ProvidersPlaced == \A k \in Key : External(k) => RegisteredBy(k, byKey[k])

Progress == \A l \in Load : SchemaDone(l) /\ RequirementsDone(l)

\* Every committed source owns its definitions.
DefsOwned ==
  \A x \in sources : x.src \in Schema /\ x.id # None /\ \A d \in DefsOf[x.src] : defOwner[d] = x.id

IInv == TypeOK /\ HonestResults /\ LoadsNamed /\ ProvidersPlaced /\ Progress /\ DefsOwned

\* The registry and the schema set only grow.
Grows ==
  /\ \A k \in Key : Registered(k) => byKey'[k] = byKey[k] /\ origins'[k] = origins[k]
  /\ sources \subseteq sources'
  /\ \A j \in Key : inputDef[j] # None => inputDef'[j] # None

\* The requirement an activation is at is a requirement of its unit.
LEMMA RequirementTyped ==
  ASSUME NEW u \in Unit, NEW i \in DOMAIN Requires[u]
  PROVE  /\ Requires[u][i].key \in Key
         /\ Requires[u][i].optional \in BOOLEAN
         /\ Requires[u][i].ref \in Unit \cup {None}
<1>1. Requires[u] \in Seq(Requirement)
  BY ManifestAssumption
<1>2. Requires[u][i] \in Requirement
  BY <1>1
<1> QED  BY <1>2 DEF Requirement

\* A step that leaves the registry and the schemas alone takes nothing from them.
LEMMA QuietGrows == UNCHANGED <<byKey, origins, sources, inputDef>> => Grows
BY DEF Grows

\* What holds of an activation that stays where it is still holds.
LEMMA OthersKeep ==
  ASSUME TypeOK, LoadsNamed, Grows, NEW l \in Load, load'[l] = load[l],
         SchemaDone(l), RequirementsDone(l)
  PROVE  SchemaDone(l)' /\ RequirementsDone(l)'
<1>1. CASE load[l].pc = "free"
  BY <1>1 DEF SchemaDone, RequirementsDone
<1>2. CASE load[l].pc # "free"
  <2>1. UnitOf(l) \in Unit /\ UnitOf(l)' = UnitOf(l)
    BY <1>2 DEF LoadsNamed, UnitOf
  <2>2. SchemaCommitted(UnitOf(l)) => SchemaCommitted(UnitOf(l))'
    BY <2>1, ManifestAssumption DEF SchemaCommitted, Grows
  <2>3. \A i \in DOMAIN Requires[UnitOf(l)] : Met(UnitOf(l), i) => Met(UnitOf(l), i)'
    <3>1. \A i \in DOMAIN Requires[UnitOf(l)] : Requires[UnitOf(l)][i].key \in Key
      BY <2>1, RequirementTyped
    <3> QED  BY <2>1, <3>1 DEF Met, Grows, Registered
  <2> QED  BY <2>1, <2>2, <2>3 DEF SchemaDone, RequirementsDone
<1> QED  BY <1>1, <1>2

\* An activation that moves on keeps the invariant if it has done what its new place says.
LEMMA MoveKeeps ==
  ASSUME IInv, Grows, NEW l \in Load, load[l].pc # "free", Moves(l),
         SchemaDone(l)', RequirementsDone(l)',
         \/ load'[l].pc \in {"register", "serving", "failed"}
         \/ \A k \in Key : byKey[k] # l,
         \A k \in Key : \/ byKey'[k] = byKey[k] /\ origins'[k] = origins[k]
                        \/ byKey'[k] = l /\ RegisteredBy(k, l)'
  PROVE  LoadsNamed' /\ ProvidersPlaced' /\ Progress'
<1>1. LoadsNamed'
  BY DEF IInv, Moves, LoadsNamed, UnitOf
<1>2. Progress'
  <2>1. ASSUME NEW m \in Load, m # l PROVE SchemaDone(m)' /\ RequirementsDone(m)'
    BY <2>1, OthersKeep DEF IInv, Moves, Progress
  <2> QED  BY <2>1 DEF Progress
<1>3. ProvidersPlaced'
  <2> SUFFICES ASSUME NEW k \in Key, byKey'[k] \in Load
               PROVE  RegisteredBy(k, byKey[k])'
    BY DEF ProvidersPlaced, External, Load
  <2>1. CASE byKey'[k] = l /\ RegisteredBy(k, l)'
    BY <2>1 DEF RegisteredBy
  <2>2. CASE byKey'[k] = byKey[k] /\ origins'[k] = origins[k]
    <3>1. RegisteredBy(k, byKey[k])
      BY <2>2 DEF IInv, ProvidersPlaced, External
    <3>2. CASE byKey[k] = l
      BY <2>2, <3>1, <3>2 DEF Moves, RegisteredBy, UnitOf
    <3>3. CASE byKey[k] # l
      BY <2>2, <3>1, <3>3 DEF Moves, RegisteredBy, UnitOf
    <3> QED  BY <3>2, <3>3
  <2> QED  BY <2>1, <2>2
<1> QED  BY <1>1, <1>2, <1>3

\* So does a step that begins or frees an activation that serves nothing.
LEMMA ReplaceKeeps ==
  ASSUME IInv, UNCHANGED <<byKey, origins, sources, inputDef>>,
         NEW l \in Load, \A k \in Key : byKey[k] # l,
         NEW a \in Activation, load' = [load EXCEPT ![l] = a],
         a.pc # "free" => a.unit \in Unit /\ a.req = 1,
         a.pc \in {"free", "connect", "schema"} \/ (a.kind = "manifest" /\ a.pc = "mark")
  PROVE  LoadsNamed' /\ ProvidersPlaced' /\ Progress' /\ load' \in [Load -> Activation]
<1>1. load'[l] = a /\ \A m \in Load : m # l => load'[m] = load[m]
  BY DEF IInv, TypeOK
<1>2. LoadsNamed'
  BY <1>1 DEF IInv, LoadsNamed, UnitOf
<1>3. Progress'
  <2>1. SchemaDone(l)' /\ RequirementsDone(l)'
    BY <1>1 DEF SchemaDone, RequirementsDone
  <2>2. ASSUME NEW m \in Load, m # l PROVE SchemaDone(m)' /\ RequirementsDone(m)'
    BY <1>1, <2>2, OthersKeep, QuietGrows DEF IInv, Progress
  <2> QED  BY <2>1, <2>2 DEF Progress
<1>4. ProvidersPlaced'
  BY <1>1 DEF IInv, ProvidersPlaced, External, RegisteredBy, UnitOf
<1> QED  BY <1>2, <1>3, <1>4 DEF IInv, TypeOK

\* An activation that has not come to registering has no provider in the registry.
LEMMA UnservedPc ==
  ASSUME IInv, NEW l \in Load, load[l].pc \notin {"register", "serving", "failed"}
  PROVE  \A k \in Key : byKey[k] # l
BY DEF IInv, ProvidersPlaced, External, RegisteredBy

\* A step that changes stacks only keeps the invariant.
LEMMA ControlKeeps ==
  ASSUME IInv, ControlOnly
  PROVE  IInv'
<1>1. UNCHANGED <<byKey, origins, closers, sources, defOwner, inputDef, conn, inFlight, host>>
  BY DEF ControlOnly, registry, schemas
<1>2. LoadsNamed' /\ ProvidersPlaced' /\ Progress' /\ load' \in [Load -> Activation]
  <2>1. CASE UNCHANGED load
    <3>1. \A l \in Load : SchemaDone(l)' /\ RequirementsDone(l)'
      BY <1>1, <2>1, OthersKeep, QuietGrows DEF IInv, Progress
    <3> QED  BY <1>1, <2>1, <3>1 DEF IInv, TypeOK, LoadsNamed, UnitOf, ProvidersPlaced, External,
                                     RegisteredBy, Progress
  <2>2. CASE Starts
    <3>1. PICK l \in Load, u \in Unit :
            /\ load[l].pc = "free"
            /\ \/ Begin(l, u, "binary", "connect")
               \/ Begin(l, u, "manifest", "mark")
               \/ Begin(l, u, "compiled", "schema")
      BY <2>2 DEF Starts, Fresh
    <3>2. \A k \in Key : byKey[k] # l
      BY <3>1, UnservedPc
    <3>3. \A kind \in Kinds, pc \in Pcs :
            [unit |-> u, kind |-> kind, pc |-> pc, req |-> 1, reg |-> 1] \in Activation
      BY DEF Activation
    <3>4. {"binary", "manifest", "compiled"} \subseteq Kinds /\ {"connect", "mark", "schema"} \subseteq Pcs
      BY DEF Kinds, Pcs
    <3> QED  BY <1>1, <3>1, <3>2, <3>3, <3>4, ReplaceKeeps DEF Begin
  <2> QED  BY <2>1, <2>2 DEF ControlOnly
<1>3. TypeOK'
  BY <1>1, <1>2 DEF IInv, TypeOK, ControlOnly, ControlTypes
<1> QED  BY <1>1, <1>2, <1>3 DEF IInv, ControlOnly, DefsOwned

\* An activation that runs has a unit, on a goroutine that is not idle.
LEMMA RunsFacts ==
  ASSUME IInv, NEW t \in Thread, NEW l \in Load, NEW pc \in Pcs \ {"free"}, Runs(t, l, pc)
  PROVE  /\ ~Idle(t) /\ load[l].pc = pc /\ load[l].pc # "free" /\ UnitOf(l) \in Unit
         /\ load[l] \in Activation
BY DEF Runs, At, IInv, LoadsNamed, TypeOK

\* A step of an activation that registers nothing and does not touch the schemas.
LEMMA QuietStep ==
  ASSUME IInv, NEW t \in Thread, ~Idle(t), NEW l \in Load, load[l].pc # "free", Moves(l),
         UNCHANGED <<byKey, origins, schemas, calls>>,
         \/ UNCHANGED control
         \/ \E ok \in BOOLEAN : Return(t, None, ok)
         \/ Continue(t, Top(t))
         \/ \E k \in Key, ref \in Unit \cup {None} : Call(t, Top(t), ConnectFrame(k, ref)),
         closers' \subseteq Load,
         conn' \in [Load -> {"none", "open", "closed"}],
         inFlight' \in [Key -> Unit \cup {None}],
         UNCHANGED <<once, host>>,
         SchemaDone(l)', RequirementsDone(l)',
         load'[l].pc \in {"register", "serving", "failed"} \/ \A k \in Key : byKey[k] # l
  PROVE  IInv'
<1>1. Grows
  BY DEF Grows, schemas
<1>2. LoadsNamed' /\ ProvidersPlaced' /\ Progress'
  BY <1>1, MoveKeeps
<1>3. /\ stack' \in [Thread -> Seq(Frame)]
      /\ ret' \in [Thread -> Result \cup {None}]
      /\ HonestResults'
  BY UnitReturnTyped DEF IInv
<1>4. TypeOK'
  BY <1>3 DEF IInv, TypeOK, Moves, schemas
<1>5. DefsOwned'
  BY DEF IInv, DefsOwned, schemas
<1> QED  BY <1>2, <1>3, <1>4, <1>5 DEF IInv

\* An activation that fails, freed or kept for the providers it registered, keeps the invariant.
LEMMA FailKeeps ==
  ASSUME IInv, NEW t \in Thread, ~Idle(t), NEW l \in Load, load[l].pc # "free", Fail(t, l),
         UNCHANGED <<registry, schemas, once, calls, host>>,
         inFlight' \in [Key -> Unit \cup {None}]
  PROVE  IInv'
<1>1. UNCHANGED <<byKey, origins, closers, sources, defOwner, inputDef, once, calls, host>>
  BY DEF registry, schemas
<1>2. Return(t, None, FALSE) /\ load' \in [Load -> Activation]
      /\ conn' \in [Load -> {"none", "open", "closed"}]
  BY FailTyped DEF IInv
<1>3. CASE \E k \in Key : byKey[k] = l
  <2>1. Advance(l, "failed")
    BY <1>3 DEF Fail
  <2>2. Moves(l) /\ load'[l].pc = "failed"
    BY <2>1, AdvanceMoves DEF IInv, Pcs
  <2>3. load[l].kind = "binary" /\ load[l].pc \in {"register", "serving", "failed"}
    BY <1>3 DEF IInv, ProvidersPlaced, External, RegisteredBy
  <2>4. SchemaDone(l)' /\ RequirementsDone(l)'
    <3>1. SchemaCommitted(UnitOf(l)) /\ \A i \in DOMAIN Requires[UnitOf(l)] : Met(UnitOf(l), i)
      BY <2>3 DEF IInv, Progress, SchemaDone, RequirementsDone
    <3> QED  BY <1>1, <2>2, <2>3, <3>1 DEF Moves, SchemaDone, RequirementsDone, SchemaCommitted,
                                          Met, UnitOf, Registered
  <2>5. closers' \subseteq Load
    BY <1>1 DEF IInv, TypeOK
  <2> QED  BY <1>1, <1>2, <2>2, <2>4, <2>5, QuietStep DEF schemas
<1>4. CASE ~\E k \in Key : byKey[k] = l
  <2>1. load' = [load EXCEPT ![l] = Free]
    BY <1>4 DEF Fail
  <2>2. LoadsNamed' /\ ProvidersPlaced' /\ Progress'
    BY <1>1, <1>4, <2>1, FreeTyped, ReplaceKeeps
  <2>3. /\ stack' \in [Thread -> Seq(Frame)]
        /\ ret' \in [Thread -> Result \cup {None}]
        /\ HonestResults'
    BY <1>1, <1>2, UnitReturnTyped DEF IInv
  <2> QED  BY <1>1, <1>2, <2>2, <2>3 DEF IInv, TypeOK, DefsOwned
<1> QED  BY <1>3, <1>4

(***************************************************************************)
(* One step per action of an activation                                    *)
(***************************************************************************)

\* Connecting, or failing to, keeps the invariant.
LEMMA ConnectKeeps ==
  ASSUME IInv, NEW t \in Thread, NEW l \in Load, Connect(t, l) \/ ConnectFails(t, l)
  PROVE  IInv'
<1>1. ~Idle(t) /\ load[l].pc = "connect" /\ load[l].pc # "free" /\ \A k \in Key : byKey[k] # l
  BY RunsFacts, UnservedPc DEF Connect, ConnectFails, Pcs
<1>2. CASE Connect(t, l)
  <2>1. Moves(l) /\ load'[l].pc = "schema" /\ load'[l].req = load[l].req
    BY <1>2, AdvanceMoves DEF Connect, IInv, Pcs
  <2>2. SchemaDone(l)' /\ RequirementsDone(l)'
    BY <1>1, <2>1 DEF IInv, Progress, SchemaDone, RequirementsDone
  <2> QED  BY <1>1, <1>2, <2>1, <2>2, QuietStep DEF Connect, IInv, TypeOK, registry
<1>3. CASE ConnectFails(t, l)
  BY <1>1, <1>3, FailKeeps DEF ConnectFails, IInv, TypeOK
<1> QED  BY <1>2, <1>3

\* Committing or refusing a schema keeps the invariant; this is where defs get their owner.
LEMMA SchemaKeeps ==
  ASSUME IInv, NEW t \in Thread, NEW l \in Load, SchemaGate(t, l) \/ SchemaRejected(t, l)
  PROVE  IInv'
<1> DEFINE u == UnitOf(l)
<1>1. /\ ~Idle(t) /\ load[l].pc = "schema" /\ load[l].pc # "free" /\ u \in Unit
      /\ \A k \in Key : byKey[k] # l
  BY RunsFacts, UnservedPc DEF SchemaGate, SchemaRejected, Pcs
<1>2. /\ SchemaOf[u] \in Schema /\ InputKeys[u] \subseteq Key /\ InputKeys[u] # None
      /\ None \notin Schema /\ u # None /\ DefsOf[SchemaOf[u]] \subseteq Def
  BY <1>1, ManifestAssumption, TagAssumption
<1>3. CASE SchemaRejected(t, l)
  BY <1>1, <1>3, FailKeeps DEF SchemaRejected, IInv, TypeOK
<1>4. CASE SchemaGate(t, l)
  <2> USE <1>4 DEF SchemaGate
  <2>1. /\ ~DefClash(u) /\ sources' = Committed(u)
        /\ defOwner' = [d \in Def |-> IF d \in DefsOf[SchemaOf[u]] /\ defOwner[d] = None
                                      THEN Identity(u) ELSE defOwner[d]]
        /\ inputDef' = [k \in Key |-> IF k \in InputKeys[u] THEN SchemaOf[u] ELSE inputDef[k]]
        /\ UNCHANGED <<byKey, origins, closers, conn, inFlight, once, stack, ret, calls, host>>
    BY DEF registry, control
  <2>2. Moves(l) /\ load'[l].pc \in {"mark", "register", "finish"} /\ load'[l].req = load[l].req
        /\ (Requires[u] # <<>> => load'[l].pc = "mark")
        /\ (load'[l].pc = "register" => load[l].kind = "binary")
    BY AfterGateTyped, AdvanceMoves DEF IInv, Pcs
  <2>3. Identity(u) # None
    BY <1>2 DEF Identity
  <2>4. sources \subseteq sources' /\ \E x \in sources' : x.src = SchemaOf[u]
    <3>1. CASE Replay(u)
      BY <2>1, <3>1 DEF Committed, Replay
    <3>2. CASE ~Replay(u)
      <4>1. sources' = sources \cup {[src |-> SchemaOf[u], id |-> Identity(u)]}
        BY <2>1, <3>2 DEF Committed
      <4>2. [src |-> SchemaOf[u], id |-> Identity(u)].src = SchemaOf[u]
        OBVIOUS
      <4> HIDE DEF SchemaGate, u
      <4> QED  BY <4>1, <4>2
    <3> QED  BY <3>1, <3>2
  <2>5. Grows
    BY <1>2, <2>1, <2>4 DEF Grows
  <2>6. SchemaDone(l)'
    BY <1>2, <2>1, <2>2, <2>4 DEF SchemaDone, SchemaCommitted, Moves, UnitOf
  <2>7. RequirementsDone(l)'
    <3> load[l].req = 1
      BY <1>1 DEF IInv, Progress, RequirementsDone
    <3>1. CASE Requires[u] = <<>>
      <4>1. DOMAIN Requires[u] = {}
        BY <3>1
      <4> QED  BY <2>2, <4>1 DEF RequirementsDone, Moves, UnitOf
    <3>2. CASE Requires[u] # <<>>
      BY <2>2, <3>2 DEF RequirementsDone
    <3> QED  BY <3>1, <3>2
  <2>8. LoadsNamed' /\ ProvidersPlaced' /\ Progress'
    BY <1>1, <2>1, <2>2, <2>5, <2>6, <2>7, MoveKeeps
  <2>9. DefsOwned'
    <3>1. ASSUME NEW x \in sources
          PROVE  \A d \in DefsOf[x.src] : defOwner'[d] = x.id
      BY <2>1, <3>1, ManifestAssumption DEF IInv, DefsOwned
    <3>2. CASE Replay(u)
      BY <2>1, <3>1, <3>2 DEF Committed, IInv, DefsOwned
    <3>3. CASE ~Replay(u)
      <4>1. \A d \in DefsOf[SchemaOf[u]] : defOwner'[d] = Identity(u)
        BY <1>2, <2>1, <3>3 DEF DefClash
      <4>2. sources' = sources \cup {[src |-> SchemaOf[u], id |-> Identity(u)]}
        BY <2>1, <3>3 DEF Committed
      <4> QED  BY <1>2, <2>3, <3>1, <4>1, <4>2 DEF IInv, DefsOwned
    <3> QED  BY <3>2, <3>3
  <2>10. inputDef' \in [Key -> Schema \cup {None}]
    BY <1>2, <2>1 DEF IInv, TypeOK
  <2>11. TypeOK' /\ HonestResults'
    BY <2>1, <2>2, <2>10 DEF IInv, TypeOK, Moves, HonestResults, Registered
  <2> QED  BY <2>8, <2>9, <2>11 DEF IInv
<1> QED  BY <1>3, <1>4

\* Past the schema gate, or in the gate of a connected candy: the schema conjunct carries over.
LEMMA SchemaCarried ==
  ASSUME IInv, NEW l \in Load, Moves(l), UNCHANGED schemas,
         load[l].pc \notin {"free", "connect", "schema"},
         load'[l].pc \in {"register", "serving", "failed"} => load[l].kind = "binary"
  PROVE  SchemaDone(l)'
BY DEF IInv, Progress, SchemaDone, SchemaCommitted, Moves, UnitOf, schemas

\* Inside the gate, the requirements up to the current one are met.
LEMMA GateFacts ==
  ASSUME IInv, NEW l \in Load, load[l].pc \in {"gate", "peer"}
  PROVE  /\ UnitOf(l) \in Unit /\ load[l].req \in Nat \ {0}
         /\ Requires[UnitOf(l)] \in Seq(Requirement)
         /\ \A i \in DOMAIN Requires[UnitOf(l)] : i < load[l].req => Met(UnitOf(l), i)
<1>1. UnitOf(l) \in Unit /\ load[l] \in Activation
  BY DEF IInv, LoadsNamed, TypeOK
<1> QED  BY <1>1, ManifestAssumption DEF IInv, Progress, RequirementsDone, Activation

\* One more requirement is met, or the position does not change.
LEMMA RequirementsCarried ==
  ASSUME IInv, NEW l \in Load, Moves(l), UNCHANGED byKey,
         load[l].pc \in {"gate", "peer"}, load'[l].pc \in {"gate", "peer"},
         \/ load'[l].req = load[l].req
         \/ load'[l].req = load[l].req + 1 /\ (Passed(l) \/ Met(UnitOf(l), load[l].req))
  PROVE  RequirementsDone(l)'
<1> DEFINE u == UnitOf(l)
<1>1. u \in Unit /\ load[l].req \in Nat \ {0} /\ u' = u /\ Requires[u] \in Seq(Requirement)
  BY GateFacts DEF Moves, UnitOf
<1>2. \A i \in DOMAIN Requires[u] : i < load'[l].req => Met(u, i)
  <2> SUFFICES ASSUME NEW i \in DOMAIN Requires[u], i < load'[l].req PROVE Met(u, i)
    OBVIOUS
  <2>1. i \in Nat
    BY <1>1
  <2>2. i < load[l].req \/ (i = load[l].req /\ Met(u, load[l].req))
    BY <1>1, <2>1 DEF Passed
  <2> QED  BY <2>2, GateFacts
<1>3. \A i : Met(u, i)' <=> Met(u, i)
  BY <1>1 DEF Met, Registered
<1> QED  BY <1>1, <1>2, <1>3 DEF RequirementsDone

\* Marking the own keys, or running into a foreign mark, keeps the invariant.
LEMMA MarkKeeps ==
  ASSUME IInv, NEW t \in Thread, NEW l \in Load, Mark(t, l) \/ MarkConflict(t, l)
  PROVE  IInv'
<1>1. /\ ~Idle(t) /\ load[l].pc = "mark" /\ load[l].pc # "free" /\ UnitOf(l) \in Unit
      /\ load[l].req \in Nat \ {0} /\ \A k \in Key : byKey[k] # l
  BY RunsFacts, UnservedPc DEF Mark, MarkConflict, Pcs, Activation
<1>2. CASE MarkConflict(t, l)
  <2>1. inFlight' \in [Key -> Unit \cup {None}]
    BY <1>1, <1>2, MarksTyped DEF MarkConflict, IInv
  <2> QED  BY <1>1, <1>2, <2>1, FailKeeps DEF MarkConflict
<1>3. CASE Mark(t, l)
  <2>1. Moves(l) /\ load'[l].pc = "gate" /\ load'[l].req = load[l].req
    BY <1>3, AdvanceMoves DEF Mark, IInv, Pcs
  <2>2. SchemaDone(l)'
    BY <1>1, <1>3, <2>1, SchemaCarried DEF Mark
  <2>3. RequirementsDone(l)'
    <3>1. load'[l].req = 1
      BY <1>1, <2>1 DEF IInv, Progress, RequirementsDone
    <3>2. Requires[UnitOf(l)] \in Seq(Requirement) /\ UnitOf(l)' = UnitOf(l)
      BY <1>1, <2>1, ManifestAssumption DEF Moves, UnitOf
    <3>3. \A i \in DOMAIN Requires[UnitOf(l)] : ~(i < 1)
      BY <3>2
    <3> QED  BY <2>1, <3>1, <3>2, <3>3 DEF RequirementsDone
  <2>4. inFlight' \in [Key -> Unit \cup {None}]
    BY <1>1, <1>3, MarksTyped DEF Mark, IInv
  <2> QED  BY <1>1, <1>3, <2>1, <2>2, <2>3, <2>4, QuietStep DEF Mark, IInv, TypeOK, registry
<1> QED  BY <1>2, <1>3

\* A cycle ends the activation and keeps the invariant.
LEMMA RequirementCyclicKeeps ==
  ASSUME IInv, NEW t \in Thread, NEW l \in Load, RequirementCyclic(t, l)
  PROVE  IInv'
<1>1. ~Idle(t) /\ load[l].pc = "gate" /\ load[l].pc # "free"
  BY RunsFacts DEF RequirementCyclic, Gating, Pcs
<1>2. inFlight' \in [Key -> Unit \cup {None}]
  BY UnmarkTyped DEF RequirementCyclic, IInv
<1> QED  BY <1>1, <1>2, FailKeeps DEF RequirementCyclic

\* An activation at a requirement has one.
LEMMA GatingFacts ==
  ASSUME IInv, NEW l \in Load, load[l].pc \in {"gate", "peer"}, ~Passed(l)
  PROVE  /\ load[l].req \in DOMAIN Requires[UnitOf(l)]
         /\ Required(l).key \in Key /\ Required(l).ref \in Unit \cup {None}
         /\ Required(l) = Requires[UnitOf(l)][load[l].req]
<1>1. load[l].req \in DOMAIN Requires[UnitOf(l)]
  BY GateFacts DEF Passed
<1> QED  BY <1>1, GateFacts, RequirementTyped DEF Required

\* A requirement that is registered already counts as met.
LEMMA RequirementServedKeeps ==
  ASSUME IInv, NEW t \in Thread, NEW l \in Load, RequirementServed(t, l)
  PROVE  IInv'
<1>1. ~Idle(t) /\ load[l].pc = "gate" /\ load[l].pc # "free" /\ \A k \in Key : byKey[k] # l
  BY RunsFacts, UnservedPc DEF RequirementServed, Gating, Pcs
<1>2. Moves(l) /\ load'[l].pc = "gate" /\ load'[l].req = load[l].req + 1
  BY <1>1, ServedMoves DEF RequirementServed, IInv
<1>3. Met(UnitOf(l), load[l].req)
  BY <1>1, GatingFacts DEF RequirementServed, Gating, Met
<1>4. SchemaDone(l)' /\ RequirementsDone(l)'
  BY <1>1, <1>2, <1>3, SchemaCarried, RequirementsCarried DEF RequirementServed, registry
<1> QED  BY <1>1, <1>2, <1>4, QuietStep DEF RequirementServed, IInv, TypeOK, registry

\* Calling the connect of a requirement keeps the invariant.
LEMMA RequirementConnectKeeps ==
  ASSUME IInv, NEW t \in Thread, NEW l \in Load, RequirementConnect(t, l)
  PROVE  IInv'
<1> USE DEF RequirementConnect
<1>1. ~Idle(t) /\ load[l].pc = "gate" /\ load[l].pc # "free" /\ \A k \in Key : byKey[k] # l
  BY RunsFacts, UnservedPc DEF Gating, Pcs
<1>2. Moves(l) /\ load'[l].pc = "peer" /\ load'[l].req = load[l].req
  BY AdvanceMoves DEF IInv, Pcs
<1>3. SchemaDone(l)' /\ RequirementsDone(l)'
  BY <1>1, <1>2, SchemaCarried, RequirementsCarried DEF registry
<1>4. \E k \in Key, ref \in Unit \cup {None} : Call(t, Top(t), ConnectFrame(k, ref))
  <2>1. Required(l).key \in Key /\ Required(l).ref \in Unit \cup {None}
    BY <1>1, GatingFacts DEF Gating
  <2>2. CanonicalRef[Required(l).key] \in Unit \cup {None}
    BY <2>1, ManifestAssumption
  <2>3. Call(t, Top(t), ConnectFrame(Required(l).key, IF Required(l).ref # None THEN Required(l).ref
                                                      ELSE CanonicalRef[Required(l).key]))
    OBVIOUS
  <2> QED  BY <2>1, <2>2, <2>3
<1> QED  BY <1>1, <1>2, <1>3, <1>4, QuietStep DEF IInv, TypeOK, registry

\* A requirement that returned is met, or optional, or ends the activation.
LEMMA PeerReturnedKeeps ==
  ASSUME IInv, NEW t \in Thread, NEW l \in Load, PeerReturned(t, l)
  PROVE  IInv'
<1> USE DEF PeerReturned
<1>1. ~Idle(t) /\ load[l].pc = "peer" /\ load[l].pc # "free" /\ \A k \in Key : byKey[k] # l
  BY UnservedPc DEF Resumes
<1>2. CASE MayContinue(t, l)
  <2>1. Moves(l) /\ load'[l].pc = "gate" /\ load'[l].req = load[l].req + 1
    BY <1>2, PeerMoves DEF IInv
  <2>2. ASSUME ~Passed(l) PROVE Met(UnitOf(l), load[l].req)
    <3>1. /\ Required(l) = Requires[UnitOf(l)][load[l].req]
          /\ Required(l).key \in Key /\ Required(l).key # None
      BY <1>1, <2>2, GatingFacts, TagAssumption
    <3> QED  BY <1>2, <3>1 DEF MayContinue, Resumes, IInv, HonestResults, Met
  <2>3. SchemaDone(l)' /\ RequirementsDone(l)'
    BY <1>1, <2>1, <2>2, SchemaCarried, RequirementsCarried DEF registry
  <2> QED  BY <1>1, <1>2, <2>1, <2>3, QuietStep DEF IInv, TypeOK, registry
<1>3. CASE ~MayContinue(t, l)
  <2>1. inFlight' \in [Key -> Unit \cup {None}]
    BY <1>3, UnmarkTyped DEF IInv
  <2> QED  BY <1>1, <1>3, <2>1, FailKeeps
<1> QED  BY <1>2, <1>3

\* Leaving the gate keeps the invariant: every mandatory requirement is met by then.
LEMMA GateDoneKeeps ==
  ASSUME IInv, NEW t \in Thread, NEW l \in Load, GateDone(t, l)
  PROVE  IInv'
<1> USE DEF GateDone
<1>1. ~Idle(t) /\ load[l].pc = "gate" /\ load[l].pc # "free" /\ \A k \in Key : byKey[k] # l
  BY RunsFacts, UnservedPc DEF Pcs
<1>2. /\ Moves(l) /\ load'[l].pc \in {"register", "finish"}
      /\ load'[l].pc = "register" => load[l].kind = "binary"
  BY AdvanceMoves, AfterGateTyped DEF IInv, Pcs
<1>3. SchemaDone(l)'
  BY <1>1, <1>2, SchemaCarried
<1>4. RequirementsDone(l)'
  <2> DEFINE u == UnitOf(l)
  <2>1. \A i \in DOMAIN Requires[u] : Met(u, i)
    BY <1>1, GateFacts DEF Passed
  <2>2. u' = u /\ \A i : Met(u, i)' <=> Met(u, i)
    BY <1>2 DEF Moves, UnitOf, Met, Registered, registry
  <2> QED  BY <1>2, <2>1, <2>2 DEF RequirementsDone
<1>5. inFlight' \in [Key -> Unit \cup {None}]
  BY UnmarkTyped DEF IInv
<1> QED  BY <1>1, <1>2, <1>3, <1>4, <1>5, QuietStep DEF IInv, TypeOK, registry

\* Freeing a gate-only activation keeps the invariant.
LEMMA FinishKeeps ==
  ASSUME IInv, NEW t \in Thread, NEW l \in Load, Finish(t, l)
  PROVE  IInv'
<1>1. ~Idle(t) /\ \A k \in Key : byKey[k] # l
  BY RunsFacts, UnservedPc DEF Finish, Pcs
<1>2. UNCHANGED <<byKey, origins, closers, sources, defOwner, inputDef, conn, inFlight, once, calls, host>>
  BY DEF Finish, registry, schemas
<1>3. LoadsNamed' /\ ProvidersPlaced' /\ Progress' /\ load' \in [Load -> Activation]
  BY <1>1, <1>2, FreeTyped, ReplaceKeeps DEF Finish
<1>4. /\ stack' \in [Thread -> Seq(Frame)]
      /\ ret' \in [Thread -> Result \cup {None}]
      /\ HonestResults'
  BY <1>1, <1>2, UnitReturnTyped DEF IInv, Finish
<1> QED  BY <1>2, <1>3, <1>4 DEF IInv, TypeOK, DefsOwned

\* Registering a provider keeps the invariant: the activation has passed both gates.
LEMMA RegisterKeeps ==
  ASSUME IInv, NEW t \in Thread, NEW l \in Load, Register(t, l)
  PROVE  IInv'
<1>u. PICK u : u = UnitOf(l)
  OBVIOUS
<1>k. PICK k : k = NextProvider(l)
  OBVIOUS
<1>1. /\ ~Idle(t) /\ load[l].pc = "register" /\ load[l].pc # "free" /\ u \in Unit
      /\ load[l] \in Activation /\ load[l].reg <= Len(Served[u])
  BY <1>u, RunsFacts DEF Register, Registering, Pcs
<1>2. /\ k \in Elems(Served[u]) /\ k \in Key /\ OriginOf[u] \in Origin
  <2>1. Served[u] \in Seq(Key) /\ load[l].reg \in Nat \ {0}
    BY <1>1, ManifestAssumption DEF Activation
  <2>2. load[l].reg \in DOMAIN Served[u] /\ k = Served[u][load[l].reg]
    BY <1>u, <1>k, <1>1, <2>1 DEF NextProvider
  <2> QED  BY <1>1, <2>1, <2>2, ManifestAssumption DEF Elems
<1>3. /\ byKey[k] = None
      /\ byKey' = [byKey EXCEPT ![k] = l]
      /\ origins' = [origins EXCEPT ![k] = OriginOf[u]]
      /\ UNCHANGED <<closers, sources, defOwner, inputDef, conn, inFlight, once, stack, ret, calls, host>>
  BY <1>u, <1>k DEF Register, Registered, SourceOf, schemas, control
<1>4. Moves(l) /\ load'[l].pc = "register" /\ UnitOf(l)' = u
  BY <1>u, <1>1, ProviderMoves DEF Register, IInv, Moves, UnitOf
<1>5. Grows
  BY <1>2, <1>3 DEF Grows, Registered, IInv, TypeOK
<1>6. SchemaDone(l)'
  BY <1>1, <1>3, <1>4, SchemaCarried DEF IInv, Progress, SchemaDone, schemas
<1>7. RequirementsDone(l)'
  <2>1. \A i \in DOMAIN Requires[u] : Met(u, i)
    BY <1>u, <1>1 DEF IInv, Progress, RequirementsDone
  <2>2. \A i \in DOMAIN Requires[u] : Met(u, i)'
    BY <1>1, <1>5, <2>1, RequirementTyped DEF Met, Grows, Registered
  <2> QED  BY <1>4, <2>2 DEF RequirementsDone
<1>8. RegisteredBy(k, l)'
  BY <1>1, <1>2, <1>3, <1>4 DEF RegisteredBy, Moves, IInv, TypeOK, Progress, SchemaDone
<1>9. ASSUME NEW j \in Key
      PROVE  \/ byKey'[j] = byKey[j] /\ origins'[j] = origins[j]
             \/ byKey'[j] = l /\ RegisteredBy(j, l)'
  <2>1. CASE j = k
    BY <1>2, <1>3, <1>8, <2>1 DEF IInv, TypeOK, RegisteredBy
  <2>2. CASE j # k
    <3>1. byKey \in [Key -> Load \cup {None, Compiled}] /\ origins \in [Key -> Origin \cup {None, Compiled}]
      BY DEF IInv, TypeOK
    <3>2. byKey'[j] = byKey[j] /\ origins'[j] = origins[j]
      BY <1>3, <2>2, <3>1
    <3> QED  BY <3>2
  <2> QED  BY <2>1, <2>2
<1>10. LoadsNamed' /\ ProvidersPlaced' /\ Progress'
  BY <1>1, <1>4, <1>5, <1>6, <1>7, <1>9, MoveKeeps
<1>11. TypeOK'
  BY <1>2, <1>3, <1>4 DEF IInv, TypeOK, Moves
<1>12. HonestResults'
  <2>1. None \notin Load
    BY TagAssumption
  <2>2. \A j \in Key : byKey[j] # None => byKey'[j] # None
    BY <1>2, <1>3, <2>1 DEF IInv, TypeOK
  <2> QED  BY <1>3, <2>2 DEF IInv, HonestResults, Registered, TypeOK, Result
<1> QED  BY <1>3, <1>10, <1>11, <1>12 DEF IInv, DefsOwned

\* Skipping a provider that coexists keeps the invariant.
LEMMA RegisterNothingKeeps ==
  ASSUME IInv, NEW t \in Thread, NEW l \in Load, RegisterNothing(t, l)
  PROVE  IInv'
<1>1. ~Idle(t) /\ load[l].pc = "register" /\ load[l].pc # "free"
  BY RunsFacts DEF RegisterNothing, Registering, Pcs
<1>2. Moves(l) /\ load'[l].pc = "register" /\ UnitOf(l)' = UnitOf(l)
  BY <1>1, ProviderMoves DEF RegisterNothing, IInv, Moves, UnitOf
<1>3. SchemaDone(l)'
  BY <1>1, <1>2, SchemaCarried DEF RegisterNothing, IInv, Progress, SchemaDone
<1>4. RequirementsDone(l)'
  BY <1>1, <1>2 DEF RegisterNothing, registry, IInv, Progress, RequirementsDone, Met, Registered
<1> QED  BY <1>1, <1>2, <1>3, <1>4, QuietStep DEF RegisterNothing, IInv, TypeOK, registry

\* A refused provider ends the activation and keeps the invariant.
LEMMA RegisterRefusedKeeps ==
  ASSUME IInv, NEW t \in Thread, NEW l \in Load, RegisterRefused(t, l)
  PROVE  IInv'
<1>1. ~Idle(t) /\ load[l].pc # "free"
  BY RunsFacts DEF RegisterRefused, Registering, Pcs
<1> QED  BY <1>1, FailKeeps DEF RegisterRefused, IInv, TypeOK

\* Handing the connection to the registry keeps the invariant.
LEMMA TrackCloserKeeps ==
  ASSUME IInv, NEW t \in Thread, NEW l \in Load, TrackCloser(t, l)
  PROVE  IInv'
<1>1. ~Idle(t) /\ load[l].pc = "register" /\ load[l].pc # "free"
  BY RunsFacts DEF TrackCloser, Pcs
<1>2. Moves(l) /\ load'[l].pc = "serving" /\ UnitOf(l)' = UnitOf(l)
  BY <1>1, AdvanceMoves DEF TrackCloser, IInv, Moves, UnitOf, Pcs
<1>3. SchemaDone(l)'
  BY <1>1, <1>2, SchemaCarried DEF TrackCloser, IInv, Progress, SchemaDone
<1>4. RequirementsDone(l)'
  BY <1>1, <1>2 DEF TrackCloser, IInv, Progress, RequirementsDone, Met, Registered
<1> QED  BY <1>1, <1>2, <1>3, <1>4, QuietStep DEF TrackCloser, IInv, TypeOK

\* Every step of an activation keeps the invariant.
LEMMA UnitKeeps ==
  ASSUME IInv, NEW t \in Thread, NEW l \in Load, UnitStep(t, l)
  PROVE  IInv'
BY ConnectKeeps, SchemaKeeps, MarkKeeps, RequirementCyclicKeeps, RequirementServedKeeps,
   RequirementConnectKeeps, PeerReturnedKeeps, GateDoneKeeps, FinishKeeps, RegisterKeeps,
   RegisterNothingKeeps, RegisterRefusedKeeps, TrackCloserKeeps DEF UnitStep

\* The steps of the process as a whole close connections and nothing else.
LEMMA HostKeeps ==
  ASSUME IInv, FinishDispatch \/ ShutdownHook \/ SignalExit
  PROVE  IInv'
<1>1. /\ UNCHANGED <<byKey, origins, load, sources, defOwner, inputDef, inFlight, once, stack, ret, calls>>
      /\ closers' \subseteq Load
      /\ conn' \in [Load -> {"none", "open", "closed"}]
      /\ host' \in {"running", "signalled", "exited"}
  BY DEF FinishDispatch, ShutdownHook, SignalExit, Close, registry, schemas, control, IInv, TypeOK
<1>2. TypeOK'
  BY <1>1 DEF IInv, TypeOK
<1>3. Progress'
  BY <1>1, OthersKeep, QuietGrows DEF IInv, Progress
<1> QED  BY <1>1, <1>2, <1>3 DEF IInv, HonestResults, Registered, LoadsNamed, UnitOf, ProvidersPlaced,
                                 External, RegisteredBy, DefsOwned

\* So does a stuttering step.
LEMMA StutterKeeps ==
  ASSUME IInv, UNCHANGED vars
  PROVE  IInv'
<1>1. UNCHANGED <<byKey, origins, closers, load, conn, sources, defOwner, inputDef, inFlight, once,
                  stack, ret, calls, host>>
  BY DEF vars
<1>2. TypeOK'
  BY <1>1 DEF IInv, TypeOK
<1>3. Progress'
  BY <1>1, OthersKeep, QuietGrows DEF IInv, Progress
<1> QED  BY <1>1, <1>2, <1>3 DEF IInv, HonestResults, Registered, LoadsNamed, UnitOf, ProvidersPlaced,
                                 External, RegisteredBy, DefsOwned

\* The invariant holds at start-up ...
LEMMA InitIInv == Init => IInv
<1> SUFFICES ASSUME Init PROVE IInv
  OBVIOUS
<1> USE DEF Init
<1>1. \A l \in Load : load[l] = Free
  OBVIOUS
<1>2. TypeOK
  BY FreeTyped, ManifestAssumption DEF TypeOK
<1>3. LoadsNamed /\ Progress
  BY <1>1, FreeTyped DEF LoadsNamed, Progress, SchemaDone, RequirementsDone
<1>4. ProvidersPlaced
  BY TagAssumption DEF ProvidersPlaced, External
<1> QED  BY <1>2, <1>3, <1>4 DEF IInv, HonestResults, DefsOwned

\* ... and every step keeps it.
LEMMA NextIInv == IInv /\ [Next]_vars => IInv'
<1> SUFFICES ASSUME IInv, [Next]_vars PROVE IInv'
  OBVIOUS
<1>1. ASSUME NEW t \in Thread, HostCall(t) PROVE IInv'
  BY <1>1, HostCallControls, ControlKeeps DEF IInv
<1>2. ASSUME NEW t \in Thread, ConnectStep(t) PROVE IInv'
  BY <1>2, ConnectControls, ControlKeeps DEF IInv
<1>3. ASSUME NEW t \in Thread, ScanStep(t) PROVE IInv'
  BY <1>3, ScanControls, ControlKeeps DEF IInv
<1>4. ASSUME NEW t \in Thread, NEW l \in Load, UnitStep(t, l) PROVE IInv'
  BY <1>4, UnitKeeps
<1>5. CASE FinishDispatch \/ ShutdownHook \/ SignalExit
  BY <1>5, HostKeeps
<1>6. CASE UNCHANGED vars
  BY <1>6, StutterKeeps
<1> QED  BY <1>1, <1>2, <1>3, <1>4, <1>5, <1>6 DEF Next, Step

(***************************************************************************)
(* Safety                                                                  *)
(***************************************************************************)

\* The inductive invariant is one.
THEOREM Invariance == Spec => []IInv
<1> QED  BY InitIInv, NextIInv, PTL DEF Spec

\* The state of the loader, down to the locals of every active frame, stays well typed.
THEOREM TypeCorrectness == Spec => []TypeOK
<1>1. IInv => TypeOK
  BY DEF IInv
<1> QED  BY <1>1, Invariance, PTL

\* What the invariant says of the activation behind a served identity.
LEMMA ServerFacts ==
  ASSUME IInv, NEW k \in Key, External(k)
  PROVE  /\ RegisteredBy(k, byKey[k]) /\ Server(k) \in Unit
         /\ SchemaCommitted(Server(k))
         /\ \A i \in DOMAIN Requires[Server(k)] : Met(Server(k), i)
<1>1. byKey[k] \in Load /\ RegisteredBy(k, byKey[k])
  BY DEF IInv, ProvidersPlaced, External
<1> QED  BY <1>1 DEF IInv, LoadsNamed, Progress, SchemaDone, RequirementsDone, RegisteredBy, Server

\* No provider reaches the registry past the schema gate, on any of the four ways to load one.
THEOREM NoSchemaBypass == Spec => []ServedThroughSchemaGate
<1>1. IInv => ServedThroughSchemaGate
  <2> SUFFICES ASSUME IInv, NEW k \in Key, External(k)
               PROVE  /\ k \in Elems(Served[Server(k)])
                      /\ origins[k] = OriginOf[Server(k)]
                      /\ \E x \in sources : x.src = SchemaOf[Server(k)]
                      /\ \A j \in InputKeys[Server(k)] : inputDef[j] # None
    BY DEF ServedThroughSchemaGate
  <2> QED  BY ServerFacts DEF RegisteredBy, SchemaCommitted, Server
<1> QED  BY <1>1, Invariance, PTL

\* A served identity has every peer its unit cannot do without.
THEOREM NoUnmetRequirement == Spec => []RequirementsFirst
<1>1. IInv => RequirementsFirst
  <2> SUFFICES ASSUME IInv, NEW k \in Key, External(k), NEW r \in Elems(Requires[Server(k)]), ~r.optional
               PROVE  Registered(r.key)
    BY DEF RequirementsFirst
  <2>1. PICK i \in DOMAIN Requires[Server(k)] : r = Requires[Server(k)][i]
    BY DEF Elems
  <2> QED  BY <2>1, ServerFacts DEF Met
<1> QED  BY <1>1, Invariance, PTL

\* No two plugins ever share a definition in the validated set.
THEOREM NoSharedDefinition == Spec => []DefsUnambiguous
<1>1. IInv => DefsUnambiguous
  <2> SUFFICES ASSUME IInv, NEW x \in sources, NEW y \in sources,
                      NEW d \in DefsOf[x.src] \cap DefsOf[y.src]
               PROVE  x.id = y.id
    BY DEF DefsUnambiguous
  <2>1. defOwner[d] = x.id /\ defOwner[d] = y.id
    BY DEF IInv, DefsOwned
  <2> QED  BY <2>1
<1> QED  BY <1>1, Invariance, PTL

\* Only Register writes the registry, and it takes a free identity.
LEMMA RegistryStep ==
  ASSUME IInv, [Next]_vars
  PROVE  \/ UNCHANGED <<byKey, origins>>
         \/ \E t \in Thread, l \in Load : Register(t, l)
<1>1. ASSUME NEW t \in Thread, HostCall(t) \/ ConnectStep(t) \/ ScanStep(t)
      PROVE  UNCHANGED <<byKey, origins>>
  BY <1>1, HostCallControls, ConnectControls, ScanControls DEF ControlOnly, IInv, registry
<1>2. ASSUME NEW t \in Thread, NEW l \in Load, UnitStep(t, l), ~Register(t, l)
      PROVE  UNCHANGED <<byKey, origins>>
  BY <1>2 DEF UnitStep, Connect, ConnectFails, SchemaGate, SchemaRejected, Mark, MarkConflict,
              RequirementCyclic, RequirementServed, RequirementConnect, PeerReturned, GateDone,
              Finish, RegisterNothing, RegisterRefused, TrackCloser, registry
<1>3. CASE FinishDispatch \/ ShutdownHook \/ SignalExit
  BY <1>3 DEF FinishDispatch, ShutdownHook, SignalExit, registry
<1>4. CASE UNCHANGED vars
  BY <1>4 DEF vars
<1> QED  BY <1>1, <1>2, <1>3, <1>4 DEF Next, Step

\* No step replaces or removes the provider of a registered identity.
LEMMA OwnerKept ==
  ASSUME IInv, [Next]_vars, NEW k \in Key, Registered(k)
  PROVE  byKey'[k] = byKey[k] /\ origins'[k] = origins[k]
<1>1. ASSUME NEW t \in Thread, NEW l \in Load, Register(t, l)
      PROVE  byKey'[k] = byKey[k] /\ origins'[k] = origins[k]
  <2>1. NextProvider(l) # k
    BY <1>1 DEF Register
  <2> QED  BY <1>1, <2>1 DEF Register, IInv, TypeOK
<1> QED  BY <1>1, RegistryStep

(***************************************************************************)
(* Refinement: the load path implements CapabilityRegistry                 *)
(***************************************************************************)

\* An activation that serves an identity keeps its unit.
LEMMA ServersStay ==
  ASSUME IInv, [Next]_vars, NEW m \in Load, NEW k \in Key, byKey[k] = m
  PROVE  load'[m].unit = load[m].unit
<1>1. load[m].pc \in {"register", "serving", "failed"}
  BY DEF IInv, ProvidersPlaced, External, RegisteredBy
<1>2. ASSUME NEW l \in Load, Moves(l) PROVE load'[m].unit = load[m].unit
  BY <1>2 DEF Moves
<1>3. ASSUME NEW l \in Load, NEW a, l # m, load' = [load EXCEPT ![l] = a]
      PROVE  load'[m].unit = load[m].unit
  BY <1>3 DEF IInv, TypeOK
<1>4. ASSUME NEW t \in Thread, NEW l \in Load, Fail(t, l) PROVE load'[m].unit = load[m].unit
  <2>1. CASE \E j \in Key : byKey[j] = l
    BY <1>2, <1>4, <2>1, AdvanceMoves DEF Fail, IInv, Pcs
  <2>2. CASE ~\E j \in Key : byKey[j] = l
    BY <1>3, <1>4, <2>2 DEF Fail
  <2> QED  BY <2>1, <2>2
<1>5. ASSUME NEW t \in Thread, HostCall(t) \/ ConnectStep(t) \/ ScanStep(t)
      PROVE  load'[m].unit = load[m].unit
  <2>1. UNCHANGED load \/ Starts
    BY <1>5, HostCallControls, ConnectControls, ScanControls DEF ControlOnly, IInv
  <2> QED  BY <1>1, <1>3, <2>1 DEF Starts, Fresh, Begin
<1>6. ASSUME NEW t \in Thread, NEW l \in Load, UnitStep(t, l)
      PROVE  load'[m].unit = load[m].unit
  <2>1. CASE ConnectFails(t, l) \/ SchemaRejected(t, l) \/ MarkConflict(t, l)
             \/ RequirementCyclic(t, l) \/ RegisterRefused(t, l)
    BY <1>4, <2>1 DEF ConnectFails, SchemaRejected, MarkConflict, RequirementCyclic, RegisterRefused
  <2>2. CASE Connect(t, l) \/ SchemaGate(t, l) \/ Mark(t, l) \/ RequirementConnect(t, l)
             \/ GateDone(t, l) \/ TrackCloser(t, l)
    <3>1. \E pc \in Pcs : Advance(l, pc)
      BY <2>2, AfterGateTyped DEF Connect, SchemaGate, Mark, RequirementConnect, GateDone, TrackCloser, Pcs
    <3> QED  BY <1>2, <3>1, AdvanceMoves DEF IInv
  <2>3. CASE RequirementServed(t, l)
    BY <1>2, <2>3, ServedMoves DEF RequirementServed, IInv
  <2>4. CASE PeerReturned(t, l)
    BY <1>2, <1>4, <2>4, PeerMoves DEF PeerReturned, IInv
  <2>5. CASE Register(t, l) \/ RegisterNothing(t, l)
    BY <1>2, <2>5, ProviderMoves DEF Register, RegisterNothing, IInv
  <2>6. CASE Finish(t, l)
    <3>1. l # m
      BY <1>1, <2>6 DEF Finish, Runs
    <3> QED  BY <1>3, <2>6, <3>1 DEF Finish
  <2> QED  BY <1>6, <2>1, <2>2, <2>3, <2>4, <2>5, <2>6 DEF UnitStep
<1>7. CASE FinishDispatch \/ ShutdownHook \/ SignalExit
  BY <1>7 DEF FinishDispatch, ShutdownHook, SignalExit
<1>8. CASE UNCHANGED vars
  BY <1>8 DEF vars
<1> QED  BY <1>5, <1>6, <1>7, <1>8 DEF Next, Step

\* An identity is owned in the abstract registry exactly when it is registered.
LEMMA OwnedIfRegistered ==
  ASSUME IInv, NEW k \in Key
  PROVE  Registered(k) <=> Owner[k] # None
<1>1. CASE External(k)
  BY <1>1, ServerFacts, TagAssumption DEF Owner, External, Registered, Server
<1>2. CASE ~External(k)
  BY <1>2 DEF Owner, Registered
<1> QED  BY <1>1, <1>2

\* An owner changes only by a claim.
LEMMA OwnerStays ==
  ASSUME IInv, IInv', [Next]_vars, NEW k \in Key, byKey'[k] = byKey[k]
  PROVE  Owner'[k] = Owner[k]
<1>1. CASE External(k)
  BY <1>1, ServersStay DEF Owner, External, Server, UnitOf
<1>2. CASE ~External(k)
  BY <1>2 DEF Owner, External, Load
<1> QED  BY <1>1, <1>2

\* The initial states are initial states of the abstract registry.
LEMMA InitRefines == Init => Registry!Init
BY TagAssumption DEF Init, Registry!Init, Owner, External

\* Every step is a claim of the abstract registry or changes no owner.
LEMMA NextRefines ==
  ASSUME IInv, IInv', [Next]_vars
  PROVE  [Registry!Next]_Owner
<1>1. CASE UNCHANGED <<byKey, origins>>
  <2>1. \A k \in Key : Owner'[k] = Owner[k]
    BY <1>1, OwnerStays
  <2> QED  BY <2>1 DEF Owner
<1>2. ASSUME NEW t \in Thread, NEW l \in Load, Register(t, l)
      PROVE  Registry!Next
  <2>1. PICK u, k : u = UnitOf(l) /\ k = NextProvider(l)
    OBVIOUS
  <2>2. /\ load[l].pc = "register" /\ u \in Unit /\ load[l] \in Activation
        /\ load[l].reg <= Len(Served[u])
    BY <1>2, <2>1, RunsFacts DEF Register, Registering, Pcs
  <2>3. k \in Offers(u) /\ k \in Key
    <3>1. Served[u] \in Seq(Key) /\ load[l].reg \in Nat \ {0}
      BY <2>2, ManifestAssumption DEF Activation
    <3>2. load[l].reg \in DOMAIN Served[u] /\ k = Served[u][load[l].reg]
      BY <2>1, <2>2, <3>1 DEF NextProvider
    <3> QED  BY <3>1, <3>2 DEF Offers, Elems
  <2>4. ~Registered(k) /\ byKey' = [byKey EXCEPT ![k] = l]
    BY <1>2, <2>1 DEF Register
  <2>5. Owner[k] = None
    BY <2>3, <2>4, OwnedIfRegistered
  <2>6. ASSUME NEW n \in MustServe(u) PROVE Owner[n] # None
    <3>1. PICK i \in DOMAIN Requires[u] : n = Requires[u][i].key /\ ~Requires[u][i].optional
      BY <2>6 DEF MustServe, Elems
    <3>2. Met(u, i)
      BY <2>1, <2>2 DEF IInv, Progress, RequirementsDone
    <3> QED  BY <2>2, <3>1, <3>2, RequirementTyped, OwnedIfRegistered DEF Met
  <2>7. Owner' = [Owner EXCEPT ![k] = u]
    <3>1. Owner'[k] = u
      <4>1. byKey'[k] = l /\ l \in Load
        BY <2>3, <2>4 DEF IInv, TypeOK
      <4>2. load'[l].unit = u
        BY <1>2, <2>1, ProviderMoves DEF Register, IInv, Moves, UnitOf
      <4> QED  BY <2>3, <4>1, <4>2 DEF Owner, External, Server, UnitOf, Load
    <3>2. ASSUME NEW j \in Key, j # k PROVE Owner'[j] = Owner[j]
      <4>1. byKey'[j] = byKey[j]
        BY <2>3, <2>4, <3>2 DEF IInv, TypeOK
      <4> QED  BY <4>1, OwnerStays
    <3> QED  BY <2>3, <3>1, <3>2 DEF Owner
  <2> QED  BY <2>2, <2>3, <2>5, <2>6, <2>7 DEF Registry!Next, Registry!Claim, Registry!Owned, Owner
<1> QED  BY <1>1, <1>2, RegistryStep

\* Scans, gates, failures and goroutines notwithstanding, the load path is the one-step registry.
THEOREM Refinement == Spec => RegistryImplemented
<1>1. Init => Registry!Init
  BY InitRefines
<1>2. IInv /\ IInv' /\ [Next]_vars => [Registry!Next]_Owner
  BY NextRefines
<1> QED  BY <1>1, <1>2, Invariance, PTL DEF Spec, RegistryImplemented, Registry!Spec, Owner

(***************************************************************************)
(* Connections: whose frame is on whose stack                              *)
(***************************************************************************)

Over == {"free", "serving", "failed"}

\* An activation has one frame at most, on one stack.
OneFrame(l) ==
  \A t, p \in Thread : \A i \in DOMAIN stack[t], j \in DOMAIN stack[p] :
    stack[t][i] = UnitFrame(l) /\ stack[p][j] = UnitFrame(l) => t = p /\ i = j

\* It runs exactly while it has a frame, a running one has a connection once its child is connected,
\* and an open connection belongs to the registry or to the frame.
HeldAt(l) ==
  /\ OneFrame(l)
  /\ (\E t \in Thread : OnStack(t, l)) <=> load[l].pc \notin Over
  /\ load[l].pc \notin Over => (conn[l] = "open" <=> load[l].kind = "binary" /\ load[l].pc # "connect")
  /\ load[l].pc = "connect" => load[l].kind = "binary"
  /\ load[l].pc = "finish" => load[l].kind # "binary"
  /\ l \in closers => load[l].pc = "serving" /\ conn[l] = "open"
  /\ conn[l] = "open" /\ l \notin closers => \E t \in Thread : OnStack(t, l)

Held == \A l \in Load : HeldAt(l)

\* What a step leaves of t's stack: everything below the top, under d frames.
Kept(t, d) ==
  /\ \A p \in Thread : p # t => stack'[p] = stack[p]
  /\ DOMAIN stack'[t] = 1 .. Len(Below(t)) + d
  /\ \A i \in DOMAIN Below(t) : stack'[t][i + d] = Below(t)[i]

\* A stack is its top on what is below.
LEMMA StackParts ==
  ASSUME TypeOK, NEW t \in Thread, ~Idle(t)
  PROVE  /\ Below(t) \in Seq(Frame) /\ Len(Below(t)) \in Nat /\ DOMAIN Below(t) = 1 .. Len(Below(t))
         /\ DOMAIN stack[t] = 1 .. Len(Below(t)) + 1
         /\ stack[t][1] = Top(t)
         /\ \A i \in DOMAIN Below(t) : stack[t][i + 1] = Below(t)[i]
<1>1. stack[t] \in Seq(Frame) /\ stack[t] # <<>>
  BY DEF TypeOK, Idle
<1> QED  BY <1>1 DEF Top, Below

\* One frame, or two, on a stack.
LEMMA PushParts ==
  ASSUME NEW S, NEW b \in Seq(S), NEW f, NEW g
  PROVE  /\ DOMAIN (<<f>> \o b) = 1 .. Len(b) + 1 /\ (<<f>> \o b)[1] = f
         /\ \A i \in DOMAIN b : (<<f>> \o b)[i + 1] = b[i]
         /\ DOMAIN (<<g, f>> \o b) = 1 .. Len(b) + 2
         /\ (<<g, f>> \o b)[1] = g /\ (<<g, f>> \o b)[2] = f
         /\ \A i \in DOMAIN b : (<<g, f>> \o b)[i + 2] = b[i]
OBVIOUS

\* Returning leaves what is below ...
LEMMA ReturnKept ==
  ASSUME TypeOK, NEW t \in Thread, ~Idle(t), NEW k, NEW ok, Return(t, k, ok)
  PROVE  Kept(t, 0)
<1>1. stack'[t] = Below(t) /\ \A p \in Thread : p # t => stack'[p] = stack[p]
  BY DEF Return, TypeOK
<1> QED  BY <1>1, StackParts DEF Kept

\* ... going on puts one frame on it ...
LEMMA ContinueKept ==
  ASSUME TypeOK, NEW t \in Thread, ~Idle(t), NEW f, Continue(t, f)
  PROVE  Kept(t, 1) /\ stack'[t][1] = f
<1>1. stack'[t] = <<f>> \o Below(t) /\ \A p \in Thread : p # t => stack'[p] = stack[p]
  BY DEF Continue, Replace, TypeOK
<1>2. Below(t) \in Seq(Frame)
  BY StackParts
<1> QED  BY <1>1, <1>2, PushParts DEF Kept

\* ... and a call puts two.
LEMMA CallKept ==
  ASSUME TypeOK, NEW t \in Thread, ~Idle(t), NEW f, NEW g, Call(t, f, g)
  PROVE  Kept(t, 2) /\ stack'[t][1] = g /\ stack'[t][2] = f
<1>1. stack'[t] = <<g, f>> \o Below(t) /\ \A p \in Thread : p # t => stack'[p] = stack[p]
  BY DEF Call, TypeOK
<1>2. Below(t) \in Seq(Frame)
  BY StackParts
<1> QED  BY <1>1, <1>2, PushParts DEF Kept

\* An activation whose frame is not made or dropped by the step has the same one after it.
LEMMA FrameKept ==
  ASSUME TypeOK, NEW t \in Thread, ~Idle(t), NEW d \in {0, 1, 2}, Kept(t, d), NEW l \in Load,
         \A j \in 1 .. d : stack'[t][j] = UnitFrame(l) => j = d /\ Top(t) = UnitFrame(l),
         Top(t) = UnitFrame(l) => d > 0 /\ stack'[t][d] = UnitFrame(l)
  PROVE  /\ OneFrame(l) => OneFrame(l)'
         /\ \A p \in Thread : OnStack(p, l)' <=> OnStack(p, l)
<1>1. /\ Len(Below(t)) \in Nat /\ DOMAIN Below(t) = 1 .. Len(Below(t))
      /\ DOMAIN stack[t] = 1 .. Len(Below(t)) + 1
      /\ stack[t][1] = Top(t)
      /\ \A i \in DOMAIN Below(t) : stack[t][i + 1] = Below(t)[i]
  BY StackParts
<1>2. ASSUME NEW p \in Thread, NEW j \in DOMAIN stack'[p], stack'[p][j] = UnitFrame(l)
      PROVE  LET i == IF p = t THEN j - d + 1 ELSE j IN i \in DOMAIN stack[p] /\ stack[p][i] = UnitFrame(l)
  <2>1. CASE p # t
    BY <1>2, <2>1 DEF Kept
  <2>2. CASE p = t /\ j <= d
    <3>1. j \in 1 .. d
      BY <1>2, <2>2 DEF Kept
    <3> QED  BY <1>1, <1>2, <2>2, <3>1
  <2>3. CASE p = t /\ j > d
    <3>1. j - d \in DOMAIN Below(t) /\ (j - d) + d = j
      BY <1>1, <1>2, <2>3 DEF Kept
    <3>2. stack'[t][j] = Below(t)[j - d]
      BY <3>1 DEF Kept
    <3>3. stack[t][(j - d) + 1] = Below(t)[j - d]
      BY <1>1, <3>1
    <3> QED  BY <1>1, <1>2, <2>3, <3>1, <3>2, <3>3
  <2>4. (j \in Nat /\ d \in Nat) \/ p # t
    BY <1>1, <1>2 DEF Kept
  <2> QED  BY <2>1, <2>2, <2>3, <2>4
<1>3. ASSUME NEW p \in Thread, NEW i \in DOMAIN stack[p], stack[p][i] = UnitFrame(l)
      PROVE  \E j \in DOMAIN stack'[p] : stack'[p][j] = UnitFrame(l)
  <2>1. CASE p # t
    BY <1>3, <2>1 DEF Kept
  <2>2. CASE p = t /\ i = 1
    <3>1. d \in DOMAIN stack'[t]
      BY <1>1, <1>3, <2>2 DEF Kept
    <3> QED  BY <1>1, <1>3, <2>2, <3>1
  <2>3. CASE p = t /\ i # 1
    <3>1. i - 1 \in DOMAIN Below(t) /\ (i - 1) + 1 = i /\ (i - 1) + d \in DOMAIN stack'[t]
      BY <1>1, <1>3, <2>3 DEF Kept
    <3>2. stack'[t][(i - 1) + d] = Below(t)[i - 1] /\ stack[t][(i - 1) + 1] = Below(t)[i - 1]
      BY <1>1, <3>1 DEF Kept
    <3> QED  BY <1>3, <2>3, <3>1, <3>2
  <2> QED  BY <2>1, <2>2, <2>3
<1>4. ASSUME OneFrame(l) PROVE OneFrame(l)'
  <2> SUFFICES ASSUME NEW p \in Thread, NEW q \in Thread,
                      NEW i \in DOMAIN stack'[p], NEW j \in DOMAIN stack'[q],
                      stack'[p][i] = UnitFrame(l), stack'[q][j] = UnitFrame(l)
               PROVE  p = q /\ i = j
    BY DEF OneFrame, UnitFrame
  <2> DEFINE a == IF p = t THEN i - d + 1 ELSE i
             b == IF q = t THEN j - d + 1 ELSE j
  <2>1. a \in DOMAIN stack[p] /\ stack[p][a] = UnitFrame(l)
    BY <1>2
  <2>2. b \in DOMAIN stack[q] /\ stack[q][b] = UnitFrame(l)
    BY <1>2
  <2>3. p = q /\ a = b
    BY <1>4, <2>1, <2>2 DEF OneFrame
  <2>4. CASE p # t
    BY <2>3, <2>4
  <2>5. CASE p = t
    <3>1. i \in Nat /\ j \in Nat
      BY <1>1, <2>3, <2>5 DEF Kept
    <3> QED  BY <2>3, <2>5, <3>1
  <2> QED  BY <2>4, <2>5
<1>5. ASSUME NEW p \in Thread PROVE OnStack(p, l)' <=> OnStack(p, l)
  BY <1>2, <1>3 DEF OnStack, UnitFrame
<1> QED  BY <1>4, <1>5

\* An activation the step is not about stays as it was.
LEMMA StaysHeld ==
  ASSUME NEW l \in Load, HeldAt(l), OneFrame(l) => OneFrame(l)',
         \A p \in Thread : OnStack(p, l)' <=> OnStack(p, l),
         load'[l] = load[l], conn'[l] = conn[l], l \in closers' <=> l \in closers
  PROVE  HeldAt(l)'
BY DEF HeldAt

NotUnit(f) == f.kind # "unit"

\* What the steps of connect, scan and once frames do to the stack of their goroutine.
Rewrites(t) ==
  \/ \E f : NotUnit(f) /\ Continue(t, f)
  \/ \E f, g : NotUnit(f) /\ NotUnit(g) /\ Call(t, f, g)
  \/ \E k, ok : Return(t, k, ok)

StartsUnit(t) ==
  \E l, f, u :
    /\ l \in Load
    /\ load[l].pc = "free" /\ NotUnit(f) /\ Call(t, f, UnitFrame(l))
    /\ \/ Begin(l, u, "binary", "connect")
       \/ Begin(l, u, "manifest", "mark")
       \/ Begin(l, u, "compiled", "schema")

StackStep(t) ==
  \/ UNCHANGED load /\ Rewrites(t)
  \/ StartsUnit(t)

\* The locals of a frame change, its kind does not.
LEMMA KindStays ==
  ASSUME TypeOK, NEW t \in Thread, ~Idle(t), Top(t).kind \in {"connect", "scan", "once"}
  PROVE  /\ NotUnit(Top(t))
         /\ Top(t).kind = "connect" => \A leg : NotUnit([Top(t) EXCEPT !.leg = leg])
         /\ Top(t).kind = "scan" => /\ NotUnit([Top(t) EXCEPT !.gated = TRUE])
                                    /\ \A u : NotUnit([Top(t) EXCEPT !.todo = @ \ {u}])
         /\ Top(t).kind = "once" => NotUnit([Top(t) EXCEPT !.next = @ + 1])
BY LocalsTyped DEF NotUnit, ConnectFrames, ScanFrames, OnceFrames

\* Steps of a connect ...
LEMMA ConnectStacks ==
  ASSUME TypeOK, NEW t \in Thread, ConnectStep(t)
  PROVE  /\ ~Idle(t) /\ NotUnit(Top(t)) /\ StackStep(t) /\ UNCHANGED <<conn, closers>>
<1> USE DEF At, Resumes
<1>1. ~Idle(t) /\ Top(t).kind = "connect" /\ UNCHANGED <<conn, closers>>
  BY DEF ConnectStep, Resolve, ConnectBaked, NoBaked, BakedDone, Scan, ScanFails, ScanReturned,
         SecondPass, Missing, registry
<1>2. NotUnit(Top(t)) /\ \A leg : NotUnit([Top(t) EXCEPT !.leg = leg])
  BY <1>1, KindStays
<1> SUFFICES StackStep(t)
  BY <1>1, <1>2
<1>3. \A todo : NotUnit(ScanFrame(todo))
  BY DEF NotUnit, ScanFrame
<1>4. CASE ConnectBaked(t)
  BY <1>2, <1>4 DEF ConnectBaked, StackStep, StartsUnit, Fresh
<1>5. CASE Resolve(t) \/ Missing(t)
  BY <1>5 DEF Resolve, Missing, StackStep, Rewrites
<1>6. CASE NoBaked(t) \/ BakedDone(t) \/ ScanFails(t) \/ ScanReturned(t) \/ SecondPass(t)
  <2>1. \/ \E leg : Continue(t, [Top(t) EXCEPT !.leg = leg])
        \/ Continue(t, Top(t))
        \/ \E k, ok : Return(t, k, ok)
    BY <1>6 DEF NoBaked, BakedDone, ScanFails, ScanReturned, SecondPass
  <2>2. UNCHANGED load
    BY <1>6 DEF NoBaked, BakedDone, ScanFails, ScanReturned, SecondPass
  <2> QED  BY <1>2, <2>1, <2>2 DEF StackStep, Rewrites
<1>7. CASE Scan(t)
  BY <1>2, <1>3, <1>7 DEF Scan, StackStep, Rewrites
<1> QED  BY <1>4, <1>5, <1>6, <1>7 DEF ConnectStep

\* ... and of scans and of the start-up gate leave the frames of activations alone, or begin one.
LEMMA ScanStacks ==
  ASSUME TypeOK, NEW t \in Thread, ScanStep(t)
  PROVE  /\ ~Idle(t) /\ NotUnit(Top(t)) /\ StackStep(t) /\ UNCHANGED <<conn, closers>>
<1> USE DEF At, Resumes
<1>1. ~Idle(t) /\ Top(t).kind \in {"scan", "once"} /\ UNCHANGED <<conn, closers>>
  BY DEF ScanStep, StartOnce, PassOnce, OnceReturned, GateStartUnit, StartUnitReturned, OnceDone,
         VisitCandy, CandyReturned, ScanDone, registry
<1>2. /\ NotUnit(Top(t)) /\ NotUnit(OnceFrame)
      /\ Top(t).kind = "scan" => /\ NotUnit([Top(t) EXCEPT !.gated = TRUE])
                                 /\ \A u : NotUnit([Top(t) EXCEPT !.todo = @ \ {u}])
      /\ Top(t).kind = "once" => NotUnit([Top(t) EXCEPT !.next = @ + 1])
  BY <1>1, KindStays DEF NotUnit, OnceFrame
<1> SUFFICES StackStep(t)
  BY <1>1, <1>2
<1>3. CASE StartOnce(t)
  BY <1>2, <1>3 DEF StartOnce, StackStep, Rewrites
<1>4. CASE PassOnce(t) \/ OnceReturned(t) \/ CandyReturned(t) \/ ScanDone(t) \/ OnceDone(t)
  <2>1. \/ PassOnce(t) /\ Continue(t, [Top(t) EXCEPT !.gated = TRUE])
        \/ Continue(t, Top(t))
        \/ \E k, ok : Return(t, k, ok)
    BY <1>4 DEF PassOnce, OnceReturned, CandyReturned, ScanDone, OnceDone
  <2>2. UNCHANGED load
    BY <1>4 DEF PassOnce, OnceReturned, CandyReturned, ScanDone, OnceDone
  <2> QED  BY <1>2, <2>1, <2>2 DEF PassOnce, StackStep, Rewrites
<1>5. CASE StartUnitReturned(t)
  BY <1>2, <1>5 DEF StartUnitReturned, StackStep, Rewrites
<1>6. CASE GateStartUnit(t)
  BY <1>2, <1>6 DEF GateStartUnit, StackStep, StartsUnit, Fresh
<1>7. ASSUME NEW u \in Unit, VisitCandy(t, u) PROVE StackStep(t)
  <2> DEFINE rest == [Top(t) EXCEPT !.todo = @ \ {u}]
  <2>1. NotUnit(rest)
    BY <1>2, <1>7 DEF VisitCandy
  <2>2. \/ UNCHANGED load /\ (Continue(t, rest) \/ \E k, ok : Return(t, k, ok))
        \/ \E l \in Load : /\ Fresh(l) /\ Call(t, rest, UnitFrame(l))
                           /\ Begin(l, u, "manifest", "mark") \/ Begin(l, u, "binary", "connect")
    BY <1>7 DEF VisitCandy
  <2> HIDE DEF rest
  <2> QED  BY <2>1, <2>2 DEF StackStep, Rewrites, StartsUnit, Fresh
<1> QED  BY <1>3, <1>4, <1>5, <1>6, <1>7 DEF ScanStep

\* The frame a step begins is the only one of its activation.
LEMMA BegunFrame ==
  ASSUME TypeOK, NEW t \in Thread, ~Idle(t), Kept(t, 2), NEW l \in Load,
         \A p \in Thread : ~OnStack(p, l), stack'[t][2] # UnitFrame(l)
  PROVE  \A p \in Thread : \A j \in DOMAIN stack'[p] : stack'[p][j] = UnitFrame(l) => p = t /\ j = 1
<1> SUFFICES ASSUME NEW p \in Thread, NEW j \in DOMAIN stack'[p], stack'[p][j] = UnitFrame(l)
             PROVE  p = t /\ j = 1
  OBVIOUS
<1>1. CASE p # t
  BY <1>1 DEF Kept, OnStack
<1>2. CASE p = t /\ j > 2
  <2>1. /\ DOMAIN Below(t) = 1 .. Len(Below(t)) /\ Len(Below(t)) \in Nat
        /\ DOMAIN stack[t] = 1 .. Len(Below(t)) + 1
        /\ \A i \in DOMAIN Below(t) : stack[t][i + 1] = Below(t)[i]
    BY StackParts
  <2>2. j - 2 \in DOMAIN Below(t) /\ (j - 2) + 2 = j /\ (j - 2) + 1 \in DOMAIN stack[t]
    BY <1>2, <2>1 DEF Kept
  <2>3. stack'[t][j] = stack[t][(j - 2) + 1]
    BY <2>1, <2>2 DEF Kept
  <2> QED  BY <1>2, <2>2, <2>3 DEF OnStack
<1>3. CASE p = t /\ j <= 2
  <2>1. Len(Below(t)) \in Nat
    BY StackParts
  <2>2. j = 1 \/ j = 2
    BY <1>3, <2>1 DEF Kept
  <2> QED  BY <1>3, <2>2
<1>4. p = t => j \in Nat
  BY StackParts DEF Kept
<1> QED  BY <1>1, <1>2, <1>3, <1>4

\* Such a step keeps every connection where it is.
LEMMA StackStepHeld ==
  ASSUME TypeOK, Held, NEW t \in Thread, ~Idle(t), NotUnit(Top(t)), StackStep(t), UNCHANGED <<conn, closers>>
  PROVE  Held'
<1> SUFFICES ASSUME NEW l \in Load PROVE HeldAt(l)'
  BY DEF Held, Load
<1>1. HeldAt(l)
  BY DEF Held
<1>2. \A m \in Load : \A f : NotUnit(f) => f # UnitFrame(m)
  BY DEF NotUnit, UnitFrame
<1>3. CASE UNCHANGED load /\ Rewrites(t)
  <2>1. \E d \in {0, 1, 2} : Kept(t, d) /\ \A j \in 1 .. d : stack'[t][j] # UnitFrame(l)
    <3>1. ASSUME NEW f, NotUnit(f), Continue(t, f)
          PROVE  \E d \in {0, 1, 2} : Kept(t, d) /\ \A j \in 1 .. d : stack'[t][j] # UnitFrame(l)
      BY <1>2, <3>1, ContinueKept
    <3>2. ASSUME NEW f, NEW g, NotUnit(f), NotUnit(g), Call(t, f, g)
          PROVE  \E d \in {0, 1, 2} : Kept(t, d) /\ \A j \in 1 .. d : stack'[t][j] # UnitFrame(l)
      <4>1. Kept(t, 2) /\ stack'[t][1] = g /\ stack'[t][2] = f
        BY <3>2, CallKept
      <4>2. \A j \in 1 .. 2 : j = 1 \/ j = 2
        OBVIOUS
      <4> QED  BY <1>2, <3>2, <4>1, <4>2
    <3>3. ASSUME NEW k, NEW ok, Return(t, k, ok)
          PROVE  \E d \in {0, 1, 2} : Kept(t, d) /\ \A j \in 1 .. d : stack'[t][j] # UnitFrame(l)
      BY <3>3, ReturnKept
    <3> QED  BY <1>3, <3>1, <3>2, <3>3 DEF Rewrites
  <2>2. /\ OneFrame(l) => OneFrame(l)'
        /\ \A p \in Thread : OnStack(p, l)' <=> OnStack(p, l)
    BY <1>2, <2>1, FrameKept
  <2> QED  BY <1>1, <1>3, <2>2, StaysHeld
<1>4. CASE StartsUnit(t)
  <2>1. PICK m, f, u :
          /\ m \in Load
          /\ load[m].pc = "free" /\ NotUnit(f) /\ Call(t, f, UnitFrame(m))
          /\ \/ Begin(m, u, "binary", "connect")
             \/ Begin(m, u, "manifest", "mark")
             \/ Begin(m, u, "compiled", "schema")
    BY <1>4 DEF StartsUnit
  <2>2. Kept(t, 2) /\ stack'[t][1] = UnitFrame(m) /\ stack'[t][2] = f
    BY <2>1, CallKept
  <2>3. \A j \in 1 .. 2 : j = 1 \/ j = 2
    OBVIOUS
  <2>4. CASE l # m
    <3>1. UnitFrame(m) # UnitFrame(l)
      BY <2>4 DEF UnitFrame
    <3>2. /\ OneFrame(l) => OneFrame(l)'
          /\ \A p \in Thread : OnStack(p, l)' <=> OnStack(p, l)
      BY <1>2, <2>1, <2>2, <2>3, <3>1, FrameKept
    <3>3. load'[l] = load[l]
      BY <2>1, <2>4 DEF Begin, TypeOK
    <3> QED  BY <1>1, <3>2, <3>3, StaysHeld
  <2>5. CASE l = m
    <3>1. \A p \in Thread : ~OnStack(p, l)
      BY <1>1, <2>1, <2>5 DEF HeldAt, Over
    <3>2. l \notin closers /\ conn[l] # "open"
      BY <1>1, <2>1, <2>5, <3>1 DEF HeldAt
    <3>3. ASSUME NEW p \in Thread, NEW j \in DOMAIN stack'[p], stack'[p][j] = UnitFrame(l)
          PROVE  p = t /\ j = 1
      BY <2>5, <3>3, BegunFrame, <2>1, <2>2, <3>1, <1>2
    <3>4. OneFrame(l)'
      BY <3>3 DEF OneFrame, UnitFrame
    <3>5. /\ load'[l].pc \notin Over \cup {"finish"}
          /\ load'[l].kind = "binary" <=> load'[l].pc = "connect"
      BY <2>1, <2>5 DEF Begin, TypeOK, Over
    <3>6. OnStack(t, l)'
      <4>1. 1 \in DOMAIN stack'[t]
        BY <2>2, StackParts DEF Kept
      <4> QED  BY <2>2, <2>5, <4>1 DEF OnStack, UnitFrame
    <3> QED  BY <3>2, <3>4, <3>5, <3>6 DEF HeldAt
  <2> QED  BY <2>4, <2>5
<1> QED  BY <1>3, <1>4 DEF StackStep

\* A host call begins with a frame that is no activation's.
LEMMA HostCallHeld ==
  ASSUME TypeOK, Held, NEW t \in Thread, HostCall(t)
  PROVE  Held'
<1>1. PICK f : NotUnit(f) /\ stack' = [stack EXCEPT ![t] = <<f>>]
  BY DEF HostCall, CallConnect, CallLoad, NotUnit, ConnectFrame, ScanFrame
<1>2. stack[t] = <<>> /\ UNCHANGED <<load, conn, closers>>
  BY DEF HostCall, CallConnect, CallLoad, Idle, registry
<1>3. \A p \in Thread : p # t => stack'[p] = stack[p]
  BY <1>1 DEF TypeOK
<1>4. stack'[t] = <<f>>
  BY <1>1 DEF TypeOK
<1>5. ASSUME NEW l \in Load PROVE HeldAt(l)'
  <2>1. \A j \in DOMAIN stack'[t] : stack'[t][j] # UnitFrame(l)
    BY <1>1, <1>4 DEF NotUnit, UnitFrame
  <2>2. \A p \in Thread : OnStack(p, l)' <=> OnStack(p, l)
    BY <1>2, <1>3, <2>1 DEF OnStack, UnitFrame
  <2>3. OneFrame(l) => OneFrame(l)'
    BY <1>3, <2>1 DEF OneFrame, UnitFrame
  <2> QED  BY <1>2, <2>2, <2>3, StaysHeld DEF Held
<1> QED  BY <1>5 DEF Held, Load

\* The frame a step of an activation runs in is the activation's.
LEMMA OwnFrame ==
  ASSUME TypeOK, NEW t \in Thread, NEW l, ~Idle(t), Top(t).kind = "unit", Top(t).load = l
  PROVE  Top(t) = UnitFrame(l)
BY LocalsTyped DEF UnitFrames, UnitFrame

\* The top frame of a stack is on it.
LEMMA TopOnStack ==
  ASSUME TypeOK, NEW t \in Thread, NEW l, ~Idle(t), Top(t) = UnitFrame(l)
  PROVE  OnStack(t, l)
BY StackParts DEF OnStack

\* An activation that moves on in its frame keeps connections where they are.
LEMMA MoveHeld ==
  ASSUME TypeOK, Held, NEW t \in Thread, ~Idle(t), NEW l \in Load, Top(t) = UnitFrame(l), Moves(l),
         \/ UNCHANGED stack
         \/ Continue(t, Top(t))
         \/ \E g : NotUnit(g) /\ Call(t, Top(t), g),
         load'[l].pc \notin Over \cup {"connect"},
         load'[l].pc = "finish" => load[l].kind # "binary",
         \A m \in Load : m # l => conn'[m] = conn[m],
         conn'[l] = "open" <=> load[l].kind = "binary",
         UNCHANGED closers
  PROVE  Held'
<1>1. ASSUME NEW m \in Load
      PROVE  /\ OneFrame(m) => OneFrame(m)'
             /\ \A p \in Thread : OnStack(p, m)' <=> OnStack(p, m)
  <2>1. CASE UNCHANGED stack
    BY <2>1 DEF OneFrame, OnStack, UnitFrame
  <2>2. CASE Continue(t, Top(t))
    <3>1. Kept(t, 1) /\ stack'[t][1] = Top(t)
      BY <2>2, ContinueKept
    <3>2. \A j \in 1 .. 1 : j = 1
      OBVIOUS
    <3> QED  BY <3>1, <3>2, FrameKept
  <2>3. ASSUME NEW g, NotUnit(g), Call(t, Top(t), g)
        PROVE  /\ OneFrame(m) => OneFrame(m)'
               /\ \A p \in Thread : OnStack(p, m)' <=> OnStack(p, m)
    <3>1. Kept(t, 2) /\ stack'[t][1] = g /\ stack'[t][2] = Top(t)
      BY <2>3, CallKept
    <3>2. \A j \in 1 .. 2 : j = 1 \/ j = 2
      OBVIOUS
    <3>3. g # UnitFrame(m)
      BY <2>3 DEF NotUnit, UnitFrame
    <3> QED  BY <3>1, <3>2, <3>3, FrameKept
  <2> QED  BY <2>1, <2>2, <2>3
<1>2. ASSUME NEW m \in Load, m # l PROVE HeldAt(m)'
  BY <1>1, <1>2, StaysHeld DEF Held, Moves
<1>3. HeldAt(l)'
  <2>1. OnStack(t, l) /\ HeldAt(l)
    BY TopOnStack DEF Held
  <2> QED  BY <1>1, <2>1 DEF HeldAt, Moves, Over
<1> QED  BY <1>2, <1>3 DEF Held, Load

\* An activation that returns leaves its connection with the registry, or closed.
LEMMA LeaveHeld ==
  ASSUME TypeOK, Held, NEW t \in Thread, ~Idle(t), NEW l \in Load, Top(t) = UnitFrame(l),
         NEW k, NEW ok, Return(t, k, ok),
         \A m \in Load : m # l => /\ load'[m] = load[m] /\ conn'[m] = conn[m]
                                  /\ m \in closers' <=> m \in closers,
         load'[l].pc \in Over,
         l \in closers' => load'[l].pc = "serving",
         conn'[l] = "open" <=> l \in closers'
  PROVE  Held'
<1>1. Kept(t, 0)
  BY ReturnKept
<1>2. ASSUME NEW m \in Load, m # l PROVE HeldAt(m)'
  <2>1. Top(t) # UnitFrame(m)
    BY <1>2 DEF UnitFrame
  <2>2. /\ OneFrame(m) => OneFrame(m)'
        /\ \A p \in Thread : OnStack(p, m)' <=> OnStack(p, m)
    BY <1>1, <2>1, FrameKept
  <2> QED  BY <1>2, <2>2, StaysHeld DEF Held
<1>3. ASSUME NEW p \in Thread, NEW j \in DOMAIN stack'[p] PROVE stack'[p][j] # UnitFrame(l)
  <2>1. /\ DOMAIN Below(t) = 1 .. Len(Below(t)) /\ Len(Below(t)) \in Nat
        /\ DOMAIN stack[t] = 1 .. Len(Below(t)) + 1
        /\ stack[t][1] = Top(t)
        /\ \A i \in DOMAIN Below(t) : stack[t][i + 1] = Below(t)[i]
    BY StackParts
  <2>2. OneFrame(l)
    BY DEF Held, HeldAt
  <2>3. \A i \in DOMAIN stack[p] : stack[p][i] = UnitFrame(l) => p = t /\ i = 1
    BY <2>1, <2>2 DEF OneFrame
  <2>4. CASE p # t
    BY <1>1, <1>3, <2>3, <2>4 DEF Kept
  <2>5. CASE p = t
    <3>1. j \in DOMAIN Below(t) /\ j + 0 = j /\ j \in Nat /\ j + 1 \in DOMAIN stack[t] /\ j + 1 # 1
      BY <1>1, <1>3, <2>1, <2>5 DEF Kept
    <3>2. stack'[t][j] = stack[t][j + 1]
      BY <1>1, <2>1, <3>1 DEF Kept
    <3> QED  BY <2>3, <2>5, <3>1, <3>2
  <2> QED  BY <2>4, <2>5
<1>4. HeldAt(l)'
  <2>1. OneFrame(l)' /\ \A p \in Thread : ~OnStack(p, l)'
    BY <1>3 DEF OneFrame, OnStack, UnitFrame
  <2> QED  BY <2>1 DEF HeldAt, Over
<1> QED  BY <1>2, <1>4 DEF Held, Load

\* An activation that fails closes its connection.
LEMMA FailHeld ==
  ASSUME TypeOK, Held, NEW t \in Thread, ~Idle(t), NEW l \in Load, Top(t) = UnitFrame(l),
         Fail(t, l), UNCHANGED closers
  PROVE  Held'
<1>1. l \notin closers
  <2>1. OnStack(t, l) /\ HeldAt(l)
    BY TopOnStack DEF Held
  <2> QED  BY <2>1 DEF HeldAt, Over
<1>2. /\ Return(t, None, FALSE)
      /\ load'[l].pc \in Over /\ conn'[l] # "open"
      /\ \A m \in Load : m # l => load'[m] = load[m] /\ conn'[m] = conn[m]
  BY AdvanceMoves, FreeTyped DEF Fail, TypeOK, Moves, Over, Pcs
<1> QED  BY <1>1, <1>2, LeaveHeld

\* Every step of an activation keeps connections where they belong.
LEMMA UnitHeld ==
  ASSUME IInv, Held, NEW t \in Thread, NEW l \in Load, UnitStep(t, l)
  PROVE  Held'
<1> USE DEF IInv
<1>1. ~Idle(t) /\ Top(t) = UnitFrame(l)
  <2>1. ~Idle(t) /\ Top(t).kind = "unit" /\ Top(t).load = l
    BY DEF UnitStep, Connect, ConnectFails, SchemaGate, SchemaRejected, Mark, MarkConflict,
           RequirementCyclic, RequirementServed, RequirementConnect, PeerReturned, GateDone, Finish,
           Register, RegisterNothing, RegisterRefused, TrackCloser, Gating, Registering, Runs, At, Resumes
  <2> QED  BY <2>1, OwnFrame
<1>2. HeldAt(l) /\ OnStack(t, l)
  BY <1>1, TopOnStack DEF Held
<1>3. /\ load[l].pc \notin Over /\ l \notin closers
      /\ conn[l] = "open" <=> load[l].kind = "binary" /\ load[l].pc # "connect"
      /\ load[l].pc = "connect" => load[l].kind = "binary"
      /\ load[l].pc = "finish" => load[l].kind # "binary"
  BY <1>2 DEF HeldAt, Over
<1>4. CASE ConnectFails(t, l) \/ SchemaRejected(t, l) \/ MarkConflict(t, l)
           \/ RequirementCyclic(t, l) \/ RegisterRefused(t, l)
  <2>1. Fail(t, l) /\ UNCHANGED closers
    BY <1>4 DEF ConnectFails, SchemaRejected, MarkConflict, RequirementCyclic, RegisterRefused, registry
  <2> QED  BY <1>1, <2>1, FailHeld
<1>5. CASE Connect(t, l)
  <2>1. Moves(l) /\ load'[l].pc = "schema"
    BY <1>5, AdvanceMoves DEF Connect, Pcs
  <2>2. /\ UNCHANGED <<stack, closers>>
        /\ load[l].kind = "binary" /\ conn'[l] = "open"
        /\ \A m \in Load : m # l => conn'[m] = conn[m]
    BY <1>3, <1>5 DEF Connect, Runs, TypeOK, registry, control
  <2> QED  BY <1>1, <2>1, <2>2, MoveHeld DEF Over
<1>6. CASE SchemaGate(t, l) \/ Mark(t, l) \/ GateDone(t, l)
  <2>1. \E pc \in Pcs \ (Over \cup {"connect"}) : Advance(l, pc) /\ (pc = "finish" => load[l].kind # "binary")
    BY <1>6 DEF SchemaGate, Mark, GateDone, AfterGate, Pcs, Over
  <2>2. /\ Moves(l) /\ load'[l].pc \notin Over \cup {"connect"}
        /\ load'[l].pc = "finish" => load[l].kind # "binary"
    BY <2>1, AdvanceMoves
  <2>3. UNCHANGED <<stack, conn, closers>> /\ load[l].pc # "connect"
    BY <1>6 DEF SchemaGate, Mark, GateDone, Runs, registry, control
  <2> QED  BY <1>1, <1>3, <2>2, <2>3, MoveHeld
<1>7. CASE RequirementConnect(t, l)
  <2>1. Moves(l) /\ load'[l].pc = "peer"
    BY <1>7, AdvanceMoves DEF RequirementConnect, Pcs
  <2>2. \E g : NotUnit(g) /\ Call(t, Top(t), g)
    BY <1>7 DEF RequirementConnect, NotUnit, ConnectFrame
  <2>3. UNCHANGED <<conn, closers>> /\ load[l].pc = "gate"
    BY <1>7 DEF RequirementConnect, Gating, Runs, registry
  <2> QED  BY <1>1, <1>3, <2>1, <2>2, <2>3, MoveHeld DEF Over
<1>8. CASE RequirementServed(t, l)
  <2>1. Moves(l) /\ load'[l].pc = "gate"
    BY <1>8, ServedMoves DEF RequirementServed, Gating, Runs
  <2>2. UNCHANGED <<stack, conn, closers>> /\ load[l].pc = "gate"
    BY <1>8 DEF RequirementServed, Gating, Runs, registry, control
  <2> QED  BY <1>1, <1>3, <2>1, <2>2, MoveHeld DEF Over
<1>9. CASE PeerReturned(t, l)
  <2>1. CASE MayContinue(t, l)
    <3>1. Moves(l) /\ load'[l].pc = "gate"
      BY <1>9, <2>1, PeerMoves DEF PeerReturned
    <3>2. UNCHANGED <<conn, closers>> /\ load[l].pc = "peer" /\ Continue(t, Top(t))
      BY <1>9, <2>1 DEF PeerReturned, registry
    <3> QED  BY <1>1, <1>3, <3>1, <3>2, MoveHeld DEF Over
  <2>2. CASE ~MayContinue(t, l)
    BY <1>1, <1>9, <2>2, FailHeld DEF PeerReturned, registry
  <2> QED  BY <2>1, <2>2
<1>10. CASE Register(t, l) \/ RegisterNothing(t, l)
  <2>1. Moves(l) /\ load'[l].pc = "register"
    BY <1>10, ProviderMoves DEF Register, RegisterNothing, Registering, Runs
  <2>2. UNCHANGED <<stack, conn, closers>> /\ load[l].pc = "register"
    BY <1>10 DEF Register, RegisterNothing, Registering, Runs, registry, control
  <2> QED  BY <1>1, <1>3, <2>1, <2>2, MoveHeld DEF Over
<1>11. CASE Finish(t, l)
  <2>1. /\ Return(t, None, TRUE) /\ UNCHANGED <<conn, closers>>
        /\ load'[l].pc \in Over /\ \A m \in Load : m # l => load'[m] = load[m]
    BY <1>11, FreeTyped DEF Finish, TypeOK, Over, registry
  <2>2. conn[l] # "open"
    BY <1>3, <1>11 DEF Finish, Runs
  <2> QED  BY <1>1, <1>3, <2>1, <2>2, LeaveHeld
<1>12. CASE TrackCloser(t, l)
  <2>1. Moves(l) /\ load'[l].pc = "serving"
    BY <1>12, AdvanceMoves DEF TrackCloser, Pcs
  <2>2. Return(t, None, TRUE) /\ closers' = closers \cup {l} /\ UNCHANGED conn
    BY <1>12 DEF TrackCloser
  <2>3. conn[l] = "open"
    BY <1>3, <1>12 DEF TrackCloser, Runs, Progress, SchemaDone
  <2> QED  BY <1>1, <2>1, <2>2, <2>3, LeaveHeld DEF Moves, Over
<1> QED  BY <1>4, <1>5, <1>6, <1>7, <1>8, <1>9, <1>10, <1>11, <1>12 DEF UnitStep

\* Closing the registry closes what it holds, and only that.
LEMMA CloseHeld ==
  ASSUME Held, FinishDispatch \/ ShutdownHook \/ SignalExit \/ UNCHANGED vars
  PROVE  Held'
<1>1. UNCHANGED <<load, stack>> /\ (Close \/ UNCHANGED <<conn, closers>>)
  BY DEF FinishDispatch, ShutdownHook, SignalExit, registry, control, vars
<1>2. ASSUME NEW l \in Load PROVE HeldAt(l)'
  <2>1. OneFrame(l)' = OneFrame(l) /\ \A p \in Thread : OnStack(p, l)' <=> OnStack(p, l)
    BY <1>1 DEF OneFrame, OnStack, UnitFrame
  <2> QED  BY <1>1, <2>1 DEF Held, HeldAt, Close, Over
<1> QED  BY <1>2 DEF Held, Load

\* Connections stay where they belong, from the start ...
LEMMA InitHeld == Init => Held
BY FreeTyped DEF Init, Held, HeldAt, OneFrame, OnStack, Over

\* ... through every step.
LEMMA NextHeld == IInv /\ Held /\ [Next]_vars => Held'
<1> SUFFICES ASSUME IInv, Held, [Next]_vars PROVE Held'
  OBVIOUS
<1>1. ASSUME NEW t \in Thread, ConnectStep(t) \/ ScanStep(t) PROVE Held'
  BY <1>1, ConnectStacks, ScanStacks, StackStepHeld DEF IInv
<1>2. ASSUME NEW t \in Thread, HostCall(t) PROVE Held'
  BY <1>2, HostCallHeld DEF IInv
<1>3. ASSUME NEW t \in Thread, NEW l \in Load, UnitStep(t, l) PROVE Held'
  BY <1>3, UnitHeld
<1>4. CASE FinishDispatch \/ ShutdownHook \/ SignalExit \/ UNCHANGED vars
  BY <1>4, CloseHeld
<1> QED  BY <1>1, <1>2, <1>3, <1>4 DEF Next, Step

\* No child process leaks when a load fails and none is closed twice: each is the registry's,
\* or belongs to a load that is still running.
THEOREM NoConnectionLeaks == Spec => []ConnectionsAccounted
<1>1. Held => ConnectionsAccounted
  BY DEF Held, HeldAt, ConnectionsAccounted, Over
<1> QED  BY <1>1, InitIInv, NextIInv, InitHeld, NextHeld, PTL DEF Spec

(***************************************************************************)
(* Marks: a key in flight was marked by a gate that is running, and only a *)
(* gate refused over another's mark leaves one behind                      *)
(***************************************************************************)

\* An activation has come to its end.
Ended(l) == load'[l].pc = "free" \/ (load'[l].pc = "failed" /\ load'[l].unit = load[l].unit)

\* An activation that fails ends, and touches no other.
LEMMA FailEnds ==
  ASSUME TypeOK, NEW t \in Thread, NEW l \in Load, Fail(t, l)
  PROVE  Ended(l) /\ \A m \in Load : m # l => load'[m] = load[m]
<1>1. CASE \E k \in Key : byKey[k] = l
  BY <1>1, AdvanceMoves DEF Fail, Moves, Ended, Pcs
<1>2. CASE ~\E k \in Key : byKey[k] = l
  BY <1>2, FreeTyped DEF Fail, TypeOK, Ended
<1> QED  BY <1>1, <1>2

\* A step of an activation moves it or ends it, and touches no other.
LEMMA UnitShape ==
  ASSUME IInv, NEW t \in Thread, NEW l \in Load, UnitStep(t, l)
  PROVE  /\ \A m \in Load : m # l => load'[m] = load[m]
         /\ Moves(l) \/ Ended(l)
         /\ load[l].pc # "free"
<1>1. load[l].pc # "free"
  BY DEF UnitStep, Connect, ConnectFails, SchemaGate, SchemaRejected, Mark, MarkConflict, RequirementCyclic,
         RequirementServed, RequirementConnect, PeerReturned, GateDone, Finish, Register, RegisterNothing,
         RegisterRefused, TrackCloser, Gating, Registering, Runs
<1>2. CASE Fail(t, l)
  BY <1>1, <1>2, FailEnds DEF IInv
<1>3. CASE Moves(l)
  BY <1>1, <1>3 DEF Moves
<1>4. CASE Finish(t, l)
  BY <1>1, <1>4, FreeTyped DEF Finish, IInv, TypeOK, Ended
<1>5. CASE \E pc \in Pcs : Advance(l, pc)
  BY <1>3, <1>5, AdvanceMoves DEF IInv
<1>6. CASE Connect(t, l) \/ SchemaGate(t, l) \/ Mark(t, l) \/ RequirementConnect(t, l)
           \/ GateDone(t, l) \/ TrackCloser(t, l)
  BY <1>5, <1>6, AfterGateTyped DEF Connect, SchemaGate, Mark, RequirementConnect, GateDone, TrackCloser, Pcs
<1>7. CASE RequirementServed(t, l)
  BY <1>3, <1>7, ServedMoves DEF RequirementServed, IInv
<1>8. CASE PeerReturned(t, l)
  BY <1>2, <1>3, <1>8, PeerMoves DEF PeerReturned, IInv
<1>9. CASE Register(t, l) \/ RegisterNothing(t, l)
  BY <1>3, <1>9, ProviderMoves DEF Register, RegisterNothing, IInv
<1> QED  BY <1>2, <1>4, <1>6, <1>7, <1>8, <1>9
    DEF UnitStep, ConnectFails, SchemaRejected, MarkConflict, RequirementCyclic, RegisterRefused

\* A mark that stays is still its gate's, if the gate has not ended.
LEMMA MarkStays ==
  ASSUME NEW k \in Key, NEW m \in Load, MarkedBy(k, m), inFlight'[k] = inFlight[k],
         load'[m].unit = load[m].unit, load'[m].kind = load[m].kind, load'[m].pc \in {"gate", "peer"}
  PROVE  ~Orphaned(k)'
<1>1. MarkedBy(k, m)'
  BY DEF MarkedBy, UnitOf, Own
<1> QED  BY <1>1 DEF Orphaned, Load

\* A step outside the gates leaves the marks to those who made them.
LEMMA OutsideKeeps ==
  ASSUME IInv, NEW k \in Key, ~Orphaned(k), NEW t \in Thread, NEW l \in Load, UnitStep(t, l),
         load[l].pc \notin {"gate", "peer"}, UNCHANGED inFlight
  PROVE  ~Orphaned(k)'
<1> SUFFICES ASSUME inFlight[k] # None PROVE ~Orphaned(k)'
  BY DEF Orphaned
<1>1. PICK m \in Load : MarkedBy(k, m)
  BY DEF Orphaned
<1>2. m # l
  BY <1>1 DEF MarkedBy
<1>3. load'[m] = load[m]
  BY <1>2, UnitShape
<1> QED  BY <1>1, <1>3, MarkStays DEF MarkedBy

\* A gate that goes on keeps its marks, and the others theirs.
LEMMA InsideKeeps ==
  ASSUME IInv, NEW k \in Key, ~Orphaned(k), NEW l \in Load, Moves(l), load'[l].pc \in {"gate", "peer"},
         UNCHANGED inFlight
  PROVE  ~Orphaned(k)'
<1> SUFFICES ASSUME inFlight[k] # None PROVE ~Orphaned(k)'
  BY DEF Orphaned
<1>1. PICK m \in Load : MarkedBy(k, m)
  BY DEF Orphaned
<1>2. CASE m = l
  BY <1>1, <1>2, MarkStays DEF Moves
<1>3. CASE m # l
  BY <1>1, <1>3, MarkStays DEF Moves, MarkedBy
<1> QED  BY <1>2, <1>3

\* A gate that ends takes off its own marks, whatever becomes of its activation.
LEMMA UnmarkKeeps ==
  ASSUME IInv, NEW k \in Key, ~Orphaned(k), NEW t \in Thread, NEW l \in Load, UnitStep(t, l), Unmark(l)
  PROVE  ~Orphaned(k)'
<1> SUFFICES ASSUME inFlight'[k] # None PROVE ~Orphaned(k)'
  BY DEF Orphaned
<1>1. k \notin Elems(Own(l)) /\ inFlight'[k] = inFlight[k]
  BY DEF Unmark, MarkKeys
<1>2. PICK m \in Load : MarkedBy(k, m)
  BY <1>1 DEF Orphaned
<1>3. m # l
  BY <1>1, <1>2 DEF MarkedBy
<1>4. load'[m] = load[m]
  BY <1>3, UnitShape
<1> QED  BY <1>1, <1>2, <1>4, MarkStays DEF MarkedBy

\* A gate that begins has marked its keys, and leaves the marks of others.
LEMMA BeginsMarked ==
  ASSUME IInv, NEW k \in Key, ~Orphaned(k), NEW t \in Thread, NEW l \in Load, Mark(t, l)
  PROVE  ~Orphaned(k)'
<1>1. Moves(l) /\ load'[l].pc = "gate" /\ load[l].pc = "mark"
  BY AdvanceMoves DEF Mark, Runs, IInv, Pcs
<1>2. CASE k \in Elems(Own(l))
  <2>1. inFlight'[k] = UnitOf(l)
    BY <1>2 DEF Mark, MarkKeys
  <2>2. MarkedBy(k, l)'
    BY <1>1, <1>2, <2>1 DEF MarkedBy, Moves, UnitOf, Own
  <2> QED  BY <2>2 DEF Orphaned, Load
<1>3. CASE k \notin Elems(Own(l))
  <2>1. inFlight'[k] = inFlight[k]
    BY <1>3 DEF Mark, MarkKeys
  <2> SUFFICES ASSUME inFlight[k] # None PROVE ~Orphaned(k)'
    BY <2>1 DEF Orphaned
  <2>2. PICK m \in Load : MarkedBy(k, m)
    BY DEF Orphaned
  <2>3. m # l
    BY <1>1, <2>2 DEF MarkedBy
  <2> QED  BY <1>1, <2>1, <2>2, <2>3, MarkStays DEF Moves, MarkedBy
<1> QED  BY <1>2, <1>3

\* No step of an activation orphans a mark, unless its gate is refused ...
LEMMA UnitMarks ==
  ASSUME IInv, NEW k \in Key, ~Orphaned(k), NEW t \in Thread, NEW l \in Load, UnitStep(t, l),
         MarkConflict(t, l) => UNCHANGED inFlight
  PROVE  ~Orphaned(k)'
<1>1. CASE Connect(t, l) \/ ConnectFails(t, l) \/ SchemaGate(t, l) \/ SchemaRejected(t, l) \/ Finish(t, l)
           \/ Register(t, l) \/ RegisterNothing(t, l) \/ RegisterRefused(t, l) \/ TrackCloser(t, l)
  <2>1. load[l].pc \notin {"gate", "peer"} /\ UNCHANGED inFlight
    BY <1>1 DEF Connect, ConnectFails, SchemaGate, SchemaRejected, Finish, Register, RegisterNothing,
                RegisterRefused, TrackCloser, Registering, Runs
  <2> QED  BY <2>1, OutsideKeeps
<1>2. CASE MarkConflict(t, l)
  <2>1. load[l].pc = "mark" /\ UNCHANGED inFlight
    BY <1>2 DEF MarkConflict, Runs
  <2> QED  BY <2>1, OutsideKeeps
<1>3. CASE Mark(t, l)
  BY <1>3, BeginsMarked
<1>4. CASE RequirementServed(t, l)
  BY <1>4, ServedMoves, InsideKeeps DEF RequirementServed, Gating, Runs, IInv
<1>5. CASE RequirementConnect(t, l)
  BY <1>5, AdvanceMoves, InsideKeeps DEF RequirementConnect, IInv, Pcs
<1>6. CASE PeerReturned(t, l)
  BY <1>6, PeerMoves, InsideKeeps, UnmarkKeeps DEF PeerReturned, IInv
<1>7. CASE RequirementCyclic(t, l) \/ GateDone(t, l)
  BY <1>7, UnmarkKeeps DEF RequirementCyclic, GateDone
<1> QED  BY <1>1, <1>2, <1>3, <1>4, <1>5, <1>6, <1>7 DEF UnitStep

\* ... and no other step does.
LEMMA NextMarks ==
  ASSUME IInv, NEW k \in Key, ~Orphaned(k), [Next]_vars,
         \A t \in Thread, l \in Load : MarkConflict(t, l) => UNCHANGED inFlight
  PROVE  ~Orphaned(k)'
<1>1. ASSUME UNCHANGED <<load, inFlight>> PROVE ~Orphaned(k)'
  BY <1>1 DEF Orphaned, MarkedBy, UnitOf, Own
<1>2. ASSUME NEW t \in Thread, HostCall(t) \/ ConnectStep(t) \/ ScanStep(t) PROVE ~Orphaned(k)'
  <2>1. ControlOnly
    BY <1>2, HostCallControls, ConnectControls, ScanControls DEF IInv
  <2>2. CASE Starts
    <3>1. PICK l \in Load : load[l].pc = "free" /\ \A m \in Load : m # l => load'[m] = load[m]
      BY <2>2 DEF Starts, Fresh, Begin, IInv, TypeOK
    <3> SUFFICES ASSUME inFlight[k] # None PROVE ~Orphaned(k)'
      BY <2>1 DEF Orphaned, ControlOnly
    <3>2. PICK m \in Load : MarkedBy(k, m)
      BY DEF Orphaned
    <3> QED  BY <2>1, <3>1, <3>2, MarkStays DEF ControlOnly, MarkedBy
  <2> QED  BY <1>1, <2>1, <2>2 DEF ControlOnly
<1>3. ASSUME NEW t \in Thread, NEW l \in Load, UnitStep(t, l) PROVE ~Orphaned(k)'
  BY <1>3, UnitMarks
<1>4. CASE FinishDispatch \/ ShutdownHook \/ SignalExit \/ UNCHANGED vars
  BY <1>1, <1>4 DEF FinishDispatch, ShutdownHook, SignalExit, vars
<1> QED  BY <1>1, <1>2, <1>3, <1>4 DEF Next, Step

\* The gate a key was marked for takes the mark off when it ends, on every way out of it and
\* beside any number of goroutines.  Only a gate that is refused over another unit's mark, after
\* it has set some of its own, leaves them: its return comes before the deferred cleanup.
THEOREM MarksEndWithGate == Spec => MarksLeftByRefusal
<1>1. IInv /\ [Next]_vars =>
        [\A k \in Key : Orphaned(k)' /\ ~Orphaned(k) =>
           \E t \in Thread, l \in Load : MarkConflict(t, l)]_vars
  BY NextMarks
<1> QED  BY <1>1, Invariance, PTL DEF Spec, MarksLeftByRefusal

(***************************************************************************)
(* Why an activation is started                                            *)
(***************************************************************************)

\* What a scan or a connect has found out before it starts an activation of u.
Wanted(u) == ~Connected(u) \/ \E k \in Key : BakedFor[k] = u /\ ~Registered(k)

StartsFor ==
  \E l \in Load, u \in Unit :
    /\ load[l].pc = "free"
    /\ \/ Begin(l, u, "binary", "connect") /\ Wanted(u)
       \/ Begin(l, u, "manifest", "mark") /\ Requires[u] # <<>>
       \/ Begin(l, u, "compiled", "schema")

\* A binary is loaded for an identity nobody serves or a candy that is not connected, a gate
\* run for a connected candy that has requirements.
LEMMA StartsWanted ==
  ASSUME IInv, NEW t \in Thread, HostCall(t) \/ ConnectStep(t) \/ ScanStep(t)
  PROVE  UNCHANGED load \/ StartsFor
<1>1. CASE HostCall(t)
  BY <1>1 DEF HostCall, CallConnect, CallLoad
<1>2. CASE ConnectBaked(t)
  <2>1. Top(t).key \in Key
    <3>1. ~Idle(t) /\ Top(t).kind = "connect"
      BY <1>2 DEF ConnectBaked, At
    <3>2. Top(t) \in ConnectFrames
      BY <3>1, LocalsTyped DEF IInv
    <3> QED  BY <3>2 DEF ConnectFrames
  <2>2. BakedFor[Top(t).key] \in Unit
    BY <1>2, <2>1, ManifestAssumption DEF ConnectBaked
  <2> QED  BY <1>2, <2>1, <2>2 DEF ConnectBaked, StartsFor, Wanted, Fresh
<1>3. CASE ConnectStep(t) /\ ~ConnectBaked(t)
  BY <1>3 DEF ConnectStep, Resolve, NoBaked, BakedDone, Scan, ScanFails, ScanReturned, SecondPass, Missing
<1>4. CASE GateStartUnit(t)
  <2>1. Top(t).next \in 1..Len(StartUnits)
    <3>1. ~Idle(t) /\ Top(t).kind = "once"
      BY <1>4 DEF GateStartUnit, At
    <3>2. Top(t) \in OnceFrames
      BY <3>1, LocalsTyped DEF IInv
    <3> QED  BY <1>4, <3>2, ManifestAssumption DEF OnceFrames, GateStartUnit
  <2>2. StartUnits[Top(t).next] \in Unit
    BY <2>1, ManifestAssumption
  <2> QED  BY <1>4, <2>2 DEF GateStartUnit, StartsFor, Fresh
<1>5. ASSUME NEW u \in Unit, VisitCandy(t, u) PROVE UNCHANGED load \/ StartsFor
  BY <1>5 DEF VisitCandy, StartsFor, Wanted, Fresh
<1>6. CASE StartOnce(t) \/ PassOnce(t) \/ OnceReturned(t) \/ StartUnitReturned(t) \/ OnceDone(t)
           \/ CandyReturned(t) \/ ScanDone(t)
  BY <1>6 DEF StartOnce, PassOnce, OnceReturned, StartUnitReturned, OnceDone, CandyReturned, ScanDone
<1> QED  BY <1>1, <1>2, <1>3, <1>4, <1>5, <1>6 DEF ScanStep

\* What a start leaves behind: one activation that was free is at its beginning.
Begun(l, u) ==
  /\ load[l].pc = "free" /\ \A m \in Load : m # l => load'[m] = load[m]
  /\ load'[l].unit = u /\ load'[l].reg = 1 /\ load'[l].pc \in {"connect", "mark", "schema"}
  /\ load'[l].kind = "binary" => load'[l].pc = "connect" /\ Wanted(u)
  /\ load'[l].pc = "mark" => Requires[u] # <<>>

LEMMA BegunLoad ==
  ASSUME TypeOK, StartsFor
  PROVE  \E l \in Load, u \in Unit : Begun(l, u)
<1>1. PICK l \in Load, u \in Unit, kind \in {"binary", "manifest", "compiled"}, pc \in {"connect", "mark", "schema"} :
        /\ load[l].pc = "free" /\ Begin(l, u, kind, pc)
        /\ kind = "binary" => pc = "connect" /\ Wanted(u)
        /\ pc = "mark" => Requires[u] # <<>>
  BY DEF StartsFor
<1>2. load' = [load EXCEPT ![l] = [unit |-> u, kind |-> kind, pc |-> pc, req |-> 1, reg |-> 1]]
  BY <1>1 DEF Begin
<1>3. Begun(l, u)
  BY <1>1, <1>2 DEF TypeOK, Begun
<1> QED  BY <1>3

(***************************************************************************)
(* Dead words: a registered identity loses its connection only by the      *)
(* refusal of a later word                                                 *)
(***************************************************************************)

Refusals == \A l \in Load : load[l].pc = "failed" => RefusedAt(l)

\* While the host runs, the connection of every load that ended well is the registry's to close.
Tracked == host = "running" => \A l \in Load : load[l].pc = "serving" => l \in closers

\* What register refused once it refuses for good: no identity changes hands.
LEMMA RefusalLasts ==
  ASSUME IInv, [Next]_vars, NEW l \in Load, RefusedAt(l), load'[l] = load[l]
  PROVE  RefusedAt(l)'
<1>1. UnitOf(l) \in Unit /\ load[l].reg \in 1 .. Len(Served[UnitOf(l)])
  BY DEF RefusedAt, IInv, LoadsNamed, TypeOK, Activation
<1>2. NextProvider(l) \in Key
  BY <1>1, ManifestAssumption DEF NextProvider
<1>3. NextProvider(l)' = NextProvider(l) /\ SourceOf(l)' = SourceOf(l) /\ UnitOf(l)' = UnitOf(l)
  BY DEF NextProvider, SourceOf, UnitOf
<1>4. CASE NextProvider(l) \in Unregistrable
  BY <1>3, <1>4 DEF RefusedAt
<1>5. CASE Registered(NextProvider(l)) /\ ~Coexists(l, NextProvider(l))
  <2>1. /\ byKey'[NextProvider(l)] = byKey[NextProvider(l)]
        /\ origins'[NextProvider(l)] = origins[NextProvider(l)]
    BY <1>2, <1>5, OwnerKept
  <2> QED  BY <1>3, <1>5, <2>1 DEF RefusedAt, Registered, Coexists
<1> QED  BY <1>4, <1>5 DEF RefusedAt

\* A load that keeps registered words fails by a refusal.
LEMMA FailsRefused ==
  ASSUME IInv, NEW t \in Thread, NEW l \in Load, UnitStep(t, l), load'[l].pc = "failed"
  PROVE  RefusedAt(l)'
<1>1. CASE ConnectFails(t, l) \/ SchemaRejected(t, l) \/ MarkConflict(t, l) \/ RequirementCyclic(t, l)
           \/ (PeerReturned(t, l) /\ ~MayContinue(t, l))
  <2>1. Fail(t, l) /\ load[l].pc \notin {"register", "serving", "failed"}
    BY <1>1 DEF ConnectFails, SchemaRejected, MarkConflict, RequirementCyclic, PeerReturned, Gating, Runs
  <2>2. ~\E k \in Key : byKey[k] = l
    BY <2>1 DEF IInv, ProvidersPlaced, External, RegisteredBy
  <2> QED  BY <2>1, <2>2, FreeTyped DEF Fail, IInv, TypeOK
<1>2. CASE RegisterRefused(t, l)
  <2>1. Fail(t, l) /\ UNCHANGED <<byKey, origins>> /\ load[l].reg <= Len(Served[UnitOf(l)])
    BY <1>2 DEF RegisterRefused, Registering, registry
  <2>2. Moves(l) /\ load'[l].reg = load[l].reg
    <3>1. Advance(l, "failed")
      BY <2>1, FreeTyped DEF Fail, IInv, TypeOK
    <3> QED  BY <3>1, AdvanceMoves DEF Advance, IInv, TypeOK, Pcs
  <2>3. NextProvider(l)' = NextProvider(l) /\ SourceOf(l)' = SourceOf(l) /\ UnitOf(l)' = UnitOf(l)
    BY <2>2 DEF NextProvider, SourceOf, UnitOf, Moves
  <2> QED  BY <1>2, <2>1, <2>2, <2>3 DEF RegisterRefused, RefusedAt, Registered, Coexists
<1>3. CASE Connect(t, l) \/ SchemaGate(t, l) \/ Mark(t, l) \/ RequirementConnect(t, l)
           \/ GateDone(t, l) \/ TrackCloser(t, l)
  <2>1. \E pc \in Pcs \ {"failed"} : Advance(l, pc)
    BY <1>3 DEF Connect, SchemaGate, Mark, RequirementConnect, GateDone, TrackCloser, AfterGate, Pcs
  <2> QED  BY <2>1, AdvanceMoves DEF IInv
<1>4. CASE RequirementServed(t, l) \/ (PeerReturned(t, l) /\ MayContinue(t, l)) \/ Finish(t, l)
           \/ Register(t, l) \/ RegisterNothing(t, l)
  BY <1>4, ServedMoves, PeerMoves, ProviderMoves, FreeTyped
     DEF RequirementServed, PeerReturned, Finish, Register, RegisterNothing, Registering, Gating, Runs, IInv, TypeOK
<1> QED  BY <1>1, <1>2, <1>3, <1>4 DEF UnitStep

\* A step leaves an activation alone, starts it, or is a step of it.
LEMMA LoadSteps ==
  ASSUME IInv, [Next]_vars, NEW l \in Load, load'[l] # load[l], load'[l].pc \notin {"connect", "mark", "schema"}
  PROVE  \E t \in Thread : UnitStep(t, l)
<1>1. ASSUME NEW t \in Thread, HostCall(t) \/ ConnectStep(t) \/ ScanStep(t) PROVE FALSE
  <2>1. UNCHANGED load \/ StartsFor
    BY <1>1, StartsWanted
  <2>2. PICK m \in Load, u \in Unit : Begun(m, u)
    BY <2>1, BegunLoad DEF IInv
  <2> QED  BY <2>2 DEF Begun
<1>2. ASSUME NEW t \in Thread, NEW m \in Load, UnitStep(t, m) PROVE m = l
  BY <1>2, UnitShape
<1>3. ~(FinishDispatch \/ ShutdownHook \/ SignalExit \/ UNCHANGED vars)
  BY DEF FinishDispatch, ShutdownHook, SignalExit, vars
<1> QED  BY <1>1, <1>2, <1>3 DEF Next, Step

LEMMA NextRefusals == IInv /\ Refusals /\ [Next]_vars => Refusals'
<1> SUFFICES ASSUME IInv, Refusals, [Next]_vars, NEW l \in Load, load'[l].pc = "failed" PROVE RefusedAt(l)'
  BY DEF Refusals, Load
<1>1. CASE load'[l] = load[l]
  BY <1>1, RefusalLasts DEF Refusals
<1>2. CASE load'[l] # load[l]
  BY <1>2, LoadSteps, FailsRefused
<1> QED  BY <1>1, <1>2

\* A step of an activation forgets no closer and does not end the host.
LEMMA UnitQuiet ==
  ASSUME NEW t \in Thread, NEW l \in Load, UnitStep(t, l)
  PROVE  closers \subseteq closers' /\ UNCHANGED host
<1>1. CASE TrackCloser(t, l)
  BY <1>1 DEF TrackCloser
<1>2. CASE Connect(t, l) \/ ConnectFails(t, l) \/ SchemaGate(t, l) \/ SchemaRejected(t, l) \/ Mark(t, l)
           \/ MarkConflict(t, l) \/ RequirementCyclic(t, l)
  BY <1>2 DEF Connect, ConnectFails, SchemaGate, SchemaRejected, Mark, MarkConflict, RequirementCyclic, registry
<1>3. CASE RequirementServed(t, l) \/ RequirementConnect(t, l) \/ PeerReturned(t, l) \/ GateDone(t, l)
           \/ Finish(t, l) \/ Register(t, l) \/ RegisterNothing(t, l) \/ RegisterRefused(t, l)
  BY <1>3 DEF RequirementServed, RequirementConnect, PeerReturned, GateDone, Finish, Register, RegisterNothing,
              RegisterRefused, registry
<1> QED  BY <1>1, <1>2, <1>3 DEF UnitStep

LEMMA NextTracked == IInv /\ Tracked /\ [Next]_vars => Tracked'
<1> SUFFICES ASSUME IInv, Tracked, [Next]_vars, host' = "running", NEW l \in Load, load'[l].pc = "serving"
             PROVE  l \in closers'
  BY DEF Tracked, Load
<1>1. ~FinishDispatch /\ ~ShutdownHook /\ ~SignalExit
  BY DEF FinishDispatch, ShutdownHook, SignalExit
<1>2. closers \subseteq closers'
  <2>1. ASSUME NEW t \in Thread, HostCall(t) \/ ConnectStep(t) \/ ScanStep(t) PROVE closers \subseteq closers'
    BY <2>1, HostCallControls, ConnectControls, ScanControls DEF ControlOnly, IInv, registry
  <2>2. ASSUME NEW t \in Thread, NEW m \in Load, UnitStep(t, m) PROVE closers \subseteq closers'
    BY <2>2, UnitQuiet
  <2>3. CASE UNCHANGED vars
    BY <2>3 DEF vars
  <2> QED  BY <1>1, <2>1, <2>2, <2>3 DEF Next, Step
<1>3. host = "running"
  <2>1. ASSUME NEW t \in Thread, HostCall(t) \/ ConnectStep(t) \/ ScanStep(t) PROVE host = "running"
    BY <2>1, HostCallControls, ConnectControls, ScanControls DEF ControlOnly, IInv
  <2>2. ASSUME NEW t \in Thread, NEW m \in Load, UnitStep(t, m) PROVE host = "running"
    BY <2>2, UnitQuiet
  <2>3. CASE UNCHANGED vars
    BY <2>3 DEF vars
  <2> QED  BY <1>1, <2>1, <2>2, <2>3 DEF Next, Step
<1>4. CASE load'[l] = load[l]
  BY <1>2, <1>3, <1>4 DEF Tracked
<1>5. CASE load'[l] # load[l]
  <2>1. PICK t \in Thread : UnitStep(t, l)
    BY <1>5, LoadSteps
  <2>2. CASE TrackCloser(t, l)
    BY <2>2 DEF TrackCloser
  <2>3. CASE Fail(t, l) \/ Finish(t, l)
    BY <2>3, FailEnds, FreeTyped DEF Ended, Finish, IInv, TypeOK
  <2>4. CASE Connect(t, l) \/ SchemaGate(t, l) \/ Mark(t, l) \/ RequirementConnect(t, l) \/ GateDone(t, l)
    <3>1. \E pc \in Pcs \ {"serving"} : Advance(l, pc)
      BY <2>4 DEF Connect, SchemaGate, Mark, RequirementConnect, GateDone, AfterGate, Pcs
    <3> QED  BY <3>1, AdvanceMoves DEF IInv
  <2>5. CASE RequirementServed(t, l) \/ Register(t, l) \/ RegisterNothing(t, l)
    BY <2>5, ServedMoves, ProviderMoves
       DEF RequirementServed, Register, RegisterNothing, Registering, Gating, Runs, IInv
  <2>6. CASE PeerReturned(t, l)
    BY <2>3, <2>6, PeerMoves DEF PeerReturned, IInv
  <2> QED  BY <2>1, <2>2, <2>3, <2>4, <2>5, <2>6
      DEF UnitStep, ConnectFails, SchemaRejected, MarkConflict, RequirementCyclic, RegisterRefused
<1> QED  BY <1>4, <1>5

\* A word in the registry is answered by a live process, or a later word of its plugin was
\* refused: no failed connect, gate, requirement or peer leaves a word behind, on any number of
\* goroutines.
THEOREM OneCauseOfDeadWords == Spec => []DeadWordsWereRefused
<1>1. Init => Refusals /\ Tracked
  BY FreeTyped DEF Init, Refusals, Tracked
<1>2. IInv /\ Held /\ Refusals /\ Tracked => DeadWordsWereRefused
  <2> SUFFICES ASSUME IInv, Held, Refusals, Tracked, host = "running", NEW k \in Key, External(k)
               PROVE  conn[byKey[k]] = "open" \/ RefusedAt(byKey[k])
    BY DEF DeadWordsWereRefused
  <2>1. byKey[k] \in Load /\ load[byKey[k]].kind = "binary"
        /\ load[byKey[k]].pc \in {"register", "serving", "failed"}
    BY DEF IInv, ProvidersPlaced, RegisteredBy, External
  <2> QED  BY <2>1 DEF Held, HeldAt, Over, Refusals, Tracked
<1> QED  BY <1>1, <1>2, InitIInv, NextIInv, InitHeld, NextHeld, NextRefusals, NextTracked, PTL DEF Spec

Names(u) == Elems(Served[u]) \cup Elems(Declared[u])

\* Only units with requirements run a gate.
GatesNeeded == \A l \in Load : load[l].pc \in {"mark", "gate", "peer"} => Requires[UnitOf(l)] # <<>>

LEMMA NextGates == IInv /\ GatesNeeded /\ [Next]_vars => GatesNeeded'
<1> SUFFICES ASSUME IInv, GatesNeeded, [Next]_vars PROVE GatesNeeded'
  OBVIOUS
<1>1. ASSUME UNCHANGED load PROVE GatesNeeded'
  BY <1>1 DEF GatesNeeded, UnitOf
<1>2. CASE StartsFor
  <2>1. PICK l \in Load, u \in Unit : Begun(l, u)
    BY <1>2, BegunLoad DEF IInv
  <2> QED  BY <2>1 DEF Begun, GatesNeeded, UnitOf, Load
<1>3. ASSUME NEW t \in Thread, NEW l \in Load, UnitStep(t, l) PROVE GatesNeeded'
  <2> SUFFICES ASSUME Moves(l), load'[l].pc \in {"mark", "gate", "peer"} PROVE Requires[UnitOf(l)] # <<>>
    <3>1. (\A m \in Load : m # l => load'[m] = load[m]) /\ (Moves(l) \/ Ended(l))
      BY <1>3, UnitShape
    <3>2. Moves(l) => load'[l].unit = load[l].unit
      BY DEF Moves
    <3>3. Ended(l) => load'[l].pc \notin {"mark", "gate", "peer"}
      BY DEF Ended
    <3> QED  BY <3>1, <3>2, <3>3 DEF GatesNeeded, UnitOf, Load
  <2>1. CASE SchemaGate(t, l)
    <3>1. Advance(l, IF Requires[UnitOf(l)] = <<>> THEN AfterGate(load[l].kind) ELSE "mark")
      BY <2>1 DEF SchemaGate
    <3>2. AfterGate(load[l].kind) \in Pcs \ {"mark", "gate", "peer"}
      BY AfterGateTyped DEF Pcs
    <3> QED  BY <3>1, <3>2, AdvanceMoves DEF IInv
  <2>2. CASE load[l].pc \in {"mark", "gate", "peer"}
    BY <2>2 DEF GatesNeeded
  <2>3. CASE Connect(t, l) \/ Register(t, l) \/ RegisterNothing(t, l) \/ TrackCloser(t, l)
    BY <2>3, AdvanceMoves, ProviderMoves DEF Connect, Register, RegisterNothing, TrackCloser, Registering, Runs, IInv, Pcs
  <2>4. CASE ConnectFails(t, l) \/ SchemaRejected(t, l) \/ RegisterRefused(t, l)
    BY <2>4, FailEnds DEF ConnectFails, SchemaRejected, RegisterRefused, Ended, IInv
  <2>5. CASE Finish(t, l)
    BY <2>5, FreeTyped DEF Finish, IInv, TypeOK
  <2>6. CASE Mark(t, l) \/ MarkConflict(t, l) \/ RequirementCyclic(t, l) \/ RequirementServed(t, l)
             \/ RequirementConnect(t, l) \/ PeerReturned(t, l) \/ GateDone(t, l)
    BY <2>2, <2>6 DEF Mark, MarkConflict, RequirementCyclic, RequirementServed, RequirementConnect,
                      PeerReturned, GateDone, Gating, Runs
  <2> QED  BY <1>3, <2>1, <2>3, <2>4, <2>5, <2>6 DEF UnitStep
<1>4. CASE FinishDispatch \/ ShutdownHook \/ SignalExit \/ UNCHANGED vars
  BY <1>1, <1>4 DEF FinishDispatch, ShutdownHook, SignalExit, vars
<1> QED  BY <1>1, <1>2, <1>3, <1>4, StartsWanted DEF Next, Step

(***************************************************************************)
(* One server per source                                                   *)
(***************************************************************************)

\* Copies of one source list the same identities.
CopiesAlike ==
  \A u, v \in Unit : OriginOf[u] = OriginOf[v] => Declared[u] = Declared[v] /\ Served[u] = Served[v]

\* Some declared identity that charly does not serve itself is one the unit registers, unless
\* all are charly's: one word proves the source loaded.
WordProves ==
  \A u \in Unit :
    \/ Elems(Declared[u]) \subseteq CompiledKey
    \/ \E k \in Elems(Declared[u]) \cap Elems(Served[u]) : k \notin CompiledKey

\* A baked binary registers the identities it is found by.
BakedServes == \A k \in Key : BakedFor[k] # None => k \in Elems(Served[BakedFor[k]])

LoadingPcs == {"connect", "schema", "mark", "gate", "peer", "register"}
Loading(l) == load[l].kind = "binary" /\ load[l].pc \in LoadingPcs

\* No source is being loaded twice at a time, by two goroutines or by a load inside its own.
LoadedApart ==
  \A l, m \in Load : Loading(l) /\ Loading(m) /\ OriginOf[UnitOf(l)] = OriginOf[UnitOf(m)] => l = m

\* An origin is recorded for registered identities, and charly's own is that of its own.
Recorded == \A k \in Key : (origins[k] # None => Registered(k)) /\ (origins[k] = Compiled <=> k \in CompiledKey)

Placed(l, j) == origins[Served[UnitOf(l)][j]] \in {Compiled, SourceOf(l)}

\* The providers a load has been through are registered, under its source or in the process.
SourcedAt(l) ==
  load[l].kind = "binary" =>
    /\ load[l].pc \in LoadingPcs \ {"register"} => load[l].reg = 1
    /\ load[l].pc = "register" => \A j \in DOMAIN Served[UnitOf(l)] : j < load[l].reg => Placed(l, j)
    /\ load[l].pc = "serving" => \A j \in DOMAIN Served[UnitOf(l)] : Placed(l, j)

Sourced == \A l \in Load : SourcedAt(l)

\* What is being loaded is not served yet.
NotYet ==
  \A l, m \in Load : load[l].pc = "serving" /\ Loading(m) => OriginOf[UnitOf(l)] # OriginOf[UnitOf(m)]

ServerInv == Recorded /\ Sourced /\ NotYet /\ OneServerPerSource

\* A served identity keeps its origin.
LEMMA OriginStays ==
  ASSUME IInv, Recorded, [Next]_vars, NEW k \in Key, origins[k] # None
  PROVE  origins'[k] = origins[k]
BY OwnerKept DEF Recorded

LEMMA NextRecorded == IInv /\ Recorded /\ [Next]_vars => Recorded'
<1> SUFFICES ASSUME IInv, Recorded, [Next]_vars PROVE Recorded'
  OBVIOUS
<1>1. CASE UNCHANGED <<byKey, origins>>
  BY <1>1 DEF Recorded, Registered
<1>2. ASSUME NEW t \in Thread, NEW l \in Load, Register(t, l) PROVE Recorded'
  <2>1. load[l].pc = "register" /\ UnitOf(l) \in Unit
    BY <1>2 DEF Register, Registering, Runs, IInv, LoadsNamed
  <2>2. SourceOf(l) \in Origin
    BY <2>1, ManifestAssumption DEF SourceOf
  <2> QED  BY <1>2, <2>2, TagAssumption DEF Register, Recorded, Registered, IInv, TypeOK
<1> QED  BY <1>1, <1>2, RegistryStep

\* An activation that stays where it is has its providers where they were.
LEMMA SourcedStays ==
  ASSUME IInv, Recorded, [Next]_vars, NEW l \in Load, SourcedAt(l),
         load'[l].unit = load[l].unit, load'[l].kind = load[l].kind, load'[l].pc = load[l].pc,
         load'[l].reg = load[l].reg
  PROVE  SourcedAt(l)'
<1>1. CASE load[l].pc \notin {"register", "serving"}
  BY <1>1 DEF SourcedAt
<1>2. CASE load[l].pc \in {"register", "serving"}
  <2>1. UnitOf(l) \in Unit /\ UnitOf(l)' = UnitOf(l)
    BY <1>2 DEF IInv, LoadsNamed, UnitOf
  <2>2. ASSUME NEW j \in DOMAIN Served[UnitOf(l)], Placed(l, j) PROVE Placed(l, j)'
    <3>1. Served[UnitOf(l)][j] \in Key /\ OriginOf[UnitOf(l)] \in Origin
      BY <2>1, ManifestAssumption
    <3>2. origins[Served[UnitOf(l)][j]] # None
      BY <2>2, <3>1, TagAssumption DEF Placed, SourceOf
    <3>3. origins'[Served[UnitOf(l)][j]] = origins[Served[UnitOf(l)][j]]
      BY <3>1, <3>2, OriginStays
    <3> QED  BY <2>1, <2>2, <3>3 DEF Placed, SourceOf
  <2> QED  BY <1>2, <2>1, <2>2 DEF SourcedAt
<1> QED  BY <1>1, <1>2

\* The steps of an activation before it registers: it has registered nothing.
Early(t, l) ==
  \/ Connect(t, l) \/ SchemaGate(t, l) \/ Mark(t, l) \/ RequirementServed(t, l)
  \/ RequirementConnect(t, l) \/ GateDone(t, l)
  \/ PeerReturned(t, l) /\ MayContinue(t, l)

LEMMA EarlyMoves ==
  ASSUME IInv, NEW t \in Thread, NEW l \in Load, Early(t, l)
  PROVE  /\ Moves(l) /\ load'[l].reg = load[l].reg
         /\ load[l].pc \in LoadingPcs \ {"register"} /\ load'[l].pc \in LoadingPcs \cup {"finish"}
<1>1. load[l].pc \in LoadingPcs \ {"register"}
  BY DEF Early, Connect, SchemaGate, Mark, RequirementServed, RequirementConnect, GateDone, PeerReturned,
         Gating, Runs, LoadingPcs
<1>2. ASSUME NEW pc \in LoadingPcs \cup {"finish"}, Advance(l, pc)
      PROVE  Moves(l) /\ load'[l].reg = load[l].reg /\ load'[l].pc \in LoadingPcs \cup {"finish"}
  <2>1. pc \in Pcs
    BY DEF LoadingPcs, Pcs
  <2> QED  BY <1>2, <2>1, AdvanceMoves DEF IInv
<1>3. CASE Connect(t, l) \/ Mark(t, l) \/ RequirementConnect(t, l)
  <2>1. \E pc \in {"schema", "gate", "peer"} : Advance(l, pc)
    BY <1>3 DEF Connect, Mark, RequirementConnect
  <2> QED  BY <1>1, <1>2, <2>1 DEF LoadingPcs
<1>4. CASE SchemaGate(t, l) \/ GateDone(t, l)
  <2>1. \E pc \in {"register", "finish", "mark"} : Advance(l, pc)
    BY <1>4, AfterGateTyped DEF SchemaGate, GateDone
  <2> QED  BY <1>1, <1>2, <2>1 DEF LoadingPcs
<1>5. CASE RequirementServed(t, l)
  BY <1>1, <1>5, ServedMoves DEF RequirementServed, IInv, LoadingPcs
<1>6. CASE PeerReturned(t, l) /\ MayContinue(t, l)
  BY <1>1, <1>6, PeerMoves DEF PeerReturned, IInv, LoadingPcs
<1> QED  BY <1>3, <1>4, <1>5, <1>6 DEF Early

\* Every step of an activation is early, ends it, goes to the next provider, or makes it serve.
LEMMA UnitKinds ==
  ASSUME IInv, NEW t \in Thread, NEW l \in Load, UnitStep(t, l)
  PROVE  Early(t, l) \/ Ended(l) \/ Register(t, l) \/ RegisterNothing(t, l) \/ TrackCloser(t, l)
<1>1. CASE Fail(t, l)
  BY <1>1, FailEnds DEF IInv
<1>2. CASE Finish(t, l)
  BY <1>2, FreeTyped DEF Finish, IInv, TypeOK, Ended
<1>3. CASE PeerReturned(t, l)
  BY <1>1, <1>3 DEF PeerReturned, Early
<1> QED  BY <1>1, <1>2, <1>3 DEF UnitStep, Early, ConnectFails, SchemaRejected, MarkConflict, RequirementCyclic,
                                 RegisterRefused

\* Going through the providers puts each where the invariant says.
LEMMA ProvidersSourced ==
  ASSUME IInv, Recorded, [Next]_vars, NEW t \in Thread, NEW l \in Load, SourcedAt(l),
         Register(t, l) \/ RegisterNothing(t, l)
  PROVE  SourcedAt(l)'
<1>1. Moves(l) /\ load'[l].pc = "register" /\ load'[l].reg = load[l].reg + 1 /\ load[l].pc = "register"
      /\ load[l].reg \in Nat /\ load[l].reg <= Len(Served[UnitOf(l)])
  BY ProviderMoves DEF Register, RegisterNothing, Registering, Runs, IInv, TypeOK, Activation
<1>2. UnitOf(l) \in Unit /\ UnitOf(l)' = UnitOf(l) /\ load[l].kind = "binary"
  BY <1>1 DEF IInv, LoadsNamed, UnitOf, Moves, Progress, SchemaDone
<1>3. Served[UnitOf(l)] \in Seq(Key) /\ OriginOf[UnitOf(l)] \in Origin
  BY <1>2, ManifestAssumption
<1> DEFINE n == load[l].reg
<1> SUFFICES ASSUME NEW j \in DOMAIN Served[UnitOf(l)], j < n + 1
             PROVE  origins'[Served[UnitOf(l)][j]] \in {Compiled, OriginOf[UnitOf(l)]}
  BY <1>1, <1>2 DEF SourcedAt, Placed, SourceOf, LoadingPcs
<1>4. Served[UnitOf(l)][j] \in Key
  BY <1>3
<1>5. ASSUME Placed(l, j) PROVE origins'[Served[UnitOf(l)][j]] \in {Compiled, OriginOf[UnitOf(l)]}
  <2>1. origins[Served[UnitOf(l)][j]] # None
    BY <1>3, <1>5, TagAssumption DEF Placed, SourceOf
  <2> QED  BY <1>4, <1>5, <2>1, OriginStays DEF Placed, SourceOf
<1>6. CASE j < n
  BY <1>1, <1>2, <1>5, <1>6 DEF SourcedAt
<1>7. CASE j = n
  <2>1. NextProvider(l) = Served[UnitOf(l)][j]
    BY <1>7 DEF NextProvider
  <2>2. CASE Register(t, l)
    BY <1>4, <2>1, <2>2 DEF Register, SourceOf, IInv, TypeOK
  <2>3. CASE RegisterNothing(t, l)
    BY <1>5, <2>1, <2>3 DEF RegisterNothing, Coexists, Placed
  <2> QED  BY <2>2, <2>3
<1> QED  BY <1>1, <1>3, <1>6, <1>7

\* What has been registered stays with its source, through every step of an activation.
LEMMA UnitSourced ==
  ASSUME IInv, Recorded, Sourced, [Next]_vars, NEW t \in Thread, NEW l \in Load, UnitStep(t, l)
  PROVE  Sourced'
<1>1. ASSUME NEW m \in Load, m # l PROVE SourcedAt(m)'
  BY <1>1, UnitShape, SourcedStays DEF Sourced
<1>2. SourcedAt(l)'
  <2>1. SourcedAt(l)
    BY DEF Sourced
  <2>2. CASE Ended(l)
    BY <2>2 DEF Ended, SourcedAt, LoadingPcs
  <2>3. CASE Early(t, l)
    <3>1. Moves(l) /\ load'[l].reg = load[l].reg /\ load[l].pc \in LoadingPcs \ {"register"}
          /\ load'[l].pc \in LoadingPcs \cup {"finish"}
      BY <2>3, EarlyMoves
    <3>2. UnitOf(l)' = UnitOf(l) /\ UnitOf(l) \in Unit
      BY <3>1 DEF Moves, UnitOf, IInv, LoadsNamed, LoadingPcs
    <3>3. \A j \in DOMAIN Served[UnitOf(l)] : ~(j < 1)
      BY <3>2, ManifestAssumption
    <3> QED  BY <2>1, <3>1, <3>2, <3>3 DEF SourcedAt, Moves, LoadingPcs
  <2>4. CASE Register(t, l) \/ RegisterNothing(t, l)
    BY <2>1, <2>4, ProvidersSourced
  <2>5. CASE TrackCloser(t, l)
    <3>1. load[l].pc = "register" /\ load[l].reg > Len(Served[UnitOf(l)]) /\ UNCHANGED origins
          /\ Moves(l) /\ load'[l].pc = "serving" /\ load[l].reg \in Nat
      BY <2>5, AdvanceMoves DEF TrackCloser, Runs, IInv, TypeOK, Activation, Pcs
    <3>2. UnitOf(l)' = UnitOf(l) /\ UnitOf(l) \in Unit /\ Served[UnitOf(l)] \in Seq(Key)
      BY <3>1, ManifestAssumption DEF Moves, UnitOf, IInv, LoadsNamed
    <3>3. \A j \in DOMAIN Served[UnitOf(l)] : j < load[l].reg
      BY <3>1, <3>2
    <3> QED  BY <2>1, <3>1, <3>2, <3>3 DEF SourcedAt, Moves, Placed, SourceOf, LoadingPcs
  <2> QED  BY <2>2, <2>3, <2>4, <2>5, UnitKinds
<1> QED  BY <1>1, <1>2 DEF Sourced, Load

\* A load that comes to serve was the only one of its source, and nobody served that.
LEMMA UnitApart ==
  ASSUME IInv, NotYet, OneServerPerSource, LoadedApart, NEW t \in Thread, NEW l \in Load, UnitStep(t, l)
  PROVE  NotYet' /\ OneServerPerSource'
<1>1. \A m \in Load : m # l => load'[m] = load[m]
  BY UnitShape
<1>2. CASE TrackCloser(t, l)
  <2>1. load[l].pc = "register" /\ Moves(l) /\ load'[l].pc = "serving"
    BY <1>2, AdvanceMoves DEF TrackCloser, Runs, IInv, Pcs
  <2>2. Loading(l) /\ UnitOf(l)' = UnitOf(l)
    BY <2>1 DEF IInv, Progress, SchemaDone, Loading, LoadingPcs, Moves, UnitOf
  <2>3. \A m \in Load : load[m].pc = "serving" \/ Loading(m) => m = l \/ OriginOf[UnitOf(m)] # OriginOf[UnitOf(l)]
    BY <2>2 DEF NotYet, LoadedApart
  <2>4. NotYet'
    BY <1>1, <2>1, <2>2, <2>3 DEF NotYet, Loading, LoadingPcs, UnitOf, Load
  <2>5. OneServerPerSource'
    BY <1>1, <2>1, <2>2, <2>3 DEF OneServerPerSource, UnitOf, Load
  <2> QED  BY <2>4, <2>5
<1>3. CASE ~TrackCloser(t, l)
  <2>1. load'[l].pc # "serving" /\ (Loading(l)' => Loading(l) /\ UnitOf(l)' = UnitOf(l))
    <3>1. CASE Ended(l)
      BY <3>1 DEF Ended, Loading, LoadingPcs
    <3>2. CASE Early(t, l)
      BY <3>2, EarlyMoves DEF Loading, LoadingPcs, Moves, UnitOf
    <3>3. CASE Register(t, l) \/ RegisterNothing(t, l)
      BY <3>3, ProviderMoves DEF Register, RegisterNothing, Registering, Runs, IInv, Loading, LoadingPcs, Moves, UnitOf
    <3> QED  BY <1>3, <3>1, <3>2, <3>3, UnitKinds
  <2>2. NotYet'
    BY <1>1, <2>1 DEF NotYet, Loading, UnitOf, Load
  <2>3. OneServerPerSource'
    BY <1>1, <2>1 DEF OneServerPerSource, UnitOf, Load
  <2> QED  BY <2>2, <2>3
<1> QED  BY <1>2, <1>3

\* Nothing is loaded whose source somebody serves: pluginAlreadyConnected and the lookup of the
\* baked leg see it.
LEMMA WantedUnserved ==
  ASSUME CopiesAlike, WordProves, BakedServes, IInv, Recorded, Sourced,
         NEW u \in Unit, Wanted(u), NEW l \in Load, load[l].pc = "serving"
  PROVE  OriginOf[UnitOf(l)] # OriginOf[u]
<1> SUFFICES ASSUME OriginOf[UnitOf(l)] = OriginOf[u] PROVE FALSE
  OBVIOUS
<1>1. UnitOf(l) \in Unit /\ load[l].kind = "binary"
  BY DEF IInv, LoadsNamed, Progress, SchemaDone
<1>2. Declared[UnitOf(l)] = Declared[u] /\ Served[UnitOf(l)] = Served[u] /\ OriginOf[u] \in Origin
  BY <1>1, ManifestAssumption DEF CopiesAlike
<1>3. \A k \in Elems(Served[u]) : origins[k] \in {Compiled, OriginOf[u]}
  BY <1>1, <1>2 DEF Sourced, SourcedAt, Placed, SourceOf, Elems
<1>4. Elems(Served[u]) \subseteq Key /\ Elems(Declared[u]) \subseteq Key
  BY ManifestAssumption DEF Elems
<1>5. CASE \E k \in Key : BakedFor[k] = u /\ ~Registered(k)
  <2>1. PICK k \in Key : BakedFor[k] = u /\ ~Registered(k)
    BY <1>5
  <2>2. u # None
    BY TagAssumption
  <2>3. k \in Elems(Served[u])
    BY <2>1, <2>2 DEF BakedServes
  <2>4. origins[k] # None
    BY <1>2, <1>3, <2>3, TagAssumption
  <2> QED  BY <2>1, <2>4 DEF Recorded
<1>6. CASE ~Connected(u)
  <2>1. CASE Elems(Declared[u]) \subseteq CompiledKey
    <3>1. \A k \in Elems(Declared[u]) : origins[k] = Compiled
      BY <1>4, <2>1 DEF Recorded
    <3> QED  BY <1>6, <3>1 DEF Connected, OriginsOf
  <2>2. CASE \E k \in Elems(Declared[u]) \cap Elems(Served[u]) : k \notin CompiledKey
    <3>1. PICK k \in Elems(Declared[u]) \cap Elems(Served[u]) : k \notin CompiledKey
      BY <2>2
    <3>2. origins[k] = OriginOf[u]
      BY <1>3, <1>4, <3>1 DEF Recorded
    <3> QED  BY <1>6, <3>1, <3>2 DEF Connected, OriginsOf
  <2> QED  BY <2>1, <2>2 DEF WordProves
<1> QED  BY <1>5, <1>6 DEF Wanted

\* So a source keeps one server, through every step of a process that loads none twice at a time.
LEMMA NextServerInv ==
  ASSUME CopiesAlike, WordProves, BakedServes
  PROVE  IInv /\ LoadedApart /\ ServerInv /\ [Next]_vars => ServerInv'
<1> SUFFICES ASSUME IInv, LoadedApart, ServerInv, [Next]_vars PROVE ServerInv'
  OBVIOUS
<1>1. Recorded /\ Sourced /\ NotYet /\ OneServerPerSource /\ Recorded'
  BY NextRecorded DEF ServerInv
<1>2. ASSUME UNCHANGED load PROVE ServerInv'
  <2>1. Sourced'
    BY <1>1, <1>2, SourcedStays DEF Sourced, Load
  <2>2. NotYet' /\ OneServerPerSource'
    BY <1>1, <1>2 DEF NotYet, OneServerPerSource, Loading, UnitOf
  <2> QED  BY <1>1, <2>1, <2>2 DEF ServerInv
<1>3. CASE StartsFor
  <2>1. PICK l \in Load, u \in Unit : Begun(l, u)
    BY <1>3, BegunLoad DEF IInv
  <2>2. \A m \in Load : m # l => load'[m] = load[m]
    BY <2>1 DEF Begun
  <2>3. SourcedAt(l)'
    BY <2>1 DEF Begun, SourcedAt
  <2>4. Sourced'
    BY <1>1, <2>2, <2>3, SourcedStays DEF Sourced, Load
  <2>5. load'[l].pc # "serving" /\ UnitOf(l)' = u /\ (Loading(l)' => Wanted(u))
    BY <2>1 DEF Begun, Loading, UnitOf
  <2>6. \A m \in Load : load[m].pc = "serving" /\ Loading(l)' => OriginOf[UnitOf(m)] # OriginOf[u]
    BY <1>1, <2>5, WantedUnserved
  <2>7. NotYet'
    BY <1>1, <2>2, <2>5, <2>6 DEF NotYet, Loading, UnitOf, Load
  <2>8. OneServerPerSource'
    BY <1>1, <2>2, <2>5 DEF OneServerPerSource, UnitOf, Load
  <2> QED  BY <1>1, <2>4, <2>7, <2>8 DEF ServerInv
<1>4. ASSUME NEW t \in Thread, HostCall(t) \/ ConnectStep(t) \/ ScanStep(t) PROVE ServerInv'
  BY <1>2, <1>3, <1>4, StartsWanted
<1>5. ASSUME NEW t \in Thread, NEW l \in Load, UnitStep(t, l) PROVE ServerInv'
  BY <1>1, <1>5, UnitSourced, UnitApart DEF ServerInv
<1>6. CASE FinishDispatch \/ ShutdownHook \/ SignalExit \/ UNCHANGED vars
  BY <1>2, <1>6 DEF FinishDispatch, ShutdownHook, SignalExit, vars
<1> QED  BY <1>4, <1>5, <1>6 DEF Next, Step

LEMMA InitServer == Init => ServerInv
<1> SUFFICES ASSUME Init PROVE ServerInv
  OBVIOUS
<1>1. \A l \in Load : load[l].pc = "free"
  BY FreeTyped DEF Init
<1>2. Recorded
  BY TagAssumption DEF Init, Recorded, Registered
<1> QED  BY <1>1, <1>2 DEF ServerInv, Sourced, SourcedAt, NotYet, OneServerPerSource, LoadingPcs

(***************************************************************************)
(* One goroutine: what nests inside a load is of a lower rank              *)
(***************************************************************************)

\* The units a connect of this identity may load itself.
Reachable(k, ref) == {BakedFor[k]} \cup Referenced((Local \cup {ref}) \cap Unit, {WordOf[k]})

RefOf(r) == IF r.ref # None THEN r.ref ELSE CanonicalRef[r.key]

Ranks == [Unit -> Nat]

\* The closure is not cyclic: connecting what a unit requires reaches units of a lower rank
\* only, copies of a source have one rank, and the compiled-in units of the start-up gate, which
\* any scan may run, are below the baked ones that need a scan.
Descends(rank) ==
  /\ rank \in Ranks
  /\ \A u, v \in Unit : OriginOf[u] = OriginOf[v] => rank[u] = rank[v]
  /\ \A u \in Unit : \A r \in Elems(Requires[u]) : r.key \notin CompiledKey =>
       \A v \in Reachable(r.key, RefOf(r)) \cap Unit : rank[v] < rank[u]
  /\ \A u \in Elems(StartUnits), v \in {BakedFor[k] : k \in Key} \cap Unit :
       Requires[v] # <<>> => rank[u] < rank[v]

\* Plugins with requirements that share an identity are copies, or as good as copies.
SharedAlike(rank) ==
  \A u, v \in Unit :
    Requires[u] # <<>> /\ Requires[v] # <<>> /\ Names(u) \cap Names(v) # {} => rank[u] = rank[v]

\* The units a frame may start an activation of, or is one of.
Span(f) == CASE f.kind = "connect" -> Reachable(f.key, f.ref)
             [] f.kind = "scan"    -> f.todo
             [] f.kind = "once"    -> Elems(StartUnits)
             [] f.kind = "unit"    -> {}

Reach(f, L) == IF f.kind = "unit" THEN {L[f.load].unit} ELSE Span(f)

\* Units that rank below the one frame f loads, if it loads one, or each frame of b.
Beneath(X, f, L, rank) == f.kind = "unit" => \A u \in X \cap Unit : rank[u] < rank[L[f.load].unit]
BeneathAll(X, b, L, rank) == \A j \in DOMAIN b : Beneath(X, b[j], L, rank)

\* Whatever a frame may start ranks below every load it is nested in ...
Ordered(s, L, rank) ==
  \A i, j \in DOMAIN s : i < j => Beneath(Reach(s[i], L), s[j], L, rank)

\* ... and those wait for a requirement.
Waiting(b, L) == \A j \in DOMAIN b : b[j].kind = "unit" => L[b[j].load].pc = "peer"

\* The activations that have frames in b are the same in L and M.
Agree(b, L, M) == \A j \in DOMAIN b : b[j].kind = "unit" => M[b[j].load] = L[b[j].load]

\* A frame on an ordered stack whose reach ranks below everything on it.
LEMMA OrderedPush ==
  ASSUME NEW S, NEW b \in Seq(S), NEW f, NEW L, NEW rank,
         Ordered(b, L, rank), BeneathAll(Reach(f, L), b, L, rank)
  PROVE  Ordered(<<f>> \o b, L, rank)
<1> DEFINE s == <<f>> \o b
<1>1. /\ Len(b) \in Nat /\ DOMAIN b = 1 .. Len(b)
      /\ DOMAIN s = 1 .. Len(b) + 1 /\ s[1] = f /\ \A i \in DOMAIN b : s[i + 1] = b[i]
  BY PushParts
<1> HIDE DEF s
<1> SUFFICES ASSUME NEW i \in DOMAIN s, NEW j \in DOMAIN s, i < j
             PROVE  Beneath(Reach(s[i], L), s[j], L, rank)
  BY DEF Ordered, s
<1>2. j - 1 \in DOMAIN b /\ (j - 1) + 1 = j /\ s[j] = b[j - 1]
  <2>1. j - 1 \in DOMAIN b /\ (j - 1) + 1 = j
    BY <1>1
  <2> QED  BY <1>1, <2>1
<1>3. CASE i = 1
  BY <1>1, <1>2, <1>3 DEF BeneathAll
<1>4. CASE i # 1
  <2>1. i - 1 \in DOMAIN b /\ (i - 1) + 1 = i /\ i - 1 < j - 1
    BY <1>1, <1>4
  <2>2. s[i] = b[i - 1]
    BY <1>1, <2>1
  <2> QED  BY <1>2, <2>1, <2>2 DEF Ordered
<1> QED  BY <1>3, <1>4

\* Two frames on a stack are one on the other.
LEMMA PushTwo ==
  ASSUME NEW S, NEW b \in Seq(S), NEW f, NEW g
  PROVE  LET c == <<f>> \o b IN <<g, f>> \o b = <<g>> \o c /\ Tail(<<g>> \o c) = c /\ c \in Seq(S \cup {f, g})
<1> DEFINE U == S \cup {f, g}
<1>1. DOMAIN b = 1 .. Len(b) /\ Len(b) \in Nat /\ \A i \in 1 .. Len(b) : b[i] \in U
  OBVIOUS
<1>2. b \in Seq(U) /\ f \in U /\ g \in U
  BY <1>1
<1> HIDE DEF U
<1>3. <<f>> \o b \in Seq(U)
  BY <1>2
<1>4. Tail(<<g>> \o (<<f>> \o b)) = <<f>> \o b
  BY <1>2, <1>3
<1>5. <<g, f>> \o b = <<g>> \o (<<f>> \o b)
  BY <1>2
<1> QED  BY <1>3, <1>4, <1>5 DEF U

\* What is below the top of an ordered stack is ordered, and above the top's reach.
LEMMA OrderedPop ==
  ASSUME TypeOK, NEW t \in Thread, ~Idle(t), NEW L, NEW rank, Ordered(stack[t], L, rank)
  PROVE  Ordered(Below(t), L, rank) /\ BeneathAll(Reach(Top(t), L), Below(t), L, rank)
<1>1. /\ Len(Below(t)) \in Nat /\ DOMAIN Below(t) = 1 .. Len(Below(t))
      /\ DOMAIN stack[t] = 1 .. Len(Below(t)) + 1
      /\ stack[t][1] = Top(t)
      /\ \A i \in DOMAIN Below(t) : stack[t][i + 1] = Below(t)[i]
  BY StackParts
<1>2. ASSUME NEW i \in DOMAIN Below(t), NEW j \in DOMAIN Below(t), i < j
      PROVE  Beneath(Reach(Below(t)[i], L), Below(t)[j], L, rank)
  <2>1. i + 1 \in DOMAIN stack[t] /\ j + 1 \in DOMAIN stack[t] /\ i + 1 < j + 1
    BY <1>1, <1>2
  <2>2. stack[t][i + 1] = Below(t)[i] /\ stack[t][j + 1] = Below(t)[j]
    BY <1>1
  <2>3. Beneath(Reach(stack[t][i + 1], L), stack[t][j + 1], L, rank)
    BY <2>1 DEF Ordered
  <2> QED  BY <2>2, <2>3
<1>3. ASSUME NEW j \in DOMAIN Below(t) PROVE Beneath(Reach(Top(t), L), Below(t)[j], L, rank)
  <2>1. 1 \in DOMAIN stack[t] /\ j + 1 \in DOMAIN stack[t] /\ 1 < j + 1
    BY <1>1, <1>3
  <2>2. Beneath(Reach(stack[t][1], L), stack[t][j + 1], L, rank)
    BY <2>1 DEF Ordered
  <2> QED  BY <1>1, <2>2
<1> QED  BY <1>2, <1>3 DEF Ordered, BeneathAll

\* A step that leaves the activations of b alone leaves b ordered and waiting.
LEMMA AgreeKeeps ==
  ASSUME NEW b, NEW L, NEW M, NEW rank, Agree(b, L, M)
  PROVE  /\ Ordered(b, L, rank) => Ordered(b, M, rank)
         /\ Waiting(b, L) => Waiting(b, M)
         /\ \A X : BeneathAll(X, b, L, rank) => BeneathAll(X, b, M, rank)
<1>1. \A j \in DOMAIN b : Reach(b[j], M) = Reach(b[j], L)
  BY DEF Agree, Reach
<1>2. \A X : \A j \in DOMAIN b : Beneath(X, b[j], L, rank) => Beneath(X, b[j], M, rank)
  BY DEF Agree, Beneath
<1>3. Ordered(b, L, rank) => Ordered(b, M, rank)
  BY <1>1, <1>2 DEF Ordered
<1>4. Waiting(b, L) => Waiting(b, M)
  BY DEF Agree, Waiting
<1>5. \A X : BeneathAll(X, b, L, rank) => BeneathAll(X, b, M, rank)
  BY <1>2 DEF BeneathAll
<1> QED  BY <1>3, <1>4, <1>5

\* Fewer units rank below whatever more do.
LEMMA BeneathFewer ==
  ASSUME NEW b, NEW L, NEW rank, NEW X, NEW Y, X \cap Unit \subseteq Y, BeneathAll(Y, b, L, rank)
  PROVE  BeneathAll(X, b, L, rank)
BY DEF BeneathAll, Beneath

OrderedAt(t, rank) ==
  /\ Ordered(stack[t], load, rank)
  /\ ~Idle(t) => Waiting(Below(t), load)

\* The three moves of a stack keep it ordered, if what is called ranks below everything that
\* waits, and a load that calls waits for a requirement.
LEMMA MovesOrdered ==
  ASSUME TypeOK, NEW t \in Thread, ~Idle(t), NEW rank, OrderedAt(t, rank), Agree(Below(t), load, load'),
         \/ stack'[t] = Below(t)
         \/ \E f : stack'[t] = <<f>> \o Below(t) /\ BeneathAll(Reach(f, load'), Below(t), load, rank)
         \/ \E f, g : /\ stack'[t] = <<g, f>> \o Below(t)
                      /\ BeneathAll(Reach(f, load'), Below(t), load, rank)
                      /\ BeneathAll(Reach(g, load'), Below(t), load, rank)
                      /\ Beneath(Reach(g, load'), f, load', rank)
                      /\ f.kind = "unit" => load'[f.load].pc = "peer"
  PROVE  OrderedAt(t, rank)'
<1> DEFINE b == Below(t)
<1>1. b \in Seq(Frame) /\ DOMAIN b = 1 .. Len(b) /\ Len(b) \in Nat
  BY StackParts
<1>2. Ordered(b, load', rank) /\ Waiting(b, load')
      /\ \A X : BeneathAll(X, b, load, rank) => BeneathAll(X, b, load', rank)
  BY OrderedPop, AgreeKeeps DEF OrderedAt
<1>3. ASSUME stack'[t] = b PROVE OrderedAt(t, rank)'
  <2>1. b # <<>> => Waiting(Tail(b), load')
    <3> SUFFICES ASSUME b # <<>>, NEW j \in DOMAIN Tail(b), Tail(b)[j].kind = "unit"
                 PROVE  load'[Tail(b)[j].load].pc = "peer"
      BY DEF Waiting
    <3>1. j + 1 \in DOMAIN b /\ Tail(b)[j] = b[j + 1]
      BY <1>1
    <3> QED  BY <1>2, <3>1 DEF Waiting
  <2> QED  BY <1>2, <1>3, <2>1 DEF OrderedAt, Idle, Below
<1>4. ASSUME NEW f, stack'[t] = <<f>> \o b, BeneathAll(Reach(f, load'), b, load, rank)
      PROVE  OrderedAt(t, rank)'
  <2>1. Ordered(<<f>> \o b, load', rank)
    BY <1>1, <1>2, <1>4, OrderedPush
  <2>2. Tail(<<f>> \o b) = b
    BY <1>1
  <2> QED  BY <1>2, <1>4, <2>1, <2>2 DEF OrderedAt, Below
<1>5. ASSUME NEW f, NEW g, stack'[t] = <<g, f>> \o b,
             BeneathAll(Reach(f, load'), b, load, rank), BeneathAll(Reach(g, load'), b, load, rank),
             Beneath(Reach(g, load'), f, load', rank), f.kind = "unit" => load'[f.load].pc = "peer"
      PROVE  OrderedAt(t, rank)'
  <2> DEFINE c == <<f>> \o b
  <2>1. Ordered(c, load', rank)
    BY <1>1, <1>2, <1>5, OrderedPush
  <2>2. /\ DOMAIN c = 1 .. Len(b) + 1 /\ c[1] = f /\ \A j \in DOMAIN b : c[j + 1] = b[j]
    BY <1>1, PushParts
  <2>3. <<g, f>> \o b = <<g>> \o c /\ Tail(<<g>> \o c) = c /\ c \in Seq(Frame \cup {f, g})
    BY <1>1, PushTwo
  <2> HIDE DEF c
  <2>4. \A j \in DOMAIN c : j = 1 \/ (j - 1 \in DOMAIN b /\ c[j] = b[j - 1])
    <3> SUFFICES ASSUME NEW j \in DOMAIN c, j # 1 PROVE j - 1 \in DOMAIN b /\ c[j] = b[j - 1]
      OBVIOUS
    <3>1. j - 1 \in DOMAIN b /\ (j - 1) + 1 = j
      BY <1>1, <2>2
    <3> QED  BY <2>2, <3>1
  <2>5. BeneathAll(Reach(g, load'), c, load', rank)
    BY <1>2, <1>5, <2>2, <2>4 DEF BeneathAll
  <2>6. Waiting(c, load')
    BY <1>2, <1>5, <2>2, <2>4 DEF Waiting
  <2>7. Ordered(<<g>> \o c, load', rank)
    BY <2>1, <2>3, <2>5, OrderedPush
  <2> QED  BY <1>5, <2>3, <2>6, <2>7 DEF OrderedAt, Below
<1> QED  BY <1>3, <1>4, <1>5

\* A frame of another kind goes on to reach no more than t's top frame does.
Narrows(t, f) == NotUnit(f) /\ Span(f) \cap Unit \subseteq Span(Top(t))

\* The steps of connect, scan and once frames: what they call or start is in their reach, but
\* for the start-up gate.
Descent(t) ==
  \/ UNCHANGED load /\ \E k, ok : Return(t, k, ok)
  \/ UNCHANGED load /\ \E f : Narrows(t, f) /\ Continue(t, f)
  \/ UNCHANGED load /\ \E f, g : /\ Narrows(t, f) /\ Call(t, f, g)
                                 /\ Narrows(t, g) \/ (g = OnceFrame /\ once = "new")
  \/ \E f : \E l \in Load, u \in Unit :
       /\ Narrows(t, f) /\ Call(t, f, UnitFrame(l)) /\ u \in Span(Top(t))
       /\ load[l].pc = "free" /\ load'[l].unit = u /\ \A m \in Load : m # l => load'[m] = load[m]

\* The locals of a frame only come to reach less.
LEMMA LocalsNarrow ==
  ASSUME TypeOK, NEW t \in Thread, ~Idle(t), Top(t).kind \in {"connect", "scan", "once"}
  PROVE  /\ Narrows(t, Top(t))
         /\ Top(t).kind = "connect" =>
              /\ Top(t).key \in Key /\ Span(Top(t)) = Reachable(Top(t).key, Top(t).ref)
              /\ \A leg : Narrows(t, [Top(t) EXCEPT !.leg = leg])
         /\ Top(t).kind = "scan" =>
              /\ Span(Top(t)) = Top(t).todo /\ Narrows(t, [Top(t) EXCEPT !.gated = TRUE])
              /\ \A u : Narrows(t, [Top(t) EXCEPT !.todo = @ \ {u}])
         /\ Top(t).kind = "once" =>
              /\ Span(Top(t)) = Elems(StartUnits) /\ Top(t).next \in Nat \ {0}
              /\ Narrows(t, [Top(t) EXCEPT !.next = @ + 1])
<1>1. CASE Top(t).kind = "connect"
  <2>1. Top(t) \in ConnectFrames
    BY <1>1, LocalsTyped
  <2>2. ASSUME NEW leg
        PROVE  LET f == [Top(t) EXCEPT !.leg = leg] IN f.kind = "connect" /\ f.key = Top(t).key /\ f.ref = Top(t).ref
    BY <2>1 DEF ConnectFrames
  <2>3. Span(Top(t)) = Reachable(Top(t).key, Top(t).ref) /\ \A leg : Span([Top(t) EXCEPT !.leg = leg]) = Span(Top(t))
    BY <1>1, <2>2 DEF Span
  <2> QED  BY <1>1, <2>1, <2>3, KindStays DEF Narrows, ConnectFrames
<1>2. CASE Top(t).kind = "scan"
  <2>1. Top(t) \in ScanFrames
    BY <1>2, LocalsTyped
  <2>2. LET f == [Top(t) EXCEPT !.gated = TRUE] IN f.kind = "scan" /\ f.todo = Top(t).todo
    BY <2>1 DEF ScanFrames
  <2>3. ASSUME NEW u
        PROVE  LET f == [Top(t) EXCEPT !.todo = @ \ {u}] IN f.kind = "scan" /\ f.todo = Top(t).todo \ {u}
    BY <2>1 DEF ScanFrames
  <2>4. /\ Span(Top(t)) = Top(t).todo /\ Span([Top(t) EXCEPT !.gated = TRUE]) = Top(t).todo
        /\ \A u : Span([Top(t) EXCEPT !.todo = @ \ {u}]) = Top(t).todo \ {u}
    BY <1>2, <2>2, <2>3 DEF Span
  <2>5. NotUnit(Top(t)) /\ NotUnit([Top(t) EXCEPT !.gated = TRUE])
    BY <1>2, KindStays
  <2>6. ASSUME NEW u PROVE Narrows(t, [Top(t) EXCEPT !.todo = @ \ {u}])
    <3>1. NotUnit([Top(t) EXCEPT !.todo = @ \ {u}])
      BY <1>2, KindStays
    <3> QED  BY <2>4, <3>1 DEF Narrows
  <2>7. Narrows(t, Top(t)) /\ Narrows(t, [Top(t) EXCEPT !.gated = TRUE])
    BY <2>4, <2>5 DEF Narrows
  <2> QED  BY <1>2, <2>4, <2>6, <2>7
<1>3. CASE Top(t).kind = "once"
  <2>1. Top(t) \in OnceFrames
    BY <1>3, LocalsTyped
  <2>2. [Top(t) EXCEPT !.next = @ + 1].kind = "once"
    BY <2>1 DEF OnceFrames
  <2>3. Span(Top(t)) = Elems(StartUnits) /\ Span([Top(t) EXCEPT !.next = @ + 1]) = Elems(StartUnits)
    BY <1>3, <2>2 DEF Span
  <2> QED  BY <1>3, <2>1, <2>3, KindStays DEF Narrows, OnceFrames
<1> QED  BY <1>1, <1>2, <1>3

\* Every step of a connect descends ...
LEMMA ConnectDescends ==
  ASSUME TypeOK, NEW t \in Thread, ConnectStep(t)
  PROVE  Descent(t)
<1> USE DEF At, Resumes
<1>1. ~Idle(t) /\ Top(t).kind = "connect"
  BY DEF ConnectStep, Resolve, ConnectBaked, NoBaked, BakedDone, Scan, ScanFails, ScanReturned,
         SecondPass, Missing
<1>2. /\ Narrows(t, Top(t)) /\ \A leg : Narrows(t, [Top(t) EXCEPT !.leg = leg])
      /\ Top(t).key \in Key /\ Span(Top(t)) = Reachable(Top(t).key, Top(t).ref)
  BY <1>1, LocalsNarrow
<1>3. CASE ConnectBaked(t)
  <2>1. PICK l \in Load :
          /\ load[l].pc = "free" /\ Begin(l, BakedFor[Top(t).key], "binary", "connect")
          /\ Call(t, [Top(t) EXCEPT !.leg = "afterBaked"], UnitFrame(l))
    BY <1>3 DEF ConnectBaked, Fresh
  <2>2. BakedFor[Top(t).key] \in Unit /\ BakedFor[Top(t).key] \in Span(Top(t))
    BY <1>2, <1>3, ManifestAssumption DEF ConnectBaked, Reachable
  <2>3. load'[l].unit = BakedFor[Top(t).key] /\ \A m \in Load : m # l => load'[m] = load[m]
    BY <2>1 DEF Begin, TypeOK
  <2> QED  BY <1>2, <2>1, <2>2, <2>3 DEF Descent
<1>4. CASE Resolve(t) \/ Missing(t)
  BY <1>4 DEF Resolve, Missing, Descent
<1>5. CASE NoBaked(t) \/ BakedDone(t) \/ ScanFails(t) \/ ScanReturned(t) \/ SecondPass(t)
  <2>1. \/ \E leg : Continue(t, [Top(t) EXCEPT !.leg = leg])
        \/ Continue(t, Top(t))
        \/ \E k, ok : Return(t, k, ok)
    BY <1>5 DEF NoBaked, BakedDone, ScanFails, ScanReturned, SecondPass
  <2>2. UNCHANGED load
    BY <1>5 DEF NoBaked, BakedDone, ScanFails, ScanReturned, SecondPass
  <2> QED  BY <1>2, <2>1, <2>2 DEF Descent
<1>6. CASE Scan(t)
  <2>1. PassCandies(Top(t)) \cap Unit \subseteq Span(Top(t))
    BY <1>2 DEF PassCandies, Referenced, Reachable
  <2>2. Narrows(t, ScanFrame(PassCandies(Top(t))))
    BY <2>1 DEF Narrows, NotUnit, ScanFrame, Span
  <2> QED  BY <1>2, <1>6, <2>2 DEF Scan, Descent
<1> QED  BY <1>3, <1>4, <1>5, <1>6 DEF ConnectStep

\* ... and so does every step of a scan and of the start-up gate.
LEMMA ScanDescends ==
  ASSUME TypeOK, NEW t \in Thread, ScanStep(t)
  PROVE  Descent(t)
<1> USE DEF At, Resumes
<1>1. ~Idle(t) /\ Top(t).kind \in {"scan", "once"}
  BY DEF ScanStep, StartOnce, PassOnce, OnceReturned, GateStartUnit, StartUnitReturned, OnceDone,
         VisitCandy, CandyReturned, ScanDone
<1>2. /\ Narrows(t, Top(t))
      /\ Top(t).kind = "scan" => /\ Span(Top(t)) = Top(t).todo /\ Narrows(t, [Top(t) EXCEPT !.gated = TRUE])
                                 /\ \A u : Narrows(t, [Top(t) EXCEPT !.todo = @ \ {u}])
      /\ Top(t).kind = "once" => /\ Span(Top(t)) = Elems(StartUnits) /\ Top(t).next \in Nat \ {0}
                                 /\ Narrows(t, [Top(t) EXCEPT !.next = @ + 1])
  BY <1>1, LocalsNarrow
<1>3. CASE StartOnce(t)
  BY <1>2, <1>3 DEF StartOnce, Descent
<1>4. CASE PassOnce(t) \/ OnceReturned(t) \/ CandyReturned(t) \/ ScanDone(t) \/ OnceDone(t)
  <2>1. \/ PassOnce(t) /\ Continue(t, [Top(t) EXCEPT !.gated = TRUE])
        \/ Continue(t, Top(t))
        \/ \E k, ok : Return(t, k, ok)
    BY <1>4 DEF PassOnce, OnceReturned, CandyReturned, ScanDone, OnceDone
  <2>2. UNCHANGED load
    BY <1>4 DEF PassOnce, OnceReturned, CandyReturned, ScanDone, OnceDone
  <2> QED  BY <1>2, <2>1, <2>2 DEF PassOnce, Descent
<1>5. CASE StartUnitReturned(t)
  BY <1>2, <1>5 DEF StartUnitReturned, Descent
<1>6. CASE GateStartUnit(t)
  <2> DEFINE u == StartUnits[Top(t).next]
  <2>1. u \in Unit /\ u \in Span(Top(t))
    BY <1>2, <1>6, ManifestAssumption DEF GateStartUnit, Elems
  <2>2. PICK l \in Load : load[l].pc = "free" /\ Begin(l, u, "compiled", "schema") /\ Call(t, Top(t), UnitFrame(l))
    BY <1>6 DEF GateStartUnit, Fresh
  <2> HIDE DEF u
  <2>3. load'[l].unit = u /\ \A m \in Load : m # l => load'[m] = load[m]
    BY <2>2 DEF Begin, TypeOK
  <2> QED  BY <1>2, <2>1, <2>2, <2>3 DEF Descent
<1>7. ASSUME NEW u \in Unit, VisitCandy(t, u) PROVE Descent(t)
  <2> DEFINE rest == [Top(t) EXCEPT !.todo = @ \ {u}]
  <2>1. Narrows(t, rest) /\ u \in Span(Top(t))
    BY <1>2, <1>7 DEF VisitCandy
  <2>2. \/ UNCHANGED load /\ (Continue(t, rest) \/ \E k, ok : Return(t, k, ok))
        \/ \E l \in Load : /\ Fresh(l) /\ Call(t, rest, UnitFrame(l))
                           /\ Begin(l, u, "manifest", "mark") \/ Begin(l, u, "binary", "connect")
    BY <1>7 DEF VisitCandy
  <2> HIDE DEF rest
  <2>3. CASE \E l \in Load : /\ Fresh(l) /\ Call(t, rest, UnitFrame(l))
                             /\ Begin(l, u, "manifest", "mark") \/ Begin(l, u, "binary", "connect")
    <3>1. PICK l \in Load : /\ Fresh(l) /\ Call(t, rest, UnitFrame(l))
                            /\ Begin(l, u, "manifest", "mark") \/ Begin(l, u, "binary", "connect")
      BY <2>3
    <3>2. load[l].pc = "free" /\ load'[l].unit = u /\ \A m \in Load : m # l => load'[m] = load[m]
      BY <3>1 DEF Begin, Fresh, TypeOK
    <3> QED  BY <2>1, <3>1, <3>2 DEF Descent
  <2> QED  BY <2>1, <2>2, <2>3 DEF Descent
<1> QED  BY <1>3, <1>4, <1>5, <1>6, <1>7 DEF ScanStep

\* A step of an activation leaves the stack as it is, returns, or calls a requirement's connect.
LEMMA UnitStacks ==
  ASSUME IInv, NEW t \in Thread, NEW l \in Load, UnitStep(t, l)
  PROVE  /\ ~Idle(t) /\ Top(t) = UnitFrame(l)
         /\ \/ stack' = stack \/ Continue(t, Top(t)) \/ \E k, ok : Return(t, k, ok)
            \/ RequirementConnect(t, l)
<1>1. ~Idle(t) /\ Top(t) = UnitFrame(l)
  <2>1. ~Idle(t) /\ Top(t).kind = "unit" /\ Top(t).load = l
    BY DEF UnitStep, Connect, ConnectFails, SchemaGate, SchemaRejected, Mark, MarkConflict,
           RequirementCyclic, RequirementServed, RequirementConnect, PeerReturned, GateDone, Finish,
           Register, RegisterNothing, RegisterRefused, TrackCloser, Gating, Registering, Runs, At, Resumes
  <2> QED  BY <2>1, OwnFrame DEF IInv
<1>2. CASE Connect(t, l) \/ SchemaGate(t, l) \/ Mark(t, l) \/ RequirementServed(t, l) \/ GateDone(t, l)
           \/ Register(t, l) \/ RegisterNothing(t, l)
  BY <1>1, <1>2 DEF Connect, SchemaGate, Mark, RequirementServed, GateDone, Register, RegisterNothing, control
<1>3. CASE ConnectFails(t, l) \/ SchemaRejected(t, l) \/ MarkConflict(t, l) \/ RequirementCyclic(t, l)
           \/ RegisterRefused(t, l) \/ Finish(t, l) \/ TrackCloser(t, l)
  BY <1>1, <1>3 DEF ConnectFails, SchemaRejected, MarkConflict, RequirementCyclic, RegisterRefused, Finish,
                    TrackCloser, Fail
<1>4. CASE PeerReturned(t, l)
  BY <1>1, <1>4 DEF PeerReturned, Fail
<1> QED  BY <1>1, <1>2, <1>3, <1>4 DEF UnitStep

\* Before the start-up gate has run: no scan has got past it, so what was loaded is baked.
Ungated(f) == f.kind # "once" /\ (f.kind = "scan" => ~f.gated)

BeforeGate ==
  once = "new" =>
    /\ \A l \in Load : load[l].pc # "free" => \E k \in Key : BakedFor[k] = UnitOf(l)
    /\ \A t \in Thread : \A i \in DOMAIN stack[t] : Ungated(stack[t][i])

\* A step that puts ungated frames on what is below leaves all frames ungated.
LEMMA UngatedKept ==
  ASSUME TypeOK, NEW t \in Thread, ~Idle(t), NEW d \in {0, 1, 2}, Kept(t, d),
         \A p \in Thread : \A i \in DOMAIN stack[p] : Ungated(stack[p][i]),
         \A j \in 1 .. d : Ungated(stack'[t][j])
  PROVE  \A p \in Thread : \A i \in DOMAIN stack'[p] : Ungated(stack'[p][i])
<1> SUFFICES ASSUME NEW p \in Thread, NEW i \in DOMAIN stack'[p] PROVE Ungated(stack'[p][i])
  OBVIOUS
<1>1. /\ DOMAIN Below(t) = 1 .. Len(Below(t)) /\ Len(Below(t)) \in Nat
      /\ DOMAIN stack[t] = 1 .. Len(Below(t)) + 1
      /\ \A j \in DOMAIN Below(t) : stack[t][j + 1] = Below(t)[j]
  BY StackParts
<1>2. CASE p # t
  BY <1>2 DEF Kept
<1>3. CASE p = t /\ i <= d
  <2>1. i \in 1 .. d
    BY <1>1, <1>3 DEF Kept
  <2> QED  BY <1>3, <2>1
<1>4. CASE p = t /\ ~(i <= d)
  <2>1. i - d \in DOMAIN Below(t) /\ (i - d) + d = i /\ (i - d) + 1 \in DOMAIN stack[t]
    BY <1>1, <1>4 DEF Kept
  <2>2. stack'[t][i] = stack[t][(i - d) + 1]
    BY <1>1, <2>1 DEF Kept
  <2> QED  BY <1>4, <2>1, <2>2
<1> QED  BY <1>2, <1>3, <1>4

\* So do the steps that take no other frame on.
LEMMA UngatedMoves ==
  ASSUME TypeOK, NEW t \in Thread, ~Idle(t),
         \A p \in Thread : \A i \in DOMAIN stack[p] : Ungated(stack[p][i]),
         \/ \E k, ok : Return(t, k, ok)
         \/ \E f : Ungated(f) /\ Continue(t, f)
         \/ \E f, g : Ungated(f) /\ Ungated(g) /\ Call(t, f, g)
  PROVE  \A p \in Thread : \A i \in DOMAIN stack'[p] : Ungated(stack'[p][i])
<1>1. \E d \in {0, 1, 2} : Kept(t, d) /\ \A j \in 1 .. d : Ungated(stack'[t][j])
  <2>1. ASSUME NEW k, NEW ok, Return(t, k, ok)
        PROVE  \E d \in {0, 1, 2} : Kept(t, d) /\ \A j \in 1 .. d : Ungated(stack'[t][j])
    BY <2>1, ReturnKept
  <2>2. ASSUME NEW f, Ungated(f), Continue(t, f)
        PROVE  \E d \in {0, 1, 2} : Kept(t, d) /\ \A j \in 1 .. d : Ungated(stack'[t][j])
    <3>1. Kept(t, 1) /\ stack'[t][1] = f /\ \A j \in 1 .. 1 : j = 1
      BY <2>2, ContinueKept
    <3> QED  BY <2>2, <3>1
  <2>3. ASSUME NEW f, NEW g, Ungated(f), Ungated(g), Call(t, f, g)
        PROVE  \E d \in {0, 1, 2} : Kept(t, d) /\ \A j \in 1 .. d : Ungated(stack'[t][j])
    <3>1. Kept(t, 2) /\ stack'[t][1] = g /\ stack'[t][2] = f
      BY <2>3, CallKept
    <3>2. \A j \in 1 .. 2 : j = 1 \/ j = 2
      OBVIOUS
    <3> QED  BY <2>3, <3>1, <3>2
  <2> QED  BY <2>1, <2>2, <2>3
<1> QED  BY <1>1, UngatedKept

LEMMA NextBeforeGate == IInv /\ BeforeGate /\ [Next]_vars => BeforeGate'
<1> SUFFICES ASSUME IInv, BeforeGate, [Next]_vars, once' = "new"
             PROVE  /\ \A l \in Load : load'[l].pc # "free" => \E k \in Key : BakedFor[k] = load'[l].unit
                    /\ \A t \in Thread : \A i \in DOMAIN stack'[t] : Ungated(stack'[t][i])
  BY DEF BeforeGate, Load, UnitOf, Ungated
<1>1. once = "new"
  <2>1. ASSUME NEW t \in Thread, HostCall(t) \/ ConnectStep(t) PROVE UNCHANGED once
    BY <2>1 DEF HostCall, CallConnect, CallLoad, ConnectStep, Resolve, ConnectBaked, NoBaked, BakedDone, Scan,
                ScanFails, ScanReturned, SecondPass, Missing
  <2>2. ASSUME NEW t \in Thread, ScanStep(t) PROVE once' = once \/ once' # "new"
    BY <2>2 DEF ScanStep, StartOnce, PassOnce, OnceReturned, GateStartUnit, StartUnitReturned, OnceDone, VisitCandy,
                CandyReturned, ScanDone
  <2>3. ASSUME NEW t \in Thread, NEW l \in Load, UnitStep(t, l) PROVE UNCHANGED once
    BY <2>3 DEF UnitStep, Connect, ConnectFails, SchemaGate, SchemaRejected, Mark, MarkConflict, RequirementCyclic,
                RequirementServed, RequirementConnect, PeerReturned, GateDone, Finish, Register, RegisterNothing,
                RegisterRefused, TrackCloser
  <2>4. CASE FinishDispatch \/ ShutdownHook \/ SignalExit \/ UNCHANGED vars
    BY <2>4 DEF FinishDispatch, ShutdownHook, SignalExit, vars
  <2> QED  BY <2>1, <2>2, <2>3, <2>4 DEF Next, Step
<1>2. /\ \A l \in Load : load[l].pc # "free" => \E k \in Key : BakedFor[k] = load[l].unit
      /\ \A t \in Thread : \A i \in DOMAIN stack[t] : Ungated(stack[t][i])
  BY <1>1 DEF BeforeGate, UnitOf
<1>3. ASSUME NEW t \in Thread, ~Idle(t) PROVE Ungated(Top(t))
  <2>1. stack[t][1] = Top(t) /\ 1 \in DOMAIN stack[t]
    BY <1>3, StackParts DEF IInv
  <2> QED  BY <1>2, <2>1
<1>4. \A k, ref, todo, l : Ungated(ConnectFrame(k, ref)) /\ Ungated(ScanFrame(todo)) /\ Ungated(UnitFrame(l))
  BY DEF Ungated, ConnectFrame, ScanFrame, UnitFrame
<1>5. ASSUME NEW t \in Thread, HostCall(t)
      PROVE  UNCHANGED load /\ \A p \in Thread : \A i \in DOMAIN stack'[p] : Ungated(stack'[p][i])
  <2>1. PICK f : Ungated(f) /\ stack' = [stack EXCEPT ![t] = <<f>>]
    BY <1>4, <1>5 DEF HostCall, CallConnect, CallLoad
  <2>2. stack'[t] = <<f>> /\ \A p \in Thread : p # t => stack'[p] = stack[p]
    BY <2>1 DEF IInv, TypeOK
  <2>3. \A i \in DOMAIN stack'[t] : stack'[t][i] = f
    BY <2>2
  <2>4. UNCHANGED load
    BY <1>5 DEF HostCall, CallConnect, CallLoad
  <2> QED  BY <1>2, <2>1, <2>2, <2>3, <2>4
<1>6. ASSUME NEW t \in Thread, ConnectStep(t)
      PROVE  /\ \A l \in Load : load'[l].pc # "free" => \E k \in Key : BakedFor[k] = load'[l].unit
             /\ \A p \in Thread : \A i \in DOMAIN stack'[p] : Ungated(stack'[p][i])
  <2>1. ~Idle(t) /\ Top(t).kind = "connect"
    BY <1>6 DEF ConnectStep, Resolve, ConnectBaked, NoBaked, BakedDone, Scan, ScanFails, ScanReturned,
                SecondPass, Missing, At, Resumes
  <2>2. Top(t) \in ConnectFrames
    BY <2>1, LocalsTyped DEF IInv
  <2>3. Ungated(Top(t)) /\ \A leg : Ungated([Top(t) EXCEPT !.leg = leg])
    BY <2>2 DEF ConnectFrames, Ungated
  <2>4. CASE ConnectBaked(t)
    <3>1. PICK l \in Load :
            /\ Begin(l, BakedFor[Top(t).key], "binary", "connect")
            /\ Call(t, [Top(t) EXCEPT !.leg = "afterBaked"], UnitFrame(l))
      BY <2>4 DEF ConnectBaked
    <3>2. load'[l].unit = BakedFor[Top(t).key] /\ \A m \in Load : m # l => load'[m] = load[m]
      BY <3>1 DEF Begin, IInv, TypeOK
    <3>3. Top(t).key \in Key
      BY <2>2 DEF ConnectFrames
    <3>4. \A m \in Load : load'[m].pc # "free" => \E k \in Key : BakedFor[k] = load'[m].unit
      BY <1>2, <3>2, <3>3
    <3> QED  BY <1>2, <1>4, <2>1, <2>3, <3>1, <3>4, UngatedMoves DEF IInv
  <2>5. CASE ~ConnectBaked(t)
    <3>1. UNCHANGED load
      BY <1>6, <2>5 DEF ConnectStep, Resolve, NoBaked, BakedDone, Scan, ScanFails, ScanReturned, SecondPass, Missing
    <3>2. \/ \E k, ok : Return(t, k, ok)
          \/ Continue(t, Top(t)) \/ \E leg : Continue(t, [Top(t) EXCEPT !.leg = leg])
          \/ \E leg, todo : Call(t, [Top(t) EXCEPT !.leg = leg], ScanFrame(todo))
      BY <1>6, <2>5 DEF ConnectStep, Resolve, NoBaked, BakedDone, Scan, ScanFails, ScanReturned, SecondPass, Missing
    <3>3. \/ \E k, ok : Return(t, k, ok)
          \/ \E f : Ungated(f) /\ Continue(t, f)
          \/ \E f, g : Ungated(f) /\ Ungated(g) /\ Call(t, f, g)
      BY <1>4, <2>3, <3>2
    <3> QED  BY <1>2, <2>1, <3>1, <3>3, UngatedMoves DEF IInv
  <2> QED  BY <2>4, <2>5
<1>7. ASSUME NEW t \in Thread, ScanStep(t)
      PROVE  UNCHANGED load /\ \A p \in Thread : \A i \in DOMAIN stack'[p] : Ungated(stack'[p][i])
  <2>1. ~Idle(t) => Ungated(Top(t))
    BY <1>3
  <2>2. OnceReturned(t)
    BY <1>1, <1>7, <2>1 DEF ScanStep, StartOnce, PassOnce, GateStartUnit, StartUnitReturned, OnceDone, VisitCandy,
                            CandyReturned, ScanDone, Ungated, At, Resumes
  <2>3. ~Idle(t) /\ Continue(t, Top(t)) /\ UNCHANGED load
    BY <2>2 DEF OnceReturned, Resumes
  <2> QED  BY <1>2, <2>1, <2>3, UngatedMoves DEF IInv
<1>8. ASSUME NEW t \in Thread, NEW l \in Load, UnitStep(t, l)
      PROVE  /\ \A m \in Load : load'[m].pc # "free" => \E k \in Key : BakedFor[k] = load'[m].unit
             /\ \A p \in Thread : \A i \in DOMAIN stack'[p] : Ungated(stack'[p][i])
  <2>1. /\ ~Idle(t) /\ Top(t) = UnitFrame(l)
        /\ \/ stack' = stack \/ Continue(t, Top(t)) \/ \E k, ok : Return(t, k, ok)
           \/ RequirementConnect(t, l)
    BY <1>8, UnitStacks
  <2>2. RequirementConnect(t, l) => \E k, ref : Call(t, Top(t), ConnectFrame(k, ref))
    BY DEF RequirementConnect
  <2>3. Ungated(Top(t))
    BY <1>4, <2>1
  <2>4. stack' # stack => \/ \E k, ok : Return(t, k, ok)
                          \/ \E f : Ungated(f) /\ Continue(t, f)
                          \/ \E f, g : Ungated(f) /\ Ungated(g) /\ Call(t, f, g)
    BY <1>4, <2>1, <2>2, <2>3
  <2>5. \A p \in Thread : \A i \in DOMAIN stack'[p] : Ungated(stack'[p][i])
    <3>1. CASE stack' = stack
      BY <1>2, <3>1
    <3>2. CASE stack' # stack
      BY <1>2, <2>1, <2>4, <3>2, UngatedMoves DEF IInv
    <3> QED  BY <3>1, <3>2
  <2>6. /\ load[l].pc # "free" /\ \A m \in Load : m # l => load'[m] = load[m]
        /\ load'[l].pc = "free" \/ load'[l].unit = load[l].unit
    BY <1>8, UnitShape DEF Moves, Ended
  <2> QED  BY <1>2, <2>5, <2>6
<1>9. CASE FinishDispatch \/ ShutdownHook \/ SignalExit \/ UNCHANGED vars
  BY <1>2, <1>9 DEF FinishDispatch, ShutdownHook, SignalExit, control, vars
<1> QED  BY <1>2, <1>5, <1>6, <1>7, <1>8, <1>9 DEF Next, Step

OrderedInv(rank) == \A t \in Thread : OrderedAt(t, rank)

\* An activation with a frame is running, for a unit.
LEMMA StackUnits ==
  ASSUME IInv, Held, NEW t \in Thread, NEW i \in DOMAIN stack[t], stack[t][i].kind = "unit"
  PROVE  /\ stack[t][i] = UnitFrame(stack[t][i].load) /\ stack[t][i].load \in Load
         /\ load[stack[t][i].load].unit \in Unit /\ load[stack[t][i].load].pc \notin Over
<1> DEFINE l == stack[t][i].load
<1>1. stack[t][i] \in Frame
  BY DEF IInv, TypeOK
<1>2. stack[t][i] = UnitFrame(l) /\ l \in Load
  BY <1>1 DEF Frame, ConnectFrames, ScanFrames, OnceFrames, UnitFrames, UnitFrame
<1>3. load[l].pc \notin Over
  BY <1>2 DEF Held, HeldAt, OnStack
<1>4. load[l].unit \in Unit
  BY <1>2, <1>3 DEF IInv, LoadsNamed, UnitOf, Over
<1> QED  BY <1>2, <1>3, <1>4

\* The same of a frame below the top.
LEMMA BelowUnits ==
  ASSUME IInv, Held, NEW t \in Thread, ~Idle(t), NEW j \in DOMAIN Below(t), Below(t)[j].kind = "unit"
  PROVE  /\ Below(t)[j] = UnitFrame(Below(t)[j].load) /\ Below(t)[j].load \in Load
         /\ load[Below(t)[j].load].unit \in Unit /\ load[Below(t)[j].load].pc \notin Over
         /\ Top(t) # Below(t)[j]
<1>1. j + 1 \in DOMAIN stack[t] /\ stack[t][j + 1] = Below(t)[j] /\ stack[t][1] = Top(t) /\ 1 \in DOMAIN stack[t]
      /\ j + 1 # 1
  BY StackParts DEF IInv
<1>2. Below(t)[j] = UnitFrame(Below(t)[j].load) /\ Below(t)[j].load \in Load
      /\ load[Below(t)[j].load].unit \in Unit /\ load[Below(t)[j].load].pc \notin Over
  BY <1>1, StackUnits
<1>3. Top(t) # Below(t)[j]
  BY <1>1, <1>2 DEF Held, HeldAt, OneFrame
<1> QED  BY <1>2, <1>3

\* A step that begins an activation, or runs one of t's, is about none that waits.
LEMMA OwnStep ==
  ASSUME IInv, Held, NEW t \in Thread, ~Idle(t), NEW l \in Load, load[l].pc = "free" \/ Top(t) = UnitFrame(l),
         \A m \in Load : m # l => load'[m] = load[m]
  PROVE  /\ Agree(Below(t), load, load')
         /\ \A p \in Thread : p # t => Agree(stack[p], load, load')
<1>1. ASSUME NEW j \in DOMAIN Below(t), Below(t)[j].kind = "unit"
      PROVE  load'[Below(t)[j].load] = load[Below(t)[j].load]
  <2>1. Below(t)[j].load # l
    BY <1>1, BelowUnits DEF Over
  <2> QED  BY <1>1, <2>1, BelowUnits
<1>2. ASSUME NEW p \in Thread, p # t, NEW i \in DOMAIN stack[p], stack[p][i].kind = "unit"
      PROVE  load'[stack[p][i].load] = load[stack[p][i].load]
  <2>1. stack[p][i] = UnitFrame(stack[p][i].load) /\ stack[p][i].load \in Load /\ load[stack[p][i].load].pc \notin Over
    BY <1>2, StackUnits
  <2>2. Top(t) = stack[t][1] /\ 1 \in DOMAIN stack[t]
    BY StackParts DEF IInv
  <2>3. stack[p][i].load # l
    BY <1>2, <2>1, <2>2 DEF Over, Held, HeldAt, OneFrame
  <2> QED  BY <2>1, <2>3
<1> QED  BY <1>1, <1>2 DEF Agree

\* Nothing changes for a goroutine that is not at work.
LEMMA OthersOrdered ==
  ASSUME TypeOK, NEW p \in Thread, NEW rank, OrderedAt(p, rank), stack'[p] = stack[p],
         Agree(stack[p], load, load')
  PROVE  OrderedAt(p, rank)'
<1>1. Ordered(stack[p], load', rank)
  BY AgreeKeeps DEF OrderedAt
<1>2. ASSUME ~Idle(p) PROVE Waiting(Below(p), load')
  <2>1. Agree(Below(p), load, load')
    BY <1>2, StackParts DEF Agree
  <2> QED  BY <1>2, <2>1, AgreeKeeps DEF OrderedAt
<1> QED  BY <1>1, <1>2 DEF OrderedAt, Idle, Below

\* What stands in a frame of another kind, seen from the loads it is nested in.
LEMMA NarrowsBeneath ==
  ASSUME TypeOK, NEW t \in Thread, ~Idle(t), NEW rank, OrderedAt(t, rank), NotUnit(Top(t)), NEW f, Narrows(t, f)
  PROVE  BeneathAll(Reach(f, load'), Below(t), load, rank)
<1>1. BeneathAll(Span(Top(t)), Below(t), load, rank)
  BY OrderedPop DEF OrderedAt, Reach, NotUnit
<1>2. Reach(f, load') \cap Unit \subseteq Span(Top(t))
  BY DEF Narrows, NotUnit, Reach
<1> QED  BY <1>1, <1>2, BeneathFewer

\* The start-up gate ranks below every load it may run inside.
LEMMA GateBeneath ==
  ASSUME NEW rank, Descends(rank), IInv, Held, GatesNeeded, BeforeGate, once = "new",
         NEW t \in Thread, ~Idle(t), Waiting(Below(t), load)
  PROVE  BeneathAll(Reach(OnceFrame, load'), Below(t), load, rank)
<1>1. Reach(OnceFrame, load') = Elems(StartUnits)
  BY DEF Reach, OnceFrame, Span
<1> SUFFICES ASSUME NEW j \in DOMAIN Below(t), Below(t)[j].kind = "unit", NEW u \in Elems(StartUnits) \cap Unit
             PROVE  rank[u] < rank[load[Below(t)[j].load].unit]
  BY <1>1 DEF BeneathAll, Beneath
<1> DEFINE m == Below(t)[j].load
<1>2. m \in Load /\ load[m].unit \in Unit /\ load[m].pc \notin Over
  BY BelowUnits
<1>3. load[m].pc = "peer"
  BY DEF Waiting
<1>4. Requires[load[m].unit] # <<>>
  BY <1>2, <1>3 DEF GatesNeeded, UnitOf
<1>5. \E k \in Key : BakedFor[k] = load[m].unit
  BY <1>2 DEF BeforeGate, UnitOf, Over
<1> QED  BY <1>2, <1>4, <1>5 DEF Descends

\* Every step of a connect, a scan or the start-up gate keeps the order.
LEMMA DescentOrdered ==
  ASSUME NEW rank, Descends(rank), IInv, Held, GatesNeeded, BeforeGate, OrderedInv(rank),
         NEW t \in Thread, ~Idle(t), NotUnit(Top(t)), Descent(t)
  PROVE  OrderedInv(rank)'
<1>1. TypeOK /\ OrderedAt(t, rank) /\ Waiting(Below(t), load)
  BY DEF IInv, OrderedInv, OrderedAt
<1>2. \A p \in Thread : p # t => stack'[p] = stack[p]
  BY <1>1 DEF Descent, Return, Continue, Replace, Call, TypeOK
<1>3. /\ Agree(Below(t), load, load')
      /\ \A p \in Thread : p # t => Agree(stack[p], load, load')
  <2>1. CASE UNCHANGED load
    BY <2>1 DEF Agree
  <2>2. CASE load' # load
    <3>1. PICK l \in Load : load[l].pc = "free" /\ \A m \in Load : m # l => load'[m] = load[m]
      BY <2>2 DEF Descent
    <3> QED  BY <3>1, OwnStep
  <2> QED  BY <2>1, <2>2
<1>4. \A p \in Thread : p # t => OrderedAt(p, rank)'
  BY <1>1, <1>2, <1>3, OthersOrdered DEF OrderedInv
<1>5. ASSUME NEW f, Narrows(t, f)
      PROVE  BeneathAll(Reach(f, load'), Below(t), load, rank) /\ f.kind # "unit" /\ \A X : Beneath(X, f, load', rank)
  BY <1>1, <1>5, NarrowsBeneath DEF Narrows, NotUnit, Beneath
<1>6. ASSUME NEW k, NEW ok, Return(t, k, ok) PROVE OrderedAt(t, rank)'
  <2>1. stack'[t] = Below(t)
    BY <1>1, <1>6 DEF Return, TypeOK
  <2> QED  BY <1>1, <1>3, <2>1, MovesOrdered
<1>7. ASSUME NEW f, Narrows(t, f), Continue(t, f) PROVE OrderedAt(t, rank)'
  <2>1. stack'[t] = <<f>> \o Below(t)
    BY <1>1, <1>7 DEF Continue, Replace, TypeOK
  <2> QED  BY <1>1, <1>3, <1>5, <1>7, <2>1, MovesOrdered
<1>8. ASSUME NEW f, NEW g, Narrows(t, f), Call(t, f, g), BeneathAll(Reach(g, load'), Below(t), load, rank)
      PROVE  OrderedAt(t, rank)'
  <2>1. stack'[t] = <<g, f>> \o Below(t)
    BY <1>1, <1>8 DEF Call, TypeOK
  <2> QED  BY <1>1, <1>3, <1>5, <1>8, <2>1, MovesOrdered
<1>9. ASSUME NEW f, NEW g, Narrows(t, f), Call(t, f, g), Narrows(t, g) \/ (g = OnceFrame /\ once = "new")
      PROVE  OrderedAt(t, rank)'
  BY <1>1, <1>5, <1>8, <1>9, GateBeneath
<1>10. ASSUME NEW f, NEW l \in Load, NEW u \in Unit, Narrows(t, f), Call(t, f, UnitFrame(l)), u \in Span(Top(t)),
              load'[l].unit = u
       PROVE  OrderedAt(t, rank)'
  <2>1. Reach(UnitFrame(l), load') = {u}
    BY <1>10 DEF Reach, UnitFrame
  <2>2. BeneathAll(Span(Top(t)), Below(t), load, rank)
    BY <1>1, OrderedPop DEF OrderedAt, Reach, NotUnit
  <2>3. BeneathAll(Reach(UnitFrame(l), load'), Below(t), load, rank)
    BY <1>10, <2>1, <2>2, BeneathFewer
  <2> QED  BY <1>8, <1>10, <2>3
<1>11. OrderedAt(t, rank)'
  BY <1>6, <1>7, <1>9, <1>10 DEF Descent
<1> QED  BY <1>4, <1>11 DEF OrderedInv

\* What a requirement's connect reaches ranks below the load that requires it.
LEMMA RequirementBeneath ==
  ASSUME NEW rank, Descends(rank), IInv, Recorded, NEW t \in Thread, NEW l \in Load, RequirementConnect(t, l)
  PROVE  \E k, ref : /\ Call(t, Top(t), ConnectFrame(k, ref)) /\ load[l].unit \in Unit
                     /\ \A v \in Reachable(k, ref) \cap Unit : rank[v] < rank[load[l].unit]
<1> DEFINE u == load[l].unit
           r == Requires[u][load[l].req]
<1>1. u \in Unit /\ load[l].req \in DOMAIN Requires[u] /\ r \in Requirement
  <2>1. load[l].pc = "gate" /\ ~Passed(l)
    BY DEF RequirementConnect, Gating, Runs
  <2>2. u \in Unit /\ load[l].req \in Nat \ {0}
    BY <2>1 DEF IInv, LoadsNamed, UnitOf, TypeOK, Activation
  <2>3. Requires[u] \in Seq(Requirement)
    BY <2>2, ManifestAssumption
  <2>4. load[l].req <= Len(Requires[u]) /\ Len(Requires[u]) \in Nat
    BY <2>1, <2>2, <2>3 DEF Passed, UnitOf
  <2> QED  BY <2>2, <2>3, <2>4
<1>2. r \in Elems(Requires[u]) /\ r.key \in Key
  BY <1>1 DEF Elems, Requirement
<1>3. ~Registered(r.key) /\ Call(t, Top(t), ConnectFrame(r.key, RefOf(r)))
  BY DEF RequirementConnect, Required, UnitOf, RefOf
<1>4. r.key \notin CompiledKey
  BY <1>2, <1>3, TagAssumption DEF Recorded
<1> HIDE DEF r
<1>5. \A v \in Reachable(r.key, RefOf(r)) \cap Unit : rank[v] < rank[u]
  BY <1>1, <1>2, <1>4 DEF Descends
<1> QED  BY <1>1, <1>3, <1>5

\* Every step of an activation keeps the order.
LEMMA UnitOrdered ==
  ASSUME NEW rank, Descends(rank), IInv, Held, Recorded, OrderedInv(rank),
         NEW t \in Thread, NEW l \in Load, UnitStep(t, l)
  PROVE  OrderedInv(rank)'
<1>1. TypeOK /\ ~Idle(t) /\ Top(t) = UnitFrame(l) /\ OrderedAt(t, rank)
  BY UnitStacks DEF IInv, OrderedInv
<1>2. \/ stack' = stack \/ Continue(t, Top(t)) \/ (\E k, ok : Return(t, k, ok))
      \/ RequirementConnect(t, l)
  BY UnitStacks
<1>3. \A p \in Thread : p # t => stack'[p] = stack[p]
  BY <1>1, <1>2 DEF RequirementConnect, Return, Continue, Replace, Call, TypeOK
<1>4. (\A m \in Load : m # l => load'[m] = load[m]) /\ (Moves(l) \/ Ended(l))
  BY UnitShape
<1>5. Agree(Below(t), load, load') /\ \A p \in Thread : p # t => Agree(stack[p], load, load')
  BY <1>1, <1>4, OwnStep
<1>6. \A p \in Thread : p # t => OrderedAt(p, rank)'
  BY <1>1, <1>3, <1>5, OthersOrdered DEF OrderedInv
<1>7. BeneathAll({load[l].unit}, Below(t), load, rank)
  <2>1. Reach(Top(t), load) = {load[l].unit}
    BY <1>1 DEF Reach, UnitFrame
  <2> QED  BY <1>1, <2>1, OrderedPop DEF OrderedAt
<1>8. CASE \E k, ok : Return(t, k, ok)
  <2>1. stack'[t] = Below(t)
    BY <1>1, <1>8 DEF Return, TypeOK
  <2> QED  BY <1>1, <1>5, <1>6, <2>1, MovesOrdered DEF OrderedInv
<1>9. CASE Moves(l) /\ (stack' = stack \/ Continue(t, Top(t)))
  <2>1. stack'[t] = <<Top(t)>> \o Below(t)
    <3>1. stack[t] = <<Top(t)>> \o Below(t)
      BY <1>1 DEF Top, Below, Idle, TypeOK
    <3> QED  BY <1>1, <1>9, <3>1 DEF Continue, Replace, TypeOK
  <2>2. Reach(Top(t), load') = {load[l].unit}
    BY <1>1, <1>9 DEF Reach, UnitFrame, Moves
  <2> QED  BY <1>1, <1>5, <1>6, <1>7, <2>1, <2>2, MovesOrdered DEF OrderedInv
<1>10. CASE RequirementConnect(t, l)
  <2>1. PICK k, ref : /\ Call(t, Top(t), ConnectFrame(k, ref)) /\ load[l].unit \in Unit
                      /\ \A v \in Reachable(k, ref) \cap Unit : rank[v] < rank[load[l].unit]
    BY <1>10, RequirementBeneath
  <2> DEFINE g == ConnectFrame(k, ref)
             X == Reachable(k, ref)
  <2>2. Reach(g, load') = X
    BY DEF Reach, Span, ConnectFrame
  <2>3. stack'[t] = <<g, Top(t)>> \o Below(t)
    BY <1>1, <2>1 DEF Call, TypeOK
  <2>4. load'[l].unit = load[l].unit /\ load'[l].pc = "peer"
    BY <1>1, <1>10, AdvanceMoves DEF RequirementConnect, Pcs, Moves
  <2>5. Reach(Top(t), load') = {load[l].unit} /\ Top(t).load = l
    BY <1>1, <2>4 DEF Reach, UnitFrame
  <2>6. Beneath(X, Top(t), load', rank)
    BY <2>1, <2>4, <2>5 DEF Beneath
  <2> HIDE DEF X
  <2>7. BeneathAll(X, Below(t), load, rank)
    <3> SUFFICES ASSUME NEW j \in DOMAIN Below(t), Below(t)[j].kind = "unit", NEW v \in X \cap Unit
                 PROVE  rank[v] < rank[load[Below(t)[j].load].unit]
      BY DEF BeneathAll, Beneath
    <3> DEFINE w == load[Below(t)[j].load].unit
    <3>1. w \in Unit
      BY <1>1, BelowUnits
    <3>2. rank[load[l].unit] < rank[w]
      BY <1>7, <2>1 DEF BeneathAll, Beneath
    <3>3. rank[v] < rank[load[l].unit]
      BY <2>1 DEF X
    <3>4. rank[v] \in Nat /\ rank[load[l].unit] \in Nat /\ rank[w] \in Nat
      BY <2>1, <3>1 DEF Descends, Ranks
    <3> HIDE DEF w
    <3>5. rank[v] < rank[w]
      BY <3>2, <3>3, <3>4
    <3> QED  BY <3>5 DEF w
  <2> HIDE DEF g
  <2>8. OrderedAt(t, rank)'
    BY <1>1, <1>5, <1>7, <2>2, <2>3, <2>4, <2>5, <2>6, <2>7, MovesOrdered
  <2> QED  BY <1>6, <2>8 DEF OrderedInv
<1>11. CASE Ended(l) /\ ~(\E k, ok : Return(t, k, ok))
  <2>1. ASSUME NEW pc \in Pcs \ {"free", "failed"}, Advance(l, pc) PROVE FALSE
    BY <1>1, <1>11, <2>1, AdvanceMoves DEF Ended
  <2>2. CASE Connect(t, l) \/ SchemaGate(t, l) \/ Mark(t, l) \/ RequirementConnect(t, l) \/ GateDone(t, l)
    <3>1. \E pc \in Pcs \ {"free", "failed"} : Advance(l, pc)
      BY <2>2 DEF Connect, SchemaGate, Mark, RequirementConnect, GateDone, AfterGate, Pcs
    <3> QED  BY <2>1, <3>1
  <2>3. CASE RequirementServed(t, l)
    BY <1>1, <1>11, <2>3, ServedMoves DEF RequirementServed, Gating, Runs, Ended
  <2>4. CASE PeerReturned(t, l)
    BY <1>1, <1>11, <2>4, PeerMoves DEF PeerReturned, Fail, Ended
  <2>5. CASE Register(t, l) \/ RegisterNothing(t, l)
    BY <1>1, <1>11, <2>5, ProviderMoves DEF Register, RegisterNothing, Registering, Runs, Ended
  <2>6. CASE ConnectFails(t, l) \/ SchemaRejected(t, l) \/ MarkConflict(t, l) \/ RequirementCyclic(t, l)
             \/ RegisterRefused(t, l) \/ Finish(t, l) \/ TrackCloser(t, l)
    BY <1>11, <2>6 DEF ConnectFails, SchemaRejected, MarkConflict, RequirementCyclic, RegisterRefused, Finish,
                       TrackCloser, Fail
  <2> QED  BY <2>2, <2>3, <2>4, <2>5, <2>6 DEF UnitStep
<1> QED  BY <1>2, <1>4, <1>8, <1>9, <1>10, <1>11

\* All that the order rests on.
NestedInv(rank) == Held /\ Recorded /\ GatesNeeded /\ BeforeGate /\ OrderedInv(rank)

LEMMA InitNested == ASSUME NEW rank PROVE Init => NestedInv(rank)
<1> SUFFICES ASSUME Init PROVE NestedInv(rank)
  OBVIOUS
<1>1. Held
  BY InitHeld
<1>2. \A l \in Load : load[l].pc = "free"
  BY FreeTyped DEF Init
<1>3. Recorded
  BY TagAssumption DEF Init, Recorded, Registered
<1>4. \A t \in Thread : stack[t] = <<>>
  BY DEF Init
<1> QED  BY <1>1, <1>2, <1>3, <1>4 DEF NestedInv, GatesNeeded, BeforeGate, OrderedInv, OrderedAt, Ordered, Idle

\* What nests in a load ranks below it, through every step and on any number of goroutines.
LEMMA NextNested ==
  ASSUME NEW rank, Descends(rank)
  PROVE  IInv /\ NestedInv(rank) /\ [Next]_vars => NestedInv(rank)'
<1> SUFFICES ASSUME IInv, NestedInv(rank), [Next]_vars PROVE OrderedInv(rank)'
  BY NextHeld, NextRecorded, NextGates, NextBeforeGate DEF NestedInv
<1>1. Held /\ Recorded /\ GatesNeeded /\ BeforeGate /\ OrderedInv(rank)
  BY DEF NestedInv
<1>2. ASSUME NEW t \in Thread, HostCall(t) PROVE OrderedInv(rank)'
  <2>1. UNCHANGED load
    BY <1>2 DEF HostCall, CallConnect, CallLoad
  <2>2. PICK f : stack'[t] = <<f>> /\ f.kind # "unit" /\ \A p \in Thread : p # t => stack'[p] = stack[p]
    <3>1. \A k \in Key : ConnectFrame(k, CanonicalRef[k]).kind # "unit"
      BY DEF ConnectFrame
    <3>2. \A words \in SUBSET Word : ScanFrame(Referenced(Local, words)).kind # "unit"
      BY DEF ScanFrame
    <3>3. PICK f : stack' = [stack EXCEPT ![t] = <<f>>] /\ f.kind # "unit"
      <4> HIDE DEF ConnectFrame, ScanFrame
      <4> QED  BY <1>2, <3>1, <3>2 DEF HostCall, CallConnect, CallLoad
    <3> QED  BY <3>3 DEF IInv, TypeOK
  <2>3. OrderedAt(t, rank)'
    <3>1. \A i, j \in DOMAIN stack'[t] : ~(i < j)
      BY <2>2
    <3>2. Tail(stack'[t]) = <<>>
      BY <2>2
    <3> QED  BY <3>1, <3>2 DEF OrderedAt, Ordered, Below, Waiting
  <2>4. ASSUME NEW p \in Thread, p # t PROVE OrderedAt(p, rank)'
    BY <1>1, <2>1, <2>2, <2>4, OthersOrdered DEF OrderedInv, IInv, Agree
  <2> QED  BY <2>3, <2>4 DEF OrderedInv
<1>3. ASSUME NEW t \in Thread, ConnectStep(t) PROVE OrderedInv(rank)'
  BY <1>1, <1>3, ConnectStacks, ConnectDescends, DescentOrdered DEF IInv
<1>4. ASSUME NEW t \in Thread, ScanStep(t) PROVE OrderedInv(rank)'
  BY <1>1, <1>4, ScanStacks, ScanDescends, DescentOrdered DEF IInv
<1>5. ASSUME NEW t \in Thread, NEW l \in Load, UnitStep(t, l) PROVE OrderedInv(rank)'
  BY <1>1, <1>5, UnitOrdered
<1>6. CASE FinishDispatch \/ ShutdownHook \/ SignalExit \/ UNCHANGED vars
  <2>1. UNCHANGED <<load, stack>>
    BY <1>6 DEF FinishDispatch, ShutdownHook, SignalExit, control, vars
  <2> QED  BY <1>1, <2>1 DEF OrderedInv, OrderedAt, Idle, Below
<1> QED  BY <1>2, <1>3, <1>4, <1>5, <1>6 DEF Next, Step

\* Two activations that run on one goroutine have different ranks.
LEMMA RunningApart ==
  ASSUME NEW only, Thread = {only}, NEW rank, Descends(rank), IInv, NestedInv(rank),
         NEW l \in Load, NEW m \in Load, l # m, load[l].pc \notin Over, load[m].pc \notin Over
  PROVE  rank[UnitOf(l)] # rank[UnitOf(m)]
<1>1. Held /\ OrderedAt(only, rank)
  BY DEF NestedInv, OrderedInv
<1>2. OnStack(only, l) /\ OnStack(only, m)
  BY <1>1 DEF Held, HeldAt
<1>3. PICK i \in DOMAIN stack[only] : stack[only][i] = UnitFrame(l)
  BY <1>2 DEF OnStack
<1>4. PICK j \in DOMAIN stack[only] : stack[only][j] = UnitFrame(m)
  BY <1>2 DEF OnStack
<1>5. UnitOf(l) \in Unit /\ UnitOf(m) \in Unit /\ rank[UnitOf(l)] \in Nat /\ rank[UnitOf(m)] \in Nat
  BY DEF IInv, LoadsNamed, Over, Descends, Ranks
<1>6. i # j /\ i \in Nat /\ j \in Nat
  <2>1. UnitFrame(l) # UnitFrame(m)
    BY DEF UnitFrame
  <2>2. stack[only] \in Seq(Frame)
    BY DEF IInv, TypeOK
  <2> QED  BY <1>3, <1>4, <2>1, <2>2
<1>7. \A a \in Load : UnitFrame(a).kind = "unit" /\ UnitFrame(a).load = a
  BY DEF UnitFrame
<1>8. CASE i < j
  <2>1. Beneath(Reach(stack[only][i], load), stack[only][j], load, rank)
    BY <1>1, <1>8 DEF OrderedAt, Ordered
  <2>2. Reach(stack[only][i], load) = {UnitOf(l)}
    BY <1>3, <1>7 DEF Reach, UnitOf
  <2> QED  BY <1>4, <1>5, <1>7, <2>1, <2>2 DEF Beneath, UnitOf
<1>9. CASE j < i
  <2>1. Beneath(Reach(stack[only][j], load), stack[only][i], load, rank)
    BY <1>1, <1>9 DEF OrderedAt, Ordered
  <2>2. Reach(stack[only][j], load) = {UnitOf(m)}
    BY <1>4, <1>7 DEF Reach, UnitOf
  <2> QED  BY <1>3, <1>5, <1>7, <2>1, <2>2 DEF Beneath, UnitOf
<1> QED  BY <1>6, <1>8, <1>9

\* On one goroutine a closure that is not cyclic never loads a source inside its own load, so
\* each source has one server: whatever fails, in whatever order candies are visited, and
\* wherever the start-up gate comes to run.
THEOREM OneGoroutineServesOnce ==
  ASSUME NEW only, Thread = {only}, NEW rank, Descends(rank), CopiesAlike, WordProves, BakedServes
  PROVE  Spec => []OneServerPerSource
<1>1. IInv /\ NestedInv(rank) => LoadedApart
  <2> SUFFICES ASSUME IInv, NestedInv(rank), NEW l \in Load, NEW m \in Load, Loading(l), Loading(m),
                      OriginOf[UnitOf(l)] = OriginOf[UnitOf(m)], l # m
               PROVE  FALSE
    BY DEF LoadedApart
  <2>1. load[l].pc \notin Over /\ load[m].pc \notin Over
    BY DEF Loading, LoadingPcs, Over
  <2>2. UnitOf(l) \in Unit /\ UnitOf(m) \in Unit
    BY <2>1 DEF IInv, LoadsNamed, Over
  <2> QED  BY <2>1, <2>2, RunningApart DEF Descends
<1>2. Init => ServerInv
  BY InitServer
<1>3. ServerInv => OneServerPerSource
  BY DEF ServerInv
<1>4. IInv /\ LoadedApart /\ ServerInv /\ [Next]_vars => ServerInv'
  BY NextServerInv
<1>5. Init => NestedInv(rank)
  BY InitNested
<1>6. IInv /\ NestedInv(rank) /\ [Next]_vars => NestedInv(rank)'
  BY NextNested
<1> QED  BY <1>1, <1>2, <1>3, <1>4, <1>5, <1>6, InitIInv, NextIInv, PTL DEF Spec

\* On one goroutine, in a closure that is not cyclic and whose plugins share identities with
\* their own copies only, no gate finds a mark of another's: none is left behind.
THEOREM OneGoroutineMarks ==
  ASSUME NEW only, Thread = {only}, NEW rank, Descends(rank), SharedAlike(rank)
  PROVE  Spec => []MarksAreActive
<1>1. ASSUME IInv, NestedInv(rank), MarksAreActive, NEW t \in Thread, NEW l \in Load
      PROVE  ~MarkConflict(t, l)
  <2> SUFFICES ASSUME MarkConflict(t, l) PROVE FALSE
    OBVIOUS
  <2>1. GatesNeeded
    BY <1>1 DEF NestedInv
  <2>2. load[l].pc = "mark" /\ UnitOf(l) \in Unit /\ Requires[UnitOf(l)] # <<>>
    BY <1>1, <2>1 DEF MarkConflict, Runs, GatesNeeded, IInv, LoadsNamed
  <2>3. PICK i \in DOMAIN Own(l) : inFlight[Own(l)[i]] \notin {None, UnitOf(l)}
    BY DEF MarkConflict, Conflicts
  <2>4. Own(l)[i] \in Key /\ Own(l)[i] \in Names(UnitOf(l))
    BY <2>2, ManifestAssumption DEF Own, Names, Elems
  <2>5. PICK m \in Load : MarkedBy(Own(l)[i], m)
    BY <1>1, <2>3, <2>4 DEF MarksAreActive, Orphaned
  <2>6. UnitOf(m) \in Unit /\ Requires[UnitOf(m)] # <<>> /\ m # l /\ load[m].pc \in {"gate", "peer"}
    BY <1>1, <2>1, <2>3, <2>5 DEF MarkedBy, GatesNeeded, IInv, LoadsNamed
  <2>7. Own(l)[i] \in Names(UnitOf(m))
    BY <2>5 DEF MarkedBy, Own, Names
  <2>8. rank[UnitOf(l)] = rank[UnitOf(m)]
    BY <2>2, <2>4, <2>6, <2>7 DEF SharedAlike
  <2> QED  BY <1>1, <2>2, <2>6, <2>8, RunningApart DEF Over
<1>2. Init => MarksAreActive
  BY DEF Init, MarksAreActive, Orphaned
<1>3. IInv /\ NestedInv(rank) /\ MarksAreActive /\ [Next]_vars => MarksAreActive'
  BY <1>1, NextMarks DEF MarksAreActive
<1>4. Init => NestedInv(rank)
  BY InitNested
<1>5. IInv /\ NestedInv(rank) /\ [Next]_vars => NestedInv(rank)'
  BY NextNested
<1> QED  BY <1>2, <1>3, <1>4, <1>5, InitIInv, NextIInv, PTL DEF Spec

=============================================================================
