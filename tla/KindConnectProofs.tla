-------------------------- MODULE KindConnectProofs --------------------------
(* Theorems about KindConnect, for every project, every set of words and any failures. *)
EXTENDS KindConnect, TLAPS

(***************************************************************************)
(* Types                                                                   *)
(***************************************************************************)

\* The top of a stack is a frame, and what is below it a stack of frames.
LEMMA FrameTyped ==
  ASSUME TypeOK, NEW t \in Thread, ~Idle(t)
  PROVE  Top(t) \in Frame /\ Below(t) \in Seq(Frame)
<1>1. stack[t] \in Seq(Frame) /\ stack[t] # <<>>
  BY DEF TypeOK, Idle
<1> QED  BY <1>1 DEF Top, Below

\* One or two frames on a stack of frames make a stack of frames.
LEMMA PushTyped ==
  ASSUME NEW S, NEW s \in Seq(S), NEW f \in S, NEW g \in S
  PROVE  <<f>> \o s \in Seq(S) /\ <<f, g>> \o s \in Seq(S)
OBVIOUS

\* A step that rewrites the top of t's stack keeps stacks and results typed.
LEMMA ControlTyped ==
  ASSUME TypeOK, NEW t \in Thread, ~Idle(t),
         NEW f \in Frame, NEW g \in Frame, NEW outcome \in {Done, Failed},
         Continue(t, f) \/ Call(t, f, g) \/ Return(t, outcome)
  PROVE  stack' \in [Thread -> Seq(Frame)] /\ ret' \in [Thread -> [ok : BOOLEAN] \cup {None}]
<1>1. Below(t) \in Seq(Frame) /\ <<f>> \o Below(t) \in Seq(Frame) /\ <<g, f>> \o Below(t) \in Seq(Frame)
  BY FrameTyped, PushTyped
<1>2. outcome \in [ok : BOOLEAN]
  <2>1. Done \in [ok : BOOLEAN]
    BY DEF Done
  <2>2. Failed \in [ok : BOOLEAN]
    BY DEF Failed
  <2> QED  BY <2>1, <2>2
<1>3. stack \in [Thread -> Seq(Frame)] /\ ret \in [Thread -> [ok : BOOLEAN] \cup {None}]
  BY DEF TypeOK
<1>4. CASE Continue(t, f)
  BY <1>1, <1>3, <1>4 DEF Continue
<1>5. CASE Call(t, f, g)
  BY <1>1, <1>3, <1>5 DEF Call
<1>6. CASE Return(t, outcome)
  BY <1>1, <1>2, <1>3, <1>6 DEF Return
<1> QED  BY <1>4, <1>5, <1>6

\* The kind of a frame is the set it belongs to.
LEMMA FrameKinds ==
  ASSUME NEW f \in Frame
  PROVE  /\ f.kind = "load" => f \in LoadFrames
         /\ f.kind = "pass" => f \in PassFrames
         /\ f.kind = "connect" => f \in ConnectFrames
         /\ f.kind = "ready" => f \in ReadyFrames
BY DEF Frame, LoadFrames, PassFrames, ConnectFrames, ReadyFrames

\* The frames calls begin with are frames.
LEMMA NewFrames ==
  /\ \A p \in Dir : LoadFrame(p) \in Frame
  /\ \A d \in Dir, need \in SUBSET Word : PassFrame(d, need) \in Frame
  /\ \A w \in Word : ConnectFrame(w) \in Frame
  /\ ReadyFrame \in Frame
<1>1. ASSUME NEW p \in Dir PROVE LoadFrame(p) \in LoadFrames
  <2>1. Bounds[p] \in Seq(Dir) /\ Bounds[p] # <<>>
    BY ProjectAssumption
  <2>2. 1 \in 1..Len(Bounds[p])
    BY <2>1
  <2> QED  BY <2>2 DEF LoadFrame, LoadFrames
<1>2. ASSUME NEW d \in Dir, NEW need \in SUBSET Word PROVE PassFrame(d, need) \in PassFrames
  BY DEF PassFrame, PassFrames
<1> QED  BY <1>1, <1>2 DEF Frame, ConnectFrame, ConnectFrames, ReadyFrame, ReadyFrames

\* A load is at one of its boundaries.
LEMMA BoundaryTyped ==
  ASSUME TypeOK, NEW t \in Thread, Top(t) \in LoadFrames
  PROVE  Boundary(t) \in Dir
<1>1. Top(t).dir \in Dir /\ Top(t).at \in 1..Len(Bounds[Top(t).dir])
  BY DEF LoadFrames
<1>2. Bounds[Top(t).dir] \in Seq(Dir)
  BY <1>1, ProjectAssumption
<1> QED  BY <1>1, <1>2 DEF Boundary

\* The locals of a load stay typed as it advances.
LEMMA LoadMoves ==
  ASSUME NEW f \in LoadFrames,
         NEW pc \in {"prescan", "guard", "need", "parse", "decode"}
  PROVE  /\ [f EXCEPT !.pc = pc] \in Frame
         /\ \A todo \in SUBSET Word : [f EXCEPT !.pc = pc, !.todo = todo] \in Frame
BY DEF Frame, LoadFrames

\* The locals of a pass, likewise.
LEMMA PassMoves ==
  ASSUME NEW f \in PassFrames,
         NEW pc \in {"config", "scan", "candies", "baked", "clear"}
  PROVE  /\ [f EXCEPT !.pc = pc] \in Frame
         /\ \A todo \in SUBSET f.need : [f EXCEPT !.pc = pc, !.todo = todo] \in Frame
BY DEF Frame, PassFrames

\* What a step may do to the words and guards, typed.
DataTypes ==
  /\ registered \subseteq Word /\ declared \subseteq Word
  /\ cause \in [Word -> Dir \cup {Silent, None}]
  /\ passing \in BOOLEAN /\ loading \in BOOLEAN /\ cached \in {"new", "running", "done"}
  /\ calls \in [Thread -> 0..MaxCalls]

\* Control: t's top frame goes on, calls or returns, all of it typed.
Moves(t) ==
  \E f, g \in Frame, outcome \in {Done, Failed} :
    Continue(t, f) \/ Call(t, f, g) \/ Return(t, outcome)

\* Typed control and typed data make a typed state.
LEMMA MovesTyped ==
  ASSUME TypeOK, NEW t \in Thread, ~Idle(t), Moves(t), DataTypes'
  PROVE  TypeOK'
<1>1. stack' \in [Thread -> Seq(Frame)] /\ ret' \in [Thread -> [ok : BOOLEAN] \cup {None}]
  BY ControlTyped DEF Moves
<1> QED  BY <1>1 DEF DataTypes, TypeOK

\* A step that changes the control only keeps the data typed.
LEMMA DataKept ==
  ASSUME TypeOK, UNCHANGED <<words, passing, readiness, calls>>
  PROVE  DataTypes'
BY DEF TypeOK, DataTypes, words, readiness

\* A host call starts with one typed frame.
LEMMA HostCallTyped ==
  ASSUME TypeOK, NEW t \in Thread, HostCall(t)
  PROVE  TypeOK'
<1>1. ASSUME NEW f \in Frame, stack' = [stack EXCEPT ![t] = <<f>>], ret' = [ret EXCEPT ![t] = None],
             calls[t] < MaxCalls, calls' = [calls EXCEPT ![t] = @ + 1],
             UNCHANGED <<words, passing, readiness>>
      PROVE  TypeOK'
  <2>1. <<f>> \in Seq(Frame)
    BY <1>1
  <2>2. calls[t] + 1 \in 0..MaxCalls
    BY <1>1, ProjectAssumption DEF TypeOK
  <2> QED  BY <1>1, <2>1, <2>2 DEF TypeOK, words, readiness
<1>2. CASE CallReadiness(t)
  BY <1>1, <1>2, NewFrames DEF CallReadiness
<1>3. ASSUME NEW p \in Dir, CallLoad(t, p) PROVE TypeOK'
  BY <1>1, <1>3, NewFrames DEF CallLoad
<1> QED  BY <1>2, <1>3 DEF HostCall

\* The steps of a load keep the types.
LEMMA LoadTyped ==
  ASSUME TypeOK, NEW t \in Thread, LoadStep(t)
  PROVE  TypeOK'
<1>1. ~Idle(t) /\ Top(t) \in LoadFrames
  <2>1. ~Idle(t) /\ Top(t).kind = "load"
    BY DEF LoadStep, Prescan, Guard, NothingMissing, StartPass, PassReturned, Parse, Decode,
           Lookup, DeferOrSkip, LoadDone, LoadFails, At, Resumes
  <2> QED  BY <2>1, FrameTyped, FrameKinds
<1>2. Boundary(t) \in Dir
  BY <1>1, BoundaryTyped
<1> DEFINE f == Top(t)
<1>3. f \in Frame
  BY <1>1 DEF Frame
<1>4. CASE Prescan(t)
  <2>1. Moves(t)
    BY <1>1, <1>3, <1>4, LoadMoves DEF Prescan, Step, Moves
  <2>2. DataTypes'
    BY <1>2, <1>4, ProjectAssumption DEF Prescan, TypeOK, DataTypes, readiness
  <2> QED  BY <1>1, <2>1, <2>2, MovesTyped
<1>5. CASE Guard(t)
  <2>1. Moves(t)
    BY <1>1, <1>3, <1>5, LoadMoves DEF Guard, Step, Moves
  <2> QED  BY <1>1, <1>5, <2>1, MovesTyped, DataKept DEF Guard
<1>6. CASE NothingMissing(t)
  <2>1. Moves(t)
    BY <1>1, <1>3, <1>6, LoadMoves DEF NothingMissing, Step, Moves
  <2> QED  BY <1>1, <1>6, <2>1, MovesTyped, DataKept DEF NothingMissing
<1>7. CASE StartPass(t)
  <2>1. Missing \in SUBSET Word
    BY DEF Missing, TypeOK
  <2>2. PassFrame(Boundary(t), Missing) \in Frame
    BY <1>2, <2>1, NewFrames
  <2>3. Moves(t)
    BY <1>1, <1>7, <2>2, LoadMoves DEF StartPass, Moves
  <2>4. DataTypes'
    BY <1>7 DEF StartPass, TypeOK, DataTypes, words, readiness
  <2> QED  BY <1>1, <2>3, <2>4, MovesTyped
<1>8. CASE PassReturned(t)
  <2>1. Moves(t)
    BY <1>3, <1>8 DEF PassReturned, Moves
  <2> QED  BY <1>1, <1>8, <2>1, MovesTyped, DataKept DEF PassReturned
<1>9. CASE Parse(t)
  <2> DEFINE todo == f.todo \cup Nodes[Boundary(t)]
  <2>1. todo \in SUBSET Word
    BY <1>1, <1>2, ProjectAssumption DEF LoadFrames
  <2>2. [f EXCEPT !.pc = "decode", !.todo = todo] \in Frame
    BY <1>1, <2>1, LoadMoves
  <2>3. f.at < Len(Bounds[f.dir]) => [f EXCEPT !.at = @ + 1, !.pc = "prescan", !.todo = todo] \in Frame
    <3> SUFFICES ASSUME f.at < Len(Bounds[f.dir])
                 PROVE  [f EXCEPT !.at = @ + 1, !.pc = "prescan", !.todo = todo] \in LoadFrames
      BY DEF Frame
    <3>1. f.at \in Nat /\ f.at \in 1..Len(Bounds[f.dir]) /\ Bounds[f.dir] \in Seq(Dir)
      BY <1>1, ProjectAssumption DEF LoadFrames
    <3>2. f.at + 1 \in Nat /\ f.at + 1 \in 1..Len(Bounds[f.dir])
      BY <3>1
    <3> HIDE DEF todo
    <3> QED  BY <1>1, <2>1, <3>2 DEF LoadFrames
  <2>4. Moves(t)
    BY <1>3, <1>9, <2>2, <2>3 DEF Parse, Moves
  <2> QED  BY <1>1, <1>9, <2>4, MovesTyped, DataKept DEF Parse
<1>10. CASE Decode(t)
  <2>1. \A w : [f EXCEPT !.todo = @ \ {w}] \in Frame
    BY <1>1 DEF Frame, LoadFrames
  <2>2. Moves(t)
    BY <1>3, <1>10, <2>1 DEF Decode, Moves
  <2> QED  BY <1>1, <1>10, <2>2, MovesTyped, DataKept DEF Decode
<1>11. CASE Lookup(t)
  <2>1. \A w \in f.todo : [f EXCEPT !.todo = @ \ {w}, !.node = w, !.pc = "missing"] \in Frame
    BY <1>1 DEF Frame, LoadFrames
  <2>2. Moves(t)
    BY <1>3, <1>11, <2>1 DEF Lookup, Moves
  <2> QED  BY <1>1, <1>11, <2>2, MovesTyped, DataKept DEF Lookup
<1>12. CASE DeferOrSkip(t)
  <2>1. f.node \in Word
    BY <1>1, <1>12 DEF DeferOrSkip, At, LoadFrames
  <2>2. [f EXCEPT !.deferred = @ \cup {f.node}, !.node = None, !.pc = "decode"] \in Frame
    BY <1>1, <2>1 DEF Frame, LoadFrames
  <2>3. [word |-> f.node, why |-> cause[f.node]] \in Skip
    BY <2>1 DEF Skip, TypeOK
  <2>4. [f EXCEPT !.skipped = @ \cup {[word |-> f.node, why |-> cause[f.node]]},
                  !.node = None, !.pc = "decode"] \in Frame
    BY <1>1, <2>3 DEF Frame, LoadFrames
  <2>5. Moves(t)
    BY <1>3, <1>12, <2>2, <2>4 DEF DeferOrSkip, Moves
  <2> QED  BY <1>1, <1>12, <2>5, MovesTyped, DataKept DEF DeferOrSkip
<1>13. CASE LoadDone(t)
  <2>1. Moves(t)
    BY <1>3, <1>13 DEF LoadDone, Moves
  <2> QED  BY <1>1, <1>13, <2>1, MovesTyped, DataKept DEF LoadDone
<1>14. CASE LoadFails(t)
  <2>1. Moves(t)
    BY <1>3, <1>14 DEF LoadFails, Moves
  <2> QED  BY <1>1, <1>14, <2>1, MovesTyped, DataKept DEF LoadFails
<1> QED  BY <1>4, <1>5, <1>6, <1>7, <1>8, <1>9, <1>10, <1>11, <1>12, <1>13, <1>14 DEF LoadStep

\* A failure of a pass is recorded under a directory, for words.
LEMMA FailureTyped ==
  ASSUME TypeOK, NEW t \in Thread, ~Idle(t), Top(t) \in PassFrames, RecordFailure(t),
         UNCHANGED <<registered, declared, passing, readiness, calls>>
  PROVE  TypeOK'
<1> DEFINE f == Top(t)
<1>1. [f EXCEPT !.pc = "baked", !.todo = @ \cup f.need] \in Frame
  BY DEF Frame, PassFrames
<1>2. f \in Frame
  BY DEF Frame
<1>3. Moves(t)
  BY <1>1, <1>2 DEF RecordFailure, Moves
<1>4. f.dir \in Dir
  BY DEF PassFrames
<1>5. cause' \in [Word -> Dir \cup {Silent, None}]
  BY <1>4 DEF RecordFailure, Record, TypeOK
<1>6. DataTypes'
  BY <1>5 DEF TypeOK, DataTypes, readiness
<1> QED  BY <1>3, <1>6, MovesTyped

\* The steps of a pass keep the types.
LEMMA PassTyped ==
  ASSUME TypeOK, NEW t \in Thread, PassStep(t)
  PROVE  TypeOK'
<1>1. ~Idle(t) /\ Top(t) \in PassFrames
  <2>1. ~Idle(t) /\ Top(t).kind = "pass"
    BY DEF PassStep, PassLoads, PassLoaded, ScanFails, Pick, Picked, CandiesDone, Finalize,
           Clear, At, Resumes
  <2> QED  BY <2>1, FrameTyped, FrameKinds
<1> DEFINE f == Top(t)
<1>2. f \in Frame
  BY <1>1 DEF Frame
<1>3. CASE PassLoads(t)
  <2>1. LoadFrame(f.dir) \in Frame
    BY <1>1, NewFrames DEF PassFrames
  <2>2. Moves(t)
    BY <1>2, <1>3, <2>1 DEF PassLoads, Moves
  <2> QED  BY <1>1, <1>3, <2>2, MovesTyped, DataKept DEF PassLoads
<1>4. CASE PassLoaded(t)
  <2>1. CASE ~ret[t].ok
    BY <1>1, <1>4, <2>1, FailureTyped DEF PassLoaded
  <2>2. CASE ret[t].ok
    <3>1. Wanted(f) \in SUBSET f.need
      BY DEF Wanted
    <3>2. [f EXCEPT !.pc = "scan"] \in Frame /\ [f EXCEPT !.pc = "candies", !.todo = Wanted(f)] \in Frame
      BY <1>1, <3>1, PassMoves
    <3>3. Moves(t)
      BY <1>2, <1>4, <2>2, <3>2 DEF PassLoaded, Moves
    <3>4. UNCHANGED <<words, passing, readiness, calls>>
      BY <1>4, <2>2 DEF PassLoaded, words
    <3> QED  BY <1>1, <3>3, <3>4, MovesTyped, DataKept
  <2> QED  BY <2>1, <2>2
<1>5. CASE ScanFails(t)
  BY <1>1, <1>5, FailureTyped DEF ScanFails
<1>6. CASE Pick(t)
  <2>1. PICK w \in f.todo :
          LET rest == [f EXCEPT !.todo = @ \ {w}]
          IN  Continue(t, rest) \/ Call(t, rest, ConnectFrame(w))
    BY <1>6 DEF Pick
  <2>2. w \in Word
    BY <1>1 DEF PassFrames
  <2>3. [f EXCEPT !.todo = @ \ {w}] \in Frame
    BY <1>1 DEF Frame, PassFrames
  <2>4. Moves(t)
    BY <2>1, <2>2, <2>3, NewFrames DEF Moves
  <2> QED  BY <1>1, <1>6, <2>4, MovesTyped, DataKept DEF Pick
<1>7. CASE Picked(t)
  <2>1. CASE f.pc = "candies" /\ ~ret[t].ok
    BY <1>1, <1>7, <2>1, FailureTyped DEF Picked
  <2>2. CASE ~(f.pc = "candies" /\ ~ret[t].ok)
    <3>1. Moves(t)
      BY <1>2, <1>7, <2>2 DEF Picked, Moves
    <3>2. UNCHANGED <<words, passing, readiness, calls>>
      BY <1>7, <2>2 DEF Picked, words
    <3> QED  BY <1>1, <3>1, <3>2, MovesTyped, DataKept
  <2> QED  BY <2>1, <2>2
<1>8. CASE CandiesDone(t)
  <2>1. f.need \in SUBSET f.need
    OBVIOUS
  <2>2. Moves(t)
    BY <1>1, <1>2, <1>8, <2>1, PassMoves DEF CandiesDone, Moves
  <2> QED  BY <1>1, <1>8, <2>2, MovesTyped, DataKept DEF CandiesDone
<1>9. CASE Finalize(t)
  <2>1. Moves(t)
    BY <1>1, <1>2, <1>9, PassMoves DEF Finalize, Step, Moves
  <2>2. cause' \in [Word -> Dir \cup {Silent, None}]
    BY <1>9 DEF Finalize, TypeOK
  <2>3. DataTypes'
    BY <1>9, <2>2 DEF Finalize, TypeOK, DataTypes, readiness
  <2> QED  BY <1>1, <2>1, <2>3, MovesTyped
<1>10. CASE Clear(t)
  <2>1. Moves(t)
    BY <1>2, <1>10 DEF Clear, Moves
  <2>2. DataTypes'
    BY <1>10 DEF Clear, TypeOK, DataTypes, words, readiness
  <2> QED  BY <1>1, <2>1, <2>2, MovesTyped
<1> QED  BY <1>3, <1>4, <1>5, <1>6, <1>7, <1>8, <1>9, <1>10 DEF PassStep

\* The steps of a connect keep the types.
LEMMA ConnectTyped ==
  ASSUME TypeOK, NEW t \in Thread, ConnectStep(t)
  PROVE  TypeOK'
<1>1. ~Idle(t) /\ Top(t) \in ConnectFrames
  <2>1. ~Idle(t) /\ Top(t).kind = "connect"
    BY DEF ConnectStep, AskReadiness, Connect, ConnectFails, Connecting
  <2> QED  BY <2>1, FrameTyped, FrameKinds
<1>2. Top(t) \in Frame /\ [Top(t) EXCEPT !.ready = TRUE] \in Frame
  BY <1>1 DEF Frame, ConnectFrames
<1>3. CASE AskReadiness(t)
  <2>1. Moves(t)
    BY <1>2, <1>3, NewFrames DEF AskReadiness, Moves
  <2> QED  BY <1>1, <1>3, <2>1, MovesTyped, DataKept DEF AskReadiness
<1>4. CASE Connect(t)
  <2>1. Moves(t)
    BY <1>2, <1>4 DEF Connect, Moves
  <2>2. DataTypes'
    BY <1>1, <1>4 DEF Connect, ConnectFrames, TypeOK, DataTypes, readiness
  <2> QED  BY <1>1, <2>1, <2>2, MovesTyped
<1>5. CASE ConnectFails(t)
  <2>1. Moves(t)
    BY <1>2, <1>5 DEF ConnectFails, Moves
  <2> QED  BY <1>1, <1>5, <2>1, MovesTyped, DataKept DEF ConnectFails
<1> QED  BY <1>3, <1>4, <1>5 DEF ConnectStep

\* The steps of a lookup of the bounds keep the types.
LEMMA ReadyTyped ==
  ASSUME TypeOK, NEW t \in Thread, ReadyStep(t)
  PROVE  TypeOK'
<1>1. ~Idle(t) /\ Top(t) \in ReadyFrames
  <2>1. ~Idle(t) /\ Top(t).kind = "ready"
    BY DEF ReadyStep, TestLoading, Resolve, Resolved, UseCached, At, Resumes
  <2> QED  BY <2>1, FrameTyped, FrameKinds
<1>2. Top(t) \in Frame /\ \A pc \in {"do", "resolved"} : [Top(t) EXCEPT !.pc = pc] \in Frame
  BY <1>1 DEF Frame, ReadyFrames
<1>3. CASE TestLoading(t)
  <2>1. Moves(t)
    BY <1>2, <1>3 DEF TestLoading, Step, Moves
  <2> QED  BY <1>1, <1>3, <2>1, MovesTyped, DataKept DEF TestLoading
<1>4. CASE Resolve(t)
  <2>1. LoadFrame(Root) \in Frame
    BY NewFrames, ProjectAssumption
  <2>2. Moves(t)
    BY <1>2, <1>4, <2>1 DEF Resolve, Moves
  <2>3. DataTypes'
    BY <1>4 DEF Resolve, TypeOK, DataTypes, words
  <2> QED  BY <1>1, <2>2, <2>3, MovesTyped
<1>5. CASE Resolved(t)
  <2>1. Moves(t)
    BY <1>2, <1>5 DEF Resolved, Moves
  <2>2. DataTypes'
    BY <1>5 DEF Resolved, TypeOK, DataTypes, words
  <2> QED  BY <1>1, <2>1, <2>2, MovesTyped
<1>6. CASE UseCached(t)
  <2>1. Moves(t)
    BY <1>2, <1>6 DEF UseCached, Moves
  <2> QED  BY <1>1, <1>6, <2>1, MovesTyped, DataKept DEF UseCached
<1> QED  BY <1>3, <1>4, <1>5, <1>6 DEF ReadyStep

\* A project load, with all it calls, keeps every frame and every word's cause typed.
THEOREM KindTypeCorrectness == Spec => []TypeOK
<1>1. ASSUME Init PROVE TypeOK
  <2>1. stack \in [Thread -> Seq(Frame)]
    BY <1>1 DEF Init
  <2>2. ret \in [Thread -> [ok : BOOLEAN] \cup {None}]
    BY <1>1 DEF Init
  <2>3. calls \in [Thread -> 0..MaxCalls]
    BY <1>1, ProjectAssumption DEF Init
  <2>4. cause \in [Word -> Dir \cup {Silent, None}]
    BY <1>1 DEF Init
  <2>5. registered \subseteq Word /\ declared \subseteq Word
    BY <1>1, ProjectAssumption DEF Init
  <2>6. passing \in BOOLEAN /\ loading \in BOOLEAN /\ cached \in {"new", "running", "done"}
    BY <1>1 DEF Init
  <2> QED  BY <2>1, <2>2, <2>3, <2>4, <2>5, <2>6 DEF TypeOK
<1>2. TypeOK /\ [Next]_vars => TypeOK'
  <2>1. ASSUME TypeOK, NEW t \in Thread, HostCall(t) \/ Run(t) PROVE TypeOK'
    BY <2>1, HostCallTyped, LoadTyped, PassTyped, ConnectTyped, ReadyTyped DEF Run
  <2>2. ASSUME TypeOK, UNCHANGED vars PROVE TypeOK'
    BY <2>2 DEF vars, words, readiness, TypeOK
  <2> QED  BY <2>1, <2>2 DEF Next
<1> QED  BY <1>1, <1>2, PTL DEF Spec

(***************************************************************************)
(* Causes                                                                  *)
(***************************************************************************)

\* A recorded failure names a directory.
LEMMA FailureKeepsCauses ==
  ASSUME TypeOK, NEW t \in Thread, Top(t) \in PassFrames, RecordFailure(t)
  PROVE  KeepsCauses
<1>1. Top(t).dir \in Dir /\ Top(t).dir # None
  BY ProjectAssumption DEF PassFrames
<1>2. \A w \in Word : cause'[w] = IF w \in Top(t).need THEN Top(t).dir ELSE cause[w]
  BY DEF RecordFailure, Record
<1> QED  BY <1>1, <1>2 DEF KeepsCauses

\* The end of a pass erases the causes of registered words only.
LEMMA FinalizeKeepsCauses ==
  ASSUME NEW t \in Thread, Finalize(t)
  PROVE  KeepsCauses
<1>1. registered' = registered
  BY DEF Finalize
<1>2. ASSUME NEW w \in Word, w \notin registered
      PROVE  cause'[w] = IF w \in Top(t).need /\ cause[w] = None THEN Silent ELSE cause[w]
  BY <1>2 DEF Finalize
<1> QED  BY <1>1, <1>2, ProjectAssumption DEF KeepsCauses

\* No step takes a cause from a word that is not served.
LEMMA CausesStep == TypeOK /\ [Next]_vars => KeepsCauses
<1>1. ASSUME UNCHANGED cause PROVE KeepsCauses
  BY <1>1 DEF KeepsCauses
<1> SUFFICES ASSUME TypeOK, NEW t \in Thread, HostCall(t) \/ Run(t) PROVE KeepsCauses
  BY <1>1 DEF Next, vars, words
<1>2. CASE HostCall(t)
  BY <1>1, <1>2 DEF HostCall, CallLoad, CallReadiness, words
<1>3. CASE LoadStep(t)
  <2>1. UNCHANGED cause
    BY <1>3 DEF LoadStep, Prescan, Guard, NothingMissing, StartPass, PassReturned, Parse,
                Decode, Lookup, DeferOrSkip, LoadDone, LoadFails, words
  <2> QED  BY <1>1, <2>1
<1>4. CASE ConnectStep(t)
  BY <1>1, <1>4 DEF ConnectStep, AskReadiness, Connect, ConnectFails, words
<1>5. CASE ReadyStep(t)
  BY <1>1, <1>5 DEF ReadyStep, TestLoading, Resolve, Resolved, UseCached, words
<1>6. CASE PassStep(t)
  <2>1. ASSUME PassLoads(t) \/ Pick(t) \/ CandiesDone(t) \/ Clear(t) PROVE UNCHANGED cause
    BY <2>1 DEF PassLoads, Pick, CandiesDone, Clear, words
  <2>2. CASE Finalize(t)
    BY <2>2, FinalizeKeepsCauses
  <2>3. CASE PassLoaded(t) \/ ScanFails(t) \/ Picked(t)
    <3>1. ~Idle(t) /\ Top(t).kind = "pass"
      BY <2>3 DEF PassLoaded, ScanFails, Picked, At, Resumes
    <3>2. Top(t) \in PassFrames
      BY <3>1, FrameTyped, FrameKinds
    <3>3. RecordFailure(t) \/ UNCHANGED cause
      BY <2>3 DEF PassLoaded, ScanFails, Picked
    <3> QED  BY <1>1, <3>2, <3>3, FailureKeepsCauses
  <2> QED  BY <1>1, <1>6, <2>1, <2>2, <2>3 DEF PassStep
<1> QED  BY <1>2, <1>3, <1>4, <1>5, <1>6 DEF Run

\* A retained failure is erased only by the registration of its word, whatever the number
\* of goroutines, boundaries and nested passes.
THEOREM CausesAreKept == Spec => CauseKept
<1>1. TypeOK /\ [Next]_vars => [KeepsCauses]_vars
  BY CausesStep
<1>2. Spec => [][KeepsCauses]_vars
  BY <1>1, KindTypeCorrectness, PTL DEF Spec
<1> QED  BY <1>2 DEF CauseKept

(***************************************************************************)
(* One goroutine: the flag tells a nested load from an outer one           *)
(***************************************************************************)

PassesIn(s) == {i \in 1..Len(s) : s[i].kind = "pass"}

\* A stack has at most one pass, and one exactly when the flag is up; whatever a load
\* deferred, it deferred above that pass; a load that called waits to parse; and a load that
\* is about to start a pass is in none.
Disciplined(s, flag) ==
  /\ \A i, j \in PassesIn(s) : i = j
  /\ flag = TRUE <=> PassesIn(s) # {}
  /\ \A i \in 1..Len(s) : s[i].kind = "load" /\ s[i].deferred # {} => \E j \in PassesIn(s) : i < j
  /\ \A i \in 2..Len(s) : s[i].kind = "load" => s[i].pc = "parse"
  /\ s # <<>> /\ s[1].kind = "load" /\ s[1].pc = "need" => PassesIn(s) = {}

\* What the three moves of a stack do to its elements.
LEMMA Elements ==
  ASSUME NEW S, NEW s \in Seq(S), s # <<>>, NEW f \in S, NEW g \in S
  PROVE  /\ Len(<<f>> \o Tail(s)) = Len(s) /\ (<<f>> \o Tail(s))[1] = f
         /\ \A i \in 2..Len(s) : (<<f>> \o Tail(s))[i] = s[i]
         /\ Len(<<g, f>> \o Tail(s)) = Len(s) + 1
         /\ (<<g, f>> \o Tail(s))[1] = g /\ (<<g, f>> \o Tail(s))[2] = f
         /\ \A i \in 3..(Len(s) + 1) : (<<g, f>> \o Tail(s))[i] = s[i - 1]
         /\ Len(Tail(s)) = Len(s) - 1
         /\ \A i \in 1..(Len(s) - 1) : Tail(s)[i] = s[i + 1]
OBVIOUS

\* A frame that goes on keeps the discipline when it stays what it is, defers only under a
\* pass, and decides on a pass only outside one.
LEMMA ContinueDisciplined ==
  ASSUME NEW S, NEW s \in Seq(S), s # <<>>, NEW f \in S, NEW flag, Disciplined(s, flag),
         f.kind = s[1].kind,
         f.kind = "load" /\ f.deferred # {} => s[1].deferred # {} \/ flag = TRUE,
         f.kind = "load" /\ f.pc = "need" => flag # TRUE
  PROVE  Disciplined(<<f>> \o Tail(s), flag)
<1> DEFINE n == <<f>> \o Tail(s)
<1>1. Len(s) \in Nat \ {0} /\ Len(n) = Len(s) /\ n[1] = f /\ \A i \in 2..Len(s) : n[i] = s[i]
  BY Elements
<1> HIDE DEF n
<1>2. PassesIn(n) = PassesIn(s)
  BY <1>1 DEF PassesIn
<1>3. \A i \in 1..Len(n) : n[i].kind = "load" /\ n[i].deferred # {} => \E j \in PassesIn(n) : i < j
  <2> SUFFICES ASSUME NEW i \in 1..Len(n), n[i].kind = "load", n[i].deferred # {}
               PROVE  \E j \in PassesIn(n) : i < j
    OBVIOUS
  <2>1. CASE i # 1
    BY <1>1, <1>2, <2>1 DEF Disciplined
  <2>2. CASE i = 1 /\ s[1].deferred # {}
    BY <1>1, <1>2, <2>2 DEF Disciplined
  <2>3. CASE i = 1 /\ flag = TRUE
    <3>1. PICK j \in PassesIn(s) : TRUE
      BY <2>3 DEF Disciplined
    <3>2. j # 1
      BY <1>1, <2>3, <3>1 DEF PassesIn
    <3> QED  BY <1>2, <2>3, <3>1, <3>2 DEF PassesIn
  <2> QED  BY <1>1, <2>1, <2>2, <2>3
<1>4. \A i \in 2..Len(n) : n[i].kind = "load" => n[i].pc = "parse"
  BY <1>1 DEF Disciplined
<1> QED  BY <1>1, <1>2, <1>3, <1>4 DEF Disciplined, n

\* A call keeps it when the caller waits and the callee, unless it is the pass a load
\* outside any pass starts, leaves the flag alone.
LEMMA CallDisciplined ==
  ASSUME NEW S, NEW s \in Seq(S), s # <<>>, NEW f \in S, NEW g \in S, NEW flag, NEW up,
         Disciplined(s, flag), f.kind = s[1].kind,
         f.kind = "load" => f.pc = "parse" /\ f.deferred = s[1].deferred,
         g.kind = "load" => g.deferred = {} /\ g.pc # "need",
         \/ g.kind # "pass" /\ up = flag
         \/ g.kind = "pass" /\ PassesIn(s) = {} /\ up = TRUE
  PROVE  Disciplined(<<g, f>> \o Tail(s), up)
<1> DEFINE n == <<g, f>> \o Tail(s)
<1>1. /\ Len(s) \in Nat \ {0} /\ Len(n) = Len(s) + 1 /\ n[1] = g /\ n[2] = f
      /\ \A i \in 3..Len(n) : n[i] = s[i - 1]
  BY Elements
<1> HIDE DEF n
<1>2. \A i \in 1..Len(s) : n[i + 1].kind = s[i].kind
  BY <1>1
<1>3. \A i \in 1..Len(s) : i + 1 \in PassesIn(n) <=> i \in PassesIn(s)
  BY <1>1, <1>2 DEF PassesIn
<1>4. \A k \in PassesIn(n) : (k = 1 /\ g.kind = "pass") \/ k - 1 \in PassesIn(s)
  <2> SUFFICES ASSUME NEW k \in PassesIn(n), k # 1 PROVE k - 1 \in PassesIn(s)
    BY <1>1 DEF PassesIn
  <2>1. k - 1 \in 1..Len(s) /\ (k - 1) + 1 = k
    BY <1>1 DEF PassesIn
  <2> QED  BY <1>3, <2>1
<1>5. \A i \in 1..Len(n) : n[i].kind = "load" /\ n[i].deferred # {} => \E j \in PassesIn(n) : i < j
  <2> SUFFICES ASSUME NEW i \in 1..Len(n), n[i].kind = "load", n[i].deferred # {}
               PROVE  \E j \in PassesIn(n) : i < j
    OBVIOUS
  <2>1. i # 1 /\ i - 1 \in 1..Len(s)
    BY <1>1
  <2>2. s[i - 1].kind = "load" /\ s[i - 1].deferred # {}
    BY <1>1, <2>1
  <2>3. PICK j \in PassesIn(s) : i - 1 < j
    BY <2>1, <2>2 DEF Disciplined
  <2>4. j + 1 \in PassesIn(n) /\ i < j + 1
    BY <1>3, <2>3 DEF PassesIn
  <2> QED  BY <2>4
<1>6. \A i \in 2..Len(n) : n[i].kind = "load" => n[i].pc = "parse"
  <2> SUFFICES ASSUME NEW i \in 2..Len(n), n[i].kind = "load" PROVE n[i].pc = "parse"
    OBVIOUS
  <2>1. CASE i = 2
    BY <1>1, <2>1
  <2>2. CASE i # 2
    <3>1. n[i] = s[i - 1] /\ i - 1 \in 2..Len(s)
      BY <1>1, <2>2
    <3> QED  BY <3>1 DEF Disciplined
  <2> QED  BY <2>1, <2>2
<1>7. CASE g.kind # "pass" /\ up = flag
  <2>1. \A k \in PassesIn(n) : k - 1 \in PassesIn(s)
    BY <1>4, <1>7
  <2>2. \A k, m \in PassesIn(n) : k = m
    <3> SUFFICES ASSUME NEW k \in PassesIn(n), NEW m \in PassesIn(n) PROVE k = m
      OBVIOUS
    <3>1. k - 1 = m - 1
      BY <2>1 DEF Disciplined
    <3> QED  BY <3>1, <1>1 DEF PassesIn
  <2>3. PassesIn(n) # {} <=> PassesIn(s) # {}
    <3>1. ASSUME NEW i \in PassesIn(s) PROVE i + 1 \in PassesIn(n)
      BY <1>3 DEF PassesIn
    <3> QED  BY <2>1, <3>1
  <2> QED  BY <1>1, <1>5, <1>6, <1>7, <2>2, <2>3 DEF Disciplined, n
<1>8. CASE g.kind = "pass" /\ PassesIn(s) = {} /\ up = TRUE
  <2>1. PassesIn(n) = {1}
    BY <1>1, <1>4, <1>8 DEF PassesIn
  <2> QED  BY <1>1, <1>5, <1>6, <1>8, <2>1 DEF Disciplined, n
<1> QED  BY <1>7, <1>8

\* A return keeps it when the pass, and only the pass, takes the flag down.
LEMMA ReturnDisciplined ==
  ASSUME NEW S, NEW s \in Seq(S), s # <<>>, NEW flag, NEW up, Disciplined(s, flag),
         \/ s[1].kind # "pass" /\ up = flag
         \/ s[1].kind = "pass" /\ up = FALSE
  PROVE  Disciplined(Tail(s), up)
<1> DEFINE n == Tail(s)
<1>1. Len(s) \in Nat \ {0} /\ Len(n) = Len(s) - 1 /\ \A i \in 1..Len(n) : n[i] = s[i + 1]
  BY Elements
<1> HIDE DEF n
<1>2. \A i \in 1..Len(n) : i \in PassesIn(n) <=> i + 1 \in PassesIn(s)
  BY <1>1 DEF PassesIn
<1>3. \A i \in 1..Len(n) : n[i].kind = "load" => n[i].pc = "parse"
  <2> SUFFICES ASSUME NEW i \in 1..Len(n), n[i].kind = "load" PROVE n[i].pc = "parse"
    OBVIOUS
  <2>1. i + 1 \in 2..Len(s) /\ n[i] = s[i + 1]
    BY <1>1
  <2> QED  BY <2>1 DEF Disciplined
<1>4. n # <<>> /\ n[1].kind = "load" => n[1].pc # "need"
  <2> SUFFICES ASSUME n # <<>>, n[1].kind = "load" PROVE n[1].pc # "need"
    OBVIOUS
  <2>1. 1 \in 1..Len(n)
    BY <1>1 DEF n
  <2> QED  BY <1>3, <2>1
<1>5. \A k, m \in PassesIn(n) : k = m
  <2> SUFFICES ASSUME NEW k \in PassesIn(n), NEW m \in PassesIn(n) PROVE k = m
    OBVIOUS
  <2>1. k + 1 = m + 1
    BY <1>2 DEF Disciplined, PassesIn
  <2> QED  BY <2>1, <1>1 DEF PassesIn
<1>6. \A i \in 2..Len(n) : n[i].kind = "load" => n[i].pc = "parse"
  BY <1>1, <1>3
<1>7. \A i \in 1..Len(n) : n[i].kind = "load" /\ n[i].deferred # {} =>
        \E j \in PassesIn(s) : j # 1 /\ i + 1 < j
  <2> SUFFICES ASSUME NEW i \in 1..Len(n), n[i].kind = "load", n[i].deferred # {}
               PROVE  \E j \in PassesIn(s) : j # 1 /\ i + 1 < j
    OBVIOUS
  <2>1. i + 1 \in 1..Len(s) /\ n[i] = s[i + 1]
    BY <1>1
  <2>2. PICK j \in PassesIn(s) : i + 1 < j
    BY <2>1 DEF Disciplined
  <2> QED  BY <2>1, <2>2 DEF PassesIn
<1>8. \A j \in PassesIn(s) : j # 1 => j - 1 \in PassesIn(n)
  <2> SUFFICES ASSUME NEW j \in PassesIn(s), j # 1 PROVE j - 1 \in PassesIn(n)
    OBVIOUS
  <2>1. j - 1 \in 1..Len(n) /\ (j - 1) + 1 = j
    BY <1>1 DEF PassesIn
  <2> QED  BY <1>2, <2>1
<1>9. \A i \in 1..Len(n) : n[i].kind = "load" /\ n[i].deferred # {} => \E j \in PassesIn(n) : i < j
  <2> SUFFICES ASSUME NEW i \in 1..Len(n), n[i].kind = "load", n[i].deferred # {}
               PROVE  \E j \in PassesIn(n) : i < j
    OBVIOUS
  <2>1. PICK j \in PassesIn(s) : j # 1 /\ i + 1 < j
    BY <1>7
  <2>2. j - 1 \in PassesIn(n) /\ i < j - 1
    BY <1>1, <1>8, <2>1 DEF PassesIn
  <2> QED  BY <2>2
<1>10. up = TRUE <=> PassesIn(n) # {}
  <2>1. CASE s[1].kind # "pass" /\ up = flag
    <3>1. \A j \in PassesIn(s) : j # 1
      BY <2>1 DEF PassesIn
    <3>2. ASSUME NEW i \in PassesIn(n) PROVE i + 1 \in PassesIn(s)
      BY <1>2 DEF PassesIn
    <3> QED  BY <1>8, <2>1, <3>1, <3>2 DEF Disciplined
  <2>2. CASE s[1].kind = "pass" /\ up = FALSE
    <3>1. 1 \in PassesIn(s)
      BY <1>1, <2>2 DEF PassesIn
    <3>2. ASSUME NEW i \in PassesIn(n) PROVE FALSE
      <4>1. i \in Nat /\ i # 0 /\ i + 1 \in PassesIn(s)
        BY <1>1, <1>2 DEF PassesIn
      <4>2. i + 1 = 1
        BY <3>1, <4>1 DEF Disciplined
      <4> QED  BY <4>1, <4>2
    <3> QED  BY <2>2, <3>2
  <2> QED  BY <2>1, <2>2
<1> QED  BY <1>4, <1>5, <1>6, <1>9, <1>10 DEF Disciplined, n

\* The moves the three lemmas allow.
Goes(t, f) ==
  /\ Continue(t, f) /\ passing' = passing
  /\ f.kind = Top(t).kind
  /\ f.kind = "load" /\ f.deferred # {} => Top(t).deferred # {} \/ passing = TRUE
  /\ f.kind = "load" /\ f.pc = "need" => passing # TRUE

Calls(t, f, g) ==
  /\ Call(t, f, g)
  /\ f.kind = Top(t).kind
  /\ f.kind = "load" => f.pc = "parse" /\ f.deferred = Top(t).deferred
  /\ g.kind = "load" => g.deferred = {} /\ g.pc # "need"
  /\ \/ g.kind # "pass" /\ passing' = passing
     \/ g.kind = "pass" /\ PassesIn(stack[t]) = {} /\ passing' = TRUE

Returns(t, outcome) ==
  /\ Return(t, outcome)
  /\ \/ Top(t).kind # "pass" /\ passing' = passing
     \/ Top(t).kind = "pass" /\ passing' = FALSE

Proceeds(t) == \E f, g, outcome : Goes(t, f) \/ Calls(t, f, g) \/ Returns(t, outcome)

\* A stack of frames is a stack of a larger set of values.
LEMMA LargerSet ==
  ASSUME NEW S, NEW T, S \subseteq T, NEW s \in Seq(S)
  PROVE  s \in Seq(T)
OBVIOUS

\* Each of the three moves keeps the discipline.
LEMMA ProceedsDisciplined ==
  ASSUME TypeOK, NEW t \in Thread, ~Idle(t), Disciplined(stack[t], passing), Proceeds(t)
  PROVE  Disciplined(stack'[t], passing')
<1> DEFINE s == stack[t]
<1>1. s \in Seq(Frame) /\ s # <<>> /\ Top(t) = s[1] /\ Below(t) = Tail(s)
  BY DEF TypeOK, Idle, Top, Below
<1>2. PICK f, g, outcome : Goes(t, f) \/ Calls(t, f, g) \/ Returns(t, outcome)
  BY DEF Proceeds
<1>3. s \in Seq(Frame \cup {f, g})
  BY <1>1, LargerSet
<1>4. t \in DOMAIN stack
  BY DEF TypeOK
<1>5. CASE Goes(t, f)
  <2>1. stack'[t] = <<f>> \o Tail(s)
    BY <1>1, <1>4, <1>5 DEF Goes, Continue
  <2> QED  BY <1>1, <1>3, <1>5, <2>1, ContinueDisciplined DEF Goes
<1>6. CASE Calls(t, f, g)
  <2>1. stack'[t] = <<g, f>> \o Tail(s)
    BY <1>1, <1>4, <1>6 DEF Calls, Call
  <2>2. /\ f.kind = s[1].kind
        /\ f.kind = "load" => f.pc = "parse" /\ f.deferred = s[1].deferred
        /\ g.kind = "load" => g.deferred = {} /\ g.pc # "need"
        /\ \/ g.kind # "pass" /\ passing' = passing
           \/ g.kind = "pass" /\ PassesIn(s) = {} /\ passing' = TRUE
    BY <1>1, <1>6 DEF Calls
  <2>3. f \in Frame \cup {f, g} /\ g \in Frame \cup {f, g}
    OBVIOUS
  <2> HIDE DEF s
  <2>4. Disciplined(s, passing)
    BY DEF s
  <2>5. Disciplined(<<g, f>> \o Tail(s), passing')
    BY <1>1, <1>3, <2>2, <2>3, <2>4, CallDisciplined
  <2> QED  BY <2>1, <2>5
<1>7. CASE Returns(t, outcome)
  <2>1. stack'[t] = Tail(s)
    BY <1>1, <1>4, <1>7 DEF Returns, Return
  <2> QED  BY <1>1, <1>3, <1>7, <2>1, ReturnDisciplined DEF Returns
<1> QED  BY <1>2, <1>5, <1>6, <1>7

\* The steps of a load: it defers only under the flag, and starts a pass only from "need".
LEMMA LoadProceeds ==
  ASSUME TypeOK, NEW t \in Thread, Disciplined(stack[t], passing), LoadStep(t)
  PROVE  ~Idle(t) /\ Proceeds(t)
<1>1. ~Idle(t) /\ Top(t) \in LoadFrames
  <2>1. ~Idle(t) /\ Top(t).kind = "load"
    BY DEF LoadStep, Prescan, Guard, NothingMissing, StartPass, PassReturned, Parse, Decode,
           Lookup, DeferOrSkip, LoadDone, LoadFails, At, Resumes
  <2> QED  BY <2>1, FrameTyped, FrameKinds
<1> DEFINE f == Top(t)
<1>2. CASE Prescan(t) \/ NothingMissing(t)
  <2>1. PICK pc \in {"guard", "parse"} : Continue(t, [f EXCEPT !.pc = pc]) /\ passing' = passing
    BY <1>2 DEF Prescan, NothingMissing, Step
  <2>2. Goes(t, [f EXCEPT !.pc = pc])
    BY <1>1, <2>1 DEF Goes, LoadFrames
  <2> QED  BY <1>1, <2>2 DEF Proceeds
<1>3. CASE Guard(t)
  <2>1. PICK pc \in {"need", "parse"} :
          Continue(t, [f EXCEPT !.pc = pc]) /\ passing' = passing /\ (pc = "need" => passing # TRUE)
    BY <1>3 DEF Guard, Step, TypeOK
  <2>2. Goes(t, [f EXCEPT !.pc = pc])
    BY <1>1, <2>1 DEF Goes, LoadFrames
  <2> QED  BY <1>1, <2>2 DEF Proceeds
<1>4. CASE StartPass(t)
  <2>1. f = stack[t][1] /\ stack[t] # <<>> /\ f.kind = "load" /\ f.pc = "need"
    BY <1>1, <1>4 DEF StartPass, At, TypeOK, Idle, Top
  <2>2. PassesIn(stack[t]) = {}
    BY <2>1 DEF Disciplined
  <2>3. Calls(t, [f EXCEPT !.pc = "parse"], PassFrame(Boundary(t), Missing))
    BY <1>1, <1>4, <2>2 DEF StartPass, Calls, PassFrame, LoadFrames
  <2> QED  BY <1>1, <2>3 DEF Proceeds
<1>5. CASE PassReturned(t)
  <2>1. Goes(t, f)
    BY <1>1, <1>5 DEF PassReturned, Resumes, Goes
  <2> QED  BY <1>1, <2>1 DEF Proceeds
<1>6. CASE Parse(t)
  <2> DEFINE todo == f.todo \cup Nodes[Boundary(t)]
  <2>1. \/ Return(t, Failed)
        \/ Continue(t, [f EXCEPT !.at = @ + 1, !.pc = "prescan", !.todo = todo])
        \/ Continue(t, [f EXCEPT !.pc = "decode", !.todo = todo])
    BY <1>6 DEF Parse
  <2>2. passing' = passing
    BY <1>6 DEF Parse
  <2> HIDE DEF todo
  <2>3. \/ Returns(t, Failed)
        \/ Goes(t, [f EXCEPT !.at = @ + 1, !.pc = "prescan", !.todo = todo])
        \/ Goes(t, [f EXCEPT !.pc = "decode", !.todo = todo])
    BY <1>1, <2>1, <2>2 DEF Returns, Goes, LoadFrames
  <2> QED  BY <1>1, <2>3 DEF Proceeds
<1>7. CASE Decode(t)
  <2>1. PICK w \in f.todo : Continue(t, [f EXCEPT !.todo = @ \ {w}])
    BY <1>7 DEF Decode
  <2>2. passing' = passing /\ f.pc = "decode"
    BY <1>7 DEF Decode, At
  <2>3. Goes(t, [f EXCEPT !.todo = @ \ {w}])
    BY <1>1, <2>1, <2>2 DEF Goes, LoadFrames
  <2> QED  BY <1>1, <2>3 DEF Proceeds
<1>8. CASE Lookup(t)
  <2>1. PICK w \in f.todo : Continue(t, [f EXCEPT !.todo = @ \ {w}, !.node = w, !.pc = "missing"])
    BY <1>8 DEF Lookup
  <2>2. passing' = passing
    BY <1>8 DEF Lookup
  <2>3. Goes(t, [f EXCEPT !.todo = @ \ {w}, !.node = w, !.pc = "missing"])
    BY <1>1, <2>1, <2>2 DEF Goes, LoadFrames
  <2> QED  BY <1>1, <2>3 DEF Proceeds
<1>9. CASE DeferOrSkip(t)
  <2> DEFINE skip == [word |-> f.node, why |-> cause[f.node]]
  <2>1. passing' = passing
    BY <1>9 DEF DeferOrSkip
  <2>2. CASE passing = TRUE
    <3>1. Continue(t, [f EXCEPT !.deferred = @ \cup {f.node}, !.node = None, !.pc = "decode"])
      BY <1>9, <2>2 DEF DeferOrSkip
    <3>2. Goes(t, [f EXCEPT !.deferred = @ \cup {f.node}, !.node = None, !.pc = "decode"])
      BY <1>1, <2>1, <2>2, <3>1 DEF Goes, LoadFrames
    <3> QED  BY <1>1, <3>2 DEF Proceeds
  <2>3. CASE passing # TRUE
    <3>1. Continue(t, [f EXCEPT !.skipped = @ \cup {skip}, !.node = None, !.pc = "decode"])
      BY <1>9, <2>3 DEF DeferOrSkip, TypeOK
    <3>2. Goes(t, [f EXCEPT !.skipped = @ \cup {skip}, !.node = None, !.pc = "decode"])
      BY <1>1, <2>1, <2>3, <3>1 DEF Goes, LoadFrames
    <3> QED  BY <1>1, <3>2 DEF Proceeds
  <2> QED  BY <2>2, <2>3
<1>10. CASE LoadDone(t) \/ LoadFails(t)
  <2>1. PICK outcome : Return(t, outcome) /\ passing' = passing
    BY <1>10 DEF LoadDone, LoadFails
  <2>2. Returns(t, outcome)
    BY <1>1, <2>1 DEF Returns, LoadFrames
  <2> QED  BY <1>1, <2>2 DEF Proceeds
<1> QED  BY <1>2, <1>3, <1>4, <1>5, <1>6, <1>7, <1>8, <1>9, <1>10 DEF LoadStep

\* The steps of a pass: it stays one frame until it takes the flag down.
LEMMA PassProceeds ==
  ASSUME TypeOK, NEW t \in Thread, PassStep(t)
  PROVE  ~Idle(t) /\ Proceeds(t)
<1>1. ~Idle(t) /\ Top(t) \in PassFrames
  <2>1. ~Idle(t) /\ Top(t).kind = "pass"
    BY DEF PassStep, PassLoads, PassLoaded, ScanFails, Pick, Picked, CandiesDone, Finalize,
           Clear, At, Resumes
  <2> QED  BY <2>1, FrameTyped, FrameKinds
<1> SUFFICES Proceeds(t)
  BY <1>1
<1> DEFINE f == Top(t)
<1>2. ASSUME NEW g, Continue(t, g), passing' = passing, g.kind = "pass"
      PROVE  Proceeds(t)
  <2>1. Goes(t, g)
    BY <1>1, <1>2 DEF Goes, PassFrames
  <2> QED  BY <2>1 DEF Proceeds
<1>3. ASSUME NEW g, NEW h, Call(t, g, h), passing' = passing, g.kind = "pass",
             h.kind # "connect" => h.kind = "load" /\ h.deferred = {} /\ h.pc = "prescan"
      PROVE  Proceeds(t)
  <2>1. Calls(t, g, h)
    BY <1>1, <1>3 DEF Calls, PassFrames
  <2> QED  BY <2>1 DEF Proceeds
<1>4. f.kind = "pass" /\ DOMAIN f = {"kind", "dir", "need", "pc", "todo"}
  BY <1>1 DEF PassFrames
<1>5. ASSUME NEW pc, NEW todo
      PROVE  /\ [f EXCEPT !.pc = pc].kind = "pass"
             /\ [f EXCEPT !.todo = todo].kind = "pass"
             /\ [f EXCEPT !.pc = pc, !.todo = todo].kind = "pass"
  BY <1>1 DEF PassFrames
<1>6. ASSUME RecordFailure(t), passing' = passing PROVE Proceeds(t)
  <2> DEFINE g == [f EXCEPT !.pc = "baked", !.todo = @ \cup f.need]
  <2>1. Continue(t, g)
    BY <1>6 DEF RecordFailure
  <2>2. g.kind = "pass"
    BY <1>5
  <2> QED  BY <1>2, <1>6, <2>1, <2>2
<1>7. CASE PassLoads(t)
  <2>1. Call(t, f, LoadFrame(f.dir)) /\ passing' = passing
    BY <1>7 DEF PassLoads
  <2>2. LoadFrame(f.dir).kind = "load" /\ LoadFrame(f.dir).deferred = {} /\ LoadFrame(f.dir).pc = "prescan"
    BY DEF LoadFrame
  <2> QED  BY <1>3, <1>4, <2>1, <2>2
<1>8. CASE PassLoaded(t)
  <2> DEFINE g == [f EXCEPT !.pc = "scan"]
             h == [f EXCEPT !.pc = "candies", !.todo = Wanted(f)]
  <2>1. RecordFailure(t) \/ Continue(t, g) \/ Continue(t, h)
    BY <1>8 DEF PassLoaded
  <2>2. passing' = passing
    BY <1>8 DEF PassLoaded
  <2>3. g.kind = "pass" /\ h.kind = "pass"
    BY <1>5
  <2> HIDE DEF g, h
  <2> QED  BY <1>2, <1>6, <2>1, <2>2, <2>3
<1>9. CASE ScanFails(t)
  BY <1>6, <1>9 DEF ScanFails
<1>10. CASE Pick(t)
  <2> DEFINE g(w) == [f EXCEPT !.todo = @ \ {w}]
  <2>1. PICK w : Continue(t, g(w)) \/ Call(t, g(w), ConnectFrame(w))
    BY <1>10 DEF Pick
  <2>2. passing' = passing
    BY <1>10 DEF Pick
  <2>3. g(w).kind = "pass"
    BY <1>5
  <2>4. ConnectFrame(w).kind = "connect"
    BY DEF ConnectFrame
  <2> HIDE DEF g
  <2> QED  BY <1>2, <1>3, <2>1, <2>2, <2>3, <2>4
<1>11. CASE Picked(t)
  <2>1. RecordFailure(t) \/ Continue(t, f)
    BY <1>11 DEF Picked
  <2>2. passing' = passing
    BY <1>11 DEF Picked
  <2> QED  BY <1>2, <1>4, <1>6, <2>1, <2>2
<1>12. CASE CandiesDone(t)
  <2> DEFINE g == [f EXCEPT !.pc = "baked", !.todo = f.need]
  <2>1. Continue(t, g) /\ passing' = passing
    BY <1>12 DEF CandiesDone
  <2>2. g.kind = "pass"
    BY <1>5
  <2> HIDE DEF g
  <2> QED  BY <1>2, <2>1, <2>2
<1>13. CASE Finalize(t)
  <2> DEFINE g == [f EXCEPT !.pc = "clear"]
  <2>1. Continue(t, g) /\ passing' = passing
    BY <1>13 DEF Finalize, Step
  <2>2. g.kind = "pass"
    BY <1>5
  <2> HIDE DEF g
  <2> QED  BY <1>2, <2>1, <2>2
<1>14. CASE Clear(t)
  <2>1. Returns(t, Done)
    BY <1>1, <1>14 DEF Clear, Returns, PassFrames
  <2> QED  BY <2>1 DEF Proceeds
<1> QED  BY <1>1, <1>7, <1>8, <1>9, <1>10, <1>11, <1>12, <1>13, <1>14 DEF PassStep

\* The steps of a connect and of a question for the bounds leave the flag alone.
LEMMA ConnectProceeds ==
  ASSUME TypeOK, NEW t \in Thread, ConnectStep(t)
  PROVE  ~Idle(t) /\ Proceeds(t)
<1>1. ~Idle(t) /\ Top(t) \in ConnectFrames
  <2>1. ~Idle(t) /\ Top(t).kind = "connect"
    BY DEF ConnectStep, AskReadiness, Connect, ConnectFails, Connecting
  <2> QED  BY <2>1, FrameTyped, FrameKinds
<1>2. CASE AskReadiness(t)
  <2>1. Calls(t, [Top(t) EXCEPT !.ready = TRUE], ReadyFrame)
    BY <1>1, <1>2 DEF AskReadiness, Calls, ConnectFrames, ReadyFrame
  <2> QED  BY <1>1, <2>1 DEF Proceeds
<1>3. CASE Connect(t) \/ ConnectFails(t)
  <2>1. PICK outcome : Return(t, outcome) /\ passing' = passing
    BY <1>3 DEF Connect, ConnectFails
  <2>2. Returns(t, outcome)
    BY <1>1, <2>1 DEF Returns, ConnectFrames
  <2> QED  BY <1>1, <2>2 DEF Proceeds
<1> QED  BY <1>2, <1>3 DEF ConnectStep

\* The steps of a question for the bounds, likewise.
LEMMA ReadyProceeds ==
  ASSUME TypeOK, NEW t \in Thread, ReadyStep(t)
  PROVE  ~Idle(t) /\ Proceeds(t)
<1>1. ~Idle(t) /\ Top(t) \in ReadyFrames
  <2>1. ~Idle(t) /\ Top(t).kind = "ready"
    BY DEF ReadyStep, TestLoading, Resolve, Resolved, UseCached, At, Resumes
  <2> QED  BY <2>1, FrameTyped, FrameKinds
<1>2. passing' = passing
  BY DEF ReadyStep, TestLoading, Resolve, Resolved, UseCached
<1>3. \/ Return(t, Done)
      \/ Continue(t, [Top(t) EXCEPT !.pc = "do"])
      \/ Call(t, [Top(t) EXCEPT !.pc = "resolved"], LoadFrame(Root))
  BY DEF ReadyStep, TestLoading, Resolve, Resolved, UseCached, Step
<1>4. CASE Return(t, Done)
  <2>1. Returns(t, Done)
    BY <1>1, <1>2, <1>4 DEF Returns, ReadyFrames
  <2> QED  BY <1>1, <2>1 DEF Proceeds
<1>5. CASE Continue(t, [Top(t) EXCEPT !.pc = "do"])
  <2>1. Goes(t, [Top(t) EXCEPT !.pc = "do"])
    BY <1>1, <1>2, <1>5 DEF Goes, ReadyFrames
  <2> QED  BY <1>1, <2>1 DEF Proceeds
<1>6. CASE Call(t, [Top(t) EXCEPT !.pc = "resolved"], LoadFrame(Root))
  <2>1. Calls(t, [Top(t) EXCEPT !.pc = "resolved"], LoadFrame(Root))
    BY <1>1, <1>2, <1>6 DEF Calls, ReadyFrames, LoadFrame
  <2> QED  BY <1>1, <2>1 DEF Proceeds
<1> QED  BY <1>3, <1>4, <1>5, <1>6

\* A host call starts with the flag as it finds it, down.
LEMMA HostCallDisciplined ==
  ASSUME TypeOK, NEW t \in Thread, Disciplined(stack[t], passing), HostCall(t)
  PROVE  Disciplined(stack'[t], passing')
<1>1. stack[t] = <<>> /\ passing' = passing
  BY DEF HostCall, CallLoad, CallReadiness, Idle
<1>2. PICK f : stack'[t] = <<f>> /\ (f = ReadyFrame \/ \E p \in Dir : f = LoadFrame(p))
  BY DEF HostCall, CallLoad, CallReadiness, TypeOK
<1>3. f.kind # "pass" /\ (f.kind = "load" => f.deferred = {} /\ f.pc = "prescan")
  BY <1>2 DEF ReadyFrame, LoadFrame
<1>4. passing # TRUE
  <2>1. 1..Len(stack[t]) = {}
    BY <1>1
  <2>2. PassesIn(stack[t]) = {}
    BY <2>1 DEF PassesIn
  <2> QED  BY <2>2 DEF Disciplined
<1> DEFINE n == <<f>>
<1>5. Len(n) = 1 /\ n[1] = f /\ 1..Len(n) = {1} /\ 2..Len(n) = {}
  OBVIOUS
<1> HIDE DEF n
<1>6. PassesIn(n) = {}
  BY <1>3, <1>5 DEF PassesIn
<1>7. \A i \in 1..Len(n) : n[i].kind = "load" => n[i].deferred = {} /\ n[i].pc = "prescan"
  BY <1>3, <1>5
<1>8. Disciplined(n, passing)
  BY <1>4, <1>5, <1>6, <1>7 DEF Disciplined
<1> QED  BY <1>1, <1>2, <1>8 DEF n

\* With one goroutine the discipline is inductive.
LEMMA OneGoroutine ==
  ASSUME NEW only, Thread = {only}
  PROVE  Spec => [](TypeOK /\ Disciplined(stack[only], passing))
<1>1. Init => Disciplined(stack[only], passing)
  <2> SUFFICES ASSUME Init PROVE Disciplined(stack[only], passing)
    OBVIOUS
  <2>1. stack[only] = <<>> /\ passing = FALSE
    BY DEF Init
  <2> QED  BY <2>1 DEF Disciplined, PassesIn
<1>2. TypeOK /\ Disciplined(stack[only], passing) /\ [Next]_vars => Disciplined(stack[only], passing)'
  <2> SUFFICES ASSUME TypeOK, Disciplined(stack[only], passing), [Next]_vars
               PROVE  Disciplined(stack'[only], passing')
    OBVIOUS
  <2>1. only \in Thread
    OBVIOUS
  <2>2. CASE UNCHANGED vars
    BY <2>2 DEF vars
  <2>3. CASE HostCall(only)
    BY <2>1, <2>3, HostCallDisciplined
  <2>4. CASE Run(only)
    <3>1. ~Idle(only) /\ Proceeds(only)
      BY <2>1, <2>4, LoadProceeds, PassProceeds, ConnectProceeds, ReadyProceeds DEF Run
    <3> QED  BY <2>1, <3>1, ProceedsDisciplined
  <2> QED  BY <2>2, <2>3, <2>4 DEF Next
<1> QED  BY <1>1, <1>2, KindTypeCorrectness, PTL DEF Spec

\* A process that loads on one goroutine has the flag up exactly while it runs its one pass.
THEOREM OnePassAtATime ==
  ASSUME NEW only, Thread = {only}
  PROVE  Spec => []PassGuarded
<1>1. TypeOK /\ Disciplined(stack[only], passing) => PassGuarded
  <2> SUFFICES ASSUME TypeOK, Disciplined(stack[only], passing) PROVE PassGuarded
    OBVIOUS
  <2>1. Passes(only) = PassesIn(stack[only])
    BY DEF Passes, PassesIn
  <2>2. passing <=> PassesIn(stack[only]) # {}
    BY DEF TypeOK, Disciplined
  <2>3. \A i, j \in PassesIn(stack[only]) : i = j
    BY DEF Disciplined
  <2> QED  BY <2>1, <2>2, <2>3 DEF PassGuarded
<1> QED  BY <1>1, OneGoroutine, PTL

\* A process that loads on one goroutine leaves no entity out of a finished load in silence,
\* however its loads, passes, connects and readiness lookups nest.
THEOREM NothingDroppedInSilence ==
  ASSUME NEW only, Thread = {only}
  PROVE  Spec => []NoSilentDrop
<1>1. TypeOK /\ Disciplined(stack[only], passing) => NoSilentDrop
  <2> SUFFICES ASSUME TypeOK, Disciplined(stack[only], passing), NEW i \in Outer(only)
               PROVE  stack[only][i].deferred = {}
    BY DEF NoSilentDrop, OuterLoads
  <2>1. i \in 1..Len(stack[only]) /\ stack[only][i].kind = "load" /\ \A j \in Passes(only) : j < i
    BY DEF Outer
  <2>2. Passes(only) = PassesIn(stack[only]) /\ PassesIn(stack[only]) \subseteq Nat
    BY DEF Passes, PassesIn
  <2>3. ~ \E j \in PassesIn(stack[only]) : i < j
    BY <2>1, <2>2
  <2> QED  BY <2>1, <2>3 DEF Disciplined
<1> QED  BY <1>1, OneGoroutine, PTL

(***************************************************************************)
(* One goroutine: what a load leaves out has been failed by a pass         *)
(***************************************************************************)

\* The frames no pass encloses; where there is a pass, the one below it is the load it is for.
OuterIn(s) == {i \in 1..Len(s) : \A j \in PassesIn(s) : j <= i}

\* The words a skip could name: served, or with a cause.
Told == {w \in Word : w \in registered \/ cause[w] # None}

BoundaryOf(f) == Bounds[f.dir][f.at]
Known(d) == Declares[d] \cup Baked

\* A pass that ends has told of all it was for; a load asks what is missing after its pre-scan.
FrameSound(f, told, decl) ==
  /\ f.kind = "pass" /\ f.pc = "clear" => f.need \subseteq told
  /\ f.kind = "load" /\ f.pc \in {"guard", "need"} => Declares[BoundaryOf(f)] \subseteq decl

\* What an outer load has parsed is told of; what it is about to parse is too, or is owed by
\* the pass it waits for.
LoadSound(f, told, owed) ==
  f.kind = "load" =>
    /\ f.todo \subseteq told
    /\ f.pc = "missing" => f.node \in told
    /\ f.pc = "parse" => Known(BoundaryOf(f)) \subseteq told \cup owed
    /\ \A skip \in f.skipped : skip.why # None

Owed(s, i) == IF i > 1 /\ s[i - 1].kind = "pass" THEN s[i - 1].need ELSE {}

Sound(s, told, decl) ==
  \A i \in 1..Len(s) : /\ FrameSound(s[i], told, decl)
                       /\ i \in OuterIn(s) => LoadSound(s[i], told, Owed(s, i))

\* The node a load found unserved is still unserved.
Looked(s, served) ==
  s # <<>> /\ s[1].kind = "load" /\ s[1].pc = "missing" => s[1].node \notin served

\* Nothing is declared but by a pre-scan or a binary beside charly.
DeclaredInv ==
  /\ Baked \subseteq declared
  /\ declared \subseteq Baked \cup UNION {Declares[d] : d \in Dir}

\* More words told of and declared change nothing for the worse.
LEMMA SoundGrows ==
  ASSUME NEW s, NEW told, NEW decl, NEW told2, NEW decl2,
         Sound(s, told, decl), told \subseteq told2, decl \subseteq decl2
  PROVE  Sound(s, told2, decl2)
<1> SUFFICES ASSUME NEW i \in 1..Len(s)
             PROVE  /\ FrameSound(s[i], told2, decl2)
                    /\ i \in OuterIn(s) => LoadSound(s[i], told2, Owed(s, i))
  BY DEF Sound
<1>1. FrameSound(s[i], told2, decl2)
  BY DEF Sound, FrameSound
<1>2. ASSUME i \in OuterIn(s) PROVE LoadSound(s[i], told2, Owed(s, i))
  BY <1>2 DEF Sound, LoadSound
<1> QED  BY <1>1, <1>2

\* A frame that goes on as what it is.
LEMMA ContinueSound ==
  ASSUME NEW S, NEW s \in Seq(S), s # <<>>, NEW f \in S, NEW told, NEW decl,
         Sound(s, told, decl), f.kind = s[1].kind, f.kind = "pass" => f.need = s[1].need,
         FrameSound(f, told, decl), 1 \in OuterIn(s) => LoadSound(f, told, {})
  PROVE  Sound(<<f>> \o Tail(s), told, decl)
<1> DEFINE n == <<f>> \o Tail(s)
<1>1. Len(s) \in Nat \ {0} /\ Len(n) = Len(s) /\ n[1] = f /\ \A i \in 2..Len(s) : n[i] = s[i]
  BY Elements
<1> HIDE DEF n
<1>2. PassesIn(n) = PassesIn(s)
  BY <1>1 DEF PassesIn
<1>3. OuterIn(n) = OuterIn(s)
  BY <1>1, <1>2 DEF OuterIn
<1>4. \A i \in 2..Len(s) : Owed(n, i) = Owed(s, i)
  <2> SUFFICES ASSUME NEW i \in 2..Len(s) PROVE Owed(n, i) = Owed(s, i)
    OBVIOUS
  <2>1. CASE i = 2
    BY <1>1, <2>1 DEF Owed
  <2>2. CASE i # 2
    <3>1. i - 1 \in 2..Len(s)
      BY <2>2
    <3> QED  BY <1>1, <3>1 DEF Owed
  <2> QED  BY <2>1, <2>2
<1>5. Owed(n, 1) = {}
  BY DEF Owed
<1>6. ASSUME NEW i \in 1..Len(n)
      PROVE  FrameSound(n[i], told, decl) /\ (i \in OuterIn(n) => LoadSound(n[i], told, Owed(n, i)))
  <2>1. CASE i = 1
    BY <1>1, <1>3, <1>5, <2>1
  <2>2. CASE i # 1
    <3>1. i \in 2..Len(s) /\ i \in 1..Len(s)
      BY <1>1, <2>2
    <3> QED  BY <1>1, <1>3, <1>4, <3>1 DEF Sound
  <2> QED  BY <2>1, <2>2
<1>7. Sound(n, told, decl)
  BY <1>6 DEF Sound
<1> QED  BY <1>7 DEF n

\* A frame that calls another.
LEMMA CallSound ==
  ASSUME NEW S, NEW s \in Seq(S), s # <<>>, NEW f \in S, NEW g \in S, NEW told, NEW decl,
         Sound(s, told, decl), f.kind = s[1].kind, f.kind = "pass" => f.need = s[1].need,
         FrameSound(f, told, decl), FrameSound(g, told, decl),
         1 \in OuterIn(s) => LoadSound(f, told, IF g.kind = "pass" THEN g.need ELSE {}),
         PassesIn(s) = {} => LoadSound(g, told, {})
  PROVE  Sound(<<g, f>> \o Tail(s), told, decl)
<1> DEFINE n == <<g, f>> \o Tail(s)
<1>1. /\ Len(s) \in Nat \ {0} /\ Len(n) = Len(s) + 1 /\ n[1] = g /\ n[2] = f
      /\ \A i \in 3..Len(n) : n[i] = s[i - 1]
  BY Elements
<1> HIDE DEF n
<1>2. \A j \in PassesIn(s) : j + 1 \in PassesIn(n)
  <2> SUFFICES ASSUME NEW j \in PassesIn(s) PROVE j + 1 \in PassesIn(n)
    OBVIOUS
  <2>1. j \in 1..Len(s) /\ s[j].kind = "pass" /\ j + 1 \in 1..Len(n)
    BY <1>1 DEF PassesIn
  <2>2. n[j + 1].kind = s[j].kind
    <3>1. CASE j = 1
      BY <1>1, <3>1
    <3>2. CASE j # 1
      <4>1. j + 1 \in 3..Len(n) /\ (j + 1) - 1 = j
        BY <1>1, <2>1, <3>2
      <4> QED  BY <1>1, <4>1
    <3> QED  BY <3>1, <3>2
  <2> QED  BY <2>1, <2>2 DEF PassesIn
<1>3. \A i \in OuterIn(n) : i # 1 => i - 1 \in OuterIn(s)
  <2> SUFFICES ASSUME NEW i \in OuterIn(n), i # 1 PROVE i - 1 \in OuterIn(s)
    OBVIOUS
  <2>1. i \in 1..Len(n) /\ i - 1 \in 1..Len(s) /\ \A j \in PassesIn(n) : j <= i
    BY <1>1 DEF OuterIn
  <2>2. ASSUME NEW j \in PassesIn(s) PROVE j <= i - 1
    <3>1. j \in Nat /\ j + 1 <= i
      BY <1>2, <2>1 DEF PassesIn
    <3> QED  BY <2>1, <3>1
  <2> QED  BY <2>1, <2>2 DEF OuterIn
<1>4. 1 \in OuterIn(n) => PassesIn(s) = {}
  <2> SUFFICES ASSUME 1 \in OuterIn(n), NEW j \in PassesIn(s) PROVE FALSE
    OBVIOUS
  <2>1. j \in Nat \ {0} /\ j + 1 <= 1
    BY <1>2 DEF OuterIn, PassesIn
  <2> QED  BY <2>1
<1>5. Owed(n, 1) = {} /\ Owed(n, 2) = IF g.kind = "pass" THEN g.need ELSE {}
  BY <1>1 DEF Owed
<1>6. \A i \in 3..Len(n) : Owed(n, i) = Owed(s, i - 1)
  <2> SUFFICES ASSUME NEW i \in 3..Len(n) PROVE Owed(n, i) = Owed(s, i - 1)
    OBVIOUS
  <2>1. CASE i = 3
    BY <1>1, <2>1 DEF Owed
  <2>2. CASE i # 3
    <3>1. i - 1 \in 3..Len(n) /\ i - 1 > 1
      BY <1>1, <2>2
    <3> QED  BY <1>1, <3>1 DEF Owed
  <2> QED  BY <2>1, <2>2
<1>7. ASSUME NEW i \in 1..Len(n)
      PROVE  FrameSound(n[i], told, decl) /\ (i \in OuterIn(n) => LoadSound(n[i], told, Owed(n, i)))
  <2>1. CASE i = 1
    BY <1>1, <1>4, <1>5, <2>1
  <2>2. CASE i = 2
    <3>1. n[i] = f
      BY <1>1, <2>2
    <3>2. i \in OuterIn(n) => 1 \in OuterIn(s)
      BY <1>3, <2>2
    <3> QED  BY <1>5, <2>2, <3>1, <3>2
  <2>3. CASE i \notin {1, 2}
    <3>1. i \in 3..Len(n) /\ i - 1 \in 1..Len(s) /\ i # 1
      BY <1>1, <2>3
    <3> QED  BY <1>1, <1>3, <1>6, <3>1 DEF Sound
  <2> QED  BY <2>1, <2>2, <2>3
<1>8. Sound(n, told, decl)
  BY <1>7 DEF Sound
<1> QED  BY <1>8 DEF n

\* A frame that returns; a pass that does owes nothing any more.
LEMMA ReturnSound ==
  ASSUME NEW S, NEW s \in Seq(S), s # <<>>, NEW told, NEW decl,
         Sound(s, told, decl), s[1].kind = "pass" => s[1].need \subseteq told
  PROVE  Sound(Tail(s), told, decl)
<1> DEFINE n == Tail(s)
<1>1. Len(s) \in Nat \ {0} /\ Len(n) = Len(s) - 1 /\ \A i \in 1..Len(n) : n[i] = s[i + 1]
  BY Elements
<1> HIDE DEF n
<1>2. ASSUME NEW i \in OuterIn(n) PROVE i + 1 \in OuterIn(s)
  <2>1. i \in 1..Len(n) /\ i + 1 \in 1..Len(s) /\ \A j \in PassesIn(n) : j <= i
    BY <1>1 DEF OuterIn
  <2>2. ASSUME NEW j \in PassesIn(s), j # 1 PROVE j <= i + 1
    <3>1. j \in 1..Len(s) /\ j - 1 \in 1..Len(n) /\ (j - 1) + 1 = j /\ s[j].kind = "pass"
      BY <1>1, <2>2 DEF PassesIn
    <3>2. j - 1 \in PassesIn(n)
      BY <1>1, <3>1 DEF PassesIn
    <3>3. j - 1 <= i
      BY <2>1, <3>2
    <3> QED  BY <2>1, <3>1, <3>3
  <2>3. \A j \in PassesIn(s) : j <= i + 1
    BY <2>1, <2>2
  <2> QED  BY <2>1, <2>3 DEF OuterIn
<1>3. ASSUME NEW i \in 1..Len(n), LoadSound(n[i], told, Owed(s, i + 1))
      PROVE  LoadSound(n[i], told, Owed(n, i))
  <2>1. CASE i = 1
    <3>1. Owed(s, i + 1) \subseteq told
      BY <1>1, <2>1 DEF Owed
    <3> QED  BY <1>3, <3>1 DEF LoadSound
  <2>2. CASE i # 1
    <3>1. i - 1 \in 1..Len(n) /\ i + 1 > 1 /\ i > 1 /\ n[i - 1] = s[(i + 1) - 1]
      BY <1>1, <2>2
    <3>2. Owed(n, i) = Owed(s, i + 1)
      BY <3>1 DEF Owed
    <3> QED  BY <1>3, <3>2
  <2> QED  BY <2>1, <2>2
<1>4. ASSUME NEW i \in 1..Len(n)
      PROVE  FrameSound(n[i], told, decl) /\ (i \in OuterIn(n) => LoadSound(n[i], told, Owed(n, i)))
  <2>1. n[i] = s[i + 1] /\ i + 1 \in 1..Len(s)
    BY <1>1
  <2> QED  BY <1>2, <1>3, <2>1 DEF Sound
<1>5. Sound(n, told, decl)
  BY <1>4 DEF Sound
<1> QED  BY <1>5 DEF n

\* What t's top frame may do: whatever its words were, they are told of afterwards.
SoundGo(t, f) ==
  /\ Continue(t, f)
  /\ f.kind = Top(t).kind /\ (f.kind = "pass" => f.need = Top(t).need)
  /\ FrameSound(f, Told', declared')
  /\ 1 \in OuterIn(stack[t]) => LoadSound(f, Told', {})
  /\ f.kind = "load" /\ f.pc = "missing" => f.node \notin registered'

SoundCall(t, f, g) ==
  /\ Call(t, f, g)
  /\ f.kind = Top(t).kind /\ (f.kind = "pass" => f.need = Top(t).need)
  /\ FrameSound(f, Told', declared') /\ FrameSound(g, Told', declared')
  /\ 1 \in OuterIn(stack[t]) => LoadSound(f, Told', IF g.kind = "pass" THEN g.need ELSE {})
  /\ PassesIn(stack[t]) = {} => LoadSound(g, Told', {})
  /\ g.kind = "load" => g.pc = "prescan"

SoundReturn(t, outcome) ==
  /\ Return(t, outcome)
  /\ Top(t).kind = "pass" => Top(t).need \subseteq Told'

SoundMove(t) == \E f, g, outcome : SoundGo(t, f) \/ SoundCall(t, f, g) \/ SoundReturn(t, outcome)

\* Before and after a step of t.
SoundBefore(t) == /\ TypeOK /\ DeclaredInv /\ Disciplined(stack[t], passing)
                  /\ Sound(stack[t], Told, declared) /\ Looked(stack[t], registered)
SoundAfter(t) == Sound(stack'[t], Told', declared') /\ Looked(stack'[t], registered')

\* Words are only added.
LEMMA WordsGrow ==
  ASSUME NEW t \in Thread, HostCall(t) \/ Run(t)
  PROVE  registered \subseteq registered' /\ declared \subseteq declared'
<1>1. CASE HostCall(t)
  BY <1>1 DEF HostCall, CallLoad, CallReadiness, words
<1>2. CASE LoadStep(t)
  BY <1>2 DEF LoadStep, Prescan, Guard, NothingMissing, StartPass, PassReturned, Parse, Decode,
              Lookup, DeferOrSkip, LoadDone, LoadFails, words
<1>3. CASE PassStep(t)
  BY <1>3 DEF PassStep, PassLoads, PassLoaded, ScanFails, Pick, Picked, CandiesDone, Finalize,
              Clear, words
<1>4. CASE ConnectStep(t)
  BY <1>4 DEF ConnectStep, AskReadiness, Connect, ConnectFails, words
<1>5. CASE ReadyStep(t)
  BY <1>5 DEF ReadyStep, TestLoading, Resolve, Resolved, UseCached, words
<1> QED  BY <1>1, <1>2, <1>3, <1>4, <1>5 DEF Run

\* What could be named before a step can be named after it.
LEMMA ToldGrows ==
  ASSUME TypeOK, NEW t \in Thread, HostCall(t) \/ Run(t)
  PROVE  Told \subseteq Told'
<1>1. KeepsCauses
  BY CausesStep DEF Next
<1>2. registered \subseteq registered'
  BY WordsGrow
<1> QED  BY <1>1, <1>2 DEF KeepsCauses, Told

\* The three moves keep a stack sound.
LEMMA MovesSound ==
  ASSUME NEW t \in Thread, SoundBefore(t), ~Idle(t), Told \subseteq Told', declared \subseteq declared',
         SoundMove(t)
  PROVE  SoundAfter(t)
<1> DEFINE s == stack[t]
<1>1. s \in Seq(Frame) /\ s # <<>> /\ Top(t) = s[1] /\ Below(t) = Tail(s) /\ t \in DOMAIN stack
  BY DEF SoundBefore, TypeOK, Idle, Top, Below
<1>2. PICK f, g, outcome : SoundGo(t, f) \/ SoundCall(t, f, g) \/ SoundReturn(t, outcome)
  BY DEF SoundMove
<1>3. s \in Seq(Frame \cup {f, g}) /\ f \in Frame \cup {f, g} /\ g \in Frame \cup {f, g}
  BY <1>1, LargerSet
<1>4. Sound(s, Told', declared')
  BY SoundGrows DEF SoundBefore
<1>5. CASE SoundGo(t, f)
  <2>1. stack'[t] = <<f>> \o Tail(s)
    BY <1>1, <1>5 DEF SoundGo, Continue
  <2>2. /\ f.kind = s[1].kind /\ (f.kind = "pass" => f.need = s[1].need)
        /\ FrameSound(f, Told', declared') /\ (1 \in OuterIn(s) => LoadSound(f, Told', {}))
    BY <1>1, <1>5 DEF SoundGo
  <2>3. (<<f>> \o Tail(s))[1] = f
    BY <1>1, <1>3, Elements
  <2> HIDE DEF s
  <2>4. Sound(<<f>> \o Tail(s), Told', declared')
    BY <1>1, <1>3, <1>4, <2>2, ContinueSound
  <2>5. Looked(<<f>> \o Tail(s), registered')
    BY <1>5, <2>3 DEF SoundGo, Looked
  <2> QED  BY <2>1, <2>4, <2>5 DEF SoundAfter
<1>6. CASE SoundCall(t, f, g)
  <2>1. stack'[t] = <<g, f>> \o Tail(s)
    BY <1>1, <1>6 DEF SoundCall, Call
  <2>2. /\ f.kind = s[1].kind /\ (f.kind = "pass" => f.need = s[1].need)
        /\ FrameSound(f, Told', declared') /\ FrameSound(g, Told', declared')
        /\ 1 \in OuterIn(s) => LoadSound(f, Told', IF g.kind = "pass" THEN g.need ELSE {})
        /\ PassesIn(s) = {} => LoadSound(g, Told', {})
    BY <1>1, <1>6 DEF SoundCall
  <2>3. (<<g, f>> \o Tail(s))[1] = g
    BY <1>1, <1>3, Elements
  <2> HIDE DEF s
  <2>4. Sound(<<g, f>> \o Tail(s), Told', declared')
    BY <1>1, <1>3, <1>4, <2>2, CallSound
  <2>5. Looked(<<g, f>> \o Tail(s), registered')
    BY <1>6, <2>3 DEF SoundCall, Looked
  <2> QED  BY <2>1, <2>4, <2>5 DEF SoundAfter
<1>7. CASE SoundReturn(t, outcome)
  <2>1. stack'[t] = Tail(s)
    BY <1>1, <1>7 DEF SoundReturn, Return
  <2>2. s[1].kind = "pass" => s[1].need \subseteq Told'
    BY <1>1, <1>7 DEF SoundReturn
  <2>3. Sound(Tail(s), Told', declared')
    BY <1>1, <1>4, <2>2, ReturnSound
  <2>4. Looked(Tail(s), registered')
    <3> SUFFICES ASSUME Tail(s) # <<>>, Tail(s)[1].kind = "load" PROVE Tail(s)[1].pc # "missing"
      BY DEF Looked
    <3>1. 2 \in 2..Len(s) /\ Tail(s)[1] = s[2]
      BY <1>1, Elements
    <3>2. s[2].pc = "parse"
      BY <3>1 DEF SoundBefore, Disciplined
    <3> QED  BY <3>1, <3>2
  <2> QED  BY <2>1, <2>3, <2>4 DEF SoundAfter
<1> QED  BY <1>2, <1>5, <1>6, <1>7

\* A kind that some pre-scan declares, and that a project's documents use, is one that this
\* project's own pre-scan declares, or a binary beside charly.
OwnKindsDeclared ==
  \A d \in Dir : Nodes[d] \cap UNION {Declares[e] : e \in Dir} \subseteq Known(d)

\* A load parses what it is told of, or what the pass it started has told of.
LEMMA LoadSoundly ==
  ASSUME OwnKindsDeclared, NEW t \in Thread, SoundBefore(t), Told \subseteq Told', LoadStep(t)
  PROVE  ~Idle(t) /\ SoundMove(t)
<1>1. ~Idle(t) /\ Top(t) \in LoadFrames
  <2>1. ~Idle(t) /\ Top(t).kind = "load"
    BY DEF LoadStep, Prescan, Guard, NothingMissing, StartPass, PassReturned, Parse, Decode,
           Lookup, DeferOrSkip, LoadDone, LoadFails, At, Resumes
  <2> QED  BY <2>1, FrameTyped, FrameKinds DEF SoundBefore
<1> SUFFICES SoundMove(t)
  BY <1>1
<1> DEFINE f == Top(t)
           outer == 1 \in OuterIn(stack[t])
           b == BoundaryOf(f)
<1>2. f = stack[t][1] /\ 1 \in 1..Len(stack[t]) /\ f.kind = "load" /\ b = Boundary(t) /\ b \in Dir
  <2>1. stack[t] \in Seq(Frame) /\ stack[t] # <<>>
    BY <1>1 DEF SoundBefore, TypeOK, Idle
  <2>2. Boundary(t) \in Dir
    BY <1>1, BoundaryTyped DEF SoundBefore
  <2> QED  BY <1>1, <2>1, <2>2 DEF Top, LoadFrames, BoundaryOf, Boundary
<1>3. FrameSound(f, Told, declared) /\ (outer => LoadSound(f, Told, {}))
  BY <1>2 DEF SoundBefore, Sound, Owed
<1>4. /\ outer => f.todo \subseteq Told'
      /\ outer => \A skip \in f.skipped : skip.why # None
      /\ outer /\ f.pc = "parse" => Known(b) \subseteq Told
      /\ outer /\ f.pc = "missing" => f.node \in Told
  BY <1>2, <1>3 DEF LoadSound
<1>5. f.pc \in {"guard", "need"} => Known(b) \subseteq declared
  BY <1>2, <1>3 DEF FrameSound, Known, SoundBefore, DeclaredInv
<1>6. Known(b) \subseteq Word
  BY <1>2, ProjectAssumption DEF Known
<1>7. ASSUME NEW pc \in {"prescan", "decode"}, NEW g, Continue(t, g),
             g.kind = "load", g.pc = pc, outer => g.todo \subseteq Told',
             outer => \A skip \in g.skipped : skip.why # None
      PROVE  SoundMove(t)
  <2>1. SoundGo(t, g)
    BY <1>2, <1>7 DEF SoundGo, FrameSound, LoadSound
  <2> QED  BY <2>1 DEF SoundMove
<1>8. CASE Prescan(t)
  <2> DEFINE g == [f EXCEPT !.pc = "guard"]
  <2>1. Continue(t, g) /\ Declares[b] \subseteq declared'
    BY <1>2, <1>8 DEF Prescan, Step
  <2>2. g.kind = "load" /\ g.pc = "guard" /\ g.todo = f.todo /\ g.skipped = f.skipped
        /\ BoundaryOf(g) = b
    BY <1>1 DEF LoadFrames, BoundaryOf
  <2> HIDE DEF g
  <2>3. SoundGo(t, g)
    BY <1>2, <1>4, <2>1, <2>2 DEF SoundGo, FrameSound, LoadSound
  <2> QED  BY <2>3 DEF SoundMove
<1>9. CASE Guard(t)
  <2> DEFINE g(pc) == [f EXCEPT !.pc = pc]
  <2>1. PICK pc \in {"need", "parse"} : Continue(t, g(pc)) /\ (pc = "parse" => passing = TRUE)
    BY <1>9 DEF Guard, Step, SoundBefore, TypeOK
  <2>2. /\ g(pc).kind = "load" /\ g(pc).pc = pc /\ g(pc).todo = f.todo /\ g(pc).skipped = f.skipped
        /\ BoundaryOf(g(pc)) = b
    BY <1>1 DEF LoadFrames, BoundaryOf
  <2> HIDE DEF g
  <2>3. pc = "parse" => ~outer
    <3> SUFFICES ASSUME passing = TRUE, outer PROVE FALSE
      BY <2>1
    <3>1. PICK j \in PassesIn(stack[t]) : TRUE
      BY DEF SoundBefore, Disciplined
    <3>2. j \in 1..Len(stack[t]) /\ j # 1 /\ j <= 1
      BY <1>2 DEF PassesIn, OuterIn
    <3> QED  BY <3>2
  <2>4. Declares[b] \subseteq declared'
    BY <1>2, <1>3, <1>9 DEF FrameSound, Guard, At, words
  <2>5. SoundGo(t, g(pc))
    BY <1>2, <1>4, <2>1, <2>2, <2>3, <2>4 DEF SoundGo, FrameSound, LoadSound
  <2> QED  BY <2>5 DEF SoundMove
<1>10. CASE NothingMissing(t)
  <2> DEFINE g == [f EXCEPT !.pc = "parse"]
  <2>1. Continue(t, g) /\ declared \subseteq registered /\ f.pc = "need"
    BY <1>10 DEF NothingMissing, Step, Missing, At
  <2>2. g.kind = "load" /\ g.pc = "parse" /\ g.todo = f.todo /\ g.skipped = f.skipped
        /\ BoundaryOf(g) = b
    BY <1>1 DEF LoadFrames, BoundaryOf
  <2> HIDE DEF g
  <2>3. Known(b) \subseteq Told'
    <3>1. Known(b) \subseteq registered
      BY <1>5, <2>1
    <3>2. Known(b) \subseteq Told
      BY <1>6, <3>1 DEF Told
    <3> QED  BY <3>2
  <2>4. SoundGo(t, g)
    BY <1>2, <1>4, <2>1, <2>2, <2>3 DEF SoundGo, FrameSound, LoadSound
  <2> QED  BY <2>4 DEF SoundMove
<1>11. CASE StartPass(t)
  <2> DEFINE g == [f EXCEPT !.pc = "parse"]
             h == PassFrame(Boundary(t), Missing)
  <2>1. Call(t, g, h) /\ f.pc = "need"
    BY <1>11 DEF StartPass, At
  <2>2. /\ g.kind = "load" /\ g.pc = "parse" /\ g.todo = f.todo /\ g.skipped = f.skipped
        /\ BoundaryOf(g) = b
    BY <1>1 DEF LoadFrames, BoundaryOf
  <2>3. h.kind = "pass" /\ h.pc = "config" /\ h.need = Missing
    BY DEF PassFrame
  <2> HIDE DEF g, h
  <2>4. Known(b) \subseteq Told' \cup h.need
    <3>1. Known(b) \subseteq registered \cup Missing
      BY <1>5, <2>1 DEF Missing
    <3>2. Known(b) \subseteq Told \cup Missing
      BY <1>6, <3>1 DEF Told
    <3> QED  BY <2>3, <3>2
  <2>5. SoundCall(t, g, h)
    BY <1>2, <1>4, <2>1, <2>2, <2>3, <2>4 DEF SoundCall, FrameSound, LoadSound
  <2> QED  BY <2>5 DEF SoundMove
<1>12. CASE PassReturned(t)
  <2>1. Continue(t, f) /\ f.pc = "parse"
    BY <1>12 DEF PassReturned, Resumes
  <2>2. SoundGo(t, f)
    BY <1>2, <1>4, <2>1 DEF SoundGo, FrameSound, LoadSound
  <2> QED  BY <2>2 DEF SoundMove
<1>13. CASE Parse(t)
  <2> DEFINE todo == f.todo \cup Nodes[b]
             g == [f EXCEPT !.at = @ + 1, !.pc = "prescan", !.todo = todo]
             h == [f EXCEPT !.pc = "decode", !.todo = todo]
  <2>1. Return(t, Failed) \/ (Nodes[b] \subseteq registered \cup declared /\ (Continue(t, g) \/ Continue(t, h)))
    BY <1>2, <1>13 DEF Parse
  <2>2. CASE Return(t, Failed)
    BY <1>2, <2>2 DEF SoundReturn, SoundMove
  <2>3. CASE Nodes[b] \subseteq registered \cup declared /\ (Continue(t, g) \/ Continue(t, h))
    <3>1. ASSUME outer PROVE Nodes[b] \subseteq Told
      <4> SUFFICES ASSUME NEW w \in Nodes[b] PROVE w \in Told
        OBVIOUS
      <4>1. w \in Word
        BY <1>2, ProjectAssumption
      <4>2. CASE w \in registered
        BY <4>1, <4>2 DEF Told
      <4>3. CASE w \in declared
        <5>1. w \in Baked \/ w \in UNION {Declares[e] : e \in Dir}
          BY <4>3 DEF SoundBefore, DeclaredInv
        <5>2. w \in Known(b)
          BY <1>2, <5>1 DEF OwnKindsDeclared, Known
        <5>3. f.pc = "parse"
          BY <1>13 DEF Parse, At
        <5> QED  BY <1>4, <3>1, <5>2, <5>3
      <4> QED  BY <2>3, <4>2, <4>3
    <3>2. outer => todo \subseteq Told'
      BY <1>4, <3>1
    <3> HIDE DEF todo
    <3>3. /\ g.kind = "load" /\ g.pc = "prescan" /\ g.todo = todo /\ g.skipped = f.skipped
          /\ h.kind = "load" /\ h.pc = "decode" /\ h.todo = todo /\ h.skipped = f.skipped
      BY <1>1 DEF LoadFrames
    <3> HIDE DEF g, h
    <3> QED  BY <1>4, <1>7, <2>3, <3>2, <3>3
  <2> QED  BY <2>1, <2>2, <2>3
<1>14. CASE Decode(t)
  <2> DEFINE g(w) == [f EXCEPT !.todo = @ \ {w}]
  <2>1. PICK w : Continue(t, g(w)) /\ f.pc = "decode"
    BY <1>14 DEF Decode, At
  <2>2. g(w).kind = "load" /\ g(w).pc = f.pc /\ g(w).todo = f.todo \ {w} /\ g(w).skipped = f.skipped
    BY <1>1 DEF LoadFrames
  <2> HIDE DEF g
  <2> QED  BY <1>4, <1>7, <2>1, <2>2
<1>15. CASE Lookup(t)
  <2> DEFINE g(w) == [f EXCEPT !.todo = @ \ {w}, !.node = w, !.pc = "missing"]
  <2>1. PICK w \in f.todo \ registered : Continue(t, g(w)) /\ registered' = registered
    BY <1>15 DEF Lookup, words
  <2>2. /\ g(w).kind = "load" /\ g(w).pc = "missing" /\ g(w).todo = f.todo \ {w}
        /\ g(w).node = w /\ g(w).skipped = f.skipped
    BY <1>1 DEF LoadFrames
  <2> HIDE DEF g
  <2>3. SoundGo(t, g(w))
    BY <1>2, <1>4, <2>1, <2>2 DEF SoundGo, FrameSound, LoadSound
  <2> QED  BY <2>3 DEF SoundMove
<1>16. CASE DeferOrSkip(t)
  <2> DEFINE skip == [word |-> f.node, why |-> cause[f.node]]
             g == [f EXCEPT !.deferred = @ \cup {f.node}, !.node = None, !.pc = "decode"]
             h == [f EXCEPT !.skipped = @ \cup {skip}, !.node = None, !.pc = "decode"]
  <2>1. f.pc = "missing" /\ (Continue(t, g) \/ Continue(t, h))
    BY <1>16 DEF DeferOrSkip, At
  <2>2. outer => skip.why # None
    <3> SUFFICES ASSUME outer PROVE cause[f.node] # None
      OBVIOUS
    <3>1. f.node \notin registered
      BY <1>1, <1>2, <2>1 DEF SoundBefore, Looked, Idle
    <3>2. f.node \in Told
      BY <1>4, <2>1
    <3> QED  BY <3>1, <3>2 DEF Told
  <2> HIDE DEF skip
  <2>3. /\ g.kind = "load" /\ g.pc = "decode" /\ g.todo = f.todo /\ g.skipped = f.skipped
        /\ h.kind = "load" /\ h.pc = "decode" /\ h.todo = f.todo /\ h.skipped = f.skipped \cup {skip}
    BY <1>1 DEF LoadFrames
  <2> HIDE DEF g, h
  <2> QED  BY <1>4, <1>7, <2>1, <2>2, <2>3
<1>17. CASE LoadDone(t) \/ LoadFails(t)
  <2>1. PICK outcome : Return(t, outcome)
    BY <1>17 DEF LoadDone, LoadFails
  <2> QED  BY <1>2, <2>1 DEF SoundReturn, SoundMove
<1> QED  BY <1>8, <1>9, <1>10, <1>11, <1>12, <1>13, <1>14, <1>15, <1>16, <1>17 DEF LoadStep

\* A pass ends when each of its words is served or has a cause.
LEMMA PassSoundly ==
  ASSUME NEW t \in Thread, SoundBefore(t), Told \subseteq Told', PassStep(t)
  PROVE  ~Idle(t) /\ SoundMove(t)
<1>1. ~Idle(t) /\ Top(t) \in PassFrames
  <2>1. ~Idle(t) /\ Top(t).kind = "pass"
    BY DEF PassStep, PassLoads, PassLoaded, ScanFails, Pick, Picked, CandiesDone, Finalize,
           Clear, At, Resumes
  <2> QED  BY <2>1, FrameTyped, FrameKinds DEF SoundBefore
<1> SUFFICES SoundMove(t)
  BY <1>1
<1> DEFINE f == Top(t)
<1>2. f = stack[t][1] /\ 1 \in 1..Len(stack[t]) /\ f.kind = "pass" /\ f.need \subseteq Word
  <2>1. stack[t] \in Seq(Frame) /\ stack[t] # <<>>
    BY <1>1 DEF SoundBefore, TypeOK, Idle
  <2> QED  BY <1>1, <2>1 DEF Top, PassFrames
<1>3. PassesIn(stack[t]) # {} /\ FrameSound(f, Told, declared)
  BY <1>2 DEF SoundBefore, Sound, PassesIn
<1>4. ASSUME NEW g, Continue(t, g), g.kind = "pass", g.need = f.need,
             g.pc = "clear" => f.need \subseteq Told'
      PROVE  SoundMove(t)
  <2>1. SoundGo(t, g)
    BY <1>2, <1>4 DEF SoundGo, FrameSound, LoadSound
  <2> QED  BY <2>1 DEF SoundMove
<1>5. ASSUME NEW g, NEW h, Call(t, g, h), g.kind = "pass", g.need = f.need, g.pc # "clear",
             h.kind # "connect" => h.kind = "load" /\ h.pc = "prescan"
      PROVE  SoundMove(t)
  <2>1. h.kind # "pass"
    BY <1>5
  <2>2. SoundCall(t, g, h)
    BY <1>2, <1>3, <1>5, <2>1 DEF SoundCall, FrameSound, LoadSound
  <2> QED  BY <2>2 DEF SoundMove
<1>6. ASSUME NEW pc, NEW todo
      PROVE  /\ [f EXCEPT !.pc = pc].kind = "pass" /\ [f EXCEPT !.pc = pc].need = f.need
             /\ [f EXCEPT !.pc = pc].pc = pc
             /\ [f EXCEPT !.todo = todo].kind = "pass" /\ [f EXCEPT !.todo = todo].need = f.need
             /\ [f EXCEPT !.todo = todo].pc = f.pc
             /\ [f EXCEPT !.pc = pc, !.todo = todo].kind = "pass"
             /\ [f EXCEPT !.pc = pc, !.todo = todo].need = f.need
             /\ [f EXCEPT !.pc = pc, !.todo = todo].pc = pc
  BY <1>1 DEF PassFrames
<1>7. ASSUME RecordFailure(t) PROVE SoundMove(t)
  <2> DEFINE g == [f EXCEPT !.pc = "baked", !.todo = @ \cup f.need]
  <2>1. Continue(t, g)
    BY <1>7 DEF RecordFailure
  <2>2. g.kind = "pass" /\ g.need = f.need /\ g.pc = "baked"
    BY <1>6
  <2> HIDE DEF g
  <2> QED  BY <1>4, <2>1, <2>2
<1>8. CASE PassLoads(t)
  <2>1. Call(t, f, LoadFrame(f.dir)) /\ f.pc \in {"config", "scan"}
    BY <1>8 DEF PassLoads, At
  <2>2. LoadFrame(f.dir).kind = "load" /\ LoadFrame(f.dir).pc = "prescan"
    BY DEF LoadFrame
  <2> QED  BY <1>2, <1>5, <2>1, <2>2
<1>9. CASE PassLoaded(t)
  <2> DEFINE g == [f EXCEPT !.pc = "scan"]
             h == [f EXCEPT !.pc = "candies", !.todo = Wanted(f)]
  <2>1. RecordFailure(t) \/ Continue(t, g) \/ Continue(t, h)
    BY <1>9 DEF PassLoaded
  <2>2. /\ g.kind = "pass" /\ g.need = f.need /\ g.pc = "scan"
        /\ h.kind = "pass" /\ h.need = f.need /\ h.pc = "candies"
    BY <1>6
  <2> HIDE DEF g, h
  <2> QED  BY <1>4, <1>7, <2>1, <2>2
<1>10. CASE ScanFails(t)
  BY <1>7, <1>10 DEF ScanFails
<1>11. CASE Pick(t)
  <2> DEFINE g(w) == [f EXCEPT !.todo = @ \ {w}]
  <2>1. PICK w : Continue(t, g(w)) \/ Call(t, g(w), ConnectFrame(w))
    BY <1>11 DEF Pick
  <2>2. f.pc # "clear"
    BY <1>11 DEF Pick, At
  <2>3. g(w).kind = "pass" /\ g(w).need = f.need /\ g(w).pc = f.pc
    BY <1>6
  <2>4. ConnectFrame(w).kind = "connect"
    BY DEF ConnectFrame
  <2> HIDE DEF g
  <2> QED  BY <1>4, <1>5, <2>1, <2>2, <2>3, <2>4
<1>12. CASE Picked(t)
  <2>1. (RecordFailure(t) \/ Continue(t, f)) /\ f.pc # "clear"
    BY <1>12 DEF Picked, Resumes
  <2> QED  BY <1>2, <1>4, <1>7, <2>1
<1>13. CASE CandiesDone(t)
  <2> DEFINE g == [f EXCEPT !.pc = "baked", !.todo = f.need]
  <2>1. Continue(t, g)
    BY <1>13 DEF CandiesDone
  <2>2. g.kind = "pass" /\ g.need = f.need /\ g.pc = "baked"
    BY <1>6
  <2> HIDE DEF g
  <2> QED  BY <1>4, <2>1, <2>2
<1>14. CASE Finalize(t)
  <2> DEFINE g == [f EXCEPT !.pc = "clear"]
  <2>1. Continue(t, g)
    BY <1>14 DEF Finalize, Step
  <2>2. g.kind = "pass" /\ g.need = f.need
    BY <1>6
  <2>3. ASSUME NEW w \in f.need PROVE w \in Told'
    <3>1. registered' = registered
      BY <1>14 DEF Finalize
    <3>2. w \in Word /\ (w \notin registered => cause'[w] = IF cause[w] = None THEN Silent ELSE cause[w])
      BY <1>2, <1>14, <2>3 DEF Finalize
    <3>3. w \in registered' \/ cause'[w] # None
      BY <3>1, <3>2, ProjectAssumption
    <3> QED  BY <3>2, <3>3 DEF Told
  <2> HIDE DEF g
  <2> QED  BY <1>4, <2>1, <2>2, <2>3
<1>15. CASE Clear(t)
  <2>1. Return(t, Done) /\ f.pc = "clear"
    BY <1>15 DEF Clear, At
  <2>2. SoundReturn(t, Done)
    BY <1>2, <1>3, <2>1 DEF SoundReturn, FrameSound
  <2> QED  BY <2>2 DEF SoundMove
<1> QED  BY <1>8, <1>9, <1>10, <1>11, <1>12, <1>13, <1>14, <1>15 DEF PassStep

\* Connects and questions for the bounds have no words of their own.
LEMMA ConnectSoundly ==
  ASSUME NEW t \in Thread, SoundBefore(t), ConnectStep(t) \/ ReadyStep(t)
  PROVE  ~Idle(t) /\ SoundMove(t)
<1>1. ~Idle(t) /\ Top(t) \in ConnectFrames \cup ReadyFrames
  <2>1. ~Idle(t) /\ Top(t).kind \in {"connect", "ready"}
    BY DEF ConnectStep, AskReadiness, Connect, ConnectFails, Connecting, ReadyStep, TestLoading,
           Resolve, Resolved, UseCached, At, Resumes
  <2> QED  BY <2>1, FrameTyped, FrameKinds DEF SoundBefore
<1> SUFFICES SoundMove(t)
  BY <1>1
<1>2. Top(t).kind \in {"connect", "ready"}
  BY <1>1 DEF ConnectFrames, ReadyFrames
<1>3. ASSUME NEW g, NEW h, Call(t, g, h), g.kind = Top(t).kind,
             h = ReadyFrame \/ h = LoadFrame(Root)
      PROVE  SoundMove(t)
  <2>1. h.kind # "pass" /\ (h.kind = "load" => h.pc = "prescan" /\ h.todo = {} /\ h.skipped = {})
    BY <1>3 DEF ReadyFrame, LoadFrame
  <2>2. SoundCall(t, g, h)
    BY <1>2, <1>3, <2>1 DEF SoundCall, FrameSound, LoadSound
  <2> QED  BY <2>2 DEF SoundMove
<1>4. ASSUME NEW g, Continue(t, g), g.kind = Top(t).kind PROVE SoundMove(t)
  <2>1. SoundGo(t, g)
    BY <1>2, <1>4 DEF SoundGo, FrameSound, LoadSound
  <2> QED  BY <2>1 DEF SoundMove
<1>5. ASSUME NEW outcome, Return(t, outcome) PROVE SoundMove(t)
  <2>1. SoundReturn(t, outcome)
    BY <1>2, <1>5 DEF SoundReturn
  <2> QED  BY <2>1 DEF SoundMove
<1>6. CASE ConnectStep(t)
  <2>1. [Top(t) EXCEPT !.ready = TRUE].kind = Top(t).kind
    BY <1>1 DEF ConnectFrames, ReadyFrames
  <2>2. \/ Call(t, [Top(t) EXCEPT !.ready = TRUE], ReadyFrame)
        \/ Return(t, Done) \/ Return(t, Failed)
    BY <1>6 DEF ConnectStep, AskReadiness, Connect, ConnectFails
  <2> QED  BY <1>3, <1>5, <2>1, <2>2
<1>7. CASE ReadyStep(t)
  <2>1. \A pc : [Top(t) EXCEPT !.pc = pc].kind = Top(t).kind
    BY <1>1 DEF ConnectFrames, ReadyFrames
  <2>2. \/ Return(t, Done)
        \/ Continue(t, [Top(t) EXCEPT !.pc = "do"])
        \/ Call(t, [Top(t) EXCEPT !.pc = "resolved"], LoadFrame(Root))
    BY <1>7 DEF ReadyStep, TestLoading, Resolve, Resolved, UseCached, Step
  <2> QED  BY <1>3, <1>4, <1>5, <2>1, <2>2
<1> QED  BY <1>6, <1>7

\* A host call starts with nothing parsed.
LEMMA HostCallSoundly ==
  ASSUME NEW t \in Thread, TypeOK, HostCall(t)
  PROVE  SoundAfter(t)
<1>1. PICK f : stack'[t] = <<f>> /\ (f = ReadyFrame \/ \E p \in Dir : f = LoadFrame(p))
  BY DEF HostCall, CallLoad, CallReadiness, TypeOK
<1>2. f.kind # "pass" /\ (f.kind = "load" => f.pc = "prescan" /\ f.todo = {} /\ f.skipped = {})
  BY <1>1 DEF ReadyFrame, LoadFrame
<1> DEFINE n == <<f>>
<1>3. n[1] = f /\ 1..Len(n) = {1}
  OBVIOUS
<1> HIDE DEF n
<1>4. Sound(n, Told', declared') /\ Looked(n, registered')
  BY <1>2, <1>3 DEF Sound, FrameSound, LoadSound, Looked
<1> QED  BY <1>1, <1>4 DEF SoundAfter, n

\* Declarations come from pre-scans.
LEMMA DeclaredStep ==
  ASSUME TypeOK, DeclaredInv, NEW t \in Thread, HostCall(t) \/ Run(t)
  PROVE  DeclaredInv'
<1>1. ASSUME declared' = declared PROVE DeclaredInv'
  BY <1>1 DEF DeclaredInv
<1>2. CASE Prescan(t)
  <2>1. ~Idle(t) /\ Top(t).kind = "load"
    BY <1>2 DEF Prescan, At
  <2>2. Boundary(t) \in Dir
    BY <2>1, FrameTyped, FrameKinds, BoundaryTyped
  <2>3. declared' = declared \cup Declares[Boundary(t)]
    BY <1>2 DEF Prescan
  <2> QED  BY <2>2, <2>3 DEF DeclaredInv
<1>3. CASE HostCall(t)
  BY <1>1, <1>3 DEF HostCall, CallLoad, CallReadiness, words
<1>4. CASE LoadStep(t) /\ ~Prescan(t)
  <2>1. declared' = declared
    BY <1>4 DEF LoadStep, Guard, NothingMissing, StartPass, PassReturned, Parse, Decode,
                Lookup, DeferOrSkip, LoadDone, LoadFails, words
  <2> QED  BY <1>1, <2>1
<1>5. CASE PassStep(t)
  <2>1. declared' = declared
    BY <1>5 DEF PassStep, PassLoads, PassLoaded, ScanFails, Pick, Picked, CandiesDone, Finalize,
                Clear, words
  <2> QED  BY <1>1, <2>1
<1>6. CASE ConnectStep(t) \/ ReadyStep(t)
  <2>1. declared' = declared
    BY <1>6 DEF ConnectStep, AskReadiness, Connect, ConnectFails, ReadyStep, TestLoading,
                Resolve, Resolved, UseCached, words
  <2> QED  BY <1>1, <2>1
<1> QED  BY <1>2, <1>3, <1>4, <1>5, <1>6 DEF Run

\* A process that loads on one goroutine can name a cause for every entity a load leaves out,
\* provided a project's documents use no kind that only another project's plugins declare: such
\* a kind may come to be declared, by the load that reads the wait bounds, after the pass of the
\* document's own boundary was told what to connect.
THEOREM EverySkipHasACause ==
  ASSUME NEW only, Thread = {only}, OwnKindsDeclared
  PROVE  Spec => []SkipsHaveCause
<1>0. only \in Thread
  OBVIOUS
<1>1. Init => DeclaredInv /\ Sound(stack[only], Told, declared) /\ Looked(stack[only], registered)
  <2> SUFFICES ASSUME Init
               PROVE  DeclaredInv /\ Sound(stack[only], Told, declared) /\ Looked(stack[only], registered)
    OBVIOUS
  <2>1. stack[only] = <<>> /\ declared = Baked
    BY DEF Init
  <2>2. 1..Len(stack[only]) = {}
    BY <2>1
  <2> QED  BY <2>1, <2>2 DEF DeclaredInv, Sound, Looked
<1>2. TypeOK /\ Disciplined(stack[only], passing) /\ DeclaredInv /\ Sound(stack[only], Told, declared)
        /\ Looked(stack[only], registered) /\ [Next]_vars
      => DeclaredInv' /\ Sound(stack[only], Told, declared)' /\ Looked(stack[only], registered)'
  <2> SUFFICES ASSUME SoundBefore(only), [Next]_vars
               PROVE  DeclaredInv' /\ Sound(stack'[only], Told', declared') /\ Looked(stack'[only], registered')
    BY DEF SoundBefore
  <2>1. CASE UNCHANGED vars
    <3>1. Told' = Told /\ declared' = declared /\ registered' = registered /\ stack' = stack
      BY <2>1 DEF vars, words, Told
    <3> QED  BY <3>1 DEF SoundBefore, DeclaredInv
  <2>2. CASE HostCall(only) \/ Run(only)
    <3>1. DeclaredInv'
      BY <1>0, <2>2, DeclaredStep DEF SoundBefore
    <3>2. Told \subseteq Told' /\ declared \subseteq declared'
      BY <1>0, <2>2, ToldGrows, WordsGrow DEF SoundBefore
    <3>3. CASE HostCall(only)
      BY <1>0, <3>1, <3>3, HostCallSoundly DEF SoundBefore, SoundAfter
    <3>4. CASE Run(only)
      <4>1. ~Idle(only) /\ SoundMove(only)
        BY <1>0, <3>2, <3>4, LoadSoundly, PassSoundly, ConnectSoundly DEF Run
      <4>2. SoundAfter(only)
        BY <1>0, <3>2, <4>1, MovesSound
      <4> QED  BY <3>1, <4>2 DEF SoundAfter
    <3> QED  BY <2>2, <3>3, <3>4
  <2> QED  BY <2>1, <2>2 DEF Next
<1>3. TypeOK /\ Sound(stack[only], Told, declared) => SkipsHaveCause
  <2> SUFFICES ASSUME TypeOK, Sound(stack[only], Told, declared), NEW i \in Outer(only),
                      NEW skip \in stack[only][i].skipped
               PROVE  skip.why # None
    BY DEF SkipsHaveCause, OuterLoads
  <2>1. i \in 1..Len(stack[only]) /\ stack[only][i].kind = "load" /\ \A j \in Passes(only) : j < i
    BY DEF Outer
  <2>2. Passes(only) = PassesIn(stack[only]) /\ PassesIn(stack[only]) \subseteq Nat
    BY DEF Passes, PassesIn
  <2>3. i \in OuterIn(stack[only])
    BY <2>1, <2>2 DEF OuterIn
  <2> QED  BY <2>1, <2>3 DEF Sound, LoadSound
<1> QED  BY <1>1, <1>2, <1>3, OneGoroutine, PTL DEF Spec

=============
