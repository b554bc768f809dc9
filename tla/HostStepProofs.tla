---------------------------- MODULE HostStepProofs ----------------------------
(* Theorems about HostStep, for every plan, any depth of plugins and any failures. *)
EXTENDS HostStep, TLAPS

(***************************************************************************)
(* Types                                                                   *)
(***************************************************************************)

Reply == [ok : BOOLEAN, rev : SUBSET Step]

\* The top of a stack is a frame, and what is below it a stack of frames.
LEMMA FrameTyped ==
  ASSUME TypeOK, ~Idle
  PROVE  Top \in Frame /\ Below \in Seq(Frame)
<1>1. stack \in Seq(Frame) /\ stack # <<>>
  BY DEF TypeOK, Idle
<1> QED  BY <1>1 DEF Top, Below

\* One or two frames on a stack of frames make a stack of frames.
LEMMA PushTyped ==
  ASSUME NEW S, NEW s \in Seq(S), NEW f \in S, NEW g \in S
  PROVE  <<f>> \o s \in Seq(S) /\ <<f, g>> \o s \in Seq(S)
OBVIOUS

\* The kind of a frame is the set it belongs to.
LEMMA FrameKinds ==
  ASSUME NEW f \in Frame
  PROVE  /\ f.kind = "fleet" => f \in FleetFrames
         /\ f.kind = "handler" => f \in HandlerFrames
         /\ f.kind = "act" => f \in ActFrames
         /\ f.kind = "reboot" => f \in RebootFrames
BY DEF Frame, FleetFrames, HandlerFrames, ActFrames, RebootFrames

\* A handler's channel and plan make a typed frame.
LEMMA HandlerTyped ==
  ASSUME NEW v \in Venue \cup {None}, NEW leave \in BOOLEAN, NEW plan \in SUBSET Step,
         NEW c, c.venue = v, c.rebootable = leave
  PROVE  Handler(c, plan) \in HandlerFrames
BY DEF Handler, HandlerFrames

\* Replies are typed.
LEMMA ReplyTyped ==
  /\ Failed \in Reply
  /\ \A rev \in SUBSET Step : Done(rev) \in Reply
BY DEF Failed, Done, Reply

\* Control: the top frame calls, goes on, is answered or returns, all of it typed.
Moves ==
  \E f, g \in Frame, reply \in Reply :
    Call(f, g) \/ Continue(f) \/ Answer(f, reply) \/ Return(reply)

\* The venues and what the walk did there, typed.
DataTypes ==
  /\ boot \in [Venue -> Nat \ {0}] /\ up \in [Venue -> BOOLEAN] /\ armed \in [Venue -> BOOLEAN]
  /\ blind \subseteq Venue /\ expired \subseteq Venue
  /\ acts \in [Step -> SUBSET {"user", "system"}]
  /\ walks \in 0..MaxWalks

\* Typed control and typed data make a typed state.
LEMMA MovesTyped ==
  ASSUME TypeOK, ~Idle, Moves, DataTypes'
  PROVE  TypeOK'
<1>1. PICK f, g \in Frame, reply \in Reply :
        Call(f, g) \/ Continue(f) \/ Answer(f, reply) \/ Return(reply)
  BY DEF Moves
<1>2. Below \in Seq(Frame) /\ <<f>> \o Below \in Seq(Frame) /\ <<g, f>> \o Below \in Seq(Frame)
  BY FrameTyped, PushTyped
<1>3. stack' \in Seq(Frame) /\ ret' \in Reply \cup {None}
  BY <1>1, <1>2 DEF Call, Continue, Answer, Return
<1> QED  BY <1>3 DEF DataTypes, TypeOK, Reply

\* A step that changes the control only keeps the data typed.
LEMMA DataKept ==
  ASSUME TypeOK, UNCHANGED <<guest, history, acts, walks>>
  PROVE  DataTypes'
BY DEF TypeOK, DataTypes, guest, history

\* A walk starts with one typed frame.
LEMMA BeginTyped ==
  ASSUME TypeOK, NEW f \in Frame, Begin(f)
  PROVE  TypeOK'
<1>1. <<f>> \in Seq(Frame)
  OBVIOUS
<1>2. walks + 1 \in 0..MaxWalks
  BY PlanAssumption DEF TypeOK, Begin
<1>3. [s \in Step |-> {}] \in [Step -> SUBSET {"user", "system"}]
  OBVIOUS
<1> QED  BY <1>1, <1>2, <1>3 DEF Begin, TypeOK, guest, history

LEMMA DispatchTyped ==
  ASSUME TypeOK, Dispatch
  PROVE  TypeOK'
<1>1. ASSUME NEW v \in Venue, NEW leave \in BOOLEAN PROVE Fleet(v, leave) \in Frame
  BY DEF Fleet, Frame, FleetFrames
<1>2. Host \in Venue
  BY DEF Venue
<1>3. CASE DispatchDeploy
  <2>1. PICK v \in Venue, leave \in BOOLEAN : Begin(Fleet(v, leave))
    BY <1>2, <1>3 DEF DispatchDeploy
  <2>2. Fleet(v, leave) \in Frame
    BY <1>1
  <2> QED  BY <2>1, <2>2, BeginTyped
<1>4. CASE DispatchCommand
  <2>1. Handler([venue |-> None, rebootable |-> FALSE], Plan) \in Frame
    BY HandlerTyped, PlanAssumption DEF Frame
  <2> QED  BY <1>4, <2>1, BeginTyped DEF DispatchCommand
<1> QED  BY <1>3, <1>4 DEF Dispatch

\* A handler that has sent a step is still one, and so is one that has collected a reply.
LEMMA HandlerMoves ==
  ASSUME NEW f \in HandlerFrames
  PROVE  /\ \A s : [f EXCEPT !.plan = @ \ {s}] \in HandlerFrames
         /\ \A rev \in SUBSET Step : [f EXCEPT !.rev = @ \cup rev] \in HandlerFrames
BY DEF HandlerFrames

\* The request for a step comes from a handler.
LEMMA Requester ==
  ASSUME TypeOK, NEW s \in Step, Requests(s)
  PROVE  /\ ~Idle /\ Top \in HandlerFrames /\ Rest(s) \in HandlerFrames
         /\ Rest(s) \in Frame
<1>1. ~Idle /\ Top.kind = "handler"
  BY DEF Requests, Running
<1>2. Top \in HandlerFrames
  BY <1>1, FrameTyped, FrameKinds
<1>3. Rest(s) \in HandlerFrames
  BY <1>2, HandlerMoves DEF Rest
<1> QED  BY <1>1, <1>2, <1>3 DEF Frame

\* What the host does with a step it was sent keeps the types.
LEMMA RequestTyped ==
  ASSUME TypeOK, NEW s \in Step,
         RefuseStep(s) \/ RunAct(s) \/ InvokeStep(s) \/ SkipReboot(s) \/ RunReboot(s)
  PROVE  TypeOK'
<1>1. Requests(s) /\ UNCHANGED <<guest, history, acts, walks>>
  BY DEF RefuseStep, RunAct, InvokeStep, SkipReboot, RunReboot
<1>2. ~Idle /\ Top \in HandlerFrames /\ Rest(s) \in Frame
  BY <1>1, Requester
<1>3. Top.venue \in Venue \cup {None} /\ Top.rebootable \in BOOLEAN
  BY <1>2 DEF HandlerFrames
<1>4. Moves
  <2>1. CASE RefuseStep(s)
    BY <1>2, <2>1, ReplyTyped DEF RefuseStep, Moves
  <2>2. CASE RunAct(s)
    <3>1. ActFrame(s, Top.venue) \in Frame
      BY <1>3, <2>2 DEF RunAct, ActFrame, ActFrames, Frame
    <3> QED  BY <1>2, <2>2, <3>1, ReplyTyped DEF RunAct, Moves
  <2>3. CASE InvokeStep(s)
    <3>1. Inner[s] \in SUBSET Step
      BY <2>3, PlanAssumption DEF InvokeStep
    <3>2. Channel(Top, None).venue = Top.venue /\ Channel(Top, None).rebootable = Top.rebootable
      BY DEF Channel
    <3>3. Handler(Channel(Top, None), Inner[s]) \in Frame
      BY <1>3, <3>1, <3>2, HandlerTyped DEF Frame
    <3> QED  BY <1>2, <2>3, <3>3, ReplyTyped DEF InvokeStep, Moves
  <2>4. CASE SkipReboot(s)
    <3>1. Done({}) \in Reply
      BY ReplyTyped
    <3> QED  BY <1>2, <2>4, <3>1 DEF SkipReboot, Moves
  <2>5. CASE RunReboot(s)
    <3>1. Polls \in 0..Polls
      BY PlanAssumption
    <3>2. RebootFrame(s, Top.venue) \in Frame
      BY <1>3, <2>5, <3>1 DEF RunReboot, RebootFrame, RebootFrames, Frame, Unread
    <3> QED  BY <1>2, <2>5, <3>2, ReplyTyped DEF RunReboot, Moves
  <2> QED  BY <2>1, <2>2, <2>3, <2>4, <2>5
<1> QED  BY <1>1, <1>2, <1>4, MovesTyped, DataKept

\* The other steps of handlers keep the types.
LEMMA HandlerStepTyped ==
  ASSUME TypeOK, HandlerStep
  PROVE  TypeOK'
<1>1. CASE InvokeSubstrate
  <2>1. ~Idle /\ Top \in FleetFrames
    <3>1. ~Idle /\ Top.kind = "fleet"
      BY <1>1 DEF InvokeSubstrate, Running
    <3> QED  BY <3>1, FrameTyped, FrameKinds
  <2>2. Top.venue \in Venue /\ Top.rebootable \in BOOLEAN /\ Top \in Frame
    BY <2>1 DEF FleetFrames, Frame
  <2> DEFINE d == IF Top.rebootable THEN Guest ELSE None
  <2>3. Channel(Top, d).venue \in Venue \cup {None} /\ Channel(Top, d).rebootable \in BOOLEAN
    BY <2>2 DEF Channel, Venue
  <2>4. Handler(Channel(Top, d), Plan) \in Frame
    BY <2>3, PlanAssumption, HandlerTyped DEF Frame
  <2>5. Moves
    BY <1>1, <2>2, <2>4, ReplyTyped DEF InvokeSubstrate, Moves
  <2> QED  BY <1>1, <2>1, <2>5, MovesTyped, DataKept DEF InvokeSubstrate
<1>2. CASE FleetReplies
  <2>1. ~Idle /\ ret \in Reply
    BY <1>2 DEF FleetReplies, Replied, TypeOK, Reply
  <2>2. Moves
    BY <1>2, <2>1, FrameTyped DEF FleetReplies, Moves
  <2> QED  BY <1>2, <2>1, <2>2, MovesTyped, DataKept DEF FleetReplies
<1>3. CASE StepReplied
  <2>1. ~Idle /\ Top.kind = "handler" /\ ret \in Reply
    BY <1>3 DEF StepReplied, Replied, TypeOK, Reply
  <2>2. Top \in HandlerFrames /\ Top \in Frame /\ ret.rev \in SUBSET Step
    BY <2>1, FrameTyped, FrameKinds DEF Reply
  <2>3. [Top EXCEPT !.rev = @ \cup ret.rev] \in Frame
    BY <2>2, HandlerMoves DEF Frame
  <2>4. Moves
    BY <1>3, <2>2, <2>3, ReplyTyped DEF StepReplied, Moves
  <2> QED  BY <1>3, <2>1, <2>4, MovesTyped, DataKept DEF StepReplied
<1>4. CASE HandlerDone
  <2>1. ~Idle /\ Top.kind = "handler"
    BY <1>4 DEF HandlerDone, Running
  <2>2. Top \in Frame /\ Top.rev \in SUBSET Step
    BY <2>1, FrameTyped, FrameKinds DEF HandlerFrames
  <2>3. Done(Top.rev) \in Reply
    BY <2>2, ReplyTyped
  <2>4. Moves
    BY <1>4, <2>2, <2>3 DEF HandlerDone, Moves
  <2> QED  BY <1>4, <2>1, <2>4, MovesTyped, DataKept DEF HandlerDone
<1>5. CASE HandlerFails
  <2>1. ~Idle
    BY <1>5 DEF HandlerFails, Running
  <2>2. Moves
    BY <1>5, <2>1, FrameTyped, ReplyTyped DEF HandlerFails, Moves
  <2> QED  BY <1>5, <2>1, <2>2, MovesTyped, DataKept DEF HandlerFails
<1> QED  BY <1>1, <1>2, <1>3, <1>4, <1>5, RequestTyped DEF HandlerStep

\* Scripts keep the types.
LEMMA ActTyped ==
  ASSUME TypeOK, ActStep
  PROVE  TypeOK'
<1>1. ~Idle /\ Top.kind = "act"
  BY DEF ActStep, RunAsUser, RunAsSystem, At, Running
<1>2. Top \in ActFrames /\ Top \in Frame
  BY <1>1, FrameTyped, FrameKinds
<1>3. Top.step \in Step
  BY <1>2 DEF ActFrames, Step
<1>4. [Top EXCEPT !.pc = "system"] \in Frame
  BY <1>2 DEF ActFrames, Frame
<1>5. ASSUME NEW ok \in BOOLEAN PROVE ActReply(ok) \in Reply
  BY <1>3, ReplyTyped DEF ActReply
<1>6. ASSUME NEW scope \in {"user", "system"}, NEW ok \in BOOLEAN, Runs(scope, ok),
             UNCHANGED <<guest, history, walks>>
      PROVE  DataTypes'
  <2>1. acts' \in [Step -> SUBSET {"user", "system"}]
    BY <1>3, <1>6 DEF Runs, TypeOK
  <2> QED  BY <1>6, <2>1 DEF TypeOK, DataTypes, guest, history
<1>7. CASE RunAsUser
  <2>1. PICK ok \in BOOLEAN :
          /\ Runs("user", ok)
          /\ Continue([Top EXCEPT !.pc = "system"]) \/ Return(ActReply(ok))
    BY <1>7 DEF RunAsUser
  <2>2. Moves
    BY <1>2, <1>4, <1>5, <2>1 DEF Moves
  <2> QED  BY <1>1, <1>6, <1>7, <2>1, <2>2, MovesTyped DEF RunAsUser
<1>8. CASE RunAsSystem
  <2>1. PICK ok \in BOOLEAN : Runs("system", ok) /\ Return(ActReply(ok))
    BY <1>8 DEF RunAsSystem
  <2>2. Moves
    BY <1>2, <1>5, <2>1 DEF Moves
  <2> QED  BY <1>1, <1>6, <1>8, <2>1, <2>2, MovesTyped DEF RunAsSystem
<1> QED  BY <1>7, <1>8 DEF ActStep

\* The steps of a reboot keep the types.
LEMMA RebootTyped ==
  ASSUME TypeOK, RebootStep
  PROVE  TypeOK'
<1>1. ~Idle /\ Top.kind = "reboot"
  BY DEF RebootStep, CommandStep, PollStep, ReadBoot, FireReboot, PollBoot, PollExpires, At, Running
<1>2. Top \in RebootFrames /\ Top \in Frame
  BY <1>1, FrameTyped, FrameKinds
<1>3. Top.venue \in Venue /\ Top.left \in 0..Polls
  BY <1>2 DEF RebootFrames
<1>4. Done({}) \in Reply /\ Failed \in Reply
  BY ReplyTyped
<1>5. CASE ReadBoot
  <2>1. PICK id \in Seen(Top.venue) : Continue([Top EXCEPT !.old = id, !.pc = "fire"])
    BY <1>5 DEF ReadBoot
  <2>2. id \in Nat
    BY <1>3, <2>1 DEF Seen, Unread, TypeOK
  <2>3. [Top EXCEPT !.old = id, !.pc = "fire"] \in Frame
    BY <1>2, <2>2 DEF RebootFrames, Frame
  <2>4. Moves
    BY <1>2, <1>4, <2>1, <2>3 DEF Moves
  <2> QED  BY <1>1, <1>5, <2>4, MovesTyped, DataKept DEF ReadBoot
<1>6. CASE FireReboot
  <2>1. [Top EXCEPT !.pc = "poll"] \in Frame
    BY <1>2 DEF RebootFrames, Frame
  <2>2. Moves
    BY <1>2, <1>4, <1>6, <2>1 DEF FireReboot, Moves
  <2>3. DataTypes'
    BY <1>3, <1>6 DEF FireReboot, DataTypes, TypeOK, history
  <2> QED  BY <1>1, <2>2, <2>3, MovesTyped
<1>7. CASE PollBoot
  <2>1. [Top EXCEPT !.left = @ - 1] \in Frame
    <3>1. Top.left - 1 \in 0..Polls
      BY <1>3, <1>7, PlanAssumption DEF PollBoot
    <3> QED  BY <1>2, <3>1 DEF RebootFrames, Frame
  <2>2. Moves
    BY <1>2, <1>4, <1>7, <2>1 DEF PollBoot, Moves
  <2>3. DataTypes'
    BY <1>3, <1>7 DEF PollBoot, DataTypes, TypeOK, guest
  <2> QED  BY <1>1, <2>2, <2>3, MovesTyped
<1>8. CASE PollExpires
  <2>1. Moves
    BY <1>2, <1>4, <1>8 DEF PollExpires, Moves
  <2>2. DataTypes'
    BY <1>3, <1>8 DEF PollExpires, DataTypes, TypeOK, guest
  <2> QED  BY <1>1, <2>1, <2>2, MovesTyped
<1> QED  BY <1>5, <1>6, <1>7, <1>8 DEF RebootStep, CommandStep, PollStep

\* The guest's own steps keep the types.
LEMMA GuestTyped ==
  ASSUME TypeOK, GuestStep
  PROVE  TypeOK'
<1>1. PICK v \in Venue : GoDown(v) \/ ComeUp(v) \/ StayUp(v)
  BY DEF GuestStep
<1>2. boot[v] + 1 \in Nat \ {0}
  BY DEF TypeOK
<1> QED  BY <1>1, <1>2 DEF GoDown, ComeUp, StayUp, TypeOK, history

LEMMA InitTyped == Init => TypeOK
BY PlanAssumption DEF Init, TypeOK

LEMMA NextTyped == TypeOK /\ [Next]_vars => TypeOK'
<1>1. ASSUME TypeOK, UNCHANGED vars PROVE TypeOK'
  BY <1>1 DEF TypeOK, vars, guest, history
<1> QED  BY <1>1, DispatchTyped, HandlerStepTyped, ActTyped, RebootTyped, GuestTyped DEF Next

\* The state keeps its types: every frame of a walk is one of the four kinds with its fields.
THEOREM TypeCorrectness == Spec => []TypeOK
BY InitTyped, NextTyped, PTL DEF Spec

(***************************************************************************)
(* Who may reboot what                                                     *)
(***************************************************************************)

\* A frame fits a walk with, or without, leave to reboot: the leave is the same at any depth, a
\* handler with leave works on the guest, and so does a reboot, which needs it.  A script that
\* is run as the system has system scope.
Fits(f, leave) ==
  /\ f.kind \in {"fleet", "handler"} => f.rebootable = leave
  /\ f.kind = "handler" /\ leave => f.venue = Guest
  /\ f.kind = "reboot" => leave /\ f.venue = Guest
  /\ f.kind = "act" /\ f.pc = "system" => f.step \in System

\* The outermost frame is the deploy's or the command's, and every frame fits it.
Orderly(s) ==
  s # <<>> =>
    /\ s[Len(s)].kind \in {"fleet", "handler"}
    /\ \A i \in 1..Len(s) : Fits(s[i], s[Len(s)].rebootable)

\* A frame that goes on keeps its kind, its venue and its leave.
Keeps(e, f) ==
  /\ f.kind = e.kind /\ f.venue = e.venue
  /\ e.kind \in {"fleet", "handler"} => f.rebootable = e.rebootable
  /\ f.kind = "act" /\ f.pc = "system" => f.step \in System

\* A frame that goes on fits where it did.
LEMMA KeepsFits ==
  ASSUME NEW e, NEW f, NEW leave, Keeps(e, f), Fits(e, leave)
  PROVE  Fits(f, leave)
BY DEF Keeps, Fits

\* An orderly stack stays orderly when its top returns.
LEMMA PopOrderly ==
  ASSUME NEW s \in Seq(Frame), s # <<>>, Orderly(s)
  PROVE  Orderly(Tail(s))
<1> DEFINE b == Tail(s)
<1> SUFFICES ASSUME b # <<>> PROVE /\ b[Len(b)].kind \in {"fleet", "handler"}
                                   /\ \A i \in 1..Len(b) : Fits(b[i], b[Len(b)].rebootable)
  BY DEF Orderly
<1>1. Len(b) = Len(s) - 1 /\ Len(b) \in Nat \ {0} /\ \A i \in 1..Len(b) : b[i] = s[i + 1]
  <2>1. b \in Seq(Frame) /\ Len(b) = Len(s) - 1 /\ \A i \in 1..Len(b) : b[i] = s[i + 1]
    OBVIOUS
  <2>2. Len(b) # 0
    BY <2>1
  <2> QED  BY <2>1, <2>2
<1>2. b[Len(b)] = s[Len(s)]
  BY <1>1
<1>3. \A i \in 1..Len(b) : i + 1 \in 1..Len(s)
  BY <1>1
<1> HIDE DEF b
<1> QED  BY <1>1, <1>2, <1>3 DEF Orderly

\* It stays orderly when its top goes on.
LEMMA NextOrderly ==
  ASSUME NEW s \in Seq(Frame), s # <<>>, Orderly(s), NEW f \in Frame, Keeps(Head(s), f)
  PROVE  Orderly(<<f>> \o Tail(s))
<1> DEFINE a == <<f>> \o Tail(s)
<1> DEFINE n == Len(s)
<1>1. /\ n \in Nat \ {0} /\ Len(a) = n /\ a[1] = f /\ Head(s) = s[1]
      /\ \A i \in 2..n : a[i] = s[i]
  OBVIOUS
<1> HIDE DEF a, n
<1>2. s[n].kind \in {"fleet", "handler"} /\ \A i \in 1..n : Fits(s[i], s[n].rebootable)
  BY DEF Orderly, n
<1>3. Keeps(s[1], a[1]) /\ \A i \in 1..n : i = 1 \/ i \in 2..n
  BY <1>1
<1>4. n \in 1..n /\ 1 \in 1..n
  BY <1>1
<1>5. a[n].kind \in {"fleet", "handler"} /\ a[n].rebootable = s[n].rebootable
  <2>1. CASE n = 1
    BY <1>2, <1>3, <2>1 DEF Keeps
  <2>2. CASE n \in 2..n
    BY <1>1, <1>2, <2>2
  <2> QED  BY <1>3, <1>4, <2>1, <2>2
<1>6. \A i \in 1..n : Fits(a[i], s[n].rebootable)
  <2>1. Fits(a[1], s[n].rebootable)
    BY <1>2, <1>3, <1>4, KeepsFits
  <2>2. \A i \in 2..n : Fits(a[i], s[n].rebootable)
    BY <1>1, <1>2, <1>3
  <2> QED  BY <1>3, <2>1, <2>2
<1> QED  BY <1>1, <1>5, <1>6 DEF Orderly, a

\* It stays orderly when a frame that fits is put on top.
LEMMA PushOrderly ==
  ASSUME NEW s \in Seq(Frame), s # <<>>, Orderly(s), NEW g \in Frame,
         Fits(g, s[Len(s)].rebootable)
  PROVE  Orderly(<<g>> \o s)
<1> DEFINE a == <<g>> \o s
<1> DEFINE n == Len(s)
<1>1. /\ n \in Nat \ {0} /\ Len(a) = n + 1 /\ a[1] = g
      /\ \A i \in 2..(n + 1) : i - 1 \in 1..n /\ a[i] = s[i - 1]
  OBVIOUS
<1>2. a[n + 1] = s[n]
  BY <1>1
<1> HIDE DEF a, n
<1>3. s[n].kind \in {"fleet", "handler"} /\ \A i \in 1..n : Fits(s[i], s[n].rebootable)
  BY DEF Orderly, n
<1>4. \A i \in 2..(n + 1) : Fits(a[i], s[n].rebootable)
  BY <1>1, <1>3
<1>5. Fits(a[1], s[n].rebootable)
  BY <1>1 DEF n
<1>6. \A i \in 1..(n + 1) : Fits(a[i], s[n].rebootable)
  BY <1>1, <1>4, <1>5
<1> QED  BY <1>1, <1>2, <1>3, <1>6 DEF Orderly, a

\* Each of the four moves of the control keeps the stack orderly.
LEMMA MovesOrderly ==
  ASSUME TypeOK, ~Idle, Orderly(stack)
  PROVE  /\ \A reply : Return(reply) => Orderly(stack)'
         /\ \A f \in Frame : Keeps(Top, f) /\ Continue(f) => Orderly(stack)'
         /\ \A f \in Frame : \A reply : Keeps(Top, f) /\ Answer(f, reply) => Orderly(stack)'
         /\ \A f, g \in Frame :
              Keeps(Top, f) /\ Fits(g, Root.rebootable) /\ Call(f, g) => Orderly(stack)'
<1>1. stack \in Seq(Frame) /\ stack # <<>> /\ Tail(stack) \in Seq(Frame)
  BY DEF TypeOK, Idle
<1>2. ASSUME NEW reply, Return(reply) PROVE Orderly(stack')
  BY <1>1, <1>2, PopOrderly DEF Return, Below
<1>3. ASSUME NEW f \in Frame, Keeps(Top, f) PROVE Orderly(<<f>> \o Tail(stack))
  BY <1>1, <1>3, NextOrderly DEF Top
<1>4. ASSUME NEW f \in Frame, NEW g \in Frame, Keeps(Top, f), Fits(g, Root.rebootable), Call(f, g)
      PROVE  Orderly(stack')
  <2> DEFINE s == <<f>> \o Tail(stack)
  <2>1. /\ s \in Seq(Frame) /\ s # <<>> /\ Len(s) = Len(stack)
        /\ \A i \in 2..Len(s) : s[i] = stack[i] /\ s[1] = f
        /\ stack[1] = Head(stack)
    BY <1>1
  <2>2. Orderly(s)
    BY <1>3, <1>4
  <2>3. stack' = <<g>> \o s
    BY <1>1, <1>4 DEF Call, Below
  <2>4. s[Len(s)].rebootable = Root.rebootable
    <3>1. CASE Len(s) = 1
      <4>1. Root = Top /\ s[Len(s)] = f
        <5>1. s[1] = f
          BY <1>1
        <5> QED  BY <2>1, <3>1, <5>1 DEF Root, Top
      <4>2. Root.kind \in {"fleet", "handler"}
        BY <1>1 DEF Root, Orderly
      <4> QED  BY <1>4, <4>1, <4>2 DEF Keeps
    <3>2. CASE Len(s) # 1
      <4>1. Len(s) \in 2..Len(s)
        BY <2>1, <3>2
      <4> QED  BY <2>1, <4>1 DEF Root
    <3> QED  BY <3>1, <3>2
  <2> HIDE DEF s
  <2> QED  BY <1>4, <2>1, <2>2, <2>3, <2>4, PushOrderly
<1> QED  BY <1>2, <1>3, <1>4 DEF Continue, Answer, Below

\* The top fits its walk.
LEMMA TopFits ==
  ASSUME TypeOK, ~Idle, Orderly(stack)
  PROVE  Fits(Top, Root.rebootable)
<1>1. stack \in Seq(Frame) /\ stack # <<>>
  BY DEF TypeOK, Idle
<1>2. 1 \in 1..Len(stack) /\ Head(stack) = stack[1]
  BY <1>1
<1> QED  BY <1>1, <1>2 DEF Orderly, Top, Root

\* A walk begins with a stack of one frame that has a leave or none.
LEMMA BeginOrderly ==
  ASSUME NEW f, Begin(f), f.kind \in {"fleet", "handler"},
         f.kind = "handler" => f.rebootable = FALSE
  PROVE  Orderly(stack)'
<1>1. stack' = <<f>> /\ Len(stack') = 1 /\ stack'[1] = f
  BY DEF Begin
<1>2. Fits(f, f.rebootable)
  BY DEF Fits
<1> QED  BY <1>1, <1>2 DEF Orderly

LEMMA DispatchOrderly ==
  ASSUME Dispatch
  PROVE  Orderly(stack)'
<1>1. ASSUME NEW v, NEW leave PROVE Fleet(v, leave).kind = "fleet"
  BY DEF Fleet
<1>2. CASE DispatchDeploy
  <2>1. PICK v, leave : Begin(Fleet(v, leave))
    BY <1>2 DEF DispatchDeploy
  <2>2. Fleet(v, leave).kind = "fleet"
    BY <1>1
  <2> QED  BY <2>1, <2>2, BeginOrderly
<1>3. CASE DispatchCommand
  <2> DEFINE f == Handler([venue |-> None, rebootable |-> FALSE], Plan)
  <2>1. f.kind = "handler" /\ f.rebootable = FALSE
    BY DEF Handler
  <2> QED  BY <1>3, <2>1, BeginOrderly DEF DispatchCommand
<1> QED  BY <1>2, <1>3 DEF Dispatch

\* What the host does with a step it was sent keeps the stack orderly: the plugin that serves a
\* step works on the same venue with the same leave.
LEMMA RequestOrderly ==
  ASSUME TypeOK, Orderly(stack), NEW s \in Step,
         RefuseStep(s) \/ RunAct(s) \/ InvokeStep(s) \/ SkipReboot(s) \/ RunReboot(s)
  PROVE  Orderly(stack)'
<1>1. Requests(s)
  BY DEF RefuseStep, RunAct, InvokeStep, SkipReboot, RunReboot
<1>2. ~Idle /\ Top \in HandlerFrames /\ Rest(s) \in Frame /\ Top.kind = "handler"
  BY <1>1, Requester DEF Requests, Running
<1>3. Keeps(Top, Rest(s))
  BY <1>2 DEF Keeps, Rest, HandlerFrames
<1>4. Fits(Top, Root.rebootable)
  BY <1>2, TopFits
<1>5. Top.rebootable = Root.rebootable /\ (Root.rebootable => Top.venue = Guest)
  BY <1>2, <1>4 DEF Fits
<1>6. CASE RefuseStep(s)
  BY <1>2, <1>3, <1>6, MovesOrderly DEF RefuseStep
<1>7. CASE RunAct(s)
  <2> DEFINE g == ActFrame(s, Top.venue)
  <2>1. g \in Frame
    BY <1>2, <1>7 DEF RunAct, HandlerFrames, ActFrame, ActFrames, Frame
  <2>2. Fits(g, Root.rebootable)
    BY DEF Fits, ActFrame
  <2> QED  BY <1>2, <1>3, <1>7, <2>1, <2>2, MovesOrderly DEF RunAct
<1>8. CASE InvokeStep(s)
  <2> DEFINE c == Channel(Top, None)
  <2> DEFINE g == Handler(c, Inner[s])
  <2>1. c.venue = Top.venue /\ c.rebootable = Top.rebootable
    BY DEF Channel
  <2>2. Inner[s] \in SUBSET Step
    BY <1>8, PlanAssumption DEF InvokeStep
  <2>3. Top.venue \in Venue \cup {None} /\ Top.rebootable \in BOOLEAN
    BY <1>2 DEF HandlerFrames
  <2>4. g \in Frame
    BY <2>1, <2>2, <2>3, HandlerTyped DEF Frame
  <2>5. g.kind = "handler" /\ g.venue = Top.venue /\ g.rebootable = Top.rebootable
    BY <2>1 DEF Handler
  <2>6. Fits(g, Root.rebootable)
    BY <1>5, <2>5 DEF Fits
  <2> QED  BY <1>2, <1>3, <1>8, <2>4, <2>6, MovesOrderly DEF InvokeStep
<1>9. CASE SkipReboot(s)
  BY <1>2, <1>3, <1>9, MovesOrderly DEF SkipReboot
<1>10. CASE RunReboot(s)
  <2> DEFINE g == RebootFrame(s, Top.venue)
  <2>1. Polls \in 0..Polls
    BY PlanAssumption
  <2>2. g \in Frame
    BY <1>2, <1>10, <2>1 DEF RunReboot, HandlerFrames, RebootFrame, RebootFrames, Frame, Unread
  <2>3. g.kind = "reboot" /\ g.venue = Top.venue
    BY DEF RebootFrame
  <2>4. Fits(g, Root.rebootable)
    BY <1>5, <1>10, <2>3 DEF Fits, RunReboot
  <2> QED  BY <1>2, <1>3, <1>10, <2>2, <2>4, MovesOrderly DEF RunReboot
<1> QED  BY <1>6, <1>7, <1>8, <1>9, <1>10

\* The other steps of handlers, likewise: the deploy plugin describes the guest when it has leave.
LEMMA HandlerOrderly ==
  ASSUME TypeOK, Orderly(stack), HandlerStep
  PROVE  Orderly(stack)'
<1>1. CASE InvokeSubstrate
  <2>1. ~Idle /\ Top.kind = "fleet"
    BY <1>1 DEF InvokeSubstrate, Running
  <2>2. Top \in FleetFrames /\ Top \in Frame
    BY <2>1, FrameTyped, FrameKinds
  <2>3. Top.venue \in Venue /\ Top.rebootable \in BOOLEAN
    BY <2>2 DEF FleetFrames
  <2> DEFINE c == Channel(Top, IF Top.rebootable THEN Guest ELSE None)
  <2> DEFINE g == Handler(c, Plan)
  <2>4. /\ c.rebootable = Top.rebootable /\ c.venue \in Venue \cup {None}
        /\ Top.rebootable => c.venue = Guest
    BY <2>3, PlanAssumption DEF Channel, Venue
  <2>5. g \in Frame
    BY <2>3, <2>4, PlanAssumption, HandlerTyped DEF Frame
  <2>6. g.kind = "handler" /\ g.venue = c.venue /\ g.rebootable = c.rebootable
    BY DEF Handler
  <2>7. Fits(Top, Root.rebootable)
    BY <2>1, TopFits
  <2>8. Top.rebootable = Root.rebootable
    BY <2>1, <2>7 DEF Fits
  <2> HIDE DEF c, g
  <2>9. Fits(g, Root.rebootable)
    BY <2>4, <2>6, <2>8 DEF Fits
  <2>10. Keeps(Top, Top)
    BY <2>1 DEF Keeps
  <2> QED  BY <1>1, <2>1, <2>2, <2>5, <2>9, <2>10, MovesOrderly DEF InvokeSubstrate, g, c
<1>2. CASE FleetReplies
  BY <1>2, MovesOrderly DEF FleetReplies, Replied
<1>3. CASE StepReplied
  <2>1. ~Idle /\ Top.kind = "handler" /\ ret \in Reply
    BY <1>3 DEF StepReplied, Replied, TypeOK, Reply
  <2>2. Top \in HandlerFrames /\ ret.rev \in SUBSET Step
    BY <2>1, FrameTyped, FrameKinds DEF Reply
  <2> DEFINE f == [Top EXCEPT !.rev = @ \cup ret.rev]
  <2>3. f \in Frame
    BY <2>2, HandlerMoves DEF Frame
  <2>4. Keeps(Top, f)
    BY <2>2 DEF Keeps, HandlerFrames
  <2> QED  BY <1>3, <2>1, <2>3, <2>4, MovesOrderly DEF StepReplied
<1>4. CASE HandlerDone
  BY <1>4, MovesOrderly DEF HandlerDone, Running
<1>5. CASE HandlerFails
  BY <1>5, MovesOrderly DEF HandlerFails, Running
<1> QED  BY <1>1, <1>2, <1>3, <1>4, <1>5, RequestOrderly DEF HandlerStep

\* So do scripts,
LEMMA ActOrderly ==
  ASSUME TypeOK, Orderly(stack), ActStep
  PROVE  Orderly(stack)'
<1>1. ~Idle /\ Top.kind = "act"
  BY DEF ActStep, RunAsUser, RunAsSystem, At, Running
<1>2. Top \in ActFrames
  BY <1>1, FrameTyped, FrameKinds
<1> DEFINE f == [Top EXCEPT !.pc = "system"]
<1>3. f \in Frame
  BY <1>2 DEF ActFrames, Frame
<1>4. Top.step \in System => Keeps(Top, f)
  BY <1>2 DEF Keeps, ActFrames
<1>5. \/ Continue(f) /\ Top.step \in System
      \/ \E reply : Return(reply)
  BY DEF ActStep, RunAsUser, RunAsSystem
<1> QED  BY <1>1, <1>3, <1>4, <1>5, MovesOrderly

\* and reboots.
LEMMA RebootOrderly ==
  ASSUME TypeOK, Orderly(stack), RebootStep
  PROVE  Orderly(stack)'
<1>1. ~Idle /\ Top.kind = "reboot"
  BY DEF RebootStep, CommandStep, PollStep, ReadBoot, FireReboot, PollBoot, PollExpires, At, Running
<1>2. Top \in RebootFrames
  BY <1>1, FrameTyped, FrameKinds
<1>3. CASE ReadBoot
  <2>1. PICK id \in Seen(Top.venue) : Continue([Top EXCEPT !.old = id, !.pc = "fire"])
    BY <1>3 DEF ReadBoot
  <2>2. id \in Nat
    BY <1>2, <2>1 DEF RebootFrames, Seen, Unread, TypeOK
  <2>3. [Top EXCEPT !.old = id, !.pc = "fire"] \in Frame
    BY <1>2, <2>2 DEF RebootFrames, Frame
  <2>4. Keeps(Top, [Top EXCEPT !.old = id, !.pc = "fire"])
    BY <1>2 DEF Keeps, RebootFrames
  <2> QED  BY <1>1, <2>1, <2>3, <2>4, MovesOrderly
<1>4. CASE FireReboot
  <2>1. [Top EXCEPT !.pc = "poll"] \in Frame
    BY <1>2 DEF RebootFrames, Frame
  <2>2. Keeps(Top, [Top EXCEPT !.pc = "poll"])
    BY <1>2 DEF Keeps, RebootFrames
  <2> QED  BY <1>1, <1>4, <2>1, <2>2, MovesOrderly DEF FireReboot
<1>5. CASE PollBoot
  <2>1. Top.left - 1 \in 0..Polls
    BY <1>2, <1>5, PlanAssumption DEF PollBoot, RebootFrames
  <2>2. [Top EXCEPT !.left = @ - 1] \in Frame
    BY <1>2, <2>1 DEF RebootFrames, Frame
  <2>3. Keeps(Top, [Top EXCEPT !.left = @ - 1])
    BY <1>2 DEF Keeps, RebootFrames
  <2> QED  BY <1>1, <1>5, <2>2, <2>3, MovesOrderly DEF PollBoot
<1>6. CASE PollExpires
  BY <1>1, <1>6, MovesOrderly DEF PollExpires
<1> QED  BY <1>3, <1>4, <1>5, <1>6 DEF RebootStep, CommandStep, PollStep

\* The inductive invariant: types, and an orderly stack.
IInv == TypeOK /\ Orderly(stack)

LEMMA InitIInv == Init => IInv
BY InitTyped DEF Init, IInv, Orderly

LEMMA NextIInv == IInv /\ [Next]_vars => IInv'
<1> SUFFICES ASSUME IInv, [Next]_vars PROVE IInv'
  OBVIOUS
<1>1. TypeOK'
  BY NextTyped DEF IInv
<1>2. Orderly(stack)'
  <2>1. CASE UNCHANGED stack
    BY <2>1 DEF IInv, Orderly
  <2>2. GuestStep => UNCHANGED stack
    BY DEF GuestStep, GoDown, ComeUp, StayUp
  <2>3. UNCHANGED vars => UNCHANGED stack
    BY DEF vars
  <2> QED
    BY <2>1, <2>2, <2>3, DispatchOrderly, HandlerOrderly, ActOrderly, RebootOrderly DEF IInv, Next
<1> QED  BY <1>1, <1>2 DEF IInv

LEMMA Invariance == Spec => []IInv
BY InitIInv, NextIInv, PTL DEF Spec

\* Only the command of a reboot arms a venue, the one its step works on.
LEMMA Armed ==
  ASSUME IInv, [Next]_vars, NEW v \in Venue, armed'[v], ~armed[v]
  PROVE  FireReboot /\ v = Top.venue
<1>1. armed \in [Venue -> BOOLEAN]
  BY DEF IInv, TypeOK
<1>2. armed' # armed
  OBVIOUS
<1>3. ~UNCHANGED vars /\ ~Dispatch /\ ~HandlerStep /\ ~ActStep
  <2>1. ~UNCHANGED vars
    BY <1>2 DEF vars, guest
  <2>2. ~Dispatch
    BY <1>2 DEF Dispatch, DispatchDeploy, DispatchCommand, Begin, guest
  <2>3. ~HandlerStep
    BY <1>2 DEF HandlerStep, InvokeSubstrate, FleetReplies, StepReplied, HandlerDone, HandlerFails,
                RefuseStep, RunAct, InvokeStep, SkipReboot, RunReboot, guest
  <2>4. ~ActStep
    BY <1>2 DEF ActStep, RunAsUser, RunAsSystem, guest
  <2> QED  BY <2>1, <2>2, <2>3, <2>4
<1>4. ~GuestStep
  BY <1>1 DEF GuestStep, GoDown, ComeUp, StayUp
<1>5. FireReboot
  BY <1>2, <1>3, <1>4 DEF Next, RebootStep, CommandStep, PollStep, ReadBoot, PollBoot, PollExpires, guest
<1> QED  BY <1>1, <1>5 DEF FireReboot

\* A reboot that fires has leave, and fires on the guest.
LEMMA FiresOnGuest ==
  ASSUME IInv, FireReboot
  PROVE  Root.rebootable /\ Top.venue = Guest /\ ~Idle
<1>1. ~Idle /\ Top.kind = "reboot"
  BY DEF FireReboot, At, Running
<1>2. Fits(Top, Root.rebootable)
  BY <1>1, TopFits DEF IInv
<1> QED  BY <1>1, <1>2 DEF Fits

\* A walk whose target has no lifecycle, or a command's, arms no reboot anywhere, by itself or
\* by a plugin called at any depth.
THEOREM NothingRebootedUnasked == Spec => NoRebootUnasked
<1>1. IInv /\ [Next]_vars => [~Idle /\ ~Root.rebootable => Fires]_vars
  <2> SUFFICES ASSUME IInv, [Next]_vars, ~Idle, ~Root.rebootable, NEW v \in Venue, armed'[v]
               PROVE  armed[v]
    BY DEF Fires
  <2> QED  BY Armed, FiresOnGuest
<1> QED  BY <1>1, Invariance, PTL DEF Spec, NoRebootUnasked

\* The operator's machine is never armed and never rebooted, whichever plans and plugins there are.
THEOREM OperatorKept == Spec => []HostKept
<1>1. Init => HostKept
  BY DEF Init, HostKept, Venue
<1>2. IInv /\ HostKept /\ [Next]_vars => HostKept'
  <2> SUFFICES ASSUME IInv, HostKept, [Next]_vars PROVE HostKept'
    OBVIOUS
  <2>1. Host \in Venue /\ Host # Guest
    BY PlanAssumption DEF Venue
  <2>2. ~armed'[Host]
    BY <2>1, Armed, FiresOnGuest DEF HostKept
  <2>3. boot'[Host] = 1
    <3>1. boot \in [Venue -> Nat \ {0}]
      BY DEF IInv, TypeOK
    <3>2. CASE \E v \in Venue : GoDown(v)
      BY <2>1, <3>1, <3>2 DEF GoDown, HostKept
    <3>3. CASE UNCHANGED boot
      BY <3>3 DEF HostKept
    <3>4. UNCHANGED vars \/ Dispatch \/ HandlerStep \/ ActStep \/ RebootStep => UNCHANGED boot
      BY DEF vars, guest, Dispatch, DispatchDeploy, DispatchCommand, Begin, HandlerStep,
             InvokeSubstrate, FleetReplies, StepReplied, HandlerDone, HandlerFails, RefuseStep,
             RunAct, InvokeStep, SkipReboot, RunReboot, ActStep, RunAsUser, RunAsSystem,
             RebootStep, CommandStep, PollStep, ReadBoot, FireReboot, PollBoot, PollExpires
    <3>5. \A v : ComeUp(v) \/ StayUp(v) => UNCHANGED boot
      BY DEF ComeUp, StayUp
    <3> QED  BY <3>2, <3>3, <3>4, <3>5 DEF Next, GuestStep
  <2> QED  BY <2>2, <2>3 DEF HostKept
<1> QED  BY <1>1, <1>2, Invariance, PTL DEF Spec

(***************************************************************************)
(* Reverse operations                                                      *)
(***************************************************************************)

\* A frame has collected the reverse operation of script x; so has some frame of a stack.
Own(f, x) == f.kind = "handler" /\ x \in f.rev
Collected(s, x) == \E i \in 1..Len(s) : Own(s[i], x)

\* What was collected ran, and unless the walk is failing, what ran was collected.
Accounted ==
  \A x :
    /\ Collected(stack, x) => x \in Took
    /\ ret # None /\ x \in ret.rev => x \in Took
    /\ (ret = None \/ ret.ok) /\ x \in Took => Collected(stack, x) \/ (ret # None /\ x \in ret.rev)

\* What a stack with one or two frames more has collected.
LEMMA CollectedPush ==
  ASSUME NEW S, NEW s \in Seq(S), NEW f \in S, NEW g \in S, NEW x
  PROVE  /\ Collected(<<f>> \o s, x) <=> Own(f, x) \/ Collected(s, x)
         /\ Collected(<<g, f>> \o s, x) <=> Own(g, x) \/ Own(f, x) \/ Collected(s, x)
<1>1. ASSUME NEW e \in S, NEW b \in Seq(S)
      PROVE  Collected(<<e>> \o b, x) <=> Own(e, x) \/ Collected(b, x)
  <2> DEFINE a == <<e>> \o b
  <2>1. /\ Len(b) \in Nat /\ Len(a) = Len(b) + 1 /\ a[1] = e
        /\ \A i \in 1..Len(b) : i + 1 \in 1..Len(a) /\ a[i + 1] = b[i]
        /\ \A i \in 2..Len(a) : i - 1 \in 1..Len(b) /\ a[i] = b[i - 1]
    OBVIOUS
  <2>2. 1 \in 1..Len(a) /\ \A i \in 1..Len(a) : i = 1 \/ i \in 2..Len(a)
    BY <2>1
  <2> HIDE DEF a
  <2>3. Collected(a, x) => Own(e, x) \/ Collected(b, x)
    BY <2>1, <2>2 DEF Collected
  <2>4. Own(e, x) \/ Collected(b, x) => Collected(a, x)
    BY <2>1, <2>2 DEF Collected
  <2> QED  BY <2>3, <2>4 DEF a
<1>2. <<g, f>> \o s = <<g>> \o (<<f>> \o s) /\ <<f>> \o s \in Seq(S)
  OBVIOUS
<1> QED  BY <1>1, <1>2

\* What the stack has collected, and what it has after each of the four moves.
LEMMA CollectedMoves ==
  ASSUME TypeOK, ~Idle, NEW x
  PROVE  /\ Collected(stack, x) <=> Own(Top, x) \/ Collected(Below, x)
         /\ \A reply : Return(reply) => (Collected(stack', x) <=> Collected(Below, x))
         /\ \A f \in Frame : \A reply :
              Continue(f) \/ Answer(f, reply) =>
                (Collected(stack', x) <=> Own(f, x) \/ Collected(Below, x))
         /\ \A f, g \in Frame :
              Call(f, g) => (Collected(stack', x) <=> Own(g, x) \/ Own(f, x) \/ Collected(Below, x))
<1>1. stack \in Seq(Frame) /\ stack # <<>> /\ Top \in Frame /\ Below \in Seq(Frame)
  BY FrameTyped DEF TypeOK, Idle
<1>2. stack = <<Top>> \o Below
  BY <1>1 DEF Top, Below
<1>3. Collected(stack, x) <=> Own(Top, x) \/ Collected(Below, x)
  BY <1>1, <1>2, CollectedPush
<1>4. \A reply : Return(reply) => (Collected(stack', x) <=> Collected(Below, x))
  BY DEF Return
<1>5. ASSUME NEW f \in Frame, stack' = <<f>> \o Below
      PROVE  Collected(stack', x) <=> Own(f, x) \/ Collected(Below, x)
  BY <1>1, <1>5, CollectedPush
<1>6. ASSUME NEW f \in Frame, NEW g \in Frame, stack' = <<g, f>> \o Below
      PROVE  Collected(stack', x) <=> Own(g, x) \/ Own(f, x) \/ Collected(Below, x)
  BY <1>1, <1>6, CollectedPush
<1>7. \A f, g \in Frame : Call(f, g) =>
        (Collected(stack', x) <=> Own(g, x) \/ Own(f, x) \/ Collected(Below, x))
  BY <1>6 DEF Call
<1>8. \A f \in Frame : \A reply : Continue(f) \/ Answer(f, reply) =>
        (Collected(stack', x) <=> Own(f, x) \/ Collected(Below, x))
  BY <1>5 DEF Continue, Answer
<1> QED  BY <1>3, <1>4, <1>7, <1>8

\* A move that keeps what was collected, while scripts and outcome stay as they are.
LEMMA SilentMove ==
  ASSUME TypeOK, ~Idle, Accounted, ret = None, UNCHANGED acts,
         \/ \E f \in Frame : Continue(f) /\ \A x : Own(f, x) <=> Own(Top, x)
         \/ \E f \in Frame : \E reply \in {Failed, Done({})} :
              Answer(f, reply) /\ \A x : Own(f, x) <=> Own(Top, x)
         \/ \E f, g \in Frame : Call(f, g) /\ \A x : ~Own(g, x) /\ (Own(f, x) <=> Own(Top, x))
         \/ Return(Failed)
         \/ Return(Done({})) /\ \A x : ~Own(Top, x)
  PROVE  Accounted'
<1>1. Took' = Took
  BY DEF Took
<1>2. Failed # None /\ Failed.ok = FALSE /\ Failed.rev = {} /\ Done({}) # None /\ Done({}).rev = {}
  <2>1. Failed \in Reply /\ Done({}) \in Reply
    BY ReplyTyped
  <2> QED  BY <2>1, PlanAssumption DEF Reply, Failed, Done
<1> SUFFICES ASSUME NEW x
             PROVE  /\ Collected(stack', x) => x \in Took
                    /\ ret' # None /\ x \in ret'.rev => x \in Took
                    /\ (ret' = None \/ ret'.ok) /\ x \in Took =>
                         Collected(stack', x) \/ (ret' # None /\ x \in ret'.rev)
  BY <1>1 DEF Accounted
<1>3. /\ Collected(stack, x) <=> Own(Top, x) \/ Collected(Below, x)
      /\ Collected(stack, x) <=> x \in Took
  BY CollectedMoves DEF Accounted
<1>4. CASE \E f \in Frame : Continue(f) /\ \A y : Own(f, y) <=> Own(Top, y)
  <2>1. ret' = None
    BY <1>4 DEF Continue
  <2>2. Collected(stack', x) <=> Own(Top, x) \/ Collected(Below, x)
    BY <1>4, CollectedMoves
  <2> QED  BY <1>3, <2>1, <2>2
<1>5. CASE \E f \in Frame : \E reply \in {Failed, Done({})} :
             Answer(f, reply) /\ \A y : Own(f, y) <=> Own(Top, y)
  <2>1. ret' \in {Failed, Done({})}
    BY <1>5 DEF Answer
  <2>2. Collected(stack', x) <=> Own(Top, x) \/ Collected(Below, x)
    BY <1>5, CollectedMoves
  <2> QED  BY <1>2, <1>3, <2>1, <2>2
<1>6. CASE \E f, g \in Frame :
             Call(f, g) /\ \A y : ~Own(g, y) /\ (Own(f, y) <=> Own(Top, y))
  <2>1. ret' = None
    BY <1>6 DEF Call
  <2>2. Collected(stack', x) <=> Own(Top, x) \/ Collected(Below, x)
    BY <1>6, CollectedMoves
  <2> QED  BY <1>3, <2>1, <2>2
<1>7. CASE Return(Failed)
  <2>1. ret' = Failed
    BY <1>7 DEF Return
  <2>2. Collected(stack', x) <=> Collected(Below, x)
    BY <1>7, CollectedMoves
  <2> QED  BY <1>2, <1>3, <2>1, <2>2
<1>8. CASE Return(Done({})) /\ \A y : ~Own(Top, y)
  <2>1. ret' = Done({})
    BY <1>8 DEF Return
  <2>2. Collected(stack', x) <=> Collected(Below, x)
    BY <1>8, CollectedMoves
  <2> QED  BY <1>2, <1>3, <1>8, <2>1, <2>2
<1> QED  BY <1>4, <1>5, <1>6, <1>7, <1>8

\* A walk starts with no script run and nothing collected.
LEMMA DispatchAccounted ==
  ASSUME Dispatch
  PROVE  Accounted'
<1>1. ASSUME NEW f, Begin(f), \A x : ~Own(f, x) PROVE Accounted'
  <2>1. Took' = {}
    BY <1>1 DEF Begin, Took, Step
  <2>2. Len(stack') = 1 /\ stack'[1] = f /\ ret' = None
    BY <1>1 DEF Begin
  <2>3. \A x : ~Collected(stack', x)
    BY <1>1, <2>2 DEF Collected
  <2> QED  BY <2>1, <2>2, <2>3 DEF Accounted
<1>2. ASSUME NEW v, NEW leave, NEW x PROVE ~Own(Fleet(v, leave), x)
  BY DEF Own, Fleet
<1>3. ASSUME NEW c, NEW plan, NEW x PROVE ~Own(Handler(c, plan), x)
  BY DEF Own, Handler
<1> QED  BY <1>1, <1>2, <1>3 DEF Dispatch, DispatchDeploy, DispatchCommand

\* What the host does with a step it was sent collects nothing yet.
LEMMA RequestAccounted ==
  ASSUME TypeOK, Accounted, NEW s \in Step,
         RefuseStep(s) \/ RunAct(s) \/ InvokeStep(s) \/ SkipReboot(s) \/ RunReboot(s)
  PROVE  Accounted'
<1>1. Requests(s) /\ UNCHANGED acts
  BY DEF RefuseStep, RunAct, InvokeStep, SkipReboot, RunReboot
<1>2. ~Idle /\ ret = None /\ Top \in HandlerFrames /\ Rest(s) \in Frame
  BY <1>1, Requester DEF Requests, Running
<1>3. \A x : Own(Rest(s), x) <=> Own(Top, x)
  BY <1>2 DEF Own, Rest, HandlerFrames
<1>4. CASE RefuseStep(s) \/ SkipReboot(s)
  <2>1. \E reply \in {Failed, Done({})} : Answer(Rest(s), reply)
    BY <1>4 DEF RefuseStep, SkipReboot
  <2> QED  BY <1>1, <1>2, <1>3, <2>1, SilentMove
<1>5. ASSUME NEW g \in Frame, Call(Rest(s), g), \A x : ~Own(g, x) PROVE Accounted'
  BY <1>1, <1>2, <1>3, <1>5, SilentMove
<1>6. Top.venue \in Venue \cup {None} /\ Top.rebootable \in BOOLEAN
  BY <1>2 DEF HandlerFrames
<1>7. CASE RunAct(s)
  <2> DEFINE g == ActFrame(s, Top.venue)
  <2>1. g \in Frame /\ \A x : ~Own(g, x)
    BY <1>6, <1>7 DEF RunAct, ActFrame, ActFrames, Frame, Own
  <2> QED  BY <1>5, <1>7, <2>1 DEF RunAct
<1>8. CASE InvokeStep(s)
  <2> DEFINE c == Channel(Top, None)
  <2> DEFINE g == Handler(c, Inner[s])
  <2>1. Inner[s] \in SUBSET Step /\ c.venue = Top.venue /\ c.rebootable = Top.rebootable
    BY <1>8, PlanAssumption DEF InvokeStep, Channel
  <2>2. g \in Frame
    BY <1>6, <2>1, HandlerTyped DEF Frame
  <2>3. \A x : ~Own(g, x)
    BY DEF Own, Handler
  <2> QED  BY <1>5, <1>8, <2>2, <2>3 DEF InvokeStep
<1>9. CASE RunReboot(s)
  <2> DEFINE g == RebootFrame(s, Top.venue)
  <2>1. Polls \in 0..Polls
    BY PlanAssumption
  <2>2. g \in Frame
    BY <1>6, <1>9, <2>1 DEF RunReboot, RebootFrame, RebootFrames, Frame, Unread
  <2>3. \A x : ~Own(g, x)
    BY DEF Own, RebootFrame
  <2> QED  BY <1>5, <1>9, <2>2, <2>3 DEF RunReboot
<1> QED  BY <1>4, <1>7, <1>8, <1>9

\* The other steps of handlers hand on what was collected, or fail.
LEMMA HandlerAccounted ==
  ASSUME TypeOK, Accounted, HandlerStep
  PROVE  Accounted'
<1>1. CASE InvokeSubstrate
  <2>1. ~Idle /\ Top.kind = "fleet" /\ ret = None /\ UNCHANGED acts
    BY <1>1 DEF InvokeSubstrate, Running
  <2>2. Top \in FleetFrames /\ Top \in Frame
    BY <2>1, FrameTyped, FrameKinds
  <2> DEFINE d == IF Top.rebootable THEN Guest ELSE None
  <2> DEFINE g == Handler(Channel(Top, d), Plan)
  <2>3. Channel(Top, d).venue \in Venue \cup {None} /\ Channel(Top, d).rebootable \in BOOLEAN
    BY <2>2 DEF FleetFrames, Channel, Venue
  <2>4. g \in Frame
    BY <2>3, PlanAssumption, HandlerTyped DEF Frame
  <2>5. \A x : ~Own(g, x)
    BY DEF Own, Handler
  <2>6. Call(Top, g)
    BY <1>1 DEF InvokeSubstrate
  <2> HIDE DEF g
  <2> QED  BY <2>1, <2>2, <2>4, <2>5, <2>6, SilentMove
<1>2. CASE FleetReplies
  <2>1. ~Idle /\ Top.kind = "fleet" /\ Return(ret) /\ UNCHANGED acts
    BY <1>2 DEF FleetReplies, Replied
  <2>2. ret' = ret /\ Took' = Took
    BY <2>1 DEF Return, Took
  <2>3. \A x : Collected(stack', x) <=> Collected(stack, x)
    BY <2>1, CollectedMoves DEF Own
  <2> QED  BY <2>2, <2>3 DEF Accounted
<1>3. CASE StepReplied
  <2>1. ~Idle /\ Top.kind = "handler" /\ ret \in Reply /\ ret # None /\ Took' = Took
    BY <1>3 DEF StepReplied, Replied, TypeOK, Reply, Took
  <2>2. Top \in HandlerFrames /\ ret.rev \in SUBSET Step /\ ret.ok \in BOOLEAN
    BY <2>1, FrameTyped, FrameKinds DEF Reply
  <2> DEFINE f == [Top EXCEPT !.rev = @ \cup ret.rev]
  <2>3. f \in Frame /\ \A x : Own(f, x) <=> Own(Top, x) \/ x \in ret.rev
    <3>1. f \in HandlerFrames /\ f.kind = "handler" /\ f.rev = Top.rev \cup ret.rev
      BY <2>2, HandlerMoves DEF HandlerFrames
    <3> QED  BY <2>1, <3>1 DEF Own, Frame
  <2>4. CASE ret.ok
    <3>1. Continue(f) /\ ret' = None
      BY <1>3, <2>4 DEF StepReplied, Continue
    <3>2. \A x : Collected(stack', x) <=> Collected(stack, x) \/ x \in ret.rev
      BY <2>1, <2>3, <3>1, CollectedMoves
    <3> QED  BY <2>1, <2>4, <3>1, <3>2 DEF Accounted
  <2>5. CASE ~ret.ok
    <3>1. Return(Failed) /\ ret' = Failed
      BY <1>3, <2>5 DEF StepReplied, Return
    <3>2. \A x : Collected(stack', x) => Collected(stack, x)
      BY <2>1, <3>1, CollectedMoves
    <3>3. Failed.ok = FALSE /\ Failed.rev = {} /\ Failed # None
      BY ReplyTyped, PlanAssumption DEF Failed, Reply
    <3> QED  BY <2>1, <3>1, <3>2, <3>3 DEF Accounted
  <2> QED  BY <2>2, <2>4, <2>5
<1>4. CASE HandlerDone
  <2>1. ~Idle /\ Top.kind = "handler" /\ ret = None /\ Return(Done(Top.rev)) /\ Took' = Took
    BY <1>4 DEF HandlerDone, Running, Took
  <2>2. Top.rev \in SUBSET Step
    BY <2>1, FrameTyped, FrameKinds DEF HandlerFrames
  <2>3. ret' = Done(Top.rev) /\ ret'.rev = Top.rev /\ ret' # None
    <3>1. Done(Top.rev) \in Reply
      BY <2>2, ReplyTyped
    <3> QED  BY <2>1, <3>1, PlanAssumption DEF Return, Done, Reply
  <2>4. \A x : Collected(stack, x) <=> Collected(stack', x) \/ x \in Top.rev
    BY <2>1, CollectedMoves DEF Own
  <2> QED  BY <2>1, <2>3, <2>4 DEF Accounted
<1>5. CASE HandlerFails
  BY <1>5, SilentMove DEF HandlerFails, Running
<1> QED  BY <1>1, <1>2, <1>3, <1>4, <1>5, RequestAccounted DEF HandlerStep

\* A script counts as run when it ran in its scope, and is collected exactly then.
LEMMA ActAccounted ==
  ASSUME IInv, Accounted, ActStep
  PROVE  Accounted'
<1>1. ~Idle /\ Top.kind = "act" /\ ret = None /\ TypeOK
  BY DEF IInv, ActStep, RunAsUser, RunAsSystem, At, Running
<1>2. Top \in ActFrames /\ Top \in Frame
  BY <1>1, FrameTyped, FrameKinds
<1>3. Top.step \in Act /\ Top.step \in Step
  BY <1>2 DEF ActFrames, Step
<1>4. \A x : ~Own(Top, x)
  BY <1>1 DEF Own
<1>5. ASSUME NEW scope, Runs(scope, FALSE), Return(ActReply(FALSE)) PROVE Accounted'
  <2>1. UNCHANGED acts /\ Return(Failed)
    BY <1>5 DEF Runs, ActReply
  <2> QED  BY <1>1, <2>1, SilentMove
<1>6. ASSUME Runs(Scope(Top.step), TRUE), Return(ActReply(TRUE)) PROVE Accounted'
  <2>1. Took' = Took \cup {Top.step}
    BY <1>1, <1>3, <1>6 DEF Runs, Took, TypeOK
  <2>2. ret' = Done({Top.step}) /\ ret'.rev = {Top.step} /\ ret' # None
    <3>1. Done({Top.step}) \in Reply
      BY <1>3, ReplyTyped
    <3> QED  BY <1>6, <3>1, PlanAssumption DEF Return, ActReply, Done, Reply
  <2>3. \A x : Collected(stack', x) <=> Collected(stack, x)
    BY <1>1, <1>4, <1>6, CollectedMoves
  <2> QED  BY <1>1, <2>1, <2>2, <2>3 DEF Accounted
<1>7. CASE RunAsUser
  <2>1. PICK ok \in BOOLEAN :
          /\ Runs("user", ok)
          /\ IF Top.step \in System THEN Continue([Top EXCEPT !.pc = "system"])
                                    ELSE Return(ActReply(ok))
    BY <1>7 DEF RunAsUser
  <2>2. CASE Top.step \in System
    <3> DEFINE f == [Top EXCEPT !.pc = "system"]
    <3>1. f \in Frame /\ f.kind = "act"
      BY <1>2 DEF ActFrames, Frame
    <3>2. Took' = Took
      BY <1>1, <1>3, <2>1, <2>2 DEF Runs, Took, Scope, TypeOK
    <3>3. ret' = None /\ \A x : Collected(stack', x) <=> Collected(stack, x)
      BY <1>1, <1>4, <2>1, <2>2, <3>1, CollectedMoves DEF Continue, Own
    <3> QED  BY <1>1, <3>2, <3>3 DEF Accounted
  <2>3. CASE Top.step \notin System
    <3>1. Scope(Top.step) = "user"
      BY <2>3 DEF Scope
    <3> QED  BY <1>5, <1>6, <2>1, <2>3, <3>1
  <2> QED  BY <2>2, <2>3
<1>8. CASE RunAsSystem
  <2>1. PICK ok \in BOOLEAN : Runs("system", ok) /\ Return(ActReply(ok))
    BY <1>8 DEF RunAsSystem
  <2>2. Fits(Top, Root.rebootable) /\ Top.pc = "system"
    BY <1>1, <1>8, TopFits DEF IInv, RunAsSystem, At
  <2>3. Scope(Top.step) = "system"
    BY <1>1, <2>2 DEF Fits, Scope
  <2> QED  BY <1>5, <1>6, <2>1, <2>3
<1> QED  BY <1>7, <1>8 DEF ActStep

\* A reboot runs no script and collects nothing.
LEMMA RebootAccounted ==
  ASSUME TypeOK, Accounted, RebootStep
  PROVE  Accounted'
<1>1. ~Idle /\ Top.kind = "reboot" /\ ret = None /\ UNCHANGED acts
  BY DEF RebootStep, CommandStep, PollStep, ReadBoot, FireReboot, PollBoot, PollExpires, At, Running
<1>2. Top \in RebootFrames
  BY <1>1, FrameTyped, FrameKinds
<1>3. \A x : ~Own(Top, x)
  BY <1>1 DEF Own
<1>4. ASSUME NEW f \in RebootFrames, Continue(f) PROVE Accounted'
  <2>1. f \in Frame /\ \A x : ~Own(f, x)
    BY <1>4 DEF Frame, Own, RebootFrames
  <2> QED  BY <1>1, <1>3, <1>4, <2>1, SilentMove
<1>5. CASE ReadBoot
  <2>1. PICK id \in Seen(Top.venue) : Continue([Top EXCEPT !.old = id, !.pc = "fire"])
    BY <1>5 DEF ReadBoot
  <2>2. id \in Nat
    BY <1>2, <2>1 DEF RebootFrames, Seen, Unread, TypeOK
  <2>3. [Top EXCEPT !.old = id, !.pc = "fire"] \in RebootFrames
    BY <1>2, <2>2 DEF RebootFrames
  <2> QED  BY <1>4, <2>1, <2>3
<1>6. CASE FireReboot
  <2>1. [Top EXCEPT !.pc = "poll"] \in RebootFrames
    BY <1>2 DEF RebootFrames
  <2> QED  BY <1>4, <1>6, <2>1 DEF FireReboot
<1>7. CASE PollBoot
  <2>1. Top.left - 1 \in 0..Polls
    BY <1>2, <1>7, PlanAssumption DEF PollBoot, RebootFrames
  <2>2. [Top EXCEPT !.left = @ - 1] \in RebootFrames
    BY <1>2, <2>1 DEF RebootFrames
  <2>3. Return(Done({})) \/ Continue([Top EXCEPT !.left = @ - 1])
    BY <1>7 DEF PollBoot
  <2> QED  BY <1>1, <1>3, <1>4, <2>2, <2>3, SilentMove
<1>8. CASE PollExpires
  BY <1>1, <1>8, SilentMove DEF PollExpires
<1> QED  BY <1>5, <1>6, <1>7, <1>8 DEF RebootStep, CommandStep, PollStep

LEMMA NextAccounted == IInv /\ Accounted /\ [Next]_vars => Accounted'
<1> SUFFICES ASSUME IInv, Accounted, [Next]_vars PROVE Accounted'
  OBVIOUS
<1>1. CASE UNCHANGED <<stack, ret, acts>>
  BY <1>1 DEF Accounted, Took
<1>2. GuestStep \/ UNCHANGED vars => UNCHANGED <<stack, ret, acts>>
  BY DEF GuestStep, GoDown, ComeUp, StayUp, vars
<1> QED
  BY <1>1, <1>2, DispatchAccounted, HandlerAccounted, ActAccounted, RebootAccounted
  DEF IInv, Next

\* Every reverse operation a handler holds is one of a script that ran in its scope, and a walk
\* that succeeds replies with those of all the scripts that did, however deep the plugin was.
THEOREM ReverseIsComplete == Spec => []ReverseComplete
<1>1. Init => Accounted
  BY DEF Init, Accounted, Collected, Took, Step
<1>2. IInv /\ Accounted => ReverseComplete
  <2> SUFFICES ASSUME IInv, Accounted PROVE ReverseComplete
    OBVIOUS
  <2>1. ASSUME NEW i \in 1..Len(stack), stack[i].kind = "handler" PROVE stack[i].rev \subseteq Took
    BY <2>1 DEF Accounted, Collected, Own
  <2>2. ASSUME Idle, ret # None, ret.ok PROVE ret.rev = Took
    <3>1. \A x : ~Collected(stack, x)
      BY <2>2 DEF Idle, Collected
    <3>2. \A x : x \in ret.rev <=> x \in Took
      BY <2>2, <3>1 DEF Accounted
    <3>3. ret.rev \in SUBSET Step
      BY <2>2 DEF IInv, TypeOK
    <3> QED  BY <3>2, <3>3 DEF Took
  <2> QED  BY <2>1, <2>2 DEF ReverseComplete
<1> QED  BY <1>1, <1>2, NextAccounted, Invariance, PTL DEF Spec

(***************************************************************************)
(* Reboots are awaited                                                     *)
(***************************************************************************)

\* Scripts and reboots call nobody: below the top are handlers.
Callers(s) == \A i \in 2..Len(s) : s[i].kind \in {"fleet", "handler"}

LEMMA CallersMoves ==
  ASSUME TypeOK, ~Idle, Callers(stack)
  PROVE  /\ \A reply : Return(reply) => Callers(stack)'
         /\ \A f \in Frame : Continue(f) => Callers(stack)'
         /\ \A f \in Frame : \A reply : Answer(f, reply) => Callers(stack)'
         /\ \A f, g \in Frame :
              f.kind \in {"fleet", "handler"} /\ Call(f, g) => Callers(stack)'
<1>1. stack \in Seq(Frame) /\ stack # <<>>
  BY DEF TypeOK, Idle
<1> DEFINE b == Tail(stack)
<1>2. /\ b \in Seq(Frame) /\ Len(b) \in Nat /\ Len(stack) = Len(b) + 1
      /\ \A i \in 1..Len(b) : i + 1 \in 2..Len(stack) /\ b[i] = stack[i + 1]
  BY <1>1
<1>3. \A i \in 1..Len(b) : b[i].kind \in {"fleet", "handler"}
  BY <1>2 DEF Callers
<1> HIDE DEF b
<1>4. Callers(b)
  BY <1>2, <1>3 DEF Callers
<1>5. ASSUME NEW f \in Frame PROVE Callers(<<f>> \o b)
  <2>1. Len(<<f>> \o b) = Len(b) + 1
        /\ \A i \in 2..(Len(b) + 1) : i - 1 \in 1..Len(b) /\ (<<f>> \o b)[i] = b[i - 1]
    BY <1>2
  <2> QED  BY <1>3, <2>1 DEF Callers
<1>6. ASSUME NEW f \in Frame, NEW g \in Frame, f.kind \in {"fleet", "handler"}
      PROVE  Callers(<<g, f>> \o b)
  <2>1. Len(<<g, f>> \o b) = Len(b) + 2 /\ (<<g, f>> \o b)[2] = f
        /\ \A i \in 3..(Len(b) + 2) : i - 2 \in 1..Len(b) /\ (<<g, f>> \o b)[i] = b[i - 2]
    BY <1>2
  <2>2. \A i \in 2..(Len(b) + 2) : i = 2 \/ i \in 3..(Len(b) + 2)
    BY <1>2
  <2> QED  BY <1>3, <1>6, <2>1, <2>2 DEF Callers
<1> QED  BY <1>4, <1>5, <1>6 DEF Return, Continue, Answer, Call, Below, b

\* After a return the top is a handler or the walk is over.
LEMMA ReturnExposes ==
  ASSUME TypeOK, ~Idle, Callers(stack), NEW reply, Return(reply)
  PROVE  Idle' \/ Top'.kind \in {"fleet", "handler"}
<1>1. stack \in Seq(Frame) /\ stack # <<>> /\ stack' = Tail(stack)
  BY DEF TypeOK, Idle, Return, Below
<1>2. CASE Tail(stack) # <<>>
  <2>1. Tail(stack) \in Seq(Frame) /\ Len(stack) \in Nat /\ Len(Tail(stack)) = Len(stack) - 1
    BY <1>1
  <2>2. Len(Tail(stack)) # 0
    BY <1>2, <2>1
  <2>3. 2 \in 2..Len(stack) /\ Head(Tail(stack)) = stack[2]
    BY <1>1, <2>1, <2>2
  <2> QED  BY <1>1, <2>3 DEF Callers, Top
<1>3. CASE Tail(stack) = <<>>
  BY <1>1, <1>3 DEF Idle
<1> QED  BY <1>2, <1>3

\* The top after the other moves.
LEMMA MoveExposes ==
  ASSUME TypeOK, ~Idle
  PROVE  /\ \A f \in Frame : Continue(f) => ~Idle' /\ Top' = f
         /\ \A f \in Frame : \A reply : Answer(f, reply) => ~Idle' /\ Top' = f
         /\ \A f, g \in Frame : Call(f, g) => ~Idle' /\ Top' = g
<1>1. Below \in Seq(Frame)
  BY FrameTyped
<1>2. ASSUME NEW f \in Frame, NEW g \in Frame
      PROVE  /\ <<f>> \o Below # <<>> /\ Head(<<f>> \o Below) = f
             /\ <<g, f>> \o Below # <<>> /\ Head(<<g, f>> \o Below) = g
  BY <1>1
<1> QED  BY <1>2 DEF Continue, Answer, Call, Idle, Top

\* The steps of handlers leave handlers below and no reboot on top that has begun.
LEMMA HandlerControl ==
  ASSUME TypeOK, Callers(stack), HandlerStep
  PROVE  /\ ~Idle /\ Top.kind # "reboot" /\ UNCHANGED <<guest, history>>
         /\ Callers(stack)'
         /\ Idle' \/ Top'.kind # "reboot" \/ Top'.pc = "read"
<1>1. ASSUME ~Idle, NEW reply, Return(reply)
      PROVE  Callers(stack)' /\ (Idle' \/ Top'.kind # "reboot")
  BY <1>1, CallersMoves, ReturnExposes
<1>2. ASSUME NEW s \in Step, RefuseStep(s) \/ RunAct(s) \/ InvokeStep(s) \/ SkipReboot(s) \/ RunReboot(s)
      PROVE  /\ ~Idle /\ Top.kind # "reboot" /\ UNCHANGED <<guest, history>>
             /\ Callers(stack)'
             /\ Idle' \/ Top'.kind # "reboot" \/ Top'.pc = "read"
  <2>1. Requests(s) /\ UNCHANGED <<guest, history>>
    BY <1>2 DEF RefuseStep, RunAct, InvokeStep, SkipReboot, RunReboot
  <2>2. ~Idle /\ Top.kind = "handler" /\ Top \in HandlerFrames /\ Rest(s) \in HandlerFrames /\ Rest(s) \in Frame
    BY <2>1, Requester DEF Requests, Running
  <2>3. Rest(s).kind = "handler"
    BY <2>2 DEF HandlerFrames
  <2>4. Top.venue \in Venue \cup {None} /\ Top.rebootable \in BOOLEAN
    BY <2>2 DEF HandlerFrames
  <2>5. CASE RefuseStep(s) \/ SkipReboot(s)
    <3>1. \E reply : Answer(Rest(s), reply)
      BY <2>5 DEF RefuseStep, SkipReboot
    <3> QED  BY <2>1, <2>2, <2>3, <3>1, CallersMoves, MoveExposes
  <2>6. ASSUME NEW g \in Frame, Call(Rest(s), g)
        PROVE  Callers(stack)' /\ ~Idle' /\ Top' = g
    BY <2>2, <2>3, <2>6, CallersMoves, MoveExposes
  <2>7. CASE RunAct(s)
    <3> DEFINE g == ActFrame(s, Top.venue)
    <3>1. g \in Frame /\ g.kind = "act"
      BY <2>4, <2>7 DEF RunAct, ActFrame, ActFrames, Frame
    <3>2. Call(Rest(s), g)
      BY <2>7 DEF RunAct
    <3> QED  BY <2>1, <2>2, <2>6, <3>1, <3>2
  <2>8. CASE InvokeStep(s)
    <3> DEFINE c == Channel(Top, None)
    <3> DEFINE g == Handler(c, Inner[s])
    <3>1. Inner[s] \in SUBSET Step /\ c.venue = Top.venue /\ c.rebootable = Top.rebootable
      BY <2>8, PlanAssumption DEF InvokeStep, Channel
    <3>2. g \in Frame
      BY <2>4, <3>1, HandlerTyped DEF Frame
    <3>3. g.kind = "handler"
      BY DEF Handler
    <3>4. Call(Rest(s), g)
      BY <2>8 DEF InvokeStep
    <3> QED  BY <2>1, <2>2, <2>6, <3>2, <3>3, <3>4
  <2>9. CASE RunReboot(s)
    <3> DEFINE g == RebootFrame(s, Top.venue)
    <3>1. Polls \in 0..Polls
      BY PlanAssumption
    <3>2. g \in Frame /\ g.pc = "read"
      BY <2>4, <2>9, <3>1 DEF RunReboot, RebootFrame, RebootFrames, Frame, Unread
    <3>3. Call(Rest(s), g)
      BY <2>9 DEF RunReboot
    <3> QED  BY <2>1, <2>2, <2>6, <3>2, <3>3
  <2> QED  BY <1>2, <2>5, <2>7, <2>8, <2>9
<1>3. CASE InvokeSubstrate
  <2>1. ~Idle /\ Top.kind = "fleet" /\ UNCHANGED <<guest, history>>
    BY <1>3 DEF InvokeSubstrate, Running
  <2>2. Top \in FleetFrames /\ Top \in Frame
    BY <2>1, FrameTyped, FrameKinds
  <2> DEFINE d == IF Top.rebootable THEN Guest ELSE None
  <2> DEFINE g == Handler(Channel(Top, d), Plan)
  <2>3. Channel(Top, d).venue \in Venue \cup {None} /\ Channel(Top, d).rebootable \in BOOLEAN
    BY <2>2 DEF FleetFrames, Channel, Venue
  <2>4. g \in Frame
    BY <2>3, PlanAssumption, HandlerTyped DEF Frame
  <2>5. g.kind = "handler"
    BY DEF Handler
  <2>6. Call(Top, g)
    BY <1>3 DEF InvokeSubstrate
  <2> HIDE DEF g
  <2> QED  BY <2>1, <2>2, <2>4, <2>5, <2>6, CallersMoves, MoveExposes
<1>4. CASE StepReplied
  <2>1. ~Idle /\ Top.kind = "handler" /\ ret \in Reply /\ UNCHANGED <<guest, history>>
    BY <1>4 DEF StepReplied, Replied, TypeOK, Reply
  <2>2. Top \in HandlerFrames /\ ret.rev \in SUBSET Step
    BY <2>1, FrameTyped, FrameKinds DEF Reply
  <2> DEFINE f == [Top EXCEPT !.rev = @ \cup ret.rev]
  <2>3. f \in Frame /\ f.kind = "handler"
    BY <2>2, HandlerMoves DEF Frame, HandlerFrames
  <2>4. Continue(f) \/ Return(Failed)
    BY <1>4 DEF StepReplied
  <2> HIDE DEF f
  <2> QED  BY <1>1, <2>1, <2>3, <2>4, CallersMoves, MoveExposes
<1>5. CASE FleetReplies
  BY <1>1, <1>5 DEF FleetReplies, Replied
<1>6. CASE HandlerDone
  BY <1>1, <1>6 DEF HandlerDone, Running
<1>7. CASE HandlerFails
  BY <1>1, <1>7 DEF HandlerFails, Running
<1> QED  BY <1>2, <1>3, <1>4, <1>5, <1>6, <1>7 DEF HandlerStep

\* So do scripts and dispatches.
LEMMA ActControl ==
  ASSUME TypeOK, Callers(stack), ActStep
  PROVE  /\ ~Idle /\ Top.kind # "reboot" /\ UNCHANGED <<guest, history>>
         /\ Callers(stack)'
         /\ Idle' \/ Top'.kind # "reboot"
<1>1. ~Idle /\ Top.kind = "act" /\ UNCHANGED <<guest, history>>
  BY DEF ActStep, RunAsUser, RunAsSystem, At, Running
<1>2. Top \in ActFrames
  BY <1>1, FrameTyped, FrameKinds
<1> DEFINE f == [Top EXCEPT !.pc = "system"]
<1>3. f \in Frame /\ f.kind = "act"
  BY <1>2 DEF ActFrames, Frame
<1>4. Continue(f) \/ \E reply : Return(reply)
  BY DEF ActStep, RunAsUser, RunAsSystem
<1> HIDE DEF f
<1> QED  BY <1>1, <1>3, <1>4, CallersMoves, ReturnExposes, MoveExposes

LEMMA DispatchControl ==
  ASSUME Dispatch
  PROVE  /\ Idle /\ UNCHANGED <<guest, history>>
         /\ Callers(stack)'
         /\ Top'.kind # "reboot"
<1>1. ASSUME NEW f, Begin(f)
      PROVE  Idle /\ UNCHANGED <<guest, history>> /\ Callers(stack') /\ Top' = f
  <2>1. stack' = <<f>> /\ Len(stack') = 1
    BY <1>1 DEF Begin
  <2> QED  BY <1>1, <2>1 DEF Begin, Callers, Top
<1>2. ASSUME NEW v, NEW leave PROVE Fleet(v, leave).kind # "reboot"
  BY DEF Fleet
<1>3. ASSUME NEW c, NEW plan PROVE Handler(c, plan).kind # "reboot"
  BY DEF Handler
<1>4. PICK f : Begin(f) /\ f.kind # "reboot"
  <2>1. CASE DispatchDeploy
    <3>1. PICK v, leave : Begin(Fleet(v, leave))
      BY <2>1 DEF DispatchDeploy
    <3> QED  BY <1>2, <3>1
  <2>2. CASE DispatchCommand
    BY <1>3, <2>2 DEF DispatchCommand
  <2> QED  BY <2>1, <2>2 DEF Dispatch
<1>5. Idle /\ UNCHANGED <<guest, history>> /\ Callers(stack') /\ Top' = f
  BY <1>1, <1>4
<1> QED  BY <1>4, <1>5

\* A venue that is going down is polled for; a reboot knows the boot_id it set out from until the
\* guest has gone down.  Venues whose reboots were blind or given up are left out.
Awaited ==
  \A v \in Venue \ (blind \cup expired) :
    /\ Going(v) => WaitsFor(v) /\ Top.pc = "poll"
    /\ WaitsFor(v) /\ Top.pc = "fire" /\ Top.old # Unread => boot[v] = Top.old
    /\ WaitsFor(v) /\ Top.pc = "poll" /\ Top.old # Unread /\ armed[v] => boot[v] = Top.old

\* A step outside reboots finds no venue going down and leaves none.
LEMMA QuietMove ==
  ASSUME Awaited, UNCHANGED <<guest, history>>,
         Idle \/ Top.kind # "reboot", Idle' \/ Top'.kind # "reboot" \/ Top'.pc = "read"
  PROVE  Awaited'
<1> SUFFICES ASSUME NEW v \in Venue \ (blind \cup expired)
             PROVE  /\ Going(v)' => WaitsFor(v)' /\ Top'.pc = "poll"
                    /\ ~(WaitsFor(v)' /\ Top'.pc = "fire") /\ ~(WaitsFor(v)' /\ Top'.pc = "poll")
  BY DEF Awaited, history
<1>1. ~Going(v)
  BY DEF Awaited, WaitsFor
<1>2. ~Going(v)'
  BY <1>1 DEF Going, guest
<1>3. ~(WaitsFor(v)' /\ Top'.pc # "read")
  BY DEF WaitsFor
<1> QED  BY <1>2, <1>3

\* The steps of a reboot: it fires knowing the id or blind, and is done when the id it sees is not
\* the old one, so the guest has gone down and is up again.
LEMMA RebootAwaited ==
  ASSUME TypeOK, Callers(stack), Awaited, RebootStep
  PROVE  Callers(stack)' /\ Awaited'
<1>1. ~Idle /\ Top.kind = "reboot"
  BY DEF RebootStep, CommandStep, PollStep, ReadBoot, FireReboot, PollBoot, PollExpires, At, Running
<1>2. Top \in RebootFrames /\ Top \in Frame
  BY <1>1, FrameTyped, FrameKinds
<1> DEFINE w == Top.venue
<1>3. w \in Venue /\ \A v : WaitsFor(v) <=> v = w
  BY <1>1, <1>2 DEF RebootFrames, WaitsFor
<1>4. ASSUME NEW f \in RebootFrames, Continue(f), f.venue = w
      PROVE  Callers(stack)' /\ ~Idle' /\ Top' = f /\ \A v : WaitsFor(v)' <=> v = w
  <2>1. f \in Frame /\ f.kind = "reboot"
    BY <1>4 DEF Frame, RebootFrames
  <2>2. Callers(stack)' /\ ~Idle' /\ Top' = f
    BY <1>1, <1>4, <2>1, CallersMoves, MoveExposes
  <2> QED  BY <1>4, <2>1, <2>2 DEF WaitsFor
<1>5. ASSUME NEW reply, Return(reply)
      PROVE  Callers(stack)' /\ \A v : ~WaitsFor(v)'
  BY <1>1, <1>5, CallersMoves, ReturnExposes DEF WaitsFor
<1>6. CASE ReadBoot
  <2>1. PICK id \in Seen(w) : Continue([Top EXCEPT !.old = id, !.pc = "fire"])
    BY <1>6 DEF ReadBoot
  <2>2. id \in Nat /\ (id = Unread \/ id = boot[w])
    BY <1>3, <2>1 DEF Seen, Unread, TypeOK
  <2> DEFINE f == [Top EXCEPT !.old = id, !.pc = "fire"]
  <2>3. f \in RebootFrames /\ f.venue = w /\ f.pc = "fire" /\ f.old = id
    BY <1>2, <2>2 DEF RebootFrames
  <2> HIDE DEF f
  <2>4. UNCHANGED <<guest, history>> /\ Top.pc = "read" /\ Continue(f)
    BY <1>6, <2>1 DEF ReadBoot, At, f
  <2>5. Callers(stack)' /\ Top' = f /\ \A v : WaitsFor(v)' <=> v = w
    BY <1>4, <2>3, <2>4
  <2>6. \A v \in Venue \ (blind \cup expired) : ~Going(v) /\ ~Going(v)'
    BY <2>4 DEF Awaited, Going, guest
  <2> QED  BY <2>2, <2>3, <2>4, <2>5, <2>6 DEF Awaited, guest, history
<1>7. CASE FireReboot
  <2> DEFINE f == [Top EXCEPT !.pc = "poll"]
  <2>1. f \in RebootFrames /\ f.venue = w /\ f.pc = "poll" /\ f.old = Top.old
    BY <1>2 DEF RebootFrames
  <2>2. Continue(f) /\ Top.pc = "fire" /\ UNCHANGED <<boot, up, history>>
    BY <1>7 DEF FireReboot, At
  <2> HIDE DEF f
  <2>3. Callers(stack)' /\ Top' = f /\ \A v : WaitsFor(v)' <=> v = w
    BY <1>4, <2>1, <2>2
  <2>4. \A v \in Venue \ (blind \cup expired) : ~Going(v)
    BY <2>2 DEF Awaited
  <2>5. \A v \in Venue : v # w => armed'[v] = armed[v]
    BY <1>3, <1>7 DEF FireReboot, TypeOK
  <2>6. \A v \in Venue \ (blind \cup expired) : Going(v)' => v = w
    BY <2>2, <2>4, <2>5 DEF Going
  <2>7. w \notin blind \cup expired /\ Top.old # Unread => boot[w] = Top.old
    BY <1>3, <2>2 DEF Awaited
  <2> QED  BY <2>1, <2>2, <2>3, <2>6, <2>7 DEF Awaited, history
<1>8. CASE PollBoot
  <2>1. UNCHANGED guest /\ expired' = expired /\ Top.pc = "poll"
    BY <1>8 DEF PollBoot, At
  <2>2. PICK id \in Seen(w) :
          IF id # Unread /\ (Top.old = Unread \/ id # Top.old)
            THEN /\ Return(Done({}))
                 /\ blind' = IF Top.old = Unread THEN blind \cup {w} ELSE blind
            ELSE Continue([Top EXCEPT !.left = @ - 1]) /\ UNCHANGED blind
    BY <1>8 DEF PollBoot
  <2>3. CASE id # Unread /\ (Top.old = Unread \/ id # Top.old)
    <3>1. Return(Done({})) /\ Callers(stack)' /\ \A v : ~WaitsFor(v)'
      BY <1>5, <2>2, <2>3
    <3>2. blind' = IF Top.old = Unread THEN blind \cup {w} ELSE blind
      BY <2>2, <2>3
    <3>3. id = boot[w] /\ up[w]
      BY <2>2, <2>3 DEF Seen
    <3>4. ASSUME NEW v \in Venue \ (blind' \cup expired') PROVE ~Going(v)'
      <4>1. v \in Venue \ (blind \cup expired) /\ (v = w => Top.old # Unread)
        BY <2>1, <3>2, <3>4
      <4>2. CASE v = w
        <5>1. ~armed[w]
          BY <1>3, <2>1, <2>3, <3>3, <4>1, <4>2 DEF Awaited
        <5> QED  BY <2>1, <3>3, <4>2, <5>1 DEF Going, guest
      <4>3. CASE v # w
        BY <1>3, <2>1, <4>1, <4>3 DEF Awaited, Going, guest
      <4> QED  BY <4>2, <4>3
    <3> QED  BY <3>1, <3>4 DEF Awaited
  <2>4. CASE ~(id # Unread /\ (Top.old = Unread \/ id # Top.old))
    <3> DEFINE f == [Top EXCEPT !.left = @ - 1]
    <3>1. Top.left - 1 \in 0..Polls
      BY <1>2, <1>8, PlanAssumption DEF PollBoot, RebootFrames
    <3>2. f \in RebootFrames /\ f.venue = w /\ f.pc = Top.pc /\ f.old = Top.old
      BY <1>2, <3>1 DEF RebootFrames
    <3>3. Continue(f) /\ blind' = blind
      BY <2>2, <2>4
    <3> HIDE DEF f
    <3>4. Callers(stack)' /\ Top' = f /\ \A v : WaitsFor(v)' <=> v = w
      BY <1>4, <3>2, <3>3
    <3> QED  BY <1>3, <2>1, <3>2, <3>3, <3>4 DEF Awaited, Going, guest
  <2> QED  BY <2>3, <2>4
<1>9. CASE PollExpires
  <2>1. Return(Failed) /\ UNCHANGED guest /\ blind' = blind /\ expired' = expired \cup {w}
    BY <1>9 DEF PollExpires
  <2>2. Callers(stack)' /\ \A v : ~WaitsFor(v)'
    BY <1>5, <2>1
  <2>3. \A v \in Venue \ (blind' \cup expired') : ~Going(v)'
    BY <1>3, <2>1 DEF Awaited, Going, guest
  <2> QED  BY <2>2, <2>3 DEF Awaited
<1> QED  BY <1>6, <1>7, <1>8, <1>9 DEF RebootStep, CommandStep, PollStep

\* What the guest does by itself, it does while it is polled for.
LEMMA GuestAwaited ==
  ASSUME TypeOK, Awaited, GuestStep
  PROVE  Awaited' /\ UNCHANGED stack
<1>1. PICK w \in Venue : GoDown(w) \/ ComeUp(w) \/ StayUp(w)
  BY DEF GuestStep
<1>2. UNCHANGED <<stack, history>>
  BY <1>1 DEF GoDown, ComeUp, StayUp
<1>3. Top' = Top /\ \A v : WaitsFor(v)' <=> WaitsFor(v)
  BY <1>2 DEF Top, WaitsFor, Idle
<1>4. Going(w)
  BY <1>1 DEF GoDown, ComeUp, StayUp, Going
<1>5. \A v \in Venue : v # w => boot'[v] = boot[v] /\ up'[v] = up[v] /\ armed'[v] = armed[v]
  BY <1>1 DEF GoDown, ComeUp, StayUp, TypeOK
<1>6. armed'[w] => boot'[w] = boot[w] /\ armed[w]
  BY <1>1 DEF GoDown, ComeUp, StayUp, TypeOK
<1> SUFFICES ASSUME NEW v \in Venue \ (blind \cup expired)
             PROVE  /\ Going(v)' => WaitsFor(v) /\ Top.pc = "poll"
                    /\ WaitsFor(v) /\ Top.pc = "fire" /\ Top.old # Unread => boot'[v] = Top.old
                    /\ WaitsFor(v) /\ Top.pc = "poll" /\ Top.old # Unread /\ armed'[v] =>
                         boot'[v] = Top.old
  BY <1>2, <1>3 DEF Awaited, history
<1>7. CASE v = w
  <2>1. WaitsFor(v) /\ Top.pc = "poll"
    BY <1>4, <1>7 DEF Awaited
  <2> QED  BY <1>6, <1>7, <2>1 DEF Awaited
<1>8. CASE v # w
  BY <1>5, <1>8 DEF Awaited, Going
<1> QED  BY <1>7, <1>8

\* Nothing of a walk runs on a guest that a reboot step is about to take down or has not got back,
\* whatever the guest, the plugins and the failures do, but after blind and given-up reboots.
THEOREM RebootsWaited == Spec => []NothingRunsIntoReboot
<1> DEFINE Inv == Callers(stack) /\ Awaited
<1>1. Init => Inv
  <2> SUFFICES ASSUME Init PROVE Callers(stack) /\ Awaited
    OBVIOUS
  <2>1. stack = <<>> /\ Len(stack) = 0
    BY DEF Init
  <2>2. \A v \in Venue : ~Going(v) /\ ~WaitsFor(v)
    BY <2>1 DEF Init, Going, WaitsFor, Idle
  <2> QED  BY <2>1, <2>2 DEF Callers, Awaited
<1>2. IInv /\ Inv /\ [Next]_vars => Inv'
  <2> SUFFICES ASSUME IInv, Callers(stack), Awaited, [Next]_vars
               PROVE  Callers(stack)' /\ Awaited'
    OBVIOUS
  <2>1. TypeOK
    BY DEF IInv
  <2>2. CASE UNCHANGED vars
    BY <2>2 DEF vars, guest, history, Callers, Awaited, Going, WaitsFor, Idle, Top
  <2>3. CASE Dispatch
    BY <2>1, <2>3, DispatchControl, QuietMove
  <2>4. CASE HandlerStep
    BY <2>1, <2>4, HandlerControl, QuietMove
  <2>5. CASE ActStep
    BY <2>1, <2>5, ActControl, QuietMove
  <2>6. CASE RebootStep
    BY <2>1, <2>6, RebootAwaited
  <2>7. CASE GuestStep
    BY <2>1, <2>7, GuestAwaited DEF Callers
  <2> QED  BY <2>2, <2>3, <2>4, <2>5, <2>6, <2>7 DEF Next
<1>3. Inv => NothingRunsIntoReboot
  BY DEF Awaited, NothingRunsIntoReboot
<1> QED  BY <1>1, <1>2, <1>3, Invariance, PTL DEF Spec

=============================================================================
