-------------------------- MODULE CallGuardProofs --------------------------
(* What the idle guard of CallGuard never does, for any windows and beat, and   *)
(* what the teardown of PluginProcess leaves, for any number of calls on it.    *)
EXTENDS CallGuard, PluginProcess, TLAPS

-----------------------------------------------------------------------------
(* The inductive invariant *)

\* A watched clock that holds no evidence of progress has counted a whole window, or will
\* have when its deadline fires.  The tree of a compiled-in peer is no evidence: its sum can
\* fall back when a child is reaped.
Confirmed(c) ==
  Watching(c) => \/ token[c]
                 \/ c \notin inproc /\ sum[c] > seen[c]
                 \/ idle[c] + timer[c] >= Window[c]

\* The high-water of a plugin process is not ahead of its tree.
HighWater(c) == c \notin inproc => seen[c] <= sum[c]

\* A leg that has beaten once keeps the clock younger than a beat.
Beating(c) == Watching(c) /\ leg[c] # "none" /\ ~fresh[c] => idle[c] + beat[c] <= Beat

\* Only a call in flight without a deadline is watched.
Watched(c) == Watching(c) => HasClock(c) /\ phase[c] # "none"

IInv == TypeOK /\ \A c \in Call : Confirmed(c) /\ HighWater(c) /\ Beating(c) /\ Watched(c)

-----------------------------------------------------------------------------
(* Every step keeps it *)

\* The calls of the chain are numbers.
LEMMA CallsAreNat == Call \subseteq Nat /\ \A c \in Call : c \in Nat /\ c # None
BY CallAssumption, SMT DEF Call

\* Deadlines and samples are armed with numbers.
LEMMA WindowsAreNat ==
  Beat \in Nat /\ \A c \in Call : Window[c] \in Nat /\ Window[c] > 0 /\ Poll[c] \in Nat
BY CallAssumption, SMT

\* Nothing runs at the start.
LEMMA InitIInv == Init => IInv
BY CallAssumption, SMT DEF Init, IInv, TypeOK, Confirmed, HighWater, Beating, Watched, Watching, HasClock

\* A call with a deadline is not watched; without one it starts with an event pending.
LEMMA ArmIInv ==
  ASSUME IInv, NEW c \in Call, NEW deadline \in Nat \cup {None}, phase[c] = "none", leg[c] = "none",
         Arm(c, deadline), leg'[c] = "none", UNCHANGED inproc,
         \A d \in Call \ {c} : leg'[d] = leg[d] \/ (fresh'[d] /\ leg'[d] \in {"host", "nested"}),
         \A d \in Call \ {c} : leg'[d] = leg[d] => beat'[d] = beat[d] /\ fresh'[d] = fresh[d],
         leg' \in [Call -> {"none", "host", "nested"}], beat' \in [Call -> Nat], fresh' \in [Call -> BOOLEAN]
  PROVE  IInv'
<1>1. TypeOK'
  <2>1. cause' \in [Call -> {None, "idle", "parent", "deadline"}] /\ left' \in [Call -> Nat \cup {None}]
        /\ phase' \in [Call -> {"none", "running", "stopping"}]
    BY SMT DEF IInv, TypeOK, Arm
  <2>2. /\ watch' \in [Call -> {"on", "off"}] /\ token' \in [Call -> BOOLEAN]
        /\ timer' \in [Call -> Nat] /\ poll' \in [Call -> Nat]
    <3>1. CASE deadline = None
      <4>1. /\ watch' = [watch EXCEPT ![c] = "on"] /\ token' = [token EXCEPT ![c] = TRUE]
            /\ timer' = [timer EXCEPT ![c] = Window[c]] /\ poll' = [poll EXCEPT ![c] = Poll[c]]
        BY <3>1 DEF Arm
      <4>2. watch' \in [Call -> {"on", "off"}] /\ token' \in [Call -> BOOLEAN]
        BY <4>1 DEF IInv, TypeOK
      <4>3. timer' \in [Call -> Nat] /\ poll' \in [Call -> Nat]
        BY <4>1, WindowsAreNat DEF IInv, TypeOK
      <4> QED BY <4>2, <4>3
    <3>2. CASE deadline # None
      BY <3>2 DEF IInv, TypeOK, Arm
    <3> QED BY <3>1, <3>2
  <2> QED BY <2>1, <2>2 DEF IInv, TypeOK, Arm
<1>2. ASSUME NEW d \in Call
      PROVE  (Confirmed(d) /\ HighWater(d) /\ Beating(d) /\ Watched(d))'
  <2>1. CASE d = c
    BY <2>1, CallAssumption, SMT
    DEF IInv, TypeOK, Arm, Confirmed, HighWater, Beating, Watched, Watching, HasClock
  <2>2. CASE d # c
    BY <2>2, CallAssumption, SMT
    DEF IInv, TypeOK, Arm, Confirmed, HighWater, Beating, Watched, Watching, HasClock
  <2> QED BY <2>1, <2>2
<1> QED BY <1>1, <1>2 DEF IInv

\* What a peer, a leg or a child of the host does.
LEMMA PeerIInv ==
  ASSUME IInv, NEW c \in Call,
         Work(c) \/ BeginLeg(c) \/ Reap(c) \/ Reply(c) \/ EndLeg(c) \/ Touch(c) \/ Abort(c)
  PROVE  IInv'
<1> USE CallAssumption, WindowsAreNat DEF IInv, TypeOK, Confirmed, HighWater, Beating, Watched, Watching, HasClock, clock
<1>1. CASE Work(c)
  BY <1>1, SMT DEF Work, Shows
<1>2. CASE BeginLeg(c)
  BY <1>2, SMT DEF BeginLeg, StartLeg
<1>3. CASE Reap(c)
  BY <1>3, SMT DEF Reap
<1>4. CASE Reply(c)
  BY <1>4, SMT DEF Reply
<1>5. CASE EndLeg(c)
  BY <1>5, SMT DEF EndLeg, Quiet
<1>6. CASE Touch(c)
  <2>1. TypeOK'
    <3>1. token' \in [Call -> BOOLEAN] /\ fresh' \in [Call -> BOOLEAN]
      BY <1>6, Zenon DEF Touch
    <3>2. beat' \in [Call -> Nat] /\ idle' \in [Call -> Nat]
      BY <1>6, SMT DEF Touch
    <3> QED BY <1>6, <3>1, <3>2 DEF Touch
  <2>2. ASSUME NEW d \in Call PROVE (Confirmed(d) /\ HighWater(d) /\ Beating(d) /\ Watched(d))'
    <3>1. CASE d # c
      BY <1>6, <3>1, SMT DEF Touch, BeatDue
    <3>2. CASE d = c /\ Watching(c)
      BY <1>6, <3>2, SMT DEF Touch, BeatDue
    <3>3. CASE d = c /\ ~Watching(c)
      BY <1>6, <3>3, SMT DEF Touch, BeatDue
    <3> QED BY <3>1, <3>2, <3>3
  <2> QED BY <2>1, <2>2
<1>7. CASE Abort(c)
  BY <1>7, SMT DEF Abort
<1> QED BY <1>1, <1>2, <1>3, <1>4, <1>5, <1>6, <1>7

\* A measurement drains an event or raises the high-water.
LEMMA ObserveTypes ==
  ASSUME TypeOK, NEW c \in Call, Observe(c)
  PROVE  token' \in [Call -> BOOLEAN] /\ seen' \in [Call -> Nat]
<1>1. CASE token[c]
  <2>1. token' = [token EXCEPT ![c] = FALSE] /\ seen' = seen
    BY <1>1 DEF Observe
  <2> QED BY <2>1 DEF TypeOK
<1>2. CASE ~token[c]
  <2>1. seen' = [seen EXCEPT ![c] = sum[c]] /\ token' = token
    BY <1>2 DEF Observe
  <2> QED BY <2>1 DEF TypeOK
<1> QED BY <1>1, <1>2

\* What the watchdog does, and the return of the call that joins it.
LEMMA WatchdogIInv ==
  ASSUME IInv, NEW c \in Call, Watchdog(c) \/ Join(c)
  PROVE  IInv'
<1> USE CallAssumption, WindowsAreNat DEF IInv, TypeOK, Confirmed, HighWater, Beating, Watched, Watching, HasClock, clock
<1>1. CASE TakeWake(c)
  BY <1>1, SMT DEF TakeWake, Rearm
<1>2. CASE TakePoll(c)
  <2>1. TypeOK'
    <3>1. poll' \in [Call -> Nat] /\ timer' \in [Call -> Nat]
      BY <1>2, Zenon DEF TakePoll, Rearm
    <3>2. token' \in [Call -> BOOLEAN] /\ seen' \in [Call -> Nat]
      BY <1>2, ObserveTypes DEF TakePoll
    <3> QED BY <1>2, <3>1, <3>2 DEF TakePoll
  <2>2. ASSUME NEW d \in Call PROVE (Confirmed(d) /\ HighWater(d) /\ Beating(d) /\ Watched(d))'
    <3>1. CASE d # c
      BY <1>2, <3>1, SMT DEF TakePoll, Rearm, Observe, Progresses
    <3>2. CASE d = c /\ Progresses(c)
      BY <1>2, <3>2, SMT DEF TakePoll, Rearm, Observe, Progresses
    <3>3. CASE d = c /\ ~Progresses(c)
      BY <1>2, <3>3, SMT DEF TakePoll, Rearm, Observe, Progresses
    <3> QED BY <3>1, <3>2, <3>3
  <2> QED BY <2>1, <2>2
<1>3. CASE TakeExpiry(c)
  <2>1. CASE Progresses(c)
    <3>1. TypeOK'
      <4>1. timer' \in [Call -> Nat]
        BY <1>3, <2>1, Zenon DEF TakeExpiry, Rearm
      <4>2. token' \in [Call -> BOOLEAN] /\ seen' \in [Call -> Nat]
        BY <1>3, <2>1, ObserveTypes DEF TakeExpiry
      <4> QED BY <1>3, <2>1, <4>1, <4>2 DEF TakeExpiry
    <3>2. ASSUME NEW d \in Call PROVE (Confirmed(d) /\ HighWater(d) /\ Beating(d) /\ Watched(d))'
      <4>1. CASE d # c
        BY <1>3, <2>1, <4>1, SMT DEF TakeExpiry, Rearm, Observe, Progresses
      <4>2. CASE d = c
        BY <1>3, <2>1, <4>2, SMT DEF TakeExpiry, Rearm, Observe, Progresses
      <4> QED BY <4>1, <4>2
    <3> QED BY <3>1, <3>2
  <2>2. CASE ~Progresses(c)
    <3>1. TypeOK'
      <4>1. cause' \in [Call -> {None, "idle", "parent", "deadline"}]
        BY <1>3, <2>2, Zenon DEF TakeExpiry, Kill
      <4>2. watch' \in [Call -> {"on", "off"}] /\ token' \in [Call -> BOOLEAN]
        BY <1>3, <2>2, Zenon DEF TakeExpiry, Kill, Off
      <4>3. /\ timer' \in [Call -> Nat] /\ poll' \in [Call -> Nat] /\ idle' \in [Call -> Nat]
            /\ sum' \in [Call -> Nat] /\ seen' \in [Call -> Nat]
        BY <1>3, <2>2, SMT DEF TakeExpiry, Kill, Off
      <4> QED BY <1>3, <2>2, <4>1, <4>2, <4>3 DEF TakeExpiry
    <3>2. ASSUME NEW d \in Call PROVE (Confirmed(d) /\ HighWater(d) /\ Beating(d) /\ Watched(d))'
      <4>1. CASE d # c
        BY <1>3, <2>2, <4>1, SMT DEF TakeExpiry, Kill, Off, Cancelled
      <4>2. CASE d = c
        BY <1>3, <2>2, <4>2, SMT DEF TakeExpiry, Kill, Off, Cancelled
      <4> QED BY <4>1, <4>2
    <3> QED BY <3>1, <3>2
  <2> QED BY <2>1, <2>2
<1>4. CASE TakeStop(c)
  BY <1>4, SMT DEF TakeStop, Off
<1>5. CASE Join(c)
  <2>1. TypeOK'
    <3>1. leg' \in [Call -> {"none", "host", "nested"}] /\ beat' \in [Call -> Nat]
      BY <1>5, SMT DEF Join, Quiet
    <3>2. fresh' \in [Call -> BOOLEAN]
      BY <1>5, Zenon DEF Join, Quiet
    <3>3. phase' \in [Call -> {"none", "running", "stopping"}] /\ left' \in [Call -> Nat \cup {None}]
      BY <1>5, SMT DEF Join
    <3> QED BY <1>5, <3>1, <3>2, <3>3 DEF Join
  <2>2. ASSUME NEW d \in Call PROVE (Confirmed(d) /\ HighWater(d) /\ Beating(d) /\ Watched(d))'
    <3>1. CASE d # c /\ d # c - 1
      BY <1>5, <3>1, SMT DEF Join, Quiet
    <3>2. CASE d = c
      BY <1>5, <3>2, SMT DEF Join, Quiet
    <3>3. CASE d # c /\ d = c - 1
      BY <1>5, <3>3, SMT DEF Join, Quiet
    <3> QED BY <3>1, <3>2, <3>3
  <2> QED BY <2>1, <2>2
<1> QED BY <1>1, <1>2, <1>3, <1>4, <1>5 DEF Watchdog

\* Cancellation leaves the clocks alone; a unit of time moves idle and timer against each other.
LEMMA TimeIInv ==
  ASSUME IInv, (\E c \in Call : Propagate(c) \/ Deadline(c)) \/ Tick
  PROVE  IInv'
<1> USE CallAssumption, WindowsAreNat DEF IInv, TypeOK, Confirmed, HighWater, Beating, Watched, Watching, HasClock, clock
<1>1. ASSUME NEW c \in Call, Propagate(c) PROVE IInv'
  BY <1>1, SMT DEF Propagate
<1>2. ASSUME NEW c \in Call, Deadline(c) PROVE IInv'
  BY <1>2, SMT DEF Deadline
<1>3. CASE Tick
  <2>1. TypeOK'
    BY <1>3, SMT DEF Tick, Down
  <2>2. ASSUME NEW c \in Call
        PROVE  (Confirmed(c) /\ HighWater(c) /\ Beating(c) /\ Watched(c))'
    BY <1>3, <2>2, SMT DEF Tick, Down, BeatDue
  <2> QED BY <2>1, <2>2
<1> QED BY <1>1, <1>2, <1>3

\* One action per line.
LEMMA NextIInv == IInv /\ [Next]_vars => IInv'
<1> SUFFICES ASSUME IInv, [Next]_vars PROVE IInv'
  OBVIOUS
<1>1. CASE UNCHANGED vars
  BY <1>1 DEF IInv, TypeOK, Confirmed, HighWater, Beating, Watched, Watching, HasClock, vars, clock
<1>2. CASE Dispatch
  <2>1. PICK deadline \in {None, Cap} : Arm(1, deadline)
    BY <1>2 DEF Dispatch
  <2>2. 1 \in Call
    BY CallAssumption, SMT DEF Call
  <2>3. phase[1] = "none" /\ leg[1] = "none" /\ deadline \in Nat \cup {None}
    BY <1>2, <2>2, CallAssumption DEF Dispatch
  <2>4. UNCHANGED <<inproc, leg, beat, fresh>>
    BY <1>2 DEF Dispatch
  <2> QED BY <2>1, <2>2, <2>3, <2>4, ArmIInv DEF IInv, TypeOK
<1>3. ASSUME NEW c \in Call, Invoke(c) PROVE IInv'
  <2>1. c + 1 \in Call /\ c + 1 # c /\ left[c] \in Nat \cup {None}
    BY <1>3, CallsAreNat, SMT DEF Invoke, IInv, TypeOK
  <2>2. leg'[c + 1] = "none" /\ leg' \in [Call -> {"none", "host", "nested"}]
    BY <1>3, <2>1, SMT DEF Invoke, StartLeg, IInv, TypeOK
  <2>3. beat' \in [Call -> Nat] /\ fresh' \in [Call -> BOOLEAN]
    BY <1>3, CallAssumption, SMT DEF Invoke, StartLeg, IInv, TypeOK
  <2>4. \A d \in Call : IF d = c THEN fresh'[d] /\ leg'[d] = "nested" /\ leg[d] = "none"
                                 ELSE leg'[d] = leg[d] /\ beat'[d] = beat[d] /\ fresh'[d] = fresh[d]
    BY <1>3, SMT DEF Invoke, StartLeg, IInv, TypeOK
  <2> QED BY <1>3, <2>1, <2>2, <2>3, <2>4, ArmIInv DEF Invoke
<1>4. ASSUME NEW c \in Call,
             Work(c) \/ BeginLeg(c) \/ Reap(c) \/ Reply(c) \/ EndLeg(c) \/ Touch(c) \/ Abort(c)
      PROVE  IInv'
  BY <1>4, PeerIInv
<1>5. ASSUME NEW c \in Call, Watchdog(c) \/ Join(c) PROVE IInv'
  BY <1>5, WatchdogIInv
<1>6. CASE (\E c \in Call : Propagate(c) \/ Deadline(c)) \/ Tick
  BY <1>6, TimeIInv
<1> QED BY <1>1, <1>2, <1>3, <1>4, <1>5, <1>6 DEF Next, PeerStep

\* The invariant of the guard.
THEOREM GuardInvariance == Spec => []IInv
BY InitIInv, NextIInv, PTL DEF Spec

\* Every clock, timer and counter keeps its type.
THEOREM GuardTypeCorrectness == Spec => []TypeOK
<1>1. IInv => TypeOK
  BY DEF IInv
<1> QED BY <1>1, GuardInvariance, PTL

-----------------------------------------------------------------------------
(* What a kill means *)

\* Only an expiry that found no progress kills.
LEMMA KillIsConfirmed ==
  ASSUME IInv, [Next]_vars, NEW c \in Call, KilledNow(c)
  PROVE  Watching(c) /\ timer[c] = 0 /\ ~Progresses(c)
<1> USE DEF KilledNow, IInv, TypeOK, clock
<1>1. CASE TakeExpiry(c)
  BY <1>1, SMT DEF TakeExpiry, Observe, Rearm
<1>2. ASSUME NEW d \in Call, d # c, TakeExpiry(d) PROVE FALSE
  BY <1>2, SMT DEF TakeExpiry, Kill
<1>3. ASSUME NEW d \in Call, Invoke(d) PROVE FALSE
  <2>1. cause' = [cause EXCEPT ![d + 1] = None]
    BY <1>3 DEF Invoke, Arm
  <2>2. cause'[c] = cause[c] \/ cause'[c] = None
    BY <2>1
  <2> QED BY <2>2, CallAssumption
<1>4. CASE Dispatch
  <2>1. cause' = [cause EXCEPT ![1] = None]
    BY <1>4 DEF Dispatch, Arm
  <2>2. cause'[c] = cause[c] \/ cause'[c] = None
    BY <2>1
  <2> QED BY <2>2, CallAssumption
<1>5. ASSUME NEW d \in Call, Propagate(d) \/ Deadline(d) PROVE FALSE
  BY <1>5, SMT DEF Propagate, Deadline
<1>6. ASSUME UNCHANGED cause PROVE FALSE
  BY <1>6
<1>7. ASSUME NEW d \in Call,
             \/ Work(d) \/ BeginLeg(d) \/ Reap(d) \/ Reply(d) \/ EndLeg(d) \/ Touch(d) \/ Abort(d)
             \/ TakeWake(d) \/ TakePoll(d) \/ TakeStop(d) \/ Join(d)
      PROVE  UNCHANGED cause
  BY <1>7 DEF Work, BeginLeg, Reap, Reply, EndLeg, Touch, Abort, TakeWake, TakePoll, TakeStop, Join
<1>8. Tick \/ UNCHANGED vars => UNCHANGED cause
  BY DEF Tick, vars
<1> QED
  BY <1>1, <1>2, <1>3, <1>4, <1>5, <1>6, <1>7, <1>8 DEF Next, PeerStep, Watchdog

\* For every window, sampling period and schedule of the watchdog, a call dies of idleness
\* only after a whole window in which no heartbeat and, for a plugin process, no advance of
\* its tree was seen.
THEOREM NoFalseKill == Spec => KilledOnlyWhenIdle
<1>1. IInv /\ [Next]_vars => [\A c \in Call : KilledNow(c) => idle[c] >= Window[c]]_vars
  <2> SUFFICES ASSUME IInv, [Next]_vars, NEW c \in Call, KilledNow(c) PROVE idle[c] >= Window[c]
    OBVIOUS
  <2>1. Watching(c) /\ timer[c] = 0 /\ ~Progresses(c)
    BY KillIsConfirmed
  <2> QED BY <2>1, CallAssumption, SMT DEF IInv, TypeOK, Confirmed, Progresses
<1> QED BY <1>1, GuardInvariance, PTL DEF Spec, KilledOnlyWhenIdle

\* A call that has waited for one beat in a leg, for host work or for another plugin, is not
\* killed for as long as the leg lasts.
THEOREM LegsKeepTheirCaller == Spec => CallerOutlivesNested
<1>1. IInv /\ [Next]_vars => [\A c \in Call : KilledNow(c) => leg[c] = "none" \/ fresh[c]]_vars
  <2> SUFFICES ASSUME IInv, [Next]_vars, NEW c \in Call, KilledNow(c) PROVE leg[c] = "none" \/ fresh[c]
    OBVIOUS
  <2>1. Watching(c) /\ timer[c] = 0 /\ ~Progresses(c)
    BY KillIsConfirmed
  <2> QED
    BY <2>1, CallAssumption, BeatAssumption, SMT DEF IInv, TypeOK, Confirmed, Beating, Progresses
<1> QED BY <1>1, GuardInvariance, PTL DEF Spec, CallerOutlivesNested

-----------------------------------------------------------------------------
(* The process: what its teardown leaves (PluginProcess) *)

\* The kill goroutine and the graces belong to a teardown, which follows the connect's
\* phases; what either of them has finished, the child has not survived.
Reaping ==
  /\ Connecting \/ host = "ready" => kill = "none" /\ grace = "none"
  /\ TearingDown => grace \in {"first", "second", "over"}
  /\ kill = "done" \/ grace \in {"second", "over"} => ~Alive
  /\ host \in {"failed", "closed"} => TeardownOver

\* Types, for every set of calls.
THEOREM ProcessTypeCorrectness == ProcessSpec => []ProcessTypeOK
<1>1. ProcessInit => ProcessTypeOK
  BY DEF ProcessInit, ProcessTypeOK, Phase
<1>2. ProcessTypeOK /\ [ProcessNext]_process => ProcessTypeOK'
  <2> SUFFICES ASSUME ProcessTypeOK, [ProcessNext]_process PROVE ProcessTypeOK'
    OBVIOUS
  <2>1. CASE Hang \/ Die
    BY <2>1 DEF Hang, Die, ProcessTypeOK, Alive, teardown, calls
  <2>2. CASE ConnectStep
    BY <2>2 DEF ConnectStep, Spawn, Handshake, StartFails, Dispense, DescribeAnswered,
      DescribeBroken, ReadExpires, ReadBounded, Gate, Fail, Sigkill, Teardown, ProcessTypeOK, Phase, teardown, calls
  <2>3. CASE Close
    BY <2>3 DEF Close, Teardown, ProcessTypeOK, Phase, calls
  <2>4. CASE TeardownStep
    BY <2>4 DEF TeardownStep, KillClosesBroker, KillAnswered, KillReturns, FirstGraceExpires,
      SecondGraceExpires, TeardownReturns, TearingDown, Sigkill, ProcessTypeOK, Phase, teardown, calls
  <2>5. ASSUME NEW c \in Request, CallStep(c) PROVE ProcessTypeOK'
    BY <2>5 DEF CallStep, InvokeWithReverse, PlainInvoke, Accept, Return, BrokerEnds, ProcessTypeOK, teardown, calls
  <2>6. CASE UNCHANGED process
    BY <2>6 DEF process, ProcessTypeOK, teardown, calls
  <2> QED
    BY <2>1, <2>2, <2>3, <2>4, <2>5, <2>6 DEF ProcessNext
<1> QED
  BY <1>1, <1>2, PTL DEF ProcessSpec

LEMMA ReapingInit == ProcessInit => Reaping
BY DEF ProcessInit, Reaping, Connecting, TearingDown, TeardownOver, Alive, Phase

\* Only Spawn makes a child live, and it needs the first phase of the connect.
LEMMA ReapingStep == ProcessTypeOK /\ Reaping /\ [ProcessNext]_process => Reaping'
<1> SUFFICES ASSUME ProcessTypeOK, Reaping, [ProcessNext]_process PROVE Reaping'
  OBVIOUS
<1> USE DEF Connecting, TearingDown, TeardownOver, Alive, Phase
<1>1. CASE Hang \/ Die
  BY <1>1 DEF Hang, Die, Reaping, teardown
<1>2. CASE ConnectStep
  <2>1. CASE Spawn
    BY <2>1 DEF Spawn, Reaping, teardown
  <2>2. CASE Handshake \/ Dispense \/ DescribeAnswered \/ DescribeBroken \/ ReadExpires \/ Gate
    BY <2>2 DEF Handshake, Dispense, DescribeAnswered, DescribeBroken, ReadExpires, ReadBounded,
      Gate, Fail, Teardown, Reaping, teardown
  <2>3. CASE StartFails
    BY <2>3 DEF StartFails, Fail, Teardown, Reaping
  <2> QED
    BY <1>2, <2>1, <2>2, <2>3 DEF ConnectStep
<1>3. CASE Close
  BY <1>3 DEF Close, Teardown, Reaping
<1>4. CASE TeardownStep
  BY <1>4 DEF TeardownStep, KillClosesBroker, KillAnswered, KillReturns, FirstGraceExpires,
    SecondGraceExpires, TeardownReturns, Sigkill, Reaping, teardown, ProcessTypeOK
<1>5. ASSUME NEW c \in Request, CallStep(c) PROVE Reaping'
  BY <1>5 DEF CallStep, InvokeWithReverse, PlainInvoke, Accept, Return, BrokerEnds, Reaping, teardown
<1>6. CASE UNCHANGED process
  BY <1>6 DEF process, Reaping, teardown
<1> QED
  BY <1>1, <1>2, <1>3, <1>4, <1>5, <1>6 DEF ProcessNext

\* Whatever the child and Client.Kill do, no failed connect and no closed connection leaves a
\* live process (boundedTeardown).
THEOREM TeardownReaps == ProcessSpec => []ChildReaped
<1>1. Reaping => ChildReaped
  BY DEF Reaping, ChildReaped, TeardownOver
<1> QED
  BY <1>1, ReapingInit, ReapingStep, ProcessTypeCorrectness, PTL DEF ProcessSpec
=============================================================================
