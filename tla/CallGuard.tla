------------------------------ MODULE CallGuard ------------------------------
(***************************************************************************)
(* Calls between plugins and what ends them: the idle watchdog             *)
(* (plugin_activity.go), the broker that nests one call in another and     *)
(* heartbeats the caller meanwhile (InvokeProvider), and the total cap of  *)
(* a leaf call (invokeTyped).                                              *)
(*                                                                         *)
(* Time is counted in heartbeat-sized units.  Tickers and timers count     *)
(* down to 0 and stay there until their goroutine takes them.  Heartbeats  *)
(* are prompt; a watchdog may be late, and picks among ready cases at will.*)
(***************************************************************************)
EXTENDS Naturals

CONSTANTS
  Depth,     \* bound: how deep calls nest
  None,
  Window,    \* [Call -> Nat]: pluginInvokeNoProgressFor
  Poll,      \* [Call -> Nat]: the sampling period of the watched tree
  Beat,      \* the heartbeat period of a leg
  Cap,       \* pluginLeafCap
  MaxWork    \* bound: work a tree shows before it stops

\* Call 1 is dispatched by the host, the peer of call c makes call c + 1.
Call == 1 .. Depth

ASSUME CallAssumption ==
  /\ Depth \in Nat \ {0} /\ None \notin Nat /\ None # "idle"
  /\ Window \in [Call -> Nat \ {0}] /\ Poll \in [Call -> Nat \ {0}]
  /\ Beat \in Nat \ {0} /\ Cap \in Nat /\ MaxWork \in Nat

\* The beat is a fourth of the shortest window, or less.
ASSUME BeatAssumption == \A c \in Call : Beat < Window[c]

VARIABLES
  inproc, \* calls whose peer is compiled in: it runs in the host, its tree is the host's children
  phase,  \* [Call -> "none", "running", or "stopping": the peer is gone, the watchdog not yet]
  cause,  \* [Call -> why its context was cancelled, or None]
  left,   \* [Call -> time to its context's deadline, or None]
  leg,    \* [Call -> the reverse leg the host runs for its peer: "none", "host", "nested"]
  beat,   \* [Call -> time to the next heartbeat of that leg]
  watch,  \* [Call -> "on" while the watchdog goroutine runs]
  timer,  \* [Call -> time to the watchdog's deadline]
  poll,   \* [Call -> time to the next sample]
  token,  \* [Call -> the wake channel holds an event]
  sum,    \* [Call -> work the watched tree shows]
  seen,   \* [Call -> the watchdog's high-water of it]
  idle,   \* [Call -> time since progress the watchdog can see]
  fresh   \* [Call -> its leg has not beaten yet]

clock == <<watch, timer, poll, token, sum, seen, idle>>
vars == <<inproc, phase, cause, left, leg, beat, clock, fresh>>

Down(n) == IF n = 0 THEN 0 ELSE n - 1

Cancelled(c) == cause[c] # None

\* A context that has a deadline gets no activity clock, and its legs beat for nobody.
HasClock(c) == left[c] = None

\* A leaf call has no reverse channel, unless its peer is in the host.
HasChannel(c) == c = 1 /\ c \notin inproc => HasClock(c)

-----------------------------------------------------------------------------
(* Starting a call: idleBoundedContext arms the clock unless the context has a deadline *)

Watching(c) == watch[c] = "on"

\* The watchdog returns; nobody reads its clock any more.
Off(c) ==
  /\ watch' = [watch EXCEPT ![c] = "off"]
  /\ timer' = [timer EXCEPT ![c] = 0] /\ poll' = [poll EXCEPT ![c] = 0]
  /\ token' = [token EXCEPT ![c] = FALSE]
  /\ sum' = [sum EXCEPT ![c] = 0] /\ seen' = [seen EXCEPT ![c] = 0]
  /\ idle' = [idle EXCEPT ![c] = 0]

Arm(c, deadline) ==
  /\ phase' = [phase EXCEPT ![c] = "running"]
  /\ cause' = [cause EXCEPT ![c] = None]
  /\ left' = [left EXCEPT ![c] = deadline]
  /\ IF deadline = None
       THEN /\ watch' = [watch EXCEPT ![c] = "on"]
            /\ timer' = [timer EXCEPT ![c] = Window[c]] /\ poll' = [poll EXCEPT ![c] = Poll[c]]
            /\ token' = [token EXCEPT ![c] = TRUE]
       ELSE UNCHANGED <<watch, timer, poll, token>>
  /\ UNCHANGED <<sum, seen, idle>>

\* A top-level dispatch: a leaf call with its cap, or a call on behalf of a command that
\* nothing bounds.  One at a time.
Dispatch ==
  /\ \A d \in Call : phase[d] = "none" /\ leg[d] = "none"
  /\ \E deadline \in {None, Cap} : Arm(1, deadline)
  /\ UNCHANGED <<inproc, leg, beat, fresh>>

\* A leg starts its ticker and touches nothing yet.
StartLeg(c, kind) ==
  /\ HasChannel(c)
  /\ phase[c] = "running" /\ ~Cancelled(c) /\ leg[c] = "none"
  /\ leg' = [leg EXCEPT ![c] = kind]
  /\ beat' = [beat EXCEPT ![c] = Beat]
  /\ fresh' = [fresh EXCEPT ![c] = TRUE]

\* The peer of c invokes another one: a leg of c for as long as that call lasts.  The context,
\* and with it a deadline, is handed down.
Invoke(c) ==
  /\ c + 1 \in Call /\ phase[c + 1] = "none" /\ leg[c + 1] = "none"
  /\ StartLeg(c, "nested")
  /\ Arm(c + 1, left[c])
  /\ UNCHANGED inproc

-----------------------------------------------------------------------------
(* What a peer does, one leg at a time *)

\* RunSystem, HostBuild, RunHostStep, ...: host work on behalf of the peer.
BeginLeg(c) ==
  /\ StartLeg(c, "host")
  /\ UNCHANGED <<inproc, phase, cause, left, clock>>

\* stop: the heartbeat of a leg that returned.
Quiet(c) ==
  /\ leg' = [leg EXCEPT ![c] = "none"]
  /\ beat' = [beat EXCEPT ![c] = 0] /\ fresh' = [fresh EXCEPT ![c] = FALSE]

EndLeg(c) ==
  /\ leg[c] = "host"
  /\ Quiet(c)
  /\ UNCHANGED <<inproc, phase, cause, left, clock>>

\* touch: a full buffer already holds an event.
BeatDue(c) == leg[c] # "none" /\ HasClock(c) /\ beat[c] = 0

HostBeats(c) ==   \* mutant: the leg that waits for another plugin does not beat
  /\ BeatDue(c)
  /\ beat' = [beat EXCEPT ![c] = Beat]
  /\ token' = [token EXCEPT ![c] = @ \/ (Watching(c) /\ leg[c] = "host")]
  /\ idle' = [idle EXCEPT ![c] = IF leg[c] = "host" THEN 0 ELSE @]
  /\ fresh' = [fresh EXCEPT ![c] = FALSE]
  /\ UNCHANGED <<inproc, phase, cause, left, leg, watch, timer, poll, seen, sum>>

Touch(c) ==
  /\ BeatDue(c)
  /\ beat' = [beat EXCEPT ![c] = Beat]
  /\ IF Watching(c) THEN token' = [token EXCEPT ![c] = TRUE] ELSE UNCHANGED token
  /\ idle' = [idle EXCEPT ![c] = 0]
  /\ fresh' = [fresh EXCEPT ![c] = FALSE]
  /\ UNCHANGED <<inproc, phase, cause, left, leg, watch, timer, poll, seen, sum>>

\* The peer's own process tree advances.  Every plugin process is a child of the host, so the
\* work also shows in the tree of each compiled-in peer.
Shows(c, d) == Watching(d) /\ (d = c \/ d \in inproc)

Work(c) ==
  /\ phase[c] = "running"
  /\ \E d \in Call : Shows(c, d)
  /\ \A d \in Call : Shows(c, d) => sum[d] < MaxWork
  /\ sum' = [d \in Call |-> IF Shows(c, d) THEN sum[d] + 1 ELSE sum[d]]
  /\ idle' = [idle EXCEPT ![c] = IF c \in inproc THEN @ ELSE 0]
  /\ UNCHANGED <<inproc, phase, cause, left, leg, beat, watch, timer, poll, token, seen, fresh>>

\* A child of the host exits.  Its work moves to the host's own counters, which are left out.
Reap(c) ==
  /\ c \in inproc /\ sum[c] > 0
  /\ \E rest \in 0 .. sum[c] - 1 : sum' = [sum EXCEPT ![c] = rest]
  /\ UNCHANGED <<inproc, phase, cause, left, leg, beat, watch, timer, poll, token, seen, idle, fresh>>

Reply(c) ==
  /\ phase[c] = "running" /\ leg[c] = "none"
  /\ phase' = [phase EXCEPT ![c] = "stopping"]
  /\ UNCHANGED <<inproc, cause, left, leg, beat, clock, fresh>>

\* A cancelled remote call returns at once; a compiled-in peer returns from its own leg first.
Abort(c) ==
  /\ phase[c] = "running" /\ Cancelled(c)
  /\ c \in inproc => leg[c] = "none"
  /\ phase' = [phase EXCEPT ![c] = "stopping"]
  /\ UNCHANGED <<inproc, cause, left, leg, beat, clock, fresh>>

-----------------------------------------------------------------------------
(* The watchdog: one select loop per call *)

Progresses(c) == token[c] \/ sum[c] > seen[c]

\* observe: a pending event is drained, else the tree is sampled.
Observe(c) ==
  IF token[c]
    THEN token' = [token EXCEPT ![c] = FALSE] /\ UNCHANGED seen
    ELSE seen' = [seen EXCEPT ![c] = sum[c]] /\ UNCHANGED token

Rearm(c) == timer' = [timer EXCEPT ![c] = Window[c]]

TakeWake(c) ==
  /\ Watching(c) /\ token[c]
  /\ token' = [token EXCEPT ![c] = FALSE]
  /\ Rearm(c)
  /\ UNCHANGED <<inproc, phase, cause, left, leg, beat, watch, poll, seen, sum, idle, fresh>>

\* A sample that a late watchdog missed is dropped.
PollResets(c) ==   \* mutant: every sample counts as progress
  /\ Watching(c) /\ poll[c] = 0
  /\ poll' = [poll EXCEPT ![c] = Poll[c]]
  /\ Observe(c) /\ Rearm(c)
  /\ UNCHANGED <<inproc, phase, cause, left, leg, beat, watch, sum, idle, fresh>>

TakePoll(c) ==
  /\ Watching(c) /\ poll[c] = 0
  /\ poll' = [poll EXCEPT ![c] = Poll[c]]
  /\ IF Progresses(c) THEN Observe(c) /\ Rearm(c)
                      ELSE UNCHANGED <<timer, token, seen>>
  /\ UNCHANGED <<inproc, phase, cause, left, leg, beat, watch, sum, idle, fresh>>

Kill(c) ==
  /\ cause' = [cause EXCEPT ![c] = IF Cancelled(c) THEN @ ELSE "idle"]
  /\ Off(c)

ExpiryTrusted(c) ==   \* mutant: an expiry kills without measuring again
  /\ Watching(c) /\ timer[c] = 0
  /\ Kill(c)
  /\ UNCHANGED <<inproc, phase, left, leg, beat, fresh>>

\* An expiry measures again before it kills.
TakeExpiry(c) ==
  /\ Watching(c) /\ timer[c] = 0
  /\ IF Progresses(c) THEN Observe(c) /\ Rearm(c) /\ UNCHANGED <<cause, watch, poll, sum, idle>>
                      ELSE Kill(c)
  /\ UNCHANGED <<inproc, phase, left, leg, beat, fresh>>

TakeStop(c) ==
  /\ Watching(c) /\ (phase[c] = "stopping" \/ Cancelled(c))
  /\ Off(c)
  /\ UNCHANGED <<inproc, phase, cause, left, leg, beat, fresh>>

\* The deferred stop joins the watchdog; the call is over, and so is the leg it was.
Join(c) ==
  /\ phase[c] = "stopping" /\ ~Watching(c)
  /\ phase' = [phase EXCEPT ![c] = "none"]
  /\ left' = [left EXCEPT ![c] = None]
  /\ IF c > 1 /\ leg[c - 1] = "nested"
       THEN Quiet(c - 1)
       ELSE UNCHANGED <<leg, beat, fresh>>
  /\ UNCHANGED <<inproc, cause, clock>>

-----------------------------------------------------------------------------
(* Cancellation and time *)

Detached(c) ==   \* mutant: the nested call keeps the deadline and drops the cancellation
  /\ phase[c] = "running" /\ ~Cancelled(c)
  /\ c > 1 /\ cause[c - 1] = "deadline"
  /\ cause' = [cause EXCEPT ![c] = "parent"]
  /\ UNCHANGED <<inproc, phase, left, leg, beat, clock, fresh>>

\* The context of a nested call ends with its caller's: the reverse server stops when the
\* caller's call returns, and in the host it is a child context.
Propagate(c) ==
  /\ phase[c] = "running" /\ ~Cancelled(c)
  /\ c > 1 /\ Cancelled(c - 1)
  /\ cause' = [cause EXCEPT ![c] = "parent"]
  /\ UNCHANGED <<inproc, phase, left, leg, beat, clock, fresh>>

Deadline(c) ==
  /\ phase[c] = "running" /\ ~Cancelled(c)
  /\ left[c] = 0
  /\ cause' = [cause EXCEPT ![c] = "deadline"]
  /\ UNCHANGED <<inproc, phase, left, leg, beat, clock, fresh>>

\* Time passes, but not beyond a heartbeat that is due.
Tick ==
  /\ \E c \in Call : phase[c] # "none"
  /\ \A c \in Call : ~BeatDue(c)
  /\ left' = [c \in Call |-> IF left[c] = None THEN None ELSE Down(left[c])]
  /\ beat' = [c \in Call |-> IF leg[c] = "none" THEN beat[c] ELSE Down(beat[c])]
  /\ timer' = [c \in Call |-> IF Watching(c) THEN Down(timer[c]) ELSE timer[c]]
  /\ poll' = [c \in Call |-> IF Watching(c) THEN Down(poll[c]) ELSE poll[c]]
  /\ idle' = [c \in Call |-> IF Watching(c) /\ idle[c] < Window[c] THEN idle[c] + 1 ELSE idle[c]]
  /\ UNCHANGED <<inproc, phase, cause, leg, watch, token, sum, seen, fresh>>

-----------------------------------------------------------------------------
Init ==
  /\ inproc \in SUBSET Call
  /\ phase = [c \in Call |-> "none"]
  /\ cause = [c \in Call |-> None]
  /\ left = [c \in Call |-> None]
  /\ leg = [c \in Call |-> "none"]
  /\ beat = [c \in Call |-> 0]
  /\ watch = [c \in Call |-> "off"]
  /\ timer = [c \in Call |-> 0]
  /\ poll = [c \in Call |-> 0]
  /\ token = [c \in Call |-> FALSE]
  /\ sum = [c \in Call |-> 0]
  /\ seen = [c \in Call |-> 0]
  /\ idle = [c \in Call |-> 0]
  /\ fresh = [c \in Call |-> FALSE]

\* What a peer chooses to do, and is not obliged to.
PeerStep(c) == Work(c) \/ BeginLeg(c) \/ Invoke(c)

Watchdog(c) == TakeWake(c) \/ TakePoll(c) \/ TakeExpiry(c) \/ TakeStop(c)

Next ==
  \/ \E c \in Call :
       \/ PeerStep(c) \/ Reap(c) \/ Reply(c) \/ EndLeg(c) \/ Touch(c)
       \/ Watchdog(c) \/ Abort(c) \/ Join(c) \/ Propagate(c) \/ Deadline(c)
  \/ Dispatch \/ Tick

\* Goroutines of the host run and time passes.  Nobody is obliged to answer; a call to a
\* plugin process returns when its context is cancelled, a compiled-in peer may not.
Spec ==
  /\ Init /\ [][Next]_vars
  /\ WF_vars(Tick)
  /\ \A c \in Call :
       /\ WF_vars(Touch(c)) /\ WF_vars(Join(c)) /\ WF_vars(Propagate(c)) /\ WF_vars(Deadline(c))
       /\ WF_vars(c \notin inproc /\ Abort(c))
       /\ WF_vars(TakeWake(c)) /\ WF_vars(TakeExpiry(c)) /\ WF_vars(TakeStop(c))

-----------------------------------------------------------------------------
(* Properties *)

TypeOK ==
  /\ inproc \subseteq Call
  /\ phase \in [Call -> {"none", "running", "stopping"}]
  /\ cause \in [Call -> {None, "idle", "parent", "deadline"}]
  /\ left \in [Call -> Nat \cup {None}]
  /\ leg \in [Call -> {"none", "host", "nested"}]
  /\ watch \in [Call -> {"on", "off"}] /\ token \in [Call -> BOOLEAN]
  /\ beat \in [Call -> Nat] /\ timer \in [Call -> Nat] /\ poll \in [Call -> Nat]
  /\ sum \in [Call -> Nat] /\ seen \in [Call -> Nat]
  /\ idle \in [Call -> Nat] /\ fresh \in [Call -> BOOLEAN]

KilledNow(c) == cause[c] # "idle" /\ cause'[c] = "idle"

\* However late the watchdog runs and whichever ready case it picks, it kills only a call
\* that no heartbeat and no advance of its tree has reached for a whole window: expiry
\* measures both sources again (idleBoundedContext, observe).
KilledOnlyWhenIdle == [][\A c \in Call : KilledNow(c) => idle[c] >= Window[c]]_vars

\* A call that waits for host work or for another plugin is not killed for it, once the wait
\* has lasted one beat (startPluginActivityHeartbeat around every leg, InvokeProvider's
\* included).
CallerOutlivesNested ==
  [][\A c \in Call : KilledNow(c) => leg[c] = "none" \/ fresh[c]]_vars

\* A chain of plugin processes that stops making progress comes apart: heartbeats for a
\* nested call keep its caller, but never a call that does nothing, so the innermost dies
\* and with it the reason to keep the others (the #474 hang).  A compiled-in call that
\* ignores its cancellation is not covered, nor is host work that never ends.
HungChainUnwinds ==
  \A c \in Call :
    \/ []<>(phase[c] = "none" \/ inproc \cap c .. Depth # {})
    \/ []<><<\E d \in Call : PeerStep(d)>>_vars
    \/ []<>(\E d \in Call : leg[d] = "host")

\* Whatever a call to a plugin process was waiting for when its caller was cut off, it ends
\* too (the stopped reverse server, the child context).
NoCallOutlivesCaller ==
  \A c \in 2 .. Depth :
    phase[c] = "running" /\ c \notin inproc /\ phase[c - 1] = "none" ~> phase[c] = "none"

=============================================================================
