------------------------------- MODULE HostStep -------------------------------
(***************************************************************************)
(* A deploy that walks a plan: the dispatch of a deploy target             *)
(* (deploy_target_dispatch.go), the channel on which a plugin asks the     *)
(* host to run the steps it cannot run itself, their arms and the reboot   *)
(* of a guest (plugin_executor_reverse.go), and the calls to the plugins   *)
(* that serve steps, each with a channel of its own                        *)
(* (plugin_dispatch_reverse.go).                                           *)
(*                                                                         *)
(* stack is the chain of handlers and steps, innermost first, and ret what *)
(* the last one that finished replied.  The guest acts on its own.         *)
(***************************************************************************)
EXTENDS Naturals, Sequences

CONSTANTS
  Host, Guest, None,  \* the operator's machine, the deployed guest
  Act, System,        \* steps whose verb renders a script; those of them with system scope
  Served, Reboots,    \* steps another plugin executes; `reboot: true` steps
  Plan,               \* the steps the walk sends to the host
  Inner,              \* [Served -> SUBSET Step]: the steps the plugin that serves one sends in turn
  MaxWalks,           \* bound: deploys one after the other
  Polls,              \* bound: looks at the guest before the cap of a reboot ends
  Faults              \* failures that may happen

Step == Act \cup Served \cup Reboots
Venue == {Host, Guest}

ASSUME PlanAssumption ==
  /\ System \subseteq Act /\ Plan \subseteq Step
  /\ Act \cap Served = {} /\ Act \cap Reboots = {} /\ Served \cap Reboots = {}
  /\ Inner \in [Served -> SUBSET Step]
  /\ MaxWalks \in Nat /\ Polls \in Nat
  /\ Host # Guest /\ None \notin Venue
  /\ \A reply \in [ok : BOOLEAN, rev : SUBSET Step] : reply # None
  /\ Faults \subseteq {"run", "capture", "step", "plugin", "stuck"}

VARIABLES
  boot,     \* boot_id of each venue
  up,       \* it answers
  armed,    \* a background reboot is about to take it down
  blind,    \* history: venues with a reboot that did not know the old boot_id and was reported done
  expired,  \* history: venues with a reboot that was given up
  acts,     \* what each script ran as, in this walk
  stack, ret, walks

guest == <<boot, up, armed>>
history == <<blind, expired>>
vars == <<guest, history, acts, stack, ret, walks>>

-----------------------------------------------------------------------------
(* Frames, and the channel a handler has *)

Fleet(venue, rebootable) ==
  [kind |-> "fleet", venue |-> venue, rebootable |-> rebootable]

Handler(channel, plan) ==
  [kind |-> "handler", venue |-> channel.venue, rebootable |-> channel.rebootable,
   plan |-> plan, rev |-> {}]

ActFrame(s, venue) == [kind |-> "act", step |-> s, venue |-> venue, pc |-> "user"]

\* Boot 0 is the empty string: an id that could not be read.
Unread == 0
RebootFrame(s, venue) ==
  [kind |-> "reboot", step |-> s, venue |-> venue, pc |-> "read", old |-> Unread, left |-> Polls]

Idle == stack = <<>>
Top == Head(stack)
Below == Tail(stack)

Running(kind) == ~Idle /\ ret = None /\ Top.kind = kind
At(kind, pc) == Running(kind) /\ Top.pc = pc
Replied(kind) == ~Idle /\ ret # None /\ Top.kind = kind

Done(rev) == [ok |-> TRUE, rev |-> rev]
Failed == [ok |-> FALSE, rev |-> {}]

Call(frame, callee) == stack' = <<callee, frame>> \o Below /\ ret' = None
Continue(frame) == stack' = <<frame>> \o Below /\ ret' = None
Answer(frame, reply) == stack' = <<frame>> \o Below /\ ret' = reply
Return(reply) == stack' = Below /\ ret' = reply

OwnVenue(caller, descriptor) ==   \* mutant: a self-described venue is not used
  [venue |-> caller.venue, rebootable |-> caller.rebootable]

\* A plugin that is called gets its caller's venue, or the one the caller describes, and the
\* caller's leave to reboot.
Channel(caller, descriptor) ==
  [venue |-> IF descriptor = None THEN caller.venue ELSE descriptor,
   rebootable |-> caller.rebootable]

-----------------------------------------------------------------------------
(* Dispatch *)

Begin(frame) ==
  /\ Idle /\ walks < MaxWalks
  /\ walks' = walks + 1
  /\ acts' = [s \in Step |-> {}]
  /\ stack' = <<frame>> /\ ret' = None
  /\ UNCHANGED <<guest, history>>

\* A target with a lifecycle starts from the operator's machine and may be rebooted; one
\* without stays where its node or its parent is.
DispatchDeploy ==
  \/ Begin(Fleet(Host, TRUE))
  \/ \E venue \in Venue : Begin(Fleet(venue, FALSE))

\* A command's channel has no venue.
DispatchCommand == Begin(Handler([venue |-> None, rebootable |-> FALSE], Plan))

\* The deploy plugin calls the substrate's, and describes the guest it prepared if there is one.
InvokeSubstrate ==
  /\ Running("fleet")
  /\ Call(Top, Handler(Channel(Top, IF Top.rebootable THEN Guest ELSE None), Plan))
  /\ UNCHANGED <<guest, history, acts, walks>>

FleetReplies ==
  /\ Replied("fleet")
  /\ Return(ret)
  /\ UNCHANGED <<guest, history, acts, walks>>

-----------------------------------------------------------------------------
(* RunHostStep *)

Rest(s) == [Top EXCEPT !.plan = @ \ {s}]

Requests(s) == Running("handler") /\ s \in Top.plan

\* A channel without a venue refuses; so does one that cannot decode the step, render its
\* script or find its plugin.
RefuseStep(s) ==
  /\ Requests(s)
  /\ Top.venue = None \/ "step" \in Faults
  /\ Answer(Rest(s), Failed)
  /\ UNCHANGED <<guest, history, acts, walks>>

RunAct(s) ==
  /\ Requests(s) /\ s \in Act /\ Top.venue # None
  /\ Call(Rest(s), ActFrame(s, Top.venue))
  /\ UNCHANGED <<guest, history, acts, walks>>

\* invokeExternalStep: the plugin that serves the step has the same venue.
InvokeStep(s) ==
  /\ Requests(s) /\ s \in Served /\ Top.venue # None
  /\ Call(Rest(s), Handler(Channel(Top, None), Inner[s]))
  /\ UNCHANGED <<guest, history, acts, walks>>

\* A venue that is no guest of ours is not rebooted, nor any in a dry run.
SkipReboot(s) ==
  /\ Requests(s) /\ s \in Reboots /\ Top.venue # None
  /\ Answer(Rest(s), Done({}))
  /\ UNCHANGED <<guest, history, acts, walks>>

RunReboot(s) ==
  /\ Requests(s) /\ s \in Reboots /\ Top.venue # None /\ Top.rebootable
  /\ Call(Rest(s), RebootFrame(s, Top.venue))
  /\ UNCHANGED <<guest, history, acts, walks>>

\* A handler collects the reverse operations of its steps, and stops at the first error.
StepReplied ==
  /\ Replied("handler")
  /\ IF ret.ok THEN Continue([Top EXCEPT !.rev = @ \cup ret.rev]) ELSE Return(Failed)
  /\ UNCHANGED <<guest, history, acts, walks>>

HandlerDone ==
  /\ Running("handler") /\ Top.plan = {}
  /\ Return(Done(Top.rev))
  /\ UNCHANGED <<guest, history, acts, walks>>

HandlerFails ==
  /\ "plugin" \in Faults
  /\ Running("handler")
  /\ Return(Failed)
  /\ UNCHANGED <<guest, history, acts, walks>>

-----------------------------------------------------------------------------
(* The act arm *)

Runs(scope, ok) ==
  /\ IF ok THEN up[Top.venue] ELSE "run" \in Faults \/ ~up[Top.venue]
  /\ acts' = IF ok THEN [acts EXCEPT ![Top.step] = @ \cup {scope}] ELSE acts

ActReply(ok) == IF ok THEN Done({Top.step}) ELSE Failed

\* The script runs as the user whatever its scope; with system scope the outcome does not count.
RunAsUser ==
  /\ At("act", "user")
  /\ \E ok \in BOOLEAN :
       /\ Runs("user", ok)
       /\ IF Top.step \in System THEN Continue([Top EXCEPT !.pc = "system"]) ELSE Return(ActReply(ok))
  /\ UNCHANGED <<guest, history, walks>>

RunUnchecked ==   \* mutant: the outcome that counts is the first one's
  /\ At("act", "system")
  /\ \E ok \in BOOLEAN : Runs("system", ok) /\ Return(ActReply(TRUE))
  /\ UNCHANGED <<guest, history, walks>>

RunAsSystem ==
  /\ At("act", "system")
  /\ \E ok \in BOOLEAN : Runs("system", ok) /\ Return(ActReply(ok))
  /\ UNCHANGED <<guest, history, walks>>

-----------------------------------------------------------------------------
(* rebootVenueAndWait *)

\* What a look at the boot_id can give: the id, or nothing.
Seen(v) ==
  (IF up[v] THEN {boot[v]} ELSE {}) \cup (IF up[v] /\ "capture" \notin Faults THEN {} ELSE {Unread})

ReadBoot ==
  /\ At("reboot", "read")
  /\ \E id \in Seen(Top.venue) : Continue([Top EXCEPT !.old = id, !.pc = "fire"])
  /\ UNCHANGED <<guest, history, acts, walks>>

\* Whether the command arrived is not looked at.
FireReboot ==
  /\ At("reboot", "fire")
  /\ \/ up[Top.venue] /\ armed' = [armed EXCEPT ![Top.venue] = TRUE]
     \/ (~up[Top.venue] \/ "run" \in Faults) /\ UNCHANGED armed
  /\ Continue([Top EXCEPT !.pc = "poll"])
  /\ UNCHANGED <<boot, up, history, acts, walks>>

AcceptAnyBoot ==   \* mutant: an answer is enough
  /\ At("reboot", "poll") /\ Top.left > 0
  /\ \E id \in Seen(Top.venue) :
       IF id # Unread
         THEN Return(Done({})) ELSE Continue([Top EXCEPT !.left = @ - 1])
  /\ UNCHANGED <<guest, history, acts, walks>>

PollForever ==   \* mutant: no cap
  /\ At("reboot", "poll")
  /\ \E id \in Seen(Top.venue) :
       IF id # Unread /\ (Top.old = Unread \/ id # Top.old)
         THEN /\ Return(Done({}))
              /\ blind' = IF Top.old = Unread THEN blind \cup {Top.venue} ELSE blind
         ELSE Continue(Top) /\ UNCHANGED blind
  /\ UNCHANGED <<guest, expired, acts, walks>>

\* Back up: an id, and another one than before.  Before may be unknown.
PollBoot ==
  /\ At("reboot", "poll") /\ Top.left > 0
  /\ \E id \in Seen(Top.venue) :
       IF id # Unread /\ (Top.old = Unread \/ id # Top.old)
         THEN /\ Return(Done({}))
              /\ blind' = IF Top.old = Unread THEN blind \cup {Top.venue} ELSE blind
         ELSE Continue([Top EXCEPT !.left = @ - 1]) /\ UNCHANGED blind
  /\ UNCHANGED <<guest, expired, acts, walks>>

PollExpires ==
  /\ At("reboot", "poll") /\ Top.left = 0
  /\ expired' = expired \cup {Top.venue}
  /\ Return(Failed)
  /\ UNCHANGED <<guest, blind, acts, walks>>

-----------------------------------------------------------------------------
(* The guest: a second after the command it goes down, and some time later it is up again *)

GoDown(v) ==
  /\ armed[v] /\ up[v]
  /\ armed' = [armed EXCEPT ![v] = FALSE]
  /\ up' = [up EXCEPT ![v] = FALSE]
  /\ boot' = [boot EXCEPT ![v] = @ + 1]
  /\ UNCHANGED <<history, acts, stack, ret, walks>>

ComeUp(v) ==
  /\ ~up[v]
  /\ up' = [up EXCEPT ![v] = TRUE]
  /\ UNCHANGED <<boot, armed, history, acts, stack, ret, walks>>

\* `systemctl reboot || reboot` may fail in the guest.
StayUp(v) ==
  /\ "stuck" \in Faults
  /\ armed[v] /\ up[v]
  /\ armed' = [armed EXCEPT ![v] = FALSE]
  /\ UNCHANGED <<boot, up, history, acts, stack, ret, walks>>

-----------------------------------------------------------------------------
Init ==
  /\ boot = [v \in Venue |-> 1] /\ up = [v \in Venue |-> TRUE] /\ armed = [v \in Venue |-> FALSE]
  /\ blind = {} /\ expired = {}
  /\ acts = [s \in Step |-> {}]
  /\ stack = <<>> /\ ret = None /\ walks = 0

Dispatch == DispatchDeploy \/ DispatchCommand

HandlerStep ==
  \/ InvokeSubstrate \/ FleetReplies \/ StepReplied \/ HandlerDone \/ HandlerFails
  \/ \E s \in Step : RefuseStep(s) \/ RunAct(s) \/ InvokeStep(s) \/ SkipReboot(s) \/ RunReboot(s)

ActStep == RunAsUser \/ RunAsSystem

\* The look at the old boot_id and the reboot command run over ssh without a deadline.
CommandStep == ReadBoot \/ FireReboot

\* PollUntil bounds each look and the number of them.
PollStep == PollBoot \/ PollExpires

RebootStep == CommandStep \/ PollStep

GuestStep == \E v \in Venue : GoDown(v) \/ ComeUp(v) \/ StayUp(v)

Next == Dispatch \/ HandlerStep \/ ActStep \/ RebootStep \/ GuestStep

\* Only the poll is owed: a guest may hang in any command, and a plugin in its own work.
Spec == Init /\ [][Next]_vars /\ WF_vars(PollStep)

-----------------------------------------------------------------------------
(* Properties *)

FleetFrames == [kind : {"fleet"}, venue : Venue, rebootable : BOOLEAN]
HandlerFrames == [kind : {"handler"}, venue : Venue \cup {None}, rebootable : BOOLEAN,
                  plan : SUBSET Step, rev : SUBSET Step]
ActFrames == [kind : {"act"}, step : Act, venue : Venue, pc : {"user", "system"}]
RebootFrames == [kind : {"reboot"}, step : Reboots, venue : Venue, pc : {"read", "fire", "poll"},
                 old : Nat, left : 0..Polls]
Frame == FleetFrames \cup HandlerFrames \cup ActFrames \cup RebootFrames

\* Types: the venues, the scripts that ran, and every frame of the walk.
TypeOK ==
  /\ boot \in [Venue -> Nat \ {0}] /\ up \in [Venue -> BOOLEAN] /\ armed \in [Venue -> BOOLEAN]
  /\ blind \subseteq Venue /\ expired \subseteq Venue
  /\ acts \in [Step -> SUBSET {"user", "system"}]
  /\ stack \in Seq(Frame)
  /\ ret \in [ok : BOOLEAN, rev : SUBSET Step] \cup {None}
  /\ walks \in 0..MaxWalks

WaitsFor(v) == ~Idle /\ Top.kind = "reboot" /\ Top.venue = v
Going(v) == armed[v] \/ ~up[v]

\* Nothing of a walk runs on a guest that a reboot step is still about to take down or has not
\* got back, but for reboots that were given up and those that could not read the old boot_id.
NothingRunsIntoReboot == \A v \in Venue \ (blind \cup expired) : Going(v) => WaitsFor(v)

\* The same of a walk whose reboots were not given up: what the boot_id gate is for.
RebootsAreAwaited == \A v \in Venue \ expired : Going(v) => WaitsFor(v)

\* The operator's machine is never rebooted, whoever asks for it at whatever depth of plugins:
\* the leave to reboot comes with the target and the venue from a descriptor.
HostKept == ~armed[Host] /\ boot[Host] = 1

Root == stack[Len(stack)]
Fires == \A v \in Venue : armed'[v] => armed[v]

\* The walk of a target without a lifecycle reboots nothing, its parent's guest included, nor
\* does any plugin called for one of its steps.
NoRebootUnasked == [][~Idle /\ ~Root.rebootable => Fires]_vars

Scope(s) == IF s \in System THEN "system" ELSE "user"
Took == {s \in Act : Scope(s) \in acts[s]}

\* Reverse operations are collected for scripts that ran in their scope and for nothing else, and a
\* walk that succeeds has collected them for all of those, whichever plugins they passed through.
ReverseComplete ==
  /\ \A i \in 1..Len(stack) : stack[i].kind = "handler" => stack[i].rev \subseteq Took
  /\ Idle /\ ret # None /\ ret.ok => ret.rev = Took

PollsFor(v) == WaitsFor(v) /\ Top.pc = "poll"

\* Once the reboot was sent the step ends, whatever the guest does: stays up, stays down, comes
\* back with an unreadable boot_id or never (the cap of rebootVenueAndWait).  The two commands
\* before have no deadline, and a guest that hangs in one of them keeps the step for good.
PollingEnds == \A v \in Venue : PollsFor(v) ~> ~WaitsFor(v)

=============================================================================
