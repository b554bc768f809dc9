---------------------------- MODULE PluginProcess ----------------------------
(***************************************************************************)
(* One plugin process from its start to its reaping: the connect and the   *)
(* bound on its readiness read (plugin_transport.go, describeBounded), the *)
(* bounded teardown of a failed connect and of Close                       *)
(* (plugin_connect_deadline.go), and the reverse server every call stands  *)
(* up on the connection's broker (plugin_grpc.go, invokeWithReverse).      *)
(*                                                                         *)
(* Time is left out: a bound that has started may expire at any moment.    *)
(* The child may hang or die at any moment, and nothing makes it answer.   *)
(***************************************************************************)

CONSTANT Request   \* the calls made on the connection

Phase == {"start/handshake", "dispense", "describe", "protocol-gate"}

VARIABLES
  host,    \* where the goroutine that connects, and later closes, stands
  child,   \* "unborn", "answering", "hung" or "dead"
  kill,    \* the goroutine of boundedTeardown: "none", "running" or "done"
  grace,   \* the grace that runs: "none", "first", "second"; "over" once both elapsed
  broker,  \* the connection's broker: "open" or "closed"
  call,    \* [Request -> "none", "invoking", "returned"]
  accept,  \* [Request -> its AcceptAndServe goroutine: "none", "spawned", "serving", "ended"]
  stored   \* [Request -> the callback has stored the server]

teardown == <<kill, grace>>
calls == <<call, accept, stored>>
process == <<host, child, teardown, broker, calls>>

Alive == child \in {"answering", "hung"}
Connecting == host \in Phase
TearingDown == host \in {"failing", "closing"}

-----------------------------------------------------------------------------
(* The child *)

Hang == child = "answering" /\ child' = "hung" /\ UNCHANGED <<host, teardown, broker, calls>>
Die == Alive /\ child' = "dead" /\ UNCHANGED <<host, teardown, broker, calls>>

-----------------------------------------------------------------------------
(* Teardown: Client.Kill in a goroutine, one grace, SIGKILL, one more grace *)

\* boundedTeardown starts the kill and waits.
ForcedTeardown(why) == host' = why /\ kill' = "none" /\ grace' = "first"   \* mutant: no kill
Teardown(why) ==
  /\ host' = why
  /\ kill' = "running" /\ grace' = "first"

\* Client.Kill closes the broker, then asks the server to stop, over an RPC without a deadline.
KillClosesBroker ==
  /\ kill = "running" /\ broker' = "closed"
  /\ UNCHANGED <<host, child, teardown, calls>>

\* The child answers the shutdown; Kill makes sure of its end.
KillAnswered ==
  /\ kill = "running" /\ broker = "closed" /\ child = "answering"
  /\ child' = "dead"
  /\ UNCHANGED <<host, teardown, broker, calls>>

\* Kill returns once the child is gone.  Nothing makes it: a grandchild that holds the
\* child's pipes keeps it waiting.
KillReturns ==
  /\ kill = "running" /\ broker = "closed" /\ ~Alive
  /\ kill' = "done"
  /\ UNCHANGED <<host, child, grace, broker, calls>>

NoSigkill == child' = child   \* mutant
\* Only a process that was started can be killed.
Sigkill == child' = IF child = "unborn" THEN child ELSE "dead"

FirstGraceExpires ==
  /\ TearingDown /\ grace = "first"
  /\ Sigkill
  /\ grace' = "second"
  /\ UNCHANGED <<host, kill, broker, calls>>

SecondGraceExpires ==
  /\ TearingDown /\ grace = "second"
  /\ grace' = "over"
  /\ UNCHANGED <<host, child, kill, broker, calls>>

WaitsForKill == kill = "done"   \* mutant: no second grace
TeardownOver == kill = "done" \/ grace = "over"

TeardownReturns ==
  /\ TearingDown /\ TeardownOver
  /\ host' = IF host = "failing" THEN "failed" ELSE "closed"
  /\ UNCHANGED <<child, teardown, broker, calls>>

-----------------------------------------------------------------------------
(* Connect *)

Fail == Teardown("failing")

\* client.Client: the process is started, and handshakes or not.
Spawn ==
  /\ host = "start/handshake" /\ child = "unborn"
  /\ child' = "answering"
  /\ UNCHANGED <<host, teardown, broker, calls>>

Handshake ==
  /\ host = "start/handshake" /\ child = "answering"
  /\ host' = "dispense"
  /\ UNCHANGED <<child, teardown, broker, calls>>

\* No binary, a child that exits, or StartTimeout, after which go-plugin kills what it
\* started; a connection that cannot be made leaves the child for the teardown.
StartFails ==
  /\ host = "start/handshake"
  /\ Sigkill \/ UNCHANGED child
  /\ Fail
  /\ UNCHANGED <<broker, calls>>

\* Dispense, and the test of what it returned; neither asks the child.
Dispense ==
  /\ host = "dispense"
  /\ \/ host' = "describe" /\ UNCHANGED teardown
     \/ Fail
  /\ UNCHANGED <<child, broker, calls>>

DescribeAnswered ==
  /\ host = "describe" /\ child = "answering"
  /\ \/ host' = "protocol-gate" /\ UNCHANGED teardown
     \/ Fail
  /\ UNCHANGED <<child, broker, calls>>

DescribeBroken ==
  /\ host = "describe" /\ child = "dead"
  /\ Fail
  /\ UNCHANGED <<child, broker, calls>>

ReadBounded == host = "describe"

ReadExpires ==
  /\ ReadBounded
  /\ Fail
  /\ UNCHANGED <<child, broker, calls>>

\* buildUnit lifts the capabilities and the requirements; the caller gets the unit and its closer.
Gate ==
  /\ host = "protocol-gate"
  /\ \/ host' = "ready" /\ UNCHANGED teardown
     \/ Fail
  /\ UNCHANGED <<child, broker, calls>>

\* clientCloser.Close, at exit or on a signal: calls may be in progress.
Close ==
  /\ host = "ready"
  /\ Teardown("closing")
  /\ UNCHANGED <<child, broker, calls>>

-----------------------------------------------------------------------------
(* Calls with a reverse server *)

\* NextId, the accepting goroutine, and the request with the broker's id.
InvokeWithReverse(c) ==
  /\ host = "ready" /\ call[c] = "none"
  /\ call' = [call EXCEPT ![c] = "invoking"]
  /\ accept' = [accept EXCEPT ![c] = "spawned"]
  /\ UNCHANGED <<host, child, teardown, broker, stored>>

\* A call that attaches nothing, or has no broker: id 0.
PlainInvoke(c) ==
  /\ host = "ready" /\ call[c] = "none"
  /\ call' = [call EXCEPT ![c] = "invoking"]
  /\ UNCHANGED <<host, child, teardown, broker, accept, stored>>

\* AcceptAndServe listens, runs the callback, which stores the server, and serves, whether or
\* not anybody dials.
Accept(c) ==
  /\ accept[c] = "spawned"
  /\ IF broker = "open"
       THEN /\ accept' = [accept EXCEPT ![c] = "serving"]
            /\ stored' = [stored EXCEPT ![c] = TRUE]
       ELSE accept' = [accept EXCEPT ![c] = "ended"] /\ UNCHANGED stored
  /\ UNCHANGED <<host, child, teardown, broker, call>>

\* Invoke returns: an answer, a broken connection, or the guard's cancellation.  The deferred
\* function stops the server it finds stored.
Return(c) ==
  /\ call[c] = "invoking"
  /\ call' = [call EXCEPT ![c] = "returned"]
  /\ accept' = [accept EXCEPT ![c] = IF stored[c] THEN "ended" ELSE @]
  /\ UNCHANGED <<host, child, teardown, broker, stored>>

\* A closed broker ends the goroutines that serve on it.
BrokerEnds(c) ==
  /\ broker = "closed" /\ accept[c] = "serving"
  /\ accept' = [accept EXCEPT ![c] = "ended"]
  /\ UNCHANGED <<host, child, teardown, broker, call, stored>>

-----------------------------------------------------------------------------

ProcessInit ==
  /\ host = "start/handshake" /\ child = "unborn"
  /\ kill = "none" /\ grace = "none" /\ broker = "open"
  /\ call = [c \in Request |-> "none"]
  /\ accept = [c \in Request |-> "none"]
  /\ stored = [c \in Request |-> FALSE]

ConnectStep ==
  \/ Spawn \/ Handshake \/ StartFails \/ Dispense
  \/ DescribeAnswered \/ DescribeBroken \/ ReadExpires \/ Gate

TeardownStep ==
  \/ KillClosesBroker \/ KillAnswered \/ KillReturns
  \/ FirstGraceExpires \/ SecondGraceExpires \/ TeardownReturns

CallStep(c) == InvokeWithReverse(c) \/ PlainInvoke(c) \/ Accept(c) \/ Return(c) \/ BrokerEnds(c)

ProcessNext == Hang \/ Die \/ ConnectStep \/ Close \/ TeardownStep \/ \E c \in Request : CallStep(c)

\* The host's goroutines run and its timers fire; the child owes nothing, and Kill, a call
\* and the caller that closes owe no return.
Fairness ==
  /\ WF_process(StartFails) /\ WF_process(Dispense) /\ WF_process(ReadExpires) /\ WF_process(Gate)
  /\ WF_process(KillClosesBroker)
  /\ WF_process(FirstGraceExpires) /\ WF_process(SecondGraceExpires) /\ WF_process(TeardownReturns)
  /\ \A c \in Request : WF_process(Accept(c)) /\ WF_process(BrokerEnds(c))

ProcessSpec == ProcessInit /\ [][ProcessNext]_process /\ Fairness

-----------------------------------------------------------------------------

ProcessTypeOK ==
  /\ host \in Phase \cup {"failing", "failed", "ready", "closing", "closed"}
  /\ child \in {"unborn", "answering", "hung", "dead"}
  /\ kill \in {"none", "running", "done"}
  /\ grace \in {"none", "first", "second", "over"}
  /\ broker \in {"open", "closed"}
  /\ call \in [Request -> {"none", "invoking", "returned"}]
  /\ accept \in [Request -> {"none", "spawned", "serving", "ended"}]
  /\ stored \in [Request -> BOOLEAN]

\* Whatever the child does, and whether or not Client.Kill ever comes back, a connect that
\* failed and a connection that was closed leave no live process behind (boundedTeardown).
ChildReaped == host \in {"failed", "closed"} => ~Alive

\* A connect and a close end: no phase of the connect and no half of the teardown can keep
\* the host, though the child may hang in each of them (charly#588).
AttemptsEnd == (Connecting \/ TearingDown) ~> (host \in {"failed", "ready", "closed"})

\* Every reverse server ends with its connection at the latest, also one that was built
\* after its call had returned.
ServersEndWithConnection ==
  \A c \in Request : (host \in {"failed", "closed"}) ~> (accept[c] \in {"none", "ended"})

\* What plugin_grpc.go says of invokeWithReverse: the server is stopped when the Invoke returns.
ServerEndsWithCall == \A c \in Request : call[c] = "returned" => accept[c] # "serving"

=============================================================================
