------------------------ MODULE TransportProperties -------------------------
(* What the transmit queue, the driver and their callers must guarantee. *)
EXTENDS MotionTransport

----------------------------------------------------------------------------
(* Vocabulary *)

Waiting == ToSet(queue) \union ToSet(pending)

WaitingFrames == {item.frame : item \in Waiting}

Puts == {call \in ToSet(script) : call.op \in {"batch", "each"}}

\* Frames that some call still to be made will put into the queue.
Scripted == UNION {ToSet(call.frames) : call \in Puts}

EmergencyFrames == {Command(cmd, m) : cmd \in EmergencyCommands, m \in Motors}

HasLeft(cmd, m) == <<cmd, m>> \in sinceStop

----------------------------------------------------------------------------
(* Safety *)

QueueTypeOK ==
  /\ queue \in Seq(Item) /\ Len(queue) <= Capacity
  /\ pending \in Seq(Item) /\ Len(pending) <= 1

ControlTypeOK ==
  /\ pc \in {"server", "check", "run"}
  /\ script \in Seq(Instruction)
  /\ faulted \in BOOLEAN
  /\ group \in Seq(Motors)
  /\ stops \in 0..MaxStops /\ resets \in 0..MaxResets

RecordTypeOK ==
  /\ execJob \in 0..MaxRuns
  /\ issued \in [Runs -> Seq(Frame)] /\ wire \in [Runs -> Seq(Frame)]
  /\ stoppedUpTo \in 0..MaxRuns
  /\ sinceStop \in SUBSET (EmergencyCommands \X Motors)
  /\ retried \in BOOLEAN

\* Type invariant; the queue never holds more than its capacity.
TransportTypeOK == ExecTypeOK /\ BusTypeOK /\ QueueTypeOK /\ ControlTypeOK /\ RecordTypeOK

\* No stop and no move ever waits behind a feedback poll (CanTxQueue.h:58).
UrgentFirst ==
  \A i, j \in 1..Len(queue) : i < j /\ queue[j].urgent => queue[i].urgent

\* What has left of a run is a beginning of what it issued: the two frames of
\* a move never change places, nothing is sent twice, and the broadcast that
\* starts the motors follows every move it starts (EmmV5Driver.h:50).
BatchLeavesInOrder == \A r \in Runs : IsPrefix(wire[r], issued[r])

\* Every command of an emergency stop has left, waits to leave, or is about to
\* be enqueued: none is refused by a full queue or lost (auto_typer_runtime.h:1059).
EmergencyNeverLost ==
  stops > 0 =>
    \A f \in EmergencyFrames :
      HasLeft(f.cmd, f.motor) \/ f \in WaitingFrames \/ f \in Scripted

\* On a bus that takes every frame, an emergency stop has reached every motor
\* when its handler returns, that is, before it is answered.
PromptOnHealthyBus ==
  stops > 0 /\ script = <<>> /\ ~retried =>
    \A f \in EmergencyFrames : HasLeft(f.cmd, f.motor)

\* No motor is disabled before it is stopped, or unlocked before it is disabled.
StopDisableUnlock ==
  \A m \in Motors :
    /\ HasLeft("disable", m) => HasLeft("stop", m)
    /\ HasLeft("unlock", m) => HasLeft("disable", m)

\* "Emergency stop must stop, disable, unlock" (test/runTests.mjs:739) every
\* motor, in this order, as long as the bus has taken every frame since the stop.
OrderOnHealthyBus == ~retried => StopDisableUnlock

----------------------------------------------------------------------------
(* The inductive invariant behind them. *)

\* What runs was started after the last emergency stop.
RunIsNewer ==
  /\ stoppedUpTo <= execJob
  /\ execState = "running" => stoppedUpTo < execJob

\* A frame of a run that an emergency stop has ended.
Stale(frame) == frame.run # 0 /\ frame.run <= stoppedUpTo

\* A call that neither clears the queue nor puts a stale frame into it.
Fresh(call) ==
  /\ call.op # "clear"
  /\ call.op \in {"batch", "each"} =>
       \A k \in 1..Len(call.frames) : ~Stale(call.frames[k])

\* Only an emergency stop clears the queue, and it does so first; no call to
\* come puts a stale frame into it.
ScriptIsFresh ==
  script = EmergencyScript \/ \A i \in 1..Len(script) : Fresh(script[i])

\* Stale frames wait only until the clear of the emergency stop.
QueueIsFresh ==
  script = EmergencyScript \/ \A item \in Waiting : ~Stale(item.frame)

\* The commands of the emergency stop enqueued so far have left or wait.
Kept(cmds) ==
  \A cmd \in cmds, m \in Motors :
    HasLeft(cmd, m) \/ \E item \in Waiting : item.frame = Command(cmd, m)

\* The handler of an emergency stop, by what it has enqueued: there is always
\* room for what is left.
EmergencyInProgress ==
  \/ script = EmergencyScript
  \/ script = Tail(EmergencyScript) /\ queue = <<>>
  \/ /\ Kept({"stop"}) /\ Len(queue) <= MotorCount
     /\ \/ \E n \in 1..8 : script = <<Tick(n), ToAll("disable"), Tick(8), ToAll("unlock"), Tick(8)>>
        \/ script = <<ToAll("disable"), Tick(8), ToAll("unlock"), Tick(8)>>
  \/ /\ Kept({"stop", "disable"}) /\ Len(queue) <= 2 * MotorCount
     /\ \/ \E n \in 1..8 : script = <<Tick(n), ToAll("unlock"), Tick(8)>>
        \/ script = <<ToAll("unlock"), Tick(8)>>

EmergencyKept == stops > 0 => EmergencyInProgress \/ Kept(EmergencyCommands)

\* With it UrgentFirst and EmergencyNeverLost follow.
TransportInvariant ==
  /\ TransportTypeOK
  /\ UrgentFirst
  /\ RunIsNewer
  /\ ScriptIsFresh
  /\ QueueIsFresh
  /\ EmergencyKept

----------------------------------------------------------------------------
(* The order of what leaves. *)

NothingIssued(r) == issued[r] = <<>> /\ wire[r] = <<>>

\* A run issues once, and only frames of its own; what has left is a beginning.
IssuedOnce ==
  /\ \A r \in Runs : r > execJob \/ (r = execJob /\ execStage = "preflight") => NothingIssued(r)
  /\ \A r \in Runs : \A k \in 1..Len(issued[r]) : issued[r][k].run = r
  /\ \A r \in Runs :
       /\ Len(wire[r]) <= Len(issued[r])
       /\ \A k \in 1..Len(wire[r]) : wire[r][k] = issued[r][k]

NoneWaits(r) == \A item \in Waiting : item.frame.run # r

\* The one call that puts frames of a run into the queue is made at once, and
\* nothing of that run is there or has left.
BatchIsNext ==
  \A i \in 1..Len(script) :
    /\ script[i].op = "each" => \A k \in 1..Len(script[i].frames) : script[i].frames[k].run = 0
    /\ script[i].op = "batch" =>
         /\ i = 1 /\ execJob \in Runs /\ script[i].frames = issued[execJob]
         /\ wire[execJob] = <<>> /\ NoneWaits(execJob)

\* Frames of r outside the queue: the pending one, or none.
Held(r) == IF pending # <<>> /\ pending[1].frame.run = r THEN 1 ELSE 0

\* Frames of r in the queue: n of them side by side behind p others, the last
\* ones that r issued; the pending one is the one before them.
Line(r, p, n) ==
  /\ p + n <= Len(queue)
  /\ Held(r) + n > 0 => Len(wire[r]) + Held(r) + n = Len(issued[r])
  /\ Held(r) = 1 => pending[1].frame = issued[r][Len(wire[r]) + 1]
  /\ \A i \in 1..Len(queue) : queue[i].frame.run = r <=> p < i /\ i <= p + n
  /\ \A k \in 1..n : queue[p + k].frame = issued[r][Len(wire[r]) + Held(r) + k]

InLine == \A r \in Runs : \E p, n \in 0..Len(queue) : Line(r, p, n)

\* A round of an emergency stop on a bus that takes every frame: what waits is
\* of this round, and the send call has budget for it.
Leaving(before, cmd, left) ==
  /\ pending = <<>> /\ Len(queue) <= left
  /\ \A i \in 1..Len(queue) : \E m \in Motors : queue[i].frame = Command(cmd, m)
  /\ before \X Motors \subseteq sinceStop /\ sinceStop \subseteq (before \union {cmd}) \X Motors
  /\ \A m \in Motors :
       HasLeft(cmd, m) \/ \E i \in 1..Len(queue) : queue[i].frame = Command(cmd, m)

Drained(cmds) == NothingToSend /\ sinceStop = cmds \X Motors

\* The handler of an emergency stop on such a bus, call by call.
RoundAfterRound ==
  \/ script = EmergencyScript /\ sinceStop = {}
  \/ script = Tail(EmergencyScript) /\ Drained({})
  \/ \E n \in 1..8 :
       /\ script = <<Tick(n), ToAll("disable"), Tick(8), ToAll("unlock"), Tick(8)>>
       /\ Leaving({}, "stop", n)
  \/ /\ script = <<ToAll("disable"), Tick(8), ToAll("unlock"), Tick(8)>>
     /\ Drained({"stop"})
  \/ \E n \in 1..8 :
       /\ script = <<Tick(n), ToAll("unlock"), Tick(8)>>
       /\ Leaving({"stop"}, "disable", n)
  \/ script = <<ToAll("unlock"), Tick(8)>> /\ Drained({"stop", "disable"})
  \/ \E n \in 1..8 : script = <<Tick(n)>> /\ Leaving({"stop", "disable"}, "unlock", n)
  \/ sinceStop = EmergencyCommands \X Motors

StopsInTurn ==
  /\ stops = 0 => sinceStop = {}
  /\ stops > 0 /\ ~retried => RoundAfterRound

\* TransportInvariant, and what the order of the frames needs beside it.
DeliveryInvariant == TransportInvariant /\ IssuedOnce /\ BatchIsNext /\ InLine /\ StopsInTurn

----------------------------------------------------------------------------
(* Steps *)

\* After an emergency stop nothing of a run started before it leaves any more,
\* not even the frame that was being retried.
StoppedRunStaysSilent == [][\A r \in 1..stoppedUpTo : wire'[r] = wire[r]]_vars

----------------------------------------------------------------------------
(* Liveness *)

\* The loop goes on; a bus that keeps being tried takes a frame in the end.
TransportFairSpec == Spec /\ WF_vars(Round) /\ SF_vars(SendCall)

\* Every motor is stopped after an emergency stop, whatever was queued before
\* and however often the bus refused, unless the controller is lost.
EveryMotorIsStopped ==
  stops > 0 ~> (\A m \in Motors : HasLeft("stop", m)) \/ ~canReady
=============================================================================
