-------------------------- MODULE MotionTransport ---------------------------
(***************************************************************************)
(* How motor commands reach the CAN bus: the calls that put them into the  *)
(* transmit queue, the calls that send from it, and a bus that may refuse  *)
(* any frame.  The callers are the executor's tick, the fault path, the    *)
(* emergency stop and the motor probe of reset_fault.                      *)
(*                                                                         *)
(* A handler is the list of queue calls it makes, its script; the one      *)
(* thread finishes a script before it does anything else.  Only the bus    *)
(* acts between two calls.  Whether a block waits to be started, and what  *)
(* the executor finds in the feedback, are choices here: Firmware models   *)
(* the first, BlockExecutor the second.                                    *)
(***************************************************************************)
EXTENDS BlockExecutor, CanBus, CanTxQueue

CONSTANTS
  MotorOrder,    \* the motors, in the order of stopAll and of the probe
  Broadcast,     \* address 0 of the bus
  Groups,        \* sequences of motors one block can move together
  PollFirst,     \* the motors that are polled before a baseline is known
  MaxRuns,       \* bounds on blocks, on emergency stops, on resets
  MaxStops,
  MaxResets,
  MaxPump        \* bound on the send calls during one probe

MotorCount == Len(MotorOrder)
Motors == {MotorOrder[i] : i \in 1..MotorCount}

ASSUME TransportAssumption ==
  /\ MotorOrder \in Seq(Motors) /\ Broadcast \notin Motors
  /\ Groups \subseteq Seq(Motors) /\ PollFirst \subseteq Motors
  /\ MaxRuns \in Nat /\ MaxStops \in Nat /\ MaxResets \in Nat /\ MaxPump \in Nat \ {0}

\* 32 frames for five motors: an emergency stop fits into an empty queue.
ASSUME RoomAssumption == Capacity >= 3 * MotorCount

\* Five motors, and each round of an emergency stop sends up to eight frames.
ASSUME BudgetAssumption == MotorCount <= 8

VARIABLES
  pc,           \* the next part of the loop: "server", "check" or "run"
  script,       \* the queue calls the current handler has still to make
  faulted,      \* faulted_ of the application
  group,        \* the motors that the step of the last run has to move
  stops,        \* how many emergency stops and resets there were
  resets,
  issued,       \* history: the frames each run put into the queue
  wire,         \* history: those of its frames that have left
  stoppedUpTo,  \* history: the last run started before an emergency stop
  sinceStop,    \* history: what has left since the last emergency stop
  retried       \* history: the bus has refused a frame since then

controlVars == <<pc, script, faulted, group, stops, resets>>
historyVars == <<issued, wire, stoppedUpTo, sinceStop, retried>>
vars == <<execVars, busVars, queueVars, controlVars, historyVars>>

Runs == 1..MaxRuns

----------------------------------------------------------------------------
(* Frames.  An Emm_V5 command is one frame, or two for a move; what is in  *)
(* them does not matter here.  Frames of a move carry the run they are for.*)

ProbeCommands == <<"mode", "enable", "status", "pulse", "velocity">>
EmergencyCommands == {"stop", "disable", "unlock"}
PlainCommands == EmergencyCommands \union {ProbeCommands[i] : i \in 1..5}
MoveCommands == {"move first", "move rest", "trigger"}

Frame ==
  [cmd : PlainCommands, motor : Motors, run : {0}]
    \union [cmd : MoveCommands, motor : Motors \union {Broadcast}, run : Runs]

Item == [frame : Frame, urgent : BOOLEAN]

Command(cmd, m) == [cmd |-> cmd, motor |-> m, run |-> 0]

\* moveAbsolute and moveAbsoluteBatch: two frames for each motor, and the
\* broadcast that starts them together when there are several.
MoveFrames(ms, r) ==
  [i \in 1..(2 * Len(ms) + IF Len(ms) > 1 THEN 1 ELSE 0) |->
    IF i > 2 * Len(ms)
      THEN [cmd |-> "trigger", motor |-> Broadcast, run |-> r]
      ELSE [cmd |-> IF i % 2 = 1 THEN "move first" ELSE "move rest",
            motor |-> ms[(i + 1) \div 2], run |-> r]]

----------------------------------------------------------------------------
(* Scripts. *)

Batch(frames) == [op |-> "batch", frames |-> frames]
Each(frames, urgent) == [op |-> "each", frames |-> frames, urgent |-> urgent]
Tick(n) == [op |-> "tick", left |-> n]
Reset == [op |-> "clear"]

Instruction ==
  [op : {"batch"}, frames : Seq(Frame)]
    \union [op : {"each"}, frames : Seq(Frame), urgent : BOOLEAN]
    \union [op : {"tick"}, left : 1..8]
    \union [op : {"clear"}]

\* One urgent command to every motor, in order.
ToAll(cmd) == Each([i \in 1..MotorCount |-> Command(cmd, MotorOrder[i])], TRUE)

\* Mutated form of EmergencyScript: the queue is not cleared first.
EmergencyScriptNoClear ==
  <<ToAll("stop"), Tick(8), ToAll("disable"), Tick(8), ToAll("unlock"), Tick(8)>>

\* Mutated form of EmergencyScript: the rounds that follow send the last frames.
EmergencyScriptNoFinalTick ==
  <<Reset, ToAll("stop"), Tick(8), ToAll("disable"), Tick(8), ToAll("unlock")>>

\* Mutated form of EmergencyScript: everything is enqueued first and sent at the end.
EmergencyScriptSentOnce == <<Reset, ToAll("stop"), ToAll("disable"), ToAll("unlock"), Tick(8)>>

EmergencyScript ==
  <<Reset, ToAll("stop"), Tick(8), ToAll("disable"), Tick(8), ToAll("unlock"), Tick(8)>>

\* requestMotorFeedback with configuration, then the send calls of the wait.
ProbeScript(pumps) ==
  LET frames == [i \in 1..(5 * MotorCount) |->
                  Command(ProbeCommands[((i - 1) % 5) + 1], MotorOrder[((i - 1) \div 5) + 1])]
  IN  <<Each(frames, FALSE)>> \o [i \in 1..pumps |-> Tick(4)]

\* requestFeedback: pulse count and velocity of each motor, not urgent.
PollScript(ms) ==
  <<Each([i \in 1..(2 * Len(ms)) |->
            Command(IF i % 2 = 1 THEN "pulse" ELSE "velocity", ms[(i + 1) \div 2])], FALSE)>>

----------------------------------------------------------------------------

\* The device has booted without a fault.
Init ==
  /\ ExecInit /\ BusInit /\ MotionTransportReady /\ QueueInit
  /\ pc = "server" /\ script = <<>> /\ faulted = FALSE /\ group = <<>>
  /\ stops = 0 /\ resets = 0
  /\ issued = [r \in Runs |-> <<>>]
  /\ wire = [r \in Runs |-> <<>>]
  /\ stoppedUpTo = 0
  /\ sinceStop = {}
  /\ retried = FALSE

Call(op) ==
  /\ script # <<>>
  /\ Head(script).op = op
  /\ UNCHANGED <<execVars, busVars, pc, faulted, group, stops, resets>>

CallDone == script' = Tail(script)

BatchCall ==
  /\ Call("batch")
  /\ EnqueueBatch(Head(script).frames, TRUE)
  /\ CallDone
  /\ UNCHANGED historyVars

EachCall ==
  /\ Call("each")
  /\ EnqueueEach(Head(script).frames, Head(script).urgent)
  /\ CallDone
  /\ UNCHANGED historyVars

ClearCall ==
  /\ Call("clear")
  /\ Clear
  /\ CallDone
  /\ UNCHANGED historyVars

Sending == Call("tick")

Left(frame) ==
  /\ wire' = IF frame.run = 0 THEN wire ELSE [wire EXCEPT ![frame.run] = Append(@, frame)]
  /\ sinceStop' = IF stops > 0 /\ frame.cmd \in EmergencyCommands
                    THEN sinceStop \union {<<frame.cmd, frame.motor>>} ELSE sinceStop

SendCall ==
  /\ Sending
  /\ canReady
  /\ TransmitAccepted
  /\ Left(NextItem.frame)
  /\ script' = IF Head(script).left = 1 THEN Tail(script) ELSE [script EXCEPT ![1].left = @ - 1]
  /\ UNCHANGED <<issued, stoppedUpTo, retried>>

\* A refusal ends the call, whatever is left of its budget.
RetryCall ==
  /\ Sending
  /\ TransmitRefused
  /\ CallDone
  /\ retried' = TRUE
  /\ UNCHANGED <<issued, wire, stoppedUpTo, sinceStop>>

SendDone ==
  /\ Call("tick")
  /\ NothingToSend
  /\ CallDone
  /\ UNCHANGED <<queueVars, historyVars>>

Calls == BatchCall \/ EachCall \/ ClearCall \/ SendCall \/ RetryCall \/ SendDone

----------------------------------------------------------------------------
(* Requests, handled by the server part of a round. *)

EmergencyStopWithReason ==
  /\ ExecEmergencyStop
  /\ faulted' = TRUE
  /\ script' = EmergencyScript
  /\ stoppedUpTo' = execJob
  /\ sinceStop' = {}
  /\ retried' = FALSE
  /\ UNCHANGED <<busVars, queueVars, group, resets, issued, wire>>

EmergencyStop ==
  /\ pc = "server" /\ script = <<>>
  /\ stops < MaxStops /\ stops' = stops + 1
  /\ EmergencyStopWithReason
  /\ UNCHANGED pc

\* The device stays faulted if the bus or a motor did not recover.
ResetFault ==
  /\ pc = "server" /\ script = <<>>
  /\ resets < MaxResets /\ resets' = resets + 1
  /\ ExecResetFault
  /\ \E recovered \in BOOLEAN : RecoverThenProbe(recovered)
  /\ faulted' \in BOOLEAN
  /\ MotionTransportReady' \/ faulted'
  /\ \E pumps \in 1..MaxPump : script' = ProbeScript(pumps)
  /\ UNCHANGED <<queueVars, pc, group, stops, historyVars>>

----------------------------------------------------------------------------
(* AutoTyperApplication::tick *)

BeginTick ==
  /\ pc = "server" /\ script = <<>>
  /\ ReadAlerts
  /\ script' = <<Tick(4)>>
  /\ pc' = "check"
  /\ UNCHANGED <<execVars, queueVars, faulted, group, stops, resets, historyVars>>

\* The fault path stops the motors without clearing the queue.
LatchCanFault ==
  /\ pc = "check" /\ script = <<>>
  /\ canFatal
  /\ script' = IF faulted THEN <<>> ELSE <<ToAll("stop")>>
  /\ faulted' = TRUE
  /\ pc' = "server"
  /\ UNCHANGED <<execVars, busVars, queueVars, group, stops, resets, historyVars>>

\* A block that waits is started, or refused by an executor that still runs.
CheckDone ==
  /\ pc = "check" /\ script = <<>>
  /\ ~canFatal
  /\ \/ /\ ~faulted /\ ExecCanStart /\ execJob < MaxRuns
        /\ ExecStart(execJob + 1)
        /\ group' \in Groups
        /\ pc' = "run" /\ UNCHANGED faulted
     \/ /\ ~faulted /\ ~ExecCanStart
        /\ faulted' = TRUE /\ pc' = "server"
        /\ UNCHANGED <<execVars, group>>
     \/ pc' = "run" /\ UNCHANGED <<execVars, faulted, group>>
  /\ UNCHANGED <<busVars, queueVars, script, stops, resets, historyVars>>

RuntimeTimeout ==
  /\ pc = "run" /\ script = <<>>
  /\ execState = "running"
  /\ stops < MaxStops /\ stops' = stops + 1
  /\ EmergencyStopWithReason
  /\ pc' = "server"

(* executor_.tick() followed by canTx_.tick(4).  A failure puts the stops   *)
(* after whatever the tick enqueued before it failed.                       *)

RunCalls(calls) ==
  script' = calls \o (IF execState' = "faulted" THEN <<ToAll("stop")>> ELSE <<>>) \o <<Tick(4)>>

\* Before a command only the line feed and the press are polled: for an XY
\* move the motors to poll are not known yet.
PolledFirst == IF ToSet(group) \subseteq PollFirst THEN group ELSE <<>>

Preflight ==
  /\ TickBaseline
  /\ RunCalls(<<>>) \/ RunCalls(PollScript(PolledFirst))
  /\ UNCHANGED <<group, issued>>

\* A step at its target already: its XY motors are not polled later either.
NothingToMove ==
  /\ TickNoMotion
  /\ RunCalls(<<>>)
  /\ group' = PolledFirst
  /\ UNCHANGED issued

\* The command is handed over; a queue without room refuses it as a whole.
IssueCommand ==
  LET frames == MoveFrames(group, execJob) IN
  /\ TickIssue
  /\ \/ /\ Fits(frames)
        /\ RunCalls(<<Batch(frames)>>)
        /\ issued' = [issued EXCEPT ![execJob] = frames]
     \/ /\ ~Fits(frames)
        /\ execState' = "faulted" /\ script' = <<Tick(4)>>
        /\ UNCHANGED issued
  /\ UNCHANGED group

Supervise ==
  /\ TickTarget
  /\ RunCalls(<<>>) \/ RunCalls(PollScript(group))
  /\ UNCHANGED <<group, issued>>

Finished ==
  /\ TickFinished
  /\ RunCalls(<<>>)
  /\ UNCHANGED <<group, issued>>

RunExecutor ==
  /\ pc = "run" /\ script = <<>>
  /\ execState = "running" /\ UNCHANGED execJob
  /\ Preflight \/ NothingToMove \/ IssueCommand \/ Supervise \/ Finished
  /\ faulted' = (faulted \/ execState' = "faulted")
  /\ pc' = "server"
  /\ UNCHANGED <<busVars, queueVars, stops, resets, wire, stoppedUpTo, sinceStop, retried>>

NothingRuns ==
  /\ pc = "run" /\ script = <<>>
  /\ execState # "running"
  /\ faulted' = (faulted \/ execState = "faulted")
  /\ script' = <<Tick(4)>>
  /\ pc' = "server"
  /\ UNCHANGED <<execVars, busVars, queueVars, group, stops, resets, historyVars>>

Requests == EmergencyStop \/ ResetFault

Round == Calls \/ BeginTick \/ LatchCanFault \/ CheckDone \/ RunExecutor \/ NothingRuns

Next == Round \/ Requests \/ RuntimeTimeout

Spec == Init /\ [][Next]_vars
=============================================================================
