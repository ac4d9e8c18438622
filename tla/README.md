# A verification development for auto_typer

auto_typer drives a mechanical typewriter. A desktop program (Electron, under
`src/apps/desktop`) plans text into atomic motion blocks and sends them, one at
a time, over TCP to a firmware (ESP32, under `src/src/auto_typer`), which moves
five stepper motors over a CAN bus. This directory holds TLA+ modules that model
the part of the system where things can go wrong between two steps, the TLC
configurations that check them, and theorems about them with proofs for TLAPS.

Paths below are relative to the repository (`src/` in `PROJECT.json`).

## 1. The system

| Part | Source | State it keeps | Operations |
|---|---|---|---|
| Main loop | `src/auto_typer/AutoTyperFirmware.cpp` | whether the TCP server runs | one round: Wi-Fi, TCP server tick, application tick |
| Motion protocol server | `src/auto_typer/transport/MotionProtocolServer.h` | the one client, handshake flag, line buffer | accept, refuse, drop, read lines, dispatch, drain events |
| Application | `src/auto_typer/auto_typer_runtime.h` | job state, remote slot, pending result, fault latch, OLED status | submit, cancel, finish, emergency stop, reset, tick |
| Motion executor | `src/auto_typer/motion/MotionExecutor.h` | run state, phase, step, supervision per motor | start, tick, stop, reset |
| CAN bus | `src/auto_typer/can/CanBus.h` | driver installed, fatal fault, counters | begin, transmit, read alerts, recover |
| CAN transmit queue | `src/auto_typer/can/CanTxQueue.h` | queue of frames, pending frame | enqueue batch (normal, urgent), send, clear |
| Motor driver | `src/auto_typer/drivers/EmmV5Driver.h` | none | commands as batches of frames |
| CAN receive, feedback, events | `src/auto_typer/can/CanRxTask.h`, `EmmV5EventStore.h` | last acknowledgement and sample per motor | receive, parse, store |
| Block parser | `src/auto_typer/transport/MotionProtocolParser.h` | none | JSON to one motion step |
| Provisioning | `src/auto_typer/ProvisioningWifiConnector.cpp` | Wi-Fi state, portal, TCP-ready flag | portal routes, poll, delayed shutdown |
| Device link | `apps/desktop/electron/deviceLink.ts` | socket, pending requests, command queue, active block, link state | connect, send, receive, heartbeat, close |
| Block execution | `apps/desktop/src/domain/runtime/executor/` | one waiting promise per block | wait for result, fault, disconnect, timeout |
| Print task controller | `apps/desktop/src/ui/hooks/usePrintTaskController.ts` | epoch, running flag, cancel flag, position | submit, cancel, stop, reset, jog |
| Planner and encoder | `apps/desktop/src/domain/planner/` | none | text to blocks with absolute targets |
| Transport session machine | `apps/desktop/src/domain/runtime/transportSession/` | a reducer's state | not used by running code |

How they interact. The controller calls the link by IPC and awaits one result
per block. The link writes one JSON line per request and resolves it by its
`requestId`; results and faults arrive as events. In the firmware everything is
one thread: a round of the loop runs `MotionProtocolServer::tick` (drop the
client, drain events, accept, read and handle lines, drain events) and then
`AutoTyperApplication::tick` (CAN, fatal fault, display, start, runtime limit,
executor, settle). The server calls the application directly; the application
hands results and faults back through flags that `drainRuntimeEvents` consumes;
the application and the executor share state by polling, and one buffer: the step
a run executes stays in the application's `activeMotionSteps_`, which
`submitRemoteBlock` writes and every tick of the executor reads again.

What is hard here. Nothing runs in parallel in the firmware, yet order is
everything: one read can hold several requests, which run back to back before
the application ticks once; a client may leave, and another come, between any two
parts of a round; a bus fault can be noticed in any round; and the same block can
be ended by completion, fault, runtime limit, stop, cancel or disconnect. The
state of a block is spread over the application (`jobState_`,
`remoteCommandActive_`, `remoteFinalPending_`) and the executor (`state_`,
`phase_`), which are updated by different code. On the desktop the hazards are
state used across an `await`, late answers after a timeout, and an emergency stop
that overtakes queued commands. `PROJECT.json` lists each hazard at its line with
the property that covers it, or why none does.

## 2. Modules

| Module | Models |
|---|---|
| `BlockLifecycle` | what the device promises about blocks: one slot, one outcome, at most one report |
| `BlockExecutor` | `MotionExecutor` as the application sees it |
| `CanBus` | the health of the CAN controller |
| `AutoTyperApplication` | the application's slot, fault latch, pending result and OLED status |
| `MotionProtocolServer` | the TCP client, the request lines and the results sent |
| `Firmware` | the loop that runs the server and the application, and the clients around it |
| `FirmwareProperties` | the properties and the refinement mapping to `BlockLifecycle` |
| `MCFirmware` | the instances for TLC |
| `FirmwareProofs` | proofs of the invariants and of the action property |
| `FirmwareRefinement` | proof that the firmware implements `BlockLifecycle` |
| `CanTxQueue` | the queue of frames that wait for the CAN controller |
| `MotionTransport` | the commands that the executor, the stops and the probe put into that queue |
| `TransportProperties` | what the queue and its callers must guarantee |
| `MCTransport` | the instances for TLC |
| `TransportProofs` | proofs of the transport invariant and of four properties |
| `TransportOrder` | proofs of the order in which frames leave, and of the stop on a healthy bus |
| `MotionBlockParser` | which actions are one atomic block, and the step made of it |
| `MotorFeedback` | the motors, and the store of their latest samples |
| `MotionExecutor` | `MotionExecutor` in detail: phases, acknowledgements, supervision, timeouts |
| `MotionProperties` | its properties, its invariant, the refinement mapping to `BlockExecutor` |
| `MCMotion` | the instances for TLC |
| `MotionProofs` | proofs of two invariants, of six more properties and of the refinement |
| `Provisioning` | the Wi-Fi connector: portal, join, delayed shutdown |
| `MotorStartup` | clearing and verifying the origin of the motors at the boot |
| `Startup` | `setup`, then the loop until the TCP server starts |
| `MCStartup` | its instance for TLC |
| `StartupProofs` | the invariant of the boot and the portal, and proofs of it and of five properties |
| `DeviceLink` | the TCP client of the desktop |
| `PrintTask` | the loops that send the blocks of a task, cancel, stop, reset |
| `Desktop` | the desktop composed with a device that keeps `BlockLifecycle` |
| `MCDesktop` | its instance for TLC |
| `DesktopSteps` | the inductive invariant of the desktop, and what the window's actions do to the loops |
| `DesktopProofs` | the proof of that invariant, and of six properties |

There are five compositions, one for each place where the parts meet.

* `Firmware` has the requests, the slot and the results, and abstracts from what
  a motor command does; `MotionTransport` has the commands and the queue, and
  abstracts from requests and results. Both are built on `BlockExecutor` and
  `CanBus`.
* `MotionExecutor` (with the parser and the motors) fills in what `BlockExecutor`
  leaves to choice, and is shown to implement it.
* `Startup` ends where `Firmware` begins: `HandsOverToFirmware` says that the
  application is then in a state that satisfies `AppInit`.
* `Desktop` puts the desktop in front of `BlockLifecycle`, the abstract
  specification that `Firmware` is shown to implement.

`Firmware` EXTENDS the server, which EXTENDS the application, which EXTENDS the
executor and the bus: each module owns its variables and writes the methods of
its class as operators, and `Firmware` is the only one with a next-state
relation. Its variable `pc` says which part of the round comes next; every part
is one action, so that clients and bus faults can act between any two of them. A
method is one atomic step of the model, as it is one uninterrupted call in the
program.

In `MotionTransport` a handler is a `script`: the list of queue calls that it
makes, in the order of the code. The one thread finishes a script before it does
anything else, so the next handler is enabled only when the script is empty. Each
call is one action, and at each frame the bus may accept (`SendCall`) or refuse
(`RetryCall`, which keeps the frame and ends the call). `pc` is the part of the
round: `server` (requests), `check` (fatal CAN fault, start) or `run` (runtime
limit, executor, settle).

### State

* `execState`, `execStage`, `execMoved`, `execJob`: the executor's `state_`; how
  far the run is; whether it handed a command to the driver; which block it
  was started for.
* `canReady`, `canFatal`: `ready_` and `diagnostics_.fatalFault`.
* `jobState`, `jobId`, `remoteCommandActive`, `activeSteps`, `elapsed`: the job
  and the slot. Blocks are numbered by `jobId_`, which the code increments on
  acceptance, so a client may reuse a block's name. `elapsed` counts loop periods
  since the start, in place of `millis()`.
* `remoteFinalPending`, `remoteFinalStatus`, `remoteFinalJob`: the outcome that
  waits to be drained.
* `faulted`, `remoteFaultNotified`: the fault latch and its event.
* `display`, `completeShown`: the OLED status; whether the completion text is
  shown and whether a round has passed since.
* `session`, `linkUp`, `handshaken`, `rx`, `backlog`: the client, its
  connection, the unread lines, and a connection not accepted yet.
* `queue`, `pending`: `queue_`, and the frame that is kept outside of it while
  the controller refuses it (`pendingFrame_`, `pendingValid_`).
* `group`, `stops`, `resets`: the motors of the last run's step; how many
  emergency stops and resets there were.
* `motor`, `feedback` (`MotorFeedback`): where each motor is and goes, the answer
  it owes and whether it has an arrival to report; the samples of
  `MotorFeedbackStore` with their ages.
* `state`, `phase`, `supervision`, `stepAge`, `commandAge`, `samples`, `fault`
  (`MotionExecutor`): the members of the same name; an age stands for the
  difference between `millis()` and the time the code stores.
* `step`: the application's `activeMotionSteps_.steps[0]`. The run does not own it:
  a block accepted under a run overwrites it. `job` is the job the run was started
  for, and `slot` says whether the slot is still its block's (`run`), was emptied by
  a reset (`free`), or went to another block since (`other`).
* `counter`, `seen`, `clearAcked` (`MotorStartup`): what each motor counts, and
  what the firmware has read of it since the clear.
* `wifiState`, `connectAge`, `pendingApShutdown`, `shutdownAge`, `tcpReady`
  (`Provisioning`): the members of the connector; `apOn` and `radio` are the
  access point and `WiFi.status()`.
* `pending`, `commandQueue`, `headSent`, `activeBlock`, `settled` (`DeviceLink`):
  the requests that wait, the chain of mutating requests, whether its head was
  started, the active block, and the promises resolved whose callers have not run.
* `toDevice`, `fromDevice`, `inbox`: the two directions of the connection and the
  IPC messages to the window.
* `epoch`, `loop`, `running`, `rendered`, `activeRun`, `position` (`PrintTask`):
  the refs of the hook; `loop` is where the promise of each operation waits.
* History variables, read by no action's guard: `stopLatched`, `owner`,
  `results`, and `execMoved` in `Firmware`; `issued` and `wire` (the frames each
  run put into the queue, and those that have left), `stoppedUpTo`, `sinceStop`
  and `retried` in `MotionTransport`; `accepted` (the block accepted last),
  `block` (the one the run was started for), `refused`, `ordered`, `answersLate` and
  `obeyed` in `MotionExecutor`; `finishedAttempt` in `Provisioning`; `completed` and
  `finished` in `Desktop`. `polled` in `MotionExecutor` says who may answer.

### What is abstracted

* One block is one step. The protocol allows exactly one block per request and
  the server passes `count == 1`; the choice of motors within a step does not
  matter to the application.
* Feedback, acknowledgements and all timers of the executor are one choice per
  tick (`BlockExecutor`): the checks hold whatever the motors do.
* A request that is refused by validation, a heartbeat and a snapshot leave the
  state alone, and are one request type.
* Bytes, JSON, the oversize-line mode and answers other than `block_result`.
* A CAN alert is a choice of what `recoverBus` left behind.
* A frame is its command, its motor and the run it belongs to. A series of
  one-frame commands (a stop to every motor, a probe, a poll) is enqueued in one
  step: nothing is sent between two of them. A move is one batch and is taken as a
  whole or not at all, as in `enqueueBatch`.
* A frame that the TWAI driver has accepted counts as sent: the driver's own
  transmit queue is not modelled, so what `recoverBus` may drop there is not seen.
* In `MotionTransport`, whether a block waits, what the feedback says and whether
  a reset succeeds are choices; the runs check every combination.
* Its instances have two motors and room for six frames, in place of five and 32.
  `RoomAssumption` (three commands for every motor fit) is what both have in
  common and what the proof uses; the probe (five frames for every motor) fits in
  the code and not in the instances, which therefore also show a full queue.
* `cancel()` of the executor, local text jobs, debug commands and progress events
  have no caller in the firmware and are left out.

In the motion modules:

* There is no clock. In `TimePasses` every sample, the step and its commands grow
  older together, up to `MaxAge`, which is above every limit; a limit is compared
  with an age where the code compares it with a difference of two readings. What a
  comparison of two stored times decides (is this sample younger than the
  command?) is decided when the sample arrives: after the command it counts, and
  one that arrives in the millisecond of the command may.
* Frames arrive between two ticks, one at a time and in any order; each may be
  lost. Only motors that were polled in the run answer with samples.
* `Submit` is `submitRemoteBlock` together with what the next round makes of the
  block: it starts, or it does not (it was cancelled or dropped before, or the
  executor was still running and refused it as busy). In either case its step is in
  the buffer. A block is accepted under a run only after a reset has emptied the slot
  of that run (`ResetUnderRun`), which the application allows at any time. A fatal
  CAN fault and the reset after it come to the same for the executor: `StopAll`,
  then `ResetUnderRun`.
* A reset at rest keeps a completed executor completed, as the code does. What the
  start of the next run clears anyway is cleared by the reset already.
* The stops of `stopAll` are heard at once. How they reach the bus, and that they
  may wait there, is the subject of `MotionTransport`.
* Whether the probe of a reset brings samples, and whether a motor on its way reads
  as moving, is a choice; whether the reset as a whole succeeds belongs to the
  application. A late step is reported as
  `motion_target_timeout`; the code says `motion_feedback_timeout` if it has heard
  nothing at all.
* A status frame with the driver's fault flag is only asked for by probes outside
  of a run, and a malformed-command answer is never recognised: the parser takes
  the command from a frame whose command byte is 0. Neither fault is modelled.
* The parser's input is a sequence of actions, each a record; an action with
  fields of the wrong JSON type is one illegal kind.
* The passing instances set `MotionTimeout` to 1 so that waits run at all; with
  the values of the configuration every wait is refused, which is the run
  `wait_rejected`.

In `Startup` and `Provisioning`:

* The network is outside: whether a join succeeds, fails or gets no answer, and
  whether the connection is lost later, is a choice. Status requests and the
  waiting log are left out. The old connection is gone when a new attempt begins.
* What a motor counts when the firmware starts is arbitrary; each clear, each
  answer and each sample may be lost, for each motor alone.

In the desktop modules:

* One connection, after its handshake. Heartbeats and snapshots matter only when
  they fail, which is a disconnect. A disconnect can happen between any two chunks
  that are read; one that is noticed within a chunk in which a promise was resolved is
  not modelled (`Disconnect` requires `settled` to be empty). `close()` called by the
  user is not modelled either: it marks the link as closed on purpose and tells the
  window nothing.
* A resolved promise runs before the main process serves its next event
  (`LinkIdle`), but after the whole chunk that resolved it was read (`settled`).
  Messages to the window arrive in order; requests from it reach the main process
  at once.
* The device is `BlockLifecycle` with the fault latch of the firmware. It keeps
  its promise: the behaviours of the violation runs are not in it.
* A plan is a number of blocks. `position` is the block whose target was taken
  over, in place of coordinates. The debug moves of the hook have no button.

## 3. Runs

| Run | Specification | Instance | Shows |
|---|---|---|---|
| `firmware_safety` | `Spec` | 2 blocks (symmetric), 2 sessions, 4 requests, 2 unread, `MaxRuntime` 1 | invariants, `NoStartWhileFaulted`, `ImplementsLifecycle`; 3.4 million states |
| `firmware_liveness` | `FairSpec` | 1 block, 1 session, 3 requests | `AcceptedBlockEnds`, `OwnerLearnsOutcome` |
| `motion_after_result` | `Spec` | 1 block, 1 session, 5 requests | violated: see section 5 |
| `two_blocks_active` | `Spec` | the same | violated |
| `transport_safety` | `Spec` | 2 motors moved together, 6 frames, 2 runs, 1 stop, 1 reset | queue properties and `StoppedRunStaysSilent`; 7 million states |
| `transport_progress` | `TransportFairSpec` | the same with single moves and polls, 1 run, 1 stop | `DeliveryInvariant`, `EveryMotorIsStopped` |
| `motion_pair` | `Spec` | the Y pair, pulses -1..1, one block of two actions, out of two (one leaves a motor where it is) | what a run means for the machine; 1.7 million states |
| `motion_press` | `FairSpec` | the press, pulses -1..0, two blocks out of two moves and a wait | `ExecutorInvariant`, acknowledgements, where motors are sent, refinement, `RunEnds`; 680 thousand states |
| `other_block_moves` | `Spec` | as `motion_press` | violated |
| `wait_rejected` | `Spec` | as `motion_press`, with the default timeout above the limit, as configured | violated |
| `startup` | `FairSpec` | 2 motors that count 0..2, 4 HTTP requests | the boot and the portal; 184 thousand states |
| `desktop` | `Spec` | tasks of 2 blocks, a return of 1, 2 operations or stops, 1 reset, 1 fault | the desktop against a device; 2.6 million states |

The properties.

* `SlotAgreesWithJob`: `jobState_` and the slot flags say the same after every
  call, and a latched fault leaves no block unfinished. If they did not, the
  device would answer `device_busy` for ever or accept over a live block.
* `DoneMeansOwnMotion`: "done" is reported only for a completed run of that very
  block, though the executor stays Completed after each run.
* `CancelledNeverStarted`: cancel and disconnect reach only a block that has not
  begun.
* `StoppedStaysStopped`, `NoStartWhileFaulted`: a stop holds until a successful
  reset, however requests are batched into one read.
* `FirmwareInvariant`: the inductive invariant of the proofs. It joins the above and
  `RuntimeBounded`: after the check of a round, a running block is within its limit.
* `ImplementsLifecycle`: every behaviour is one of `BlockLifecycle`, so outcomes
  are recorded once, for the block in the slot, and reported at most once.
* `AcceptedBlockEnds`, `OwnerLearnsOutcome`: no block holds the slot forever, and
  a client that stays and resets nothing is told the outcome.

* `UrgentFirst`: no stop and no move waits behind a poll.
* `BatchLeavesInOrder`: of each run a beginning of what was issued has left. A
  refused frame that is overtaken, sent twice or lost would break it, and so would
  a broadcast that starts the motors ahead of one of their moves.
* `StoppedRunStaysSilent`: after an emergency stop nothing of the runs before it
  leaves, not even the frame that was being retried.
* `EmergencyNeverLost`: each of the three commands for each motor has left, waits
  or is still to be enqueued, whatever the queue held and however the bus behaves.
* `PromptOnHealthyBus`, `OrderOnHealthyBus`: if the bus has refused nothing since
  the stop, all commands have left when the handler returns, and each motor was
  stopped, disabled and unlocked in this order. On a bus that refuses, the order is
  not kept: urgent commands go to the front, so "disable" overtakes a "stop" that
  waits. The condition is therefore part of the property.
* `EveryMotorIsStopped`: every motor gets its stop, or the controller is lost.

* `DoneMeansArrived`: when a run completes and no other block was accepted under it,
  every motor that obeyed its command and was supervised from a known baseline is
  where the block wants it, though the samples that decide may be older than the
  command and may come in any order. Of a motor that did not obey it would be false:
  see section 5. Of a run under which a block was accepted it says nothing: the step
  in the buffer is then the other block's, and its kind decides which motors are
  judged at all (a run of the Y pair under which a wait or a press was accepted ends
  without a look at the pair).
* `FailureStopsMotors`: however a run fails, no motor it commanded stays on its way.
* `MotionIsTheBlock`: motors are sent only by a run, once, to where the legal block
  that was accepted last names them to be, and a Y motor only together with the other
  one; as long as no block was accepted under the run, that block is the run's own.
  Without this condition the claim is false, which is `other_block_moves`.
* `NoMovementNeedsEvidence`: a run is failed for want of movement only on samples
  taken after the command.
* `AckIsForThisCommand`: a motor is supervised on its way only if it obeyed the
  command of this run or still owed the answer to an earlier one. The exception is
  what the code cannot exclude, as acknowledgements carry no number.
* `ImplementsBlockExecutor`: each step of the detailed executor is one
  `BlockExecutor` allows, so what holds for the application with any choice of
  `BlockExecutor` holds with the real decisions.
* `RunEnds`: a run ends whatever the motors do, hear or answer.

* `ReadyAtOrigin`: a device that comes up without a fault has motors that count
  from the place they were put at, whatever was lost. The acknowledgement of the
  clear is needed: a sample within the tolerance is not enough.
* `AccessPointUntilJoined`, `ServerStartsWhenFinished`: the portal closes and the
  server starts only for the attempt whose finish was granted, whose join had
  succeeded, and after which no newer attempt was made, however requests fall between
  the finish and the delayed shutdown. That the network is still there is not said,
  and not so: see section 5.
* `HandsOverToFirmware`: the state in which the server starts is one `Firmware`
  starts from, also after a boot that failed.
* `AttemptEnds`, `FinishStartsServer`: a join ends, and a finish that was granted
  starts the server unless a new attempt is made.

* `BlocksInOrder`: the device executes a block once, and only after the block
  before it in the same operation, whatever was cancelled, stopped, lost or late.
* `FinishedMeansDone`: a task is finished only after its last block was done.
* `PositionIsReached`: the position the next task is planned from is one the
  motors were moved to, although loops of old operations write it too.
* `RunningHasLoop`: while the window refuses a task because one runs, some loop is
  alive, of this operation or of an older one; the flag is not left set with nobody to
  clear it.
* `OwnBlockIsOver`: when a block of the desktop is served, the slot is not held by
  another block of the same operation, whatever was late, stopped or reset. That it
  is not held at all would be too much: see section 5.
* `EveryWaitIsAnswered`: no loop waits for an answer that cannot come any more,
  and no request that is over holds the command queue. It is the safety half of
  "every loop ends"; with the timer of `ResultTimeout` the other half needs only
  that timers fire.

Bounds. `MaxSessions`, `MaxRequests` and `MaxUnread` bound the clients and nothing
else; the loop itself is unbounded, and the state space is finite because
`elapsed` is capped one above `MaxRuntime`. Four requests are the handshake and
three commands: enough for block, stop and reset; block, reset and block; or two
clients with one block each. Two unread lines are enough for two commands within
one read. `MaxRuntime` 1 gives a block a round in which it is within the limit and
one in which it is not. For the transport, two runs are one before and one after
a stop, with a reset between them; more stops, resets or send calls in a probe
(`MaxPump`) only repeat these. Six frames are what an emergency stop needs and one
more than a move, so a move finds the queue empty, partly filled and full. The
proofs remove these bounds.

For the executor the pair shows the rules for two motors of one step (the pair is
polled, commanded and compared as one) and the press the rules across runs. Three
pulses let a motor be before, at and beyond a place a sample was taken at.
`MaxAge` 2 gives each sample of the press three ages: within both freshness limits,
between them, and beyond; for the pair the two limits are one. The limits keep the
order of the code's: `FeedbackFresh` <= `BaselineFresh`, `FeedbackFresh` <=
`NoMovementTimeout`, which is what `NoMovementNeedsEvidence` rests on. Two samples in
a row are the least that can be interrupted. `MaxMoves` counts accepted actions. Its
2 are one block of the pair, with every loss, delay and stop during it, and two blocks
of the press: two runs one after the other, or one run and a block accepted under it,
which is a move to another place or a wait. `MCView` leaves out of the pair's states
what a failed run no longer reads, and whether the slot is free once no block is left
to accept. The instances have no step with X and both Y motors, so the order in which
those are looked at (section 7) is modelled and not exercised; nor are a second block
of the pair and a step overwritten by one of other motors. The proofs cover all three.

For the boot, four HTTP requests are two attempts and two finishes in any order,
and two motors are one that answers and one that does not. For the desktop two
blocks are one that is followed and one that is last. `MaxEpoch` counts what advances
the epoch of the controller, which a stop does as well as an operation: 2 is an
operation and the next one, begun after the first was finished, was cancelled, or failed
and the fault was reset, or an operation and a stop. An operation that follows a stop
and a reset is beyond this instance; `DesktopInvariant` was checked with it on a larger one (section
4), and the proofs cover any number.

Fairness. `FairSpec` adds `WF_vars(Loop)`: the Arduino core calls
`autoTyperLoop` again and again, and no call in a round waits without a limit
(bus recovery is limited to 800 ms, the motor probe to 300 ms, a read to 512
bytes). Clients get no fairness. One request is read or left per step, so
`ReadDone` is always an alternative to `ReadLine`; `WF_vars(Loop)` alone does not
decide between them, but only finitely many requests are ever sent.

`TransportFairSpec` adds `WF_vars(Round)`, for the same reason, and
`SF_vars(SendCall)`: a bus that is tried again and again takes a frame in the end.
That is an assumption about the hardware; the code contributes that it goes on
trying, and the property excuses a lost controller.

`FairSpec` of `MotionExecutor` adds `WF_vars(Tick)` and `WF_vars(TimePasses)`: the
loop turns and the clock runs. Motors, frames and requests get none. `FairSpec` of
`Startup` adds the same for setup, loop and time; the network owes nothing.

Deadlock is checked in the runs of the firmware, the transport and the boot: the
loop always has a next part. The executor's instances stop when the bound on the
accepted actions is used up, and the desktop rests when the user does nothing
more: these five configurations do not check for it.

## 4. Proofs

`FirmwareProofs` proves, for every set of blocks, every `MaxRuntime` and every
bound on the clients, `Spec => []TypeOK`, `Spec => []FirmwareInvariant`, each
safety invariant of the run, and `NoStartWhileFaulted`. `FirmwareRefinement`
proves `Spec => ImplementsLifecycle`. `RuntimeBounded` is a part of
`FirmwareInvariant` with a theorem of its own. The assumptions are
`ApplicationAssumption` (`NoBlock` is not a block, `MaxRuntime` is a positive
number) and `ServerAssumption` (the bounds are numbers).

The argument. None of the safety properties is inductive alone. A report "done"
is right because the run that completed was started for the block in the slot;
this needs that a running job has its own run (`execJob = jobId`), that a queued
one has none (`execJob < jobId`), and that nothing but the tick of this round can
have completed it. The last is where the loop matters: a queued block does not
outlive its round, and a pending outcome exists only between the end of a block
and the next drain, "done" only until the first drain of the next round.
`FirmwareInvariant` therefore joins the properties with `CountsAgree`,
`PendingBelongsToSlot`, `RunBelongsToSlot` (slot, outcome, run and place in the
loop) and `UnendedUnreported` (nothing is reported for a block that has not
ended). It is checked by TLC as an invariant of `firmware_safety` and proved
inductive action by action (`InvariantStep`). The refinement uses it for the two
steps whose abstract guard is not visible in the code: a drain reports a block
not reported before, and an end comes from an occupied slot.

`TransportProofs` proves, for every list of motors, every capacity that holds
three commands for each of them, every set of moves and every bound,
`Spec => []TransportInvariant` and from it `TransportTypeOK`, `UrgentFirst`,
`EmergencyNeverLost` and `StoppedRunStaysSilent`. The assumptions are
`CapacityAssumption`, `TransportAssumption` and `RoomAssumption`.

The argument. Lemmas say what a queue operation does to the waiting frames and to
the order of urgent ones (`EnqueueProperties`, `TransmitProperties`); one lemma
says which scripts a handler can begin (`NewScript`), so an invariant about
scripts needs one case for the calls and one for the handlers. A stopped run stays
silent because three facts hold together: no later run has its number
(`RunIsNewer`), no call to come enqueues a frame of it (`ScriptIsFresh`), and none
waits once the stop has cleared the queue (`QueueIsFresh`); the exception is the
moment before the clear, when the script is still whole and nothing is sent. That
no command of an emergency stop is lost is a count: `EmergencyInProgress` says at
each point of its handler how many frames can wait, which leaves room for the rest,
and `Kept` that what was enqueued has left or waits, as only a later stop clears.

`MotionProofs` proves, for every set of motors, every range of pulses, every set
of blocks and all limits, `Spec => []MotionInvariant`, and from it
`MotionTypeOK`, `FailureStopsMotors`, `AckIsForThisCommand`,
`NoMovementNeedsEvidence`, `MotionIsTheBlock` and `ImplementsBlockExecutor`. The
assumptions are `ExecutorAssumption` (the order of the limits) and
`StepsAssumption` (what the parser makes of a block: a step moves motors of the
machine, an XY step X and the Y motors only, the Y motors together, to where an action
of the block says). The second
is about the fold that collects the actions of a block; what a fold returns for
every input is an induction over data, which the installed provers cannot do, so
TLC evaluates it for the blocks of each instance instead.

The argument. The properties speak of the motors, the code only of supervision:
`MotionInvariant` ties the two. The step is the one made from the block that was
accepted last, which is the run's own as long as none was accepted under it
(`StepIsTheBlock`); nothing is ordered before the commands (`NothingOrderedYet`);
supervised motors were ordered, the Y motors together (`SupervisedIsOrdered`); every
acknowledgement that counts or that is still to come is of a motor that obeyed or owed
an answer (`AnswersAreOwed`), and the way begins when all have acknowledged
(`AckedOnTheWay`). What was ordered is not tied to the step: after the commands the
step may become another block's. A tick passes several phases
at once; each phase has a lemma about the run as the earlier phases left it, so
the proof follows the calls of the code. The refinement needs only that a run
without a fault is running and that nothing was ordered before the commands.

`StartupProofs` proves, for every set of motors, every set of counts, every delay
and any number of requests, `Spec => []StartupInvariant`, and from it
`StartupTypeOK`, `ReadyAtOrigin`, `AccessPointUntilJoined`,
`ServerStartsWhenFinished` and `HandsOverToFirmware`. The assumptions are
`StartupAssumption` (counts are numbers, 0 is one of them),
`ProvisioningAssumption` (the bounds are numbers) and `ApplicationAssumption`.

The argument. The code verifies the origin by the acknowledgements of the clear,
the properties speak of the counters: `ClearedCountsZero` ties the two, and the
end of setup forgets the acknowledgements whether it succeeds or not. For the
portal, `FinishedIsJoined` says that a shutdown that waits, or is done, belongs to
the last attempt and that this attempt has joined; it is inductive only because
a new attempt calls a waiting shutdown off. `JoinedWasAnswered` says that the network
had answered the attempt that is recorded as connected; it may be lost since. With
`ReadyMeansClosed` the server has
all it needs. `ApplicationUnused` says that up to the server nothing but a fault
has happened to the application, which is the state `Firmware` begins in.

`DesktopProofs` proves, for any number of blocks, operations, resets and faults,
`Spec => []DesktopInvariant`, and from it `FinishedMeansDone`, `PositionIsReached`,
`RunningHasLoop`, `OwnBlockIsOver`, `EveryWaitIsAnswered` and `BlocksInOrder`: every
property of the run `desktop`. The assumptions are `TaskAssumption` (a task has a
block, the bounds are numbers) and `DesktopAssumption` (the number of faults is
one).

The argument. What the loops believe is a matter of messages that were sent long
ago, so the invariant speaks of every message under way. `DesktopSteps` states it in
layers: types; who waits and for what (`EveryWaitIsAnswered`, `RunningIsAlive`);
what is believed done was completed by the motors (`Evidence`); each block is served
at most once (`ServedOnce`); each answer is heard at most once (`AnsweredOnce`); of
each operation at most one block is on its way or in the slot (`OneBlockEach`). None
is inductive alone: the block that a loop sends next is new only because the answer
it has heard is the one it waits for, which is so only because that answer comes
once; a result is the loop's own only because its blocks are served once. The
actions of the window are many; they come down to nine ways in which loops move
(`LoopMove`), and the layers are proved against those. TLC checked
`DesktopInvariant` beforehand, on the instance of the run and on larger ones (three
operations, two resets; to depth 26).

`TransportOrder` proves, from the assumptions of `TransportProofs` and
`BudgetAssumption` (there are at most eight motors: each round of an emergency stop
sends up to eight frames), `Spec => []DeliveryInvariant`, and from it `BatchLeavesInOrder`,
`PromptOnHealthyBus` and `OrderOnHealthyBus`.

The argument. What has left of a run and what waits must make up what was issued,
so the invariant says where the frames of a run are: side by side in the queue, with
at most one of them kept outside for a retry ahead of them (`InLine`). Urgent frames
go in front of such a row and others behind it, and none goes into it; the run
itself issues once (`IssuedOnce`, `BatchIsNext`). For the stop on a healthy bus,
`RoundAfterRound` follows the handler call by call: each round leaves completely
before the next one is enqueued, as the budget of a send call is no less than what
a round puts in the queue.

`MotionProofs` also proves `Spec => []ArrivalInvariant`, and from it
`DoneMeansArrived`; the two invariants together are the `ExecutorInvariant` of the run
`motion_press`. Completion is decided from samples, not from motors, and from the
supervision, which keeps the target of the command (`makeSupervision`,
`motorAtTarget`): a step overwritten after the commands changes which motors are looked
at and for how long, not where they should be. A sample near the target was taken there
(`SampledWhereItIs`), as the only sample that can be older than the command is the
baseline, which is not near the target or the motor would not be supervised; and a
motor that obeyed comes no farther from its target (`ObeyedGoesThere`), whether it goes
on or is stopped. These two hold in every run. That the targets are those of the run's
block (`SupervisedForTheBlock`) and that every supervised motor is looked at
(`SupervisedIsJudged`) hold while no other block was accepted under it, which is why
`DoneMeansArrived` has this condition.

Every safety property of a passing run is stated by a theorem. Only model-checked:
the liveness properties `AcceptedBlockEnds`, `OwnerLearnsOutcome`,
`EveryMotorIsStopped`, `RunEnds`, `AttemptEnds` and `FinishStartsServer` (liveness
under fairness is out of the prover's reach) and the four violations.

## 5. Where the code and its document disagree

Each is a run that TLC refutes with a behaviour of the code; the document is
`shared/protocol/README.md`.

1. `NoMotionAfterResult` (line 54, "`block_result` is the only terminal event").
   A fatal CAN fault ends the block in the application and stops the motors, but
   the executor stays Running; after the fault is cleared the run continues and
   issues its commands.
2. `OneBlockActive` (line 13, "Only one motion block may be active at a time").
   `reset_fault` during a healthy run frees the slot and keeps the run.
3. `MotionIsOwnBlock` (line 13 again). An accepted block is written into
   `activeMotionSteps_` while the executor may still run a step it reads from there.
   After a `reset_fault` during the preflight of a run, a second block is accepted, the
   run sends the motors to the targets of the second block, and `start` refuses that
   block as `executor_busy`.
4. `LegalBlocksAreAccepted` (line 96, "Supported actions are `motor_move` and
   `wait`"). A wait has no profile and gets the configured 15000 ms, which
   `convertRemoteStep` refuses as above 10000 ms.

Seen while modelling, and not a run of their own:

* Line 66, "Error remains latched until a successful `reset_fault`":
  `finish_task` is accepted by a faulted device (`auto_typer_runtime.h:501`), and
  its dwell brings the display to Idle.
* Line 120, "its unsent terminal result is discarded": the result of a block whose
  client left goes to the client that connects next
  (`MotionProtocolServer.h:225`).
* Line 54 again: a run that fails in the executor stops the motors and, unlike an
  emergency stop, leaves the queue as it is; on a bus that refuses frames its moves
  leave after the result "failed" (`MotionExecutor.h:338`).
* Line 102: after a boot that could not verify the origin, `reset_fault` clears the
  fault without verifying it.
* `start` clears the supervision, and the preflight of an XY step polls only supervised
  motors, so none: with samples older than 1500 ms such a move waits for a baseline that
  nothing asks for. Line feed and press are polled by their kind
  (`MotionExecutor.h:302`).
* The skew of the Y motors is not compared while X is on its way
  (`MotionExecutor.h:645`).
* A finish repeated within the 500 ms before the portal closes begins the delay
  again; a connection lost within it closes the portal all the same
  (`ProvisioningWifiConnector.cpp:210`).
* In the desktop, a listener added to a signal that is already aborted never runs:
  a loop whose result came before its acknowledgement goes on sending after an
  emergency stop (`usePrintTaskController.ts:290`). The model has this behaviour;
  the properties hold with it.
* Line 13, "Only one motion block may be active at a time", is not kept by the link
  alone. `reset_fault` clears the fault and leaves a fault event that was not sent
  yet (`auto_typer_runtime.h:519`). In a long behaviour (a loop that goes on as
  above, its next block queued behind the reset, a new operation after it) that
  event frees the link's `activeBlock` while a block runs, and the next block is
  sent to a busy device, which refuses it (`deviceLink.ts:161`). What is proved is
  `OwnBlockIsOver`.
* Acknowledgements carry no number. A motor still on the way of an earlier run, whose
  new command is lost, can be acknowledged by the old answer; if it passes the new
  target and a sample is taken there, the run completes and the motor goes on. This
  takes three runs; `DoneMeansArrived` is therefore about motors that obeyed
  (`MotionExecutor.h:1058`).

## 6. Plan

Done: the firmware core, the command transport, the detailed executor with its
parser and motors, the boot and the portal, the desktop's link and print task, and
the proofs of all safety properties that the passing runs check. What is left, most
important first.

1. Theorems for the two claims that are violated, with the condition under which
   they hold: no motion after the result unless the bus failed or a reset came during
   the run; one active block unless a reset came.
2. A reset after a failed boot: `Startup` and `Firmware` in one next-state
   relation.
3. Pure operators checked against a reference definition: the absolute encoder and
   the planner of the desktop.

## 7. Not modelled

The protocol trace, the display driver, the firmware's own text planning and
kinematics (reached by no caller), the user interface, the provisioning flow in
the desktop, the keymap data, the transport session machine (used by no running
code), the bench sketch in `src/test` and the build tools: none of them takes part
in the protocol. The planner and the encoder compute in floating point and only
decide what the targets are. `PROJECT.json` names the reason for each.

Of the modelled parts: the wrap of `millis()` and the millisecond in which it is
0, which several members use for "not yet"; the buffers of the TWAI driver; more
than one TCP connection of the desktop; steps with X and both Y motors at once in
the instances.
