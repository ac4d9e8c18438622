----------------------------- MODULE DeviceLink -----------------------------
(***************************************************************************)
(* DeviceLink, the TCP client in the main process of the desktop, for one  *)
(* connection after its handshake.  Requests come from the user interface  *)
(* by IPC; answers and events go back to it in the order they are sent.    *)
(*                                                                         *)
(* An answer from the device resolves a promise: what the caller does with *)
(* it runs when the chunk that brought it has been read, and one chunk may *)
(* hold several messages.  Timers may fire at any time.  Heartbeats and    *)
(* snapshots only matter when they fail, which is a disconnect.            *)
(***************************************************************************)
EXTENDS Naturals, Sequences, SequencesExt

\* A request: a block, the finish of a task, a stop, a reset; "op" and "index"
\* are its number: the operation and the block in it, or a counter.
Req(kind, op, index) == [kind |-> kind, op |-> op, index |-> index]
NoBlock == Req("none", 0, 0)

VARIABLES
  linkUp,          \* the socket is writable
  pending,         \* pending: the requests that wait for their answer
  commandQueue,    \* commandQueue: mutating requests, the first is the current one
  headSent,        \* the current one was started
  activeBlock,     \* activeBlock
  settled,         \* promises resolved, their callers not run yet
  toDevice,        \* lines on their way to the device
  fromDevice,      \* lines on their way back
  inbox            \* IPC messages on their way to the user interface

linkVars == <<linkUp, pending, commandQueue, headSent, activeBlock, settled>>
wireVars == <<toDevice, fromDevice, inbox>>

LinkInit ==
  /\ linkUp = TRUE /\ pending = {} /\ commandQueue = << >> /\ headSent = FALSE
  /\ activeBlock = NoBlock /\ settled = << >>
  /\ toDevice = << >> /\ fromDevice = << >> /\ inbox = << >>

Answer(req, ok) == [type |-> "answer", req |-> req, ok |-> ok]
Reply(req, ok) == [type |-> "reply", req |-> req, ok |-> ok]
Result(block, status) == [type |-> "result", req |-> block, status |-> status]
FaultEvent == [type |-> "fault", req |-> NoBlock]

\* sendRequest, the line written at once.
Send(req) ==
  /\ pending' = pending \cup {req}
  /\ toDevice' = Append(toDevice, req)

JumpsQueue(req) == req.kind = "stop"

\* sendCommand.  "box" is what the user interface has still to read.
SendCommand(req, box) ==
  /\ \/ /\ ~linkUp \/ (req.kind = "finish" /\ activeBlock # NoBlock)
        /\ inbox' = Append(box, Answer(req, FALSE))
        /\ UNCHANGED <<pending, toDevice, commandQueue>>
     \/ /\ linkUp /\ JumpsQueue(req)
        /\ Send(req)
        /\ inbox' = box
        /\ UNCHANGED commandQueue
     \/ /\ linkUp /\ ~JumpsQueue(req) /\ ~(req.kind = "finish" /\ activeBlock # NoBlock)
        /\ commandQueue' = Append(commandQueue, req)
        /\ inbox' = box
        /\ UNCHANGED <<pending, toDevice>>
  /\ UNCHANGED <<linkUp, headSent, activeBlock, settled, fromDevice>>

----------------------------------------------------------------------------

\* The current command is over when it is the one that was answered.
Dequeue(req) ==
  IF commandQueue # << >> /\ Head(commandQueue) = req
    THEN commandQueue' = Tail(commandQueue) /\ headSent' = FALSE
    ELSE UNCHANGED <<commandQueue, headSent>>

\* submitBlock refuses a block while another is active; nothing is sent offline.
Refused(req) == ~linkUp \/ (req.kind = "block" /\ activeBlock # NoBlock)

RunCommand ==
  /\ commandQueue # << >> /\ ~headSent
  /\ LET req == Head(commandQueue)
     IN \/ /\ Refused(req)
           /\ Dequeue(req)
           /\ inbox' = Append(inbox, Answer(req, FALSE))
           /\ UNCHANGED <<pending, toDevice, activeBlock>>
        \/ /\ ~Refused(req)
           /\ headSent' = TRUE
           /\ Send(req)
           /\ activeBlock' = IF req.kind = "block" THEN req ELSE activeBlock
           /\ UNCHANGED <<commandQueue, inbox>>
  /\ UNCHANGED <<linkUp, settled, fromDevice>>

\* The messages that end the active block.
Releases(m) ==
  \/ m.type = "result" /\ m.req = activeBlock
  \/ m.type = "fault"
  \/ m.type = "reply" /\ m.req.kind \in {"stop", "reset"} /\ m.ok

\* handleMessage
Receive ==
  /\ linkUp /\ fromDevice # << >>
  /\ LET m == Head(fromDevice)
     IN /\ activeBlock' = IF Releases(m) THEN NoBlock ELSE activeBlock
        /\ IF m.type = "reply" /\ m.req \in pending
             THEN pending' = pending \ {m.req} /\ settled' = Append(settled, m)
             ELSE UNCHANGED <<pending, settled>>
        /\ inbox' = IF m.type = "reply" THEN inbox ELSE Append(inbox, m)
  /\ fromDevice' = Tail(fromDevice)
  /\ UNCHANGED <<linkUp, commandQueue, headSent, toDevice>>

\* The caller of a request that was answered: submitBlock, the queue, the IPC.
Resume ==
  /\ settled # << >>
  /\ LET m == Head(settled)
     IN /\ activeBlock' = IF ~m.ok /\ activeBlock = m.req THEN NoBlock ELSE activeBlock
        /\ Dequeue(m.req)
        /\ inbox' = Append(inbox, Answer(m.req, m.ok))
  /\ settled' = Tail(settled)
  /\ UNCHANGED <<linkUp, pending, toDevice, fromDevice>>

\* The timer of a request: a block whose acknowledgement is late stays active.
RequestTimeout ==
  /\ \E req \in pending :
       /\ pending' = pending \ {req}
       /\ Dequeue(req)
       /\ inbox' = Append(inbox, Answer(req, FALSE))
  /\ UNCHANGED <<linkUp, activeBlock, settled, toDevice, fromDevice>>

\* Mutated form of Unanswered: the requests that wait are forgotten.
UnansweredNone == << >>

\* pending.reject for each request that waits.
Unanswered == LET waiting == SetToSeq(pending)
              IN [i \in DOMAIN waiting |-> Answer(waiting[i], FALSE)]

\* handleDisconnect: the user interface is told by a fault of the link's own.  The
\* current command is over; commands that wait are refused one after the other.
Disconnect ==
  /\ linkUp /\ settled = << >>
  /\ linkUp' = FALSE
  /\ pending' = {} /\ fromDevice' = << >>
  /\ activeBlock' = NoBlock
  /\ commandQueue' = IF headSent THEN Tail(commandQueue) ELSE commandQueue
  /\ headSent' = FALSE
  /\ inbox' = inbox \o <<FaultEvent>> \o Unanswered
  /\ UNCHANGED <<settled, toDevice>>
=============================================================================
