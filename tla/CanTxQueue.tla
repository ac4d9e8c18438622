----------------------------- MODULE CanTxQueue -----------------------------
(***************************************************************************)
(* CanTxQueue: the frames that wait for the CAN controller.  A batch is    *)
(* taken as a whole or not at all, an urgent one at the front and any      *)
(* other at the back.  The frame being sent is taken out of the queue and  *)
(* kept, ahead of everything, until the controller accepts it.             *)
(*                                                                         *)
(* There is one thread, so the mutex is never contended; the trace and the *)
(* diagnostics counters are left out.                                      *)
(***************************************************************************)
EXTENDS Integers, Sequences, SequencesExt

CONSTANT Capacity   \* how many frames the queue holds

ASSUME CapacityAssumption == Capacity \in Nat \ {0}

VARIABLES
  queue,     \* queue_: items, each a frame and whether it is urgent
  pending    \* pendingFrame_ while pendingValid_, else empty

queueVars == <<queue, pending>>

QueueInit == queue = <<>> /\ pending = <<>>

Items(frames, urgent) ==
  [i \in 1..Len(frames) |-> [frame |-> frames[i], urgent |-> urgent]]

\* Mutated form of Fits: a batch is taken when there is room for one frame.
FitsOne(frames) == 1 <= Capacity - Len(queue)

\* uxQueueSpacesAvailable does not count the pending frame.
Fits(frames) == Len(frames) <= Capacity - Len(queue)

\* Mutated form of Inserted: an urgent batch is sent to the front frame by
\* frame in its own order, which reverses it.
InsertedReversed(frames, urgent) ==
  IF urgent THEN Items(Reverse(frames), TRUE) \o queue ELSE queue \o Items(frames, FALSE)

\* Mutated form of Inserted: the priority is recorded and not acted on.
InsertedAtBack(frames, urgent) == queue \o Items(frames, urgent)

Inserted(frames, urgent) ==
  IF urgent THEN Items(frames, TRUE) \o queue ELSE queue \o Items(frames, FALSE)

\* enqueueBatch; the callers modelled here do not look at the answer.
EnqueueBatch(frames, urgent) ==
  /\ queue' = IF Fits(frames) THEN Inserted(frames, urgent) ELSE queue
  /\ UNCHANGED pending

\* A series of commands of one frame each, one call after the other: every
\* urgent one goes before the last, and those that find no room are refused.
EnqueueEach(frames, urgent) ==
  LET room  == Capacity - Len(queue)
      taken == SubSeq(frames, 1, IF Len(frames) <= room THEN Len(frames) ELSE room)
  IN  /\ queue' = Inserted(IF urgent THEN Reverse(taken) ELSE taken, urgent)
      /\ UNCHANGED pending

NothingToSend == pending = <<>> /\ queue = <<>>

\* The item the next transmission is about: the pending one, else the first.
NextItem == IF pending # <<>> THEN pending[1] ELSE queue[1]

LoadNext == queue' = IF pending # <<>> THEN queue ELSE Tail(queue)

\* One turn of the loop in tick(): the controller takes the frame ...
TransmitAccepted ==
  /\ ~NothingToSend
  /\ LoadNext
  /\ pending' = <<>>

\* Mutated form of TransmitRefused: the refused frame is dropped.
TransmitRefusedDrops ==
  /\ ~NothingToSend
  /\ LoadNext
  /\ pending' = <<>>

\* ... or refuses it, and it is kept to be tried again.
TransmitRefused ==
  /\ ~NothingToSend
  /\ LoadNext
  /\ pending' = <<NextItem>>

\* Mutated form of Clear: the frame that was being retried survives.
ClearQueueOnly == queue' = <<>> /\ UNCHANGED pending

Clear == queue' = <<>> /\ pending' = <<>>
=============================================================================
