---------------------------- MODULE DesktopProofs ----------------------------
(***************************************************************************)
(* DesktopInvariant is inductive.  One section for each layer of it, each  *)
(* under the whole invariant in the state before: the layers lean on each  *)
(* other (an answer that is heard is the one its loop waits for, so the    *)
(* block the loop sends next is new, so it is served once, so its result   *)
(* is its own).  The last section draws the properties from it.            *)
(***************************************************************************)
EXTENDS DesktopSteps

----------------------------------------------------------------------------
(* What a step does to the messages under way *)

\* A request of the user interface is the only one that is new.
LEMMA SendElements ==
  ASSUME LinkTypeOK, WireTypeOK, NEW box, Box(box), NEW req \in Request, SendCommand(req, box)
  PROVE  /\ ToSet(commandQueue) \subseteq ToSet(commandQueue')
         /\ ToSet(commandQueue') \subseteq ToSet(commandQueue) \cup {req}
         /\ pending \subseteq pending' /\ pending' \subseteq pending \cup {req}
         /\ pending' # pending => req.kind = "stop"
         /\ ToSet(toDevice') \subseteq ToSet(toDevice) \cup {req}
         /\ SettledReqs' = SettledReqs
         /\ AnsweredIn(box) \subseteq AnswerReqs' /\ AnswerReqs' \subseteq AnsweredIn(box) \cup {req}
         /\ req \in Coming' /\ Asked' \subseteq Asked \cup {req} /\ Results' \subseteq Results
         /\ headSent' = headSent /\ (headSent => Head(commandQueue') = Head(commandQueue))
<1>0. /\ box \in Seq(InboxMsg) /\ ToSet(box) \subseteq ToSet(inbox)
      /\ AnsweredIn(box) \subseteq AnswerReqs
  BY BoxIsRead
<1>1. settled' = settled /\ headSent' = headSent /\ fromDevice' = fromDevice
  BY DEF SendCommand
<1>2. SettledReqs' = SettledReqs
  BY <1>1 DEF SettledReqs
<1>3. CASE inbox' = Append(box, Answer(req, FALSE)) /\ UNCHANGED <<pending, toDevice, commandQueue>>
  <2> DEFINE a == Answer(req, FALSE)
  <2>1. a \in InboxMsg /\ a.type = "answer" /\ a.req = req
    BY Kinds DEF InboxMsg, Answer
  <2>a. inbox' = Append(box, a)
    BY <1>3
  <2> HIDE DEF a
  <2>2. ToSet(inbox') = ToSet(box) \cup {a} /\ AnsweredIn(inbox') = AnsweredIn(box) \cup {req}
    BY <1>0, <2>1, <2>a, AppendElements, AnsweredElements
  <2>3. AnswerReqs' = AnsweredIn(box) \cup {req}
    BY <2>2 DEF AnswerReqs
  <2>4. Results' \subseteq Results
    BY <1>0, <1>1, <2>1, <2>2 DEF Results
  <2>5. Coming' \subseteq Coming \cup {req} /\ req \in Coming'
    BY <1>0, <1>2, <1>3, <2>3 DEF Coming
  <2>6. Asked' \subseteq Asked \cup {req}
    BY <1>3, <2>5 DEF Asked
  <2> QED
    BY <1>1, <1>2, <1>3, <2>3, <2>4, <2>5, <2>6
<1>4. ASSUME inbox' = box
      PROVE  AnswerReqs' = AnsweredIn(box) /\ Results' \subseteq Results
  BY <1>0, <1>1, <1>4 DEF AnswerReqs, Results
<1>5. CASE JumpsQueue(req) /\ Send(req) /\ inbox' = box /\ UNCHANGED commandQueue
  <2>1. pending' = pending \cup {req} /\ req.kind = "stop"
    BY <1>5 DEF Send, JumpsQueue
  <2>2. ToSet(toDevice') = ToSet(toDevice) \cup {req}
    BY <1>5, AppendElements DEF Send, WireTypeOK
  <2>3. Coming' \subseteq Coming \cup {req} /\ req \in Coming'
    BY <1>0, <1>2, <1>4, <1>5, <2>1 DEF Coming
  <2>4. Asked' \subseteq Asked \cup {req}
    BY <2>2, <2>3 DEF Asked
  <2> QED
    BY <1>1, <1>2, <1>4, <1>5, <2>1, <2>2, <2>3, <2>4
<1>6. CASE /\ ~JumpsQueue(req) /\ commandQueue' = Append(commandQueue, req)
           /\ inbox' = box /\ UNCHANGED <<pending, toDevice>>
  <2>1. req \in QueueReq
    BY <1>6, Kinds DEF JumpsQueue
  <2>2. /\ ToSet(commandQueue') = ToSet(commandQueue) \cup {req}
        /\ commandQueue # << >> => Head(commandQueue') = Head(commandQueue)
    BY <1>6, <2>1, AppendElements DEF LinkTypeOK
  <2>3. Coming' \subseteq Coming \cup {req} /\ req \in Coming'
    BY <1>0, <1>2, <1>4, <1>6, <2>2 DEF Coming
  <2>4. Asked' \subseteq Asked \cup {req}
    BY <1>6, <2>3 DEF Asked
  <2>5. headSent => commandQueue # << >>
    BY DEF LinkTypeOK
  <2> QED
    BY <1>1, <1>2, <1>4, <1>6, <2>2, <2>3, <2>4, <2>5
<1> QED
  BY <1>3, <1>5, <1>6 DEF SendCommand

\* What is under way when a message is only read.
LEMMA KeptElements ==
  ASSUME WireTypeOK, NEW box, Box(box), LinkKept(box)
  PROVE  /\ commandQueue' = commandQueue /\ pending' = pending /\ toDevice' = toDevice
         /\ headSent' = headSent
         /\ SettledReqs' = SettledReqs /\ AnswerReqs' = AnsweredIn(box)
         /\ Asked' \subseteq Asked /\ Results' \subseteq Results
<1>0. ToSet(box) \subseteq ToSet(inbox) /\ AnsweredIn(box) \subseteq AnswerReqs
  BY BoxIsRead
<1>1. /\ inbox' = box /\ fromDevice' = fromDevice /\ toDevice' = toDevice
      /\ commandQueue' = commandQueue /\ pending' = pending /\ settled' = settled
      /\ headSent' = headSent
  BY DEF LinkKept, linkVars
<1> QED
  BY <1>0, <1>1 DEF SettledReqs, AnswerReqs, Asked, Coming, Results

\* The link loses no request that waits and makes up none.
LinkElementsKept ==
  /\ Coming \subseteq Coming' /\ Asked' \subseteq Asked /\ Results' \subseteq Results
  /\ headSent' => Head(commandQueue') \in pending' \cup SettledReqs'

\* What is left of the queue when a command is over.
LEMMA DequeueElements ==
  ASSUME LinkTypeOK, NEW req, Dequeue(req)
  PROVE  /\ ToSet(commandQueue) \subseteq ToSet(commandQueue') \cup {req}
         /\ ToSet(commandQueue') \subseteq ToSet(commandQueue)
         /\ headSent' => headSent /\ Head(commandQueue) # req /\ commandQueue' = commandQueue
<1>1. CASE /\ commandQueue # << >> /\ Head(commandQueue) = req
           /\ commandQueue' = Tail(commandQueue) /\ headSent' = FALSE
  <2>1. ToSet(commandQueue) = ToSet(Tail(commandQueue)) \cup {Head(commandQueue)}
    BY <1>1, TailElements DEF LinkTypeOK
  <2> QED
    BY <1>1, <2>1
<1>2. CASE /\ ~(commandQueue # << >> /\ Head(commandQueue) = req)
           /\ UNCHANGED <<commandQueue, headSent>>
  BY <1>2 DEF LinkTypeOK
<1> QED
  BY <1>1, <1>2 DEF Dequeue

\* An answer is added to what the user interface reads.
LEMMA AnswerElements ==
  ASSUME WireTypeOK, NEW req \in Request, NEW ok \in BOOLEAN, inbox' = Append(inbox, Answer(req, ok)),
         fromDevice' = fromDevice
  PROVE  AnswerReqs' = AnswerReqs \cup {req} /\ Results' = Results
<1> DEFINE a == Answer(req, ok)
<1>1. a \in InboxMsg /\ a.type = "answer" /\ a.req = req
  BY Kinds DEF InboxMsg, Answer
<1>2. inbox' = Append(inbox, a) /\ inbox \in Seq(InboxMsg)
  BY DEF WireTypeOK
<1> HIDE DEF a
<1>3. ToSet(inbox') = ToSet(inbox) \cup {a} /\ AnsweredIn(inbox') = AnsweredIn(inbox) \cup {req}
  BY <1>1, <1>2, AppendElements, AnsweredElements
<1> QED
  BY <1>1, <1>3 DEF AnswerReqs, Results

\* No step of the link loses a request, or makes one up: not the start of a command,
LEMMA RunCommandElements ==
  ASSUME LinkTypeOK, WireTypeOK, EveryWaitIsAnswered, RunCommand
  PROVE  LinkElementsKept
<1> DEFINE req == Head(commandQueue)
<1>1. req \in QueueReq /\ req \in Request /\ req \in ToSet(commandQueue) /\ commandQueue # << >>
  BY TailElements DEF LinkTypeOK, RunCommand, Request
<1>2. SettledReqs' = SettledReqs /\ fromDevice' = fromDevice
  BY DEF RunCommand, SettledReqs
<1>3. CASE /\ Dequeue(req) /\ inbox' = Append(inbox, Answer(req, FALSE))
           /\ UNCHANGED <<pending, toDevice, activeBlock>>
  <2>1. AnswerReqs' = AnswerReqs \cup {req} /\ Results' = Results
    BY <1>1, <1>2, <1>3, AnswerElements
  <2>2. /\ ToSet(commandQueue) \subseteq ToSet(commandQueue') \cup {req}
        /\ ToSet(commandQueue') \subseteq ToSet(commandQueue)
    BY <1>3, DequeueElements
  <2>3. ~headSent'
    BY <1>1, <1>3 DEF Dequeue
  <2> QED
    BY <1>1, <1>2, <1>3, <2>1, <2>2, <2>3 DEF LinkElementsKept, Coming, Asked
<1>4. CASE headSent' = TRUE /\ Send(req) /\ UNCHANGED <<commandQueue, inbox>>
  <2>1. pending' = pending \cup {req} /\ ToSet(toDevice') = ToSet(toDevice) \cup {req}
    BY <1>1, <1>4, AppendElements DEF Send, WireTypeOK
  <2>2. AnswerReqs' = AnswerReqs /\ Results' = Results
    BY <1>2, <1>4 DEF AnswerReqs, Results
  <2> QED
    BY <1>1, <1>2, <1>4, <2>1, <2>2 DEF LinkElementsKept, Coming, Asked
<1> QED
  BY <1>3, <1>4 DEF RunCommand

\* a line from the device,
LEMMA ReceiveElements ==
  ASSUME LinkTypeOK, WireTypeOK, EveryWaitIsAnswered, Receive
  PROVE  LinkElementsKept
<1> DEFINE m == Head(fromDevice)
<1>0. fromDevice # << >> /\ fromDevice' = Tail(fromDevice)
  BY DEF Receive
<1>1. m \in WireMsg /\ ToSet(fromDevice) = ToSet(fromDevice') \cup {m}
  BY <1>0, TailElements DEF WireTypeOK
<1>2. commandQueue' = commandQueue /\ headSent' = headSent /\ toDevice' = toDevice
  BY DEF Receive
<1>3. AnswerReqs' = AnswerReqs /\ Results' \subseteq Results
  <2>1. CASE m.type = "reply"
    <3>1. inbox' = inbox
      BY <2>1 DEF Receive
    <3> QED
      BY <1>1, <3>1 DEF AnswerReqs, Results
  <2>2. CASE m.type # "reply"
    <3>1. inbox' = Append(inbox, m)
      BY <2>2 DEF Receive
    <3>2. m \in InboxMsg /\ m.type # "answer"
      BY <1>1, <2>2, Kinds DEF WireMsg, InboxMsg
    <3> HIDE DEF m
    <3>a. inbox \in Seq(InboxMsg)
      BY DEF WireTypeOK
    <3>b. AnsweredIn(inbox') = AnsweredIn(inbox) \cup (IF m.type = "answer" THEN {m.req} ELSE {})
      BY <3>1, <3>2, <3>a, AnsweredElements
    <3>3. /\ ToSet(inbox') = ToSet(inbox) \cup {m}
          /\ AnsweredIn(inbox') = AnsweredIn(inbox)
      BY <3>1, <3>2, <3>a, <3>b, AppendElements
    <3> QED
      BY <1>1, <3>3 DEF AnswerReqs, Results
  <2> QED
    BY <2>1, <2>2
<1>4. pending' \cup SettledReqs' = pending \cup SettledReqs
  <2>1. CASE m.type = "reply" /\ m.req \in pending
    <3>1. pending' = pending \ {m.req} /\ settled' = Append(settled, m) /\ m \in ReplyMsg
      BY <1>1, <2>1, Kinds DEF Receive
    <3> HIDE DEF m
    <3>2. ToSet(settled') = ToSet(settled) \cup {m}
      BY <3>1, AppendElements DEF LinkTypeOK
    <3>3. SettledReqs' = SettledReqs \cup {m.req}
      BY <3>2 DEF SettledReqs
    <3> QED
      BY <2>1, <3>1, <3>3
  <2>2. CASE UNCHANGED <<pending, settled>>
    BY <2>2 DEF SettledReqs
  <2> QED
    BY <2>1, <2>2 DEF Receive
<1>5. headSent => Head(commandQueue) \in pending \cup SettledReqs
  BY DEF EveryWaitIsAnswered, SettledReqs
<1> QED
  BY <1>2, <1>3, <1>4, <1>5 DEF LinkElementsKept, Coming, Asked

\* the caller of a request that was answered,
LEMMA ResumeElements ==
  ASSUME LinkTypeOK, WireTypeOK, EveryWaitIsAnswered, Resume
  PROVE  LinkElementsKept
<1> DEFINE m == Head(settled)
<1>0. settled # << >> /\ settled' = Tail(settled)
  BY DEF Resume
<1>1. m \in ReplyMsg /\ ToSet(settled) = ToSet(settled') \cup {m}
  BY <1>0, TailElements DEF LinkTypeOK
<1>2. m.req \in Request /\ m.ok \in BOOLEAN
  BY <1>1 DEF ReplyMsg
<1>3. SettledReqs = SettledReqs' \cup {m.req}
  BY <1>1 DEF SettledReqs
<1>4. pending' = pending /\ toDevice' = toDevice /\ fromDevice' = fromDevice
  BY DEF Resume
<1>5. AnswerReqs' = AnswerReqs \cup {m.req} /\ Results' = Results
  BY <1>2, <1>4, AnswerElements DEF Resume
<1>6. /\ ToSet(commandQueue) \subseteq ToSet(commandQueue') \cup {m.req}
      /\ ToSet(commandQueue') \subseteq ToSet(commandQueue)
      /\ headSent' => headSent /\ Head(commandQueue) # m.req /\ commandQueue' = commandQueue
  <2>1. Dequeue(m.req)
    BY DEF Resume
  <2> HIDE DEF m
  <2> QED
    BY <2>1, DequeueElements
<1>7. headSent => Head(commandQueue) \in pending \cup SettledReqs
  BY DEF EveryWaitIsAnswered, SettledReqs
<1> HIDE DEF m
<1> QED
  BY <1>3, <1>4, <1>5, <1>6, <1>7 DEF LinkElementsKept, Coming, Asked

\* the timer of a request,
LEMMA RequestTimeoutElements ==
  ASSUME LinkTypeOK, WireTypeOK, EveryWaitIsAnswered, RequestTimeout
  PROVE  LinkElementsKept
<1>1. PICK req \in pending : /\ pending' = pending \ {req}
                             /\ Dequeue(req)
                             /\ inbox' = Append(inbox, Answer(req, FALSE))
  BY DEF RequestTimeout
<1>2. req \in Request
  BY DEF LinkTypeOK
<1>3. SettledReqs' = SettledReqs /\ toDevice' = toDevice /\ fromDevice' = fromDevice
  BY DEF RequestTimeout, SettledReqs
<1>4. AnswerReqs' = AnswerReqs \cup {req} /\ Results' = Results
  BY <1>1, <1>2, <1>3, AnswerElements
<1>5. /\ ToSet(commandQueue) \subseteq ToSet(commandQueue') \cup {req}
      /\ ToSet(commandQueue') \subseteq ToSet(commandQueue)
      /\ headSent' => headSent /\ Head(commandQueue) # req /\ commandQueue' = commandQueue
  BY <1>1, DequeueElements
<1>6. headSent => Head(commandQueue) \in pending \cup SettledReqs
  BY DEF EveryWaitIsAnswered, SettledReqs
<1>7. Coming \subseteq Coming' /\ Asked' \subseteq Asked
  BY <1>1, <1>3, <1>4, <1>5 DEF Coming, Asked
<1>8. headSent' => Head(commandQueue') \in pending' \cup SettledReqs'
  BY <1>1, <1>3, <1>5, <1>6
<1> QED
  BY <1>4, <1>7, <1>8 DEF LinkElementsKept

\* nor the end of the connection, which answers every request that waits.
LEMMA DisconnectElements ==
  ASSUME LinkTypeOK, WireTypeOK, EveryWaitIsAnswered, Disconnect
  PROVE  LinkElementsKept
<1>1. /\ ToSet(inbox') = ToSet(inbox) \cup {FaultEvent} \cup {Answer(r, FALSE) : r \in pending}
  BY DisconnectInbox DEF Disconnect
<1>2. /\ FaultEvent.type = "fault"
      /\ \A r \in pending : Answer(r, FALSE).type = "answer" /\ Answer(r, FALSE).req = r
  BY DEF FaultEvent, Answer
<1>3. AnswerReqs' = AnswerReqs \cup pending
  <2>1. ASSUME NEW r \in AnswerReqs' PROVE r \in AnswerReqs \cup pending
    <3>1. PICK m \in ToSet(inbox') : m.type = "answer" /\ m.req = r
      BY <2>1 DEF AnswerReqs, AnsweredIn
    <3>2. CASE m \in ToSet(inbox)
      BY <3>1, <3>2 DEF AnswerReqs, AnsweredIn
    <3>3. CASE m \in {Answer(q, FALSE) : q \in pending}
      BY <1>2, <3>1, <3>3
    <3> QED
      BY <1>1, <1>2, <3>1, <3>2, <3>3
  <2>2. AnswerReqs \subseteq AnswerReqs'
    BY <1>1 DEF AnswerReqs, AnsweredIn
  <2>3. ASSUME NEW r \in pending PROVE r \in AnswerReqs'
    <3>1. Answer(r, FALSE) \in ToSet(inbox')
      BY <1>1
    <3> QED
      BY <1>2, <3>1 DEF AnswerReqs, AnsweredIn
  <2> QED
    BY <2>1, <2>2, <2>3
<1>4. Results' \subseteq Results
  <2>1. ToSet(fromDevice') = {}
    BY EmptyElements DEF Disconnect
  <2> QED
    BY <1>1, <1>2, <2>1 DEF Results
<1>5. /\ pending' = {} /\ SettledReqs' = SettledReqs /\ toDevice' = toDevice /\ ~headSent'
      /\ settled = << >>
  BY DEF Disconnect, SettledReqs
<1>6. SettledReqs = {}
  BY <1>5, EmptyElements DEF SettledReqs
<1>7. headSent => commandQueue # << >> /\ Head(commandQueue) \in pending
  BY <1>6 DEF EveryWaitIsAnswered, SettledReqs, LinkTypeOK
<1>8. /\ ToSet(commandQueue) \subseteq ToSet(commandQueue') \cup pending
      /\ ToSet(commandQueue') \subseteq ToSet(commandQueue)
  <2>1. CASE headSent
    <3>1. ToSet(commandQueue) = ToSet(Tail(commandQueue)) \cup {Head(commandQueue)}
      BY <1>7, <2>1, TailElements DEF LinkTypeOK
    <3>2. commandQueue' = Tail(commandQueue)
      BY <2>1 DEF Disconnect
    <3> QED
      BY <1>7, <2>1, <3>1, <3>2
  <2>2. CASE ~headSent
    BY <2>2 DEF Disconnect
  <2> QED
    BY <2>1, <2>2
<1> QED
  BY <1>3, <1>4, <1>5, <1>8 DEF LinkElementsKept, Coming, Asked

\* So no step of the link does.
LEMMA LinkElements ==
  ASSUME DesktopInvariant, LinkSteps \/ LinkBreaks
  PROVE  LinkElementsKept
BY RunCommandElements, ReceiveElements, ResumeElements, RequestTimeoutElements, DisconnectElements
   DEF LinkSteps, LinkBreaks, DesktopInvariant, DesktopTypeOK

----------------------------------------------------------------------------
(* Waiting *)

\* The invariant on waiting, in terms of the sets.
LEMMA WaitsAreComing ==
  ASSUME EveryWaitIsAnswered
  PROVE  /\ \A e \in Epochs : Owed(e) \subseteq Coming
         /\ headSent => Head(commandQueue) \in pending \cup SettledReqs
<1>1. \A req : AnswerComes(req) => req \in Coming
  BY DEF AnswerComes, Coming, SettledReqs, AnswerReqs, AnsweredIn
<1>2. \A e \in Epochs : Owed(e) \subseteq Coming
  BY <1>1 DEF EveryWaitIsAnswered, Owed, Epochs
<1>3. headSent => Head(commandQueue) \in pending \cup SettledReqs
  BY DEF EveryWaitIsAnswered, SettledReqs
<1> QED
  BY <1>2, <1>3

\* The same, back: what a loop is owed is coming, so its wait is answered.
LEMMA ComingIsWaited ==
  ASSUME \A e \in Epochs : Owed(e)' \subseteq Coming',
         headSent' => Head(commandQueue') \in pending' \cup SettledReqs'
  PROVE  EveryWaitIsAnswered'
<1>1. \A req : req \in Coming' =>
        \/ req \in ToSet(commandQueue') \cup pending'
        \/ \E m \in ToSet(settled') : m.req = req
        \/ \E m \in ToSet(inbox') : m.type = "answer" /\ m.req = req
  BY DEF Coming, SettledReqs, AnswerReqs, AnsweredIn
<1>2. ASSUME NEW e \in 1..MaxEpoch, loop'[e].phase = "ack" PROVE AnswerComes(BlockOf(e))'
  <2>1. BlockOf(e)' \in Coming'
    BY <1>2 DEF Owed, Epochs
  <2> QED
    BY <1>1, <2>1 DEF AnswerComes
<1>3. ASSUME NEW e \in 1..MaxEpoch, loop'[e].phase = "finish"
      PROVE  AnswerComes(Req("finish", e, 0))'
  <2>1. Req("finish", e, 0) \in Coming'
    BY <1>3 DEF Owed, Epochs
  <2> QED
    BY <1>1, <2>1 DEF AnswerComes
<1>4. headSent' => Head(commandQueue') \in pending' \cup {m.req : m \in ToSet(settled')}
  BY DEF SettledReqs
<1> QED
  BY <1>2, <1>3, <1>4 DEF EveryWaitIsAnswered

\* A loop that goes on as it was is owed what it was.
LEMMA SameOwed ==
  ASSUME NEW e, loop'[e] = loop[e]
  PROVE  Owed(e)' = Owed(e)
BY DEF Owed, BlockOf

\* The loop of e goes on without an answer of its own to come; of no loop, if e is 0.
Hears(e, box) ==
  /\ LinkKept(box) /\ Unheard(e, box) /\ (e \in Epochs => Quiet(e, box))
  /\ \A d \in Epochs : Owed(d)' = IF d = e THEN {} ELSE Owed(d)

\* The loop of e sends a request; or the user does, if e is 0.
Asks(req, e, box) ==
  /\ SendCommand(req, box) /\ Unheard(e, box)
  /\ IF e = 0 THEN req \notin LoopReq
     ELSE req \in LoopReq /\ req.op = e /\ Quiet(e, box) /\ Owed(e)' = {req}
  /\ \A d \in Epochs : d # e => Owed(d)' = Owed(d)

\* What a loop of the user interface is owed after a move.
LEMMA MoveOwed ==
  ASSUME DesktopTypeOK, NEW box, Box(box), LoopMove(box)
  PROVE  \/ \E e \in Epochs \cup {0} : Hears(e, box)
         \/ \E req \in Request, e \in Epochs \cup {0} : Asks(req, e, box)
<1>0. loop \in [Epochs -> LoopState] /\ 0 \notin Epochs
  BY DEF DesktopTypeOK, LoopTypeOK, Epochs
<1>1. ASSUME NEW e \in Epochs, NEW k, loop' = [loop EXCEPT ![e] = k]
      PROVE  loop'[e] = k /\ \A d \in Epochs : d # e => loop'[d] = loop[d] /\ Owed(d)' = Owed(d)
  <2>1. loop'[e] = k /\ \A d \in Epochs : d # e => loop'[d] = loop[d]
    BY <1>0, <1>1
  <2> QED
    BY <2>1, SameOwed
<1>2. \A l \in LoopState : \A p : [l EXCEPT !.phase = p].phase = p
  BY DEF LoopState
<1>3. \A l \in LoopState : \A o : /\ [l EXCEPT !.outcome = o].phase = l.phase
                              /\ [l EXCEPT !.outcome = o].index = l.index
  BY DEF LoopState
<1>4. ASSUME NEW e \in Epochs, NEW o, loop[e].phase = "ack", loop'[e] = [loop[e] EXCEPT !.outcome = o]
      PROVE  Owed(e)' = Owed(e)
  <2>1. loop'[e].phase = "ack" /\ loop'[e].index = loop[e].index
    BY <1>0, <1>3, <1>4
  <2> QED
    BY <1>4, <2>1 DEF Owed, BlockOf
<1>5. ASSUME NEW e \in Epochs, loop'[e].phase \in {"result", "over"} PROVE Owed(e)' = {}
  BY <1>5 DEF Owed
<1>6. ASSUME \A e \in Epochs :
               \/ loop'[e] = loop[e]
               \/ Alive(e) /\ Owed(e) = {} /\ loop'[e] = [loop[e] EXCEPT !.phase = "over"]
               \/ loop[e].phase = "ack" /\ \E o \in {"failed", "aborted"} :
                                              loop'[e] = [loop[e] EXCEPT !.outcome = o]
      PROVE  \A d \in Epochs : Owed(d)' = Owed(d)
  <2> TAKE d \in Epochs
  <2>1. CASE loop'[d] = loop[d]
    BY <2>1, SameOwed
  <2>2. CASE Owed(d) = {} /\ loop'[d] = [loop[d] EXCEPT !.phase = "over"]
    BY <1>0, <1>2, <1>5, <2>2
  <2>3. CASE loop[d].phase = "ack" /\ \E o \in {"failed", "aborted"} :
                                        loop'[d] = [loop[d] EXCEPT !.outcome = o]
    BY <1>4, <2>3
  <2> QED
    BY <1>6, <2>1, <2>2, <2>3
<1>7. CASE Rests(box)
  <2>1. \A d \in Epochs : Owed(d)' = Owed(d)
    BY <1>7, SameOwed DEF Rests
  <2> QED
    BY <1>0, <1>7, <2>1 DEF Rests, Hears
<1>8. CASE BreaksOff(box)
  <2>1. \A d \in Epochs : Owed(d)' = Owed(d)
    BY <1>6, <1>8 DEF BreaksOff
  <2> QED
    BY <1>0, <1>8, <2>1 DEF BreaksOff, Hears
<1>9. CASE Stops(box)
  <2> DEFINE req == Req("stop", epoch + 1, 0)
  <2>1. \A d \in Epochs : Owed(d)' = Owed(d)
    BY <1>6, <1>9 DEF Stops
  <2>2. req \in Request /\ req \notin LoopReq
    BY <1>9, RequestTypes, Kinds DEF Stops, LoopReq
  <2>3. SendCommand(req, box) /\ Unheard(0, box)
    BY <1>9 DEF Stops
  <2> QED
    BY <2>1, <2>2, <2>3 DEF Asks
<1>10. CASE Resets(box)
  <2> DEFINE req == Req("reset", resets + 1, 0)
  <2>1. \A d \in Epochs : Owed(d)' = Owed(d)
    BY <1>10, SameOwed DEF Resets
  <2>2. req \in Request /\ req \notin LoopReq
    BY <1>10, RequestTypes, Kinds DEF Resets, LoopReq
  <2>3. SendCommand(req, box) /\ Unheard(0, box)
    BY <1>10 DEF Resets
  <2> QED
    BY <2>1, <2>2, <2>3 DEF Asks
<1>11. ASSUME NEW e \in Epochs, ToResult(e, box) \/ Leaves(e, box)
       PROVE  Hears(e, box)
  <2>1. PICK p \in {"result", "over"} : loop' = [loop EXCEPT ![e] = [loop[e] EXCEPT !.phase = p]]
    BY <1>11 DEF ToResult, Leaves
  <2>2. LinkKept(box) /\ Unheard(e, box) /\ Quiet(e, box)
    BY <1>11 DEF ToResult, Leaves
  <2>a. loop'[e] = [loop[e] EXCEPT !.phase = p] /\ \A d \in Epochs : d # e => Owed(d)' = Owed(d)
    BY <1>1, <2>1
  <2>3. Owed(e)' = {} /\ \A d \in Epochs : d # e => Owed(d)' = Owed(d)
    BY <1>0, <1>2, <1>5, <2>a
  <2> QED
    BY <2>2, <2>3 DEF Hears
<1>12. ASSUME NEW e \in Epochs, NEW o, Learns(e, o, box)
       PROVE  Hears(0, box)
  <2>1. loop' = [loop EXCEPT ![e] = [loop[e] EXCEPT !.outcome = o]] /\ loop[e].phase = "ack"
    BY <1>12 DEF Learns
  <2>2. LinkKept(box) /\ Unheard(0, box)
    BY <1>12 DEF Learns
  <2>3. \A d \in Epochs : Owed(d)' = Owed(d)
    BY <1>0, <1>1, <1>4, <2>1
  <2> QED
    BY <1>0, <2>2, <2>3 DEF Hears
<1>13. ASSUME NEW e \in Epochs, AsksFinish(e, box)
       PROVE  \E req \in Request : Asks(req, e, box)
  <2> DEFINE req == Req("finish", e, 0)
  <2>1. loop' = [loop EXCEPT ![e] = [loop[e] EXCEPT !.phase = "finish"]]
    BY <1>13 DEF AsksFinish
  <2>a. loop'[e] = [loop[e] EXCEPT !.phase = "finish"] /\ \A d \in Epochs : d # e => Owed(d)' = Owed(d)
    BY <1>1, <2>1
  <2>2. loop'[e].phase = "finish" /\ \A d \in Epochs : d # e => Owed(d)' = Owed(d)
    BY <1>0, <1>2, <2>a
  <2>3. Owed(e)' = {req}
    BY <2>2 DEF Owed
  <2>4. req \in Request /\ req \in LoopReq /\ req.op = e
    BY RequestTypes DEF LoopReq, Req
  <2>5. SendCommand(req, box) /\ Unheard(e, box) /\ Quiet(e, box)
    BY <1>13 DEF AsksFinish
  <2> QED
    BY <1>0, <2>2, <2>3, <2>4, <2>5 DEF Asks
<1>14. ASSUME NEW e \in Epochs, NEW i \in 1..(JobBlocks + ReturnBlocks), NEW ret \in BOOLEAN,
              Sends(e, i, ret, box)
       PROVE  \E req \in Request : Asks(req, e, box)
  <2> DEFINE req == Req("block", e, i)
             k == [phase |-> "ack", index |-> i, outcome |-> "open", returning |-> ret]
  <2>1. loop' = [loop EXCEPT ![e] = k]
    BY <1>14 DEF Sends
  <2>2. loop'[e] = k /\ \A d \in Epochs : d # e => Owed(d)' = Owed(d)
    BY <1>1, <2>1
  <2>3. Owed(e)' = {req}
    BY <2>2 DEF Owed, BlockOf
  <2>4. req \in Request /\ req \in LoopReq /\ req.op = e
    BY RequestTypes DEF LoopReq, Req
  <2>5. SendCommand(req, box) /\ Unheard(e, box) /\ Quiet(e, box)
    BY <1>14 DEF Sends
  <2> QED
    BY <1>0, <2>2, <2>3, <2>4, <2>5 DEF Asks
<1>15. CASE \E e \in Epochs : ToResult(e, box) \/ Leaves(e, box)
  BY <1>11, <1>15
<1>16. CASE \E e \in Epochs : \E o \in {"done", "failed"} : Learns(e, o, box)
  BY <1>12, <1>16
<1>17. CASE \E e \in Epochs : AsksFinish(e, box)
  BY <1>13, <1>17
<1>18. CASE \E e \in Epochs : \E i \in 1..(JobBlocks + ReturnBlocks), ret \in BOOLEAN : Sends(e, i, ret, box)
  BY <1>14, <1>18
<1> QED
  BY <1>7, <1>8, <1>9, <1>10, <1>15, <1>16, <1>17, <1>18 DEF LoopMove

\* What a loop is owed are its own requests.
LEMMA OwedTypes ==
  ASSUME DesktopTypeOK, NEW e \in Epochs
  PROVE  Owed(e) \subseteq LoopReq /\ \A r \in Owed(e) : r.op = e
<1>1. CASE loop[e].phase = "ack"
  <2>1. BlockOf(e) \in BlockReq
    BY <1>1, LoopTypes
  <2> QED
    BY <1>1, <2>1 DEF Owed, LoopReq, BlockOf, Req
<1>2. CASE loop[e].phase = "finish"
  <2>1. Req("finish", e, 0) \in LoopReq /\ Req("finish", e, 0).op = e
    BY RequestTypes DEF LoopReq, Req
  <2>2. Owed(e) = {Req("finish", e, 0)}
    BY <1>2 DEF Owed
  <2> QED
    BY <2>1, <2>2
<1> QED
  BY <1>1, <1>2 DEF Owed

\* Every step keeps an answer coming for every loop that waits.
LEMMA WaitingKept ==
  ASSUME DesktopInvariant, Next
  PROVE  EveryWaitIsAnswered'
<1>0. DesktopTypeOK /\ EveryWaitIsAnswered /\ LinkTypeOK /\ WireTypeOK
  BY DEF DesktopInvariant, DesktopTypeOK
<1>1. /\ \A e \in Epochs : Owed(e) \subseteq Coming
      /\ headSent => Head(commandQueue) \in pending \cup SettledReqs
  BY <1>0, WaitsAreComing
<1>2. CASE Device
  <2>1. UNCHANGED <<linkVars, taskVars, inbox>>
    BY <1>2 DEF Device, Serve, Execute, Complete, Fault, DrainResult, DrainFault, DeviceKeeps
  <2>2. Coming' = Coming /\ SettledReqs' = SettledReqs
    BY <2>1 DEF Coming, SettledReqs, AnswerReqs, linkVars
  <2>3. \A e \in Epochs : Owed(e)' = Owed(e)
    BY <2>1 DEF Owed, BlockOf, taskVars
  <2> QED
    BY <1>1, <2>1, <2>2, <2>3, ComingIsWaited DEF linkVars
<1>3. CASE LinkSteps \/ LinkBreaks
  <2>1. LinkElementsKept
    BY <1>3, LinkElements
  <2>2. loop' = loop
    BY <1>3 DEF LinkSteps, LinkBreaks, taskVars
  <2>3. \A e \in Epochs : Owed(e)' = Owed(e)
    BY <2>2 DEF Owed, BlockOf
  <2> QED
    BY <1>1, <2>1, <2>3, ComingIsWaited DEF LinkElementsKept
<1>4. CASE Loops \/ User
  <2>1. PICK box : Box(box) /\ LoopMove(box)
    BY <1>4, InterfaceMoves
  <2>2. \A e \in Epochs : Owed(e) \subseteq LoopReq /\ \A r \in Owed(e) : r.op = e
    BY <1>0, OwedTypes
  <2>3. ASSUME NEW e \in Epochs \cup {0}, Hears(e, box) PROVE EveryWaitIsAnswered'
    <3>1. /\ LinkKept(box) /\ Unheard(e, box)
          /\ \A d \in Epochs : Owed(d)' = IF d = e THEN {} ELSE Owed(d)
      BY <2>3 DEF Hears
    <3>2. /\ commandQueue' = commandQueue /\ pending' = pending /\ headSent' = headSent
          /\ SettledReqs' = SettledReqs /\ AnswerReqs' = AnsweredIn(box)
      BY <1>0, <2>1, <3>1, KeptElements
    <3>3. ASSUME NEW d \in Epochs, NEW r \in Owed(d)' PROVE r \in Coming'
      <4>1. d # e /\ r \in Owed(d)
        BY <3>1, <3>3
      <4>2. r \in Coming /\ r \in LoopReq /\ r.op # e
        BY <1>1, <2>2, <4>1
      <4> QED
        BY <3>1, <3>2, <4>2 DEF Coming, Unheard
    <3> QED
      BY <1>1, <3>2, <3>3, ComingIsWaited
  <2>4. ASSUME NEW req \in Request, NEW e \in Epochs \cup {0}, Asks(req, e, box)
        PROVE  EveryWaitIsAnswered'
    <3>1. /\ SendCommand(req, box) /\ Unheard(e, box)
          /\ e \in Epochs => Owed(e)' = {req}
          /\ \A d \in Epochs : d # e => Owed(d)' = Owed(d)
      BY <2>4 DEF Asks, Epochs
    <3>2. /\ ToSet(commandQueue) \subseteq ToSet(commandQueue') /\ pending \subseteq pending'
          /\ SettledReqs' = SettledReqs /\ AnsweredIn(box) \subseteq AnswerReqs' /\ req \in Coming'
          /\ headSent' = headSent /\ (headSent => Head(commandQueue') = Head(commandQueue))
      BY <1>0, <2>1, <3>1, SendElements
    <3>3. ASSUME NEW d \in Epochs, NEW r \in Owed(d)' PROVE r \in Coming'
      <4>1. CASE d = e
        BY <3>1, <3>2, <3>3, <4>1
      <4>2. CASE d # e
        <5>1. r \in Owed(d)
          BY <3>1, <3>3, <4>2
        <5>2. r \in Coming /\ r \in LoopReq /\ r.op # e
          BY <1>1, <2>2, <4>2, <5>1
        <5> QED
          BY <3>1, <3>2, <5>2 DEF Coming, Unheard
      <4> QED
        BY <4>1, <4>2
    <3> QED
      BY <1>1, <3>2, <3>3, ComingIsWaited
  <2> QED
    BY <1>0, <2>1, <2>3, <2>4, MoveOwed
<1> QED
  BY <1>2, <1>3, <1>4 DEF Next

\* Every step keeps a loop alive behind runningRef and printTask.running.
LEMMA RunningKeptAlive ==
  ASSUME DesktopInvariant, Next
  PROVE  RunningIsAlive'
<1>0. DesktopTypeOK /\ RunningIsAlive /\ loop \in [Epochs -> LoopState]
  BY DEF DesktopInvariant, DesktopTypeOK, LoopTypeOK
<1>1. CASE UNCHANGED taskVars
  BY <1>0, <1>1 DEF taskVars, RunningIsAlive, Alive
<1>2. CASE Loops \/ User
  <2>1. PICK box : LoopMove(box)
    BY <1>2, InterfaceMoves
  <2>2. ASSUME NEW e \in Epochs, NEW k, loop' = [loop EXCEPT ![e] = k]
        PROVE  \A d \in Epochs : loop'[d] = IF d = e THEN k ELSE loop[d]
    BY <1>0, <2>2
  <2>3. \A l \in LoopState : \A p : [l EXCEPT !.phase = p].phase = p
    BY DEF LoopState
  <2>4. \A l \in LoopState : \A o : [l EXCEPT !.outcome = o].phase = l.phase
    BY DEF LoopState
  <2>5. ASSUME RunningKept, NEW e \in Epochs, NEW k, loop' = [loop EXCEPT ![e] = k],
               e = epoch => k.phase \in {"ack", "result", "finish"}
        PROVE  RunningIsAlive'
    <3>1. ASSUME running' \/ taskRunning' PROVE epoch \in Epochs /\ Alive(epoch) /\ epoch' = epoch
      BY <1>0, <2>5, <3>1 DEF RunningKept, RunningIsAlive
    <3>2. ASSUME running' \/ taskRunning' PROVE Alive(epoch)'
      BY <2>2, <2>5, <3>1, <3>2 DEF Alive
    <3> QED
      BY <3>1, <3>2 DEF RunningIsAlive
  <2>6. CASE Rests(box) \/ Resets(box)
    BY <1>0, <2>6 DEF Rests, Resets, RunningKept, RunningIsAlive, Alive
  <2>7. CASE BreaksOff(box)
    <3>1. ASSUME running' PROVE epoch \in Epochs /\ Alive(epoch) /\ loop'[epoch].phase # "over"
      BY <1>0, <2>7, <3>1 DEF BreaksOff, RunningIsAlive
    <3>2. ASSUME running' PROVE Alive(epoch)'
      <4>1. epoch' = epoch
        BY <2>7 DEF BreaksOff
      <4>2. CASE loop'[epoch] = loop[epoch]
        BY <3>1, <3>2, <4>1, <4>2 DEF Alive
      <4>3. CASE loop'[epoch] = [loop[epoch] EXCEPT !.phase = "over"]
        BY <1>0, <2>3, <3>1, <3>2, <4>3
      <4>4. CASE loop[epoch].phase = "ack" /\ loop'[epoch] = [loop[epoch] EXCEPT !.outcome = "failed"]
        BY <1>0, <2>4, <3>1, <3>2, <4>1, <4>4 DEF Alive
      <4> QED
        BY <2>7, <3>1, <3>2, <4>2, <4>3, <4>4 DEF BreaksOff
    <3>3. ~taskRunning' /\ epoch' = epoch
      BY <2>7 DEF BreaksOff
    <3> QED
      BY <3>1, <3>2, <3>3 DEF RunningIsAlive
  <2>8. CASE Stops(box)
    BY <2>8 DEF Stops, RunningIsAlive
  <2>9. ASSUME NEW e \in Epochs, ToResult(e, box) PROVE RunningIsAlive'
    BY <1>0, <2>3, <2>5, <2>9 DEF ToResult
  <2>10. ASSUME NEW e \in Epochs, AsksFinish(e, box) PROVE RunningIsAlive'
    BY <1>0, <2>3, <2>5, <2>10 DEF AsksFinish
  <2>11. ASSUME NEW e \in Epochs, NEW o, Learns(e, o, box) PROVE RunningIsAlive'
    BY <1>0, <2>4, <2>5, <2>11 DEF Learns
  <2>12. ASSUME NEW e \in Epochs, Leaves(e, box) PROVE RunningIsAlive'
    <3>1. CASE e = epoch
      BY <2>12, <3>1 DEF Leaves, RunningIsAlive
    <3>2. CASE e # epoch
      BY <2>5, <2>12, <3>2 DEF Leaves
    <3> QED
      BY <3>1, <3>2
  <2>13. ASSUME NEW e \in Epochs, NEW i, NEW ret, Sends(e, i, ret, box) PROVE RunningIsAlive'
    <3> DEFINE k == [phase |-> "ack", index |-> i, outcome |-> "open", returning |-> ret]
    <3>1. loop' = [loop EXCEPT ![e] = k] /\ k.phase = "ack"
      BY <2>13 DEF Sends
    <3>2. CASE loop[e].phase = "none"
      <4>1. epoch' = e /\ loop'[e] = k
        BY <2>2, <2>13, <3>1, <3>2 DEF Sends
      <4> QED
        BY <3>1, <4>1 DEF RunningIsAlive, Alive
    <3>3. CASE loop[e].phase # "none"
      BY <2>5, <2>13, <3>1, <3>3 DEF Sends
    <3> QED
      BY <3>2, <3>3
  <2> QED
    BY <2>1, <2>6, <2>7, <2>8, <2>9, <2>10, <2>11, <2>12, <2>13 DEF LoopMove
<1> QED
  BY <1>1, <1>2 DEF Next, Device, Serve, Execute, Complete, Fault, DrainResult, DrainFault, DeviceKeeps,
     LinkSteps, LinkBreaks

\* What the sets of what is under way consist of.
LEMMA AskedTypes ==
  ASSUME DesktopTypeOK
  PROVE  /\ Asked \subseteq Request /\ Blocks \subseteq BlockReq /\ Results \subseteq ResultMsg
         /\ SettledReqs \subseteq Request /\ AnswerReqs \subseteq Request
         /\ \A b \in BlockReq : b.op \in Epochs /\ b.index \in Nat
<1>0. LinkTypeOK /\ WireTypeOK /\ DeviceTypeOK
  BY DEF DesktopTypeOK
<1>1. ToSet(commandQueue) \subseteq Request /\ pending \subseteq Request
  BY <1>0, ElementsAre DEF LinkTypeOK, Request
<1>2. ToSet(toDevice) \subseteq Request
  BY <1>0, ElementsAre DEF WireTypeOK
<1>3. SettledReqs \subseteq Request
  <2>1. ToSet(settled) \subseteq ReplyMsg
    BY <1>0, ElementsAre DEF LinkTypeOK
  <2> QED
    BY <2>1 DEF SettledReqs, ReplyMsg
<1>4. ToSet(inbox) \subseteq InboxMsg /\ ToSet(fromDevice) \subseteq WireMsg
  BY <1>0, ElementsAre DEF WireTypeOK
<1>5. AnswerReqs \subseteq Request
  <2> SUFFICES ASSUME NEW m \in InboxMsg, m.type = "answer" PROVE m.req \in Request
    BY <1>4 DEF AnswerReqs, AnsweredIn
  <2>1. m \in AnswerMsg
    BY Kinds
  <2> QED
    BY <2>1 DEF AnswerMsg
<1>6. Results \subseteq ResultMsg
  BY <1>4, Kinds DEF Results
<1>7. Asked \subseteq Request
  BY <1>1, <1>2, <1>3, <1>5 DEF Asked, Coming
<1>8. Blocks \subseteq BlockReq
  <2>1. NoBlock.kind = "none" /\ owner \in BlockReq \cup {NoBlock}
    BY <1>0 DEF NoBlock, Req, DeviceTypeOK
  <2> QED
    BY <1>7, <2>1, Kinds DEF Blocks
<1>9. \A b \in BlockReq : b.op \in Epochs /\ b.index \in Nat
  BY TaskAssumption DEF BlockReq
<1> QED
  BY <1>3, <1>5, <1>6, <1>7, <1>8, <1>9

----------------------------------------------------------------------------
(* What is believed done was done *)

\* The device reports the block that owns the slot.
Reported(m) == slot = "ended" /\ slot' = "free" /\ m.req = owner /\ m.status = outcome

\* What the device does to what is under way.
DeviceElementsKept ==
  /\ Asked' \subseteq Asked /\ Blocks' \subseteq Blocks
  /\ completed \subseteq completed' /\ completed' \subseteq completed \cup Blocks
  /\ \A m \in Results' : m \in Results \/ Reported(m)
  /\ slot' = "ended" /\ outcome' = "done" => owner' \in completed'
  /\ \A e \in finished' : e \in finished \/ \E r \in Asked : r.kind = "finish" /\ r.op = e

\* A request that is served adds nothing to what is under way.
LEMMA ServeElements ==
  ASSUME DesktopInvariant, Serve
  PROVE  DeviceElementsKept
<1> DEFINE req == Head(toDevice)
<1>0. /\ DesktopTypeOK /\ WireTypeOK /\ DeviceTypeOK /\ toDevice # << >> /\ inbox' = inbox
      /\ UNCHANGED linkVars /\ completed' = completed
      /\ slot = "ended" /\ outcome = "done" => owner \in completed
  BY DEF DesktopInvariant, DesktopTypeOK, Serve, Evidence, DoneIsCompleted
<1>1. toDevice' = Tail(toDevice) /\ \E ok \in BOOLEAN : Replies(req, ok)
  BY DEF Serve, ServeBlock, ServeFinish, ServeStop, ServeReset, Replies
<1>2. req \in Request /\ ToSet(toDevice) = ToSet(toDevice') \cup {req}
  BY <1>0, <1>1, TailElements DEF WireTypeOK
<1>3. Coming' = Coming
  BY <1>0 DEF Coming, SettledReqs, AnswerReqs, linkVars
<1>4. Asked' \subseteq Asked /\ req \in Asked
  BY <1>2, <1>3 DEF Asked
<1>5. Results' \subseteq Results
  <2>1. PICK ok \in BOOLEAN : fromDevice' = Append(fromDevice, Reply(req, ok)) \/ fromDevice' = fromDevice
    BY <1>1 DEF Replies
  <2>2. Reply(req, ok) \in WireMsg /\ Reply(req, ok).type = "reply"
    BY <1>2, Kinds DEF WireMsg, Reply
  <2>3. fromDevice \in Seq(WireMsg)
    BY <1>0 DEF WireTypeOK
  <2>4. ToSet(Append(fromDevice, Reply(req, ok))) = ToSet(fromDevice) \cup {Reply(req, ok)}
    BY <2>2, <2>3, AppendElements
  <2> QED
    BY <1>0, <2>1, <2>2, <2>4 DEF Results
<1>6. owner' = owner \/ owner' = req
  BY DEF Serve, ServeBlock, ServeFinish, ServeStop, ServeReset
<1>7. Blocks' \subseteq Blocks
  BY <1>4, <1>6 DEF Blocks
<1>8. slot' = "ended" /\ outcome' = "done" => slot = "ended" /\ outcome = "done" /\ owner' = owner
  <2>1. CASE ServeBlock(req)
    BY <1>0, <2>1 DEF ServeBlock, Accept, lifecycleVars
  <2>2. CASE ServeFinish(req)
    BY <2>2 DEF ServeFinish, lifecycleVars
  <2>3. CASE ServeStop(req)
    BY <2>3 DEF ServeStop, EndsFailed, lifecycleVars
  <2>4. CASE ServeReset(req)
    BY <2>4 DEF ServeReset, Drop, lifecycleVars
  <2> QED
    BY <2>1, <2>2, <2>3, <2>4 DEF Serve
<1>9. \A e \in finished' : e \in finished \/ (req.kind = "finish" /\ req.op = e)
  <2>1. CASE req.kind = "finish"
    BY <2>1 DEF Serve, ServeFinish
  <2>2. CASE req.kind # "finish"
    BY <2>2 DEF Serve, ServeBlock, ServeStop, ServeReset
  <2> QED
    BY <2>1, <2>2
<1> QED
  BY <1>0, <1>4, <1>5, <1>7, <1>8, <1>9 DEF DeviceElementsKept

\* Nor does another step of the device; what it completes or reports owned the slot.
LEMMA DeviceStepElements ==
  ASSUME DesktopInvariant, Execute \/ Complete \/ Fault \/ DrainResult \/ DrainFault
  PROVE  DeviceElementsKept
<1>0. /\ DesktopTypeOK /\ WireTypeOK /\ DeviceTypeOK
      /\ slot = "ended" /\ outcome = "done" => owner \in completed
  BY DEF DesktopInvariant, DesktopTypeOK, Evidence, DoneIsCompleted
<1>1. UNCHANGED <<linkVars, toDevice, inbox, owner, finished>>
  BY DEF Execute, Complete, Fault, DrainResult, DrainFault, DeviceKeeps
<1>2. Asked' = Asked
  BY <1>1 DEF Asked, Coming, SettledReqs, AnswerReqs, linkVars
<1>3. Blocks' = Blocks
  BY <1>1, <1>2 DEF Blocks
<1>4. ASSUME NEW m \in Results'
      PROVE  m \in Results \/ Reported(m)
  <2>1. CASE fromDevice' = fromDevice
    BY <1>1, <1>4, <2>1 DEF Results
  <2>2. CASE DrainFault /\ fromDevice' = Append(fromDevice, FaultEvent)
    <3>1. FaultEvent \in WireMsg /\ FaultEvent.type = "fault"
      BY DEF WireMsg, FaultEvent
    <3>2. fromDevice \in Seq(WireMsg)
      BY <1>0 DEF WireTypeOK
    <3>3. ToSet(fromDevice') = ToSet(fromDevice) \cup {FaultEvent}
      BY <2>2, <3>1, <3>2, AppendElements
    <3> QED
      BY <1>1, <1>4, <3>1, <3>3 DEF Results
  <2>3. CASE DrainResult /\ fromDevice' = Append(fromDevice, Result(owner, outcome))
    <3> DEFINE res == Result(owner, outcome)
    <3>1. slot = "ended" /\ slot' = "free" /\ owner \in BlockReq /\ outcome \in Outcome
      BY <1>0, <2>3 DEF DrainResult, DeviceTypeOK, Report, Discard
    <3>2. res \in WireMsg /\ res.req = owner /\ res.status = outcome
      BY <3>1 DEF Result, ResultMsg, WireMsg
    <3>3. fromDevice \in Seq(WireMsg) /\ fromDevice' = Append(fromDevice, res)
      BY <1>0, <2>3 DEF WireTypeOK
    <3> HIDE DEF res
    <3>4. ToSet(fromDevice') = ToSet(fromDevice) \cup {res}
      BY <3>2, <3>3, AppendElements
    <3> QED
      BY <1>1, <1>4, <3>1, <3>2, <3>4 DEF Results, Reported
  <2> QED
    BY <2>1, <2>2, <2>3 DEF Execute, Complete, Fault, DrainResult, DrainFault
<1>5. CASE Complete
  <2>1. owner \in Blocks
    BY <1>0, <1>5 DEF Complete, DeviceTypeOK, Blocks, BlockReq
  <2>2. completed' = completed \cup {owner}
    BY <1>5 DEF Complete
  <2> QED
    BY <1>1, <1>2, <1>3, <1>4, <2>1, <2>2 DEF DeviceElementsKept
<1>6. CASE Execute \/ Fault \/ DrainResult \/ DrainFault
  <2>1. completed' = completed
    BY <1>6 DEF Execute, Fault, DrainResult, DrainFault
  <2>2. slot' = "ended" /\ outcome' = "done" => slot = "ended" /\ outcome = "done"
    BY <1>6 DEF Execute, Fault, DrainResult, DrainFault, Start, EndsFailed, Report, Discard, lifecycleVars
  <2> QED
    BY <1>0, <1>1, <1>2, <1>3, <1>4, <2>1, <2>2 DEF DeviceElementsKept
<1> QED
  BY <1>5, <1>6

\* Order is never lost: blocks are not taken back.
LEMMA OrderStays ==
  ASSUME completed \subseteq completed', NEW b, Ordered(b)
  PROVE  Ordered(b)'
<1>1. Predecessors(b) \cap completed \subseteq Predecessors(b) \cap completed'
  OBVIOUS
<1>2. Ordered(b)' <=> (b.index = 1 \/ Predecessors(b) \cap completed' # {})
  BY DEF Ordered, Predecessors
<1> QED
  BY <1>1, <1>2 DEF Ordered

\* The evidence is kept by the device,
LEMMA DeviceEvidence ==
  ASSUME DesktopInvariant, Device
  PROVE  Evidence'
<1>0. /\ DesktopTypeOK /\ DeviceTypeOK /\ Evidence
      /\ DoneIsCompleted /\ FinishIsEarned /\ FinishedMeansDone /\ PositionIsReached
      /\ BlocksAreOrdered /\ LoopIsAhead
  BY DEF DesktopInvariant, DesktopTypeOK, Evidence
<1>1. DeviceElementsKept
  BY ServeElements, DeviceStepElements DEF Device
<1>2. loop' = loop /\ position' = position
  BY DEF Device, Serve, Execute, Complete, Fault, DrainResult, DrainFault, DeviceKeeps, taskVars
<1>3. \A e : TaskDone(e) => TaskDone(e)'
  BY <1>1 DEF TaskDone, DeviceElementsKept
<1>4. slot = "ended" => owner \in Blocks
  BY <1>0 DEF DeviceTypeOK, Blocks, BlockReq
<1>5. DoneIsCompleted'
  <2>1. \A m \in Results' : m.status = "done" => m.req \in completed'
    BY <1>0, <1>1 DEF DeviceElementsKept, DoneIsCompleted, Reported
  <2>2. \A e \in Epochs : loop'[e].outcome = "done" => BlockOf(e)' \in completed'
    BY <1>0, <1>1, <1>2 DEF DeviceElementsKept, DoneIsCompleted, BlockOf
  <2> QED
    BY <1>1, <2>1, <2>2 DEF DoneIsCompleted, DeviceElementsKept
<1>6. FinishIsEarned'
  BY <1>0, <1>1, <1>2, <1>3 DEF FinishIsEarned, DeviceElementsKept
<1>7. FinishedMeansDone'
  <2>1. ASSUME NEW e \in finished' PROVE TaskDone(e)'
    <3>1. CASE e \in finished
      BY <1>0, <1>3, <3>1 DEF FinishedMeansDone, TaskDone
    <3>2. CASE e \notin finished
      <4>1. PICK r \in Asked : r.kind = "finish" /\ r.op = e
        BY <1>1, <2>1, <3>2 DEF DeviceElementsKept
      <4> QED
        BY <1>0, <1>3, <4>1 DEF FinishIsEarned
    <3> QED
      BY <3>1, <3>2
  <2> QED
    BY <2>1 DEF FinishedMeansDone, TaskDone
<1>8. PositionIsReached'
  BY <1>0, <1>1, <1>2 DEF PositionIsReached, DeviceElementsKept
<1>9. BlocksAreOrdered'
  BY <1>0, <1>1, OrderStays DEF BlocksAreOrdered, DeviceElementsKept
<1>10. LoopIsAhead'
  <2>1. \A b \in Blocks' \cup completed' : b.index <= loop[b.op].index
    BY <1>0, <1>1 DEF LoopIsAhead, DeviceElementsKept
  <2>2. \A m \in Results' : m.req.index <= loop[m.req.op].index
    BY <1>0, <1>1, <1>4 DEF LoopIsAhead, DeviceElementsKept, Reported
  <2> QED
    BY <1>2, <2>1, <2>2 DEF LoopIsAhead
<1> QED
  BY <1>5, <1>6, <1>7, <1>8, <1>9, <1>10 DEF Evidence

\* by the link, which only moves messages on,
LEMMA LinkEvidence ==
  ASSUME DesktopInvariant, LinkSteps \/ LinkBreaks
  PROVE  Evidence'
<1>0. /\ DoneIsCompleted /\ FinishIsEarned /\ FinishedMeansDone /\ PositionIsReached
      /\ BlocksAreOrdered /\ LoopIsAhead
  BY DEF DesktopInvariant, Evidence
<1>1. Asked' \subseteq Asked /\ Results' \subseteq Results
  BY LinkElements DEF LinkElementsKept
<1>2. UNCHANGED <<loop, position, slot, outcome, owner, completed, finished>>
  BY DEF LinkSteps, LinkBreaks, taskVars, deviceVars, lifecycleVars
<1>3. Blocks' \subseteq Blocks
  BY <1>1, <1>2 DEF Blocks
<1>4. DoneIsCompleted'
  BY <1>0, <1>1, <1>2 DEF DoneIsCompleted, BlockOf
<1>5. FinishIsEarned'
  BY <1>0, <1>1, <1>2 DEF FinishIsEarned, TaskDone
<1>6. FinishedMeansDone' /\ PositionIsReached'
  BY <1>0, <1>2 DEF FinishedMeansDone, PositionIsReached
<1>7. BlocksAreOrdered'
  BY <1>0, <1>2, <1>3, OrderStays DEF BlocksAreOrdered
<1>8. LoopIsAhead'
  BY <1>0, <1>1, <1>2, <1>3 DEF LoopIsAhead
<1> QED
  BY <1>4, <1>5, <1>6, <1>7, <1>8 DEF Evidence

\* What a move of the user interface needs for what it sends and believes.
LEMMA MoveClaims ==
  ASSUME DesktopInvariant, NEW box, Box(box), LoopMove(box)
  PROVE  /\ \A d \in Epochs :
              /\ loop'[d].index >= loop[d].index
              /\ loop'[d].outcome = "done" =>
                   /\ loop'[d].index = loop[d].index
                   /\ loop[d].outcome = "done" \/ BlockOf(d) \in completed
              /\ loop'[d].phase = "finish" => loop[d].phase = "finish" \/ TaskDone(d)
         /\ \E N \in SUBSET Request :
              /\ Asked' \subseteq Asked \cup N
              /\ \A r \in N : /\ r.kind = "finish" => TaskDone(r.op)
                              /\ r.kind = "block" => Ordered(r) /\ r.index <= loop'[r.op].index
         /\ Results' \subseteq Results /\ PositionFound
<1>0. /\ DesktopTypeOK /\ LinkTypeOK /\ WireTypeOK /\ loop \in [Epochs -> LoopState]
  BY DEF DesktopInvariant, DesktopTypeOK, LoopTypeOK
<1> DEFINE Claim(d) ==
             /\ loop'[d].index >= loop[d].index
             /\ loop'[d].outcome = "done" =>
                  /\ loop'[d].index = loop[d].index
                  /\ loop[d].outcome = "done" \/ BlockOf(d) \in completed
             /\ loop'[d].phase = "finish" => loop[d].phase = "finish" \/ TaskDone(d)
           Sent == \E N \in SUBSET Request :
              /\ Asked' \subseteq Asked \cup N
              /\ \A r \in N : /\ r.kind = "finish" => TaskDone(r.op)
                              /\ r.kind = "block" => Ordered(r) /\ r.index <= loop'[r.op].index
           Rest == Results' \subseteq Results /\ PositionFound
<1>1. \A d \in Epochs : loop[d].index \in Nat
  BY <1>0, LoopTypes, TaskAssumption
<1>2. ASSUME NEW d \in Epochs, loop'[d] = loop[d] PROVE Claim(d)
  BY <1>1, <1>2
<1>3. \A l \in LoopState : \A p : LET k == [l EXCEPT !.phase = p]
                              IN k.phase = p /\ k.index = l.index /\ k.outcome = l.outcome
  BY DEF LoopState
<1>4. \A l \in LoopState : \A o : LET k == [l EXCEPT !.outcome = o]
                              IN k.phase = l.phase /\ k.index = l.index /\ k.outcome = o
  BY DEF LoopState
<1>5. ASSUME NEW d \in Epochs, NEW p, loop'[d] = [loop[d] EXCEPT !.phase = p],
             p = "finish" => TaskDone(d)
      PROVE  Claim(d)
  <2>1. loop'[d].phase = p /\ loop'[d].index = loop[d].index /\ loop'[d].outcome = loop[d].outcome
    BY <1>0, <1>3, <1>5
  <2> QED
    BY <1>1, <1>5, <2>1
<1>6. ASSUME NEW d \in Epochs, NEW o, loop'[d] = [loop[d] EXCEPT !.outcome = o],
             o = "done" => BlockOf(d) \in completed
      PROVE  Claim(d)
  <2>1. loop'[d].phase = loop[d].phase /\ loop'[d].index = loop[d].index /\ loop'[d].outcome = o
    BY <1>0, <1>4, <1>6
  <2> QED
    BY <1>1, <1>6, <2>1
<1>7. ASSUME NEW e \in Epochs, NEW k, loop' = [loop EXCEPT ![e] = k]
      PROVE  loop'[e] = k /\ \A d \in Epochs : d # e => Claim(d)
  <2>1. loop'[e] = k /\ \A d \in Epochs : d # e => loop'[d] = loop[d]
    BY <1>0, <1>7
  <2> QED
    BY <1>2, <2>1
<1>8. ASSUME LinkKept(box) PROVE Sent /\ Results' \subseteq Results
  <2> DEFINE N == {}
  <2>1. Asked' \subseteq Asked \cup N /\ Results' \subseteq Results
    BY <1>0, <1>8, KeptElements
  <2>2. N \in SUBSET Request /\ \A r \in N : FALSE
    OBVIOUS
  <2> HIDE DEF N
  <2> QED
    BY <2>1, <2>2
<1>9. ASSUME NEW req \in Request, SendCommand(req, box),
             req.kind = "finish" => TaskDone(req.op),
             req.kind = "block" => Ordered(req) /\ req.index <= loop'[req.op].index
      PROVE  Sent /\ Results' \subseteq Results
  <2>1. Asked' \subseteq Asked \cup {req} /\ Results' \subseteq Results
    BY <1>0, <1>9, SendElements
  <2> DEFINE N == {req}
  <2>2. Asked' \subseteq Asked \cup N
    BY <2>1
  <2>3. N \in SUBSET Request /\ \A r \in N : r = req
    OBVIOUS
  <2> HIDE DEF N
  <2>4. \A r \in N : /\ r.kind = "finish" => TaskDone(r.op)
                     /\ r.kind = "block" => Ordered(r) /\ r.index <= loop'[r.op].index
    BY <1>9, <2>3
  <2> QED
    BY <2>1, <2>2, <2>3, <2>4
<1> HIDE DEF Sent
<1>10. CASE Rests(box)
  <2>1. \A d \in Epochs : Claim(d)
    BY <1>2, <1>10 DEF Rests
  <2> HIDE DEF Claim
  <2>2. Sent /\ Rest
    BY <1>8, <1>10 DEF Rests, PositionFound
  <2> QED
    BY <2>1, <2>2 DEF Claim, Sent
<1>11. CASE BreaksOff(box)
  <2>1. ASSUME NEW d \in Epochs PROVE Claim(d)
    <3> HIDE DEF Claim
    <3> QED
      BY <1>2, <1>5, <1>6, <1>11 DEF BreaksOff
  <2> HIDE DEF Claim
  <2>2. Sent /\ Rest
    BY <1>8, <1>11 DEF BreaksOff, PositionFound
  <2> QED
    BY <2>1, <2>2 DEF Claim, Sent
<1>12. CASE Stops(box)
  <2>1. ASSUME NEW d \in Epochs PROVE Claim(d)
    <3> HIDE DEF Claim
    <3> QED
      BY <1>2, <1>5, <1>6, <1>12 DEF Stops
  <2> HIDE DEF Claim
  <2> DEFINE req == Req("stop", epoch + 1, 0)
  <2>2. req \in Request /\ req.kind = "stop"
    BY <1>12, RequestTypes, Kinds DEF Stops
  <2>3. SendCommand(req, box) /\ PositionFound
    BY <1>12 DEF Stops, PositionFound
  <2> HIDE DEF req
  <2>4. Sent /\ Rest
    BY <1>9, <2>2, <2>3
  <2> QED
    BY <2>1, <2>4 DEF Claim, Sent
<1>13. CASE Resets(box)
  <2>1. \A d \in Epochs : Claim(d)
    BY <1>2, <1>13 DEF Resets
  <2> HIDE DEF Claim
  <2> DEFINE req == Req("reset", resets + 1, 0)
  <2>2. req \in Request /\ req.kind = "reset"
    BY <1>13, RequestTypes, Kinds DEF Resets
  <2>3. SendCommand(req, box) /\ PositionFound
    BY <1>13 DEF Resets, PositionFound
  <2> HIDE DEF req
  <2>4. Sent /\ Rest
    BY <1>9, <2>2, <2>3
  <2> QED
    BY <2>1, <2>4 DEF Claim, Sent
<1>14. ASSUME NEW e \in Epochs, ToResult(e, box) \/ Leaves(e, box)
       PROVE  (\A d \in Epochs : Claim(d)) /\ Sent /\ Rest
  <2>1. PICK p \in {"result", "over"} : loop' = [loop EXCEPT ![e] = [loop[e] EXCEPT !.phase = p]]
    BY <1>14 DEF ToResult, Leaves
  <2>2. Sent /\ Rest
    BY <1>8, <1>14 DEF ToResult, Leaves, PositionFound
  <2> HIDE DEF Claim
  <2>3. loop'[e] = [loop[e] EXCEPT !.phase = p] /\ \A d \in Epochs : d # e => Claim(d)
    BY <1>7, <2>1
  <2>4. Claim(e)
    BY <1>5, <2>3
  <2> QED
    BY <2>2, <2>3, <2>4
<1>15. ASSUME NEW e \in Epochs, NEW o \in {"done", "failed"}, Learns(e, o, box)
       PROVE  (\A d \in Epochs : Claim(d)) /\ Sent /\ Rest
  <2>1. /\ loop' = [loop EXCEPT ![e] = [loop[e] EXCEPT !.outcome = o]]
        /\ o = "done" => BlockOf(e) \in completed
    BY <1>15 DEF Learns
  <2>2. Sent /\ Rest
    BY <1>8, <1>15 DEF Learns, PositionFound
  <2> HIDE DEF Claim
  <2>3. loop'[e] = [loop[e] EXCEPT !.outcome = o] /\ \A d \in Epochs : d # e => Claim(d)
    BY <1>7, <2>1
  <2>4. Claim(e)
    BY <1>6, <2>1, <2>3
  <2> QED
    BY <2>2, <2>3, <2>4
<1>16. ASSUME NEW e \in Epochs, AsksFinish(e, box)
       PROVE  (\A d \in Epochs : Claim(d)) /\ Sent /\ Rest
  <2> DEFINE req == Req("finish", e, 0)
  <2>1. loop' = [loop EXCEPT ![e] = [loop[e] EXCEPT !.phase = "finish"]] /\ TaskDone(e)
    BY <1>16 DEF AsksFinish
  <2>2. req \in Request /\ req.kind = "finish" /\ req.op = e
    BY RequestTypes DEF Req
  <2>3. SendCommand(req, box) /\ PositionFound
    BY <1>16 DEF AsksFinish
  <2> HIDE DEF req, Claim
  <2>4. Sent /\ Rest
    BY <1>9, <2>1, <2>2, <2>3
  <2>5. loop'[e] = [loop[e] EXCEPT !.phase = "finish"] /\ \A d \in Epochs : d # e => Claim(d)
    BY <1>7, <2>1
  <2>6. Claim(e)
    BY <1>5, <2>1, <2>5
  <2> QED
    BY <2>4, <2>5, <2>6
<1>17. ASSUME NEW e \in Epochs, NEW i \in 1..(JobBlocks + ReturnBlocks), NEW ret \in BOOLEAN,
              Sends(e, i, ret, box)
       PROVE  (\A d \in Epochs : Claim(d)) /\ Sent /\ Rest
  <2> DEFINE req == Req("block", e, i)
             k == [phase |-> "ack", index |-> i, outcome |-> "open", returning |-> ret]
  <2>1. loop' = [loop EXCEPT ![e] = k] /\ i > loop[e].index /\ Ordered(req)
    BY <1>17 DEF Sends
  <2>2. req \in Request /\ req.kind = "block" /\ req.op = e /\ req.index = i
    BY RequestTypes DEF Req
  <2>3. SendCommand(req, box) /\ PositionFound
    BY <1>17 DEF Sends
  <2>4. loop'[e] = k /\ \A d \in Epochs : d # e => Claim(d)
    BY <1>7, <2>1
  <2>5. Claim(e) /\ i <= loop'[e].index
    BY <1>1, <2>1, <2>4, TaskAssumption
  <2> HIDE DEF req, Claim
  <2>6. Sent /\ Rest
    BY <1>9, <2>1, <2>2, <2>3, <2>5
  <2> QED
    BY <2>4, <2>5, <2>6
<1>18. (\A d \in Epochs : Claim(d)) /\ Sent /\ Rest
  <2> HIDE DEF Claim, Rest
  <2>1. CASE \E e \in Epochs : ToResult(e, box) \/ Leaves(e, box)
    BY <1>14, <2>1
  <2>2. CASE \E e \in Epochs : \E o \in {"done", "failed"} : Learns(e, o, box)
    BY <1>15, <2>2
  <2>3. CASE \E e \in Epochs : AsksFinish(e, box)
    BY <1>16, <2>3
  <2>4. CASE \E e \in Epochs : \E i \in 1..(JobBlocks + ReturnBlocks), ret \in BOOLEAN : Sends(e, i, ret, box)
    BY <1>17, <2>4
  <2>5. CASE Rests(box) \/ BreaksOff(box) \/ Stops(box) \/ Resets(box)
    BY <1>10, <1>11, <1>12, <1>13, <2>5 DEF Claim, Sent, Rest
  <2> QED
    BY <2>1, <2>2, <2>3, <2>4, <2>5 DEF LoopMove
<1> QED
  BY <1>18 DEF Sent

\* and by the user interface, which sends no block before its turn.
LEMMA InterfaceEvidence ==
  ASSUME DesktopInvariant, Loops \/ User
  PROVE  Evidence'
<1>0. /\ DoneIsCompleted /\ FinishIsEarned /\ FinishedMeansDone /\ PositionIsReached
      /\ BlocksAreOrdered /\ LoopIsAhead /\ DesktopTypeOK /\ DesktopTypeOK'
  BY TypesKept DEF DesktopInvariant, Evidence, Next
<1>1. PICK box : Box(box) /\ LoopMove(box)
  BY InterfaceMoves
<1>2. UNCHANGED <<slot, outcome, owner, completed, finished>>
  BY InterfaceMoves DEF deviceVars, lifecycleVars
<1>3. PICK N \in SUBSET Request :
              /\ Asked' \subseteq Asked \cup N
              /\ \A r \in N : /\ r.kind = "finish" => TaskDone(r.op)
                              /\ r.kind = "block" => Ordered(r) /\ r.index <= loop'[r.op].index
  BY <1>1, MoveClaims
<1>4. /\ \A d \in Epochs :
           /\ loop'[d].index >= loop[d].index
           /\ loop'[d].outcome = "done" =>
                /\ loop'[d].index = loop[d].index
                /\ loop[d].outcome = "done" \/ BlockOf(d) \in completed
           /\ loop'[d].phase = "finish" => loop[d].phase = "finish" \/ TaskDone(d)
      /\ Results' \subseteq Results /\ PositionFound
  BY <1>1, MoveClaims
<1>5. DoneIsCompleted'
  <2>1. ASSUME NEW d \in Epochs, loop'[d].outcome = "done" PROVE BlockOf(d)' \in completed'
    <3>1. BlockOf(d)' = BlockOf(d)
      BY <1>4, <2>1 DEF BlockOf
    <3> QED
      BY <1>0, <1>2, <1>4, <2>1, <3>1 DEF DoneIsCompleted
  <2> QED
    BY <1>0, <1>2, <1>4, <2>1 DEF DoneIsCompleted
<1>6. FinishIsEarned'
  <2>1. \A e : TaskDone(e)' <=> TaskDone(e)
    BY <1>2 DEF TaskDone
  <2> QED
    BY <1>0, <1>3, <1>4, <2>1 DEF FinishIsEarned
<1>7. FinishedMeansDone' /\ PositionIsReached'
  BY <1>0, <1>2, <1>4 DEF FinishedMeansDone, PositionIsReached, PositionFound
<1>8. \A b \in Blocks' : b \in Blocks \/ b \in N
  BY <1>2, <1>3 DEF Blocks
<1>9. BlocksAreOrdered'
  <2>1. ASSUME NEW b \in Blocks' PROVE Ordered(b)
    BY <1>0, <1>3, <1>8, <2>1 DEF BlocksAreOrdered, Blocks
  <2> QED
    BY <1>2, <2>1, OrderStays DEF BlocksAreOrdered
<1>10. LoopIsAhead'
  <2>0. \A d \in Epochs : loop[d].index \in Nat /\ loop'[d].index \in Nat
    <3>1. \A l \in LoopState : l.index \in Nat
      BY TaskAssumption DEF LoopState
    <3> QED
      BY <1>0, <3>1 DEF DesktopTypeOK, LoopTypeOK
  <2>1. ASSUME NEW b \in BlockReq, b.index <= loop[b.op].index
        PROVE  b.index <= loop'[b.op].index
    <3>1. b.op \in Epochs /\ b.index \in Nat
      BY <1>0, AskedTypes
    <3> QED
      BY <1>4, <2>0, <2>1, <3>1
  <2>2. Blocks \subseteq BlockReq /\ completed \subseteq BlockReq /\ \A m \in Results : m.req \in BlockReq
    BY <1>0, AskedTypes DEF DesktopTypeOK, DeviceTypeOK, ResultMsg
  <2>3. ASSUME NEW b \in Blocks' \cup completed' PROVE b.index <= loop'[b.op].index
    <3>1. CASE b \in Blocks \cup completed
      BY <1>0, <2>1, <2>2, <3>1 DEF LoopIsAhead
    <3>2. CASE b \in N /\ b.kind = "block"
      BY <1>3, <3>2
    <3> QED
      BY <1>2, <1>8, <2>3, <3>1, <3>2 DEF Blocks
  <2>4. ASSUME NEW m \in Results' PROVE m.req.index <= loop'[m.req.op].index
    BY <1>0, <1>4, <2>1, <2>2, <2>4 DEF LoopIsAhead
  <2> QED
    BY <2>3, <2>4 DEF LoopIsAhead
<1> QED
  BY <1>5, <1>6, <1>7, <1>9, <1>10 DEF Evidence

\* Every step keeps the evidence.
LEMMA EvidenceKept ==
  ASSUME DesktopInvariant, Next
  PROVE  Evidence'
BY DeviceEvidence, LinkEvidence, InterfaceEvidence DEF Next

----------------------------------------------------------------------------
(* Blocks that wait to be served *)

\* A sequence holds each element of S once after an append of a new one, and after its
\* head was taken, which is then gone.
LEMMA OnceOf ==
  ASSUME NEW S
  PROVE  /\ \A T, s, x : s \in Seq(T) /\ x \in T /\ Once(s, S) /\ (x \in S => x \notin ToSet(s))
              => Once(Append(s, x), S)
         /\ \A T, s : s \in Seq(T) /\ s # << >> /\ Once(s, S)
              => Once(Tail(s), S) /\ (Head(s) \in S => Head(s) \notin ToSet(Tail(s)))
<1>1. ASSUME NEW T, NEW s \in Seq(T), NEW x \in T, Once(s, S), x \in S => x \notin ToSet(s)
      PROVE  Once(Append(s, x), S)
  <2> DEFINE a == Append(s, x)
  <2>1. /\ Len(a) = Len(s) + 1 /\ Len(s) \in Nat
        /\ \A i \in 1..Len(s) : a[i] = s[i]
        /\ a[Len(s) + 1] = x
    BY AppendProperties, LenProperties
  <2> HIDE DEF a
  <2>2. SUFFICES ASSUME NEW i \in 1..Len(a), NEW j \in 1..Len(a), a[i] \in S, a[i] = a[j]
                 PROVE  i = j
    BY DEF Once, a
  <2>3. CASE i \in 1..Len(s) /\ j \in 1..Len(s)
    <3>1. s[i] \in S /\ s[i] = s[j]
      BY <2>1, <2>2, <2>3
    <3> QED
      BY <1>1, <2>3, <3>1 DEF Once
  <2>4. CASE i \in 1..Len(s) /\ j = Len(s) + 1
    <3>1. s[i] = x /\ x \in S
      BY <2>1, <2>2, <2>4
    <3>2. s[i] \in ToSet(s)
      BY <2>4, ElementsAre
    <3> QED
      BY <1>1, <3>1, <3>2
  <2>5. CASE i = Len(s) + 1 /\ j \in 1..Len(s)
    <3>1. s[j] = x /\ x \in S
      BY <2>1, <2>2, <2>5
    <3>2. s[j] \in ToSet(s)
      BY <2>5, ElementsAre
    <3> QED
      BY <1>1, <3>1, <3>2
  <2> QED
    BY <2>1, <2>3, <2>4, <2>5
<1>2. ASSUME NEW T, NEW s \in Seq(T), s # << >>, Once(s, S)
      PROVE  Once(Tail(s), S) /\ (Head(s) \in S => Head(s) \notin ToSet(Tail(s)))
  <2> DEFINE u == Tail(s)
  <2>1. /\ u \in Seq(T) /\ Len(u) = Len(s) - 1 /\ Len(s) \in Nat \ {0}
        /\ Head(s) = s[1] /\ \A i \in 1..(Len(s) - 1) : u[i] = s[i + 1]
    BY <1>2, TailElements
  <2> HIDE DEF u
  <2>2. ASSUME NEW i \in 1..Len(u), NEW j \in 1..Len(u), u[i] \in S, u[i] = u[j]
        PROVE  i = j
    <3>1. i + 1 \in 1..Len(s) /\ j + 1 \in 1..Len(s) /\ s[i + 1] \in S /\ s[i + 1] = s[j + 1]
      BY <2>1, <2>2
    <3>2. i + 1 = j + 1
      BY <1>2, <3>1 DEF Once
    <3> QED
      BY <3>2
  <2>3. ASSUME s[1] \in S, s[1] \in ToSet(u) PROVE FALSE
    <3>1. PICK i \in 1..Len(u) : s[1] = u[i]
      BY <2>1, <2>3, ElementsAre
    <3>2. i + 1 \in 1..Len(s) /\ 1 \in 1..Len(s) /\ s[1] = s[i + 1]
      BY <2>1, <3>1
    <3>3. i + 1 = 1
      BY <1>2, <2>3, <3>2 DEF Once
    <3> QED
      BY <3>3
  <2>4. Once(u, S)
    BY <2>2 DEF Once
  <2>5. s[1] \in S => s[1] \notin ToSet(u)
    BY <2>3
  <2> QED
    BY <2>1, <2>4, <2>5 DEF u
<1> QED
  BY <1>1, <1>2

\* What is not sent yet is in the command queue.
LEMMA UnsentElements ==
  ASSUME LinkTypeOK
  PROVE  /\ Unsent \in Seq(QueueReq) /\ ToSet(Unsent) \subseteq ToSet(commandQueue)
         /\ ToSet(Unsent) \subseteq QueueReq
<1>1. Unsent \in Seq(QueueReq) /\ ToSet(Unsent) \subseteq ToSet(commandQueue)
  <2>1. CASE headSent
    BY <2>1, TailElements DEF LinkTypeOK, Unsent
  <2>2. CASE ~headSent
    BY <2>2 DEF LinkTypeOK, Unsent
  <2> QED
    BY <2>1, <2>2
<1> QED
  BY <1>1, ElementsAre

\* A command leaves the queue or is sent, one after the other.
LEMMA LinkServes ==
  ASSUME LinkTypeOK, LinkSteps \/ LinkBreaks
  PROVE  \/ toDevice' = toDevice /\ Unsent' = Unsent
         \/ toDevice' = toDevice /\ Unsent # << >> /\ Unsent' = Tail(Unsent)
         \/ Unsent # << >> /\ Unsent' = Tail(Unsent) /\ toDevice' = Append(toDevice, Head(Unsent))
<1>1. ASSUME NEW req, Dequeue(req)
      PROVE  Unsent' = Unsent \/ (Unsent # << >> /\ Unsent' = Tail(Unsent))
  <2>1. CASE UNCHANGED <<commandQueue, headSent>>
    BY <2>1 DEF Unsent
  <2>2. CASE commandQueue # << >> /\ commandQueue' = Tail(commandQueue) /\ headSent' = FALSE
    BY <2>2 DEF Unsent
  <2> QED
    BY <1>1, <2>1, <2>2 DEF Dequeue
<1>2. CASE RunCommand
  <2>1. CASE Dequeue(Head(commandQueue)) /\ toDevice' = toDevice
    BY <1>1, <2>1
  <2>2. CASE headSent' = TRUE /\ Send(Head(commandQueue)) /\ commandQueue' = commandQueue
    BY <1>2, <2>2 DEF RunCommand, Unsent, Send
  <2> QED
    BY <1>2, <2>1, <2>2 DEF RunCommand
<1>3. CASE Receive
  BY <1>3 DEF Receive, Unsent
<1>4. CASE Resume
  BY <1>1, <1>4 DEF Resume
<1>5. CASE RequestTimeout
  BY <1>1, <1>5 DEF RequestTimeout
<1>6. CASE Disconnect
  BY <1>6 DEF Disconnect, Unsent
<1> QED
  BY <1>2, <1>3, <1>4, <1>5, <1>6 DEF LinkSteps, LinkBreaks

\* A command of the user interface goes to the end of the queue, a stop to the device.
LEMMA SendServes ==
  ASSUME LinkTypeOK, NEW box, NEW req \in Request, SendCommand(req, box)
  PROVE  \/ Unsent' = Unsent /\ toDevice' = toDevice
         \/ req \in QueueReq /\ Unsent' = Append(Unsent, req) /\ toDevice' = toDevice
         \/ req \in StopReq /\ Unsent' = Unsent /\ toDevice' = Append(toDevice, req)
<1>1. CASE UNCHANGED <<toDevice, commandQueue, headSent>>
  BY <1>1 DEF Unsent
<1>2. CASE req.kind = "stop" /\ Send(req) /\ UNCHANGED <<commandQueue, headSent>>
  BY <1>2, Kinds DEF Unsent, Send
<1>3. CASE req.kind # "stop" /\ commandQueue' = Append(commandQueue, req) /\ UNCHANGED <<toDevice, headSent>>
  <2>1. req \in QueueReq
    BY <1>3, Kinds
  <2>2. headSent => Tail(Append(commandQueue, req)) = Append(Tail(commandQueue), req)
    BY <2>1, AppendElements DEF LinkTypeOK
  <2> QED
    BY <1>3, <2>1, <2>2 DEF Unsent
<1> QED
  BY <1>1, <1>2, <1>3 DEF SendCommand, JumpsQueue

\* A loop sends only what is new, and gives up no block that is under way for a wait
\* that is over.
LEMMA MoveServes ==
  ASSUME DesktopInvariant, NEW box, Box(box), LoopMove(box)
  PROVE  /\ \A b \in Around : Current(b)'
         /\ \/ LinkKept(box)
            \/ \E req \in Request :
                 /\ SendCommand(req, box)
                 /\ req \in BlockReq =>
                      /\ req \notin Blocks \cup completed /\ \A m \in Results : m.req # req
                      /\ Clear(req.op) /\ Current(req)'
<1>0. /\ DesktopTypeOK /\ LinkTypeOK /\ WireTypeOK /\ DeviceTypeOK
      /\ loop \in [Epochs -> LoopState] /\ OneBlockEach /\ LoopIsAhead
      /\ \A b \in BlockReq : b.op \in Epochs
      /\ \A d \in Epochs : loop[d].index \in Nat
  BY AskedTypes, LoopTypes, TaskAssumption DEF DesktopInvariant, DesktopTypeOK, LoopTypeOK, Evidence
<1>1. Around \subseteq BlockReq
  BY <1>0 DEF Around, DeviceTypeOK
<1>2. \A b \in Around : Current(b)
  BY <1>0 DEF OneBlockEach
<1> DEFINE Good == \A b \in Around : Current(b)'
           Fresh(req) == req \in BlockReq =>
                      /\ req \notin Blocks \cup completed /\ \A m \in Results : m.req # req
                      /\ Clear(req.op) /\ Current(req)'
           Wires == \/ LinkKept(box)
                    \/ \E req \in Request : SendCommand(req, box) /\ Fresh(req)
<1>3. ASSUME NEW b \in BlockReq, loop'[b.op] = loop[b.op], Current(b) PROVE Current(b)'
  BY <1>3 DEF Current, BlockOf
<1>4. ASSUME NEW b \in BlockReq, loop'[b.op].phase = "over" PROVE Current(b)'
  BY <1>4 DEF Current
<1>5. \A l \in LoopState : \A p : LET k == [l EXCEPT !.phase = p]
                              IN k.phase = p /\ k.index = l.index /\ k.outcome = l.outcome
  BY DEF LoopState
<1>6. \A l \in LoopState : \A o : LET k == [l EXCEPT !.outcome = o]
                              IN k.phase = l.phase /\ k.index = l.index /\ k.outcome = o
  BY DEF LoopState
<1>7. ASSUME NEW b \in BlockReq, NEW p \in {"result", "over"}, Current(b),
             loop'[b.op] = [loop[b.op] EXCEPT !.phase = p], loop[b.op].phase # "over" \/ p = "over"
      PROVE  Current(b)'
  <2>1. /\ loop'[b.op].phase = p /\ loop'[b.op].index = loop[b.op].index
        /\ loop'[b.op].outcome = loop[b.op].outcome
    BY <1>0, <1>5, <1>7
  <2> QED
    BY <1>7, <2>1 DEF Current, BlockOf
<1>8. ASSUME NEW b \in BlockReq, NEW o \in {"failed", "aborted"}, Current(b),
             loop'[b.op] = [loop[b.op] EXCEPT !.outcome = o]
      PROVE  Current(b)'
  <2>1. /\ loop'[b.op].phase = loop[b.op].phase /\ loop'[b.op].index = loop[b.op].index
        /\ loop'[b.op].outcome = o
    BY <1>0, <1>6, <1>8
  <2> QED
    BY <1>8, <2>1 DEF Current, BlockOf
<1>9. ASSUME NEW e \in Epochs, NEW k, loop' = [loop EXCEPT ![e] = k]
      PROVE  loop'[e] = k /\ \A b \in Around : b.op # e => Current(b)'
  <2>1. loop'[e] = k /\ \A d \in Epochs : d # e => loop'[d] = loop[d]
    BY <1>0, <1>9
  <2> QED
    BY <1>0, <1>1, <1>2, <1>3, <2>1
<1>10. CASE Rests(box)
  <2>1. Good
    BY <1>1, <1>2, <1>3, <1>10 DEF Rests
  <2> QED
    BY <1>10, <2>1 DEF Rests
<1>11. CASE BreaksOff(box) \/ Stops(box)
  <2>1. ASSUME NEW b \in Around PROVE Current(b)'
    <3>1. b \in BlockReq /\ b.op \in Epochs /\ Current(b)
      BY <1>0, <1>1, <1>2
    <3>2. \/ loop'[b.op] = loop[b.op]
          \/ loop'[b.op] = [loop[b.op] EXCEPT !.phase = "over"]
          \/ \E o \in {"failed", "aborted"} : loop'[b.op] = [loop[b.op] EXCEPT !.outcome = o]
      BY <1>11, <3>1 DEF BreaksOff, Stops
    <3> QED
      BY <1>3, <1>7, <1>8, <3>1, <3>2
  <2>2. Wires
    <3>1. CASE BreaksOff(box)
      BY <3>1 DEF BreaksOff
    <3>2. CASE Stops(box)
      <4> DEFINE req == Req("stop", epoch + 1, 0)
      <4>1. req \in StopReq /\ SendCommand(req, box)
        BY <3>2, RequestTypes DEF Stops
      <4>2. req \in Request /\ req \notin BlockReq
        BY <4>1, RequestTypes, Kinds
      <4> HIDE DEF req
      <4> QED
        BY <4>1, <4>2
    <3> QED
      BY <1>11, <3>1, <3>2
  <2> QED
    BY <2>1, <2>2
<1>12. CASE Resets(box)
  <2> DEFINE req == Req("reset", resets + 1, 0)
  <2>1. req \in ResetReq /\ SendCommand(req, box)
    BY <1>12, RequestTypes DEF Resets
  <2>2. req \in Request /\ req \notin BlockReq
    BY <2>1, RequestTypes, Kinds
  <2>3. Good
    BY <1>1, <1>2, <1>3, <1>12 DEF Resets
  <2> HIDE DEF req
  <2> QED
    BY <2>1, <2>2, <2>3
<1>13. ASSUME NEW e \in Epochs, ToResult(e, box) \/ Leaves(e, box)
       PROVE  Good /\ Wires
  <2>1. PICK p \in {"result", "over"} : /\ loop' = [loop EXCEPT ![e] = [loop[e] EXCEPT !.phase = p]]
                                        /\ loop[e].phase # "over"
    BY <1>13 DEF ToResult, Leaves, Alive
  <2>2. loop'[e] = [loop[e] EXCEPT !.phase = p] /\ \A b \in Around : b.op # e => Current(b)'
    BY <1>9, <2>1
  <2>3. ASSUME NEW b \in Around, b.op = e PROVE Current(b)'
    BY <1>1, <1>2, <1>7, <2>1, <2>2, <2>3
  <2>4. LinkKept(box)
    BY <1>13 DEF ToResult, Leaves
  <2> QED
    BY <2>2, <2>3, <2>4
<1>14. ASSUME NEW e \in Epochs, NEW o \in {"done", "failed"}, Learns(e, o, box)
       PROVE  Good /\ Wires
  <2>1. loop'[e] = [loop[e] EXCEPT !.outcome = o] /\ \A b \in Around : b.op # e => Current(b)'
    BY <1>9, <1>14 DEF Learns
  <2>2. ASSUME NEW b \in Around, b.op = e PROVE Current(b)'
    <3>1. o = "failed"
      BY <1>14, <2>2 DEF Learns, Clear
    <3> QED
      BY <1>1, <1>2, <1>8, <2>1, <2>2, <3>1
  <2>3. LinkKept(box)
    BY <1>14 DEF Learns
  <2> QED
    BY <2>1, <2>2, <2>3
<1>15. ASSUME NEW e \in Epochs, AsksFinish(e, box)
       PROVE  Good /\ Wires
  <2> DEFINE req == Req("finish", e, 0)
  <2>1. req \in FinishReq /\ SendCommand(req, box)
    BY <1>15, RequestTypes DEF AsksFinish
  <2>2. req \in Request /\ req \notin BlockReq
    BY <2>1, RequestTypes, Kinds
  <2>3. \A b \in Around : b.op # e
    BY <1>15 DEF AsksFinish, Clear
  <2>4. Good
    BY <1>9, <1>15, <2>3 DEF AsksFinish
  <2> HIDE DEF req
  <2> QED
    BY <2>1, <2>2, <2>4
<1>16. ASSUME NEW e \in Epochs, NEW i \in 1..(JobBlocks + ReturnBlocks), NEW ret \in BOOLEAN,
              Sends(e, i, ret, box)
       PROVE  Good /\ Wires
  <2> DEFINE req == Req("block", e, i)
             k == [phase |-> "ack", index |-> i, outcome |-> "open", returning |-> ret]
  <2>1. loop' = [loop EXCEPT ![e] = k] /\ i > loop[e].index /\ SendCommand(req, box) /\ Clear(e)
    BY <1>16 DEF Sends
  <2>2. req \in BlockReq /\ req \in Request /\ req.op = e /\ req.index = i
    BY RequestTypes DEF Req
  <2>3. Good /\ loop'[e] = k
    BY <1>9, <2>1 DEF Clear
  <2>4. Current(req)'
    <3>1. loop'[e].phase = "ack" /\ loop'[e].index = i /\ loop'[e].outcome = "open"
      BY <2>3
    <3> QED
      BY <2>2, <3>1 DEF Current, BlockOf
  <2>5. loop[e].index \in Nat /\ i \in Nat
    BY <1>0, TaskAssumption
  <2>6. ~(req.index <= loop[req.op].index)
    BY <2>1, <2>2, <2>5
  <2>7. req \notin Blocks \cup completed /\ \A m \in Results : m.req # req
    <3> HIDE DEF req
    <3> QED
      BY <1>0, <2>6 DEF LoopIsAhead
  <2> HIDE DEF req
  <2> QED
    BY <2>1, <2>2, <2>3, <2>4, <2>7
<1>17. Good /\ Wires
  <2> HIDE DEF Good, Wires
  <2>1. CASE \E e \in Epochs : ToResult(e, box) \/ Leaves(e, box)
    BY <1>13, <2>1
  <2>2. CASE \E e \in Epochs : \E o \in {"done", "failed"} : Learns(e, o, box)
    BY <1>14, <2>2
  <2>3. CASE \E e \in Epochs : AsksFinish(e, box)
    BY <1>15, <2>3
  <2>4. CASE \E e \in Epochs : \E i \in 1..(JobBlocks + ReturnBlocks), ret \in BOOLEAN : Sends(e, i, ret, box)
    BY <1>16, <2>4
  <2>5. CASE Rests(box) \/ BreaksOff(box) \/ Stops(box) \/ Resets(box)
    BY <1>10, <1>11, <1>12, <2>5 DEF Good, Wires
  <2> QED
    BY <2>1, <2>2, <2>3, <2>4, <2>5 DEF LoopMove
<1> QED
  BY <1>17

\* The ways in which the two queues move outside the device.
LEMMA ServedMoves ==
  ASSUME DesktopTypeOK, ServedOnce, slot' = slot, owner' = owner, completed' = completed,
         \/ toDevice' = toDevice /\ Unsent' = Unsent
         \/ toDevice' = toDevice /\ Unsent # << >> /\ Unsent' = Tail(Unsent)
         \/ Unsent # << >> /\ Unsent' = Tail(Unsent) /\ toDevice' = Append(toDevice, Head(Unsent))
         \/ \E req \in QueueReq :
              /\ req \in BlockReq => req \notin Blocks \cup completed
              /\ Unsent' = Append(Unsent, req) /\ toDevice' = toDevice
         \/ \E req \in StopReq : Unsent' = Unsent /\ toDevice' = Append(toDevice, req)
  PROVE  ServedOnce'
<1>0. /\ Unsent \in Seq(QueueReq) /\ toDevice \in Seq(Request) /\ QueueReq \subseteq Request
      /\ ToSet(Unsent) \subseteq ToSet(commandQueue)
  BY UnsentElements DEF DesktopTypeOK, WireTypeOK, Request
<1> DEFINE u == Unsent
           t == toDevice
           Served(v, w) ==
             /\ Once(v, BlockReq) /\ Once(w, BlockReq)
             /\ \A b \in ToSet(v) \cap BlockReq : b \notin ToSet(w) /\ b # owner /\ b \notin completed
             /\ \A b \in ToSet(w) \cap BlockReq : b # owner /\ b \notin completed
<1>1. Served(u, t) /\ (slot \in {"reserved", "executing"} => owner \notin completed)
  BY DEF ServedOnce
<1>2. ASSUME Served(Unsent', toDevice') PROVE ServedOnce'
  BY <1>1, <1>2 DEF ServedOnce
<1>3. u \in Seq(QueueReq) /\ t \in Seq(Request)
  BY <1>0
<1>4. CASE toDevice' = toDevice /\ Unsent' = Unsent
  BY <1>1, <1>2, <1>4
<1>5. CASE u # << >> /\ Unsent' = Tail(u) /\ (toDevice' = t \/ toDevice' = Append(t, Head(u)))
  <2> HIDE DEF u, t
  <2> DEFINE v == Tail(u)
             x == Head(u)
  <2>1. v \in Seq(QueueReq) /\ x \in QueueReq /\ x \in Request /\ ToSet(u) = ToSet(v) \cup {x}
    BY <1>0, <1>3, <1>5, TailElements
  <2>2. Once(v, BlockReq) /\ (x \in BlockReq => x \notin ToSet(v))
    BY <1>1, <1>3, <1>5, OnceOf
  <2> HIDE DEF v, x
  <2>3. Served(v, t)
    BY <1>1, <2>1, <2>2
  <2>4. Served(v, Append(t, x))
    <3>1. ToSet(Append(t, x)) = ToSet(t) \cup {x}
      BY <1>3, <2>1, AppendElements
    <3>2. Once(Append(t, x), BlockReq)
      BY <1>1, <1>3, <2>1, OnceOf
    <3> QED
      BY <1>1, <2>1, <2>2, <3>1, <3>2
  <2> QED
    BY <1>2, <1>5, <2>3, <2>4 DEF v, x
<1>6. ASSUME NEW req \in QueueReq, req \in BlockReq => req \notin Blocks \cup completed,
             Unsent' = Append(u, req), toDevice' = t
      PROVE  ServedOnce'
  <2>1. req \in BlockReq => req \notin ToSet(u) /\ req \notin ToSet(t) /\ req # owner /\ req \notin completed
    BY <1>0, <1>6, Kinds DEF Blocks, Asked, Coming
  <2> HIDE DEF u, t
  <2>2. ToSet(Append(u, req)) = ToSet(u) \cup {req}
    BY <1>3, AppendElements
  <2>3. Once(Append(u, req), BlockReq)
    BY <1>1, <1>3, <2>1, OnceOf
  <2> QED
    BY <1>1, <1>2, <1>6, <2>1, <2>2, <2>3
<1>7. ASSUME NEW req \in StopReq, Unsent' = u, toDevice' = Append(t, req)
      PROVE  ServedOnce'
  <2>1. req \in Request /\ req \notin BlockReq
    BY RequestTypes, Kinds
  <2> HIDE DEF u, t
  <2>2. ToSet(Append(t, req)) = ToSet(t) \cup {req}
    BY <1>3, <2>1, AppendElements
  <2>3. Once(Append(t, req), BlockReq)
    BY <1>1, <1>3, <2>1, OnceOf
  <2> QED
    BY <1>1, <1>2, <1>7, <2>1, <2>2, <2>3
<1> QED
  BY <1>4, <1>5, <1>6, <1>7

\* What the device does to the slot and to what waits to be served.
LEMMA DeviceServes ==
  ASSUME DesktopTypeOK, Device
  PROVE  /\ Unsent' = Unsent
         /\ \/ /\ toDevice # << >> /\ toDevice' = Tail(toDevice) /\ completed' = completed
               /\ \/ /\ slot = "free" /\ slot' = "reserved"
                     /\ owner' = Head(toDevice) /\ Head(toDevice) \in BlockReq
                  \/ owner' = owner /\ slot' \in {slot, "free", "ended"} /\ (slot = "free" => slot' = "free")
            \/ /\ toDevice' = toDevice /\ owner' = owner
               /\ \/ /\ completed' = completed
                     /\ slot' \in {slot, "free", "ended"} \/ (slot = "reserved" /\ slot' = "executing")
                     /\ slot = "free" => slot' = "free"
                  \/ completed' = completed \cup {owner} /\ slot = "executing" /\ slot' = "ended"
<1>1. Unsent' = Unsent
  BY DEF Device, Serve, Execute, Complete, Fault, DrainResult, DrainFault, DeviceKeeps, linkVars, Unsent
<1>2. CASE Serve
  <2> DEFINE req == Head(toDevice)
  <2>1. toDevice # << >> /\ completed' = completed /\ toDevice' = Tail(toDevice)
    BY <1>2 DEF Serve, ServeBlock, ServeFinish, ServeStop, ServeReset, Replies
  <2>2. CASE req.kind = "block"
    <3>1. req \in BlockReq
      BY <2>1, <2>2, TailElements, Kinds DEF DesktopTypeOK, WireTypeOK
    <3>2. ServeBlock(req)
      BY <1>2, <2>2 DEF Serve
    <3> QED
      BY <1>1, <2>1, <3>1, <3>2 DEF ServeBlock, Accept, lifecycleVars
  <2>3. CASE req.kind = "finish"
    BY <1>1, <1>2, <2>1, <2>3 DEF Serve, ServeFinish, lifecycleVars
  <2>4. CASE req.kind = "stop"
    BY <1>1, <1>2, <2>1, <2>4 DEF Serve, ServeStop, EndsFailed, End, lifecycleVars
  <2>5. CASE req.kind \notin {"block", "finish", "stop"}
    <3>1. ServeReset(req)
      BY <1>2, <2>5 DEF Serve
    <3> QED
      BY <1>1, <2>1, <3>1 DEF ServeReset, Drop, lifecycleVars
  <2> QED
    BY <2>2, <2>3, <2>4, <2>5
<1>3. CASE Execute
  BY <1>1, <1>3 DEF Execute, Start, DeviceKeeps
<1>4. CASE Complete
  BY <1>1, <1>4 DEF Complete, End, DeviceKeeps
<1>5. CASE Fault
  BY <1>1, <1>5 DEF Fault, EndsFailed, End, DeviceKeeps, lifecycleVars
<1>6. CASE DrainResult
  BY <1>1, <1>6 DEF DrainResult, Report, Discard, DeviceKeeps
<1>7. CASE DrainFault
  BY <1>1, <1>7 DEF DrainFault, DeviceKeeps, lifecycleVars
<1> QED
  BY <1>2, <1>3, <1>4, <1>5, <1>6, <1>7 DEF Device

\* Every step keeps each block from being served again.
LEMMA ServedKept ==
  ASSUME DesktopInvariant, Next
  PROVE  ServedOnce'
<1>0. DesktopTypeOK /\ ServedOnce /\ LinkTypeOK
  BY DEF DesktopInvariant, DesktopTypeOK
<1>1. CASE LinkSteps \/ LinkBreaks
  <2>1. slot' = slot /\ owner' = owner /\ completed' = completed
    BY <1>1 DEF LinkSteps, LinkBreaks, deviceVars, lifecycleVars
  <2> QED
    BY <1>0, <1>1, <2>1, LinkServes, ServedMoves
<1>2. CASE Loops \/ User
  <2>1. slot' = slot /\ owner' = owner /\ completed' = completed
    BY <1>2, InterfaceMoves DEF deviceVars, lifecycleVars
  <2>2. PICK box : Box(box) /\ LoopMove(box)
    BY <1>2, InterfaceMoves
  <2>3. CASE LinkKept(box)
    <3>1. Unsent' = Unsent /\ toDevice' = toDevice
      BY <2>3 DEF LinkKept, linkVars, Unsent
    <3> QED
      BY <1>0, <2>1, <3>1, ServedMoves
  <2> DEFINE Sent(req) ==
               SendCommand(req, box) /\ (req \in BlockReq => req \notin Blocks \cup completed)
  <2>4. CASE \E req \in Request : Sent(req)
    <3>1. PICK req \in Request : Sent(req)
      BY <2>4
    <3>2. \/ Unsent' = Unsent /\ toDevice' = toDevice
          \/ req \in QueueReq /\ Unsent' = Append(Unsent, req) /\ toDevice' = toDevice
          \/ req \in StopReq /\ Unsent' = Unsent /\ toDevice' = Append(toDevice, req)
      BY <1>0, <3>1, SendServes
    <3> QED
      BY <1>0, <2>1, <3>1, <3>2, ServedMoves
  <2> QED
    BY <2>2, <2>3, <2>4, MoveServes
<1>3. CASE Device
  <2>0. /\ toDevice \in Seq(Request) /\ owner \in BlockReq \cup {NoBlock}
        /\ slot \in {"free", "reserved", "executing", "ended"}
    BY <1>0 DEF DesktopTypeOK, WireTypeOK, DeviceTypeOK
  <2>1. Unsent' = Unsent
    BY <1>0, <1>3, DeviceServes
  <2> DEFINE t == toDevice
             u == Tail(t)
             x == Head(t)
  <2>2. ASSUME t # << >>
        PROVE  /\ ToSet(t) = ToSet(u) \cup {x} /\ Once(u, BlockReq)
               /\ x \in BlockReq => x \notin ToSet(u)
    BY <1>0, <2>0, <2>2, TailElements, OnceOf DEF ServedOnce
  <2>3. CASE /\ t # << >> /\ toDevice' = u /\ completed' = completed
             /\ slot' = "reserved" /\ owner' = x /\ x \in BlockReq
    <3>1. Once(Unsent', BlockReq) /\ Once(toDevice', BlockReq)
      BY <1>0, <2>1, <2>2, <2>3 DEF ServedOnce
    <3> HIDE DEF u, x
    <3>2. /\ \A b \in ToSet(Unsent') \cap BlockReq :
               b \notin ToSet(toDevice') /\ b # owner' /\ b \notin completed'
          /\ \A b \in ToSet(toDevice') \cap BlockReq : b # owner' /\ b \notin completed'
          /\ owner' \notin completed'
      BY <1>0, <2>1, <2>2, <2>3 DEF ServedOnce
    <3> QED
      BY <3>1, <3>2 DEF ServedOnce
  <2>4. CASE /\ t # << >> /\ toDevice' = u /\ completed' = completed
             /\ owner' = owner /\ slot' \in {slot, "free", "ended"}
    <3>1. Once(Unsent', BlockReq) /\ Once(toDevice', BlockReq)
      BY <1>0, <2>1, <2>2, <2>4 DEF ServedOnce
    <3> HIDE DEF u, x
    <3>2. /\ \A b \in ToSet(Unsent') \cap BlockReq :
               b \notin ToSet(toDevice') /\ b # owner' /\ b \notin completed'
          /\ \A b \in ToSet(toDevice') \cap BlockReq : b # owner' /\ b \notin completed'
          /\ slot' \in {"reserved", "executing"} => owner' \notin completed'
      BY <1>0, <2>1, <2>2, <2>4 DEF ServedOnce
    <3> QED
      BY <3>1, <3>2 DEF ServedOnce
  <2>5. CASE /\ toDevice' = toDevice /\ owner' = owner /\ completed' = completed
             /\ slot' \in {slot, "free", "ended"} \/ (slot = "reserved" /\ slot' = "executing")
    BY <1>0, <2>1, <2>5 DEF ServedOnce
  <2>6. CASE /\ toDevice' = toDevice /\ owner' = owner /\ completed' = completed \cup {owner}
             /\ slot' = "ended"
    BY <1>0, <2>1, <2>6 DEF ServedOnce
  <2> QED
    BY <1>0, <1>3, <2>3, <2>4, <2>5, <2>6, DeviceServes
<1> QED
  BY <1>1, <1>2, <1>3 DEF Next

----------------------------------------------------------------------------
(* One block of each operation *)

\* One block of each operation, when what is around has only grown by a block of an
\* operation that had none.
LEMMA StillOneEach ==
  ASSUME OneBlockEach, Results' \subseteq Results, \A b \in Around : Current(b)',
         \/ Around' \subseteq Around
         \/ \E req : /\ Around' \subseteq Around \cup {req}
                     /\ Clear(req.op) /\ Current(req)' /\ \A m \in Results : m.req # req
  PROVE  OneBlockEach'
<1>1. CASE Around' \subseteq Around
  BY <1>1 DEF OneBlockEach
<1>2. ASSUME NEW req, Around' \subseteq Around \cup {req},
             Clear(req.op), Current(req)', \A m \in Results : m.req # req
      PROVE  OneBlockEach'
  <2>1. \A b \in Around' : Current(b)'
    BY <1>2
  <2>2. \A b, c \in Around' : b.op = c.op => b = c
    BY <1>2 DEF OneBlockEach, Clear
  <2>3. \A m \in Results' : m.req \notin Around'
    BY <1>2 DEF OneBlockEach
  <2> QED
    BY <2>1, <2>2, <2>3 DEF OneBlockEach
<1> QED
  BY <1>1, <1>2

\* Every step keeps one block of each operation around at most.
LEMMA OneBlockKept ==
  ASSUME DesktopInvariant, Next
  PROVE  OneBlockEach'
<1>0. /\ DesktopTypeOK /\ LinkTypeOK /\ OneBlockEach /\ ServedOnce
      /\ Unsent \in Seq(QueueReq) /\ toDevice \in Seq(Request) /\ QueueReq \subseteq Request
      /\ slot \in {"free", "reserved", "executing", "ended"} /\ owner \in BlockReq \cup {NoBlock}
      /\ NoBlock \notin BlockReq
  BY UnsentElements
  DEF DesktopInvariant, DesktopTypeOK, WireTypeOK, DeviceTypeOK, Request, NoBlock, Req, BlockReq
<1>1. ASSUME ToSet(Unsent') \cup ToSet(toDevice') \subseteq ToSet(Unsent) \cup ToSet(toDevice),
             slot' = slot, owner' = owner
      PROVE  Around' \subseteq Around
  BY <1>1 DEF Around
<1>2. CASE LinkSteps \/ LinkBreaks
  <2>1. slot' = slot /\ owner' = owner /\ loop' = loop
    BY <1>2 DEF LinkSteps, LinkBreaks, deviceVars, taskVars, lifecycleVars
  <2>2. ASSUME Unsent # << >>
        PROVE  /\ ToSet(Unsent) = ToSet(Tail(Unsent)) \cup {Head(Unsent)} /\ Head(Unsent) \in Request
               /\ ToSet(Append(toDevice, Head(Unsent))) = ToSet(toDevice) \cup {Head(Unsent)}
    <3>1. ToSet(Unsent) = ToSet(Tail(Unsent)) \cup {Head(Unsent)} /\ Head(Unsent) \in Request
      BY <1>0, <2>2, TailElements
    <3> QED
      BY <1>0, <3>1, AppendElements
  <2>3. ToSet(Unsent') \cup ToSet(toDevice') \subseteq ToSet(Unsent) \cup ToSet(toDevice)
    BY <1>0, <1>2, <2>2, LinkServes
  <2>4. \A b \in Around : Current(b)'
    BY <1>0, <2>1 DEF OneBlockEach, Current, BlockOf
  <2>5. Results' \subseteq Results
    BY <1>2, LinkElements DEF LinkElementsKept
  <2> QED
    BY <1>0, <1>1, <2>1, <2>3, <2>4, <2>5, StillOneEach
<1>3. CASE Loops \/ User
  <2>1. slot' = slot /\ owner' = owner
    BY <1>3, InterfaceMoves DEF deviceVars, lifecycleVars
  <2>2. PICK box : Box(box) /\ LoopMove(box)
    BY <1>3, InterfaceMoves
  <2>3. \A b \in Around : Current(b)'
    BY <2>2, MoveServes
  <2>4. Results' \subseteq Results
    BY <2>2, MoveClaims
  <2>5. CASE LinkKept(box)
    <3>1. Unsent' = Unsent /\ toDevice' = toDevice
      BY <2>5 DEF LinkKept, linkVars, Unsent
    <3> QED
      BY <1>0, <1>1, <2>1, <2>3, <2>4, <3>1, StillOneEach
  <2>6. ASSUME NEW req \in Request, SendCommand(req, box),
               req \in BlockReq => Clear(req.op) /\ Current(req)' /\ \A m \in Results : m.req # req
        PROVE  OneBlockEach'
    <3>1. /\ ToSet(Unsent') \cup ToSet(toDevice') \subseteq ToSet(Unsent) \cup ToSet(toDevice) \cup {req}
      <4>1. \/ Unsent' = Unsent /\ toDevice' = toDevice
            \/ req \in QueueReq /\ Unsent' = Append(Unsent, req) /\ toDevice' = toDevice
            \/ req \in StopReq /\ Unsent' = Unsent /\ toDevice' = Append(toDevice, req)
        BY <1>0, <2>6, SendServes
      <4>2. ToSet(Append(toDevice, req)) = ToSet(toDevice) \cup {req}
        BY <1>0, AppendElements
      <4>3. req \in QueueReq => ToSet(Append(Unsent, req)) = ToSet(Unsent) \cup {req}
        BY <1>0, AppendElements
      <4> QED
        BY <4>1, <4>2, <4>3
    <3>2. Around' \subseteq Around \cup ({req} \cap BlockReq)
      BY <2>1, <3>1 DEF Around
    <3>3. CASE req \in BlockReq
      BY <1>0, <2>3, <2>4, <2>6, <3>2, <3>3, StillOneEach
    <3>4. CASE req \notin BlockReq
      BY <1>0, <2>3, <2>4, <3>2, <3>4, StillOneEach
    <3> QED
      BY <3>3, <3>4
  <2> QED
    BY <2>2, <2>5, <2>6, MoveServes
<1>4. CASE Device
  <2>1. Unsent' = Unsent /\ loop' = loop
    BY <1>0, <1>4, DeviceServes
    DEF Device, Serve, Execute, Complete, Fault, DrainResult, DrainFault, DeviceKeeps, taskVars
  <2>2. \A b \in Around : Current(b)'
    BY <1>0, <2>1 DEF OneBlockEach, Current, BlockOf
  <2>3. ASSUME toDevice # << >> PROVE ToSet(toDevice) = ToSet(Tail(toDevice)) \cup {Head(toDevice)}
    BY <1>0, <2>3, TailElements
  <2>4. Around' \subseteq Around
    <3>1. CASE /\ toDevice # << >> /\ toDevice' = Tail(toDevice)
               /\ slot' # "free" /\ owner' = Head(toDevice) /\ owner' \in BlockReq
      BY <2>1, <2>3, <3>1 DEF Around
    <3>3. CASE toDevice' = toDevice /\ owner' = owner /\ slot = "executing"
      BY <2>1, <3>3 DEF Around
    <3>4. CASE toDevice' = toDevice /\ owner' = owner /\ (slot = "free" => slot' = "free")
      BY <2>1, <3>4 DEF Around
    <3>5. CASE /\ toDevice # << >> /\ toDevice' = Tail(toDevice)
               /\ owner' = owner /\ (slot = "free" => slot' = "free")
      BY <2>1, <2>3, <3>5 DEF Around
    <3> QED
      BY <1>0, <1>4, <3>1, <3>3, <3>4, <3>5, DeviceServes
  <2>5. \A m \in Results' : m \in Results \/ (slot = "ended" /\ slot' = "free" /\ m.req = owner)
    BY <1>4, ServeElements, DeviceStepElements DEF Device, DeviceElementsKept, Reported
  <2>6. CASE Results' \subseteq Results
    BY <1>0, <2>2, <2>4, <2>6, StillOneEach
  <2>7. CASE slot = "ended" /\ slot' = "free"
    <3>1. owner' = owner /\ ToSet(toDevice') \subseteq ToSet(toDevice)
      BY <1>0, <1>4, <2>3, <2>7, DeviceServes
    <3>2. owner \notin Around'
      BY <1>0, <2>1, <2>7, <3>1 DEF Around, ServedOnce
    <3>3. \A m \in Results' : m.req \notin Around'
      BY <1>0, <2>4, <2>5, <3>2 DEF OneBlockEach
    <3> QED
      BY <1>0, <2>2, <2>4, <3>3 DEF OneBlockEach
  <2> QED
    BY <2>5, <2>6, <2>7
<1> QED
  BY <1>2, <1>3, <1>4 DEF Next

----------------------------------------------------------------------------
(* Answers *)

\* Messages about different requests: an append of a message about a new one, and a
\* message that is taken.
LEMMA OncePerOf ==
  ASSUME NEW kind
  PROVE  /\ \A T, s, x : /\ s \in Seq(T) /\ x \in T /\ OncePer(s, kind)
                         /\ x.type = kind /\ x.req \in LoopReq
                              => \A m \in ToSet(s) : m.type = kind => m.req # x.req
                         => OncePer(Append(s, x), kind)
         /\ \A T, s : s \in Seq(T) /\ s # << >> /\ OncePer(s, kind)
              => /\ OncePer(Tail(s), kind)
                 /\ Head(s).type = kind /\ Head(s).req \in LoopReq
                      => \A m \in ToSet(Tail(s)) : m.type = kind => m.req # Head(s).req
<1>1. ASSUME NEW T, NEW s \in Seq(T), NEW x \in T, OncePer(s, kind),
             x.type = kind /\ x.req \in LoopReq => \A m \in ToSet(s) : m.type = kind => m.req # x.req
      PROVE  OncePer(Append(s, x), kind)
  <2> DEFINE a == Append(s, x)
  <2>1. /\ Len(a) = Len(s) + 1 /\ Len(s) \in Nat
        /\ \A i \in 1..Len(s) : a[i] = s[i]
        /\ a[Len(s) + 1] = x
    BY AppendProperties, LenProperties
  <2> HIDE DEF a
  <2>2. SUFFICES ASSUME NEW i \in 1..Len(a), NEW j \in 1..Len(a), a[i].type = kind, a[j].type = kind,
                        a[i].req \in LoopReq, a[i].req = a[j].req
                 PROVE  i = j
    BY DEF OncePer, a
  <2>3. CASE i \in 1..Len(s) /\ j \in 1..Len(s)
    <3>1. a[i] = s[i] /\ a[j] = s[j]
      BY <2>1, <2>3
    <3> QED
      BY <1>1, <2>2, <2>3, <3>1 DEF OncePer
  <2>4. CASE i \in 1..Len(s) /\ j = Len(s) + 1
    <3>1. a[i] = s[i] /\ a[j] = x /\ s[i] \in ToSet(s)
      BY <2>1, <2>4, ElementsAre
    <3> QED
      BY <1>1, <2>2, <3>1
  <2>5. CASE i = Len(s) + 1 /\ j \in 1..Len(s)
    <3>1. a[j] = s[j] /\ a[i] = x /\ s[j] \in ToSet(s)
      BY <2>1, <2>5, ElementsAre
    <3> QED
      BY <1>1, <2>2, <3>1
  <2> QED
    BY <2>1, <2>3, <2>4, <2>5
<1>2. ASSUME NEW T, NEW s \in Seq(T), s # << >>, OncePer(s, kind)
      PROVE  /\ OncePer(Tail(s), kind)
             /\ Head(s).type = kind /\ Head(s).req \in LoopReq
                  => \A m \in ToSet(Tail(s)) : m.type = kind => m.req # Head(s).req
  <2> DEFINE u == Tail(s)
             x == Head(s)
  <2>1. /\ u \in Seq(T) /\ Len(u) = Len(s) - 1 /\ Len(s) \in Nat \ {0}
        /\ x = s[1] /\ \A i \in 1..(Len(s) - 1) : u[i] = s[i + 1]
    BY <1>2, TailElements
  <2> HIDE DEF u, x
  <2>2. ASSUME NEW i \in 1..Len(u), NEW j \in 1..Len(u), u[i].type = kind, u[j].type = kind,
               u[i].req \in LoopReq, u[i].req = u[j].req
        PROVE  i = j
    <3>1. i + 1 \in 1..Len(s) /\ j + 1 \in 1..Len(s) /\ s[i + 1] = u[i] /\ s[j + 1] = u[j]
      BY <2>1, <2>2
    <3>2. i + 1 = j + 1
      BY <1>2, <2>2, <3>1 DEF OncePer
    <3> QED
      BY <3>2
  <2>3. ASSUME x.type = kind, x.req \in LoopReq, NEW m \in ToSet(u), m.type = kind, m.req = x.req
        PROVE  FALSE
    <3>1. PICK i \in 1..Len(u) : m = u[i]
      BY <2>1, <2>3, ElementsAre
    <3>2. i + 1 \in 1..Len(s) /\ 1 \in 1..Len(s) /\ m = s[i + 1]
      BY <2>1, <3>1
    <3>3. 1 = i + 1
      BY <1>2, <2>1, <2>3, <3>2 DEF OncePer
    <3> QED
      BY <3>3
  <2>4. OncePer(u, kind)
    BY <2>2 DEF OncePer
  <2>5. x.type = kind /\ x.req \in LoopReq => \A m \in ToSet(u) : m.type = kind => m.req # x.req
    BY <2>3
  <2> QED
    BY <2>4, <2>5 DEF u, x
<1> QED
  BY <1>1, <1>2

\* Messages about different requests, one sequence behind the other.
LEMMA OncePerConcat ==
  ASSUME NEW kind, NEW T, NEW s \in Seq(T), NEW t \in Seq(T), OncePer(s, kind), OncePer(t, kind),
         \A m \in ToSet(s), n \in ToSet(t) : m.type = kind /\ m.req \in LoopReq => m.req # n.req
  PROVE  OncePer(s \o t, kind)
<1> DEFINE a == s \o t
<1>1. /\ Len(a) = Len(s) + Len(t) /\ Len(s) \in Nat /\ Len(t) \in Nat
      /\ \A i \in 1..(Len(s) + Len(t)) : a[i] = IF i <= Len(s) THEN s[i] ELSE t[i - Len(s)]
  BY ConcatProperties, LenProperties
<1> HIDE DEF a
<1>2. ASSUME NEW i \in 1..Len(a)
      PROVE  \/ i \in 1..Len(s) /\ a[i] = s[i] /\ a[i] \in ToSet(s)
             \/ i - Len(s) \in 1..Len(t) /\ a[i] = t[i - Len(s)] /\ a[i] \in ToSet(t)
  <2>1. \/ i \in 1..Len(s) /\ a[i] = s[i]
        \/ i - Len(s) \in 1..Len(t) /\ a[i] = t[i - Len(s)]
    BY <1>1
  <2> QED
    BY <2>1, ElementsAre
<1>3. SUFFICES ASSUME NEW i \in 1..Len(a), NEW j \in 1..Len(a), a[i].type = kind, a[j].type = kind,
                      a[i].req \in LoopReq, a[i].req = a[j].req
               PROVE  i = j
  BY DEF OncePer, a
<1>4. CASE i \in 1..Len(s) /\ a[i] = s[i] /\ a[i] \in ToSet(s)
  <2>1. CASE j \in 1..Len(s) /\ a[j] = s[j] /\ a[j] \in ToSet(s)
    BY <1>3, <1>4, <2>1 DEF OncePer
  <2>2. CASE a[j] \in ToSet(t)
    BY <1>3, <1>4, <2>2
  <2> QED
    BY <1>2, <2>1, <2>2
<1>5. CASE i - Len(s) \in 1..Len(t) /\ a[i] = t[i - Len(s)] /\ a[i] \in ToSet(t)
  <2>1. CASE j - Len(s) \in 1..Len(t) /\ a[j] = t[j - Len(s)] /\ a[j] \in ToSet(t)
    <3>1. i - Len(s) = j - Len(s)
      BY <1>3, <1>5, <2>1 DEF OncePer
    <3> QED
      BY <1>1, <3>1
  <2>2. CASE a[j] \in ToSet(s)
    BY <1>3, <1>5, <2>2
  <2> QED
    BY <1>2, <2>1, <2>2
<1> QED
  BY <1>2, <1>4, <1>5

\* No message at all.
LEMMA OnceEmpty ==
  OncePer(<< >>, "reply")
BY DEF OncePer

\* The sequences that answers pass through.
LEMMA AnsweredTypes ==
  ASSUME DesktopTypeOK
  PROVE  /\ LinkTypeOK /\ WireTypeOK /\ inbox \in Seq(InboxMsg) /\ settled \in Seq(ReplyMsg)
         /\ commandQueue \in Seq(QueueReq) /\ commandQueue \in Seq(Request)
         /\ LoopReq \subseteq QueueReq /\ QueueReq \subseteq Request /\ pending \subseteq Request
BY DEF DesktopTypeOK, LinkTypeOK, WireTypeOK, LoopReq, QueueReq, Request

\* An answer that is passed on, or refused, ends its own command and no other.
LEMMA AnsweringKept ==
  ASSUME DesktopTypeOK, AnsweredOnce, loop' = loop, fromDevice' = fromDevice,
         NEW req \in Request, NEW ok \in BOOLEAN,
         inbox' = Append(inbox, Answer(req, ok)), Dequeue(req),
         pending' \subseteq pending, SettledReqs' \subseteq SettledReqs, OncePer(settled', "reply"),
         req \in LoopReq => /\ commandQueue # << >> /\ req = Head(commandQueue)
                            /\ req \notin pending' \cup SettledReqs'
  PROVE  AnsweredOnce'
<1>0. /\ LinkTypeOK /\ WireTypeOK /\ inbox \in Seq(InboxMsg) /\ commandQueue \in Seq(QueueReq)
  BY AnsweredTypes
<1>a. /\ \A r \in (ToSet(commandQueue) \cup AnswerReqs) \cap LoopReq : r \in Owed(r.op)
      /\ Once(commandQueue, LoopReq) /\ OncePer(inbox, "answer")
      /\ \A r \in ToSet(commandQueue) \cap LoopReq : r \notin AnswerReqs
      /\ \A r \in (pending \cup SettledReqs) \cap LoopReq : headSent /\ r = Head(commandQueue)
      /\ \A r \in pending \cap LoopReq : r \notin SettledReqs
  BY DEF AnsweredOnce
<1>1. AnswerReqs' = AnswerReqs \cup {req}
  BY <1>0, AnswerElements
<1>2. \A e : Owed(e)' = Owed(e)
  BY SameOwed
<1>3. \/ UNCHANGED <<commandQueue, headSent>> /\ (commandQueue # << >> => Head(commandQueue) # req)
      \/ /\ commandQueue # << >> /\ req = Head(commandQueue)
         /\ commandQueue' = Tail(commandQueue) /\ headSent' = FALSE
  BY DEF Dequeue
<1>4. commandQueue # << >> =>
        /\ ToSet(commandQueue) = ToSet(Tail(commandQueue)) \cup {Head(commandQueue)}
        /\ Once(Tail(commandQueue), LoopReq)
        /\ Head(commandQueue) \in LoopReq => Head(commandQueue) \notin ToSet(Tail(commandQueue))
  BY <1>0, <1>a, TailElements, OnceOf
<1>5. Once(commandQueue', LoopReq)
  BY <1>a, <1>3, <1>4
<1>6. ToSet(commandQueue') \subseteq ToSet(commandQueue) /\ (req \in LoopReq => req \in ToSet(commandQueue))
  BY <1>3, <1>4
<1>7. req \in LoopReq => req \notin ToSet(commandQueue')
  BY <1>3, <1>4
<1>8. OncePer(inbox', "answer")
  <2> DEFINE x == Answer(req, ok)
  <2>1. x \in InboxMsg /\ x.req = req
    BY Kinds DEF InboxMsg, Answer
  <2>2. ASSUME req \in LoopReq, NEW m \in ToSet(inbox), m.type = "answer" PROVE m.req # req
    BY <1>a, <1>6, <2>2 DEF AnswerReqs, AnsweredIn
  <2> HIDE DEF x
  <2>3. OncePer(Append(inbox, x), "answer")
    BY <1>0, <1>a, <2>1, <2>2, OncePerOf
  <2> QED
    BY <2>3 DEF x
<1>9. \A r \in (ToSet(commandQueue') \cup AnswerReqs') \cap LoopReq : r \in Owed(r.op)'
  BY <1>a, <1>1, <1>2, <1>6
<1>10. \A r \in ToSet(commandQueue') \cap LoopReq : r \notin AnswerReqs'
  BY <1>a, <1>1, <1>6, <1>7
<1>11. \A r \in (pending' \cup SettledReqs') \cap LoopReq : headSent' /\ r = Head(commandQueue')
  <2> SUFFICES ASSUME NEW r \in (pending' \cup SettledReqs') \cap LoopReq
               PROVE  headSent' /\ r = Head(commandQueue')
    OBVIOUS
  <2>1. headSent /\ r = Head(commandQueue) /\ r # req
    BY <1>a
  <2> QED
    BY <1>3, <2>1
<1>12. \A r \in pending' \cap LoopReq : r \notin SettledReqs'
  BY <1>a
<1> QED
  BY <1>5, <1>8, <1>9, <1>10, <1>11, <1>12 DEF AnsweredOnce

\* A command that starts takes the wait with it, one that is refused is answered.
LEMMA RunCommandAnswers ==
  ASSUME DesktopTypeOK, AnsweredOnce, RunCommand, loop' = loop
  PROVE  AnsweredOnce'
<1> DEFINE req == Head(commandQueue)
<1>0. /\ LinkTypeOK /\ WireTypeOK /\ commandQueue \in Seq(Request)
      /\ commandQueue # << >> /\ ~headSent /\ settled' = settled /\ fromDevice' = fromDevice
  BY AnsweredTypes DEF RunCommand
<1>1. req \in Request
  BY <1>0, TailElements
<1>2. \A r \in (pending \cup SettledReqs) \cap LoopReq : FALSE
  BY <1>0 DEF AnsweredOnce
<1>3. SettledReqs' = SettledReqs
  BY <1>0 DEF SettledReqs
<1>4. CASE Dequeue(req) /\ inbox' = Append(inbox, Answer(req, FALSE)) /\ pending' = pending
  <2>1. OncePer(settled', "reply")
    BY <1>0 DEF AnsweredOnce
  <2>2. Dequeue(req) /\ inbox' = Append(inbox, Answer(req, FALSE))
    BY <1>4
  <2>3. req \in LoopReq => req \notin pending' \cup SettledReqs'
    BY <1>2, <1>3, <1>4
  <2>4. commandQueue # << >> /\ req = Head(commandQueue)
    BY <1>0
  <2> HIDE DEF req
  <2> QED
    BY <1>0, <1>1, <1>3, <1>4, <2>1, <2>2, <2>3, <2>4, AnsweringKept
<1>5. CASE headSent' = TRUE /\ pending' = pending \cup {req} /\ UNCHANGED <<commandQueue, inbox>>
  <2>1. \A e : Owed(e)' = Owed(e)
    BY SameOwed
  <2>2. AnswerReqs' = AnswerReqs
    BY <1>5 DEF AnswerReqs
  <2>3. /\ \A r \in (ToSet(commandQueue') \cup AnswerReqs') \cap LoopReq : r \in Owed(r.op)'
        /\ Once(commandQueue', LoopReq) /\ OncePer(inbox', "answer") /\ OncePer(settled', "reply")
        /\ \A r \in ToSet(commandQueue') \cap LoopReq : r \notin AnswerReqs'
    BY <1>0, <1>5, <2>1, <2>2 DEF AnsweredOnce
  <2>4. \A r \in (pending' \cup SettledReqs') \cap LoopReq : headSent' /\ r = Head(commandQueue')
    BY <1>2, <1>3, <1>5
  <2>5. \A r \in pending' \cap LoopReq : r \notin SettledReqs'
    BY <1>2, <1>3
  <2> QED
    BY <2>3, <2>4, <2>5 DEF AnsweredOnce
<1> QED
  BY <1>4, <1>5 DEF RunCommand, Send

\* A reply moves its request from the waiting to the settled ones.
LEMMA ReceiveAnswers ==
  ASSUME DesktopTypeOK, AnsweredOnce, Receive, loop' = loop
  PROVE  AnsweredOnce'
<1> DEFINE m == Head(fromDevice)
<1>0. /\ inbox \in Seq(InboxMsg) /\ settled \in Seq(ReplyMsg)
      /\ UNCHANGED <<commandQueue, headSent>> /\ m \in WireMsg
  BY AnsweredTypes, TailElements DEF Receive, WireTypeOK
<1>1. AnswerReqs' = AnswerReqs /\ OncePer(inbox', "answer")
  <2>1. CASE m.type = "reply"
    <3>1. inbox' = inbox
      BY <2>1 DEF Receive
    <3> QED
      BY <3>1 DEF AnswerReqs, AnsweredOnce
  <2>2. CASE m.type # "reply"
    <3>1. inbox' = Append(inbox, m)
      BY <2>2 DEF Receive
    <3>2. m \in InboxMsg /\ m.type # "answer"
      BY <1>0, <2>2, Kinds DEF WireMsg, InboxMsg
    <3>3. OncePer(inbox, "answer")
      BY DEF AnsweredOnce
    <3> HIDE DEF m
    <3>4. OncePer(Append(inbox, m), "answer")
      BY <1>0, <3>2, <3>3, OncePerOf
    <3>5. AnsweredIn(Append(inbox, m)) = AnsweredIn(inbox) \cup (IF m.type = "answer" THEN {m.req} ELSE {})
      BY <1>0, <3>2, AnsweredElements
    <3> QED
      BY <3>1, <3>2, <3>4, <3>5 DEF AnswerReqs
  <2> QED
    BY <2>1, <2>2
<1>2. /\ pending' \cup SettledReqs' = pending \cup SettledReqs /\ OncePer(settled', "reply")
      /\ \A r \in pending' \cap LoopReq : r \notin SettledReqs'
  <2>1. CASE m.type = "reply" /\ m.req \in pending
    <3>1. pending' = pending \ {m.req} /\ settled' = Append(settled, m) /\ m \in ReplyMsg
      BY <1>0, <2>1, Kinds DEF Receive
    <3>2. m.req \in LoopReq => \A n \in ToSet(settled) : n.req # m.req
      BY <2>1 DEF AnsweredOnce, SettledReqs
    <3>3. OncePer(settled, "reply") /\ \A r \in pending \cap LoopReq : r \notin SettledReqs
      BY DEF AnsweredOnce
    <3> HIDE DEF m
    <3>4. ToSet(Append(settled, m)) = ToSet(settled) \cup {m}
      BY <1>0, <3>1, AppendElements
    <3>5. SettledReqs' = SettledReqs \cup {m.req}
      BY <3>1, <3>4 DEF SettledReqs
    <3>6. OncePer(Append(settled, m), "reply")
      BY <1>0, <3>1, <3>2, <3>3, OncePerOf
    <3> QED
      BY <2>1, <3>1, <3>3, <3>5, <3>6
  <2>2. CASE UNCHANGED <<pending, settled>>
    BY <2>2 DEF SettledReqs, AnsweredOnce
  <2> QED
    BY <2>1, <2>2 DEF Receive
<1>3. \A e : Owed(e)' = Owed(e)
  BY SameOwed
<1> HIDE DEF m
<1> QED
  BY <1>0, <1>1, <1>2, <1>3 DEF AnsweredOnce

\* The caller of a request that was answered passes the answer on.
LEMMA ResumeAnswers ==
  ASSUME DesktopTypeOK, AnsweredOnce, Resume, loop' = loop
  PROVE  AnsweredOnce'
<1> DEFINE m == Head(settled)
           req == m.req
<1>0. /\ LinkTypeOK /\ settled \in Seq(ReplyMsg) /\ settled # << >> /\ settled' = Tail(settled)
      /\ pending' = pending /\ fromDevice' = fromDevice
  BY AnsweredTypes DEF Resume
<1>1. m \in ReplyMsg /\ ToSet(settled) = ToSet(settled') \cup {m}
  BY <1>0, TailElements
<1>2. req \in Request /\ m.ok \in BOOLEAN /\ m.type = "reply" /\ \A n \in ReplyMsg : n.type = "reply"
  BY <1>1 DEF ReplyMsg
<1>3. SettledReqs = SettledReqs' \cup {req}
  BY <1>1 DEF SettledReqs
<1>4. /\ OncePer(settled', "reply")
      /\ req \in LoopReq => \A n \in ToSet(settled') : n.type = "reply" => n.req # req
  BY <1>0, <1>2, OncePerOf DEF AnsweredOnce
<1>5. \A n \in ToSet(settled') : n.type = "reply"
  BY <1>0, <1>1, <1>2, ElementsAre
<1>6. req \in LoopReq => req \notin pending' \cup SettledReqs'
  <2>1. req \in LoopReq => req \notin SettledReqs'
    BY <1>4, <1>5 DEF SettledReqs
  <2>2. req \in LoopReq => req \notin pending
    BY <1>3 DEF AnsweredOnce
  <2> QED
    BY <1>0, <2>1, <2>2
<1>7. req \in LoopReq => headSent /\ req = Head(commandQueue)
  BY <1>3 DEF AnsweredOnce
<1>8. headSent => commandQueue # << >>
  BY <1>0 DEF LinkTypeOK
<1>9. Dequeue(req) /\ inbox' = Append(inbox, Answer(req, m.ok))
  BY DEF Resume
<1> HIDE DEF m, req
<1> QED
  BY <1>0, <1>2, <1>3, <1>4, <1>6, <1>7, <1>8, <1>9, AnsweringKept

\* The timer answers a request that waits.
LEMMA RequestTimeoutAnswers ==
  ASSUME DesktopTypeOK, AnsweredOnce, RequestTimeout, loop' = loop
  PROVE  AnsweredOnce'
<1>0. LinkTypeOK /\ pending \subseteq Request /\ settled' = settled /\ fromDevice' = fromDevice
  BY AnsweredTypes DEF RequestTimeout
<1>1. PICK req \in pending : /\ pending' = pending \ {req}
                             /\ Dequeue(req)
                             /\ inbox' = Append(inbox, Answer(req, FALSE))
  BY DEF RequestTimeout
<1>2. SettledReqs' = SettledReqs
  BY <1>0 DEF SettledReqs
<1>3. OncePer(settled', "reply")
  BY <1>0 DEF AnsweredOnce
<1>4. req \in LoopReq => /\ headSent /\ req = Head(commandQueue)
                         /\ req \notin SettledReqs
  BY <1>1 DEF AnsweredOnce
<1>5. headSent => commandQueue # << >>
  BY <1>0 DEF LinkTypeOK
<1>6. req \in LoopReq => req \notin pending' \cup SettledReqs'
  BY <1>1, <1>2, <1>4
<1> QED
  BY <1>0, <1>1, <1>2, <1>3, <1>4, <1>5, <1>6, AnsweringKept

\* The end of the connection answers each request that waits once.
LEMMA DisconnectAnswers ==
  ASSUME DesktopTypeOK, AnsweredOnce, Disconnect, loop' = loop
  PROVE  AnsweredOnce'
<1> DEFINE a == inbox \o <<FaultEvent>>
           u == Unanswered
<1>0. /\ LinkTypeOK /\ WireTypeOK /\ inbox \in Seq(InboxMsg) /\ pending \subseteq Request
      /\ commandQueue \in Seq(QueueReq)
      /\ settled' = << >> /\ pending' = {} /\ headSent' = FALSE
      /\ commandQueue' = IF headSent THEN Tail(commandQueue) ELSE commandQueue
      /\ inbox' = a \o u
  BY AnsweredTypes DEF Disconnect
<1>1. /\ u \in Seq(AnswerMsg) /\ ToSet(u) = {Answer(r, FALSE) : r \in pending}
      /\ \A i, j \in 1..Len(u) : u[i].req = u[j].req => i = j
  BY <1>0, UnansweredElements DEF LinkTypeOK
<1>2. FaultEvent \in InboxMsg /\ FaultEvent.type # "answer"
  BY DEF InboxMsg, FaultEvent
<1>3. a = Append(inbox, FaultEvent)
  BY <1>0, DisconnectInbox
<1>4. /\ a \in Seq(InboxMsg) /\ OncePer(a, "answer") /\ ToSet(a) = ToSet(inbox) \cup {FaultEvent}
  <2> DEFINE f == FaultEvent
  <2>1. f \in InboxMsg /\ f.type # "answer" /\ OncePer(inbox, "answer")
    BY <1>2 DEF AnsweredOnce
  <2> HIDE DEF f
  <2>2. /\ Append(inbox, f) \in Seq(InboxMsg) /\ OncePer(Append(inbox, f), "answer")
        /\ ToSet(Append(inbox, f)) = ToSet(inbox) \cup {f}
    <3>1. Append(inbox, f) \in Seq(InboxMsg) /\ ToSet(Append(inbox, f)) = ToSet(inbox) \cup {f}
      BY <1>0, <2>1, AppendElements
    <3>2. OncePer(Append(inbox, f), "answer")
      BY <1>0, <2>1, OncePerOf
    <3> QED
      BY <3>1, <3>2
  <2> QED
    BY <1>3, <2>2 DEF f
<1>5. u \in Seq(InboxMsg)
  BY <1>1 DEF InboxMsg
<1>6. \A r \in pending : Answer(r, FALSE).type = "answer" /\ Answer(r, FALSE).req = r
  BY DEF Answer
<1> HIDE DEF a, u
<1>7. OncePer(u, "answer")
  BY <1>1 DEF OncePer
<1>8. \A r \in pending \cap LoopReq : headSent /\ r = Head(commandQueue)
  BY DEF AnsweredOnce
<1>9. headSent => /\ commandQueue # << >>
                  /\ ToSet(commandQueue) = ToSet(commandQueue') \cup {Head(commandQueue)}
                  /\ Once(commandQueue', LoopReq)
                  /\ Head(commandQueue) \in LoopReq => Head(commandQueue) \notin ToSet(commandQueue')
  BY <1>0, TailElements, OnceOf DEF LinkTypeOK, AnsweredOnce
<1>10. Once(commandQueue', LoopReq) /\ ToSet(commandQueue') \subseteq ToSet(commandQueue)
  BY <1>0, <1>9 DEF AnsweredOnce
<1>11. \A r \in pending \cap LoopReq :
         r \in ToSet(commandQueue) /\ r \notin ToSet(commandQueue') /\ r \notin AnswerReqs
  BY <1>8, <1>9 DEF AnsweredOnce
<1>12. ASSUME NEW m \in ToSet(a), NEW n \in ToSet(u), m.type = "answer", m.req \in LoopReq
       PROVE  m.req # n.req
  <2>1. m \in ToSet(inbox)
    BY <1>2, <1>4, <1>12
  <2>2. m.req \in AnswerReqs
    BY <1>12, <2>1 DEF AnswerReqs, AnsweredIn
  <2>3. n.req \in pending
    BY <1>1, <1>6, <1>12
  <2> QED
    BY <1>11, <1>12, <2>2, <2>3
<1>13. OncePer(inbox', "answer")
  BY <1>0, <1>4, <1>5, <1>7, <1>12, OncePerConcat
<1>14. AnswerReqs' \subseteq AnswerReqs \cup pending
  <2>1. ToSet(inbox') = ToSet(a) \cup ToSet(u)
    BY <1>0, <1>4, <1>5, ConcatElements
  <2>2. ASSUME NEW m \in ToSet(inbox'), m.type = "answer" PROVE m.req \in AnswerReqs \cup pending
    <3>1. CASE m \in ToSet(inbox)
      BY <2>2, <3>1 DEF AnswerReqs, AnsweredIn
    <3>2. CASE m \in ToSet(u)
      <4>1. PICK r \in pending : m = Answer(r, FALSE)
        BY <1>1, <3>2
      <4> QED
        BY <1>6, <4>1
    <3> QED
      BY <1>2, <1>4, <2>1, <2>2, <3>1, <3>2
  <2> QED
    BY <2>2 DEF AnswerReqs, AnsweredIn
<1>15. \A e : Owed(e)' = Owed(e)
  BY SameOwed
<1>16. \A r \in (ToSet(commandQueue') \cup AnswerReqs') \cap LoopReq : r \in Owed(r.op)'
  BY <1>10, <1>11, <1>14, <1>15 DEF AnsweredOnce
<1>17. \A r \in ToSet(commandQueue') \cap LoopReq : r \notin AnswerReqs'
  BY <1>10, <1>11, <1>14 DEF AnsweredOnce
<1>18. SettledReqs' = {} /\ OncePer(settled', "reply")
  BY <1>0, EmptyElements, OnceEmpty DEF SettledReqs
<1> QED
  BY <1>0, <1>10, <1>13, <1>16, <1>17, <1>18 DEF AnsweredOnce

\* Reading the next message repeats no answer.
LEMMA BoxOnce ==
  ASSUME WireTypeOK, OncePer(inbox, "answer"), NEW box, Box(box)
  PROVE  OncePer(box, "answer")
<1>1. inbox \in Seq(InboxMsg)
  BY DEF WireTypeOK
<1>2. CASE box = inbox
  BY <1>2
<1>3. CASE inbox # << >> /\ box = Tail(inbox)
  BY <1>1, <1>3, OncePerOf
<1> QED
  BY <1>2, <1>3 DEF Box

\* The answers that are left belong to the loops that wait.
LEMMA HearsAnswers ==
  ASSUME DesktopTypeOK, AnsweredOnce, NEW box, Box(box), NEW e \in Epochs \cup {0}, Hears(e, box)
  PROVE  AnsweredOnce'
<1>0. /\ LinkTypeOK /\ WireTypeOK /\ LinkKept(box) /\ AnsweredIn(box) \subseteq AnswerReqs
      /\ \A r \in LoopReq : r.op \in Epochs
  BY AnsweredTypes, BoxIsRead DEF Hears, LoopReq, BlockReq, FinishReq
<1>1. /\ commandQueue' = commandQueue /\ pending' = pending /\ headSent' = headSent
      /\ SettledReqs' = SettledReqs /\ AnswerReqs' = AnsweredIn(box)
  BY <1>0, KeptElements
<1>2. settled' = settled /\ inbox' = box
  BY <1>0 DEF LinkKept, linkVars
<1>3. OncePer(box, "answer")
  BY <1>0, BoxOnce DEF AnsweredOnce
<1>4. ASSUME NEW r \in LoopReq, r \in ToSet(commandQueue) \cup AnsweredIn(box) PROVE r \in Owed(r.op)'
  <2>1. r \in Owed(r.op)
    BY <1>0, <1>4 DEF AnsweredOnce
  <2>2. r.op # e
    BY <1>0, <1>4 DEF Hears, Quiet
  <2>3. Owed(r.op)' = IF r.op = e THEN {} ELSE Owed(r.op)
    BY <1>0 DEF Hears
  <2> QED
    BY <2>1, <2>2, <2>3
<1> QED
  BY <1>0, <1>1, <1>2, <1>3, <1>4 DEF AnsweredOnce

\* A request that is new is in the queue, or has been refused, and not both.
LEMMA AsksAnswers ==
  ASSUME DesktopTypeOK, AnsweredOnce, NEW box, Box(box),
         NEW req \in Request, NEW e \in Epochs \cup {0}, Asks(req, e, box)
  PROVE  AnsweredOnce'
<1>0. /\ LinkTypeOK /\ WireTypeOK /\ SendCommand(req, box) /\ AnsweredIn(box) \subseteq AnswerReqs
      /\ box \in Seq(InboxMsg) /\ commandQueue \in Seq(QueueReq)
      /\ \A r \in LoopReq : r.op \in Epochs /\ r.kind # "stop"
  BY AnsweredTypes, BoxIsRead DEF Asks, LoopReq, BlockReq, FinishReq
<1>1. /\ SettledReqs' = SettledReqs /\ headSent' = headSent /\ settled' = settled
      /\ (headSent => Head(commandQueue') = Head(commandQueue))
      /\ pending' \cap LoopReq = pending \cap LoopReq
      /\ AnswerReqs' \subseteq AnsweredIn(box) \cup {req}
      /\ ToSet(commandQueue') \subseteq ToSet(commandQueue) \cup {req}
  <2>1. /\ pending \subseteq pending' /\ pending' \subseteq pending \cup {req}
        /\ pending' # pending => req.kind = "stop"
        /\ SettledReqs' = SettledReqs /\ headSent' = headSent
        /\ (headSent => Head(commandQueue') = Head(commandQueue))
        /\ AnswerReqs' \subseteq AnsweredIn(box) \cup {req}
        /\ ToSet(commandQueue') \subseteq ToSet(commandQueue) \cup {req}
    BY <1>0, SendElements
  <2>2. settled' = settled
    BY <1>0 DEF SendCommand
  <2> QED
    BY <1>0, <2>1, <2>2
<1>2. req \in LoopReq => /\ req \notin ToSet(commandQueue) /\ req \notin AnsweredIn(box)
                         /\ req \in Owed(req.op)'
  BY DEF Asks, Quiet
<1>3. ASSUME NEW r \in LoopReq, r \in ToSet(commandQueue') \cup AnswerReqs' PROVE r \in Owed(r.op)'
  <2>1. CASE r = req
    BY <1>2, <1>3, <2>1
  <2>2. CASE r # req
    <3>1. r \in ToSet(commandQueue) \cup AnsweredIn(box) /\ r.op \in Epochs
      BY <1>0, <1>1, <1>3, <2>2
    <3>2. r \in Owed(r.op)
      BY <1>0, <1>3, <3>1 DEF AnsweredOnce
    <3>3. r.op # e
      BY <1>3, <3>1 DEF Asks, Quiet, Epochs
    <3> QED
      BY <3>1, <3>2, <3>3 DEF Asks
  <2> QED
    BY <2>1, <2>2
<1>4. Once(commandQueue', LoopReq) /\ OncePer(box, "answer") /\ Once(commandQueue, LoopReq)
  <2>1. CASE commandQueue' = commandQueue
    BY <1>0, <2>1, BoxOnce DEF AnsweredOnce
  <2>2. CASE req.kind # "stop" /\ commandQueue' = Append(commandQueue, req)
    <3>1. req \in QueueReq
      BY <2>2, Kinds
    <3>2. Once(commandQueue, LoopReq)
      BY DEF AnsweredOnce
    <3>3. Once(Append(commandQueue, req), LoopReq)
      BY <1>0, <1>2, <3>1, <3>2, OnceOf
    <3> QED
      BY <1>0, <2>2, <3>2, <3>3, BoxOnce DEF AnsweredOnce
  <2> QED
    BY <1>0, <2>1, <2>2 DEF SendCommand, JumpsQueue
<1>5. OncePer(inbox', "answer") /\ \A r \in ToSet(commandQueue') \cap LoopReq : r \notin AnswerReqs'
  <2>1. CASE inbox' = Append(box, Answer(req, FALSE)) /\ commandQueue' = commandQueue
    <3> DEFINE x == Answer(req, FALSE)
    <3>1. x \in InboxMsg /\ x.req = req
      BY Kinds DEF InboxMsg, Answer
    <3>2. req \in LoopReq => \A m \in ToSet(box) : m.type = "answer" => m.req # req
      BY <1>2 DEF AnsweredIn
    <3>3. inbox' = Append(box, x)
      BY <2>1
    <3> HIDE DEF x
    <3>4. OncePer(Append(box, x), "answer")
      BY <1>0, <1>4, <3>1, <3>2, OncePerOf
    <3>5. \A r \in ToSet(commandQueue') \cap LoopReq : r \notin AnsweredIn(box) /\ r # req
      BY <1>0, <1>2, <2>1 DEF AnsweredOnce
    <3> QED
      BY <1>1, <3>3, <3>4, <3>5
  <2>2. CASE inbox' = box
    <3>1. AnswerReqs' = AnsweredIn(box)
      BY <2>2 DEF AnswerReqs
    <3>2. \A r \in ToSet(commandQueue) \cap LoopReq : r \notin AnsweredIn(box)
      BY <1>0 DEF AnsweredOnce
    <3> QED
      BY <1>1, <1>2, <1>4, <2>2, <3>1, <3>2
  <2> QED
    BY <1>0, <2>1, <2>2 DEF SendCommand
<1>6. \A r \in (pending' \cup SettledReqs') \cap LoopReq : headSent' /\ r = Head(commandQueue')
  <2> SUFFICES ASSUME NEW r \in (pending' \cup SettledReqs') \cap LoopReq
               PROVE  headSent' /\ r = Head(commandQueue')
    OBVIOUS
  <2>1. r \in (pending \cup SettledReqs) \cap LoopReq
    BY <1>1
  <2>2. headSent /\ r = Head(commandQueue)
    BY <2>1 DEF AnsweredOnce
  <2> QED
    BY <1>1, <2>2
<1>7. \A r \in pending' \cap LoopReq : r \notin SettledReqs'
  BY <1>1 DEF AnsweredOnce
<1>8. OncePer(settled', "reply")
  BY <1>1 DEF AnsweredOnce
<1> QED
  BY <1>3, <1>4, <1>5, <1>6, <1>7, <1>8 DEF AnsweredOnce

\* Every step keeps each answer from coming twice.
LEMMA AnsweredKept ==
  ASSUME DesktopInvariant, Next
  PROVE  AnsweredOnce'
<1>0. DesktopTypeOK /\ AnsweredOnce
  BY DEF DesktopInvariant
<1>1. CASE Device
  <2>1. UNCHANGED <<linkVars, loop, inbox>>
    BY <1>1 DEF Device, Serve, Execute, Complete, Fault, DrainResult, DrainFault, DeviceKeeps, taskVars
  <2>2. \A e : Owed(e)' = Owed(e)
    BY <2>1, SameOwed
  <2>3. AnswerReqs' = AnswerReqs /\ SettledReqs' = SettledReqs
    BY <2>1 DEF AnswerReqs, SettledReqs, linkVars
  <2> QED
    BY <1>0, <2>1, <2>2, <2>3 DEF AnsweredOnce, linkVars
<1>2. CASE LinkSteps \/ LinkBreaks
  <2>1. loop' = loop
    BY <1>2 DEF LinkSteps, LinkBreaks, taskVars
  <2> QED
    BY <1>0, <1>2, <2>1, RunCommandAnswers, ReceiveAnswers, ResumeAnswers, RequestTimeoutAnswers,
       DisconnectAnswers DEF LinkSteps, LinkBreaks
<1>3. CASE Loops \/ User
  <2>1. PICK box : Box(box) /\ LoopMove(box)
    BY <1>3, InterfaceMoves
  <2> QED
    BY <1>0, <2>1, MoveOwed, HearsAnswers, AsksAnswers
<1> QED
  BY <1>1, <1>2, <1>3 DEF Next

----------------------------------------------------------------------------
(* The invariant *)

\* The invariant holds when the desktop starts.
LEMMA DesktopInit ==
  ASSUME Init
  PROVE  DesktopInvariant
<1>0. /\ linkUp = TRUE /\ pending = {} /\ commandQueue = << >> /\ headSent = FALSE
      /\ activeBlock = NoBlock /\ settled = << >>
      /\ toDevice = << >> /\ fromDevice = << >> /\ inbox = << >>
      /\ epoch = 0 /\ loop = [e \in 1..MaxEpoch |-> NotBegun]
      /\ running = FALSE /\ taskRunning = FALSE /\ rendered = FALSE
      /\ requiresRecovery = FALSE /\ cancelRequested = FALSE /\ activeRun = 0
      /\ position = NoBlock /\ resets = 0
      /\ slot = "free" /\ outcome = "none"
      /\ faulted = FALSE /\ faultNotice = FALSE
      /\ owner = NoBlock /\ completed = {} /\ finished = {}
  BY DEF Init, LinkInit, TaskInit, LifecycleInit
<1>1. NotBegun \in LoopState /\ NotBegun.phase = "none" /\ NotBegun.outcome = "open"
  BY TaskAssumption DEF NotBegun, LoopState, Phase
<1>2. \A e \in Epochs : loop[e] = NotBegun
  BY <1>0 DEF Epochs
<1>3. ToSet(commandQueue) = {} /\ ToSet(toDevice) = {} /\ ToSet(fromDevice) = {} /\ ToSet(inbox) = {}
      /\ ToSet(settled) = {}
  BY <1>0, EmptyElements
<1>4. SettledReqs = {} /\ AnswerReqs = {} /\ Coming = {} /\ Asked = {} /\ Results = {}
  BY <1>0, <1>3 DEF SettledReqs, AnswerReqs, AnsweredIn, Coming, Asked, Results
<1>5. Blocks = {} /\ NoBlock.kind = "none"
  BY <1>0, <1>4 DEF Blocks, NoBlock, Req
<1>6. DesktopTypeOK
  <2>1. LinkTypeOK /\ WireTypeOK
    <3>1. IsFiniteSet({}) /\ \A T : << >> \in Seq(T)
      BY FS_EmptySet
    <3> QED
      BY <1>0, <3>1 DEF LinkTypeOK, WireTypeOK
  <2>2. LoopTypeOK
    <3>1. loop \in [Epochs -> LoopState]
      BY <1>0, <1>1 DEF Epochs
    <3> QED
      BY <1>1, <1>2, <3>1 DEF LoopTypeOK
  <2>3. FlagTypeOK
    <3>1. 0 \in 0..MaxEpoch /\ 0 \in 0..MaxResets
      BY TaskAssumption
    <3> QED
      BY <1>0, <3>1 DEF FlagTypeOK
  <2>4. DeviceTypeOK
    BY <1>0 DEF DeviceTypeOK
  <2> QED
    BY <2>1, <2>2, <2>3, <2>4 DEF DesktopTypeOK
<1>7. RunningIsAlive
  BY <1>0 DEF RunningIsAlive
<1>8. EveryWaitIsAnswered
  BY <1>0, <1>1 DEF EveryWaitIsAnswered, Epochs
<1>9. Evidence
  BY <1>0, <1>1, <1>2, <1>4, <1>5
  DEF Evidence, DoneIsCompleted, FinishIsEarned, FinishedMeansDone, PositionIsReached,
      BlocksAreOrdered, LoopIsAhead
<1>10. Unsent = << >> /\ ToSet(Unsent) = {} /\ Len(commandQueue) = 0 /\ Len(inbox) = 0 /\ Len(settled) = 0
       /\ Len(toDevice) = 0 /\ Len(Unsent) = 0
  BY <1>0, <1>3 DEF Unsent
<1>11. ServedOnce
  BY <1>0, <1>3, <1>10 DEF ServedOnce, Once
<1>12. AnsweredOnce
  BY <1>0, <1>3, <1>4, <1>10 DEF AnsweredOnce, Once, OncePer
<1>13. OneBlockEach
  BY <1>0, <1>3, <1>4, <1>10 DEF OneBlockEach, Around
<1> QED
  BY <1>6, <1>7, <1>8, <1>9, <1>11, <1>12, <1>13 DEF DesktopInvariant

\* A step that changes nothing.
LEMMA DesktopStutter ==
  ASSUME DesktopInvariant, UNCHANGED vars
  PROVE  DesktopInvariant'
<1>1. /\ UNCHANGED <<linkUp, pending, commandQueue, headSent, activeBlock, settled>>
      /\ UNCHANGED <<toDevice, fromDevice, inbox>>
      /\ UNCHANGED <<epoch, loop, running, taskRunning, rendered, requiresRecovery, cancelRequested,
                     activeRun, position, resets>>
      /\ UNCHANGED <<slot, job, outcome, reports, faulted, faultNotice, owner, completed, finished, faults>>
  BY DEF vars, linkVars, wireVars, taskVars, deviceVars, lifecycleVars
<1>2. Coming' = Coming /\ Asked' = Asked /\ Results' = Results /\ Blocks' = Blocks /\ Unsent' = Unsent
      /\ Around' = Around /\ SettledReqs' = SettledReqs /\ AnswerReqs' = AnswerReqs
  BY <1>1 DEF Coming, Asked, Results, Blocks, Unsent, Around, SettledReqs, AnswerReqs
<1>3. DesktopTypeOK'
  BY <1>1 DEF DesktopInvariant, DesktopTypeOK, LinkTypeOK, WireTypeOK, LoopTypeOK, FlagTypeOK, DeviceTypeOK
<1>4. RunningIsAlive'
  BY <1>1 DEF DesktopInvariant, RunningIsAlive, Alive
<1>5. EveryWaitIsAnswered'
  BY <1>1 DEF DesktopInvariant, EveryWaitIsAnswered, AnswerComes, BlockOf
<1>6. Evidence'
  BY <1>1, <1>2 DEF DesktopInvariant, Evidence, DoneIsCompleted, FinishIsEarned, FinishedMeansDone,
     PositionIsReached, BlocksAreOrdered, LoopIsAhead, TaskDone, BlockOf, Ordered, Predecessors
<1>7. ServedOnce'
  BY <1>1, <1>2 DEF DesktopInvariant, ServedOnce
<1>8. AnsweredOnce'
  BY <1>1, <1>2 DEF DesktopInvariant, AnsweredOnce, Owed, BlockOf
<1>9. OneBlockEach'
  BY <1>1, <1>2 DEF DesktopInvariant, OneBlockEach, Current, BlockOf
<1> QED
  BY <1>3, <1>4, <1>5, <1>6, <1>7, <1>8, <1>9 DEF DesktopInvariant

\* The invariant of the desktop with its device: what each layer says holds in every
\* state, for any number of blocks, operations, resets and faults.
THEOREM DesktopInvariance ==
  Spec => []DesktopInvariant
<1>1. DesktopInvariant /\ Next => DesktopInvariant'
  BY TypesKept, RunningKeptAlive, WaitingKept, EvidenceKept, ServedKept, AnsweredKept, OneBlockKept
  DEF DesktopInvariant
<1>2. DesktopInvariant /\ UNCHANGED vars => DesktopInvariant'
  BY DesktopStutter
<1>3. Init => DesktopInvariant
  BY DesktopInit
<1> QED
  BY <1>1, <1>2, <1>3, PTL DEF Spec

----------------------------------------------------------------------------
(* Theorems *)

\* A task is finished on the device only after its last block was done (sendCommand
\* and the device look at no block but the active one).
THEOREM TaskFinishedAfterItsBlocks ==
  Spec => []FinishedMeansDone
<1>1. DesktopInvariant => FinishedMeansDone
  BY DEF DesktopInvariant, Evidence
<1> QED
  BY <1>1, DesktopInvariance, PTL

\* The position from which the next task is planned is one the motors were moved to,
\* whichever loop wrote it (positionRef).
THEOREM PositionWasReached ==
  Spec => []PositionIsReached
<1>1. DesktopInvariant => PositionIsReached
  BY DEF DesktopInvariant, Evidence
<1> QED
  BY <1>1, DesktopInvariance, PTL

\* While the user interface refuses a task because one is running, a loop is alive
\* whose end clears that (runningRef).
THEOREM RunningAlwaysHasLoop ==
  Spec => []RunningHasLoop
<1>1. DesktopInvariant => RunningHasLoop
  BY DEF DesktopInvariant, RunningIsAlive, RunningHasLoop, Alive, Epochs
<1> QED
  BY <1>1, DesktopInvariance, PTL

\* A loop never meets its own last block in the slot (requireDone waits for its result).
THEOREM OwnBlockAlwaysOver ==
  Spec => []OwnBlockIsOver
<1>1. DesktopInvariant => OwnBlockIsOver
  <2> SUFFICES ASSUME DesktopInvariant, toDevice # << >>, Head(toDevice).kind = "block", slot # "free",
                      owner.op = Head(toDevice).op
               PROVE  FALSE
    BY DEF OwnBlockIsOver
  <2> DEFINE b == Head(toDevice)
  <2>1. toDevice \in Seq(Request) /\ owner \in BlockReq
    BY DEF DesktopInvariant, DesktopTypeOK, WireTypeOK, DeviceTypeOK
  <2>2. b \in ToSet(toDevice) /\ b \in BlockReq
    BY <2>1, TailElements, Kinds
  <2>3. b \in Around /\ owner \in Around
    BY <2>2 DEF Around
  <2>4. b = owner
    BY <2>3 DEF DesktopInvariant, OneBlockEach
  <2>5. b # owner
    BY <2>2 DEF DesktopInvariant, ServedOnce
  <2> QED
    BY <2>4, <2>5
<1> QED
  BY <1>1, DesktopInvariance, PTL

\* No loop waits for an answer that cannot come, and the command queue is never held by
\* a request that is over (handleDisconnect, the timers, enqueue).
THEOREM EveryWaitAlwaysAnswered ==
  Spec => []EveryWaitIsAnswered
<1>1. DesktopInvariant => EveryWaitIsAnswered
  BY DEF DesktopInvariant
<1> QED
  BY <1>1, DesktopInvariance, PTL

\* The motors execute a block at most once, and after the block of the same operation
\* before it, whatever was cancelled, stopped, lost, reset or started meanwhile.
THEOREM BlocksExecuteInOrder ==
  Spec => BlocksInOrder
<1>1. DesktopInvariant /\ [Next]_vars =>
        [Completes =>
           /\ owner \notin completed
           /\ owner.index = 1 \/ Predecessors(owner) \cap completed # {} ]_vars
  <2> SUFFICES ASSUME DesktopInvariant, Completes
               PROVE  /\ owner \notin completed
                      /\ owner.index = 1 \/ Predecessors(owner) \cap completed # {}
    OBVIOUS
  <2>1. slot = "executing"
    BY DEF Completes
  <2>2. owner \in BlockReq
    BY <2>1 DEF DesktopInvariant, DesktopTypeOK, DeviceTypeOK
  <2>3. owner \notin completed
    BY <2>1 DEF DesktopInvariant, ServedOnce
  <2>4. Ordered(owner)
    BY <2>2, Kinds DEF DesktopInvariant, Evidence, BlocksAreOrdered, Blocks, BlockReq
  <2> QED
    BY <2>3, <2>4 DEF Ordered
<1> QED
  BY <1>1, DesktopInvariance, PTL DEF Spec, BlocksInOrder
=============================================================================
