---------------------------- MODULE DesktopSteps -----------------------------
(***************************************************************************)
(* The desktop with its device, for any number of blocks, operations,      *)
(* resets and faults: the invariant, and how a step of the user interface  *)
(* moves the loops.  The invariant has layers:                             *)
(*                                                                         *)
(*   1. types, and which requests a message can be about;                  *)
(*   2. who waits, and for what answer;                                    *)
(*   3. what is believed done was completed by the motors;                 *)
(*   4. each block is served at most once;                                 *)
(*   5. each answer is heard at most once;                                 *)
(*   6. of each operation at most one block is on its way or in the slot.  *)
(*                                                                         *)
(* Lines, answers and events are sequences, but the layers mostly speak of *)
(* the sets of what is in them, so the lemmas first say how these sets     *)
(* change.  What the user interface does then comes down to nine moves of  *)
(* the loops: DesktopProofs knows the actions of PrintTask only by these.  *)
(***************************************************************************)
EXTENDS Desktop, FiniteSetTheorems, SequenceTheorems, TLAPS

----------------------------------------------------------------------------
(* 1. Types *)

Epochs == 1..MaxEpoch
BlockReq == [kind : {"block"}, op : Epochs, index : 1..(JobBlocks + ReturnBlocks)]
FinishReq == [kind : {"finish"}, op : Epochs, index : {0}]
StopReq == [kind : {"stop"}, op : Epochs, index : {0}]
ResetReq == [kind : {"reset"}, op : 1..MaxResets, index : {0}]
QueueReq == BlockReq \cup FinishReq \cup ResetReq
Request == QueueReq \cup StopReq

ReplyMsg == [type : {"reply"}, req : Request, ok : BOOLEAN]
AnswerMsg == [type : {"answer"}, req : Request, ok : BOOLEAN]
ResultMsg == [type : {"result"}, req : BlockReq, status : Outcome]
WireMsg == ReplyMsg \cup ResultMsg \cup {FaultEvent}
InboxMsg == AnswerMsg \cup ResultMsg \cup {FaultEvent}

LoopState == [phase : Phase, index : 0..(JobBlocks + ReturnBlocks),
              outcome : {"open", "done", "failed", "aborted"}, returning : BOOLEAN]

LinkTypeOK ==
  /\ linkUp \in BOOLEAN /\ headSent \in BOOLEAN
  /\ pending \in SUBSET Request /\ IsFiniteSet(pending)
  /\ commandQueue \in Seq(QueueReq) /\ (headSent => commandQueue # << >>)
  /\ activeBlock \in BlockReq \cup {NoBlock}
  /\ settled \in Seq(ReplyMsg)

WireTypeOK ==
  /\ toDevice \in Seq(Request) /\ fromDevice \in Seq(WireMsg) /\ inbox \in Seq(InboxMsg)

\* A loop that has begun is at a block of its task, or of the return to zero.
LoopTypeOK ==
  /\ loop \in [Epochs -> LoopState]
  /\ \A e \in Epochs : loop[e].phase # "none" =>
       IF loop[e].returning THEN loop[e].index > JobBlocks
                            ELSE loop[e].index \in 1..JobBlocks
  /\ \A e \in Epochs : e > epoch => loop[e] = NotBegun

FlagTypeOK ==
  /\ epoch \in 0..MaxEpoch /\ resets \in 0..MaxResets /\ activeRun \in 0..MaxEpoch
  /\ running \in BOOLEAN /\ taskRunning \in BOOLEAN /\ rendered \in BOOLEAN
  /\ requiresRecovery \in BOOLEAN /\ cancelRequested \in BOOLEAN

DeviceTypeOK ==
  /\ slot \in {"free", "reserved", "executing", "ended"}
  /\ outcome \in Outcome \cup {"none"} /\ (slot = "ended" => outcome \in Outcome)
  /\ owner \in BlockReq \cup {NoBlock} /\ (slot # "free" => owner \in BlockReq)
  /\ faulted \in BOOLEAN /\ faultNotice \in BOOLEAN
  /\ completed \in SUBSET BlockReq /\ finished \in SUBSET Epochs
  /\ position \in BlockReq \cup {NoBlock}

DesktopTypeOK == LinkTypeOK /\ WireTypeOK /\ LoopTypeOK /\ FlagTypeOK /\ DeviceTypeOK

----------------------------------------------------------------------------
(* 2. Waiting *)

Alive(e) == loop[e].phase \in {"ack", "result", "finish"}

RunningIsAlive == running \/ taskRunning => epoch \in Epochs /\ Alive(epoch)

----------------------------------------------------------------------------
(* 3. Evidence *)

AnsweredIn(box) == {m.req : m \in {n \in ToSet(box) : n.type = "answer"}}
AnswerReqs == AnsweredIn(inbox)
SettledReqs == {m.req : m \in ToSet(settled)}

\* The requests whose answer is still to be heard; the requests that are under way
\* in any form.
Coming == ToSet(commandQueue) \cup pending \cup SettledReqs \cup AnswerReqs
Asked == Coming \cup ToSet(toDevice)

Results == {m \in ToSet(fromDevice) \cup ToSet(inbox) : m.type = "result"}

TaskDone(e) == Req("block", e, JobBlocks) \in completed

DoneIsCompleted ==
  /\ slot = "ended" /\ outcome = "done" => owner \in completed
  /\ \A m \in Results : m.status = "done" => m.req \in completed
  /\ \A e \in Epochs : loop[e].outcome = "done" => BlockOf(e) \in completed

FinishIsEarned ==
  /\ \A e \in Epochs : loop[e].phase = "finish" => TaskDone(e)
  /\ \A r \in Asked : r.kind = "finish" => TaskDone(r.op)

Blocks == {r \in Asked \cup {owner} : r.kind = "block"}

Ordered(b) == b.index = 1 \/ Predecessors(b) \cap completed # {}

BlocksAreOrdered == \A b \in Blocks : Ordered(b)

\* A loop sends its blocks by rising index: whatever it sends next is new.
LoopIsAhead ==
  /\ \A b \in Blocks \cup completed : b.index <= loop[b.op].index
  /\ \A m \in Results : m.req.index <= loop[m.req.op].index

Evidence ==
  /\ DoneIsCompleted /\ FinishIsEarned /\ FinishedMeansDone /\ PositionIsReached
  /\ BlocksAreOrdered /\ LoopIsAhead

----------------------------------------------------------------------------
(* 4. Each block is served once *)

\* The commands that were not sent yet.
Unsent == IF headSent THEN Tail(commandQueue) ELSE commandQueue

Once(s, S) == \A i, j \in 1..Len(s) : s[i] \in S /\ s[i] = s[j] => i = j

ServedOnce ==
  /\ Once(Unsent, BlockReq) /\ Once(toDevice, BlockReq)
  /\ \A b \in ToSet(Unsent) \cap BlockReq :
       b \notin ToSet(toDevice) /\ b # owner /\ b \notin completed
  /\ \A b \in ToSet(toDevice) \cap BlockReq : b # owner /\ b \notin completed
  /\ slot \in {"reserved", "executing"} => owner \notin completed

----------------------------------------------------------------------------
(* 5. Each answer is heard once *)

LoopReq == BlockReq \cup FinishReq

\* What the loop of e waits to be answered.
Owed(e) == CASE loop[e].phase = "ack" -> {BlockOf(e)}
             [] loop[e].phase = "finish" -> {Req("finish", e, 0)}
             [] OTHER -> {}

\* No two messages of the kind are about one request of a loop.
OncePer(s, kind) ==
  \A i, j \in 1..Len(s) :
    /\ s[i].type = kind /\ s[j].type = kind
    /\ s[i].req \in LoopReq /\ s[i].req = s[j].req
    => i = j

AnsweredOnce ==
  /\ \A r \in (ToSet(commandQueue) \cup AnswerReqs) \cap LoopReq : r \in Owed(r.op)
  /\ Once(commandQueue, LoopReq) /\ OncePer(inbox, "answer") /\ OncePer(settled, "reply")
  /\ \A r \in ToSet(commandQueue) \cap LoopReq : r \notin AnswerReqs
  /\ \A r \in (pending \cup SettledReqs) \cap LoopReq : headSent /\ r = Head(commandQueue)
  /\ \A r \in pending \cap LoopReq : r \notin SettledReqs

----------------------------------------------------------------------------
(* 6. One block of each operation *)

\* The blocks that are still to be served, and the one that is.
Around == (ToSet(Unsent) \cap BlockReq) \cup (ToSet(toDevice) \cap BlockReq)
            \cup (IF slot = "free" THEN {} ELSE {owner})

\* Its loop waits for it, or has given up.
Current(b) ==
  \/ loop[b.op].phase = "over"
  \/ loop[b.op].phase \in {"ack", "result"} /\ BlockOf(b.op) = b /\ loop[b.op].outcome # "done"

OneBlockEach ==
  /\ \A b \in Around : Current(b)
  /\ \A b, c \in Around : b.op = c.op => b = c
  /\ \A m \in Results : m.req \notin Around

DesktopInvariant ==
  /\ DesktopTypeOK
  /\ RunningIsAlive /\ EveryWaitIsAnswered
  /\ Evidence
  /\ ServedOnce
  /\ AnsweredOnce
  /\ OneBlockEach

----------------------------------------------------------------------------
(* Sequences and their elements *)

\* The set of what is in a sequence.
LEMMA ElementsAre ==
  ASSUME NEW T, NEW s \in Seq(T)
  PROVE  /\ ToSet(s) \subseteq T
         /\ \A i \in 1..Len(s) : s[i] \in ToSet(s)
         /\ \A x \in ToSet(s) : \E i \in 1..Len(s) : x = s[i]
BY LenProperties, ElementOfSeq DEF ToSet

\* Nothing is in an empty one.
LEMMA EmptyElements ==
  ToSet(<< >>) = {}
BY DEF ToSet

\* What is in a sequence, and first in it, after an append.
LEMMA AppendElements ==
  ASSUME NEW T, NEW s \in Seq(T), NEW x \in T
  PROVE  /\ Append(s, x) \in Seq(T) /\ Append(s, x) # << >>
         /\ ToSet(Append(s, x)) = ToSet(s) \cup {x}
         /\ s # << >> => Head(Append(s, x)) = Head(s) /\ Tail(Append(s, x)) = Append(Tail(s), x)
         /\ s = << >> => Head(Append(s, x)) = x /\ Tail(Append(s, x)) = << >>
<1> DEFINE a == Append(s, x)
<1>1. /\ a \in Seq(T) /\ a # << >> /\ Len(a) = Len(s) + 1
      /\ \A i \in 1..Len(s) : a[i] = s[i]
      /\ a[Len(s) + 1] = x
  BY AppendProperties
<1>2. Len(s) \in Nat
  BY LenProperties
<1>3. ToSet(a) = ToSet(s) \cup {x}
  <2> HIDE DEF a
  <2>1. ASSUME NEW y \in ToSet(a) PROVE y \in ToSet(s) \cup {x}
    <3>1. PICK i \in 1..(Len(s) + 1) : y = a[i]
      BY <1>1, <2>1, ElementsAre
    <3>2. CASE i \in 1..Len(s)
      BY <1>1, <3>1, <3>2, ElementsAre
    <3>3. CASE i = Len(s) + 1
      BY <1>1, <3>1, <3>3
    <3> QED
      BY <1>2, <3>2, <3>3
  <2>2. ASSUME NEW y \in ToSet(s) PROVE y \in ToSet(a)
    <3>1. PICK i \in 1..Len(s) : y = s[i]
      BY <2>2, ElementsAre
    <3>2. i \in 1..Len(a) /\ y = a[i]
      BY <1>1, <1>2, <3>1
    <3> QED
      BY <1>1, <3>2, ElementsAre
  <2>3. Len(a) \in 1..Len(a)
    BY <1>1, <1>2
  <2>4. x \in ToSet(a)
    BY <1>1, <2>3, ElementsAre
  <2> QED
    BY <2>1, <2>2, <2>4
<1>4. s # << >> => Head(Append(s, x)) = Head(s) /\ Tail(Append(s, x)) = Append(Tail(s), x)
  BY HeadTailAppend
<1>5. s = << >> => Head(Append(s, x)) = x /\ Tail(Append(s, x)) = << >>
  BY HeadTailAppend
<1> QED
  BY <1>1, <1>3, <1>4, <1>5

\* What is in a sequence besides its head.
LEMMA TailElements ==
  ASSUME NEW T, NEW s \in Seq(T), s # << >>
  PROVE  /\ Tail(s) \in Seq(T) /\ Head(s) \in T /\ Head(s) \in ToSet(s)
         /\ Len(Tail(s)) = Len(s) - 1 /\ Len(s) \in Nat \ {0}
         /\ Head(s) = s[1] /\ \A i \in 1..(Len(s) - 1) : Tail(s)[i] = s[i + 1]
         /\ ToSet(s) = ToSet(Tail(s)) \cup {Head(s)}
<1>1. /\ Tail(s) \in Seq(T) /\ Head(s) \in T
      /\ Len(Tail(s)) = Len(s) - 1 /\ Len(s) \in Nat \ {0}
      /\ Head(s) = s[1] /\ \A i \in 1..(Len(s) - 1) : Tail(s)[i] = s[i + 1]
  BY HeadTailProperties, LenProperties, EmptySeq
<1>2. Head(s) \in ToSet(s)
  BY <1>1, ElementsAre
<1>3. ToSet(Tail(s)) \subseteq ToSet(s)
  <2> DEFINE u == Tail(s)
  <2> SUFFICES ASSUME NEW y \in ToSet(u) PROVE y \in ToSet(s)
    OBVIOUS
  <2>0. u \in Seq(T) /\ Len(u) = Len(s) - 1
    BY <1>1
  <2> HIDE DEF u
  <2>a. PICK i \in 1..(Len(s) - 1) : y = u[i]
    BY <2>0, ElementsAre
  <2>1. y = Tail(s)[i]
    BY <2>a DEF u
  <2>2. i + 1 \in 1..Len(s) /\ y = s[i + 1]
    BY <1>1, <2>1
  <2> QED
    BY <2>2, ElementsAre
<1>4. ToSet(s) \subseteq ToSet(Tail(s)) \cup {Head(s)}
  <2> SUFFICES ASSUME NEW y \in ToSet(s) PROVE y \in ToSet(Tail(s)) \cup {Head(s)}
    OBVIOUS
  <2>1. PICK i \in 1..Len(s) : y = s[i]
    BY ElementsAre
  <2>2. CASE i = 1
    BY <1>1, <2>1, <2>2
  <2>3. CASE i # 1
    <3>1. i - 1 \in 1..Len(Tail(s)) /\ y = Tail(s)[i - 1]
      BY <1>1, <2>1, <2>3
    <3> QED
      BY <1>1, <3>1, ElementsAre
  <2> QED
    BY <2>2, <2>3
<1> QED
  BY <1>1, <1>2, <1>3, <1>4

\* What is in two sequences together.
LEMMA ConcatElements ==
  ASSUME NEW T, NEW s \in Seq(T), NEW t \in Seq(T)
  PROVE  s \o t \in Seq(T) /\ ToSet(s \o t) = ToSet(s) \cup ToSet(t)
<1>1. /\ s \o t \in Seq(T) /\ Len(s \o t) = Len(s) + Len(t)
      /\ \A i \in 1..(Len(s) + Len(t)) : (s \o t)[i] = IF i <= Len(s) THEN s[i] ELSE t[i - Len(s)]
  BY ConcatProperties
<1>2. Len(s) \in Nat /\ Len(t) \in Nat
  BY LenProperties
<1>3. ToSet(s \o t) \subseteq ToSet(s) \cup ToSet(t)
  <2> SUFFICES ASSUME NEW y \in ToSet(s \o t) PROVE y \in ToSet(s) \cup ToSet(t)
    OBVIOUS
  <2>1. PICK i \in 1..(Len(s) + Len(t)) : y = (s \o t)[i]
    BY <1>1, ElementsAre
  <2>2. CASE i <= Len(s)
    BY <1>1, <1>2, <2>1, <2>2, ElementsAre
  <2>3. CASE ~(i <= Len(s))
    <3>1. i - Len(s) \in 1..Len(t) /\ y = t[i - Len(s)]
      BY <1>1, <1>2, <2>1, <2>3
    <3> QED
      BY <3>1, ElementsAre
  <2> QED
    BY <2>2, <2>3
<1>4. ToSet(s) \subseteq ToSet(s \o t)
  <2> SUFFICES ASSUME NEW i \in 1..Len(s) PROVE s[i] \in ToSet(s \o t)
    BY ElementsAre
  <2>1. i \in 1..(Len(s) + Len(t)) /\ s[i] = (s \o t)[i]
    BY <1>1, <1>2
  <2> QED
    BY <1>1, <2>1, ElementsAre
<1>5. ToSet(t) \subseteq ToSet(s \o t)
  <2> SUFFICES ASSUME NEW i \in 1..Len(t) PROVE t[i] \in ToSet(s \o t)
    BY ElementsAre
  <2>1. i + Len(s) \in 1..(Len(s) + Len(t)) /\ t[i] = (s \o t)[i + Len(s)]
    BY <1>1, <1>2
  <2> QED
    BY <1>1, <2>1, ElementsAre
<1> QED
  BY <1>1, <1>3, <1>4, <1>5

----------------------------------------------------------------------------
(* Requests and messages *)

\* SetToSeq lists every element once.
LEMMA SetToSeqElements ==
  ASSUME NEW S, IsFiniteSet(S)
  PROVE  /\ SetToSeq(S) \in Seq(S)
         /\ \A i, j \in 1..Len(SetToSeq(S)) : SetToSeq(S)[i] = SetToSeq(S)[j] => i = j
         /\ \A x \in S : \E i \in 1..Len(SetToSeq(S)) : SetToSeq(S)[i] = x
<1> DEFINE n == Cardinality(S)
           Q == [1..n -> S]
           f == CHOOSE g \in Q : IsInjective(g)
<1>1. n \in Nat /\ ExistsBijection(1..n, S)
  BY FS_CardinalityType
<1>2. IsFiniteSet(1..n) /\ Cardinality(1..n) = n
  BY <1>1, FS_Interval, FS_SameCardinalityBij, FS_Bijection, FS_CardinalityType
<1>3. \E g \in Q : IsInjective(g)
  BY <1>1 DEF ExistsBijection, Bijection, Injection
<1>4. f \in [1..n -> S] /\ IsInjective(f)
  BY <1>3
<1>5. f = SetToSeq(S)
  BY DEF SetToSeq
<1> HIDE DEF f, Q
<1>6. f \in Injection(1..n, S)
  BY <1>4 DEF Injection
<1>7. f \in Surjection(1..n, S)
  BY <1>1, <1>2, <1>6, FS_Injection
<1> HIDE DEF n
<1>8. f \in Seq(S) /\ Len(f) = n
  BY <1>1, <1>4
<1> QED
  BY <1>4, <1>5, <1>7, <1>8 DEF IsInjective, Surjection

\* The answers to what waits when the connection breaks: one for each request.
LEMMA UnansweredElements ==
  ASSUME pending \in SUBSET Request, IsFiniteSet(pending)
  PROVE  /\ Unanswered \in Seq(AnswerMsg)
         /\ ToSet(Unanswered) = {Answer(r, FALSE) : r \in pending}
         /\ \A i, j \in 1..Len(Unanswered) : Unanswered[i].req = Unanswered[j].req => i = j
<1> DEFINE w == SetToSeq(pending)
           e(i) == Answer(w[i], FALSE)
           u == Unanswered
           n == Len(w)
<1>1. /\ w \in Seq(pending)
      /\ \A i, j \in 1..Len(w) : w[i] = w[j] => i = j
      /\ \A x \in pending : \E i \in 1..Len(w) : w[i] = x
  BY SetToSeqElements
<1>2. Unanswered = [i \in DOMAIN w |-> e(i)]
  BY DEF Unanswered
<1> HIDE DEF w
<1>3. n \in Nat /\ DOMAIN w = 1..n /\ \A i \in 1..n : w[i] \in pending
  BY <1>1, LenProperties, ElementOfSeq
<1> HIDE DEF n
<1>4. \A i \in 1..n : e(i) \in AnswerMsg /\ e(i).req = w[i]
  BY <1>3 DEF Answer, AnswerMsg
<1> HIDE DEF e
<1>5. u = [i \in 1..n |-> e(i)]
  BY <1>2, <1>3
<1> HIDE DEF u
<1>6. u \in Seq(AnswerMsg) /\ Len(u) = n
  BY <1>3, <1>4, <1>5, IsASeq
<1>7. \A i \in 1..n : u[i] = e(i)
  BY <1>5
<1>8. ASSUME NEW y \in ToSet(u) PROVE y \in {Answer(r, FALSE) : r \in pending}
  <2>1. PICK i \in 1..n : y = u[i]
    BY <1>6, ElementsAre
  <2>2. y = Answer(w[i], FALSE) /\ w[i] \in pending
    BY <1>3, <1>7, <2>1 DEF e
  <2> QED
    BY <2>2
<1>9. ASSUME NEW r \in pending PROVE Answer(r, FALSE) \in ToSet(u)
  <2>1. PICK i \in 1..n : w[i] = r
    BY <1>1 DEF n
  <2>2. u[i] = Answer(r, FALSE)
    BY <1>7, <2>1 DEF e
  <2> QED
    BY <1>6, <2>2, ElementsAre
<1>10. \A i, j \in 1..n : u[i].req = u[j].req => i = j
  BY <1>1, <1>4, <1>7 DEF n
<1>11. ToSet(u) = {Answer(r, FALSE) : r \in pending}
  BY <1>8, <1>9
<1> QED
  BY <1>6, <1>10, <1>11 DEF u

\* The answers in what the user interface reads grow by what is appended.
LEMMA AnsweredElements ==
  /\ AnsweredIn(<< >>) = {}
  /\ \A T, s, x : s \in Seq(T) /\ x \in T =>
       AnsweredIn(Append(s, x)) = AnsweredIn(s) \cup (IF x.type = "answer" THEN {x.req} ELSE {})
  /\ \A T, s : s \in Seq(T) /\ s # << >> =>
       AnsweredIn(s) = AnsweredIn(Tail(s)) \cup (IF Head(s).type = "answer" THEN {Head(s).req} ELSE {})
<1>1. AnsweredIn(<< >>) = {}
  BY EmptyElements DEF AnsweredIn
<1>2. ASSUME NEW T, NEW s \in Seq(T), NEW x \in T
      PROVE  AnsweredIn(Append(s, x)) = AnsweredIn(s) \cup (IF x.type = "answer" THEN {x.req} ELSE {})
  <2>1. ToSet(Append(s, x)) = ToSet(s) \cup {x}
    BY AppendElements
  <2> QED
    BY <2>1 DEF AnsweredIn
<1>3. ASSUME NEW T, NEW s \in Seq(T), s # << >>
      PROVE  AnsweredIn(s) = AnsweredIn(Tail(s)) \cup (IF Head(s).type = "answer" THEN {Head(s).req} ELSE {})
  <2>1. ToSet(s) = ToSet(Tail(s)) \cup {Head(s)}
    BY <1>3, TailElements
  <2> QED
    BY <2>1 DEF AnsweredIn
<1> QED
  BY <1>1, <1>2, <1>3

\* What kinds of requests and messages there are.
LEMMA Kinds ==
  /\ \A r \in BlockReq : r.kind = "block" /\ r = Req("block", r.op, r.index)
  /\ \A r \in FinishReq : r.kind = "finish" /\ r = Req("finish", r.op, 0)
  /\ \A r \in ResetReq : r.kind = "reset" /\ r = Req("reset", r.op, 0)
  /\ \A r \in StopReq : r.kind = "stop" /\ r = Req("stop", r.op, 0)
  /\ \A r \in Request : /\ r.kind = "block" <=> r \in BlockReq
                        /\ r.kind = "finish" <=> r \in FinishReq
                        /\ r.kind = "stop" <=> r \in StopReq
                        /\ r.kind = "reset" <=> r \in ResetReq
                        /\ r.kind # "stop" <=> r \in QueueReq
  /\ \A m \in WireMsg \cup InboxMsg : /\ m.type = "answer" <=> m \in AnswerMsg
                                      /\ m.type = "result" <=> m \in ResultMsg
                                      /\ m.type = "reply" <=> m \in ReplyMsg
                                      /\ m.type = "fault" <=> m = FaultEvent
  /\ \A r \in Request, ok \in BOOLEAN : /\ Answer(r, ok) \in AnswerMsg
                                        /\ Reply(r, ok) \in ReplyMsg
  /\ NoBlock \notin Request
<1>1. \A r \in BlockReq : r.kind = "block" /\ r = Req("block", r.op, r.index)
  BY DEF BlockReq, Req
<1>2. \A r \in FinishReq : r.kind = "finish" /\ r = Req("finish", r.op, 0)
  BY DEF FinishReq, Req
<1>3. \A r \in ResetReq : r.kind = "reset" /\ r = Req("reset", r.op, 0)
  BY DEF ResetReq, Req
<1>4. \A r \in StopReq : r.kind = "stop" /\ r = Req("stop", r.op, 0)
  BY DEF StopReq, Req
<1>5. \A r \in Request : /\ r.kind = "block" <=> r \in BlockReq
                         /\ r.kind = "finish" <=> r \in FinishReq
                         /\ r.kind = "stop" <=> r \in StopReq
                         /\ r.kind = "reset" <=> r \in ResetReq
                         /\ r.kind # "stop" <=> r \in QueueReq
  BY <1>1, <1>2, <1>3, <1>4 DEF Request, QueueReq
<1>6. /\ \A m \in AnswerMsg : m.type = "answer"
      /\ \A m \in ResultMsg : m.type = "result"
      /\ \A m \in ReplyMsg : m.type = "reply"
      /\ FaultEvent.type = "fault"
  BY DEF AnswerMsg, ResultMsg, ReplyMsg, FaultEvent
<1>7. \A m \in WireMsg \cup InboxMsg : /\ m.type = "answer" <=> m \in AnswerMsg
                                       /\ m.type = "result" <=> m \in ResultMsg
                                       /\ m.type = "reply" <=> m \in ReplyMsg
                                       /\ m.type = "fault" <=> m = FaultEvent
  BY <1>6 DEF WireMsg, InboxMsg
<1>8. \A r \in Request, ok \in BOOLEAN : Answer(r, ok) \in AnswerMsg /\ Reply(r, ok) \in ReplyMsg
  BY DEF Answer, AnswerMsg, Reply, ReplyMsg
<1>9. NoBlock \notin Request
  BY DEF NoBlock, Req, Request, QueueReq, BlockReq, FinishReq, ResetReq, StopReq
<1> QED
  BY <1>1, <1>2, <1>3, <1>4, <1>5, <1>7, <1>8, <1>9

----------------------------------------------------------------------------
(* What a step does to the types of the link *)

\* What the user interface has still to read when it has, perhaps, read one message.
Box(box) == box = inbox \/ (inbox # << >> /\ box = Tail(inbox))

\* What is left in the inbox was in it.
LEMMA BoxIsRead ==
  ASSUME WireTypeOK, NEW box, Box(box)
  PROVE  /\ box \in Seq(InboxMsg) /\ ToSet(box) \subseteq ToSet(inbox)
         /\ AnsweredIn(box) \subseteq AnswerReqs
<1>1. CASE box = inbox
  BY <1>1, ElementsAre DEF WireTypeOK, AnswerReqs
<1>2. CASE inbox # << >> /\ box = Tail(inbox)
  <2>1. inbox \in Seq(InboxMsg)
    BY DEF WireTypeOK
  <2>2. box \in Seq(InboxMsg) /\ ToSet(box) \subseteq ToSet(inbox)
    BY <1>2, <2>1, TailElements
  <2> QED
    BY <2>2 DEF AnsweredIn, AnswerReqs
<1> QED
  BY <1>1, <1>2 DEF Box

\* sendCommand keeps the types of the link.
LEMMA SendTypes ==
  ASSUME LinkTypeOK, WireTypeOK, NEW box, Box(box), NEW req \in Request, SendCommand(req, box)
  PROVE  LinkTypeOK' /\ WireTypeOK'
<1>1. box \in Seq(InboxMsg)
  BY BoxIsRead
<1>2. UNCHANGED <<linkUp, headSent, activeBlock, settled, fromDevice>>
  BY DEF SendCommand
<1>3. CASE inbox' = Append(box, Answer(req, FALSE)) /\ UNCHANGED <<pending, toDevice, commandQueue>>
  <2>1. Answer(req, FALSE) \in InboxMsg
    BY Kinds DEF InboxMsg
  <2>2. inbox' \in Seq(InboxMsg)
    BY <1>1, <1>3, <2>1, AppendElements
  <2> QED
    BY <1>2, <1>3, <2>2 DEF LinkTypeOK, WireTypeOK
<1>4. CASE Send(req) /\ inbox' = box /\ UNCHANGED commandQueue
  <2>1. IsFiniteSet(pending')
    BY <1>4, FS_AddElement DEF Send, LinkTypeOK
  <2>2. toDevice' \in Seq(Request)
    BY <1>4, AppendElements DEF Send, WireTypeOK
  <2>3. pending' \in SUBSET Request
    BY <1>4 DEF Send, LinkTypeOK
  <2> QED
    BY <1>1, <1>2, <1>4, <2>1, <2>2, <2>3 DEF LinkTypeOK, WireTypeOK
<1>5. CASE /\ ~JumpsQueue(req) /\ commandQueue' = Append(commandQueue, req)
           /\ inbox' = box /\ UNCHANGED <<pending, toDevice>>
  <2>1. req \in QueueReq
    BY <1>5, Kinds DEF JumpsQueue
  <2>2. commandQueue' \in Seq(QueueReq) /\ commandQueue' # << >>
    BY <1>5, <2>1, AppendElements DEF LinkTypeOK
  <2> QED
    BY <1>1, <1>2, <1>5, <2>2 DEF LinkTypeOK, WireTypeOK
<1> QED
  BY <1>3, <1>4, <1>5 DEF SendCommand

\* So does a message that is only read.
LEMMA KeptTypes ==
  ASSUME LinkTypeOK, WireTypeOK, NEW box, Box(box), LinkKept(box)
  PROVE  LinkTypeOK' /\ WireTypeOK'
<1>1. box \in Seq(InboxMsg)
  BY BoxIsRead
<1> QED
  BY <1>1 DEF LinkKept, linkVars, LinkTypeOK, WireTypeOK

\* The queue after a command is over.
LEMMA DequeueTypes ==
  ASSUME LinkTypeOK, NEW req, Dequeue(req)
  PROVE  /\ commandQueue' \in Seq(QueueReq) /\ headSent' \in BOOLEAN
         /\ headSent' => commandQueue' # << >>
<1>1. CASE commandQueue # << >> /\ commandQueue' = Tail(commandQueue) /\ headSent' = FALSE
  BY <1>1, TailElements DEF LinkTypeOK
<1>2. CASE UNCHANGED <<commandQueue, headSent>>
  BY <1>2 DEF LinkTypeOK
<1> QED
  BY <1>1, <1>2 DEF Dequeue

\* The types of the link are kept by the start of a command,
LEMMA RunCommandTypes ==
  ASSUME LinkTypeOK, WireTypeOK, RunCommand
  PROVE  LinkTypeOK' /\ WireTypeOK'
<1> DEFINE req == Head(commandQueue)
<1>1. req \in QueueReq /\ req \in Request
  BY TailElements DEF LinkTypeOK, RunCommand, Request
<1>2. UNCHANGED <<linkUp, settled, fromDevice>>
  BY DEF RunCommand
<1>3. CASE /\ Dequeue(req) /\ inbox' = Append(inbox, Answer(req, FALSE))
           /\ UNCHANGED <<pending, toDevice, activeBlock>>
  <2>1. Answer(req, FALSE) \in InboxMsg
    BY <1>1, Kinds DEF InboxMsg
  <2>2. inbox' \in Seq(InboxMsg)
    BY <1>3, <2>1, AppendElements DEF WireTypeOK
  <2>3. /\ commandQueue' \in Seq(QueueReq) /\ headSent' \in BOOLEAN
        /\ headSent' => commandQueue' # << >>
    BY <1>3, DequeueTypes
  <2> QED
    BY <1>2, <1>3, <2>2, <2>3 DEF LinkTypeOK, WireTypeOK
<1>4. CASE /\ headSent' = TRUE /\ Send(req)
           /\ activeBlock' = IF req.kind = "block" THEN req ELSE activeBlock
           /\ UNCHANGED <<commandQueue, inbox>>
  <2>1. IsFiniteSet(pending')
    BY <1>4, FS_AddElement DEF Send, LinkTypeOK
  <2>2. toDevice' \in Seq(Request)
    BY <1>1, <1>4, AppendElements DEF Send, WireTypeOK
  <2>3. pending' \in SUBSET Request
    BY <1>1, <1>4 DEF Send, LinkTypeOK
  <2>4. activeBlock' \in BlockReq \cup {NoBlock}
    BY <1>1, <1>4, Kinds DEF LinkTypeOK
  <2>5. commandQueue # << >>
    BY DEF RunCommand
  <2> QED
    BY <1>2, <1>4, <2>1, <2>2, <2>3, <2>4, <2>5 DEF LinkTypeOK, WireTypeOK
<1> QED
  BY <1>3, <1>4 DEF RunCommand

\* by a line from the device,
LEMMA ReceiveTypes ==
  ASSUME LinkTypeOK, WireTypeOK, Receive
  PROVE  LinkTypeOK' /\ WireTypeOK'
<1> DEFINE m == Head(fromDevice)
<1>1. m \in WireMsg /\ fromDevice' \in Seq(WireMsg)
  BY TailElements DEF WireTypeOK, Receive
<1>2. activeBlock' \in BlockReq \cup {NoBlock}
  BY DEF Receive, LinkTypeOK
<1>3. pending' \in SUBSET Request /\ IsFiniteSet(pending') /\ settled' \in Seq(ReplyMsg)
  <2>1. CASE m.type = "reply" /\ pending' = pending \ {m.req} /\ settled' = Append(settled, m)
    <3>1. m \in ReplyMsg
      BY <1>1, <2>1, Kinds
    <3>2. settled' \in Seq(ReplyMsg)
      BY <2>1, <3>1, AppendElements DEF LinkTypeOK
    <3>3. IsFiniteSet(pending')
      BY <2>1, FS_RemoveElement DEF LinkTypeOK
    <3> QED
      BY <2>1, <3>2, <3>3 DEF LinkTypeOK
  <2>2. CASE UNCHANGED <<pending, settled>>
    BY <2>2 DEF LinkTypeOK
  <2> QED
    BY <2>1, <2>2 DEF Receive
<1>4. inbox' \in Seq(InboxMsg)
  <2>1. CASE m.type = "reply"
    BY <2>1 DEF Receive, WireTypeOK
  <2>2. CASE m.type # "reply"
    <3>1. m \in InboxMsg
      BY <1>1, <2>2, Kinds DEF WireMsg, InboxMsg
    <3> QED
      BY <2>2, <3>1, AppendElements DEF Receive, WireTypeOK
  <2> QED
    BY <2>1, <2>2
<1>5. UNCHANGED <<linkUp, commandQueue, headSent, toDevice>>
  BY DEF Receive
<1> QED
  BY <1>1, <1>2, <1>3, <1>4, <1>5 DEF LinkTypeOK, WireTypeOK

\* by the caller of a request that was answered,
LEMMA ResumeTypes ==
  ASSUME LinkTypeOK, WireTypeOK, Resume
  PROVE  LinkTypeOK' /\ WireTypeOK'
<1> DEFINE m == Head(settled)
<1>1. m \in ReplyMsg /\ settled' \in Seq(ReplyMsg)
  BY TailElements DEF LinkTypeOK, Resume
<1>2. Answer(m.req, m.ok) \in InboxMsg
  <2>1. m.req \in Request /\ m.ok \in BOOLEAN
    BY <1>1 DEF ReplyMsg
  <2> QED
    BY <2>1, Kinds DEF InboxMsg
<1>3. inbox' \in Seq(InboxMsg)
  BY <1>2, AppendElements DEF Resume, WireTypeOK
<1>4. /\ commandQueue' \in Seq(QueueReq) /\ headSent' \in BOOLEAN
      /\ headSent' => commandQueue' # << >>
  <2>1. Dequeue(m.req)
    BY DEF Resume
  <2> QED
    BY <2>1, DequeueTypes
<1>5. activeBlock' \in BlockReq \cup {NoBlock}
  BY DEF Resume, LinkTypeOK
<1>6. UNCHANGED <<linkUp, pending, toDevice, fromDevice>>
  BY DEF Resume
<1> QED
  BY <1>1, <1>3, <1>4, <1>5, <1>6 DEF LinkTypeOK, WireTypeOK

\* by the timer of a request,
LEMMA RequestTimeoutTypes ==
  ASSUME LinkTypeOK, WireTypeOK, RequestTimeout
  PROVE  LinkTypeOK' /\ WireTypeOK'
<1>1. PICK req \in pending : /\ pending' = pending \ {req}
                             /\ Dequeue(req)
                             /\ inbox' = Append(inbox, Answer(req, FALSE))
  BY DEF RequestTimeout
<1>2. Answer(req, FALSE) \in InboxMsg
  BY Kinds DEF InboxMsg, LinkTypeOK
<1>3. inbox' \in Seq(InboxMsg)
  BY <1>1, <1>2, AppendElements DEF WireTypeOK
<1>4. /\ commandQueue' \in Seq(QueueReq) /\ headSent' \in BOOLEAN
      /\ headSent' => commandQueue' # << >>
  BY <1>1, DequeueTypes
<1>5. pending' \in SUBSET Request /\ IsFiniteSet(pending')
  BY <1>1, FS_RemoveElement DEF LinkTypeOK
<1>6. UNCHANGED <<linkUp, activeBlock, settled, toDevice, fromDevice>>
  BY DEF RequestTimeout
<1> QED
  BY <1>3, <1>4, <1>5, <1>6 DEF LinkTypeOK, WireTypeOK

\* The inbox when the connection breaks.
LEMMA DisconnectInbox ==
  ASSUME LinkTypeOK, WireTypeOK
  PROVE  /\ inbox \o <<FaultEvent>> \o Unanswered \in Seq(InboxMsg)
         /\ ToSet(inbox \o <<FaultEvent>> \o Unanswered)
              = ToSet(inbox) \cup {FaultEvent} \cup {Answer(r, FALSE) : r \in pending}
         /\ inbox \o <<FaultEvent>> = Append(inbox, FaultEvent)
<1> DEFINE f == FaultEvent
           a == Append(inbox, f)
           u == Unanswered
<1>1. u \in Seq(AnswerMsg) /\ ToSet(u) = {Answer(r, FALSE) : r \in pending}
  BY UnansweredElements DEF LinkTypeOK
<1>2. u \in Seq(InboxMsg)
  BY <1>1, SeqMonotonic DEF InboxMsg
<1>3. inbox \in Seq(InboxMsg) /\ f \in InboxMsg
  BY DEF WireTypeOK, InboxMsg
<1> HIDE DEF f, u
<1>4. inbox \o <<f>> = a
  BY <1>3, AppendIsConcat
<1>5. a \in Seq(InboxMsg) /\ ToSet(a) = ToSet(inbox) \cup {f}
  BY <1>3, AppendElements
<1> HIDE DEF a
<1>6. a \o u \in Seq(InboxMsg) /\ ToSet(a \o u) = ToSet(a) \cup ToSet(u)
  BY <1>2, <1>5, ConcatElements
<1>7. ToSet(a \o u) = ToSet(inbox) \cup {f} \cup {Answer(r, FALSE) : r \in pending}
  BY <1>1, <1>5, <1>6
<1>8. inbox \o <<f>> \o u = a \o u
  BY <1>4
<1> QED
  BY <1>4, <1>6, <1>7, <1>8 DEF a, f, u

\* and by the end of the connection.
LEMMA DisconnectTypes ==
  ASSUME LinkTypeOK, WireTypeOK, Disconnect
  PROVE  LinkTypeOK' /\ WireTypeOK'
<1>1. inbox' \in Seq(InboxMsg)
  BY DisconnectInbox DEF Disconnect
<1>2. commandQueue' \in Seq(QueueReq)
  <2>1. CASE headSent
    BY <2>1, TailElements DEF Disconnect, LinkTypeOK
  <2>2. CASE ~headSent
    BY <2>2 DEF Disconnect, LinkTypeOK
  <2> QED
    BY <2>1, <2>2
<1>3. pending' \in SUBSET Request /\ IsFiniteSet(pending')
  BY FS_EmptySet DEF Disconnect
<1>4. fromDevice' \in Seq(WireMsg)
  BY DEF Disconnect
<1>5. /\ linkUp' = FALSE /\ headSent' = FALSE /\ activeBlock' = NoBlock
      /\ UNCHANGED <<settled, toDevice>>
  BY DEF Disconnect
<1> QED
  BY <1>1, <1>2, <1>3, <1>4, <1>5 DEF LinkTypeOK, WireTypeOK

----------------------------------------------------------------------------
(* What the user interface does to its loops *)

\* Nothing that the loop of e asked is waiting to be sent, or answered in "box".
Quiet(e, box) ==
  \A r \in LoopReq : r.op = e => r \notin ToSet(commandQueue) /\ r \notin AnsweredIn(box)

\* No answer but one to the loop of e was heard.
Unheard(e, box) == \A r \in AnswerReqs \cap LoopReq : r.op # e => r \in AnsweredIn(box)

\* No block of e is under way or in the slot.
Clear(e) == \A b \in Around : b.op # e

RunningKept == epoch' = epoch /\ (running' \/ taskRunning' => running \/ taskRunning)

PositionFound == position' = position \/ position' \in completed

Rests(box) ==
  Unheard(0, box) /\ loop' = loop /\ position' = position /\ LinkKept(box) /\ RunningKept

ToResult(e, box) ==
  /\ loop[e].phase = "ack" /\ loop[e].outcome = "open" /\ Quiet(e, box) /\ Unheard(e, box)
  /\ loop' = [loop EXCEPT ![e].phase = "result"]
  /\ position' = position /\ LinkKept(box) /\ RunningKept

Learns(e, o, box) ==
  /\ loop[e].phase = "ack" /\ loop[e].outcome = "open" /\ o \in {"done", "failed"}
  /\ o = "done" => BlockOf(e) \in completed /\ Clear(e)
  /\ Unheard(0, box)
  /\ loop' = [loop EXCEPT ![e].outcome = o]
  /\ position' = position /\ LinkKept(box) /\ RunningKept

Leaves(e, box) ==
  /\ Alive(e) /\ Quiet(e, box) /\ Unheard(e, box)
  /\ loop' = [loop EXCEPT ![e].phase = "over"]
  /\ PositionFound /\ LinkKept(box)
  /\ IF e = epoch THEN epoch' = epoch /\ ~running' /\ ~taskRunning' ELSE RunningKept

AsksFinish(e, box) ==
  /\ loop[e].phase \in {"ack", "result"} /\ Quiet(e, box) /\ Unheard(e, box)
  /\ Clear(e) /\ TaskDone(e)
  /\ loop' = [loop EXCEPT ![e].phase = "finish"]
  /\ SendCommand(Req("finish", e, 0), box)
  /\ PositionFound /\ RunningKept

Sends(e, i, ret, box) ==
  /\ loop[e].phase \in {"none", "ack", "result"} /\ Quiet(e, box) /\ Unheard(e, box)
  /\ Clear(e)
  /\ i \in 1..(JobBlocks + ReturnBlocks) /\ i > loop[e].index
  /\ ret \in BOOLEAN /\ IF ret THEN i > JobBlocks ELSE i \in 1..JobBlocks
  /\ Ordered(Req("block", e, i))
  /\ loop' = [loop EXCEPT ![e] = [phase |-> "ack", index |-> i, outcome |-> "open",
                                  returning |-> ret]]
  /\ SendCommand(Req("block", e, i), box)
  /\ PositionFound
  /\ IF loop[e].phase = "none" THEN e = epoch + 1 /\ epoch' = e ELSE RunningKept

BreaksOff(box) ==
  /\ Unheard(0, box)
  /\ loop' \in [Epochs -> LoopState]
  /\ \A e \in Epochs :
       \/ loop'[e] = loop[e]
       \/ Alive(e) /\ Owed(e) = {} /\ loop'[e] = [loop[e] EXCEPT !.phase = "over"]
       \/ loop[e].phase = "ack" /\ loop'[e] = [loop[e] EXCEPT !.outcome = "failed"]
  /\ position' = position /\ LinkKept(box)
  /\ epoch' = epoch /\ ~taskRunning' /\ (running' => running /\ loop'[epoch].phase # "over")

Stops(box) ==
  /\ Unheard(0, box)
  /\ loop' \in [Epochs -> LoopState]
  /\ \A e \in Epochs :
       \/ loop'[e] = loop[e]
       \/ Alive(e) /\ Owed(e) = {} /\ loop'[e] = [loop[e] EXCEPT !.phase = "over"]
       \/ loop[e].phase = "ack" /\ loop'[e] = [loop[e] EXCEPT !.outcome = "aborted"]
  /\ epoch + 1 \in Epochs /\ epoch' = epoch + 1
  /\ SendCommand(Req("stop", epoch + 1, 0), box)
  /\ position' = position /\ ~running' /\ ~taskRunning'

Resets(box) ==
  /\ Unheard(0, box)
  /\ loop' = loop /\ position' = position /\ RunningKept
  /\ resets + 1 \in 1..MaxResets /\ SendCommand(Req("reset", resets + 1, 0), box)

LoopMove(box) ==
  \/ Rests(box) \/ BreaksOff(box) \/ Stops(box) \/ Resets(box)
  \/ \E e \in Epochs :
       \/ ToResult(e, box) \/ Leaves(e, box) \/ AsksFinish(e, box)
       \/ \E o \in {"done", "failed"} : Learns(e, o, box)
       \/ \E i \in 1..(JobBlocks + ReturnBlocks), ret \in BOOLEAN : Sends(e, i, ret, box)

\* A loop that waits for no answer is quiet.
LEMMA QuietWhenNotOwed ==
  ASSUME WireTypeOK, AnsweredOnce, NEW e, Owed(e) = {}, NEW box, Box(box)
  PROVE  Quiet(e, box)
<1>1. AnsweredIn(box) \subseteq AnswerReqs
  BY BoxIsRead
<1>2. \A r \in (ToSet(commandQueue) \cup AnswerReqs) \cap LoopReq : r \in Owed(r.op)
  BY DEF AnsweredOnce
<1> QED
  BY <1>1, <1>2 DEF Quiet

\* What was heard.
LEMMA WhatWasHeard ==
  ASSUME DesktopTypeOK
  PROVE  /\ \A e : Unheard(e, inbox)
         /\ inbox # << >> /\ Head(inbox).type # "answer" => \A e : Unheard(e, Tail(inbox))
         /\ inbox # << >> /\ Head(inbox).type = "answer" => Unheard(Head(inbox).req.op, Tail(inbox))
         /\ inbox # << >> /\ Head(inbox).req \notin LoopReq => \A e : Unheard(e, Tail(inbox))
<1>1. inbox \in Seq(InboxMsg)
  BY DEF DesktopTypeOK, WireTypeOK
<1>2. \A e : Unheard(e, inbox)
  BY DEF Unheard, AnswerReqs
<1>3. inbox # << >> =>
        AnsweredIn(inbox) = AnsweredIn(Tail(inbox))
                              \cup (IF Head(inbox).type = "answer" THEN {Head(inbox).req} ELSE {})
  BY <1>1, AnsweredElements
<1> QED
  BY <1>2, <1>3 DEF Unheard, AnswerReqs

\* The answer that is heard is the one its loop waits for, and the only one.
LEMMA HeardIsOwed ==
  ASSUME DesktopTypeOK, AnsweredOnce, inbox # << >>, Head(inbox).type = "answer",
         Head(inbox).req \in LoopReq
  PROVE  LET r == Head(inbox).req IN r.op \in Epochs /\ r \in Owed(r.op) /\ Quiet(r.op, Tail(inbox))
<1> DEFINE m == Head(inbox)
           r == m.req
<1>0. inbox \in Seq(InboxMsg) /\ m \in InboxMsg /\ m \in ToSet(inbox)
  BY TailElements DEF DesktopTypeOK, WireTypeOK
<1>1. m \in AnswerMsg
  BY <1>0, Kinds
<1>2. r \in AnswerReqs
  BY <1>0 DEF AnswerReqs, AnsweredIn
<1>3. r \in Owed(r.op)
  BY <1>2 DEF AnsweredOnce
<1>4. r.op \in Epochs
  BY DEF LoopReq, BlockReq, FinishReq
<1>5. \A x \in LoopReq : x.op = r.op /\ x \in ToSet(commandQueue) \cup AnswerReqs => x = r
  <2> SUFFICES ASSUME NEW x \in LoopReq, x.op = r.op, x \in ToSet(commandQueue) \cup AnswerReqs
               PROVE  x = r
    OBVIOUS
  <2>1. x \in Owed(r.op)
    BY DEF AnsweredOnce
  <2> QED
    BY <1>3, <2>1 DEF Owed
<1>6. r \notin ToSet(commandQueue)
  BY <1>2 DEF AnsweredOnce
<1>7. r \notin AnsweredIn(Tail(inbox))
  <2> SUFFICES ASSUME r \in AnsweredIn(Tail(inbox)) PROVE FALSE
    OBVIOUS
  <2>1. PICK n \in ToSet(Tail(inbox)) : n.type = "answer" /\ n.req = r
    BY DEF AnsweredIn
  <2> DEFINE u == Tail(inbox)
  <2>2. /\ u \in Seq(InboxMsg) /\ Len(u) = Len(inbox) - 1
        /\ Len(inbox) \in Nat \ {0} /\ m = inbox[1]
        /\ \A i \in 1..(Len(inbox) - 1) : u[i] = inbox[i + 1]
    BY <1>0, TailElements
  <2>a. n \in ToSet(u)
    BY <2>1
  <2> HIDE DEF u
  <2>3. PICK i \in 1..(Len(inbox) - 1) : n = u[i]
    BY <2>2, <2>a, ElementsAre
  <2>4. n = inbox[i + 1] /\ i + 1 \in 1..Len(inbox) /\ 1 \in 1..Len(inbox) /\ i + 1 # 1
    BY <2>2, <2>3
  <2> HIDE DEF m
  <2> QED
    BY <2>1, <2>2, <2>4 DEF AnsweredOnce, OncePer, m
<1>8. AnsweredIn(Tail(inbox)) \subseteq AnswerReqs
  BY BoxIsRead DEF Box, DesktopTypeOK
<1>9. Quiet(r.op, Tail(inbox))
  BY <1>5, <1>6, <1>7, <1>8 DEF Quiet
<1> QED
  BY <1>3, <1>4, <1>9

\* The state of a loop that sends a block.
LEMMA SubmittedState ==
  ASSUME NEW l \in LoopState, NEW i
  PROVE  /\ [l EXCEPT !.phase = "ack", !.index = i, !.outcome = "open"]
              = [phase |-> "ack", index |-> i, outcome |-> "open", returning |-> l.returning]
         /\ [[l EXCEPT !.returning = TRUE] EXCEPT !.phase = "ack", !.index = i, !.outcome = "open"]
              = [phase |-> "ack", index |-> i, outcome |-> "open", returning |-> TRUE]
<1> DEFINE k == [l EXCEPT !.returning = TRUE]
<1>1. k \in LoopState /\ k.returning = TRUE
  BY DEF LoopState
<1> HIDE DEF k
<1>2. \A x \in LoopState : [x EXCEPT !.phase = "ack", !.index = i, !.outcome = "open"]
                               = [phase |-> "ack", index |-> i, outcome |-> "open",
                                  returning |-> x.returning]
  <2> SUFFICES ASSUME NEW x \in LoopState
               PROVE  [x EXCEPT !.phase = "ack", !.index = i, !.outcome = "open"]
                        = [phase |-> "ack", index |-> i, outcome |-> "open",
                           returning |-> x.returning]
    OBVIOUS
  <2>1. [x EXCEPT !.phase = "ack", !.index = i, !.outcome = "open"]
          \in [phase : {"ack"}, index : {i}, outcome : {"open"}, returning : {x.returning}]
    BY DEF LoopState
  <2>2. \A r : \A y \in [phase : {"ack"}, index : {i}, outcome : {"open"}, returning : {r}] :
          y = [phase |-> "ack", index |-> i, outcome |-> "open", returning |-> r]
    OBVIOUS
  <2> QED
    BY <2>1, <2>2
<1>3. [k EXCEPT !.phase = "ack", !.index = i, !.outcome = "open"]
        = [phase |-> "ack", index |-> i, outcome |-> "open", returning |-> TRUE]
  BY <1>1, <1>2
<1> QED
  BY <1>2, <1>3 DEF k

\* What a loop that found its block done does next.
LEMMA AdvanceMoves ==
  ASSUME DesktopTypeOK, NEW e \in Epochs, NEW box,
         loop[e].phase \in {"ack", "result"}, BlockOf(e) \in completed, Clear(e), Quiet(e, box),
         Unheard(e, box),
         Advance(e, box), epoch' = epoch
  PROVE  LoopMove(box)
<1> DEFINE l == loop[e]
           n == JobBlocks + ReturnBlocks
<1>1. l \in LoopState /\ IF l.returning THEN l.index > JobBlocks ELSE l.index \in 1..JobBlocks
  BY DEF DesktopTypeOK, LoopTypeOK
<1>2. l.index \in 0..n /\ l.phase \in Phase /\ l.returning \in BOOLEAN
  BY <1>1 DEF LoopState
<1>3. JobBlocks \in Nat \ {0} /\ ReturnBlocks \in Nat \ {0}
  BY TaskAssumption
<1>4. position' = BlockOf(e)
  BY DEF Advance
<1>5. PositionFound
  BY <1>4 DEF PositionFound
<1>6. BlockOf(e) = [kind |-> "block", op |-> e, index |-> l.index]
  BY DEF BlockOf, Req
<1>7. CASE CancelSeen(l) /\ Submit(e, [l EXCEPT !.returning = TRUE], JobBlocks + 1, box) /\ FlagsKept
  <2>1. ~l.returning
    BY <1>7 DEF CancelSeen
  <2>2. JobBlocks + 1 \in 1..n /\ JobBlocks + 1 > l.index /\ l.index \in 1..JobBlocks
    BY <1>1, <1>3, <2>1
  <2>3. loop' = [loop EXCEPT ![e] = [phase |-> "ack", index |-> JobBlocks + 1, outcome |-> "open",
                                     returning |-> TRUE]]
    BY <1>1, <1>7, SubmittedState DEF Submit
  <2>4. SendCommand(Req("block", e, JobBlocks + 1), box)
    BY <1>7 DEF Submit
  <2>5. Ordered(Req("block", e, JobBlocks + 1))
    <3> DEFINE b == Req("block", e, JobBlocks + 1)
    <3>1. BlockOf(e) \in {[b EXCEPT !.index = i] : i \in 1..JobBlocks}
      BY <1>6, <2>2 DEF Req
    <3>2. b.index = JobBlocks + 1
      BY DEF Req
    <3>3. BlockOf(e) \in Predecessors(b)
      BY <3>1, <3>2 DEF Predecessors
    <3> QED
      BY <3>3 DEF Ordered
  <2>6. RunningKept
    BY <1>7 DEF FlagsKept, RunningKept
  <2>7. Sends(e, JobBlocks + 1, TRUE, box)
    BY <1>3, <1>5, <2>2, <2>3, <2>4, <2>5, <2>6 DEF Sends
  <2> QED
    BY <2>2, <2>7 DEF LoopMove
<1>8. CASE l.index < LastBlock(l) /\ Submit(e, l, l.index + 1, box) /\ FlagsKept
  <2>1. /\ l.index + 1 \in 1..n /\ l.index + 1 > l.index
        /\ IF l.returning THEN l.index + 1 > JobBlocks ELSE l.index + 1 \in 1..JobBlocks
    BY <1>1, <1>2, <1>3, <1>8 DEF LastBlock
  <2>2. loop' = [loop EXCEPT ![e] = [phase |-> "ack", index |-> l.index + 1, outcome |-> "open",
                                     returning |-> l.returning]]
    BY <1>1, <1>8, SubmittedState DEF Submit
  <2>3. SendCommand(Req("block", e, l.index + 1), box)
    BY <1>8 DEF Submit
  <2>4. Ordered(Req("block", e, l.index + 1))
    <3> DEFINE b == Req("block", e, l.index + 1)
    <3>1. b.index = l.index + 1 /\ b.index # JobBlocks + 1
      BY <1>1, <1>2, <1>3, <2>1 DEF Req
    <3>2. [b EXCEPT !.index = @ - 1] = BlockOf(e)
      BY <1>2, <1>6 DEF Req
    <3>3. BlockOf(e) \in Predecessors(b)
      BY <3>1, <3>2 DEF Predecessors
    <3> QED
      BY <3>3 DEF Ordered
  <2>5. RunningKept
    BY <1>8 DEF FlagsKept, RunningKept
  <2>6. Sends(e, l.index + 1, l.returning, box)
    BY <1>2, <1>5, <2>1, <2>2, <2>3, <2>4, <2>5 DEF Sends
  <2> QED
    BY <1>2, <2>1, <2>6 DEF LoopMove
<1>9. CASE l.index = LastBlock(l) /\ ~l.returning /\ AskFinish(e, box) /\ FlagsKept
  <2>1. TaskDone(e)
    BY <1>6, <1>9 DEF TaskDone, LastBlock, Req
  <2>2. RunningKept
    BY <1>9 DEF FlagsKept, RunningKept
  <2>3. AsksFinish(e, box)
    BY <1>5, <1>9, <2>1, <2>2 DEF AskFinish, AsksFinish
  <2> QED
    BY <2>3 DEF LoopMove
<1>10. CASE Ends(e, FALSE, box)
  <2>1. IF e = epoch THEN ~running' /\ ~taskRunning' ELSE RunningKept
    BY <1>10 DEF Ends, Settle, FlagsKept, RunningKept
  <2>2. Leaves(e, box)
    BY <1>5, <1>10, <2>1 DEF Leaves, Ends, Alive
  <2> QED
    BY <2>2 DEF LoopMove
<1> QED
  BY <1>7, <1>8, <1>9, <1>10 DEF Advance

----------------------------------------------------------------------------
(* Each thing the user interface does is one of these moves *)

\* The state of one loop.
LEMMA LoopTypes ==
  ASSUME DesktopTypeOK, NEW e \in Epochs
  PROVE  /\ loop[e] \in LoopState /\ loop[e].phase \in Phase
         /\ loop[e].index \in 0..(JobBlocks + ReturnBlocks)
         /\ loop[e].outcome \in {"open", "done", "failed", "aborted"}
         /\ loop[e].phase # "none" => e <= epoch /\ loop[e].index \in Nat \ {0}
         /\ loop[e].phase # "none" => BlockOf(e) \in BlockReq
<1>1. loop[e] \in LoopState
  BY DEF DesktopTypeOK, LoopTypeOK
<1>2. /\ loop[e].phase \in Phase
      /\ loop[e].index \in 0..(JobBlocks + ReturnBlocks)
      /\ loop[e].outcome \in {"open", "done", "failed", "aborted"}
  BY <1>1 DEF LoopState
<1>3. JobBlocks \in Nat \ {0} /\ ReturnBlocks \in Nat \ {0}
  BY TaskAssumption
<1>4. ASSUME loop[e].phase # "none"
      PROVE  e <= epoch /\ loop[e].index \in Nat \ {0}
  <2>1. IF loop[e].returning THEN loop[e].index > JobBlocks ELSE loop[e].index \in 1..JobBlocks
    BY <1>4 DEF DesktopTypeOK, LoopTypeOK
  <2>2. loop[e].index \in Nat \ {0}
    BY <1>2, <1>3, <2>1
  <2>3. ~(e > epoch)
    BY <1>4 DEF DesktopTypeOK, LoopTypeOK, NotBegun
  <2>4. epoch \in Nat /\ e \in Nat
    BY DEF DesktopTypeOK, FlagTypeOK, Epochs
  <2> QED
    BY <2>2, <2>3, <2>4
<1>5. ASSUME loop[e].phase # "none"
      PROVE  BlockOf(e) \in BlockReq
  <2>1. loop[e].index \in 1..(JobBlocks + ReturnBlocks)
    BY <1>2, <1>4, <1>5
  <2> QED
    BY <2>1 DEF BlockOf, Req, BlockReq
<1> QED
  BY <1>1, <1>2, <1>4, <1>5

\* The answer to a block is a move: the loop was waiting for it, and a block that was
\* believed done is not under way any more.
LEMMA BlockAnsweredMoves ==
  ASSUME DesktopInvariant, inbox # << >>, Head(inbox).type = "answer",
         Head(inbox).req.kind = "block", BlockAnswered(Head(inbox), Tail(inbox)), epoch' = epoch
  PROVE  LoopMove(Tail(inbox))
<1> DEFINE m == Head(inbox)
           box == Tail(inbox)
           e == m.req.op
<1>0. DesktopTypeOK /\ AnsweredOnce /\ Evidence /\ OneBlockEach
  BY DEF DesktopInvariant
<1>1. m \in AnswerMsg /\ m.req \in BlockReq /\ m.req \in LoopReq
  <2>1. m \in InboxMsg
    BY <1>0, TailElements DEF DesktopTypeOK, WireTypeOK
  <2>2. m \in AnswerMsg
    BY <2>1, Kinds
  <2>3. m.req \in Request
    BY <2>2 DEF AnswerMsg
  <2> QED
    BY <2>2, <2>3, Kinds DEF LoopReq
<1>2. e \in Epochs /\ m.req \in Owed(e) /\ Quiet(e, box)
  BY <1>0, <1>1, HeardIsOwed
<1>a. Unheard(e, box)
  BY <1>0, WhatWasHeard
<1>3. loop[e].phase = "ack"
  BY <1>1, <1>2, Kinds DEF Owed, Req
<1>4. loop[e].outcome \in {"open", "done", "failed", "aborted"}
  BY <1>0, <1>2, LoopTypes
<1>5. CASE /\ loop[e].outcome = "open" /\ loop' = [loop EXCEPT ![e].phase = "result"]
           /\ FlagsKept /\ LinkKept(box) /\ UNCHANGED position
  <2>1. ToResult(e, box)
    BY <1>2, <1>3, <1>5, <1>a DEF ToResult, FlagsKept, RunningKept
  <2> QED
    BY <1>2, <2>1 DEF LoopMove
<1>6. CASE loop[e].outcome = "done" /\ Advance(e, box)
  <2>1. BlockOf(e) \in completed
    BY <1>0, <1>2, <1>6 DEF Evidence, DoneIsCompleted
  <2>2. Clear(e)
    BY <1>0, <1>3, <1>6 DEF OneBlockEach, Current, Clear
  <2> QED
    BY <1>0, <1>2, <1>3, <1>6, <1>a, <2>1, <2>2, AdvanceMoves
<1>7. CASE Ends(e, TRUE, box) /\ UNCHANGED position
  <2>1. IF e = epoch THEN ~running' /\ ~taskRunning' ELSE RunningKept
    BY <1>7 DEF Ends, Settle, FlagsKept, RunningKept
  <2>2. Leaves(e, box)
    BY <1>2, <1>3, <1>7, <1>a, <2>1 DEF Leaves, Ends, Alive, PositionFound
  <2> QED
    BY <1>2, <2>2 DEF LoopMove
<1> QED
  BY <1>5, <1>6, <1>7 DEF BlockAnswered

\* So is the answer to finish_task.
LEMMA FinishAnsweredMoves ==
  ASSUME DesktopInvariant, inbox # << >>, Head(inbox).type = "answer",
         Head(inbox).req.kind = "finish", FinishAnswered(Head(inbox), Tail(inbox)), epoch' = epoch
  PROVE  LoopMove(Tail(inbox))
<1> DEFINE m == Head(inbox)
           box == Tail(inbox)
           e == m.req.op
<1>0. DesktopTypeOK /\ AnsweredOnce /\ Evidence
  BY DEF DesktopInvariant
<1>1. m \in AnswerMsg /\ m.req \in FinishReq /\ m.req \in LoopReq
  <2>1. m \in InboxMsg
    BY <1>0, TailElements DEF DesktopTypeOK, WireTypeOK
  <2>2. m \in AnswerMsg
    BY <2>1, Kinds
  <2>3. m.req \in Request
    BY <2>2 DEF AnswerMsg
  <2> QED
    BY <2>2, <2>3, Kinds DEF LoopReq
<1>2. e \in Epochs /\ m.req \in Owed(e) /\ Quiet(e, box)
  BY <1>0, <1>1, HeardIsOwed
<1>a. Unheard(e, box)
  BY <1>0, WhatWasHeard
<1>3. loop[e].phase = "finish"
  BY <1>1, <1>2, Kinds DEF Owed, BlockOf, Req
<1>4. TaskDone(e)
  BY <1>0, <1>2, <1>3 DEF Evidence, FinishIsEarned
<1>5. PositionFound
  BY <1>4 DEF FinishAnswered, PositionFound, TaskDone
<1>6. Ends(e, ~m.ok, box)
  BY DEF FinishAnswered
<1>7. IF e = epoch THEN ~running' /\ ~taskRunning' ELSE RunningKept
  BY <1>6 DEF Ends, Settle, FlagsKept, RunningKept
<1>8. Leaves(e, box)
  BY <1>2, <1>3, <1>5, <1>6, <1>7, <1>a DEF Leaves, Ends, Alive
<1> QED
  BY <1>2, <1>8 DEF LoopMove

\* So is a result: one that is awaited was completed, or the loop gives up.
LEMMA HearResultMoves ==
  ASSUME DesktopInvariant, inbox # << >>, Head(inbox).type = "result",
         HearResult(Head(inbox), Tail(inbox)), epoch' = epoch
  PROVE  LoopMove(Tail(inbox))
<1> DEFINE m == Head(inbox)
           box == Tail(inbox)
           e == m.req.op
<1>0. DesktopTypeOK /\ AnsweredOnce /\ Evidence /\ OneBlockEach /\ WireTypeOK
  BY DEF DesktopInvariant, DesktopTypeOK
<1>1. m \in ResultMsg /\ m \in Results
  <2>1. m \in InboxMsg /\ m \in ToSet(inbox)
    BY <1>0, TailElements DEF WireTypeOK
  <2> QED
    BY <2>1, Kinds DEF Results
<1>2. m.req \in BlockReq /\ e \in Epochs
  BY <1>1 DEF ResultMsg, BlockReq
<1>a. Unheard(0, box) /\ Unheard(e, box)
  BY <1>0, WhatWasHeard
<1>3. CASE FlagsKept /\ LinkKept(box) /\ UNCHANGED <<loop, position>>
  <2>1. Rests(box)
    BY <1>3, <1>a DEF Rests, FlagsKept, RunningKept
  <2> QED
    BY <2>1 DEF LoopMove
<1>4. ASSUME Waits(e), loop[e].index = m.req.index
      PROVE  /\ m.req = BlockOf(e) /\ Clear(e)
             /\ DoneAfter(m.status) = "done" => BlockOf(e) \in completed
  <2>1. m.req = BlockOf(e)
    BY <1>2, <1>4, Kinds DEF BlockOf
  <2>2. m.req \notin Around
    BY <1>0, <1>1 DEF OneBlockEach
  <2>3. Clear(e)
    BY <1>0, <1>4, <2>1, <2>2 DEF OneBlockEach, Current, Clear, Waits
  <2>4. DoneAfter(m.status) = "done" => m.status = "done"
    BY DEF DoneAfter
  <2>5. m.status = "done" => m.req \in completed
    BY <1>0, <1>1 DEF Evidence, DoneIsCompleted
  <2> QED
    BY <2>1, <2>3, <2>4, <2>5
<1>5. CASE /\ Waits(e) /\ loop[e].index = m.req.index /\ loop[e].phase = "ack"
           /\ loop' = [loop EXCEPT ![e].outcome = DoneAfter(m.status)]
           /\ FlagsKept /\ LinkKept(box) /\ UNCHANGED position
  <2>1. DoneAfter(m.status) \in {"done", "failed"}
    BY DEF DoneAfter
  <2>2. Learns(e, DoneAfter(m.status), box)
    BY <1>4, <1>5, <1>a, <2>1 DEF Learns, Waits, FlagsKept, RunningKept
  <2> QED
    BY <1>2, <2>1, <2>2 DEF LoopMove
<1>6. CASE /\ Waits(e) /\ loop[e].index = m.req.index /\ loop[e].phase = "result"
           /\ IF DoneAfter(m.status) = "done" THEN Advance(e, box)
              ELSE Ends(e, TRUE, box) /\ UNCHANGED position
  <2>1. Quiet(e, box)
    BY <1>0, <1>6, QuietWhenNotOwed DEF Owed, Box
  <2>2. CASE DoneAfter(m.status) = "done" /\ Advance(e, box)
    BY <1>0, <1>2, <1>4, <1>6, <1>a, <2>1, <2>2, AdvanceMoves
  <2>3. CASE Ends(e, TRUE, box) /\ UNCHANGED position
    <3>1. IF e = epoch THEN ~running' /\ ~taskRunning' ELSE RunningKept
      BY <2>3 DEF Ends, Settle, FlagsKept, RunningKept
    <3>2. Leaves(e, box)
      BY <1>2, <1>6, <1>a, <2>1, <2>3, <3>1 DEF Leaves, Ends, Alive, PositionFound
    <3> QED
      BY <1>2, <3>2 DEF LoopMove
  <2> QED
    BY <1>6, <2>2, <2>3
<1> QED
  BY <1>3, <1>5, <1>6 DEF HearResult

\* The states a loop is moved to.
LEMMA OtherStates ==
  ASSUME NEW l \in LoopState
  PROVE  /\ [l EXCEPT !.phase = "over"] \in LoopState
         /\ [l EXCEPT !.outcome = "failed"] \in LoopState
         /\ [l EXCEPT !.outcome = "aborted"] \in LoopState
         /\ [l EXCEPT !.outcome = "done"] \in LoopState
         /\ [l EXCEPT !.phase = "result"] \in LoopState
         /\ [l EXCEPT !.phase = "finish"] \in LoopState
BY DEF LoopState, Phase

\* A fault ends every wait for a result, of whatever loop.
LEMMA HearFaultMoves ==
  ASSUME DesktopInvariant, inbox # << >>, Head(inbox).type # "answer", HearFault(Tail(inbox)),
         epoch' = epoch
  PROVE  LoopMove(Tail(inbox))
<1> DEFINE box == Tail(inbox)
           ends(e) == Waits(e) /\ loop[e].phase = "result"
           new(e) == IF ends(e) THEN [loop[e] EXCEPT !.phase = "over"]
                     ELSE IF Waits(e) THEN [loop[e] EXCEPT !.outcome = "failed"]
                     ELSE loop[e]
<1>0. DesktopTypeOK
  BY DEF DesktopInvariant
<1>1. DOMAIN loop = Epochs
  BY <1>0 DEF DesktopTypeOK, LoopTypeOK
<1>2. loop' = [e \in Epochs |-> new(e)]
  BY <1>1 DEF HearFault
<1>3. \A e \in Epochs : new(e) \in LoopState
  BY <1>0, LoopTypes, OtherStates
<1>4. \A e \in Epochs :
       \/ new(e) = loop[e]
       \/ Alive(e) /\ Owed(e) = {} /\ new(e) = [loop[e] EXCEPT !.phase = "over"]
       \/ loop[e].phase = "ack" /\ new(e) = [loop[e] EXCEPT !.outcome = "failed"]
  BY DEF Alive, Owed, Waits
<1>5. \A e \in Epochs : new(e).phase = "over" => loop[e].phase = "over" \/ ends(e)
  <2> SUFFICES ASSUME NEW e \in Epochs, ~ends(e) PROVE new(e).phase = loop[e].phase
    OBVIOUS
  <2>1. [loop[e] EXCEPT !.outcome = "failed"].phase = loop[e].phase
    BY <1>0, LoopTypes DEF LoopState
  <2> QED
    BY <2>1
<1> HIDE DEF new
<1>6. loop' \in [Epochs -> LoopState] /\ \A e \in Epochs : loop'[e] = new(e)
  BY <1>2, <1>3
<1>7. ~taskRunning' /\ (running' => running /\ ~(epoch # 0 /\ ends(epoch)))
  BY DEF HearFault
<1>8. running => epoch \in Epochs /\ Alive(epoch)
  BY DEF DesktopInvariant, RunningIsAlive
<1>9. running' => running /\ loop'[epoch].phase # "over"
  BY <1>5, <1>6, <1>7, <1>8 DEF Alive, Epochs
<1>10. position' = position /\ LinkKept(box)
  BY DEF HearFault
<1>a. Unheard(0, box)
  BY <1>0, WhatWasHeard
<1>11. BreaksOff(box)
  BY <1>a, <1>4, <1>6, <1>7, <1>9, <1>10 DEF BreaksOff
<1> QED
  BY <1>11 DEF LoopMove

\* Whatever the user interface hears is a move.
LEMMA HearMoves ==
  ASSUME DesktopInvariant, Hear
  PROVE  LoopMove(Tail(inbox))
<1> DEFINE m == Head(inbox)
           box == Tail(inbox)
<1>1. epoch' = epoch /\ inbox # << >>
  BY DEF Hear
<1>2. m \in InboxMsg
  BY <1>1, TailElements DEF DesktopInvariant, DesktopTypeOK, WireTypeOK
<1>3. CASE m.type = "answer"
  <2>1. HearAnswer(m, box)
    BY <1>3 DEF Hear
  <2>2. CASE m.req.kind = "block"
    BY <1>1, <1>3, <2>1, <2>2, BlockAnsweredMoves DEF HearAnswer
  <2>3. CASE m.req.kind = "finish"
    BY <1>1, <1>3, <2>1, <2>3, FinishAnsweredMoves DEF HearAnswer
  <2>4. CASE m.req.kind \notin {"block", "finish"}
    <3>1. OtherAnswered(m, box)
      BY <2>1, <2>4 DEF HearAnswer
    <3>2. Unheard(0, box)
      <4>1. m.req \notin LoopReq
        BY <2>4, Kinds DEF LoopReq
      <4> QED
        BY <1>1, <4>1, WhatWasHeard DEF DesktopInvariant
    <3>3. Rests(box)
      BY <1>1, <3>1, <3>2 DEF OtherAnswered, Rests, RunningKept
    <3> QED
      BY <3>3 DEF LoopMove
  <2> QED
    BY <2>2, <2>3, <2>4
<1>4. CASE m.type = "result"
  <2>1. HearResult(m, box)
    BY <1>4 DEF Hear
  <2> QED
    BY <1>1, <1>4, <2>1, HearResultMoves
<1>5. CASE m.type \notin {"answer", "result"}
  <2>1. HearFault(box)
    BY <1>5 DEF Hear
  <2> QED
    BY <1>1, <1>5, <2>1, HearFaultMoves
<1> QED
  BY <1>3, <1>4, <1>5

\* The timer of a result ends a loop that waits for no answer.
LEMMA ResultTimeoutMoves ==
  ASSUME DesktopInvariant, ResultTimeout
  PROVE  LoopMove(inbox)
<1>0. WireTypeOK /\ AnsweredOnce
  BY DEF DesktopInvariant, DesktopTypeOK
<1>1. PICK e \in Epochs : loop[e].phase = "result" /\ Ends(e, TRUE, inbox)
  BY DEF ResultTimeout, Epochs
<1>2. epoch' = epoch /\ position' = position
  BY DEF ResultTimeout
<1>3. Quiet(e, inbox)
  BY <1>0, <1>1, QuietWhenNotOwed DEF Owed, Box
<1>4. IF e = epoch THEN ~running' /\ ~taskRunning' ELSE RunningKept
  BY <1>1, <1>2 DEF Ends, Settle, FlagsKept, RunningKept
<1>a. Unheard(e, inbox)
  BY WhatWasHeard DEF DesktopInvariant
<1>5. Leaves(e, inbox)
  BY <1>a, <1>1, <1>2, <1>3, <1>4 DEF Leaves, Ends, Alive, PositionFound
<1> QED
  BY <1>5 DEF LoopMove

\* A new task begins the loop of the next epoch.
LEMMA SubmitJobMoves ==
  ASSUME DesktopInvariant, SubmitJob
  PROVE  LoopMove(inbox)
<1> DEFINE e == epoch + 1
<1>0. DesktopTypeOK /\ WireTypeOK /\ AnsweredOnce /\ OneBlockEach
  BY DEF DesktopInvariant, DesktopTypeOK
<1>1. epoch \in Nat /\ e \in Epochs
  BY <1>0, TaskAssumption DEF SubmitJob, DesktopTypeOK, FlagTypeOK, Epochs
<1>2. loop[e] = NotBegun
  BY <1>0, <1>1 DEF DesktopTypeOK, LoopTypeOK
<1>3. loop[e].phase = "none" /\ loop[e].index = 0
  BY <1>2 DEF NotBegun
<1>4. Quiet(e, inbox)
  BY <1>0, <1>3, QuietWhenNotOwed DEF Owed, Box
<1>5. Clear(e)
  BY <1>0, <1>3 DEF OneBlockEach, Current, Clear
<1>6. Submit(e, NotBegun, 1, inbox)
  BY DEF SubmitJob
<1>7. loop' = [loop EXCEPT ![e] = [phase |-> "ack", index |-> 1, outcome |-> "open",
                                   returning |-> FALSE]]
  <2>1. [NotBegun EXCEPT !.phase = "ack", !.index = 1, !.outcome = "open"]
          = [phase |-> "ack", index |-> 1, outcome |-> "open", returning |-> FALSE]
    <3>1. NotBegun \in LoopState /\ NotBegun.returning = FALSE
      BY TaskAssumption DEF NotBegun, LoopState, Phase
    <3> QED
      BY <3>1, SubmittedState
  <2> QED
    BY <1>6, <2>1 DEF Submit
<1>8. JobBlocks \in Nat \ {0} /\ ReturnBlocks \in Nat \ {0}
  BY TaskAssumption
<1>9. 1 \in 1..JobBlocks /\ 1 \in 1..(JobBlocks + ReturnBlocks)
  BY <1>8
<1>10. Ordered(Req("block", e, 1)) /\ SendCommand(Req("block", e, 1), inbox)
  BY <1>6 DEF Ordered, Req, Submit
<1>11. epoch' = e /\ PositionFound
  BY DEF SubmitJob, PositionFound
<1>a. Unheard(e, inbox)
  BY <1>0, WhatWasHeard
<1>12. Sends(e, 1, FALSE, inbox)
  BY <1>a, <1>3, <1>4, <1>5, <1>7, <1>9, <1>10, <1>11 DEF Sends
<1> QED
  BY <1>1, <1>9, <1>12 DEF LoopMove

\* A stop takes the next epoch and breaks off the wait of the active run.
LEMMA EmergencyStopMoves ==
  ASSUME DesktopInvariant, EmergencyStop
  PROVE  LoopMove(inbox)
<1>0. DesktopTypeOK
  BY DEF DesktopInvariant
<1>1. epoch \in Nat /\ epoch + 1 \in Epochs /\ activeRun \in 0..MaxEpoch /\ MaxEpoch \in Nat
  BY <1>0, TaskAssumption DEF EmergencyStop, DesktopTypeOK, FlagTypeOK, Epochs
<1>2. loop' = Aborted
  BY DEF EmergencyStop
<1>3. loop \in [Epochs -> LoopState]
  BY <1>0 DEF DesktopTypeOK, LoopTypeOK
<1>4. /\ loop' \in [Epochs -> LoopState]
      /\ \A e \in Epochs :
           \/ loop'[e] = loop[e]
           \/ Alive(e) /\ Owed(e) = {} /\ loop'[e] = [loop[e] EXCEPT !.phase = "over"]
           \/ loop[e].phase = "ack" /\ loop'[e] = [loop[e] EXCEPT !.outcome = "aborted"]
  <2>1. CASE activeRun # 0 /\ Waits(activeRun)
    <3> DEFINE a == activeRun
               v == IF loop[a].phase = "ack" THEN [loop[a] EXCEPT !.outcome = "aborted"]
                    ELSE [loop[a] EXCEPT !.phase = "over"]
    <3>1. a \in Epochs
      BY <1>1, <2>1 DEF Epochs
    <3>2. loop' = [loop EXCEPT ![a] = v]
      BY <1>2, <2>1 DEF Aborted
    <3>3. v \in LoopState
      BY <1>3, <3>1, OtherStates
    <3>4. \/ loop[a].phase = "ack" /\ v = [loop[a] EXCEPT !.outcome = "aborted"]
          \/ Alive(a) /\ Owed(a) = {} /\ v = [loop[a] EXCEPT !.phase = "over"]
      BY <2>1 DEF Waits, Alive, Owed
    <3> HIDE DEF v, a
    <3>5. loop' \in [Epochs -> LoopState] /\ \A e \in Epochs : loop'[e] = IF e = a THEN v ELSE loop[e]
      BY <1>3, <3>1, <3>2, <3>3
    <3> QED
      BY <3>4, <3>5
  <2>2. CASE ~(activeRun # 0 /\ Waits(activeRun))
    BY <1>2, <1>3, <2>2 DEF Aborted
  <2> QED
    BY <2>1, <2>2
<1>5. /\ epoch' = epoch + 1 /\ SendCommand(Req("stop", epoch + 1, 0), inbox)
      /\ position' = position /\ ~running' /\ ~taskRunning'
  BY DEF EmergencyStop
<1>a. Unheard(0, inbox)
  BY <1>0, WhatWasHeard
<1>6. Stops(inbox)
  BY <1>a, <1>1, <1>4, <1>5 DEF Stops
<1> QED
  BY <1>6 DEF LoopMove

\* Rendering, cancelling and resetting move no loop.
LEMMA OtherMoves ==
  ASSUME DesktopInvariant, Render \/ CancelJob \/ ResetFault
  PROVE  LoopMove(inbox)
<1>0. Unheard(0, inbox)
  BY WhatWasHeard DEF DesktopInvariant
<1>1. CASE Render
  BY <1>0, <1>1 DEF Render, Rests, RunningKept, LoopMove
<1>2. CASE CancelJob
  BY <1>0, <1>2 DEF CancelJob, Rests, RunningKept, LoopMove
<1>3. CASE ResetFault
  <2>1. resets + 1 \in 1..MaxResets
    BY <1>3, TaskAssumption DEF ResetFault, DesktopInvariant, DesktopTypeOK, FlagTypeOK
  <2>2. Resets(inbox)
    BY <1>0, <1>3, <2>1 DEF ResetFault, Resets, RunningKept
  <2> QED
    BY <2>2 DEF LoopMove
<1> QED
  BY <1>1, <1>2, <1>3

\* Every step of the user interface is one of the moves.
LEMMA InterfaceMoves ==
  ASSUME DesktopInvariant, Loops \/ User
  PROVE  (\E box : Box(box) /\ LoopMove(box)) /\ UNCHANGED deviceVars
<1>1. UNCHANGED deviceVars
  BY DEF Loops, User
<1>2. Box(inbox)
  BY DEF Box
<1>3. CASE Hear
  <2>1. LoopMove(Tail(inbox))
    BY <1>3, HearMoves
  <2>2. Box(Tail(inbox))
    BY <1>3 DEF Box, Hear
  <2> QED
    BY <1>1, <2>1, <2>2
<1>4. CASE ResultTimeout \/ Render \/ SubmitJob \/ CancelJob \/ EmergencyStop \/ ResetFault
  <2>1. LoopMove(inbox)
    BY <1>4, ResultTimeoutMoves, SubmitJobMoves, EmergencyStopMoves, OtherMoves
  <2> QED
    BY <1>1, <1>2, <2>1
<1> QED
  BY <1>3, <1>4 DEF Loops, User

\* The flags after the end of an operation.
LEMMA SettleTypes ==
  ASSUME FlagTypeOK, NEW e, NEW r \in BOOLEAN, Settle(e, r) \/ FlagsKept
  PROVE  /\ activeRun' \in 0..MaxEpoch
         /\ running' \in BOOLEAN /\ taskRunning' \in BOOLEAN
         /\ requiresRecovery' \in BOOLEAN /\ cancelRequested' \in BOOLEAN
<1>1. MaxEpoch \in Nat
  BY TaskAssumption
<1>2. CASE FlagsKept
  BY <1>2 DEF FlagsKept, FlagTypeOK
<1>3. CASE Settle(e, r) /\ e = epoch
  <2>1. activeRun' = 0
    BY <1>3 DEF Settle
  <2>2. activeRun' \in 0..MaxEpoch
    BY <1>1, <2>1
  <2> QED
    BY <1>3, <2>2 DEF Settle
<1> QED
  BY <1>2, <1>3 DEF Settle

\* The flags after a message was heard.
LEMMA HearFlags ==
  ASSUME DesktopTypeOK, Hear
  PROVE  /\ activeRun' \in 0..MaxEpoch
         /\ running' \in BOOLEAN /\ taskRunning' \in BOOLEAN
         /\ requiresRecovery' \in BOOLEAN /\ cancelRequested' \in BOOLEAN
<1> DEFINE m == Head(inbox)
           box == Tail(inbox)
           Typed == /\ activeRun' \in 0..MaxEpoch
                    /\ running' \in BOOLEAN /\ taskRunning' \in BOOLEAN
                    /\ requiresRecovery' \in BOOLEAN /\ cancelRequested' \in BOOLEAN
<1>0. FlagTypeOK /\ inbox # << >> /\ m \in InboxMsg
  BY TailElements DEF DesktopTypeOK, WireTypeOK, Hear
<1>1. ASSUME NEW e, NEW r \in BOOLEAN, Settle(e, r) \/ FlagsKept PROVE Typed
  BY <1>0, <1>1, SettleTypes
<1>2. ASSUME NEW e, NEW r \in BOOLEAN, Ends(e, r, box) PROVE Typed
  BY <1>1, <1>2 DEF Ends
<1>3. ASSUME NEW e, Advance(e, box) PROVE Typed
  <2>1. FlagsKept \/ Ends(e, FALSE, box)
    BY <1>3 DEF Advance
  <2> QED
    BY <1>1, <1>2, <2>1
<1>4. CASE m.type = "answer"
  <2>1. HearAnswer(m, box) /\ m.ok \in BOOLEAN
    <3>1. m \in AnswerMsg
      BY <1>0, <1>4, Kinds
    <3> QED
      BY <1>4, <3>1 DEF Hear, AnswerMsg
  <2>2. CASE BlockAnswered(m, box)
    <3>1. \/ FlagsKept \/ Advance(m.req.op, box) \/ Ends(m.req.op, TRUE, box)
      BY <2>2 DEF BlockAnswered
    <3> QED
      BY <1>1, <1>2, <1>3, <3>1
  <2>3. CASE FinishAnswered(m, box)
    <3>1. Ends(m.req.op, ~m.ok, box)
      BY <2>3 DEF FinishAnswered
    <3> QED
      BY <1>2, <2>1, <3>1
  <2>4. CASE OtherAnswered(m, box)
    <3>1. UNCHANGED <<activeRun, running, taskRunning, cancelRequested>>
      BY <2>4 DEF OtherAnswered
    <3>2. requiresRecovery' \in BOOLEAN
      BY <2>4 DEF OtherAnswered
    <3> QED
      BY <1>0, <3>1, <3>2 DEF FlagTypeOK
  <2> QED
    BY <2>1, <2>2, <2>3, <2>4 DEF HearAnswer
<1>5. CASE m.type = "result"
  <2>1. HearResult(m, box)
    BY <1>5 DEF Hear
  <2>2. FlagsKept \/ Advance(m.req.op, box) \/ Ends(m.req.op, TRUE, box)
    BY <2>1 DEF HearResult
  <2> QED
    BY <1>1, <1>2, <1>3, <2>2
<1>6. CASE m.type \notin {"answer", "result"}
  <2>1. HearFault(box)
    BY <1>6 DEF Hear
  <2>2. \/ running' = FALSE /\ cancelRequested' = FALSE /\ activeRun' = 0
        \/ UNCHANGED <<running, cancelRequested, activeRun>>
    BY <2>1 DEF HearFault
  <2>3. taskRunning' = FALSE /\ requiresRecovery' = TRUE
    BY <2>1 DEF HearFault
  <2>4. 0 \in 0..MaxEpoch
    BY TaskAssumption
  <2> QED
    BY <1>0, <2>2, <2>3, <2>4 DEF FlagTypeOK
<1> QED
  BY <1>4, <1>5, <1>6

\* The flags after any step.
LEMMA FlagTypes ==
  ASSUME DesktopTypeOK, Next
  PROVE  FlagTypeOK'
<1>0. FlagTypeOK /\ MaxEpoch \in Nat /\ MaxResets \in Nat
  BY TaskAssumption DEF DesktopTypeOK
<1>1. ASSUME UNCHANGED taskVars PROVE FlagTypeOK'
  BY <1>0, <1>1 DEF taskVars, FlagTypeOK
<1>2. CASE Device
  BY <1>1, <1>2 DEF Device, Serve, Execute, Complete, Fault, DrainResult, DrainFault, DeviceKeeps
<1>3. CASE LinkSteps \/ LinkBreaks
  BY <1>1, <1>3 DEF LinkSteps, LinkBreaks
<1>4. CASE Hear
  <2>1. UNCHANGED <<epoch, rendered, resets>>
    BY <1>4 DEF Hear
  <2> QED
    BY <1>0, <1>4, <2>1, HearFlags DEF FlagTypeOK
<1>5. CASE ResultTimeout
  <2>1. PICK e \in 1..MaxEpoch : Settle(e, TRUE)
    BY <1>5 DEF ResultTimeout, Ends
  <2>2. UNCHANGED <<epoch, rendered, resets>>
    BY <1>5 DEF ResultTimeout
  <2> QED
    BY <1>0, <2>1, <2>2, SettleTypes DEF FlagTypeOK
<1>6. CASE Render
  BY <1>0, <1>6 DEF Render, FlagTypeOK
<1>7. CASE SubmitJob
  <2>1. epoch' \in 0..MaxEpoch /\ activeRun' \in 0..MaxEpoch
    BY <1>0, <1>7 DEF SubmitJob, FlagTypeOK
  <2>2. running' = TRUE /\ taskRunning' = TRUE /\ cancelRequested' = FALSE
    BY <1>7 DEF SubmitJob
  <2>3. UNCHANGED <<rendered, requiresRecovery, resets>>
    BY <1>7 DEF SubmitJob
  <2> QED
    BY <1>0, <2>1, <2>2, <2>3 DEF FlagTypeOK
<1>8. CASE EmergencyStop
  <2>1. epoch' \in 0..MaxEpoch /\ activeRun' \in 0..MaxEpoch
    BY <1>0, <1>8 DEF EmergencyStop, FlagTypeOK
  <2>2. /\ running' = FALSE /\ cancelRequested' = FALSE
        /\ taskRunning' = FALSE /\ requiresRecovery' = TRUE
    BY <1>8 DEF EmergencyStop
  <2>3. UNCHANGED <<rendered, resets>>
    BY <1>8 DEF EmergencyStop
  <2> QED
    BY <1>0, <2>1, <2>2, <2>3 DEF FlagTypeOK
<1>9. CASE CancelJob
  BY <1>0, <1>9 DEF CancelJob, FlagTypeOK
<1>10. CASE ResetFault
  <2>1. resets' \in 0..MaxResets
    BY <1>0, <1>10 DEF ResetFault, FlagTypeOK
  <2>2. UNCHANGED <<epoch, running, taskRunning, rendered, requiresRecovery, cancelRequested, activeRun>>
    BY <1>10 DEF ResetFault
  <2> QED
    BY <1>0, <2>1, <2>2 DEF FlagTypeOK
<1> QED
  BY <1>2, <1>3, <1>4, <1>5, <1>6, <1>7, <1>8, <1>9, <1>10 DEF Next, Loops, User

----------------------------------------------------------------------------
(* Types *)

\* The requests that the user interface makes.
LEMMA RequestTypes ==
  /\ \A e \in Epochs, i \in 1..(JobBlocks + ReturnBlocks) : Req("block", e, i) \in BlockReq
  /\ \A e \in Epochs : Req("finish", e, 0) \in FinishReq /\ Req("stop", e, 0) \in StopReq
  /\ \A k \in 1..MaxResets : Req("reset", k, 0) \in ResetReq
  /\ BlockReq \cup FinishReq \cup ResetReq \cup StopReq \subseteq Request
BY DEF Req, BlockReq, FinishReq, StopReq, ResetReq, Request, QueueReq

\* A move keeps the types of the link, whatever it sends.
LEMMA MoveSends ==
  ASSUME DesktopTypeOK, NEW box, Box(box), LoopMove(box)
  PROVE  LinkTypeOK' /\ WireTypeOK'
<1>0. LinkTypeOK /\ WireTypeOK
  BY DEF DesktopTypeOK
<1>1. ASSUME LinkKept(box) PROVE LinkTypeOK' /\ WireTypeOK'
  BY <1>0, <1>1, KeptTypes
<1>2. ASSUME NEW req \in Request, SendCommand(req, box) PROVE LinkTypeOK' /\ WireTypeOK'
  BY <1>0, <1>2, SendTypes
<1>3. CASE Rests(box) \/ BreaksOff(box)
  BY <1>1, <1>3 DEF Rests, BreaksOff
<1>4. CASE Stops(box)
  BY <1>2, <1>4, RequestTypes DEF Stops
<1>5. CASE Resets(box)
  BY <1>2, <1>5, RequestTypes DEF Resets
<1>6. ASSUME NEW e \in Epochs, ToResult(e, box) \/ Leaves(e, box) PROVE LinkTypeOK' /\ WireTypeOK'
  BY <1>1, <1>6 DEF ToResult, Leaves
<1>7. ASSUME NEW e \in Epochs, AsksFinish(e, box) PROVE LinkTypeOK' /\ WireTypeOK'
  BY <1>2, <1>7, RequestTypes DEF AsksFinish
<1>8. ASSUME NEW e \in Epochs, NEW o, Learns(e, o, box) PROVE LinkTypeOK' /\ WireTypeOK'
  BY <1>1, <1>8 DEF Learns
<1>9. ASSUME NEW e \in Epochs, NEW i, NEW ret, Sends(e, i, ret, box)
      PROVE  LinkTypeOK' /\ WireTypeOK'
  BY <1>2, <1>9, RequestTypes DEF Sends
<1> QED
  BY <1>3, <1>4, <1>5, <1>6, <1>7, <1>8, <1>9 DEF LoopMove

\* A loop that is changed keeps to its task.
LEMMA LoopChange ==
  ASSUME DesktopTypeOK, epoch' \in 0..MaxEpoch, epoch' >= epoch,
         loop' \in [Epochs -> LoopState],
         \A e \in Epochs :
           \/ loop'[e] = loop[e]
           \/ /\ e <= epoch'
              /\ IF loop'[e].returning THEN loop'[e].index > JobBlocks
                                       ELSE loop'[e].index \in 1..JobBlocks
  PROVE  LoopTypeOK'
<1>1. epoch \in Nat /\ epoch' \in Nat /\ \A e \in Epochs : e \in Nat
  BY DEF DesktopTypeOK, FlagTypeOK, Epochs
<1>2. ASSUME NEW e \in Epochs, loop'[e].phase # "none"
      PROVE  IF loop'[e].returning THEN loop'[e].index > JobBlocks ELSE loop'[e].index \in 1..JobBlocks
  BY <1>2 DEF DesktopTypeOK, LoopTypeOK
<1>3. ASSUME NEW e \in Epochs, e > epoch' PROVE loop'[e] = NotBegun
  BY <1>1, <1>3 DEF DesktopTypeOK, LoopTypeOK
<1> QED
  BY <1>2, <1>3 DEF LoopTypeOK

\* A move keeps the types of the loops.
LEMMA MoveLoops ==
  ASSUME DesktopTypeOK, NEW box, LoopMove(box), epoch' \in 0..MaxEpoch
  PROVE  LoopTypeOK' /\ (position' \in BlockReq \cup {NoBlock})
<1>0. /\ loop \in [Epochs -> LoopState] /\ completed \in SUBSET BlockReq
      /\ position \in BlockReq \cup {NoBlock} /\ epoch \in Nat /\ \A e \in Epochs : e \in Nat
  BY DEF DesktopTypeOK, LoopTypeOK, DeviceTypeOK, FlagTypeOK, Epochs
<1> DEFINE InTask(l) == IF l.returning THEN l.index > JobBlocks ELSE l.index \in 1..JobBlocks
<1>1. \A e \in Epochs : loop[e].phase # "none" => e <= epoch /\ InTask(loop[e])
  BY LoopTypes DEF DesktopTypeOK, LoopTypeOK
<1>2. \A l \in LoopState : \A p \in {"over", "result", "finish"} :
        LET k == [l EXCEPT !.phase = p]
        IN k \in LoopState /\ k.index = l.index /\ k.returning = l.returning
  BY DEF LoopState, Phase
<1>3. \A l \in LoopState : \A o \in {"failed", "aborted", "done"} :
        LET k == [l EXCEPT !.outcome = o]
        IN k \in LoopState /\ k.index = l.index /\ k.returning = l.returning
  BY DEF LoopState
<1>a. ASSUME PositionFound \/ position' = position PROVE position' \in BlockReq \cup {NoBlock}
  BY <1>0, <1>a DEF PositionFound
<1>4. ASSUME NEW e \in Epochs, NEW k \in LoopState, loop' = [loop EXCEPT ![e] = k],
             e <= epoch', epoch' >= epoch, InTask(k)
      PROVE  LoopTypeOK'
  <2>1. loop' \in [Epochs -> LoopState] /\ \A d \in Epochs : loop'[d] = IF d = e THEN k ELSE loop[d]
    BY <1>0, <1>4
  <2> HIDE DEF InTask
  <2>2. \A d \in Epochs : loop'[d] = loop[d] \/ (d <= epoch' /\ InTask(loop'[d]))
    BY <1>4, <2>1
  <2> QED
    BY <1>4, <2>1, <2>2, LoopChange DEF InTask
<1>5. ASSUME NEW e \in Epochs, loop[e].phase # "none", epoch' = epoch,
             NEW p \in {"over", "result", "finish"}, loop' = [loop EXCEPT ![e].phase = p]
      PROVE  LoopTypeOK'
  <2> DEFINE k == [loop[e] EXCEPT !.phase = p]
  <2>1. k \in LoopState /\ InTask(k)
    BY <1>0, <1>1, <1>2, <1>5
  <2>2. loop' = [loop EXCEPT ![e] = k]
    BY <1>5
  <2>3. e <= epoch' /\ epoch' >= epoch
    BY <1>0, <1>1, <1>5
  <2> HIDE DEF k, InTask
  <2> QED
    BY <1>4, <2>1, <2>2, <2>3
<1>6. CASE Rests(box) \/ Resets(box)
  <2>1. loop' = loop /\ epoch' = epoch /\ position' = position
    BY <1>6 DEF Rests, Resets, RunningKept
  <2> QED
    BY <1>0, <2>1 DEF DesktopTypeOK, LoopTypeOK
<1>7. ASSUME loop' \in [Epochs -> LoopState], epoch' >= epoch,
             \A e \in Epochs :
               \/ loop'[e] = loop[e]
               \/ Alive(e) /\ loop'[e] = [loop[e] EXCEPT !.phase = "over"]
               \/ loop[e].phase = "ack" /\ \E o \in {"failed", "aborted"} :
                                              loop'[e] = [loop[e] EXCEPT !.outcome = o]
      PROVE  LoopTypeOK'
  <2>1. ASSUME NEW e \in Epochs PROVE loop'[e] = loop[e] \/ (e <= epoch' /\ InTask(loop'[e]))
    <3>1. CASE Alive(e) /\ loop'[e] = [loop[e] EXCEPT !.phase = "over"]
      BY <1>0, <1>1, <1>2, <1>7, <3>1 DEF Alive
    <3>2. CASE loop[e].phase = "ack" /\ \E o \in {"failed", "aborted"} :
                                              loop'[e] = [loop[e] EXCEPT !.outcome = o]
      BY <1>0, <1>1, <1>3, <1>7, <3>2
    <3> QED
      BY <1>7, <3>1, <3>2
  <2> QED
    BY <1>7, <2>1, LoopChange
<1>8. CASE BreaksOff(box)
  BY <1>0, <1>7, <1>8, <1>a DEF BreaksOff
<1>9. CASE Stops(box)
  BY <1>0, <1>7, <1>9, <1>a DEF Stops
<1>10. ASSUME NEW e \in Epochs, ToResult(e, box) \/ AsksFinish(e, box)
       PROVE  LoopTypeOK' /\ (position' \in BlockReq \cup {NoBlock})
  BY <1>5, <1>10, <1>a DEF ToResult, AsksFinish, RunningKept
<1>11. ASSUME NEW e \in Epochs, Leaves(e, box)
       PROVE  LoopTypeOK' /\ (position' \in BlockReq \cup {NoBlock})
  <2>1. epoch' = epoch
    BY <1>11 DEF Leaves, RunningKept
  <2> QED
    BY <1>5, <1>11, <1>a, <2>1 DEF Leaves, Alive
<1>12. ASSUME NEW e \in Epochs, NEW o \in {"done", "failed"}, Learns(e, o, box)
       PROVE  LoopTypeOK' /\ (position' \in BlockReq \cup {NoBlock})
  <2> DEFINE k == [loop[e] EXCEPT !.outcome = o]
  <2>0. epoch' = epoch /\ loop[e].phase = "ack" /\ position' = position
    BY <1>12 DEF Learns, RunningKept
  <2>1. k \in LoopState /\ InTask(k)
    BY <1>0, <1>1, <1>3, <2>0
  <2>2. loop' = [loop EXCEPT ![e] = k]
    BY <1>12 DEF Learns
  <2>3. e <= epoch' /\ epoch' >= epoch
    BY <1>0, <1>1, <2>0
  <2> HIDE DEF k, InTask
  <2> QED
    BY <1>4, <1>a, <2>0, <2>1, <2>2, <2>3
<1>13. ASSUME NEW e \in Epochs, NEW i \in 1..(JobBlocks + ReturnBlocks), NEW ret \in BOOLEAN,
              Sends(e, i, ret, box)
       PROVE  LoopTypeOK' /\ (position' \in BlockReq \cup {NoBlock})
  <2> DEFINE k == [phase |-> "ack", index |-> i, outcome |-> "open", returning |-> ret]
  <2>0. PositionFound /\ epoch' >= epoch /\ e <= epoch'
    BY <1>0, <1>1, <1>13 DEF Sends, RunningKept
  <2>1. k \in LoopState
    BY TaskAssumption DEF LoopState, Phase
  <2>2. InTask(k)
    BY <1>13 DEF Sends
  <2>3. loop' = [loop EXCEPT ![e] = k]
    BY <1>13 DEF Sends
  <2> HIDE DEF k, InTask
  <2> QED
    BY <1>4, <1>a, <2>0, <2>1, <2>2, <2>3
<1> QED
  BY <1>6, <1>8, <1>9, <1>10, <1>11, <1>12, <1>13, <1>a DEF LoopMove

\* An answer of the device keeps the types of the wires.
LEMMA RepliesTypes ==
  ASSUME WireTypeOK, toDevice # << >>, NEW ok \in BOOLEAN, Replies(Head(toDevice), ok), inbox' = inbox
  PROVE  WireTypeOK'
<1>1. Head(toDevice) \in Request /\ toDevice' \in Seq(Request)
  BY TailElements DEF WireTypeOK, Replies
<1>2. Reply(Head(toDevice), ok) \in WireMsg
  BY <1>1, Kinds DEF WireMsg
<1>3. fromDevice' \in Seq(WireMsg)
  BY <1>2, AppendElements DEF WireTypeOK, Replies
<1> QED
  BY <1>1, <1>3 DEF WireTypeOK

\* What the device does to the slot.
SlotTypeOK ==
  /\ slot \in {"free", "reserved", "executing", "ended"}
  /\ outcome \in Outcome \cup {"none"} /\ (slot = "ended" => outcome \in Outcome)

\* A request that is served keeps the types of the wires and of the device.
LEMMA ServeTypes ==
  ASSUME DesktopTypeOK, Serve
  PROVE  WireTypeOK' /\ DeviceTypeOK'
<1> DEFINE req == Head(toDevice)
<1>0. WireTypeOK /\ DeviceTypeOK /\ toDevice # << >> /\ inbox' = inbox
  BY DEF DesktopTypeOK, Serve, wireVars
<1>1. req \in Request
  BY <1>0, TailElements DEF WireTypeOK
<1>2. completed' = completed /\ position' = position
  BY DEF Serve, taskVars
<1>3. CASE req.kind = "block" /\ ServeBlock(req)
  <2>1. req \in BlockReq
    BY <1>1, <1>3, Kinds
  <2>2. \E ok \in BOOLEAN : Replies(req, ok)
    BY <1>3 DEF ServeBlock
  <2>3. WireTypeOK'
    BY <1>0, <2>2, RepliesTypes
  <2>4. SlotTypeOK' /\ owner' \in BlockReq \cup {NoBlock} /\ (slot' # "free" => owner' \in BlockReq)
    BY <1>0, <1>3, <2>1 DEF ServeBlock, SlotTypeOK, DeviceTypeOK, Accept, lifecycleVars
  <2>5. UNCHANGED <<faulted, faultNotice, finished>>
    BY <1>3 DEF ServeBlock
  <2> QED
    BY <1>0, <1>2, <2>3, <2>4, <2>5 DEF DeviceTypeOK, SlotTypeOK
<1>4. CASE req.kind = "finish" /\ ServeFinish(req)
  <2>1. req.op \in Epochs
    BY <1>1, <1>4, Kinds DEF FinishReq
  <2>2. WireTypeOK'
    BY <1>0, <1>4, RepliesTypes DEF ServeFinish
  <2>3. finished' \in SUBSET Epochs
    BY <1>0, <1>4, <2>1 DEF ServeFinish, DeviceTypeOK
  <2>4. UNCHANGED <<slot, outcome, owner, faulted, faultNotice>>
    BY <1>4 DEF ServeFinish, lifecycleVars
  <2> QED
    BY <1>0, <1>2, <2>2, <2>3, <2>4 DEF DeviceTypeOK
<1>5. CASE ServeStop(req)
  <2>1. WireTypeOK'
    BY <1>0, <1>5, RepliesTypes DEF ServeStop
  <2>2. SlotTypeOK' /\ owner' = owner /\ (slot' # "free" => slot # "free")
    BY <1>0, <1>5 DEF ServeStop, EndsFailed, End, SlotTypeOK, DeviceTypeOK, Outcome, lifecycleVars
  <2>3. faulted' = TRUE /\ faultNotice' = TRUE /\ finished' = finished
    BY <1>5 DEF ServeStop
  <2> QED
    BY <1>0, <1>2, <2>1, <2>2, <2>3 DEF DeviceTypeOK, SlotTypeOK
<1>6. CASE ServeReset(req)
  <2>1. PICK ok \in BOOLEAN : /\ faulted' = ~ok /\ faultNotice' = (faultNotice \/ ~ok)
                              /\ Replies(req, ok)
    BY <1>6 DEF ServeReset
  <2>2. WireTypeOK'
    BY <1>0, <2>1, RepliesTypes
  <2>3. SlotTypeOK' /\ owner' = owner /\ finished' = finished /\ slot' = "free"
    BY <1>0, <1>6 DEF ServeReset, Drop, SlotTypeOK, DeviceTypeOK, Outcome, lifecycleVars
  <2>4. faulted' \in BOOLEAN /\ faultNotice' \in BOOLEAN
    BY <1>0, <2>1 DEF DeviceTypeOK
  <2> QED
    BY <1>0, <1>2, <2>2, <2>3, <2>4 DEF DeviceTypeOK, SlotTypeOK
<1> QED
  BY <1>3, <1>4, <1>5, <1>6 DEF Serve

\* So does every other step of the device.
LEMMA DeviceStepTypes ==
  ASSUME DesktopTypeOK, Execute \/ Complete \/ Fault \/ DrainResult \/ DrainFault
  PROVE  WireTypeOK' /\ DeviceTypeOK'
<1>0. WireTypeOK /\ DeviceTypeOK
  BY DEF DesktopTypeOK
<1>1. /\ toDevice' = toDevice /\ inbox' = inbox /\ owner' = owner /\ finished' = finished
      /\ position' = position
  BY DEF Execute, Complete, Fault, DrainResult, DrainFault, DeviceKeeps, taskVars
<1>2. fromDevice' \in Seq(WireMsg)
  <2>1. CASE fromDevice' = fromDevice
    BY <1>0, <2>1 DEF WireTypeOK
  <2>2. CASE DrainFault
    <3>1. FaultEvent \in WireMsg
      BY DEF WireMsg
    <3> QED
      BY <1>0, <2>2, <3>1, AppendElements DEF DrainFault, WireTypeOK
  <2>3. CASE DrainResult
    <3>1. owner \in BlockReq /\ outcome \in Outcome
      BY <1>0, <2>3 DEF DrainResult, DeviceTypeOK
    <3>2. Result(owner, outcome) \in WireMsg
      BY <3>1 DEF Result, ResultMsg, WireMsg
    <3>3. fromDevice' = Append(fromDevice, Result(owner, outcome)) \/ fromDevice' = fromDevice
      BY <2>3 DEF DrainResult
    <3>4. fromDevice \in Seq(WireMsg)
      BY <1>0 DEF WireTypeOK
    <3>5. Append(fromDevice, Result(owner, outcome)) \in Seq(WireMsg)
      BY <3>2, <3>4, AppendElements
    <3> QED
      BY <3>3, <3>4, <3>5
  <2> QED
    BY <2>1, <2>2, <2>3 DEF Execute, Complete, Fault
<1>3. SlotTypeOK' /\ (slot' # "free" => slot # "free")
  <2>1. CASE Execute
    BY <1>0, <2>1 DEF Execute, Start, SlotTypeOK, DeviceTypeOK
  <2>2. CASE Complete
    BY <1>0, <2>2 DEF Complete, End, SlotTypeOK, DeviceTypeOK, Outcome
  <2>3. CASE Fault
    BY <1>0, <2>3 DEF Fault, EndsFailed, End, SlotTypeOK, DeviceTypeOK, Outcome, lifecycleVars
  <2>4. CASE DrainResult
    BY <1>0, <2>4 DEF DrainResult, Report, Discard, SlotTypeOK, DeviceTypeOK
  <2>5. CASE DrainFault
    BY <1>0, <2>5 DEF DrainFault, SlotTypeOK, DeviceTypeOK, lifecycleVars
  <2> QED
    BY <2>1, <2>2, <2>3, <2>4, <2>5
<1>4. completed' \in SUBSET BlockReq
  <2>1. CASE Complete
    BY <1>0, <2>1 DEF Complete, DeviceTypeOK
  <2>2. CASE Execute \/ Fault \/ DrainResult \/ DrainFault
    BY <1>0, <2>2 DEF Execute, Fault, DrainResult, DrainFault, DeviceTypeOK
  <2> QED
    BY <2>1, <2>2
<1>5. faulted' \in BOOLEAN /\ faultNotice' \in BOOLEAN
  <2>1. CASE Fault
    BY <2>1 DEF Fault
  <2>2. CASE DrainFault
    BY <1>0, <2>2 DEF DrainFault, DeviceTypeOK
  <2>3. CASE Execute \/ Complete \/ DrainResult
    BY <1>0, <2>3 DEF Execute, Complete, DrainResult, DeviceTypeOK
  <2> QED
    BY <2>1, <2>2, <2>3
<1> QED
  BY <1>0, <1>1, <1>2, <1>3, <1>4, <1>5 DEF WireTypeOK, DeviceTypeOK, SlotTypeOK

\* Every step keeps the types.
LEMMA TypesKept ==
  ASSUME DesktopInvariant, Next
  PROVE  DesktopTypeOK'
<1>0. DesktopTypeOK
  BY DEF DesktopInvariant
<1>1. FlagTypeOK'
  BY <1>0, FlagTypes
<1>2. CASE Device
  <2>1. UNCHANGED <<linkVars, taskVars>>
    BY <1>2 DEF Device, Serve, Execute, Complete, Fault, DrainResult, DrainFault, DeviceKeeps
  <2>2. WireTypeOK' /\ DeviceTypeOK'
    BY <1>0, <1>2, ServeTypes, DeviceStepTypes DEF Device
  <2>3. LinkTypeOK'
    BY <1>0, <2>1 DEF DesktopTypeOK, LinkTypeOK, linkVars
  <2>4. LoopTypeOK'
    BY <1>0, <2>1 DEF DesktopTypeOK, LoopTypeOK, taskVars
  <2> QED
    BY <1>1, <2>2, <2>3, <2>4 DEF DesktopTypeOK
<1>3. CASE LinkSteps \/ LinkBreaks
  <2>1. UNCHANGED <<taskVars, deviceVars>>
    BY <1>3 DEF LinkSteps, LinkBreaks
  <2>2. LinkTypeOK' /\ WireTypeOK'
    BY <1>0, <1>3, RunCommandTypes, ReceiveTypes, ResumeTypes, RequestTimeoutTypes, DisconnectTypes
       DEF LinkSteps, LinkBreaks, DesktopTypeOK
  <2>3. DeviceTypeOK'
    BY <1>0, <2>1 DEF DesktopTypeOK, DeviceTypeOK, deviceVars, taskVars, lifecycleVars
  <2>4. LoopTypeOK'
    BY <1>0, <2>1 DEF DesktopTypeOK, LoopTypeOK, taskVars
  <2> QED
    BY <1>1, <2>2, <2>3, <2>4 DEF DesktopTypeOK
<1>4. CASE Loops \/ User
  <2>1. UNCHANGED deviceVars /\ epoch' \in 0..MaxEpoch
    BY <1>1, <1>4, InterfaceMoves DEF FlagTypeOK
  <2>2. PICK box : Box(box) /\ LoopMove(box)
    BY <1>4, InterfaceMoves
  <2>3. LinkTypeOK' /\ WireTypeOK'
    BY <1>0, <2>2, MoveSends
  <2>4. LoopTypeOK' /\ position' \in BlockReq \cup {NoBlock}
    BY <1>0, <2>1, <2>2, MoveLoops
  <2>5. DeviceTypeOK'
    BY <1>0, <2>1, <2>4 DEF DesktopTypeOK, DeviceTypeOK, deviceVars, lifecycleVars
  <2> QED
    BY <1>1, <2>3, <2>4, <2>5 DEF DesktopTypeOK
<1> QED
  BY <1>2, <1>3, <1>4 DEF Next
=============================================================================
