-------------------------- MODULE TransportProofs ---------------------------
(***************************************************************************)
(* The safety properties of the command transport, for any motors, any     *)
(* groups of them, any capacity that RoomAssumption allows and any bounds. *)
(* First what the queue operations do to the items, then one step for each *)
(* action and each part of TransportInvariant.                             *)
(***************************************************************************)
EXTENDS TransportProperties, SequenceTheorems, TLAPS

----------------------------------------------------------------------------
(* The queue *)

\* A sequence of one element.
LEMMA SingletonSeq ==
  ASSUME NEW S, NEW e \in S
  PROVE  <<e>> \in Seq(S) /\ Len(<<e>>) = 1
OBVIOUS

\* A batch as it is put into the queue.
LEMMA ItemsProperties ==
  ASSUME NEW frames \in Seq(Frame), NEW urgent \in BOOLEAN
  PROVE  /\ Items(frames, urgent) \in Seq(Item)
         /\ Len(Items(frames, urgent)) = Len(frames)
         /\ \A i \in 1..Len(frames) : /\ Items(frames, urgent)[i].frame = frames[i]
                                     /\ Items(frames, urgent)[i].urgent = urgent
<1> DEFINE e(i) == [frame |-> frames[i], urgent |-> urgent]
<1>1. Len(frames) \in Nat
  BY LenProperties
<1>2. \A i \in 1..Len(frames) : e(i) \in Item
  BY ElementOfSeq DEF Item
<1> HIDE DEF e
<1>3. [i \in 1..Len(frames) |-> e(i)] \in Seq(Item)
  BY <1>1, <1>2, IsASeq
<1>4. Items(frames, urgent) = [i \in 1..Len(frames) |-> e(i)]
  BY DEF Items, e
<1>5. Len([i \in 1..Len(frames) |-> e(i)]) = Len(frames)
  BY <1>1
<1> QED
  BY <1>3, <1>4, <1>5 DEF e

\* Reverse keeps the elements.
LEMMA ReverseProperties ==
  ASSUME NEW S, NEW s \in Seq(S)
  PROVE  /\ Reverse(s) \in Seq(S)
         /\ Len(Reverse(s)) = Len(s)
         /\ \A i \in 1..Len(s) : Reverse(s)[i] = s[Len(s) - i + 1]
<1> DEFINE e(i) == s[Len(s) - i + 1]
<1>1. Len(s) \in Nat
  BY LenProperties
<1>2. \A i \in 1..Len(s) : e(i) \in S
  BY <1>1, ElementOfSeq
<1> HIDE DEF e
<1>3. [i \in 1..Len(s) |-> e(i)] \in Seq(S)
  BY <1>1, <1>2, IsASeq
<1>4. Reverse(s) = [i \in 1..Len(s) |-> e(i)]
  BY <1>1 DEF Reverse, e
<1>5. Len([i \in 1..Len(s) |-> e(i)]) = Len(s)
  BY <1>1
<1> QED
  BY <1>3, <1>4, <1>5 DEF e

\* Insertion keeps what waits, adds what is put, and keeps urgent items first.
LEMMA InsertedProperties ==
  ASSUME queue \in Seq(Item), NEW frames \in Seq(Frame), NEW urgent \in BOOLEAN
  PROVE  /\ Inserted(frames, urgent) \in Seq(Item)
         /\ Len(Inserted(frames, urgent)) = Len(queue) + Len(frames)
         /\ \A i \in 1..(Len(queue) + Len(frames)) :
              \/ \E k \in 1..Len(queue) : Inserted(frames, urgent)[i] = queue[k]
              \/ \E k \in 1..Len(frames) : Inserted(frames, urgent)[i].frame = frames[k]
         /\ \A k \in 1..Len(queue) : \E i \in 1..(Len(queue) + Len(frames)) :
              Inserted(frames, urgent)[i] = queue[k]
         /\ \A k \in 1..Len(frames) : \E i \in 1..(Len(queue) + Len(frames)) :
              Inserted(frames, urgent)[i].frame = frames[k]
         /\ UrgentFirst =>
              \A i, j \in 1..(Len(queue) + Len(frames)) :
                i < j /\ Inserted(frames, urgent)[j].urgent => Inserted(frames, urgent)[i].urgent
<1> DEFINE new == Items(frames, urgent)
           q == Inserted(frames, urgent)
           n == Len(queue)
           k0 == Len(frames)
<1>1. new \in Seq(Item) /\ Len(new) = k0
  BY ItemsProperties
<1>2. \A i \in 1..k0 : new[i].frame = frames[i] /\ new[i].urgent = urgent
  BY ItemsProperties
<1>3. n \in Nat /\ k0 \in Nat
  BY LenProperties
<1>4. CASE urgent = TRUE
  <2>0. \A i \in 1..k0 : new[i].frame = frames[i] /\ new[i].urgent = TRUE
    BY <1>2, <1>4
  <2>1. q = new \o queue
    BY <1>4 DEF Inserted
  <2> HIDE DEF new, q, n, k0
  <2>2. /\ q \in Seq(Item) /\ Len(q) = k0 + n
        /\ \A i \in 1..(k0 + n) : q[i] = IF i <= k0 THEN new[i] ELSE queue[i - k0]
    BY <1>1, <2>1, ConcatProperties DEF n
  <2>3. \A i \in 1..k0 : i \in 1..(n + k0) /\ q[i].frame = frames[i] /\ q[i].urgent = TRUE
    BY <1>3, <2>0, <2>2
  <2>4. \A i \in 1..n : i + k0 \in 1..(n + k0) /\ q[i + k0] = queue[i]
    BY <1>3, <2>2
  <2>5. \A i \in 1..(n + k0) : i \in 1..k0 \/ (i - k0 \in 1..n /\ q[i] = queue[i - k0])
    BY <1>3, <2>2
  <2>6. UrgentFirst => \A i, j \in 1..(n + k0) : i < j /\ q[j].urgent => q[i].urgent
    BY <1>3, <2>3, <2>5 DEF UrgentFirst, n
  <2>7. q \in Seq(Item) /\ Len(q) = n + k0
    BY <1>3, <2>2
  <2>8. \A i \in 1..(n + k0) : \/ \E k \in 1..n : q[i] = queue[k]
                               \/ \E k \in 1..k0 : q[i].frame = frames[k]
    BY <2>3, <2>5
  <2>9. /\ \A k \in 1..n : \E i \in 1..(n + k0) : q[i] = queue[k]
        /\ \A k \in 1..k0 : \E i \in 1..(n + k0) : q[i].frame = frames[k]
    BY <2>3, <2>4
  <2> QED
    BY <2>6, <2>7, <2>8, <2>9 DEF q, n, k0
<1>5. CASE urgent = FALSE
  <2>0. \A i \in 1..k0 : new[i].frame = frames[i] /\ new[i].urgent = FALSE
    BY <1>2, <1>5
  <2>1. q = queue \o new
    BY <1>5 DEF Inserted
  <2> HIDE DEF new, q, n, k0
  <2>2. /\ q \in Seq(Item) /\ Len(q) = n + k0
        /\ \A i \in 1..(n + k0) : q[i] = IF i <= n THEN queue[i] ELSE new[i - n]
    BY <1>1, <2>1, ConcatProperties DEF n
  <2>3. \A i \in 1..n : i \in 1..(n + k0) /\ q[i] = queue[i]
    BY <1>3, <2>2
  <2>4. \A i \in 1..k0 : i + n \in 1..(n + k0) /\ q[i + n] = new[i]
    BY <1>3, <2>2
  <2>5. \A i \in 1..(n + k0) : i \in 1..n \/ (i - n \in 1..k0 /\ q[i] = new[i - n])
    BY <1>3, <2>2
  <2>6. UrgentFirst => \A i, j \in 1..(n + k0) : i < j /\ q[j].urgent => q[i].urgent
    BY <1>3, <2>0, <2>3, <2>5 DEF UrgentFirst, n
  <2>7. \A i \in 1..(n + k0) : \/ \E k \in 1..n : q[i] = queue[k]
                               \/ \E k \in 1..k0 : q[i].frame = frames[k]
    BY <2>0, <2>3, <2>5
  <2>8. /\ \A k \in 1..n : \E i \in 1..(n + k0) : q[i] = queue[k]
        /\ \A k \in 1..k0 : \E i \in 1..(n + k0) : q[i].frame = frames[k]
    BY <2>0, <2>3, <2>4
  <2> QED
    BY <2>2, <2>6, <2>7, <2>8 DEF q, n, k0
<1> QED
  BY <1>4, <1>5

\* What a series of one-frame commands puts into the queue: as many of its
\* frames as there is room for, all of them when they fit.
LEMMA SeriesPut ==
  ASSUME QueueTypeOK, NEW frames \in Seq(Frame), NEW urgent \in BOOLEAN,
         EnqueueEach(frames, urgent)
  PROVE  \E put \in Seq(Frame) :
           /\ queue' = Inserted(put, urgent)
           /\ Len(queue) + Len(put) <= Capacity /\ Len(put) <= Len(frames)
           /\ \A i \in 1..Len(put) : \E k \in 1..Len(frames) : put[i] = frames[k]
           /\ Len(queue) + Len(frames) <= Capacity =>
                \A k \in 1..Len(frames) : \E i \in 1..Len(put) : put[i] = frames[k]
<1> DEFINE room == Capacity - Len(queue)
           n == IF Len(frames) <= room THEN Len(frames) ELSE room
           taken == SubSeq(frames, 1, n)
           put == IF urgent THEN Reverse(taken) ELSE taken
<1>1. Len(queue) \in Nat /\ Len(frames) \in Nat /\ Capacity \in Nat /\ Len(queue) <= Capacity
  BY CapacityAssumption, LenProperties DEF QueueTypeOK
<1>2. n \in 0..Len(frames) /\ n <= room /\ (Len(queue) + Len(frames) <= Capacity => n = Len(frames))
  BY <1>1
<1>3. queue' = Inserted(put, urgent)
  BY DEF EnqueueEach
<1> HIDE DEF room, n
<1>4. /\ taken \in Seq(Frame) /\ Len(taken) = n
      /\ \A i \in 1..n : taken[i] = frames[i]
  <2>1. \A i \in 1..n : frames[i] \in Frame
    BY <1>1, <1>2, ElementOfSeq
  <2>2. /\ taken \in Seq(Frame) /\ Len(taken) = IF 1 <= n THEN n - 1 + 1 ELSE 0
        /\ \A i \in 1..(n - 1 + 1) : taken[i] = frames[1 + i - 1]
    BY <1>2, <2>1, SubSeqProperties
  <2> QED
    BY <1>2, <2>2
<1> HIDE DEF taken
<1>5. /\ put \in Seq(Frame) /\ Len(put) = n
      /\ \/ \A i \in 1..n : put[i] = taken[n - i + 1]
         \/ \A i \in 1..n : put[i] = taken[i]
  BY <1>2, <1>4, ReverseProperties
<1> HIDE DEF put
<1>bounds. \A i \in 1..n : n - i + 1 \in 1..n /\ n - (n - i + 1) + 1 = i /\ i \in 1..Len(frames)
  BY <1>1, <1>2
<1>6. \A i \in 1..n : \E k \in 1..Len(frames) : put[i] = frames[k]
  BY <1>4, <1>5, <1>bounds
<1>7. \A k \in 1..n : \E i \in 1..n : put[i] = frames[k]
  BY <1>4, <1>5, <1>bounds
<1>8. Len(queue) + n <= Capacity
  BY <1>1, <1>2 DEF room
<1> QED
  <2>1. Len(queue) + Len(frames) <= Capacity =>
          \A k \in 1..Len(frames) : \E i \in 1..Len(put) : put[i] = frames[k]
    <3>1. Len(put) = n /\ (Len(queue) + Len(frames) <= Capacity => n = Len(frames))
      BY <1>2, <1>5
    <3> QED
      BY <1>7, <3>1, Zenon
  <2>2. /\ Len(queue) + Len(put) <= Capacity /\ Len(put) <= Len(frames)
        /\ \A i \in 1..Len(put) : \E k \in 1..Len(frames) : put[i] = frames[k]
    <3>1. Len(put) = n
      BY <1>5
    <3>2. Len(queue) + Len(put) <= Capacity /\ Len(put) <= Len(frames)
      BY <1>1, <1>2, <1>8, <3>1
    <3>3. \A i \in 1..Len(put) : \E k \in 1..Len(frames) : put[i] = frames[k]
      BY <1>6, <3>1, Zenon
    <3> QED
      BY <3>2, <3>3
  <2> QED
    BY <1>3, <1>5, <2>1, <2>2, Zenon

\* What putting frames into the queue does to what waits in it.
LEMMA PutProperties ==
  ASSUME QueueTypeOK, NEW put \in Seq(Frame), NEW urgent \in BOOLEAN,
         queue' = Inserted(put, urgent), UNCHANGED pending,
         Len(queue) + Len(put) <= Capacity
  PROVE  /\ QueueTypeOK'
         /\ Len(queue') = Len(queue) + Len(put)
         /\ UrgentFirst => UrgentFirst'
         /\ Waiting \subseteq Waiting'
         /\ \A item \in Waiting' :
              item \in Waiting \/ \E k \in 1..Len(put) : item.frame = put[k]
         /\ \A k \in 1..Len(put) : \E item \in Waiting' : item.frame = put[k]
<1>1. queue \in Seq(Item) /\ pending \in Seq(Item) /\ Len(pending) <= 1
  BY DEF QueueTypeOK
<1>2. /\ queue' \in Seq(Item) /\ Len(queue') = Len(queue) + Len(put)
      /\ \A i \in 1..(Len(queue) + Len(put)) :
            \/ \E k \in 1..Len(queue) : queue'[i] = queue[k]
            \/ \E k \in 1..Len(put) : queue'[i].frame = put[k]
      /\ \A k \in 1..Len(queue) : \E i \in 1..(Len(queue) + Len(put)) : queue'[i] = queue[k]
      /\ \A k \in 1..Len(put) : \E i \in 1..(Len(queue) + Len(put)) : queue'[i].frame = put[k]
      /\ UrgentFirst =>
            \A i, j \in 1..(Len(queue) + Len(put)) :
              i < j /\ queue'[j].urgent => queue'[i].urgent
  <2> DEFINE q == Inserted(put, urgent)
  <2>1. /\ q \in Seq(Item) /\ Len(q) = Len(queue) + Len(put)
        /\ \A i \in 1..(Len(queue) + Len(put)) :
              \/ \E k \in 1..Len(queue) : q[i] = queue[k]
              \/ \E k \in 1..Len(put) : q[i].frame = put[k]
        /\ \A k \in 1..Len(queue) : \E i \in 1..(Len(queue) + Len(put)) : q[i] = queue[k]
        /\ \A k \in 1..Len(put) : \E i \in 1..(Len(queue) + Len(put)) : q[i].frame = put[k]
        /\ UrgentFirst =>
              \A i, j \in 1..(Len(queue) + Len(put)) :
                i < j /\ q[j].urgent => q[i].urgent
    BY <1>1, InsertedProperties
  <2>2. queue' = q
    OBVIOUS
  <2> HIDE DEF q
  <2> QED
    BY <2>1, <2>2
<1> DEFINE n == Len(queue) + Len(put)
<1>3. DOMAIN queue = 1..Len(queue) /\ DOMAIN queue' = 1..n
  BY <1>1, <1>2, LenProperties
<1>4. QueueTypeOK'
  BY <1>1, <1>2 DEF QueueTypeOK
<1>5. UrgentFirst => UrgentFirst'
  BY <1>2, Zenon DEF UrgentFirst
<1> HIDE DEF n
<1>6. ToSet(queue) \subseteq ToSet(queue')
  <2>1. \A k \in 1..Len(queue) : \E i \in 1..n : queue'[i] = queue[k]
    BY <1>2 DEF n
  <2> QED
    BY <1>3, <2>1 DEF ToSet
<1>7. \A item \in ToSet(queue') :
        item \in ToSet(queue) \/ \E k \in 1..Len(put) : item.frame = put[k]
  <2>1. \A i \in 1..n : \/ \E k \in 1..Len(queue) : queue'[i] = queue[k]
                       \/ \E k \in 1..Len(put) : queue'[i].frame = put[k]
    BY <1>2 DEF n
  <2> QED
    BY <1>3, <2>1 DEF ToSet
<1>8. \A k \in 1..Len(put) : \E item \in ToSet(queue') : item.frame = put[k]
  <2>1. \A k \in 1..Len(put) : \E i \in 1..n : queue'[i].frame = put[k]
    BY <1>2 DEF n
  <2> QED
    BY <1>3, <2>1 DEF ToSet
<1>9. ToSet(pending') = ToSet(pending)
  OBVIOUS
<1> QED
  BY <1>2, <1>4, <1>5, <1>6, <1>7, <1>8, <1>9 DEF Waiting

\* Both ways to enqueue.
LEMMA EnqueueProperties ==
  ASSUME QueueTypeOK, NEW frames \in Seq(Frame), NEW urgent \in BOOLEAN,
         EnqueueEach(frames, urgent) \/ EnqueueBatch(frames, urgent)
  PROVE  /\ QueueTypeOK'
         /\ Len(queue') <= Len(queue) + Len(frames)
         /\ UrgentFirst => UrgentFirst'
         /\ Waiting \subseteq Waiting'
         /\ \A item \in Waiting' :
              item \in Waiting \/ \E k \in 1..Len(frames) : item.frame = frames[k]
         /\ Len(queue) + Len(frames) <= Capacity =>
              \A k \in 1..Len(frames) : \E item \in Waiting' : item.frame = frames[k]
<1>0. Len(queue) \in Nat /\ Len(frames) \in Nat /\ Capacity \in Nat
  BY CapacityAssumption, LenProperties DEF QueueTypeOK
<1>1. CASE EnqueueEach(frames, urgent)
  <2>1. PICK put \in Seq(Frame) :
           /\ queue' = Inserted(put, urgent)
           /\ Len(queue) + Len(put) <= Capacity /\ Len(put) <= Len(frames)
           /\ \A i \in 1..Len(put) : \E k \in 1..Len(frames) : put[i] = frames[k]
           /\ Len(queue) + Len(frames) <= Capacity =>
                \A k \in 1..Len(frames) : \E i \in 1..Len(put) : put[i] = frames[k]
    BY <1>1, SeriesPut
  <2>2. Len(put) \in Nat
    BY LenProperties
  <2>3. UNCHANGED pending
    BY <1>1 DEF EnqueueEach
  <2>4. /\ QueueTypeOK'
        /\ Len(queue') = Len(queue) + Len(put)
        /\ UrgentFirst => UrgentFirst'
        /\ Waiting \subseteq Waiting'
        /\ \A item \in Waiting' :
              item \in Waiting \/ \E k \in 1..Len(put) : item.frame = put[k]
        /\ \A k \in 1..Len(put) : \E item \in Waiting' : item.frame = put[k]
    BY <2>1, <2>3, PutProperties
  <2>5. Len(queue') <= Len(queue) + Len(frames)
    BY <1>0, <2>1, <2>2, <2>4
  <2>6. \A item \in Waiting' :
           item \in Waiting \/ \E k \in 1..Len(frames) : item.frame = frames[k]
    BY <2>1, <2>4
  <2>7. Len(queue) + Len(frames) <= Capacity =>
           \A k \in 1..Len(frames) : \E item \in Waiting' : item.frame = frames[k]
    BY <2>1, <2>4
  <2> QED
    BY <2>4, <2>5, <2>6, <2>7
<1>2. CASE EnqueueBatch(frames, urgent) /\ Fits(frames)
  <2>1. queue' = Inserted(frames, urgent) /\ UNCHANGED pending
    BY <1>2 DEF EnqueueBatch
  <2>2. Len(queue) + Len(frames) <= Capacity
    BY <1>0, <1>2 DEF Fits
  <2> QED
    BY <1>0, <2>1, <2>2, PutProperties
<1>3. CASE EnqueueBatch(frames, urgent) /\ ~Fits(frames)
  <2>1. UNCHANGED queueVars
    BY <1>3 DEF EnqueueBatch, queueVars
  <2>2. ~(Len(queue) + Len(frames) <= Capacity)
    BY <1>0, <1>3 DEF Fits
  <2> QED
    BY <1>0, <2>1, <2>2 DEF queueVars, QueueTypeOK, UrgentFirst, Waiting
<1> QED
  BY <1>1, <1>2, <1>3

\* Taking the next item out of the queue or of the place of the pending frame.
LEMMA TransmitProperties ==
  ASSUME QueueTypeOK, TransmitAccepted \/ TransmitRefused
  PROVE  /\ NextItem \in Waiting /\ NextItem \in Item
         /\ QueueTypeOK'
         /\ Len(queue') <= Len(queue)
         /\ UrgentFirst => UrgentFirst'
         /\ Waiting' \subseteq Waiting
         /\ Waiting \subseteq Waiting' \union {NextItem}
         /\ TransmitRefused => Waiting \subseteq Waiting'
<1>1. /\ queue \in Seq(Item) /\ pending \in Seq(Item)
      /\ Len(queue) \in Nat /\ Len(pending) \in Nat /\ Len(pending) <= 1
      /\ DOMAIN queue = 1..Len(queue) /\ DOMAIN pending = 1..Len(pending)
      /\ Capacity \in Nat /\ Len(queue) <= Capacity
  BY CapacityAssumption, LenProperties DEF QueueTypeOK
<1>2. pending' = <<>> \/ pending' = <<NextItem>>
  BY DEF TransmitAccepted, TransmitRefused
<1>3. /\ TransmitRefused => pending' = <<NextItem>>
      /\ ~NothingToSend /\ LoadNext
  BY DEF TransmitAccepted, TransmitRefused
<1>pend. ASSUME NextItem \in Item PROVE pending' \in Seq(Item) /\ Len(pending') <= 1
  <2>1. CASE pending' = <<>>
    BY <2>1, EmptySeq
  <2>2. CASE pending' = <<NextItem>>
    BY <1>pend, <2>2, SingletonSeq
  <2> QED
    BY <1>2, <2>1, <2>2
<1>4. CASE pending # <<>>
  <2>1. Len(pending) = 1
    BY <1>1, <1>4, EmptySeq
  <2>2. queue' = queue /\ NextItem = pending[1] /\ pending[1] \in Item
    BY <1>1, <1>3, <1>4, <2>1, ElementOfSeq DEF LoadNext, NextItem
  <2>3. ToSet(pending) = {NextItem}
    BY <1>1, <2>1, <2>2 DEF ToSet
  <2>4. QueueTypeOK'
    BY <1>1, <1>pend, <2>2 DEF QueueTypeOK
  <2>5. UrgentFirst => UrgentFirst'
    BY <2>2 DEF UrgentFirst
  <2>6. ToSet(pending') \subseteq {NextItem} /\ (TransmitRefused => ToSet(pending') = {NextItem})
    BY <1>2, <1>3 DEF ToSet
  <2>7. ToSet(queue') = ToSet(queue)
    BY <2>2
  <2> QED
    BY <1>1, <2>2, <2>3, <2>4, <2>5, <2>6, <2>7 DEF Waiting
<1>5. CASE pending = <<>>
  <2>1. queue # <<>> /\ queue' = Tail(queue) /\ NextItem = queue[1]
    BY <1>3, <1>5 DEF NothingToSend, LoadNext, NextItem
  <2>2. Len(queue) >= 1
    BY <1>1, <2>1, EmptySeq
  <2>3. /\ queue' \in Seq(Item) /\ Len(queue') = Len(queue) - 1
        /\ \A i \in 1..Len(queue') : queue'[i] = queue[i + 1]
    BY <1>1, <2>1, HeadTailProperties
  <2>4. DOMAIN queue' = 1..Len(queue')
    BY <2>3, LenProperties
  <2>5. queue[1] \in Item
    BY <1>1, <2>2, ElementOfSeq
  <2>6. ToSet(pending) = {}
    BY <1>5 DEF ToSet
  <2>7. ToSet(queue) = ToSet(queue') \union {queue[1]}
    <3>1. \A i \in 1..Len(queue) :
            i = 1 \/ (i - 1 \in 1..Len(queue') /\ queue'[i - 1] = queue[i])
      BY <1>1, <2>3
    <3>2. \A i \in 1..Len(queue') : i + 1 \in 1..Len(queue)
      BY <1>1, <2>3
    <3>3. 1 \in 1..Len(queue)
      BY <1>1, <2>2
    <3>4. ToSet(queue) \subseteq ToSet(queue') \union {queue[1]}
      BY <1>1, <2>4, <3>1 DEF ToSet
    <3>5. ToSet(queue') \subseteq ToSet(queue) /\ queue[1] \in ToSet(queue)
      BY <1>1, <2>3, <2>4, <3>2, <3>3 DEF ToSet
    <3> QED
      BY <3>4, <3>5
  <2>8. ASSUME UrgentFirst PROVE UrgentFirst'
    <3>1. SUFFICES ASSUME NEW i \in 1..Len(queue'), NEW j \in 1..Len(queue'), i < j,
                          queue'[j].urgent
                   PROVE  queue'[i].urgent
      BY DEF UrgentFirst
    <3>2. i + 1 \in 1..Len(queue) /\ j + 1 \in 1..Len(queue) /\ i + 1 < j + 1
      BY <1>1, <2>3, <3>1
    <3>3. queue'[i] = queue[i + 1] /\ queue'[j] = queue[j + 1]
      BY <2>3
    <3>4. queue[j + 1].urgent
      BY <3>1, <3>3
    <3> QED
      BY <2>8, <3>2, <3>3, <3>4 DEF UrgentFirst
  <2>9. QueueTypeOK'
    BY <1>1, <1>pend, <2>1, <2>3, <2>5 DEF QueueTypeOK
  <2>10. ToSet(pending') \subseteq {NextItem} /\ (TransmitRefused => ToSet(pending') = {NextItem})
    BY <1>2, <1>3 DEF ToSet
  <2> QED
    BY <1>1, <2>1, <2>3, <2>5, <2>6, <2>7, <2>8, <2>9, <2>10 DEF Waiting
<1> QED
  BY <1>4, <1>5

----------------------------------------------------------------------------
(* Frames and calls *)

\* The motors of the machine.
LEMMA MotorsProperties ==
  /\ MotorCount \in Nat /\ Capacity \in Nat /\ 3 * MotorCount <= Capacity
  /\ \A i \in 1..MotorCount : MotorOrder[i] \in Motors
  /\ \A m \in Motors : \E i \in 1..MotorCount : m = MotorOrder[i]
<1>1. MotorCount \in Nat
  BY TransportAssumption, LenProperties DEF MotorCount
<1>2. Capacity \in Nat
  BY CapacityAssumption
<1> QED
  BY <1>1, <1>2, RoomAssumption DEF Motors

\* A one-frame command belongs to no run.
LEMMA CommandProperties ==
  ASSUME NEW cmd \in PlainCommands, NEW m \in Motors
  PROVE  /\ Command(cmd, m) \in Frame /\ Command(cmd, m).run = 0
         /\ Command(cmd, m).cmd = cmd /\ Command(cmd, m).motor = m
BY DEF Command, Frame

\* The frames of a move belong to its run.
LEMMA MoveFramesProperties ==
  ASSUME NEW ms \in Seq(Motors), NEW r \in Runs
  PROVE  /\ MoveFrames(ms, r) \in Seq(Frame)
         /\ \A i \in 1..Len(MoveFrames(ms, r)) : MoveFrames(ms, r)[i].run = r
<1> DEFINE n == 2 * Len(ms) + IF Len(ms) > 1 THEN 1 ELSE 0
           e(i) == IF i > 2 * Len(ms)
                     THEN [cmd |-> "trigger", motor |-> Broadcast, run |-> r]
                     ELSE [cmd |-> IF i % 2 = 1 THEN "move first" ELSE "move rest",
                           motor |-> ms[(i + 1) \div 2], run |-> r]
<1>1. Len(ms) \in Nat /\ n \in Nat
  BY LenProperties
<1>2. \A i \in 1..n : e(i) \in Frame /\ e(i).run = r
  <2> SUFFICES ASSUME NEW i \in 1..n PROVE e(i) \in Frame /\ e(i).run = r
    OBVIOUS
  <2>1. CASE i > 2 * Len(ms)
    BY <2>1 DEF Frame, MoveCommands
  <2>2. CASE ~(i > 2 * Len(ms))
    <3>1. (i + 1) \div 2 \in 1..Len(ms)
      BY <1>1, <2>2
    <3>2. ms[(i + 1) \div 2] \in Motors
      BY <3>1, ElementOfSeq
    <3> QED
      BY <2>2, <3>2 DEF Frame, MoveCommands
  <2> QED
    BY <2>1, <2>2
<1>3. MoveFrames(ms, r) = [i \in 1..n |-> e(i)]
  BY DEF MoveFrames
<1> HIDE DEF n, e
<1>4. [i \in 1..n |-> e(i)] \in Seq(Frame)
  BY <1>1, <1>2, IsASeq
<1>5. Len([i \in 1..n |-> e(i)]) = n
  BY <1>1
<1> QED
  BY <1>2, <1>3, <1>4, <1>5

FreshCalls == {call \in Instruction : Fresh(call)}

\* A call whose frames belong to no stopped run.
LEMMA EachIsFresh ==
  ASSUME NEW frames \in Seq(Frame), NEW urgent \in BOOLEAN,
         \A k \in 1..Len(frames) : ~Stale(frames[k])
  PROVE  Each(frames, urgent) \in FreshCalls
BY DEF Each, FreshCalls, Fresh, Instruction

\* Likewise for a move.
LEMMA BatchIsFresh ==
  ASSUME NEW frames \in Seq(Frame), \A k \in 1..Len(frames) : ~Stale(frames[k])
  PROVE  Batch(frames) \in FreshCalls
BY DEF Batch, FreshCalls, Fresh, Instruction

\* A send call puts nothing into the queue.
LEMMA TickIsFresh ==
  ASSUME NEW n \in 1..8
  PROVE  Tick(n) \in FreshCalls /\ Tick(n).op = "tick" /\ Tick(n).left = n
BY DEF Tick, FreshCalls, Fresh, Instruction

\* One urgent command to every motor, in the order of the motors.
LEMMA ToAllProperties ==
  ASSUME NEW cmd \in PlainCommands
  PROVE  /\ ToAll(cmd) \in FreshCalls
         /\ ToAll(cmd).op = "each" /\ ToAll(cmd).urgent = TRUE
         /\ ToAll(cmd).frames \in Seq(Frame) /\ Len(ToAll(cmd).frames) = MotorCount
         /\ \A m \in Motors : \E k \in 1..MotorCount : ToAll(cmd).frames[k] = Command(cmd, m)
<1> DEFINE e(i) == Command(cmd, MotorOrder[i])
           frames == [i \in 1..MotorCount |-> e(i)]
<1>1. \A i \in 1..MotorCount : e(i) \in Frame /\ e(i).run = 0
  BY MotorsProperties, CommandProperties
<1>2. ToAll(cmd) = Each(frames, TRUE)
  BY DEF ToAll
<1>3. \A m \in Motors : \E k \in 1..MotorCount : e(k) = Command(cmd, m)
  BY MotorsProperties
<1> HIDE DEF e
<1>4. frames \in Seq(Frame) /\ Len(frames) = MotorCount
  BY <1>1, MotorsProperties, IsASeq
<1>5. \A k \in 1..Len(frames) : ~Stale(frames[k])
  BY <1>1, <1>4 DEF Stale
<1>6. \A m \in Motors : \E k \in 1..MotorCount : frames[k] = Command(cmd, m)
  BY <1>3
<1> HIDE DEF frames
<1>7. Each(frames, TRUE) \in FreshCalls
  BY <1>4, <1>5, EachIsFresh
<1> QED
  BY <1>2, <1>4, <1>6, <1>7 DEF Each

\* The polls of the executor.
LEMMA PollScriptProperties ==
  ASSUME NEW ms \in Seq(Motors)
  PROVE  PollScript(ms) \in Seq(FreshCalls)
<1> DEFINE e(i) == Command(IF i % 2 = 1 THEN "pulse" ELSE "velocity", ms[(i + 1) \div 2])
           frames == [i \in 1..(2 * Len(ms)) |-> e(i)]
<1>1. Len(ms) \in Nat /\ 2 * Len(ms) \in Nat
  BY LenProperties
<1>2. "pulse" \in PlainCommands /\ "velocity" \in PlainCommands
  BY DEF PlainCommands, ProbeCommands
<1>3. \A i \in 1..(2 * Len(ms)) : (i + 1) \div 2 \in 1..Len(ms)
  BY <1>1
<1>4. \A i \in 1..(2 * Len(ms)) : e(i) \in Frame /\ e(i).run = 0
  BY <1>2, <1>3, CommandProperties, ElementOfSeq
<1>5. PollScript(ms) = <<Each(frames, FALSE)>>
  BY DEF PollScript
<1> HIDE DEF e
<1>6. frames \in Seq(Frame) /\ Len(frames) = 2 * Len(ms)
  BY <1>1, <1>4, IsASeq
<1>7. \A k \in 1..Len(frames) : ~Stale(frames[k])
  BY <1>4, <1>6 DEF Stale
<1> HIDE DEF frames
<1>8. Each(frames, FALSE) \in FreshCalls
  BY <1>6, <1>7, EachIsFresh
<1> QED
  BY <1>5, <1>8, SingletonSeq

\* The probe of reset_fault.
LEMMA ProbeScriptProperties ==
  ASSUME NEW pumps \in Nat
  PROVE  ProbeScript(pumps) \in Seq(FreshCalls)
<1> DEFINE e(i) == Command(ProbeCommands[((i - 1) % 5) + 1], MotorOrder[((i - 1) \div 5) + 1])
           frames == [i \in 1..(5 * MotorCount) |-> e(i)]
           sends == [i \in 1..pumps |-> Tick(4)]
<1>1. 5 * MotorCount \in Nat
  BY MotorsProperties
<1>2. \A i \in 1..(5 * MotorCount) :
        ((i - 1) % 5) + 1 \in 1..5 /\ ((i - 1) \div 5) + 1 \in 1..MotorCount
  BY MotorsProperties
<1>3. \A i \in 1..(5 * MotorCount) : e(i) \in Frame /\ e(i).run = 0
  <2>1. \A k \in 1..5 : ProbeCommands[k] \in PlainCommands
    BY DEF PlainCommands
  <2> QED
    BY <1>2, <2>1, MotorsProperties, CommandProperties
<1>4. ProbeScript(pumps) = <<Each(frames, FALSE)>> \o sends
  BY DEF ProbeScript
<1> HIDE DEF e
<1>5. frames \in Seq(Frame) /\ Len(frames) = 5 * MotorCount
  BY <1>1, <1>3, IsASeq
<1>6. \A k \in 1..Len(frames) : ~Stale(frames[k])
  BY <1>3, <1>5 DEF Stale
<1>7. sends \in Seq(FreshCalls)
  BY TickIsFresh, IsASeq
<1> HIDE DEF frames, sends
<1>8. <<Each(frames, FALSE)>> \in Seq(FreshCalls)
  BY <1>5, <1>6, EachIsFresh, SingletonSeq
<1> QED
  BY <1>4, <1>7, <1>8, ConcatProperties

\* Sequences of fresh calls, and scripts whose calls are all fresh.
LEMMA FreshSeq ==
  /\ \A s \in Seq(Instruction) : (\A i \in 1..Len(s) : Fresh(s[i])) => s \in Seq(FreshCalls)
  /\ \A s \in Seq(FreshCalls) : s \in Seq(Instruction) /\ \A i \in 1..Len(s) : Fresh(s[i])
<1>1. ASSUME NEW s \in Seq(Instruction), \A i \in 1..Len(s) : Fresh(s[i])
      PROVE  s \in Seq(FreshCalls)
  <2>1. Len(s) \in Nat /\ s = [i \in 1..Len(s) |-> s[i]]
    BY LenProperties
  <2>2. \A i \in 1..Len(s) : s[i] \in FreshCalls
    BY <1>1, ElementOfSeq DEF FreshCalls
  <2>3. [i \in 1..Len(s) |-> s[i]] \in Seq(FreshCalls)
    BY <2>1, <2>2, IsASeq
  <2> QED
    BY <2>1, <2>3
<1>2. ASSUME NEW s \in Seq(FreshCalls)
      PROVE  s \in Seq(Instruction) /\ \A i \in 1..Len(s) : Fresh(s[i])
  <2>1. FreshCalls \subseteq Instruction
    BY DEF FreshCalls
  <2>2. s \in Seq(Instruction)
    BY <2>1, SeqMonotonic
  <2>3. \A i \in 1..Len(s) : s[i] \in FreshCalls
    BY ElementOfSeq
  <2> QED
    BY <2>2, <2>3 DEF FreshCalls
<1> QED
  BY <1>1, <1>2

\* The emergency stop clears first; what follows is fresh.
LEMMA EmergencyScriptProperties ==
  /\ EmergencyScript \in Seq(Instruction)
  /\ EmergencyScript # <<>> /\ Head(EmergencyScript).op = "clear"
  /\ Tail(EmergencyScript) =
       <<ToAll("stop"), Tick(8), ToAll("disable"), Tick(8), ToAll("unlock"), Tick(8)>>
  /\ Tail(EmergencyScript) \in Seq(FreshCalls) /\ Tail(EmergencyScript) # <<>>
<1> DEFINE rest == <<ToAll("stop"), Tick(8), ToAll("disable"), Tick(8), ToAll("unlock"), Tick(8)>>
<1>1. "stop" \in PlainCommands /\ "disable" \in PlainCommands /\ "unlock" \in PlainCommands
  BY DEF PlainCommands, EmergencyCommands
<1>2. /\ ToAll("stop") \in FreshCalls /\ ToAll("disable") \in FreshCalls
      /\ ToAll("unlock") \in FreshCalls /\ Tick(8) \in FreshCalls
  <2>1. \A cmd \in PlainCommands : ToAll(cmd) \in FreshCalls
    BY ToAllProperties
  <2>2. Tick(8) \in FreshCalls
    BY TickIsFresh
  <2> QED
    BY <1>1, <2>1, <2>2
<1>3. rest \in Seq(FreshCalls)
  BY <1>2
<1>4. Reset \in Instruction /\ Reset.op = "clear"
  BY DEF Reset, Instruction
<1>5. EmergencyScript \in Seq(Instruction)
  BY <1>2, <1>4 DEF EmergencyScript, FreshCalls
<1>6. EmergencyScript # <<>> /\ Head(EmergencyScript) = Reset
  BY DEF EmergencyScript
<1>7. Tail(EmergencyScript) = rest
  BY DEF EmergencyScript
<1>8. rest # <<>>
  OBVIOUS
<1> QED
  BY <1>3, <1>4, <1>5, <1>6, <1>7, <1>8

\* Only the script of an emergency stop starts with a clear.
LEMMA HeadIsFresh ==
  ASSUME ControlTypeOK, ScriptIsFresh, script # <<>>, script # EmergencyScript
  PROVE  Head(script).op # "clear"
<1>1. script \in Seq(Instruction) /\ 1 \in 1..Len(script)
  BY EmptySeq, LenProperties DEF ControlTypeOK
<1>2. Head(script) = script[1]
  BY <1>1
<1> QED
  BY <1>1, <1>2 DEF ScriptIsFresh, Fresh

\* The script that a queue call leaves.
LEMMA CallScript ==
  ASSUME ControlTypeOK, ScriptIsFresh, Calls
  PROVE  /\ script # <<>> /\ Head(script) \in Instruction
         /\ script' \in Seq(FreshCalls)
         /\ Head(script).op # "clear" => script # EmergencyScript /\ Fresh(Head(script))
<1>1. script \in Seq(Instruction) /\ script # <<>>
  BY DEF ControlTypeOK, Calls, BatchCall, EachCall, ClearCall, SendCall, RetryCall, SendDone,
         Sending, Call
<1>2. /\ Head(script) \in Instruction /\ Head(script) = script[1]
      /\ Tail(script) \in Seq(Instruction) /\ Len(script) \in Nat \ {0}
  BY <1>1, HeadTailProperties, LenProperties, EmptySeq
<1>3. \/ script' = Tail(script)
      \/ /\ Head(script).op = "tick" /\ Head(script).left # 1
         /\ script' = [script EXCEPT ![1].left = @ - 1]
  BY DEF Calls, BatchCall, EachCall, ClearCall, SendCall, RetryCall, SendDone,
         Sending, Call, CallDone
<1>4. CASE script = EmergencyScript
  <2>1. Head(script).op = "clear"
    BY <1>4, EmergencyScriptProperties
  <2>2. script' = Tail(EmergencyScript)
    BY <1>3, <1>4, <2>1
  <2> QED
    BY <1>1, <1>2, <2>1, <2>2, EmergencyScriptProperties
<1>5. CASE script # EmergencyScript
  <2>1. script \in Seq(FreshCalls)
    BY <1>1, <1>5, FreshSeq DEF ScriptIsFresh
  <2>2. Tail(script) \in Seq(FreshCalls) /\ Head(script) \in FreshCalls
    BY <1>1, <2>1, HeadTailProperties
  <2>3. CASE script' = Tail(script)
    BY <1>1, <1>2, <1>5, <2>2, <2>3 DEF FreshCalls
  <2>4. CASE /\ Head(script).op = "tick" /\ Head(script).left # 1
             /\ script' = [script EXCEPT ![1].left = @ - 1]
    <3> DEFINE less == [Head(script) EXCEPT !.left = @ - 1]
    <3>1. Head(script) \in [op : {"tick"}, left : 1..8]
      BY <1>2, <2>4 DEF Instruction
    <3>2. less \in FreshCalls
      BY <2>4, <3>1 DEF FreshCalls, Fresh, Instruction
    <3>3. script' = [script EXCEPT ![1] = less]
      BY <1>2, <2>4
    <3> HIDE DEF less
    <3>4. script' \in Seq(FreshCalls)
      BY <1>2, <2>1, <3>2, <3>3, ExceptSeq
    <3> QED
      BY <1>1, <1>2, <1>5, <2>2, <3>4 DEF FreshCalls
  <2> QED
    BY <1>3, <2>3, <2>4
<1> QED
  BY <1>4, <1>5

\* The script of one executor tick.
LEMMA RunCallsScript ==
  ASSUME NEW calls \in Seq(FreshCalls), RunCalls(calls)
  PROVE  script' \in Seq(FreshCalls)
<1> DEFINE ending == IF execState' = "faulted" THEN <<ToAll("stop")>> ELSE <<>>
<1>1. "stop" \in PlainCommands
  BY DEF PlainCommands, EmergencyCommands
<1>2. ending \in Seq(FreshCalls)
  <2>1. <<ToAll("stop")>> \in Seq(FreshCalls)
    BY <1>1, ToAllProperties, SingletonSeq
  <2> QED
    BY <2>1, EmptySeq
<1>3. <<Tick(4)>> \in Seq(FreshCalls)
  BY TickIsFresh, SingletonSeq
<1>4. script' = calls \o ending \o <<Tick(4)>>
  BY DEF RunCalls
<1> HIDE DEF ending
<1> QED
  BY <1>2, <1>3, <1>4, ConcatProperties

----------------------------------------------------------------------------
(* What each action does to the parts of the invariant. *)

USE DEF execVars, busVars, queueVars, controlVars, historyVars, vars

\* A call and what it puts, takes or clears.
LEMMA CallCases ==
  ASSUME ControlTypeOK, ScriptIsFresh, Calls
  PROVE  \/ \E frames \in Seq(Frame), urgent \in BOOLEAN :
              /\ EnqueueEach(frames, urgent) \/ EnqueueBatch(frames, urgent)
              /\ Head(script).op \in {"each", "batch"}
              /\ Head(script).op = "each" =>
                   Head(script).frames = frames /\ EnqueueEach(frames, urgent)
              /\ script' = Tail(script) /\ UNCHANGED historyVars
              /\ \A k \in 1..Len(frames) : ~Stale(frames[k])
         \/ ClearCall
         \/ Head(script).op = "tick" /\ SendCall
         \/ Head(script).op = "tick" /\ RetryCall
         \/ Head(script).op = "tick" /\ SendDone
<1>1. Head(script) \in Instruction
  BY CallScript
<1>2. CASE BatchCall
  <2>1. Head(script).op = "batch" /\ Head(script).frames \in Seq(Frame)
    BY <1>1, <1>2 DEF BatchCall, Call, Instruction
  <2>2. \A k \in 1..Len(Head(script).frames) : ~Stale(Head(script).frames[k])
    BY <2>1, CallScript DEF Fresh
  <2>3. /\ EnqueueBatch(Head(script).frames, TRUE)
        /\ script' = Tail(script) /\ UNCHANGED historyVars
    BY <1>2 DEF BatchCall, CallDone
  <2> QED
    BY <2>1, <2>2, <2>3
<1>3. CASE EachCall
  <2>1. /\ Head(script).op = "each" /\ Head(script).frames \in Seq(Frame)
        /\ Head(script).urgent \in BOOLEAN
    BY <1>1, <1>3 DEF EachCall, Call, Instruction
  <2>2. \A k \in 1..Len(Head(script).frames) : ~Stale(Head(script).frames[k])
    BY <2>1, CallScript DEF Fresh
  <2>3. /\ EnqueueEach(Head(script).frames, Head(script).urgent)
        /\ script' = Tail(script) /\ UNCHANGED historyVars
    BY <1>3 DEF EachCall, CallDone
  <2> QED
    BY <2>1, <2>2, <2>3
<1>4. CASE SendCall \/ RetryCall \/ SendDone
  BY <1>4 DEF SendCall, RetryCall, SendDone, Sending, Call
<1> QED
  BY <1>2, <1>3, <1>4 DEF Calls

\* A queue call keeps the queue within its capacity, and urgent items first.
LEMMA CallQueue ==
  ASSUME TransportTypeOK, ScriptIsFresh, Calls
  PROVE  QueueTypeOK' /\ (UrgentFirst => UrgentFirst')
<1>1. ControlTypeOK /\ QueueTypeOK /\ Capacity \in Nat
  BY CapacityAssumption DEF TransportTypeOK
<1>2. ASSUME NEW frames \in Seq(Frame), NEW urgent \in BOOLEAN,
             EnqueueEach(frames, urgent) \/ EnqueueBatch(frames, urgent)
      PROVE  QueueTypeOK' /\ (UrgentFirst => UrgentFirst')
  BY <1>1, <1>2, EnqueueProperties
<1>3. CASE ClearCall
  <2>1. queue' = <<>> /\ pending' = <<>>
    BY <1>3 DEF ClearCall, Clear
  <2> QED
    BY <1>1, <2>1, EmptySeq DEF QueueTypeOK, UrgentFirst
<1>4. CASE SendCall \/ RetryCall
  <2>1. TransmitAccepted \/ TransmitRefused
    BY <1>4 DEF SendCall, RetryCall
  <2> QED
    BY <1>1, <2>1, TransmitProperties
<1>5. CASE SendDone
  BY <1>1, <1>5 DEF SendDone, QueueTypeOK, UrgentFirst
<1> QED
  BY <1>1, <1>2, <1>3, <1>4, <1>5, CallCases

\* A frame that leaves is recorded under its run, and as a command of the stop.
LEMMA LeftTypes ==
  ASSUME RecordTypeOK, NEW frame \in Frame, Left(frame)
  PROVE  /\ wire' \in [Runs -> Seq(Frame)]
         /\ sinceStop' \in SUBSET (EmergencyCommands \X Motors)
<1>1. frame.run # 0 => frame.run \in Runs
  BY DEF Frame
<1>2. \A r \in Runs : Append(wire[r], frame) \in Seq(Frame)
  BY AppendProperties DEF RecordTypeOK
<1>3. wire' \in [Runs -> Seq(Frame)]
  BY <1>1, <1>2 DEF Left, RecordTypeOK
<1>4. frame.cmd \in EmergencyCommands => frame.motor \in Motors
  BY DEF Frame, EmergencyCommands, MoveCommands
<1>5. sinceStop' \in SUBSET (EmergencyCommands \X Motors)
  BY <1>4 DEF Left, RecordTypeOK
<1> QED
  BY <1>3, <1>5

\* The script a handler starts with: a part of a round or a reset puts no
\* stale frame and does not clear.
LEMMA NewScript ==
  ASSUME TransportTypeOK, RunIsNewer,
         \/ ResetFault \/ BeginTick \/ LatchCanFault \/ CheckDone \/ RunExecutor \/ NothingRuns
  PROVE  script' \in Seq(FreshCalls)
<1>1. "stop" \in PlainCommands
  BY DEF PlainCommands, EmergencyCommands
<1>2. <<>> \in Seq(FreshCalls) /\ <<ToAll("stop")>> \in Seq(FreshCalls)
      /\ <<Tick(4)>> \in Seq(FreshCalls)
  <2>1. <<ToAll("stop")>> \in Seq(FreshCalls)
    BY <1>1, ToAllProperties, SingletonSeq
  <2>2. <<Tick(4)>> \in Seq(FreshCalls)
    BY TickIsFresh, SingletonSeq
  <2> QED
    BY <2>1, <2>2, EmptySeq
<1>3. CASE ResetFault
  <2>1. PICK pumps \in 1..MaxPump : script' = ProbeScript(pumps)
    BY <1>3 DEF ResetFault
  <2>2. pumps \in Nat
    BY TransportAssumption
  <2> QED
    BY <2>1, <2>2, ProbeScriptProperties
<1>4. CASE BeginTick \/ LatchCanFault \/ CheckDone \/ NothingRuns
  BY <1>2, <1>4 DEF BeginTick, LatchCanFault, CheckDone, NothingRuns
<1>5. CASE RunExecutor
  <2>1. group \in Seq(Motors) /\ PolledFirst \in Seq(Motors)
    BY EmptySeq DEF TransportTypeOK, ControlTypeOK, PolledFirst
  <2>2. CASE Preflight \/ NothingToMove \/ Supervise \/ Finished
    <3>1. \/ RunCalls(<<>>) \/ RunCalls(PollScript(PolledFirst)) \/ RunCalls(PollScript(group))
      BY <2>2 DEF Preflight, NothingToMove, Supervise, Finished
    <3>2. /\ PollScript(PolledFirst) \in Seq(FreshCalls)
          /\ PollScript(group) \in Seq(FreshCalls)
      BY <2>1, PollScriptProperties
    <3> QED
      BY <1>2, <3>1, <3>2, RunCallsScript
  <2>3. CASE IssueCommand
    <3> DEFINE frames == MoveFrames(group, execJob)
    <3>1. execJob \in Runs /\ stoppedUpTo < execJob
      BY <1>5, TransportAssumption DEF RunExecutor, RunIsNewer, TransportTypeOK, RecordTypeOK, Runs
    <3>2. frames \in Seq(Frame) /\ \A k \in 1..Len(frames) : frames[k].run = execJob
      BY <2>1, <3>1, MoveFramesProperties
    <3>3. script' = <<Tick(4)>> \/ RunCalls(<<Batch(frames)>>)
      BY <2>3 DEF IssueCommand
    <3> HIDE DEF frames
    <3>4. \A k \in 1..Len(frames) : ~Stale(frames[k])
      BY <3>1, <3>2, TransportAssumption DEF Stale, TransportTypeOK, RecordTypeOK, Runs
    <3>5. <<Batch(frames)>> \in Seq(FreshCalls)
      BY <3>2, <3>4, BatchIsFresh, SingletonSeq
    <3> QED
      BY <1>2, <3>3, <3>5, RunCallsScript
  <2> QED
    BY <1>5, <2>2, <2>3 DEF RunExecutor
<1> QED
  BY <1>3, <1>4, <1>5

\* The machine boots with the types.
LEMMA TypeInit == Init => TransportTypeOK
<1> SUFFICES ASSUME Init PROVE TransportTypeOK
  OBVIOUS
<1> USE TransportAssumption, CapacityAssumption DEF Init
<1>1. ExecTypeOK /\ BusTypeOK
  BY DEF ExecTypeOK, BusTypeOK, ExecInit, BusInit, ExecState, ExecStage
<1>2. QueueTypeOK
  BY EmptySeq DEF QueueTypeOK, QueueInit
<1>3. <<>> \in Seq(Instruction) /\ <<>> \in Seq(Motors) /\ <<>> \in Seq(Frame)
  BY EmptySeq
<1>bounds. 0 \in 0..MaxStops /\ 0 \in 0..MaxResets /\ 0 \in 0..MaxRuns
  OBVIOUS
<1>4. ControlTypeOK
  <2>1. pc \in {"server", "check", "run"} /\ faulted \in BOOLEAN
    OBVIOUS
  <2>2. script \in Seq(Instruction)
    BY <1>3
  <2>3. group \in Seq(Motors)
    BY <1>3
  <2>4. stops \in 0..MaxStops /\ resets \in 0..MaxResets
    BY <1>bounds
  <2> QED
    BY <2>1, <2>2, <2>3, <2>4 DEF ControlTypeOK
<1>5. RecordTypeOK
  <2>1. execJob \in 0..MaxRuns /\ stoppedUpTo \in 0..MaxRuns
    BY <1>bounds DEF ExecInit
  <2>2. issued \in [Runs -> Seq(Frame)]
    BY <1>3
  <2>3. wire \in [Runs -> Seq(Frame)]
    BY <1>3
  <2>4. sinceStop \in SUBSET (EmergencyCommands \X Motors) /\ retried \in BOOLEAN
    OBVIOUS
  <2> QED
    BY <2>1, <2>2, <2>3, <2>4 DEF RecordTypeOK
<1> QED
  BY <1>1, <1>2, <1>4, <1>5 DEF TransportTypeOK

\* A queue call keeps the types.
LEMMA TypeCall ==
  ASSUME TransportTypeOK, ScriptIsFresh, Calls
  PROVE  TransportTypeOK'
<1>1. UNCHANGED <<execVars, busVars, pc, faulted, group, stops, resets>>
  BY DEF Calls, BatchCall, EachCall, ClearCall, SendCall, RetryCall, SendDone, Sending, Call
<1>2. (ExecTypeOK /\ BusTypeOK)'
  BY <1>1 DEF TransportTypeOK, ExecTypeOK, BusTypeOK
<1>3. QueueTypeOK'
  BY CallQueue
<1>4. ControlTypeOK'
  <2>1. script' \in Seq(Instruction)
    BY CallScript, FreshSeq DEF TransportTypeOK
  <2> QED
    BY <1>1, <2>1 DEF TransportTypeOK, ControlTypeOK
<1>5. RecordTypeOK'
  <2>1. CASE SendCall
    <3>1. NextItem \in Item
      BY <2>1, TransmitProperties DEF SendCall, TransportTypeOK
    <3>2. /\ wire' \in [Runs -> Seq(Frame)]
          /\ sinceStop' \in SUBSET (EmergencyCommands \X Motors)
      BY <2>1, <3>1, LeftTypes DEF SendCall, TransportTypeOK, Item
    <3> QED
      BY <1>1, <2>1, <3>2 DEF SendCall, TransportTypeOK, RecordTypeOK
  <2>2. CASE ~SendCall
    <3>1. UNCHANGED <<issued, wire, stoppedUpTo, sinceStop>> /\ retried' \in {retried, TRUE}
      BY <2>2 DEF Calls, BatchCall, EachCall, ClearCall, RetryCall, SendDone
    <3> QED
      BY <1>1, <3>1 DEF TransportTypeOK, RecordTypeOK
  <2> QED
    BY <2>1, <2>2
<1> QED
  BY <1>2, <1>3, <1>4, <1>5 DEF TransportTypeOK

\* An emergency stop, requested or by the runtime limit, keeps the types.
LEMMA TypeStop ==
  ASSUME TransportTypeOK, EmergencyStop \/ RuntimeTimeout
  PROVE  TransportTypeOK'
<1>1. /\ EmergencyStopWithReason
      /\ stops < MaxStops /\ stops' = stops + 1 /\ pc' \in {pc, "server"}
  BY DEF EmergencyStop, RuntimeTimeout
<1>2. (ExecTypeOK /\ BusTypeOK)'
  BY <1>1 DEF EmergencyStopWithReason, ExecEmergencyStop, TransportTypeOK, ExecTypeOK,
     BusTypeOK, ExecState
<1>3. QueueTypeOK'
  BY <1>1 DEF EmergencyStopWithReason, TransportTypeOK, QueueTypeOK
<1>4. ControlTypeOK'
  BY <1>1, EmergencyScriptProperties, TransportAssumption
     DEF EmergencyStopWithReason, TransportTypeOK, ControlTypeOK
<1>5. RecordTypeOK'
  BY <1>1 DEF EmergencyStopWithReason, ExecEmergencyStop, TransportTypeOK, RecordTypeOK
<1> QED
  BY <1>2, <1>3, <1>4, <1>5 DEF TransportTypeOK

\* The parts of a round and a reset keep the types.
LEMMA TypeRound ==
  ASSUME TransportTypeOK, RunIsNewer,
         \/ ResetFault \/ BeginTick \/ LatchCanFault \/ CheckDone \/ RunExecutor \/ NothingRuns
  PROVE  TransportTypeOK'
<1>1. script' \in Seq(Instruction)
  BY NewScript, FreshSeq
<1>2. UNCHANGED queueVars
  BY DEF ResetFault, BeginTick, LatchCanFault, CheckDone, RunExecutor, NothingRuns
<1>3. QueueTypeOK'
  BY <1>2 DEF TransportTypeOK, QueueTypeOK
<1>4. BusTypeOK'
  BY DEF ResetFault, BeginTick, LatchCanFault, CheckDone, RunExecutor, NothingRuns,
     TransportTypeOK, BusTypeOK, ReadAlerts, RecoverThenProbe, BusOff
<1>5. CASE ResetFault
  <2>1. ExecTypeOK'
    BY <1>5 DEF ResetFault, ExecResetFault, TransportTypeOK, ExecTypeOK, ExecState
  <2>2. ControlTypeOK'
    BY <1>1, <1>5, TransportAssumption DEF ResetFault, TransportTypeOK, ControlTypeOK
  <2>3. RecordTypeOK'
    BY <1>5 DEF ResetFault, ExecResetFault, TransportTypeOK, RecordTypeOK
  <2> QED
    BY <1>3, <1>4, <2>1, <2>2, <2>3 DEF TransportTypeOK
<1>6. CASE BeginTick \/ LatchCanFault \/ NothingRuns
  <2>1. UNCHANGED <<execVars, group, stops, resets, historyVars>>
    BY <1>6 DEF BeginTick, LatchCanFault, NothingRuns
  <2>2. pc' \in {"server", "check"} /\ faulted' \in BOOLEAN
    BY <1>6 DEF BeginTick, LatchCanFault, NothingRuns, TransportTypeOK, ControlTypeOK
  <2>3. ControlTypeOK' /\ ExecTypeOK' /\ RecordTypeOK'
    BY <1>1, <2>1, <2>2 DEF TransportTypeOK, ControlTypeOK, ExecTypeOK, RecordTypeOK
  <2> QED
    BY <1>3, <1>4, <2>3 DEF TransportTypeOK
<1>7. CASE CheckDone
  <2>1. ExecTypeOK'
    <3>1. (\E j \in Nat : ExecStart(j)) \/ UNCHANGED execVars
      BY <1>7 DEF CheckDone, TransportTypeOK, ExecTypeOK
    <3>2. CASE \E j \in Nat : ExecStart(j)
      BY <3>2 DEF ExecStart, ExecTypeOK, ExecState, ExecStage
    <3>3. CASE UNCHANGED execVars
      BY <3>3 DEF TransportTypeOK, ExecTypeOK
    <3> QED
      BY <3>1, <3>2, <3>3
  <2>2. ControlTypeOK'
    BY <1>1, <1>7, TransportAssumption DEF CheckDone, TransportTypeOK, ControlTypeOK
  <2>3. RecordTypeOK'
    BY <1>7, TransportAssumption DEF CheckDone, ExecStart, TransportTypeOK, RecordTypeOK
  <2> QED
    BY <1>3, <1>4, <2>1, <2>2, <2>3 DEF TransportTypeOK
<1>8. CASE RunExecutor
  <2>1. Preflight \/ NothingToMove \/ IssueCommand \/ Supervise \/ Finished
    BY <1>8 DEF RunExecutor
  <2>2. /\ pc' = "server" /\ faulted' \in BOOLEAN /\ UNCHANGED execJob
        /\ UNCHANGED <<stops, resets, wire, stoppedUpTo, sinceStop, retried>>
    BY <1>8 DEF RunExecutor
  <2>3. ExecTypeOK'
    BY <2>1, <2>2 DEF Preflight, NothingToMove, IssueCommand, Supervise, Finished,
       TickBaseline, TickNoMotion, TickIssue, TickTarget, TickFinished,
       TransportTypeOK, ExecTypeOK, ExecState, ExecStage
  <2>4. group' \in Seq(Motors)
    <3>1. group \in Seq(Motors) /\ PolledFirst \in Seq(Motors)
      BY EmptySeq DEF TransportTypeOK, ControlTypeOK, PolledFirst
    <3> QED
      BY <2>1, <3>1 DEF Preflight, NothingToMove, IssueCommand, Supervise, Finished
  <2>5. issued' \in [Runs -> Seq(Frame)]
    <3>1. issued \in [Runs -> Seq(Frame)]
      BY DEF TransportTypeOK, RecordTypeOK
    <3>2. CASE UNCHANGED issued
      BY <3>1, <3>2
    <3>3. CASE issued' = [issued EXCEPT ![execJob] = MoveFrames(group, execJob)]
      <4>1. execJob \in Runs
        BY <1>8, TransportAssumption
           DEF RunExecutor, RunIsNewer, TransportTypeOK, RecordTypeOK, Runs
      <4>2. MoveFrames(group, execJob) \in Seq(Frame)
        BY <4>1, MoveFramesProperties DEF TransportTypeOK, ControlTypeOK
      <4> QED
        BY <3>1, <3>3, <4>1, <4>2
    <3> QED
      BY <2>1, <3>2, <3>3 DEF Preflight, NothingToMove, IssueCommand, Supervise, Finished
  <2>6. ControlTypeOK'
    BY <1>1, <2>2, <2>4 DEF TransportTypeOK, ControlTypeOK
  <2>7. RecordTypeOK'
    BY <2>2, <2>5 DEF TransportTypeOK, RecordTypeOK
  <2> QED
    BY <1>3, <1>4, <2>3, <2>6, <2>7 DEF TransportTypeOK
<1> QED
  BY <1>5, <1>6, <1>7, <1>8

\* What runs was started after the last emergency stop.
LEMMA RunIsNewerStep ==
  ASSUME TransportTypeOK, RunIsNewer, Next
  PROVE  RunIsNewer'
<1> USE DEF RunIsNewer
<1>0. execJob \in Nat /\ stoppedUpTo \in Nat
  BY TransportAssumption DEF TransportTypeOK, RecordTypeOK
<1>1. CASE Calls \/ BeginTick \/ LatchCanFault \/ NothingRuns
  <2>1. UNCHANGED <<execVars, stoppedUpTo>>
    BY <1>1 DEF Calls, BatchCall, EachCall, ClearCall, SendCall, RetryCall, SendDone, Sending,
       Call, BeginTick, LatchCanFault, NothingRuns
  <2> QED
    BY <2>1
<1>2. CASE EmergencyStop \/ RuntimeTimeout
  <2>1. execState' = "faulted" /\ UNCHANGED execJob /\ stoppedUpTo' = execJob
    BY <1>2 DEF EmergencyStop, RuntimeTimeout, EmergencyStopWithReason, ExecEmergencyStop
  <2> QED
    BY <1>0, <2>1
<1>3. CASE ResetFault
  <2>1. /\ execState' = "running" => execState = "running"
        /\ UNCHANGED <<execJob, stoppedUpTo>>
    BY <1>3 DEF ResetFault, ExecResetFault
  <2> QED
    BY <2>1
<1>4. CASE CheckDone
  <2>1. UNCHANGED stoppedUpTo /\ (execJob' = execJob + 1 \/ UNCHANGED execVars)
    BY <1>4 DEF CheckDone, ExecStart
  <2> QED
    BY <1>0, <2>1
<1>5. CASE RunExecutor
  <2>1. execState = "running" /\ UNCHANGED <<execJob, stoppedUpTo>>
    BY <1>5 DEF RunExecutor
  <2> QED
    BY <2>1
<1> QED
  BY <1>1, <1>2, <1>3, <1>4, <1>5 DEF Next, Round, Requests

\* No step but the emergency stop ends runs, and its script clears first.
LEMMA ScriptIsFreshStep ==
  ASSUME TransportTypeOK, RunIsNewer, ScriptIsFresh, Next
  PROVE  ScriptIsFresh'
<1>1. CASE EmergencyStop \/ RuntimeTimeout
  BY <1>1 DEF EmergencyStop, RuntimeTimeout, EmergencyStopWithReason, ScriptIsFresh
<1>2. CASE ~(EmergencyStop \/ RuntimeTimeout)
  <2>1. script' \in Seq(FreshCalls)
    BY <1>2, CallScript, NewScript DEF Next, Round, Requests, TransportTypeOK
  <2>2. UNCHANGED stoppedUpTo
    BY <1>2 DEF Next, Round, Requests, Calls, BatchCall, EachCall, ClearCall, SendCall, RetryCall,
       SendDone, Sending, Call, ResetFault, BeginTick, LatchCanFault, CheckDone, RunExecutor,
       NothingRuns
  <2>3. \A i \in 1..Len(script') : Fresh(script'[i])
    BY <2>1, FreshSeq
  <2> QED
    BY <2>2, <2>3 DEF ScriptIsFresh, Fresh, Stale
<1> QED
  BY <1>1, <1>2

\* Nothing stale is put into the queue, and the clear removes what is.
LEMMA QueueIsFreshStep ==
  ASSUME TransportTypeOK, ScriptIsFresh, QueueIsFresh, Next
  PROVE  QueueIsFresh'
<1>1. CASE EmergencyStop \/ RuntimeTimeout
  BY <1>1 DEF EmergencyStop, RuntimeTimeout, EmergencyStopWithReason, QueueIsFresh
<1>2. CASE Calls
  <2>1. UNCHANGED stoppedUpTo
    BY <1>2 DEF Calls, BatchCall, EachCall, ClearCall, SendCall, RetryCall, SendDone
  <2>2. CASE ClearCall
    BY <2>2 DEF ClearCall, Clear, QueueIsFresh, Waiting, ToSet
  <2>3. CASE Head(script).op # "clear"
    <3>1. \A item \in Waiting : ~Stale(item.frame)
      BY <1>2, <2>3, CallScript DEF QueueIsFresh, TransportTypeOK
    <3>2. \A item \in Waiting' : ~Stale(item.frame)
      <4>1. ASSUME NEW frames \in Seq(Frame), NEW urgent \in BOOLEAN,
                   EnqueueEach(frames, urgent) \/ EnqueueBatch(frames, urgent),
                   \A k \in 1..Len(frames) : ~Stale(frames[k])
            PROVE  \A item \in Waiting' : ~Stale(item.frame)
        <5>1. \A item \in Waiting' :
                item \in Waiting \/ \E k \in 1..Len(frames) : item.frame = frames[k]
          BY <4>1, EnqueueProperties DEF TransportTypeOK
        <5> QED
          BY <3>1, <4>1, <5>1
      <4>2. CASE SendCall \/ RetryCall
        <5>1. Waiting' \subseteq Waiting
          BY <4>2, TransmitProperties DEF SendCall, RetryCall, TransportTypeOK
        <5> QED
          BY <3>1, <5>1
      <4>3. CASE SendDone
        BY <3>1, <4>3 DEF SendDone, Waiting
      <4>4. ~ClearCall
        BY <2>3 DEF ClearCall, Call
      <4> QED
        BY <1>2, <4>1, <4>2, <4>3, <4>4, CallCases DEF TransportTypeOK
    <3> QED
      BY <2>1, <3>2 DEF QueueIsFresh, Stale
  <2>4. Head(script).op = "clear" => ClearCall
    BY <1>2 DEF Calls, BatchCall, EachCall, ClearCall, SendCall, RetryCall, SendDone, Sending, Call
  <2> QED
    BY <2>2, <2>3, <2>4
<1>3. CASE ResetFault \/ BeginTick \/ LatchCanFault \/ CheckDone \/ RunExecutor \/ NothingRuns
  <2>1. script = <<>> /\ UNCHANGED <<queueVars, stoppedUpTo>>
    BY <1>3 DEF ResetFault, BeginTick, LatchCanFault, CheckDone, RunExecutor, NothingRuns
  <2>2. script # EmergencyScript
    BY <2>1, EmergencyScriptProperties
  <2> QED
    BY <2>1, <2>2 DEF QueueIsFresh, Stale, Waiting
<1> QED
  BY <1>1, <1>2, <1>3 DEF Next, Round, Requests

\* Until the queue is cleared, a command of the emergency stop leaves it only
\* by leaving for the bus.
LEMMA KeptCall ==
  ASSUME TransportTypeOK, ScriptIsFresh, Calls, Head(script).op # "clear", stops > 0,
         NEW cmds \in SUBSET EmergencyCommands, Kept(cmds)
  PROVE  Kept(cmds)'
<1>1. CASE SendCall
  <2>1. Waiting \subseteq Waiting' \union {NextItem}
    BY <1>1, TransmitProperties DEF SendCall, TransportTypeOK
  <2>2. sinceStop' = IF NextItem.frame.cmd \in EmergencyCommands
                       THEN sinceStop \union {<<NextItem.frame.cmd, NextItem.frame.motor>>}
                       ELSE sinceStop
    BY <1>1 DEF SendCall, Left
  <2> SUFFICES ASSUME NEW cmd \in cmds, NEW m \in Motors
               PROVE  \/ <<cmd, m>> \in sinceStop'
                      \/ \E item \in Waiting' : item.frame = Command(cmd, m)
    BY DEF Kept, HasLeft
  <2>3. CASE <<cmd, m>> \in sinceStop
    BY <2>2, <2>3
  <2>4. ASSUME NEW item \in Waiting, item.frame = Command(cmd, m)
        PROVE  \/ <<cmd, m>> \in sinceStop'
               \/ \E other \in Waiting' : other.frame = Command(cmd, m)
    <3>1. CASE item \in Waiting'
      BY <2>4, <3>1
    <3>2. CASE item = NextItem
      <4>1. NextItem.frame.cmd = cmd /\ NextItem.frame.motor = m
        BY <2>4, <3>2 DEF Command
      <4> QED
        BY <2>2, <4>1
    <3> QED
      BY <2>1, <3>1, <3>2
  <2> QED
    BY <2>3, <2>4 DEF Kept, HasLeft
<1>2. CASE ~SendCall
  <2>1. UNCHANGED sinceStop
    BY <1>2 DEF Calls, BatchCall, EachCall, ClearCall, RetryCall, SendDone
  <2>2. Waiting \subseteq Waiting'
    <3>1. ASSUME NEW frames \in Seq(Frame), NEW urgent \in BOOLEAN,
                 EnqueueEach(frames, urgent) \/ EnqueueBatch(frames, urgent)
          PROVE  Waiting \subseteq Waiting'
      BY <3>1, EnqueueProperties DEF TransportTypeOK
    <3>2. CASE RetryCall
      BY <3>2, TransmitProperties DEF RetryCall, TransportTypeOK
    <3>3. CASE SendDone
      BY <3>3 DEF SendDone, Waiting
    <3>4. ~ClearCall
      BY DEF ClearCall, Call
    <3> QED
      BY <1>2, <3>1, <3>2, <3>3, <3>4, CallCases DEF TransportTypeOK
  <2> QED
    BY <2>1, <2>2 DEF Kept, HasLeft
<1> QED
  BY <1>1, <1>2

\* A round of commands that finds room: all of them wait.
LEMMA KeptRound ==
  ASSUME TransportTypeOK, ScriptIsFresh, Calls, stops > 0,
         NEW cmd \in EmergencyCommands, Head(script) = ToAll(cmd),
         NEW cmds \in SUBSET EmergencyCommands, Kept(cmds),
         Len(queue) + MotorCount <= Capacity
  PROVE  /\ Kept(cmds \union {cmd})' /\ Len(queue') <= Len(queue) + MotorCount
         /\ script' = Tail(script)
<1>1. cmd \in PlainCommands
  BY DEF PlainCommands
<1>2. /\ Head(script).op = "each" /\ Head(script).frames \in Seq(Frame)
      /\ Head(script).urgent = TRUE /\ Len(Head(script).frames) = MotorCount
      /\ \A m \in Motors : \E k \in 1..MotorCount : Head(script).frames[k] = Command(cmd, m)
  BY <1>1, ToAllProperties
<1>3. EachCall
  BY <1>2 DEF Calls, BatchCall, ClearCall, SendCall, RetryCall, SendDone, Sending, Call
<1>4. EnqueueEach(Head(script).frames, TRUE) /\ script' = Tail(script)
  BY <1>2, <1>3 DEF EachCall, CallDone
<1>5. /\ Len(queue') <= Len(queue) + MotorCount
      /\ \A k \in 1..MotorCount :
            \E item \in Waiting' : item.frame = Head(script).frames[k]
  BY <1>2, <1>4, EnqueueProperties DEF TransportTypeOK
<1>6. \A m \in Motors : \E item \in Waiting' : item.frame = Command(cmd, m)
  BY <1>2, <1>5
<1>7. Kept(cmds)'
  BY <1>2, KeptCall
<1> QED
  BY <1>4, <1>5, <1>6, <1>7 DEF Kept

\* A send call of the emergency stop: it goes on with one frame less, or ends.
LEMMA SendStep ==
  ASSUME TransportTypeOK, ScriptIsFresh, Calls, Head(script).op = "tick"
  PROVE  /\ Len(queue') <= Len(queue)
         /\ \/ script' = Tail(script)
            \/ /\ Head(script).left # 1 /\ script' = [script EXCEPT ![1].left = @ - 1]
<1>1. SendCall \/ RetryCall \/ SendDone
  BY DEF Calls, BatchCall, EachCall, ClearCall, Call
<1>2. Len(queue) \in Nat
  BY LenProperties DEF TransportTypeOK, QueueTypeOK
<1>3. Len(queue') <= Len(queue)
  BY <1>1, <1>2, TransmitProperties DEF SendCall, RetryCall, SendDone, TransportTypeOK
<1> QED
  BY <1>1, <1>3 DEF SendCall, RetryCall, SendDone, CallDone

\* The handler of an emergency stop step by step: each of its three rounds
\* finds room, because the clear left the queue empty.
LEMMA InProgressStep ==
  ASSUME TransportTypeOK, ScriptIsFresh, Calls, stops > 0, EmergencyInProgress
  PROVE  EmergencyInProgress' \/ Kept(EmergencyCommands)'
<1> DEFINE afterStop    == <<ToAll("disable"), Tick(8), ToAll("unlock"), Tick(8)>>
           afterDisable == <<ToAll("unlock"), Tick(8)>>
<1>1. /\ "stop" \in EmergencyCommands /\ "disable" \in EmergencyCommands
      /\ "unlock" \in EmergencyCommands
      /\ {"stop"} \union {"disable"} = {"stop", "disable"}
      /\ {"stop", "disable"} \union {"unlock"} = EmergencyCommands
  BY DEF EmergencyCommands
<1>2. /\ MotorCount \in Nat /\ Capacity \in Nat /\ 3 * MotorCount <= Capacity
      /\ Len(queue) \in Nat
  BY MotorsProperties, LenProperties DEF TransportTypeOK, QueueTypeOK
<1>3. \A n \in 1..8 : Tick(n).op = "tick" /\ Tick(n).left = n
  BY TickIsFresh
<1>4. CASE script = EmergencyScript
  <2>1. ClearCall
    BY <1>4, EmergencyScriptProperties
       DEF Calls, BatchCall, EachCall, ClearCall, SendCall, RetryCall, SendDone, Sending, Call
  <2> QED
    BY <1>4, <2>1 DEF ClearCall, Clear, CallDone, EmergencyInProgress
<1>5. CASE script = Tail(EmergencyScript) /\ queue = <<>>
  <2>1. script =
          <<ToAll("stop"), Tick(8), ToAll("disable"), Tick(8), ToAll("unlock"), Tick(8)>>
    BY <1>5, EmergencyScriptProperties
  <2>2. /\ Head(script) = ToAll("stop")
        /\ Tail(script) = <<Tick(8), ToAll("disable"), Tick(8), ToAll("unlock"), Tick(8)>>
    BY <2>1
  <2>3. Len(queue) = 0 /\ Len(queue) + MotorCount <= Capacity
    BY <1>2, <1>5
  <2>4. Kept({})
    BY DEF Kept
  <2>5. /\ Kept({} \union {"stop"})' /\ Len(queue') <= Len(queue) + MotorCount
        /\ script' = Tail(script)
    BY <1>1, <2>2, <2>3, <2>4, KeptRound
  <2>6. Kept({"stop"})'
    BY <2>5 DEF Kept
  <2>7. script' = <<Tick(8), ToAll("disable"), Tick(8), ToAll("unlock"), Tick(8)>>
    BY <2>2, <2>5
  <2>8. Len(queue') <= MotorCount
    BY <1>2, <2>3, <2>5
  <2> QED
    BY <2>6, <2>7, <2>8 DEF EmergencyInProgress
<1>6. ASSUME Kept({"stop"}), Len(queue) <= MotorCount
      PROVE  /\ (\E n \in 1..8 :
                   script = <<Tick(n), ToAll("disable"), Tick(8), ToAll("unlock"), Tick(8)>>)
                => EmergencyInProgress'
             /\ script = afterStop => EmergencyInProgress'
  <2>1. ASSUME NEW n \in 1..8,
               script = <<Tick(n), ToAll("disable"), Tick(8), ToAll("unlock"), Tick(8)>>
        PROVE  EmergencyInProgress'
    <3>1. Head(script) = Tick(n) /\ Tail(script) = afterStop /\ script[1] = Tick(n)
      BY <2>1
    <3>2. /\ Len(queue') <= Len(queue)
          /\ \/ script' = Tail(script)
             \/ /\ Head(script).left # 1 /\ script' = [script EXCEPT ![1].left = @ - 1]
      BY <1>3, <3>1, SendStep
    <3>3. Kept({"stop"})'
      BY <1>1, <1>3, <1>6, <3>1, KeptCall
    <3>4. Len(queue') <= MotorCount
      <4>1. Len(queue') \in Nat
        BY CallQueue, LenProperties DEF QueueTypeOK
      <4> QED
        BY <1>2, <1>6, <3>2, <4>1
    <3>5. CASE script' = Tail(script)
      BY <3>1, <3>3, <3>4, <3>5 DEF EmergencyInProgress
    <3>6. CASE Head(script).left # 1 /\ script' = [script EXCEPT ![1].left = @ - 1]
      <4>1. n - 1 \in 1..8
        BY <1>3, <3>1, <3>6
      <4>2. script' = <<Tick(n - 1), ToAll("disable"), Tick(8), ToAll("unlock"), Tick(8)>>
        BY <2>1, <3>6 DEF Tick
      <4> QED
        BY <3>3, <3>4, <4>1, <4>2 DEF EmergencyInProgress
    <3> QED
      BY <3>2, <3>5, <3>6
  <2>2. ASSUME script = afterStop PROVE EmergencyInProgress'
    <3>1. /\ Head(script) = ToAll("disable")
          /\ Tail(script) = <<Tick(8), ToAll("unlock"), Tick(8)>>
      BY <2>2
    <3>2. Len(queue) + MotorCount <= Capacity
      BY <1>2, <1>6
    <3>3. /\ Kept({"stop"} \union {"disable"})' /\ Len(queue') <= Len(queue) + MotorCount
          /\ script' = Tail(script)
      BY <1>1, <1>6, <3>1, <3>2, KeptRound
    <3>4. Kept({"stop", "disable"})'
      BY <1>1, <3>3
    <3>5. script' = <<Tick(8), ToAll("unlock"), Tick(8)>>
      BY <3>1, <3>3
    <3>6. Len(queue') <= 2 * MotorCount
      <4>1. Len(queue') \in Nat
        BY CallQueue, LenProperties DEF QueueTypeOK
      <4> QED
        BY <1>2, <1>6, <3>3, <4>1
    <3> QED
      BY <3>4, <3>5, <3>6 DEF EmergencyInProgress
  <2> QED
    BY <2>1, <2>2
<1>7. ASSUME Kept({"stop", "disable"}), Len(queue) <= 2 * MotorCount
      PROVE  /\ (\E n \in 1..8 : script = <<Tick(n), ToAll("unlock"), Tick(8)>>) => EmergencyInProgress'
             /\ script = afterDisable => Kept(EmergencyCommands)'
  <2>1. ASSUME NEW n \in 1..8, script = <<Tick(n), ToAll("unlock"), Tick(8)>>
        PROVE  EmergencyInProgress'
    <3>1. Head(script) = Tick(n) /\ Tail(script) = afterDisable /\ script[1] = Tick(n)
      BY <2>1
    <3>2. /\ Len(queue') <= Len(queue)
          /\ \/ script' = Tail(script)
             \/ /\ Head(script).left # 1 /\ script' = [script EXCEPT ![1].left = @ - 1]
      BY <1>3, <3>1, SendStep
    <3>3. Kept({"stop", "disable"})'
      BY <1>1, <1>3, <1>7, <3>1, KeptCall
    <3>4. Len(queue') <= 2 * MotorCount
      <4>1. Len(queue') \in Nat
        BY CallQueue, LenProperties DEF QueueTypeOK
      <4> QED
        BY <1>2, <1>7, <3>2, <4>1
    <3>5. CASE script' = Tail(script)
      BY <3>1, <3>3, <3>4, <3>5 DEF EmergencyInProgress
    <3>6. CASE Head(script).left # 1 /\ script' = [script EXCEPT ![1].left = @ - 1]
      <4>1. n - 1 \in 1..8
        BY <1>3, <3>1, <3>6
      <4>2. script' = <<Tick(n - 1), ToAll("unlock"), Tick(8)>>
        BY <2>1, <3>6 DEF Tick
      <4> QED
        BY <3>3, <3>4, <4>1, <4>2 DEF EmergencyInProgress
    <3> QED
      BY <3>2, <3>5, <3>6
  <2>2. ASSUME script = afterDisable PROVE Kept(EmergencyCommands)'
    <3>1. Head(script) = ToAll("unlock")
      BY <2>2
    <3>2. Len(queue) + MotorCount <= Capacity
      BY <1>2, <1>7
    <3>3. Kept({"stop", "disable"} \union {"unlock"})'
      BY <1>1, <1>7, <3>1, <3>2, KeptRound
    <3> QED
      BY <1>1, <3>3
  <2> QED
    BY <2>1, <2>2
<1> QED
  BY <1>4, <1>5, <1>6, <1>7 DEF EmergencyInProgress

\* Every command of an emergency stop stays accounted for.
LEMMA EmergencyKeptStep ==
  ASSUME TransportTypeOK, ScriptIsFresh, EmergencyKept, Next
  PROVE  EmergencyKept'
<1>1. CASE EmergencyStop \/ RuntimeTimeout
  BY <1>1 DEF EmergencyStop, RuntimeTimeout, EmergencyStopWithReason, EmergencyKept,
     EmergencyInProgress
<1>2. CASE Calls
  <2>1. UNCHANGED stops
    BY <1>2 DEF Calls, BatchCall, EachCall, ClearCall, SendCall, RetryCall, SendDone, Sending, Call
  <2> SUFFICES ASSUME stops > 0 PROVE EmergencyInProgress' \/ Kept(EmergencyCommands)'
    BY <2>1 DEF EmergencyKept
  <2>2. CASE EmergencyInProgress
    BY <1>2, <2>2, InProgressStep
  <2>3. CASE Kept(EmergencyCommands) /\ ~EmergencyInProgress
    <3>1. Head(script).op # "clear"
      <4>1. script # EmergencyScript
        BY <2>3 DEF EmergencyInProgress
      <4> QED
        BY <1>2, <4>1, HeadIsFresh, CallScript DEF TransportTypeOK
    <3> QED
      BY <1>2, <2>3, <3>1, KeptCall
  <2> QED
    BY <2>2, <2>3 DEF EmergencyKept
<1>3. CASE ResetFault \/ BeginTick \/ LatchCanFault \/ CheckDone \/ RunExecutor \/ NothingRuns
  <2>1. script = <<>> /\ UNCHANGED <<queueVars, stops, sinceStop>>
    BY <1>3 DEF ResetFault, BeginTick, LatchCanFault, CheckDone, RunExecutor, NothingRuns
  <2>2. script # EmergencyScript /\ script # Tail(EmergencyScript)
    BY <2>1, EmergencyScriptProperties
  <2>3. ~EmergencyInProgress
    <3>1. /\ script # <<ToAll("disable"), Tick(8), ToAll("unlock"), Tick(8)>>
          /\ script # <<ToAll("unlock"), Tick(8)>>
      BY <2>1
    <3>2. \A n \in 1..8 :
            /\ script # <<Tick(n), ToAll("disable"), Tick(8), ToAll("unlock"), Tick(8)>>
            /\ script # <<Tick(n), ToAll("unlock"), Tick(8)>>
      BY <2>1
    <3> QED
      BY <2>2, <3>1, <3>2 DEF EmergencyInProgress
  <2> QED
    BY <2>1, <2>3 DEF EmergencyKept, Kept, HasLeft, Waiting
<1> QED
  BY <1>1, <1>2, <1>3 DEF Next, Round, Requests

----------------------------------------------------------------------------
(* The theorems *)

\* The invariant holds when the loop starts.
LEMMA InvariantInit == Init => TransportInvariant
<1> SUFFICES ASSUME Init PROVE TransportInvariant
  OBVIOUS
<1>1. TransportTypeOK
  BY TypeInit
<1>2. queue = <<>> /\ pending = <<>> /\ script = <<>> /\ Len(queue) = 0 /\ Len(script) = 0
  BY EmptySeq DEF Init, QueueInit
<1>3. UrgentFirst /\ ScriptIsFresh
  BY <1>2 DEF UrgentFirst, ScriptIsFresh
<1>4. QueueIsFresh
  BY <1>2 DEF QueueIsFresh, Waiting, ToSet
<1>5. RunIsNewer /\ EmergencyKept
  BY DEF Init, ExecInit, RunIsNewer, EmergencyKept
<1> QED
  BY <1>1, <1>3, <1>4, <1>5 DEF TransportInvariant

\* And every step keeps it.
LEMMA InvariantStep == TransportInvariant /\ [Next]_vars => TransportInvariant'
<1> SUFFICES ASSUME TransportInvariant, [Next]_vars PROVE TransportInvariant'
  OBVIOUS
<1>0. /\ TransportTypeOK /\ UrgentFirst /\ RunIsNewer /\ ScriptIsFresh
      /\ QueueIsFresh /\ EmergencyKept
  BY DEF TransportInvariant
<1>1. CASE Next
  <2>1. TransportTypeOK'
    BY <1>0, <1>1, TypeCall, TypeStop, TypeRound DEF Next, Round, Requests
  <2>2. UrgentFirst'
    <3>1. CASE Calls
      BY <1>0, <3>1, CallQueue
    <3>2. CASE ~Calls
      <4>1. UNCHANGED queue
        BY <1>1, <3>2 DEF Next, Round, Requests, EmergencyStop, RuntimeTimeout,
           EmergencyStopWithReason, ResetFault, BeginTick, LatchCanFault, CheckDone,
           RunExecutor, NothingRuns
      <4> QED
        BY <1>0, <4>1 DEF UrgentFirst
    <3> QED
      BY <3>1, <3>2
  <2>3. RunIsNewer' /\ ScriptIsFresh' /\ QueueIsFresh' /\ EmergencyKept'
    BY <1>0, <1>1, RunIsNewerStep, ScriptIsFreshStep, QueueIsFreshStep, EmergencyKeptStep
  <2> QED
    BY <2>1, <2>2, <2>3 DEF TransportInvariant
<1>2. CASE UNCHANGED vars
  BY <1>0, <1>2 DEF TransportInvariant, TransportTypeOK, ExecTypeOK, BusTypeOK, QueueTypeOK,
     ControlTypeOK, RecordTypeOK, UrgentFirst, RunIsNewer, ScriptIsFresh, Fresh, Stale,
     QueueIsFresh, Waiting, EmergencyKept, EmergencyInProgress, Kept, HasLeft
<1> QED
  BY <1>1, <1>2

\* The inductive invariant of the command transport holds always.
THEOREM TransportInvariantHolds == Spec => []TransportInvariant
<1> QED
  BY InvariantInit, InvariantStep, PTL DEF Spec

\* Every variable keeps its type and the queue never exceeds its capacity.
THEOREM TransportTypeCorrect == Spec => []TransportTypeOK
<1>1. TransportInvariant => TransportTypeOK
  BY DEF TransportInvariant
<1> QED
  BY <1>1, TransportInvariantHolds, PTL

\* No stop and no move ever waits behind a feedback poll.
THEOREM UrgentAlwaysFirst == Spec => []UrgentFirst
<1>1. TransportInvariant => UrgentFirst
  BY DEF TransportInvariant
<1> QED
  BY <1>1, TransportInvariantHolds, PTL

\* After an emergency stop nothing of a run started before it leaves for the bus.
THEOREM StoppedRunIsSilent == Spec => StoppedRunStaysSilent
<1> DEFINE Silent == \A r \in 1..stoppedUpTo : wire'[r] = wire[r]
<1>1. TransportInvariant /\ [Next]_vars => [Silent]_vars
  <2> SUFFICES ASSUME TransportInvariant, Next PROVE Silent
    OBVIOUS
  <2>1. TransportTypeOK /\ ScriptIsFresh /\ QueueIsFresh
    BY DEF TransportInvariant
  <2>2. CASE SendCall
    <3>1. Head(script).op # "clear"
      BY <2>2 DEF SendCall, Sending, Call
    <3>2. ~Stale(NextItem.frame) /\ NextItem \in Item
      <4>1. script # EmergencyScript
        BY <3>1, EmergencyScriptProperties
      <4>2. NextItem \in Waiting /\ NextItem \in Item
        BY <2>1, <2>2, TransmitProperties DEF SendCall, TransportTypeOK
      <4> QED
        BY <2>1, <4>1, <4>2 DEF QueueIsFresh
    <3>3. \A r \in 1..stoppedUpTo : NextItem.frame.run # r
      BY <2>1, <3>2, TransportAssumption DEF Stale, TransportTypeOK, RecordTypeOK
    <3>4. wire \in [Runs -> Seq(Frame)] /\ 1..stoppedUpTo \subseteq Runs
      BY <2>1, TransportAssumption DEF TransportTypeOK, RecordTypeOK, Runs
    <3> QED
      BY <2>2, <3>3, <3>4 DEF SendCall, Left
  <2>3. CASE ~SendCall
    <3>1. UNCHANGED wire
      BY <2>3 DEF Next, Round, Requests, Calls, BatchCall, EachCall, ClearCall, RetryCall,
         SendDone, EmergencyStop, RuntimeTimeout, EmergencyStopWithReason, ResetFault,
         BeginTick, LatchCanFault, CheckDone, RunExecutor, NothingRuns
    <3> QED
      BY <3>1
  <2> QED
    BY <2>2, <2>3
<1> QED
  BY <1>1, TransportInvariantHolds, PTL DEF Spec, StoppedRunStaysSilent

\* Frames of a round that is still to be enqueued.
LEMMA RoundIsScripted ==
  ASSUME NEW cmd \in EmergencyCommands, NEW m \in Motors, ToAll(cmd) \in ToSet(script)
  PROVE  Command(cmd, m) \in Scripted
<1>1. cmd \in PlainCommands
  BY DEF PlainCommands
<1>2. ToAll(cmd) \in Puts
  BY <1>1, ToAllProperties DEF Puts
<1>3. Command(cmd, m) \in ToSet(ToAll(cmd).frames)
  BY <1>1, ToAllProperties, LenProperties DEF ToSet
<1> QED
  BY <1>2, <1>3 DEF Scripted

\* No command of an emergency stop is refused by a full queue or lost.
THEOREM EmergencyIsNeverLost == Spec => []EmergencyNeverLost
<1>1. TransportInvariant => EmergencyNeverLost
  <2> SUFFICES ASSUME TransportInvariant, stops > 0,
                      NEW cmd \in EmergencyCommands, NEW m \in Motors
               PROVE  \/ HasLeft(cmd, m) \/ Command(cmd, m) \in WaitingFrames
                      \/ Command(cmd, m) \in Scripted
    BY DEF EmergencyNeverLost, EmergencyFrames, Command
  <2>1. EmergencyInProgress \/ Kept(EmergencyCommands)
    BY DEF TransportInvariant, EmergencyKept
  <2>2. ASSUME NEW cmds, Kept(cmds), cmd \in cmds
        PROVE  HasLeft(cmd, m) \/ Command(cmd, m) \in WaitingFrames
    BY <2>2 DEF Kept, WaitingFrames
  <2>3. cmd \in {"stop", "disable", "unlock"}
    BY DEF EmergencyCommands
  <2>4. CASE ToAll(cmd) \in ToSet(script)
    BY <2>4, RoundIsScripted
  <2>5. CASE ToAll(cmd) \notin ToSet(script)
    <3>1. script # EmergencyScript
      BY <2>3, <2>5 DEF EmergencyScript, ToSet
    <3>2. script # Tail(EmergencyScript)
      <4>1. script # <<ToAll("stop"), Tick(8), ToAll("disable"), Tick(8), ToAll("unlock"), Tick(8)>>
        BY <2>3, <2>5 DEF ToSet
      <4> QED
        BY <4>1, EmergencyScriptProperties
    <3>3. ASSUME NEW n, \/ script = <<Tick(n), ToAll("disable"), Tick(8), ToAll("unlock"), Tick(8)>>
                        \/ script = <<ToAll("disable"), Tick(8), ToAll("unlock"), Tick(8)>>
          PROVE  cmd \in {"stop"}
      BY <2>3, <2>5, <3>3 DEF ToSet
    <3>4. ASSUME NEW n, \/ script = <<Tick(n), ToAll("unlock"), Tick(8)>>
                        \/ script = <<ToAll("unlock"), Tick(8)>>
          PROVE  cmd \in {"stop", "disable"}
      BY <2>3, <2>5, <3>4 DEF ToSet
    <3> QED
      BY <2>1, <2>2, <3>1, <3>2, <3>3, <3>4 DEF EmergencyInProgress
  <2> QED
    BY <2>4, <2>5
<1> QED
  BY <1>1, TransportInvariantHolds, PTL
=============================================================================
