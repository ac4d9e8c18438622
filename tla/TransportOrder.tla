--------------------------- MODULE TransportOrder ----------------------------
(***************************************************************************)
(* The order in which frames leave for the CAN bus, for any motors, groups *)
(* and bounds, any capacity that RoomAssumption allows and any number of   *)
(* motors that one send call can serve (BudgetAssumption).                 *)
(*                                                                         *)
(* TransportProofs says that nothing stale leaves and no command of an     *)
(* emergency stop is lost.  Here is where the frames of a run are: in one  *)
(* row in the queue, with at most one of them kept for a retry ahead of    *)
(* it, and they are what the run issued and has not sent.  A row is moved  *)
(* by what is put before it and is never broken, so frames leave in the    *)
(* order in which they were issued.  And it follows an emergency stop call *)
(* by call on a bus that takes every frame.                                *)
(***************************************************************************)
EXTENDS TransportProofs

----------------------------------------------------------------------------
(* The line of a run's frames *)

\* Where the frames of the queue are after an insertion.
LEMMA InsertedAt ==
  ASSUME queue \in Seq(Item), NEW put \in Seq(Frame), NEW urgent \in BOOLEAN, NEW q,
         q = Inserted(put, urgent)
  PROVE  /\ q \in Seq(Item) /\ Len(q) = Len(queue) + Len(put)
         /\ urgent => \A i \in 1..Len(q) :
              q[i].frame = IF i <= Len(put) THEN put[i] ELSE queue[i - Len(put)].frame
         /\ ~urgent => \A i \in 1..Len(q) :
              q[i].frame = IF i <= Len(queue) THEN queue[i].frame ELSE put[i - Len(queue)]
<1> DEFINE new == Items(put, urgent)
<1>1. /\ new \in Seq(Item) /\ Len(new) = Len(put)
      /\ \A i \in 1..Len(put) : new[i].frame = put[i]
  BY ItemsProperties
<1>2. Len(put) \in Nat /\ Len(queue) \in Nat
  BY LenProperties
<1>4. CASE urgent
  <2>0. urgent = TRUE
    BY <1>4
  <2>1. q = new \o queue
    BY <2>0 DEF Inserted
  <2> HIDE DEF new
  <2>2. /\ q \in Seq(Item) /\ Len(q) = Len(put) + Len(queue)
        /\ \A i \in 1..(Len(put) + Len(queue)) :
              q[i] = IF i <= Len(put) THEN new[i] ELSE queue[i - Len(put)]
    <3>1. /\ new \o queue \in Seq(Item) /\ Len(new \o queue) = Len(new) + Len(queue)
          /\ \A i \in 1..(Len(new) + Len(queue)) :
               (new \o queue)[i] = IF i <= Len(new) THEN new[i] ELSE queue[i - Len(new)]
      BY <1>1, ConcatProperties
    <3>2. Len(new) = Len(put)
      BY <1>1
    <3> QED
      BY ONLY <2>1, <3>1, <3>2
  <2>3. \A i \in 1..(Len(put) + Len(queue)) :
          q[i].frame = IF i <= Len(put) THEN put[i] ELSE queue[i - Len(put)].frame
    <3> SUFFICES ASSUME NEW i \in 1..(Len(put) + Len(queue))
                 PROVE  q[i].frame = IF i <= Len(put) THEN put[i] ELSE queue[i - Len(put)].frame
      OBVIOUS
    <3>1. CASE i <= Len(put)
      <4>1. i \in 1..Len(put)
        BY <1>2, <3>1
      <4> QED
        BY <1>1, <2>2, <3>1, <4>1
    <3>2. CASE ~(i <= Len(put))
      BY <2>2, <3>2
    <3> QED
      BY <3>1, <3>2
  <2>4. Len(q) = Len(queue) + Len(put) /\ 1..Len(q) = 1..(Len(put) + Len(queue))
    BY <1>2, <2>2
  <2>5. \A i \in 1..Len(q) :
          q[i].frame = IF i <= Len(put) THEN put[i] ELSE queue[i - Len(put)].frame
    BY <2>3, <2>4
  <2> QED
    BY <2>0, <2>2, <2>4, <2>5
<1>5. CASE ~urgent
  <2>0. urgent = FALSE
    BY <1>5
  <2>1. q = queue \o new
    BY <2>0 DEF Inserted
  <2> HIDE DEF new
  <2>2. /\ q \in Seq(Item) /\ Len(q) = Len(queue) + Len(put)
        /\ \A i \in 1..(Len(queue) + Len(put)) :
              q[i] = IF i <= Len(queue) THEN queue[i] ELSE new[i - Len(queue)]
    <3>1. /\ queue \o new \in Seq(Item) /\ Len(queue \o new) = Len(queue) + Len(new)
          /\ \A i \in 1..(Len(queue) + Len(new)) :
               (queue \o new)[i] = IF i <= Len(queue) THEN queue[i] ELSE new[i - Len(queue)]
      BY <1>1, ConcatProperties
    <3>2. Len(new) = Len(put)
      BY <1>1
    <3> QED
      BY ONLY <2>1, <3>1, <3>2
  <2>3. \A i \in 1..(Len(queue) + Len(put)) :
          q[i].frame = IF i <= Len(queue) THEN queue[i].frame ELSE put[i - Len(queue)]
    <3> SUFFICES ASSUME NEW i \in 1..(Len(queue) + Len(put))
                 PROVE  q[i].frame = IF i <= Len(queue) THEN queue[i].frame ELSE put[i - Len(queue)]
      OBVIOUS
    <3>1. CASE i <= Len(queue)
      BY <2>2, <3>1
    <3>2. CASE ~(i <= Len(queue))
      <4>1. i - Len(queue) \in 1..Len(put)
        BY <1>2, <3>2
      <4> QED
        BY <1>1, <2>2, <3>2, <4>1
    <3> QED
      BY <3>1, <3>2
  <2> QED
    BY <2>0, <2>2, <2>3
<1> QED
  BY <1>4, <1>5

\* Frames of other runs do not come between those of a line.
LEMMA LineStays ==
  ASSUME QueueTypeOK, RecordTypeOK, NEW r \in Runs,
         NEW p \in 0..Len(queue), NEW n \in 0..Len(queue), Line(r, p, n),
         NEW put \in Seq(Frame), NEW urgent \in BOOLEAN,
         queue' = Inserted(put, urgent), UNCHANGED <<pending, wire, issued>>,
         \A k \in 1..Len(put) : put[k].run # r
  PROVE  \E p2, n2 \in 0..Len(queue') : Line(r, p2, n2)'
<1>1. /\ queue \in Seq(Item) /\ Len(queue) \in Nat /\ Len(put) \in Nat
      /\ Len(wire[r]) \in Nat /\ Held(r) \in {0, 1}
  BY LenProperties DEF QueueTypeOK, RecordTypeOK, Held
<1>2. /\ Len(queue') = Len(queue) + Len(put)
      /\ urgent => \A i \in 1..Len(queue') :
           queue'[i].frame = IF i <= Len(put) THEN put[i] ELSE queue[i - Len(put)].frame
      /\ ~urgent => \A i \in 1..Len(queue') :
           queue'[i].frame = IF i <= Len(queue) THEN queue[i].frame ELSE put[i - Len(queue)]
  BY <1>1, InsertedAt
<1>3. Held(r)' = Held(r)
  BY DEF Held
<1>4. /\ p + n <= Len(queue)
      /\ Held(r) + n > 0 => Len(wire[r]) + Held(r) + n = Len(issued[r])
      /\ Held(r) = 1 => pending[1].frame = issued[r][Len(wire[r]) + 1]
      /\ \A i \in 1..Len(queue) : queue[i].frame.run = r <=> p < i /\ i <= p + n
      /\ \A k \in 1..n : queue[p + k].frame = issued[r][Len(wire[r]) + Held(r) + k]
  BY DEF Line
<1> DEFINE w == Len(wire[r]) + Held(r)
           f(i) == queue[i].frame
           g(i) == queue'[i].frame
           a == Len(queue)
           b == Len(put)
<1>5. w \in Nat /\ a \in Nat /\ b \in Nat /\ p \in 0..a /\ n \in 0..a /\ p + n <= a
  BY <1>1, <1>4
<1>6. /\ \A i \in 1..a : f(i).run = r <=> p < i /\ i <= p + n
      /\ \A k \in 1..n : f(p + k) = issued[r][w + k]
  BY <1>4
<1>7. /\ urgent => \A i \in 1..(a + b) : g(i) = IF i <= b THEN put[i] ELSE f(i - b)
      /\ ~urgent => \A i \in 1..(a + b) : g(i) = IF i <= a THEN f(i) ELSE put[i - a]
  BY <1>2
<1>8. ASSUME NEW p2 \in 0..(a + b), p2 + n <= a + b,
             \A i \in 1..(a + b) : g(i).run = r <=> p2 < i /\ i <= p2 + n,
             \A k \in 1..n : g(p2 + k) = issued[r][w + k]
      PROVE  \E q2, n2 \in 0..Len(queue') : Line(r, q2, n2)'
  <2>1. n \in 0..(a + b)
    BY <1>5
  <2>2. Line(r, p2, n)'
    BY <1>2, <1>3, <1>4, <1>8 DEF Line
  <2> QED
    BY <1>2, <2>1, <2>2
<1> HIDE DEF w, f, g, a, b
<1>9. CASE urgent
  <2> DEFINE p2 == p + b
  <2>1. p2 \in 0..(a + b) /\ p2 + n <= a + b
    BY <1>5
  <2>2. \A i \in 1..(a + b) : g(i).run = r <=> p2 < i /\ i <= p2 + n
    <3> SUFFICES ASSUME NEW i \in 1..(a + b) PROVE g(i).run = r <=> p2 < i /\ i <= p2 + n
      OBVIOUS
    <3>1. CASE i <= b
      <4>1. i \in 1..b /\ ~(p2 < i)
        BY <1>5, <3>1
      <4>2. g(i) = put[i]
        BY <1>7, <1>9, <3>1
      <4> QED
        BY <4>1, <4>2 DEF b
    <3>2. CASE ~(i <= b)
      <4>1. i - b \in 1..a /\ (p < i - b <=> p2 < i) /\ (i - b <= p + n <=> i <= p2 + n)
        BY <1>5, <3>2
      <4>2. g(i) = f(i - b)
        BY <1>7, <1>9, <3>2
      <4> QED
        BY <1>6, <4>1, <4>2
    <3> QED
      BY <3>1, <3>2
  <2>pos. \A k \in 1..n : p2 + k \in 1..(a + b) /\ ~(p2 + k <= b) /\ p2 + k - b = p + k
    BY <1>5
  <2> HIDE DEF p2
  <2>3. \A k \in 1..n : g(p2 + k) = issued[r][w + k]
    <3> SUFFICES ASSUME NEW k \in 1..n PROVE g(p2 + k) = issued[r][w + k]
      OBVIOUS
    <3>1. \A j \in 1..(a + b) : ~(j <= b) => g(j) = f(j - b)
      BY <1>7, <1>9
    <3> DEFINE j == p2 + k
               i == p + k
    <3>2. j \in 1..(a + b) /\ ~(j <= b) /\ j - b = i
      BY <1>5 DEF p2
    <3>3. f(i) = issued[r][w + k]
      BY <1>6
    <3> HIDE DEF i, j
    <3>4. g(j) = issued[r][w + k]
      BY <3>1, <3>2, <3>3
    <3> QED
      BY <3>4 DEF j
  <2> QED
    BY <1>8, <2>1, <2>2, <2>3
<1>10. CASE ~urgent
  <2>1. p \in 0..(a + b) /\ p + n <= a + b
    BY <1>5
  <2>2. \A i \in 1..(a + b) : g(i).run = r <=> p < i /\ i <= p + n
    <3> SUFFICES ASSUME NEW i \in 1..(a + b) PROVE g(i).run = r <=> p < i /\ i <= p + n
      OBVIOUS
    <3>1. CASE i <= a
      <4>1. i \in 1..a /\ g(i) = f(i)
        BY <1>5, <1>7, <1>10, <3>1
      <4> QED
        BY <1>6, <4>1
    <3>2. CASE ~(i <= a)
      <4>1. i - a \in 1..b /\ ~(i <= p + n)
        BY <1>5, <3>2
      <4>2. g(i) = put[i - a]
        BY <1>7, <1>10, <3>2
      <4> QED
        BY <4>1, <4>2 DEF b
    <3> QED
      BY <3>1, <3>2
  <2>3. \A k \in 1..n : g(p + k) = issued[r][w + k]
    <3> SUFFICES ASSUME NEW k \in 1..n PROVE g(p + k) = issued[r][w + k]
      OBVIOUS
    <3>1. p + k \in 1..(a + b) /\ p + k <= a
      BY <1>5
    <3>2. g(p + k) = f(p + k)
      BY <1>7, <1>10, <3>1
    <3> QED
      BY <1>6, <3>2
  <2> QED
    BY <1>8, <2>1, <2>2, <2>3
<1> QED
  BY <1>9, <1>10

\* A move that is put into the queue is a line at its front.
LEMMA LineBegins ==
  ASSUME QueueTypeOK, RecordTypeOK, NEW r \in Runs, NoneWaits(r), Len(wire[r]) = 0,
         NEW n \in Nat, Len(issued[r]) = n,
         queue' = Inserted(issued[r], TRUE), UNCHANGED <<pending, wire, issued>>,
         \A k \in 1..Len(issued[r]) : issued[r][k].run = r
  PROVE  \E p, c \in 0..Len(queue') : Line(r, p, c)'
<1> DEFINE a == Len(queue)
           f(i) == queue[i].frame
           g(i) == queue'[i].frame
           b(i) == issued[r][i]
<1>1. /\ queue \in Seq(Item) /\ a \in Nat /\ n \in Nat
      /\ issued[r] \in Seq(Frame) /\ Len(wire[r]) = 0
      /\ DOMAIN queue = 1..Len(queue) /\ DOMAIN pending = 1..Len(pending)
      /\ Len(pending) \in Nat /\ pending \in Seq(Item)
  BY LenProperties, EmptySeq DEF QueueTypeOK, RecordTypeOK
<1>2. /\ Len(queue') = a + n
      /\ \A i \in 1..(a + n) : g(i) = IF i <= n THEN b(i) ELSE f(i - n)
  <2>1. TRUE \in BOOLEAN
    OBVIOUS
  <2>2. /\ Len(queue') = Len(queue) + Len(issued[r])
        /\ TRUE => \A i \in 1..Len(queue') : queue'[i].frame =
             IF i <= Len(issued[r]) THEN issued[r][i] ELSE queue[i - Len(issued[r])].frame
    BY <1>1, <2>1, InsertedAt
  <2>3. Len(issued[r]) = n
    OBVIOUS
  <2>4. Len(queue') = a + n
    BY <2>2, <2>3
  <2>5. \A i \in 1..(a + n) : g(i) = IF i <= n THEN b(i) ELSE f(i - n)
    BY ONLY <2>2, <2>3, <2>4, <1>1
  <2> QED
    BY <2>4, <2>5
<1>3. \A i \in 1..a : f(i).run # r
  BY <1>1 DEF NoneWaits, Waiting, ToSet
<1>4. Held(r) = 0
  <2>1. CASE pending = <<>>
    BY <2>1 DEF Held
  <2>2. CASE pending # <<>>
    <3>1. 1 \in 1..Len(pending)
      BY <1>1, <2>2, EmptySeq
    <3>2. pending[1].frame.run # r
      BY <1>1, <3>1 DEF NoneWaits, Waiting, ToSet
    <3> QED
      BY <3>2 DEF Held
  <2> QED
    BY <2>1, <2>2
<1>5. Held(r)' = 0
  BY <1>4 DEF Held
<1>6. \A i \in 1..n : b(i).run = r
  OBVIOUS
<1>sum. a \in Nat /\ n \in Nat /\ Len(wire[r]) = 0 /\ Len(queue') = a + n
  BY <1>1, <1>2
<1>at. \A i \in 1..(a + n) : g(i) = IF i <= n THEN b(i) ELSE f(i - n)
  BY <1>2
<1> HIDE DEF a, f, g, b
<1>7. \A i \in 1..(a + n) : g(i).run = r <=> 0 < i /\ i <= 0 + n
  <2> SUFFICES ASSUME NEW i \in 1..(a + n) PROVE g(i).run = r <=> i <= n
    BY <1>sum
  <2>1. CASE i <= n
    <3>1. i \in 1..n
      BY <1>sum, <2>1
    <3> QED
      BY <1>at, <1>6, <2>1, <3>1
  <2>2. CASE ~(i <= n)
    <3>1. i - n \in 1..a
      BY <1>sum, <2>2
    <3> QED
      BY <1>at, <1>3, <2>2, <3>1
  <2> QED
    BY <2>1, <2>2
<1>8. \A k \in 1..n : g(0 + k) = b(k)
  <2> SUFFICES ASSUME NEW k \in 1..n PROVE g(k) = b(k)
    OBVIOUS
  <2>1. k \in 1..(a + n) /\ k <= n
    BY <1>sum
  <2> QED
    BY <1>at, <2>1
<1>9. 0 + n <= Len(queue') /\ Len(wire[r]) + 0 + n = n
  BY ONLY <1>sum
<1>10. Line(r, 0, n)'
  <2>1. wire' = wire /\ issued' = issued /\ n = Len(issued[r])
    OBVIOUS
  <2> DEFINE h == Held(r)'
             v == Len(wire'[r])
  <2>2. h = 0 /\ v = 0 /\ v + h + n = n
    <3>1. h = 0
      BY <1>5
    <3>2. v = 0
      BY <1>sum, <2>1
    <3> HIDE DEF h, v
    <3> QED
      BY ONLY <1>sum, <3>1, <3>2
  <2>3. \A k \in 1..n : g(0 + k) = b(v + h + k)
    <3>1. \A k \in 1..n : v + h + k = k
      BY ONLY <2>2
    <3> HIDE DEF h, v
    <3> QED
      BY ONLY <1>8, <3>1
  <2> HIDE DEF h, v
  <2>4. /\ 0 + n <= Len(queue')
        /\ h + n > 0 => v + h + n = n
        /\ h = 1 => pending'[1].frame = issued'[r][v + 1]
    BY ONLY <1>9, <2>2
  <2>5. \A i \in 1..Len(queue') : g(i).run = r <=> 0 < i /\ i <= 0 + n
    BY ONLY <1>sum, <1>7
  <2> QED
    BY ONLY <2>1, <2>3, <2>4, <2>5 DEF Line, g, b, h, v
<1>11. 0 \in 0..Len(queue') /\ n \in 0..Len(queue')
  BY ONLY <1>sum
<1> QED
  BY ONLY <1>10, <1>11

\* The frame the next transmission is about is the next one of its run.
LEMMA NextInLine ==
  ASSUME QueueTypeOK, RecordTypeOK, NEW r \in Runs,
         NEW p \in 0..Len(queue), NEW n \in 0..Len(queue), Line(r, p, n),
         ~NothingToSend, NextItem.frame.run = r
  PROVE  /\ NextItem.frame = issued[r][Len(wire[r]) + 1]
         /\ Len(wire[r]) < Len(issued[r])
         /\ pending = <<>> => p = 0 /\ n > 0
<1>1. /\ Len(queue) \in Nat /\ Len(wire[r]) \in Nat /\ Len(issued[r]) \in Nat
  BY LenProperties DEF QueueTypeOK, RecordTypeOK
<1>2. CASE pending # <<>>
  <2>1. NextItem = pending[1] /\ Held(r) = 1
    BY <1>2 DEF NextItem, Held
  <2>2. /\ pending[1].frame = issued[r][Len(wire[r]) + 1]
        /\ Held(r) + n > 0 => Len(wire[r]) + Held(r) + n = Len(issued[r])
    BY <2>1 DEF Line
  <2> QED
    BY <1>1, <1>2, <2>1, <2>2
<1>3. CASE pending = <<>>
  <2>1. NextItem = queue[1] /\ Held(r) = 0 /\ queue # <<>>
    BY <1>3 DEF NextItem, Held, NothingToSend
  <2>2. 1 \in 1..Len(queue)
    <3>1. Len(queue) # 0
      BY <2>1, EmptySeq DEF QueueTypeOK
    <3> QED
      BY <1>1, <3>1
  <2>3. p < 1 /\ 1 <= p + n
    BY <2>1, <2>2 DEF Line
  <2>4. p = 0 /\ n > 0 /\ 1 \in 1..n
    BY <1>1, <2>3
  <2>5. /\ queue[p + 1].frame = issued[r][Len(wire[r]) + Held(r) + 1]
        /\ Held(r) + n > 0 => Len(wire[r]) + Held(r) + n = Len(issued[r])
    BY <2>4 DEF Line
  <2>6. queue[1].frame = issued[r][Len(wire[r]) + 1]
    BY <1>1, <2>1, <2>4, <2>5
  <2>7. Len(wire[r]) < Len(issued[r])
    BY <1>1, <2>1, <2>4, <2>5
  <2> QED
    BY <2>1, <2>4, <2>6, <2>7
<1> QED
  BY <1>2, <1>3

\* The queue is as it was; the pending frame is, or went to the bus.
LEMMA LineKept ==
  ASSUME QueueTypeOK, RecordTypeOK, NEW r \in Runs,
         NEW p \in 0..Len(queue), NEW n \in 0..Len(queue), Line(r, p, n),
         UNCHANGED <<queue, issued>>,
         NEW h \in {0, 1}, NEW w \in Nat, Held(r)' = h, Len(wire'[r]) = w,
         w + h = Len(wire[r]) + Held(r),
         h = 1 => Held(r) = 1 /\ pending' = pending
  PROVE  \E p2, n2 \in 0..Len(queue') : Line(r, p2, n2)'
<1>1. /\ Len(queue) \in Nat /\ Len(wire[r]) \in Nat /\ Len(issued[r]) \in Nat
      /\ Held(r) \in {0, 1}
  BY LenProperties DEF QueueTypeOK, RecordTypeOK, Held
<1>2. /\ p + n <= Len(queue)
      /\ Held(r) + n > 0 => Len(wire[r]) + Held(r) + n = Len(issued[r])
      /\ Held(r) = 1 => pending[1].frame = issued[r][Len(wire[r]) + 1]
      /\ \A i \in 1..Len(queue) : queue[i].frame.run = r <=> p < i /\ i <= p + n
      /\ \A k \in 1..n : queue[p + k].frame = issued[r][Len(wire[r]) + Held(r) + k]
  BY DEF Line
<1> DEFINE w0 == Len(wire[r])
           h0 == Held(r)
           m == Len(issued[r])
<1>3. /\ w0 \in Nat /\ h0 \in {0, 1} /\ m \in Nat /\ w + h = w0 + h0 /\ (h = 1 => h0 = 1)
      /\ (h0 + n > 0 => w0 + h0 + n = m)
  BY <1>1, <1>2
<1>4. h = 1 => pending' = pending /\ w = w0 /\ h0 = 1
  <2> HIDE DEF w0, h0, m
  <2>1. h = 1 => w = w0
    BY ONLY <1>3, w \in Nat, h \in {0, 1}
  <2> QED
    BY <1>3, <2>1
<1>5. h + n > 0 => w + h + n = m
  <2> HIDE DEF w0, h0, m
  <2> QED
    BY <1>3
<1>6. h = 1 => pending'[1].frame = issued[r][w + 1]
  BY <1>2, <1>4
<1>7. \A k \in 1..n : queue[p + k].frame = issued[r][w + h + k]
  <2>1. \A k \in 1..n : queue[p + k].frame = issued[r][w0 + h0 + k]
    BY <1>2
  <2> HIDE DEF w0, h0
  <2> QED
    BY <1>3, <2>1
<1>8. Line(r, p, n)'
  BY <1>2, <1>5, <1>6, <1>7 DEF Line
<1> QED
  BY <1>8

\* Of the first a frames of u, exactly those after the first p and up to p + n
\* are of run r; they are what s has after its first w.
Row(u, a, s, w, r, p, n) ==
  /\ p + n <= a
  /\ \A i \in 1..a : u[i].run = r <=> p < i /\ i <= p + n
  /\ \A k \in 1..n : u[p + k] = s[w + k]

Shifted(v, u, a) == \A i \in 1..(a - 1) : v[i] = u[i + 1]

\* A line moves up when the frame before it leaves the queue ...
LEMMA MovesUp ==
  ASSUME NEW a \in Nat, a > 0, NEW p \in Nat, NEW n \in Nat,
         NEW u, NEW v, NEW s, NEW r, NEW w \in Nat,
         Row(u, a, s, w, r, p, n), Shifted(v, u, a),
         u[1].run # r
  PROVE  \E q \in Nat : Row(v, a - 1, s, w, r, q, n)
<1> USE DEF Row, Shifted
<1>1. ~(p < 1 /\ 1 <= p + n)
  <2>1. 1 \in 1..a
    OBVIOUS
  <2> QED
    BY <2>1
<1>2. CASE n = 0
  <2>1. \A i \in 1..(a - 1) : v[i].run # r
    <3> SUFFICES ASSUME NEW i \in 1..(a - 1) PROVE u[i + 1].run # r
      OBVIOUS
    <3>1. i + 1 \in 1..a /\ ~(p < i + 1 /\ i + 1 <= p + n)
      BY <1>2
    <3> QED
      BY <3>1
  <2>2. \A i \in 1..(a - 1) : v[i].run = r <=> 0 < i /\ i <= 0 + n
    BY <1>2, <2>1
  <2>3. \A k \in 1..n : v[0 + k] = s[w + k]
    BY <1>2
  <2>4. 0 + n <= a - 1 /\ 0 \in Nat
    BY <1>2
  <2> QED
    BY <2>2, <2>3, <2>4
<1>3. CASE n > 0
  <2> DEFINE q == p - 1
  <2>1. q \in Nat /\ p = q + 1 /\ q + n <= a - 1
    BY <1>1, <1>3
  <2> HIDE DEF q
  <2>2. \A i \in 1..(a - 1) : v[i].run = r <=> q < i /\ i <= q + n
    <3> SUFFICES ASSUME NEW i \in 1..(a - 1) PROVE v[i].run = r <=> q < i /\ i <= q + n
      OBVIOUS
    <3>1. i + 1 \in 1..a /\ (p < i + 1 <=> q < i) /\ (i + 1 <= p + n <=> i <= q + n)
      BY <2>1
    <3>2. u[i + 1].run = r <=> p < i + 1 /\ i + 1 <= p + n
      BY <3>1
    <3>3. v[i] = u[i + 1]
      OBVIOUS
    <3> QED
      BY <3>1, <3>2, <3>3
  <2>3. \A k \in 1..n : v[q + k] = s[w + k]
    <3> SUFFICES ASSUME NEW k \in 1..n PROVE v[q + k] = s[w + k]
      OBVIOUS
    <3> DEFINE j == q + k
    <3>1. j \in 1..(a - 1) /\ j + 1 = p + k
      BY <2>1
    <3> HIDE DEF j
    <3>2. v[j] = u[p + k]
      BY <3>1
    <3>3. u[p + k] = s[w + k]
      OBVIOUS
    <3> QED
      BY <3>2, <3>3 DEF j
  <2> QED
    BY <2>1, <2>2, <2>3
<1> QED
  BY <1>2, <1>3

\* ... and gets shorter when it is its own first.
LEMMA GetsShorter ==
  ASSUME NEW a \in Nat, a > 0, NEW p \in Nat, NEW n \in Nat,
         NEW u, NEW v, NEW s, NEW r, NEW w \in Nat,
         Row(u, a, s, w, r, p, n), Shifted(v, u, a)
  PROVE  u[1].run = r => n > 0 /\ u[1] = s[w + 1] /\ Row(v, a - 1, s, w + 1, r, 0, n - 1)
<1> USE DEF Row, Shifted
<1> HAVE u[1].run = r
<1>1. p < 1 /\ 1 <= p + n
  <2>1. 1 \in 1..a
    OBVIOUS
  <2> QED
    BY <2>1
<1>2. p = 0 /\ n > 0 /\ 0 + (n - 1) <= a - 1
  BY <1>1
<1>3. \A k \in 1..n : u[k] = s[w + k]
  BY <1>2
<1>4. u[1] = s[w + 1]
  <2>1. 1 \in 1..n
    BY <1>2
  <2> QED
    BY <1>3, <2>1
<1>5. \A i \in 1..(a - 1) : v[i].run = r <=> 0 < i /\ i <= 0 + (n - 1)
  <2> SUFFICES ASSUME NEW i \in 1..(a - 1) PROVE v[i].run = r <=> 0 < i /\ i <= 0 + (n - 1)
    OBVIOUS
  <2>1. i + 1 \in 1..a /\ p < i + 1 /\ 0 < i /\ (i + 1 <= p + n <=> i <= 0 + (n - 1))
    BY <1>2
  <2>2. u[i + 1].run = r <=> p < i + 1 /\ i + 1 <= p + n
    BY <2>1
  <2>3. v[i] = u[i + 1]
    OBVIOUS
  <2> QED
    BY <2>1, <2>2, <2>3
<1>6. \A k \in 1..(n - 1) : v[0 + k] = s[w + 1 + k]
  <2> SUFFICES ASSUME NEW k \in 1..(n - 1) PROVE v[k] = s[w + 1 + k]
    OBVIOUS
  <2>1. k \in 1..(a - 1) /\ k + 1 \in 1..n /\ w + (k + 1) = w + 1 + k
    BY <1>2
  <2>2. v[k] = u[k + 1] /\ u[k + 1] = s[w + (k + 1)]
    BY <1>3, <2>1
  <2> QED
    BY <2>1, <2>2
<1> QED
  BY <1>2, <1>4, <1>5, <1>6

\* The first of the queue was taken out: of run r, when d = 1.
LEMMA LineTaken ==
  ASSUME QueueTypeOK, RecordTypeOK, NEW r \in Runs,
         NEW p \in 0..Len(queue), NEW n \in 0..Len(queue), Line(r, p, n),
         Len(queue) > 0, queue' = Tail(queue), UNCHANGED issued, Held(r) = 0,
         NEW d \in {0, 1}, queue[1].frame.run = r <=> d = 1,
         NEW h \in {0, 1}, NEW w \in Nat, Held(r)' = h, Len(wire'[r]) = w,
         w + h = Len(wire[r]) + d,
         h = 1 => d = 1 /\ pending'[1] = queue[1]
  PROVE  \E p2, n2 \in 0..Len(queue') : Line(r, p2, n2)'
<1> DEFINE w0 == Len(wire[r])
           m == Len(issued[r])
           s == issued[r]
           a == Len(queue)
           u == [i \in 1..a |-> queue[i].frame]
           v == [i \in 1..(a - 1) |-> queue'[i].frame]
           After(q, k0) ==
             /\ Row(v, a - 1, s, w + h, r, q, k0)
             /\ h + k0 > 0 => w + h + k0 = m
             /\ h = 1 => u[1] = s[w + 1]
<1>1. /\ Len(queue) \in Nat /\ Len(wire[r]) \in Nat /\ Len(issued[r]) \in Nat
      /\ queue \in Seq(Item) /\ queue # <<>>
  BY LenProperties, EmptySeq DEF QueueTypeOK, RecordTypeOK
<1>2. /\ Len(queue') = a - 1
      /\ \A i \in 1..(a - 1) : queue'[i] = queue[i + 1]
  BY <1>1, HeadTailProperties
<1>3. /\ a \in Nat /\ a > 0 /\ p \in Nat /\ n \in Nat /\ p + n <= a /\ w0 \in Nat /\ m \in Nat
      /\ w + h = w0 + d
  BY <1>1 DEF Line
<1>4. /\ \A i \in 1..a : u[i].run = r <=> p < i /\ i <= p + n
      /\ n > 0 => w0 + n = m
  <2>1. /\ \A i \in 1..Len(queue) : queue[i].frame.run = r <=> p < i /\ i <= p + n
        /\ 0 + n > 0 => w0 + 0 + n = m
    BY DEF Line
  <2> HIDE DEF w0, m
  <2>2. n > 0 => w0 + n = m
    <3>1. w0 \in Nat /\ n \in Nat
      BY <1>3
    <3>2. w0 + 0 + n = w0 + n /\ 0 + n = n
      BY ONLY <3>1
    <3> QED
      BY ONLY <2>1, <3>2
  <2>3. \A i \in 1..a : u[i].run = r <=> p < i /\ i <= p + n
    BY ONLY <2>1
  <2> QED
    BY ONLY <2>2, <2>3
<1>5. \A k \in 1..n : u[p + k] = s[w0 + k]
  <2> SUFFICES ASSUME NEW k \in 1..n PROVE u[p + k] = s[w0 + k]
    OBVIOUS
  <2>1. queue[p + k].frame = s[w0 + 0 + k]
    BY DEF Line
  <2> HIDE DEF s, w0, u, a
  <2>2. p + k \in 1..a /\ w0 + 0 + k = w0 + k
    <3>1. k \in 1..n
      OBVIOUS
    <3> QED
      BY ONLY <1>3, <3>1
  <2>3. u[p + k] = queue[p + k].frame
    BY <2>2 DEF u
  <2> QED
    BY <2>1, <2>2, <2>3
<1>6. \A i \in 1..(a - 1) : v[i] = u[i + 1]
  <2> SUFFICES ASSUME NEW i \in 1..(a - 1) PROVE v[i] = u[i + 1]
    OBVIOUS
  <2> HIDE DEF a
  <2>0. i \in 1..(a - 1)
    OBVIOUS
  <2>1. i + 1 \in 1..a
    BY ONLY <1>3, <2>0
  <2> QED
    BY <1>2, <2>1
<1>7. (u[1].run = r <=> d = 1) /\ u[1] = queue[1].frame
  <2>1. 1 \in 1..a
    BY <1>3
  <2> QED
    BY <2>1
<1>row. Row(u, a, s, w0, r, p, n) /\ Shifted(v, u, a)
  BY <1>3, <1>4, <1>5, <1>6 DEF Row, Shifted
<1>8. ASSUME NEW q \in Nat, NEW k0 \in Nat, After(q, k0)
      PROVE  \E p2, n2 \in 0..Len(queue') : Line(r, p2, n2)'
  <2>0. /\ q + k0 <= a - 1 /\ q \in Nat /\ k0 \in Nat
        /\ \A i \in 1..(a - 1) : v[i].run = r <=> q < i /\ i <= q + k0
        /\ \A k \in 1..k0 : v[q + k] = s[w + h + k]
    BY <1>8 DEF Row
  <2>1. q \in 0..(a - 1) /\ k0 \in 0..(a - 1)
    <3> HIDE DEF a
    <3> QED
      BY ONLY <1>3, <2>0
  <2>2. \A k \in 1..k0 : queue'[q + k].frame = s[w + h + k]
    <3> SUFFICES ASSUME NEW k \in 1..k0 PROVE queue'[q + k].frame = s[w + h + k]
      OBVIOUS
    <3>1. q + k \in 1..(a - 1)
      <4>1. k \in 1..k0
        OBVIOUS
      <4> HIDE DEF a
      <4> QED
        BY ONLY <1>3, <2>0, <4>1
    <3>2. v[q + k] = queue'[q + k].frame
      BY <3>1
    <3>3. v[q + k] = s[w + h + k]
      BY <2>0
    <3> HIDE DEF v, s, a
    <3> QED
      BY ONLY <3>2, <3>3
  <2>3. \A i \in 1..Len(queue') : queue'[i].frame.run = r <=> q < i /\ i <= q + k0
    BY <1>2, <2>0
  <2>4. h = 1 => pending'[1].frame = s[w + 1]
    BY <1>7, <1>8
  <2>5. Line(r, q, k0)'
    <3>1. q + k0 <= Len(queue') /\ (h + k0 > 0 => w + h + k0 = Len(issued'[r]))
      BY <1>2, <1>8, <2>0
    <3> QED
      BY <2>2, <2>3, <2>4, <3>1 DEF Line
  <2> QED
    BY <1>2, <2>1, <2>5
<1> HIDE DEF w0, m, s, a, u, v, After
<1>typed. h \in {0, 1} /\ w \in Nat
  OBVIOUS
<1>9. CASE d = 1
  <2>1. n > 0 /\ u[1] = s[w0 + 1] /\ Row(v, a - 1, s, w0 + 1, r, 0, n - 1)
    <3>1. u[1].run = r
      BY ONLY <1>7, <1>9
    <3>2. /\ a \in Nat /\ a > 0 /\ p \in Nat /\ n \in Nat /\ w0 \in Nat
          /\ Row(u, a, s, w0, r, p, n) /\ Shifted(v, u, a)
      BY ONLY <1>3, <1>row
    <3>3. n > 0
      BY ONLY <3>1, <3>2, GetsShorter
    <3>4. u[1] = s[w0 + 1]
      BY ONLY <3>1, <3>2, GetsShorter
    <3>5. Row(v, a - 1, s, w0 + 1, r, 0, n - 1)
      BY ONLY <3>1, <3>2, GetsShorter
    <3> QED
      BY ONLY <3>3, <3>4, <3>5
  <2>2. /\ n - 1 \in Nat /\ w + h = w0 + 1
        /\ w + h + (n - 1) = m /\ (h = 1 => w = w0)
    BY ONLY <1>3, <1>4, <1>9, <1>typed, <2>1
  <2>3. After(0, n - 1)
    BY ONLY <2>1, <2>2 DEF After
  <2> QED
    BY <1>8, <2>2, <2>3
<1>10. CASE d = 0
  <2>1. PICK q \in Nat : Row(v, a - 1, s, w0, r, q, n)
    <3>1. u[1].run # r
      BY ONLY <1>7, <1>10
    <3> QED
      BY ONLY <1>3, <1>row, <3>1, MovesUp
  <2>2. h # 1
    BY <1>10
  <2>3. h = 0
    BY ONLY <1>typed, <2>2
  <2>4. w + h = w0
    BY ONLY <1>3, <1>10
  <2>5. h + n > 0 => w + h + n = m
    BY ONLY <1>3, <1>4, <2>3, <2>4
  <2>6. After(q, n)
    BY ONLY <2>1, <2>2, <2>4, <2>5 DEF After
  <2> QED
    BY <1>3, <1>8, <2>6
<1> QED
  BY <1>9, <1>10

----------------------------------------------------------------------------
(* What each call does to the lines. *)

USE DEF execVars, busVars, queueVars, controlVars, historyVars, vars

\* A run of which nothing waits has an empty line.
LEMMA LineOfNone ==
  ASSUME QueueTypeOK, NEW r \in Runs
  PROVE  NoneWaits(r) <=> Line(r, 0, 0) /\ Held(r) = 0
<1>1. /\ DOMAIN queue = 1..Len(queue) /\ DOMAIN pending = 1..Len(pending)
      /\ Len(queue) \in Nat /\ Len(pending) \in Nat /\ Len(pending) <= 1
      /\ (pending # <<>> <=> Len(pending) = 1)
  <2>1. queue \in Seq(Item) /\ pending \in Seq(Item) /\ Len(pending) <= 1
    BY DEF QueueTypeOK
  <2>2. /\ DOMAIN queue = 1..Len(queue) /\ DOMAIN pending = 1..Len(pending)
        /\ Len(queue) \in Nat /\ Len(pending) \in Nat
    BY <2>1, LenProperties
  <2>3. pending = <<>> <=> Len(pending) = 0
    BY <2>1, EmptySeq
  <2> QED
    BY <2>1, <2>2, <2>3
<1>2. NoneWaits(r) <=> /\ \A i \in 1..Len(queue) : queue[i].frame.run # r
                       /\ \A i \in 1..Len(pending) : pending[i].frame.run # r
  BY <1>1 DEF NoneWaits, Waiting, ToSet
<1>3. (\A i \in 1..Len(pending) : pending[i].frame.run # r) <=> Held(r) = 0
  <2>1. CASE Len(pending) = 1
    <3>1. 1..Len(pending) = {1}
      BY <2>1
    <3> QED
      BY <1>1, <2>1, <3>1 DEF Held
  <2>2. CASE Len(pending) # 1
    <3>1. 1..Len(pending) = {}
      BY <1>1, <2>2
    <3> QED
      BY <1>1, <2>2, <3>1 DEF Held
  <2> QED
    BY <2>1, <2>2
<1>4. Held(r) = 0 =>
        (Line(r, 0, 0) <=> \A i \in 1..Len(queue) : queue[i].frame.run # r)
  BY <1>1 DEF Line
<1> QED
  BY <1>2, <1>3, <1>4

\* One turn of the send loop: the frame goes to the bus or is kept.
LEMMA TransmitLine ==
  ASSUME QueueTypeOK, RecordTypeOK, NEW r \in Runs, UNCHANGED issued,
         \E p, n \in 0..Len(queue) : Line(r, p, n),
         \/ TransmitAccepted /\ Left(NextItem.frame)
         \/ TransmitRefused /\ UNCHANGED wire
  PROVE  \E p, n \in 0..Len(queue') : Line(r, p, n)'
<1>0. PICK p \in 0..Len(queue), n \in 0..Len(queue) : Line(r, p, n)
  OBVIOUS
<1>1. /\ queue \in Seq(Item) /\ pending \in Seq(Item) /\ Len(pending) <= 1
      /\ Len(wire[r]) \in Nat /\ Held(r) \in {0, 1}
  BY LenProperties DEF QueueTypeOK, RecordTypeOK, Held
<1>2. /\ TransmitAccepted => pending' = <<>>
      /\ TransmitRefused => pending' = <<NextItem>>
      /\ ~NothingToSend /\ queue' = IF pending # <<>> THEN queue ELSE Tail(queue)
  BY DEF TransmitAccepted, TransmitRefused, LoadNext
<1> DEFINE d == IF NextItem.frame.run = r THEN 1 ELSE 0
<1>3. d \in {0, 1} /\ (NextItem.frame.run = r <=> d = 1)
  OBVIOUS
<1>item. NextItem \in Item
  BY TransmitProperties
<1>4. ASSUME TransmitAccepted, Left(NextItem.frame)
      PROVE  Held(r)' = 0 /\ Len(wire'[r]) = Len(wire[r]) + d /\ Len(wire[r]) + d \in Nat
  <2>1. Held(r)' = 0
    BY <1>2, <1>4 DEF Held
  <2>2. CASE NextItem.frame.run = r
    <3>1. wire'[r] = Append(wire[r], NextItem.frame)
      BY <1>4, <2>2 DEF Left, RecordTypeOK, Runs
    <3>2. wire[r] \in Seq(Frame) /\ NextItem.frame \in Frame
      BY <1>item DEF RecordTypeOK, Item
    <3> QED
      BY <1>1, <2>1, <2>2, <3>1, <3>2, AppendProperties
  <2>3. CASE NextItem.frame.run # r
    <3>1. wire'[r] = wire[r]
      BY <1>4, <2>3 DEF Left, RecordTypeOK
    <3> QED
      BY <1>1, <2>1, <2>3, <3>1
  <2> QED
    BY <2>2, <2>3
<1>5. ASSUME TransmitRefused
      PROVE  Held(r)' = d /\ (d = 1 => pending'[1] = NextItem)
  <2>1. pending' # <<>> /\ pending'[1] = NextItem
    BY <1>2, <1>5
  <2> QED
    BY <2>1 DEF Held
<1>7. pending # <<>> => Held(r) = d
  BY DEF Held, NextItem
<1> HIDE DEF d
<1>8. CASE pending # <<>>
  <2>1. Len(pending) = 1 /\ pending = <<pending[1]>> /\ NextItem = pending[1] /\ queue' = queue
    BY <1>1, <1>2, <1>8, EmptySeq, LenProperties DEF NextItem
  <2>2. Held(r) = d
    BY <1>7, <1>8
  <2>3. CASE TransmitAccepted /\ Left(NextItem.frame)
    <3> DEFINE w == Len(wire[r]) + d
    <3>1. Held(r)' = 0 /\ Len(wire'[r]) = w /\ w \in Nat /\ w + 0 = Len(wire[r]) + Held(r)
      BY ONLY <1>1, <1>3, <1>4, <2>2, <2>3
    <3> HIDE DEF w, d
    <3> QED
      BY <1>0, <2>1, <3>1, LineKept
  <2>4. CASE TransmitRefused /\ UNCHANGED wire
    <3> DEFINE w == Len(wire[r])
    <3>1. /\ Held(r)' = d /\ Len(wire'[r]) = w /\ w \in Nat /\ w + d = Len(wire[r]) + Held(r)
          /\ d \in {0, 1}
      BY ONLY <1>1, <1>3, <1>5, <2>2, <2>4
    <3>2. d = 1 => Held(r) = 1 /\ pending' = pending
      BY ONLY <1>2, <2>1, <2>2, <2>4
    <3>3. QueueTypeOK /\ RecordTypeOK /\ UNCHANGED <<queue, issued>>
      BY <2>1
    <3> HIDE DEF w, d
    <3> QED
      BY ONLY <1>0, <3>1, <3>2, <3>3, LineKept, Zenon
  <2> QED
    BY <2>3, <2>4
<1>9. CASE pending = <<>>
  <2>1. /\ queue' = Tail(queue) /\ NextItem = queue[1] /\ Held(r) = 0 /\ Len(queue) > 0
    BY <1>1, <1>2, <1>9, EmptySeq, LenProperties DEF NextItem, NothingToSend, Held
  <2>2. CASE TransmitAccepted /\ Left(NextItem.frame)
    <3> DEFINE w == Len(wire[r]) + d
    <3>1. Held(r)' = 0 /\ Len(wire'[r]) = w /\ w \in Nat /\ w + 0 = Len(wire[r]) + d
      BY ONLY <1>1, <1>3, <1>4, <2>2
    <3>2. d \in {0, 1} /\ (queue[1].frame.run = r <=> d = 1)
      BY <1>3, <2>1
    <3> HIDE DEF w, d
    <3> QED
      BY <1>0, <2>1, <3>1, <3>2, LineTaken
  <2>3. CASE TransmitRefused /\ UNCHANGED wire
    <3> DEFINE w == Len(wire[r])
    <3>1. /\ Held(r)' = d /\ Len(wire'[r]) = w /\ w \in Nat /\ w + d = Len(wire[r]) + d
          /\ (d = 1 => d = 1 /\ pending'[1] = queue[1])
      BY ONLY <1>1, <1>3, <1>5, <2>1, <2>3
    <3>2. d \in {0, 1} /\ (queue[1].frame.run = r <=> d = 1)
      BY <1>3, <2>1
    <3> HIDE DEF w, d
    <3> QED
      BY <1>0, <2>1, <3>1, <3>2, LineTaken
  <2> QED
    BY <2>2, <2>3
<1> QED
  BY <1>8, <1>9

\* A run's lines after each queue call.
LEMMA InLineCall ==
  ASSUME TransportTypeOK, ScriptIsFresh, IssuedOnce, BatchIsNext, InLine, Calls
  PROVE  InLine'
<1>0. QueueTypeOK /\ RecordTypeOK /\ ControlTypeOK
  BY DEF TransportTypeOK
<1>1. script \in Seq(Instruction) /\ 1 \in 1..Len(script) /\ Head(script) = script[1]
  BY <1>0, CallScript, EmptySeq, LenProperties DEF ControlTypeOK
<1> SUFFICES ASSUME NEW r \in Runs
             PROVE  \E p, n \in 0..Len(queue') : Line(r, p, n)'
  BY DEF InLine
<1>2. PICK p \in 0..Len(queue), n \in 0..Len(queue) : Line(r, p, n)
  BY DEF InLine
<1>3. UNCHANGED issued
  BY DEF Calls, BatchCall, EachCall, ClearCall, SendCall, RetryCall, SendDone
<1>4. CASE EachCall
  <2> DEFINE frames == Head(script).frames
             urgent == Head(script).urgent
  <2>1. /\ frames \in Seq(Frame) /\ urgent \in BOOLEAN /\ EnqueueEach(frames, urgent)
        /\ \A k \in 1..Len(frames) : frames[k].run = 0
    BY <1>0, <1>1, <1>4, CallScript DEF EachCall, Call, Instruction, BatchIsNext
  <2>2. UNCHANGED <<pending, wire>>
    BY <1>4 DEF EachCall, EnqueueEach
  <2> HIDE DEF frames, urgent
  <2>3. PICK put \in Seq(Frame) :
           /\ queue' = Inserted(put, urgent)
           /\ \A i \in 1..Len(put) : \E k \in 1..Len(frames) : put[i] = frames[k]
    BY <1>0, <2>1, SeriesPut
  <2>4. \A i \in 1..Len(put) : put[i].run # r
    BY <2>1, <2>3 DEF Runs
  <2> QED
    BY <1>0, <1>2, <1>3, <2>1, <2>2, <2>3, <2>4, LineStays
<1>5. CASE BatchCall
  <2> DEFINE frames == issued[execJob]
  <2>1. /\ execJob \in Runs /\ Head(script).frames = frames
        /\ wire[execJob] = <<>> /\ NoneWaits(execJob)
    BY <1>1, <1>5 DEF BatchCall, Call, BatchIsNext
  <2>2. EnqueueBatch(frames, TRUE) /\ UNCHANGED <<pending, wire>>
    BY <1>5, <2>1 DEF BatchCall, EnqueueBatch
  <2>3. frames \in Seq(Frame) /\ \A k \in 1..Len(frames) : frames[k].run = execJob
    BY <1>0, <2>1 DEF RecordTypeOK, IssuedOnce
  <2>4. CASE ~Fits(frames)
    <3>1. UNCHANGED queue
      BY <2>2, <2>4 DEF EnqueueBatch
    <3> QED
      BY <1>2, <1>3, <2>2, <3>1 DEF Line, Held
  <2>5. CASE Fits(frames) /\ r # execJob
    <3>1. queue' = Inserted(frames, TRUE) /\ \A k \in 1..Len(frames) : frames[k].run # r
      BY <2>2, <2>3, <2>5 DEF EnqueueBatch
    <3>2. TRUE \in BOOLEAN
      OBVIOUS
    <3> HIDE DEF frames
    <3> QED
      BY <1>0, <1>2, <1>3, <2>2, <2>3, <3>1, <3>2, LineStays
  <2>6. CASE Fits(frames) /\ r = execJob
    <3>1. queue' = Inserted(issued[r], TRUE) /\ \A k \in 1..Len(issued[r]) : issued[r][k].run = r
      BY <2>2, <2>3, <2>6 DEF EnqueueBatch
    <3>2. NoneWaits(r) /\ Len(wire[r]) = 0 /\ Len(issued[r]) \in Nat
      BY <2>1, <2>3, <2>6, EmptySeq, LenProperties
    <3> QED
      BY <1>0, <1>3, <2>2, <3>1, <3>2, LineBegins
  <2> QED
    BY <2>4, <2>5, <2>6
<1>6. CASE ClearCall
  <2>1. queue' = <<>> /\ pending' = <<>> /\ UNCHANGED wire
    BY <1>6 DEF ClearCall, Clear
  <2>2. Len(queue') = 0 /\ Held(r)' = 0
    BY <2>1 DEF Held
  <2>3. Line(r, 0, 0)'
    BY <2>2 DEF Line
  <2> QED
    BY <2>2, <2>3
<1>7. CASE SendCall
  <2>1. TransmitAccepted /\ Left(NextItem.frame)
    BY <1>7 DEF SendCall
  <2> QED
    BY <1>0, <1>2, <1>3, <2>1, TransmitLine
<1>8. CASE RetryCall
  <2>1. TransmitRefused /\ UNCHANGED wire
    BY <1>8 DEF RetryCall
  <2> QED
    BY <1>0, <1>2, <1>3, <2>1, TransmitLine
<1>9. CASE SendDone
  <2>1. UNCHANGED <<queue, pending, wire>>
    BY <1>9 DEF SendDone
  <2>2. Line(r, p, n)' /\ p \in 0..Len(queue') /\ n \in 0..Len(queue')
    BY <1>2, <1>3, <2>1 DEF Line, Held
  <2> QED
    BY <2>2
<1> QED
  BY <1>4, <1>5, <1>6, <1>7, <1>8, <1>9 DEF Calls

\* What leaves is the next frame that its run issued.
LEMMA IssuedOnceCall ==
  ASSUME TransportTypeOK, ScriptIsFresh, IssuedOnce, InLine, Calls
  PROVE  IssuedOnce'
<1>0. QueueTypeOK /\ RecordTypeOK
  BY DEF TransportTypeOK
<1>1. UNCHANGED <<execVars, issued>>
  BY DEF Calls, BatchCall, EachCall, ClearCall, SendCall, RetryCall, SendDone, Sending, Call
<1>2. CASE ~SendCall
  <2>1. UNCHANGED wire
    BY <1>2 DEF Calls, BatchCall, EachCall, ClearCall, RetryCall, SendDone
  <2> QED
    BY <1>1, <2>1 DEF IssuedOnce, NothingIssued
<1>3. CASE SendCall
  <2> DEFINE frame == NextItem.frame
  <2>1. /\ ~NothingToSend /\ NextItem \in Item /\ frame \in Frame
        /\ Left(frame)
    BY <1>0, <1>3, TransmitProperties DEF SendCall, TransmitAccepted, Item
  <2>2. ASSUME NEW r \in Runs, frame.run # r
        PROVE  wire'[r] = wire[r]
    BY <1>0, <2>1, <2>2 DEF Left, RecordTypeOK
  <2>3. ASSUME NEW r \in Runs, frame.run = r
        PROVE  /\ wire'[r] \in Seq(Frame) /\ Len(wire'[r]) = Len(wire[r]) + 1
               /\ Len(wire[r]) < Len(issued[r])
               /\ \A k \in 1..Len(wire[r]) : wire'[r][k] = wire[r][k]
               /\ wire'[r][Len(wire[r]) + 1] = issued[r][Len(wire[r]) + 1]
    <3>1. wire'[r] = Append(wire[r], frame) /\ wire[r] \in Seq(Frame)
      BY <1>0, <2>1, <2>3 DEF Left, RecordTypeOK, Runs
    <3>2. /\ Append(wire[r], frame) \in Seq(Frame)
          /\ Len(Append(wire[r], frame)) = Len(wire[r]) + 1
          /\ \A k \in 1..Len(wire[r]) : Append(wire[r], frame)[k] = wire[r][k]
          /\ Append(wire[r], frame)[Len(wire[r]) + 1] = frame
      BY <2>1, <3>1, AppendProperties
    <3>3. PICK p \in 0..Len(queue), n \in 0..Len(queue) : Line(r, p, n)
      BY DEF InLine
    <3>4. frame = issued[r][Len(wire[r]) + 1] /\ Len(wire[r]) < Len(issued[r])
      BY <1>0, <2>1, <2>3, <3>3, NextInLine
    <3> QED
      BY <3>1, <3>2, <3>4
  <2> HIDE DEF frame
  <2>4. \A r \in Runs : Len(wire[r]) \in Nat /\ Len(issued[r]) \in Nat
    BY <1>0, LenProperties DEF RecordTypeOK
  <2>5. ASSUME NEW r \in Runs, r > execJob \/ (r = execJob /\ execStage = "preflight")
        PROVE  NothingIssued(r)'
    <3>1. NothingIssued(r)
      BY <2>5 DEF IssuedOnce
    <3>2. Len(wire[r]) = 0 /\ Len(issued[r]) = 0
      BY <3>1 DEF NothingIssued
    <3>3. frame.run # r
      BY <2>3, <3>2
    <3> QED
      BY <1>1, <2>2, <3>1, <3>3 DEF NothingIssued
  <2>6. ASSUME NEW r \in Runs
        PROVE  /\ Len(wire'[r]) <= Len(issued'[r])
               /\ \A k \in 1..Len(wire'[r]) : wire'[r][k] = issued'[r][k]
    <3>1. /\ Len(wire[r]) <= Len(issued[r])
          /\ \A k \in 1..Len(wire[r]) : wire[r][k] = issued[r][k]
      BY DEF IssuedOnce
    <3>2. CASE frame.run # r
      BY <1>1, <2>2, <3>1, <3>2
    <3>3. CASE frame.run = r
      <4> DEFINE l == Len(wire[r])
      <4>1. /\ Len(wire'[r]) = l + 1 /\ l < Len(issued[r])
            /\ \A k \in 1..l : wire'[r][k] = wire[r][k]
            /\ wire'[r][l + 1] = issued[r][l + 1]
        BY <2>3, <3>3
      <4>2. l \in Nat /\ Len(issued[r]) \in Nat /\ \A k \in 1..l : wire[r][k] = issued[r][k]
        BY <2>4, <3>1
      <4> HIDE DEF l
      <4>3. l + 1 <= Len(issued[r]) /\ \A k \in 1..(l + 1) : k \in 1..l \/ k = l + 1
        BY ONLY <4>1, <4>2
      <4>4. \A k \in 1..(l + 1) : wire'[r][k] = issued[r][k]
        BY ONLY <4>1, <4>2, <4>3
      <4> QED
        BY <1>1, <4>1, <4>3, <4>4
    <3> QED
      BY <3>2, <3>3
  <2>7. \A r \in Runs : \A k \in 1..Len(issued'[r]) : issued'[r][k].run = r
    BY <1>1 DEF IssuedOnce
  <2> QED
    BY <1>1, <2>5, <2>6, <2>7 DEF IssuedOnce
<1> QED
  BY <1>2, <1>3

----------------------------------------------------------------------------
(* The scripts *)

\* A call that puts no frame of a run into the queue.
Plain(call) ==
  /\ call.op # "batch"
  /\ call.op = "each" => \A k \in 1..Len(call.frames) : call.frames[k].run = 0

PlainCalls == {call \in Instruction : Plain(call)}

\* A series of one-frame commands is plain.
LEMMA EachIsPlain ==
  ASSUME NEW frames \in Seq(Frame), NEW urgent \in BOOLEAN,
         \A k \in 1..Len(frames) : frames[k].run = 0
  PROVE  Each(frames, urgent) \in PlainCalls
BY DEF Each, PlainCalls, Plain, Instruction

\* A round of commands is, in the order of the motors, one to each.
LEMMA RoundIsPlain ==
  ASSUME NEW cmd \in PlainCommands
  PROVE  /\ ToAll(cmd) \in PlainCalls
         /\ \A k \in 1..MotorCount : ToAll(cmd).frames[k] = Command(cmd, MotorOrder[k])
<1> DEFINE e(i) == Command(cmd, MotorOrder[i])
           frames == [i \in 1..MotorCount |-> e(i)]
<1>1. \A i \in 1..MotorCount : e(i) \in Frame /\ e(i).run = 0
  BY MotorsProperties, CommandProperties
<1>2. ToAll(cmd) = Each(frames, TRUE)
  BY DEF ToAll
<1>3. \A k \in 1..MotorCount : frames[k] = Command(cmd, MotorOrder[k])
  OBVIOUS
<1> HIDE DEF e
<1>4. frames \in Seq(Frame) /\ Len(frames) = MotorCount
  BY <1>1, MotorsProperties, IsASeq
<1>5. \A k \in 1..Len(frames) : frames[k].run = 0
  BY <1>1, <1>4
<1> HIDE DEF frames
<1>6. Each(frames, TRUE) \in PlainCalls
  BY <1>4, <1>5, EachIsPlain
<1> QED
  BY <1>2, <1>3, <1>6 DEF Each

\* So is a send call, and the clear.
LEMMA OtherCallsArePlain ==
  /\ \A n \in 1..8 : Tick(n) \in PlainCalls
  /\ Reset \in PlainCalls
BY DEF Tick, Reset, PlainCalls, Plain, Instruction

\* The polls of the executor are plain.
LEMMA PollIsPlain ==
  ASSUME NEW ms \in Seq(Motors)
  PROVE  PollScript(ms) \in Seq(PlainCalls)
<1> DEFINE e(i) == Command(IF i % 2 = 1 THEN "pulse" ELSE "velocity", ms[(i + 1) \div 2])
           frames == [i \in 1..(2 * Len(ms)) |-> e(i)]
<1>1. Len(ms) \in Nat /\ 2 * Len(ms) \in Nat
  BY LenProperties
<1>2. "pulse" \in PlainCommands /\ "velocity" \in PlainCommands
  BY DEF PlainCommands, ProbeCommands
<1>3. \A i \in 1..(2 * Len(ms)) : (i + 1) \div 2 \in 1..Len(ms)
  BY <1>1
<1>4. \A i \in 1..(2 * Len(ms)) : e(i) \in Frame /\ e(i).run = 0
  BY <1>2, <1>3, CommandProperties, ElementOfSeq
<1>5. PollScript(ms) = <<Each(frames, FALSE)>>
  BY DEF PollScript
<1> HIDE DEF e
<1>6. frames \in Seq(Frame) /\ Len(frames) = 2 * Len(ms)
  BY <1>1, <1>4, IsASeq
<1>7. \A k \in 1..Len(frames) : frames[k].run = 0
  BY <1>4, <1>6
<1> HIDE DEF frames
<1>8. Each(frames, FALSE) \in PlainCalls
  BY <1>6, <1>7, EachIsPlain
<1> QED
  BY <1>5, <1>8, SingletonSeq

\* The probe of reset_fault is plain.
LEMMA ProbeIsPlain ==
  ASSUME NEW pumps \in Nat
  PROVE  ProbeScript(pumps) \in Seq(PlainCalls)
<1> DEFINE e(i) == Command(ProbeCommands[((i - 1) % 5) + 1], MotorOrder[((i - 1) \div 5) + 1])
           frames == [i \in 1..(5 * MotorCount) |-> e(i)]
           sends == [i \in 1..pumps |-> Tick(4)]
<1>1. 5 * MotorCount \in Nat
  BY MotorsProperties
<1>2. \A i \in 1..(5 * MotorCount) :
        ((i - 1) % 5) + 1 \in 1..5 /\ ((i - 1) \div 5) + 1 \in 1..MotorCount
  BY MotorsProperties
<1>3. \A i \in 1..(5 * MotorCount) : e(i) \in Frame /\ e(i).run = 0
  <2>1. \A k \in 1..5 : ProbeCommands[k] \in PlainCommands
    BY DEF PlainCommands
  <2> QED
    BY <1>2, <2>1, MotorsProperties, CommandProperties
<1>4. ProbeScript(pumps) = <<Each(frames, FALSE)>> \o sends
  BY DEF ProbeScript
<1> HIDE DEF e
<1>5. frames \in Seq(Frame) /\ Len(frames) = 5 * MotorCount
  BY <1>1, <1>3, IsASeq
<1>6. \A k \in 1..Len(frames) : frames[k].run = 0
  BY <1>3, <1>5
<1>7. sends \in Seq(PlainCalls)
  BY OtherCallsArePlain, IsASeq
<1> HIDE DEF frames, sends
<1>8. <<Each(frames, FALSE)>> \in Seq(PlainCalls)
  BY <1>5, <1>6, EachIsPlain, SingletonSeq
<1> QED
  BY <1>4, <1>7, <1>8, ConcatProperties

\* What one executor tick adds to its calls is plain.
LEMMA RunCallsPlain ==
  ASSUME NEW calls, RunCalls(calls)
  PROVE  /\ calls \in Seq(PlainCalls) => script' \in Seq(PlainCalls)
         /\ \A call \in Instruction : calls = <<call>> =>
              /\ script' \in Seq(Instruction) /\ script'[1] = call
              /\ \A i \in 1..Len(script') : i # 1 => script'[i] \in PlainCalls
<1> DEFINE ending == IF execState' = "faulted" THEN <<ToAll("stop")>> ELSE <<>>
<1>1. "stop" \in PlainCommands
  BY DEF PlainCommands, EmergencyCommands
<1>2. ending \in Seq(PlainCalls)
  <2>1. <<ToAll("stop")>> \in Seq(PlainCalls)
    BY <1>1, RoundIsPlain, SingletonSeq
  <2> QED
    BY <2>1, EmptySeq
<1>3. <<Tick(4)>> \in Seq(PlainCalls) /\ Len(<<Tick(4)>>) = 1
  BY OtherCallsArePlain, SingletonSeq
<1>4. script' = (calls \o ending) \o <<Tick(4)>>
  BY DEF RunCalls
<1> HIDE DEF ending
<1>5. ASSUME calls \in Seq(PlainCalls) PROVE script' \in Seq(PlainCalls)
  BY <1>2, <1>3, <1>4, <1>5, ConcatProperties
<1>6. ASSUME NEW call \in Instruction, calls = <<call>>
      PROVE  /\ script' \in Seq(Instruction) /\ script'[1] = call
             /\ \A i \in 1..Len(script') : i # 1 => script'[i] \in PlainCalls
  <2> DEFINE first == <<call>> \o ending
             l == Len(ending)
             last == <<Tick(4)>>
  <2>1. <<call>> \in Seq(Instruction) /\ Len(<<call>>) = 1
    BY SingletonSeq
  <2>2. l \in Nat /\ \A i \in 1..l : ending[i] \in PlainCalls
    BY <1>2, LenProperties, ElementOfSeq
  <2>3. ending \in Seq(Instruction) /\ last \in Seq(Instruction)
    <3>1. PlainCalls \subseteq Instruction
      BY DEF PlainCalls
    <3> QED
      BY <1>2, <1>3, <3>1, SeqMonotonic
  <2>4. /\ first \in Seq(Instruction) /\ Len(first) = 1 + l
        /\ \A i \in 1..(1 + l) : first[i] = IF i <= 1 THEN <<call>>[i] ELSE ending[i - 1]
    BY <2>1, <2>3, ConcatProperties
  <2>5. /\ first \o last \in Seq(Instruction) /\ Len(first \o last) = (1 + l) + 1
        /\ \A i \in 1..((1 + l) + 1) :
             (first \o last)[i] = IF i <= 1 + l THEN first[i] ELSE last[i - (1 + l)]
    BY <1>3, <2>3, <2>4, ConcatProperties
  <2>6. script' = first \o last
    BY <1>4, <1>6
  <2>7. last[1] \in PlainCalls /\ <<call>>[1] = call
    BY <1>3, ElementOfSeq
  <2> HIDE DEF first, l, last
  <2>8. script'[1] = call
    BY <2>2, <2>4, <2>5, <2>6, <2>7
  <2>9. ASSUME NEW i \in 1..Len(script'), i # 1 PROVE script'[i] \in PlainCalls
    <3>1. i \in 2..(l + 2)
      BY <2>2, <2>5, <2>6, <2>9
    <3>2. CASE i <= 1 + l
      <4>1. i - 1 \in 1..l /\ i \in 1..(1 + l) /\ ~(i <= 1)
        BY <2>2, <3>1, <3>2
      <4>2. script'[i] = ending[i - 1]
        BY <2>2, <2>4, <2>5, <2>6, <3>2, <4>1
      <4> QED
        BY <2>2, <4>1, <4>2
    <3>3. CASE ~(i <= 1 + l)
      <4>1. i - (1 + l) = 1 /\ i \in 1..((1 + l) + 1)
        BY <2>2, <3>1, <3>3
      <4>2. script'[i] = last[1]
        BY <2>5, <2>6, <3>3, <4>1
      <4> QED
        BY <2>7, <4>2
    <3> QED
      BY <3>2, <3>3
  <2> QED
    BY <2>5, <2>6, <2>8, <2>9
<1> QED
  BY <1>5, <1>6

\* Only the command of a run puts its frames into the queue.
LEMMA NewScriptPlain ==
  ASSUME TransportTypeOK,
         \/ EmergencyStop \/ RuntimeTimeout
         \/ ResetFault \/ BeginTick \/ LatchCanFault \/ CheckDone \/ NothingRuns
         \/ RunExecutor /\ (Preflight \/ NothingToMove \/ Supervise \/ Finished)
  PROVE  script' \in Seq(PlainCalls)
<1>1. /\ "stop" \in PlainCommands /\ "disable" \in PlainCommands /\ "unlock" \in PlainCommands
  BY DEF PlainCommands, EmergencyCommands
<1>2. <<>> \in Seq(PlainCalls) /\ <<ToAll("stop")>> \in Seq(PlainCalls)
      /\ <<Tick(4)>> \in Seq(PlainCalls)
  <2>1. <<ToAll("stop")>> \in Seq(PlainCalls)
    BY <1>1, RoundIsPlain, SingletonSeq
  <2>2. <<Tick(4)>> \in Seq(PlainCalls)
    BY OtherCallsArePlain, SingletonSeq
  <2> QED
    BY <2>1, <2>2, EmptySeq
<1>3. CASE EmergencyStop \/ RuntimeTimeout
  <2>1. script' = EmergencyScript
    BY <1>3 DEF EmergencyStop, RuntimeTimeout, EmergencyStopWithReason
  <2>2. /\ Reset \in PlainCalls /\ Tick(8) \in PlainCalls /\ ToAll("stop") \in PlainCalls
        /\ ToAll("disable") \in PlainCalls /\ ToAll("unlock") \in PlainCalls
    <3>1. \A cmd \in PlainCommands : ToAll(cmd) \in PlainCalls
      BY RoundIsPlain
    <3> QED
      BY <1>1, <3>1, OtherCallsArePlain
  <2> QED
    BY <2>1, <2>2 DEF EmergencyScript
<1>4. CASE ResetFault
  <2>1. PICK pumps \in 1..MaxPump : script' = ProbeScript(pumps)
    BY <1>4 DEF ResetFault
  <2>2. pumps \in Nat
    BY TransportAssumption
  <2> QED
    BY <2>1, <2>2, ProbeIsPlain
<1>5. CASE BeginTick \/ LatchCanFault \/ CheckDone \/ NothingRuns
  BY <1>2, <1>5 DEF BeginTick, LatchCanFault, CheckDone, NothingRuns
<1>6. CASE Preflight \/ NothingToMove \/ Supervise \/ Finished
  <2>1. group \in Seq(Motors) /\ PolledFirst \in Seq(Motors)
    BY EmptySeq DEF TransportTypeOK, ControlTypeOK, PolledFirst
  <2>2. \/ RunCalls(<<>>) \/ RunCalls(PollScript(PolledFirst)) \/ RunCalls(PollScript(group))
    BY <1>6 DEF Preflight, NothingToMove, Supervise, Finished
  <2>3. /\ PollScript(PolledFirst) \in Seq(PlainCalls)
        /\ PollScript(group) \in Seq(PlainCalls)
    BY <2>1, PollIsPlain
  <2> QED
    BY <1>2, <2>2, <2>3, RunCallsPlain
<1> QED
  BY <1>3, <1>4, <1>5, <1>6

\* The step that issues a run's command, and the others.
LEMMA IssueCases ==
  ASSUME TransportTypeOK, RunIsNewer, RunExecutor
  PROVE  /\ execJob \in Runs /\ UNCHANGED <<queueVars, execJob, wire>>
         /\ \/ /\ Preflight \/ NothingToMove \/ Supervise \/ Finished
               /\ UNCHANGED issued
            \/ /\ execStage = "preflight" /\ execStage' = "target"
               /\ UNCHANGED issued /\ script' = <<Tick(4)>>
            \/ /\ execStage = "preflight" /\ execStage' = "target"
               /\ RunCalls(<<Batch(issued'[execJob])>>)
               /\ issued' = [issued EXCEPT ![execJob] = issued'[execJob]]
               /\ issued'[execJob] \in Seq(Frame)
               /\ \A k \in 1..Len(issued'[execJob]) : issued'[execJob][k].run = execJob
<1>1. execJob \in Runs /\ UNCHANGED <<queueVars, execJob, wire>>
  BY TransportAssumption DEF RunExecutor, RunIsNewer, TransportTypeOK, RecordTypeOK, Runs
<1>2. CASE Preflight \/ NothingToMove \/ Supervise \/ Finished
  BY <1>1, <1>2 DEF Preflight, NothingToMove, Supervise, Finished
<1>3. CASE IssueCommand
  <2> DEFINE frames == MoveFrames(group, execJob)
  <2>1. execStage = "preflight" /\ execStage' = "target"
    BY <1>3 DEF IssueCommand, TickIssue
  <2>2. frames \in Seq(Frame) /\ \A k \in 1..Len(frames) : frames[k].run = execJob
    BY <1>1, MoveFramesProperties DEF TransportTypeOK, ControlTypeOK
  <2>3. \/ RunCalls(<<Batch(frames)>>) /\ issued' = [issued EXCEPT ![execJob] = frames]
        \/ script' = <<Tick(4)>> /\ UNCHANGED issued
    BY <1>3 DEF IssueCommand
  <2> HIDE DEF frames
  <2>4. CASE RunCalls(<<Batch(frames)>>) /\ issued' = [issued EXCEPT ![execJob] = frames]
    <3>1. issued'[execJob] = frames
      BY <1>1, <2>4 DEF TransportTypeOK, RecordTypeOK
    <3> QED
      BY <1>1, <2>1, <2>2, <2>4, <3>1
  <2> QED
    BY <1>1, <2>1, <2>3, <2>4
<1> QED
  BY <1>2, <1>3 DEF RunExecutor

\* A run issues once.
LEMMA IssuedOnceStep ==
  ASSUME TransportTypeOK, RunIsNewer, ScriptIsFresh, IssuedOnce, InLine, Next
  PROVE  IssuedOnce'
<1>0. execJob \in Nat /\ \A r \in Runs : r \in Nat
  BY DEF TransportTypeOK, ExecTypeOK, Runs
<1>1. CASE Calls
  BY <1>1, IssuedOnceCall
<1>2. CASE EmergencyStop \/ RuntimeTimeout \/ ResetFault \/ BeginTick \/ LatchCanFault \/ NothingRuns
  <2>1. UNCHANGED <<execJob, execStage, issued, wire>>
    BY <1>2 DEF EmergencyStop, RuntimeTimeout, EmergencyStopWithReason, ExecEmergencyStop,
       ResetFault, ExecResetFault, BeginTick, LatchCanFault, NothingRuns
  <2> QED
    BY <2>1 DEF IssuedOnce, NothingIssued
<1>3. CASE CheckDone
  <2>1. UNCHANGED <<issued, wire>> /\ (execJob' = execJob + 1 \/ UNCHANGED <<execJob, execStage>>)
    BY <1>3 DEF CheckDone, ExecStart
  <2>2. \A r \in Runs :
          (r > execJob \/ (r = execJob /\ execStage = "preflight"))'
            => r > execJob \/ (r = execJob /\ execStage = "preflight")
    BY <1>0, <2>1
  <2> QED
    BY <2>1, <2>2 DEF IssuedOnce, NothingIssued
<1>4. CASE RunExecutor
  <2>1. execJob \in Runs /\ UNCHANGED <<execJob, wire>>
    BY <1>4, IssueCases
  <2>2. CASE UNCHANGED issued
    <3>1. execStage' = "preflight" => execStage = "preflight"
      BY <1>4 DEF RunExecutor, Preflight, NothingToMove, IssueCommand, Supervise, Finished,
         TickBaseline, TickNoMotion, TickIssue, TickTarget, TickFinished
    <3> QED
      BY <2>1, <2>2, <3>1 DEF IssuedOnce, NothingIssued
  <2>3. CASE ~UNCHANGED issued
    <3> DEFINE frames == issued'[execJob]
    <3>1. /\ execStage = "preflight" /\ execStage' = "target"
          /\ issued' = [issued EXCEPT ![execJob] = frames]
          /\ frames \in Seq(Frame)
          /\ \A k \in 1..Len(frames) : frames[k].run = execJob
      BY <1>4, <2>3, IssueCases
    <3>2. \A r \in Runs : r # execJob => issued'[r] = issued[r]
      BY <3>1 DEF TransportTypeOK, RecordTypeOK
    <3>3. ASSUME NEW r \in Runs, (r > execJob \/ (r = execJob /\ execStage = "preflight"))'
          PROVE  NothingIssued(r)'
      <4>1. r # execJob /\ r > execJob
        BY <1>0, <2>1, <3>1, <3>3
      <4> QED
        BY <2>1, <3>2, <4>1 DEF IssuedOnce, NothingIssued
    <3>4. \A r \in Runs : \A k \in 1..Len(issued'[r]) : issued'[r][k].run = r
      BY <3>1, <3>2 DEF IssuedOnce
    <3>5. ASSUME NEW r \in Runs
          PROVE  /\ Len(wire'[r]) <= Len(issued'[r])
                 /\ \A k \in 1..Len(wire'[r]) : wire'[r][k] = issued'[r][k]
      <4>1. CASE r # execJob
        BY <2>1, <3>2, <4>1 DEF IssuedOnce
      <4>2. CASE r = execJob
        <5>1. wire'[r] = <<>>
          BY <2>1, <3>1, <4>2 DEF IssuedOnce, NothingIssued
        <5>2. Len(wire'[r]) = 0 /\ Len(issued'[r]) \in Nat
          BY <3>1, <4>2, <5>1, LenProperties
        <5> QED
          BY <5>2
      <4> QED
        BY <4>1, <4>2
    <3> QED
      BY <3>3, <3>4, <3>5 DEF IssuedOnce
  <2> QED
    BY <2>2, <2>3
<1> QED
  BY <1>1, <1>2, <1>3, <1>4 DEF Next, Round, Requests

\* Of a run that has issued nothing, nothing waits.
LEMMA NothingWaitsYet ==
  ASSUME QueueTypeOK, RecordTypeOK, NEW r \in Runs, NothingIssued(r),
         \E p, n \in 0..Len(queue) : Line(r, p, n)
  PROVE  NoneWaits(r)
<1>1. PICK p \in 0..Len(queue), n \in 0..Len(queue) : Line(r, p, n)
  OBVIOUS
<1>2. Len(wire[r]) = 0 /\ Len(issued[r]) = 0 /\ Held(r) \in {0, 1} /\ Len(queue) \in Nat
  BY LenProperties DEF NothingIssued, QueueTypeOK, Held
<1>3. Held(r) + n > 0 => Len(wire[r]) + Held(r) + n = Len(issued[r])
  BY <1>1 DEF Line
<1>4. Held(r) = 0 /\ n = 0
  BY <1>2, <1>3
<1>5. Line(r, 0, 0)
  <2>1. \A i \in 1..Len(queue) : queue[i].frame.run # r
    <3>1. \A i \in 1..Len(queue) : queue[i].frame.run = r <=> p < i /\ i <= p + n
      BY <1>1 DEF Line
    <3>2. \A i \in 1..Len(queue) : ~(p < i /\ i <= p + n)
      BY <1>2, <1>4
    <3> QED
      BY <3>1, <3>2
  <2> QED
    BY <1>2, <1>4, <2>1 DEF Line
<1> QED
  BY <1>4, <1>5, LineOfNone

\* The frames of a run are put into the queue by the very next call.
LEMMA BatchIsNextStep ==
  ASSUME TransportTypeOK, RunIsNewer, ScriptIsFresh, IssuedOnce, BatchIsNext, InLine, Next
  PROVE  BatchIsNext'
<1>0. QueueTypeOK /\ RecordTypeOK /\ script \in Seq(Instruction)
  BY DEF TransportTypeOK, ControlTypeOK
<1>1. ASSUME script' \in Seq(PlainCalls) PROVE BatchIsNext'
  <2>1. \A i \in 1..Len(script') : Plain(script'[i])
    BY <1>1, ElementOfSeq DEF PlainCalls
  <2> QED
    BY <2>1 DEF BatchIsNext, Plain
<1>2. CASE Calls
  <2>1. script # <<>> /\ \/ script' = Tail(script)
                         \/ /\ Head(script).op = "tick"
                            /\ script' = [script EXCEPT ![1].left = @ - 1]
    BY <1>2 DEF Calls, BatchCall, EachCall, ClearCall, SendCall, RetryCall, SendDone,
           Sending, Call, CallDone
  <2>2. /\ Len(script) \in Nat /\ Len(script) > 0 /\ Head(script) = script[1]
        /\ DOMAIN script = 1..Len(script)
    BY <1>0, <2>1, LenProperties, EmptySeq
  <2>3. \A i \in 1..Len(script) : i # 1 => Plain(script[i])
    BY DEF BatchIsNext, Plain
  <2>4. \A i \in 1..Len(script') : Plain(script'[i])
    <3>1. CASE script' = Tail(script)
      <4>1. /\ Len(script') = Len(script) - 1
            /\ \A i \in 1..(Len(script) - 1) : script'[i] = script[i + 1]
        BY <1>0, <2>1, <3>1, HeadTailProperties
      <4>2. \A i \in 1..(Len(script) - 1) : i + 1 \in 1..Len(script) /\ i + 1 # 1
        BY <2>2
      <4> QED
        BY <2>3, <4>1, <4>2
    <3>2. CASE Head(script).op = "tick" /\ script' = [script EXCEPT ![1].left = @ - 1]
      <4> DEFINE less == [script[1] EXCEPT !.left = @ - 1]
      <4>1. script[1] \in Instruction /\ script[1].op = "tick"
        BY <1>0, <2>2, <3>2, ElementOfSeq
      <4>2. Plain(less)
        <5>1. script[1] \in [op : {"tick"}, left : 1..8]
          BY <4>1 DEF Instruction
        <5> QED
          BY <5>1 DEF Plain
      <4>3. script' = [script EXCEPT ![1] = less]
        BY <3>2
      <4> HIDE DEF less
      <4>4. Len(script') = Len(script) /\ \A i \in 1..Len(script) :
               script'[i] = IF i = 1 THEN less ELSE script[i]
        BY <1>0, <2>2, <4>3
      <4> QED
        BY <2>3, <4>2, <4>4
    <3> QED
      BY <2>1, <3>1, <3>2
  <2> QED
    BY <2>4 DEF BatchIsNext, Plain
<1>3. CASE RunExecutor
  <2>1. /\ execJob \in Runs /\ UNCHANGED <<queueVars, execJob, wire>>
        /\ \/ script' \in Seq(PlainCalls)
           \/ /\ execStage = "preflight" /\ RunCalls(<<Batch(issued'[execJob])>>)
              /\ issued'[execJob] \in Seq(Frame)
    <3>1. <<Tick(4)>> \in Seq(PlainCalls)
      BY OtherCallsArePlain, SingletonSeq
    <3> QED
      BY <1>3, <3>1, IssueCases, NewScriptPlain
  <2>2. CASE script' \in Seq(PlainCalls)
    BY <1>1, <2>2
  <2>3. CASE /\ execStage = "preflight" /\ RunCalls(<<Batch(issued'[execJob])>>)
             /\ issued'[execJob] \in Seq(Frame)
    <3> DEFINE call == Batch(issued'[execJob])
    <3>1. call \in Instruction /\ call.op = "batch" /\ call.frames = issued'[execJob]
      BY <2>3 DEF Batch, Instruction
    <3>2. /\ script'[1] = call
          /\ \A i \in 1..Len(script') : i # 1 => script'[i] \in PlainCalls
      BY <2>3, <3>1, RunCallsPlain
    <3> HIDE DEF call
    <3>3. wire'[execJob'] = <<>> /\ NoneWaits(execJob)
      <4>1. NothingIssued(execJob)
        BY <2>1, <2>3 DEF IssuedOnce
      <4>2. NoneWaits(execJob)
        BY <1>0, <2>1, <4>1, NothingWaitsYet DEF InLine
      <4> QED
        BY <2>1, <4>1, <4>2 DEF NothingIssued
    <3>4. NoneWaits(execJob)'
      BY <2>1, <3>3 DEF NoneWaits, Waiting
    <3> QED
      BY <2>1, <3>1, <3>2, <3>3, <3>4 DEF BatchIsNext, PlainCalls, Plain
  <2> QED
    BY <2>1, <2>2, <2>3
<1> QED
  BY <1>1, <1>2, <1>3, NewScriptPlain DEF Next, Round, Requests

\* The frames of each run stay together, in the order in which they were issued.
LEMMA InLineStep ==
  ASSUME TransportTypeOK, RunIsNewer, ScriptIsFresh, IssuedOnce, BatchIsNext, InLine, Next
  PROVE  InLine'
<1>0. QueueTypeOK /\ RecordTypeOK
  BY DEF TransportTypeOK
<1>1. CASE Calls
  BY <1>1, InLineCall
<1>2. ASSUME UNCHANGED <<queueVars, wire>>, NEW r \in Runs, issued'[r] = issued[r]
      PROVE  \E p, n \in 0..Len(queue') : Line(r, p, n)'
  <2>1. PICK p \in 0..Len(queue), n \in 0..Len(queue) : Line(r, p, n)
    BY DEF InLine
  <2>2. Line(r, p, n)' /\ p \in 0..Len(queue') /\ n \in 0..Len(queue')
    BY <1>2, <2>1 DEF Line, Held
  <2> QED
    BY <2>2
<1>3. CASE RunExecutor
  <2> SUFFICES ASSUME NEW r \in Runs PROVE \E p, n \in 0..Len(queue') : Line(r, p, n)'
    BY DEF InLine
  <2>1. UNCHANGED <<queueVars, wire>>
    BY <1>3, IssueCases
  <2>2. CASE issued'[r] = issued[r]
    BY <1>2, <2>1, <2>2
  <2>3. CASE issued'[r] # issued[r]
    <3>1. r = execJob /\ execStage = "preflight"
      BY <1>0, <1>3, <2>3, IssueCases DEF RecordTypeOK
    <3>2. NoneWaits(r)
      <4>1. NothingIssued(r)
        BY <3>1 DEF IssuedOnce
      <4> QED
        BY <1>0, <4>1, NothingWaitsYet DEF InLine
    <3>3. Line(r, 0, 0) /\ Held(r) = 0
      BY <1>0, <3>2, LineOfNone
    <3>4. Line(r, 0, 0)' /\ 0 \in 0..Len(queue')
      <4>1. Held(r)' = 0 /\ Len(queue) \in Nat /\ 0 + 0 = 0
        BY <1>0, <2>1, <3>3, LenProperties DEF Held, QueueTypeOK
      <4> QED
        BY <2>1, <3>3, <4>1 DEF Line
    <3> QED
      BY <3>4
  <2> QED
    BY <2>2, <2>3
<1>4. CASE /\ Next /\ ~Calls /\ ~RunExecutor
  <2>1. UNCHANGED <<queueVars, wire, issued>>
    BY <1>4 DEF Next, Round, Requests, EmergencyStop, RuntimeTimeout, EmergencyStopWithReason,
       ResetFault, BeginTick, LatchCanFault, CheckDone, NothingRuns
  <2> QED
    BY <1>2, <2>1 DEF InLine
<1> QED
  BY <1>1, <1>3, <1>4

----------------------------------------------------------------------------
(* An emergency stop on a bus that takes every frame. *)

\* A round is put into the empty queue, and one send call can empty it again.
LEMMA RoundBegins ==
  ASSUME TransportTypeOK, Calls, NEW cmd \in EmergencyCommands, Head(script) = ToAll(cmd),
         NEW before \in SUBSET EmergencyCommands, Drained(before)
  PROVE  Leaving(before, cmd, 8)' /\ script' = Tail(script)
<1>0. QueueTypeOK /\ cmd \in PlainCommands
  BY DEF TransportTypeOK, PlainCommands
<1> DEFINE frames == Head(script).frames
<1>1. /\ Head(script).op = "each" /\ Head(script).urgent = TRUE
      /\ frames \in Seq(Frame) /\ Len(frames) = MotorCount
      /\ \A k \in 1..MotorCount : frames[k] = Command(cmd, MotorOrder[k])
      /\ \A m \in Motors : \E k \in 1..MotorCount : frames[k] = Command(cmd, m)
  <2>1. /\ ToAll(cmd).op = "each" /\ ToAll(cmd).urgent = TRUE
        /\ ToAll(cmd).frames \in Seq(Frame) /\ Len(ToAll(cmd).frames) = MotorCount
        /\ \A m \in Motors : \E k \in 1..MotorCount : ToAll(cmd).frames[k] = Command(cmd, m)
    BY <1>0, ToAllProperties
  <2>2. \A k \in 1..MotorCount : ToAll(cmd).frames[k] = Command(cmd, MotorOrder[k])
    BY <1>0, RoundIsPlain
  <2> QED
    BY <2>1, <2>2
<1>2. EachCall
  BY <1>1 DEF Calls, BatchCall, ClearCall, SendCall, RetryCall, SendDone, Sending, Call
<1>3. /\ EnqueueEach(frames, TRUE) /\ script' = Tail(script) /\ UNCHANGED sinceStop
      /\ pending = <<>> /\ pending' = <<>> /\ queue = <<>> /\ sinceStop = before \X Motors
  BY <1>1, <1>2 DEF EachCall, CallDone, EnqueueEach, Drained, NothingToSend
<1> HIDE DEF frames
<1>4. /\ MotorCount \in Nat /\ Capacity \in Nat /\ 3 * MotorCount <= Capacity /\ MotorCount <= 8
      /\ Len(queue) = 0
  BY <1>3, MotorsProperties, BudgetAssumption, EmptySeq
<1>5. /\ QueueTypeOK' /\ Len(queue') <= MotorCount
      /\ \A item \in Waiting' : \E k \in 1..Len(frames) : item.frame = frames[k]
      /\ \A k \in 1..Len(frames) : \E item \in Waiting' : item.frame = frames[k]
  <2>1. Waiting = {}
    BY <1>3 DEF Waiting, ToSet
  <2>2. Len(queue) + Len(frames) <= Capacity /\ Len(queue) + Len(frames) = MotorCount
    BY <1>1, <1>4
  <2>3. TRUE \in BOOLEAN
    OBVIOUS
  <2> QED
    BY <1>0, <1>1, <1>3, <2>1, <2>2, <2>3, EnqueueProperties
<1>6. Len(queue') \in Nat /\ DOMAIN queue' = 1..Len(queue') /\ Waiting' = ToSet(queue')
  <2>1. queue' \in Seq(Item) /\ ToSet(pending') = {}
    BY <1>3, <1>5 DEF QueueTypeOK, ToSet
  <2> QED
    BY <2>1, LenProperties DEF Waiting
<1>7. Len(queue') <= 8
  BY <1>4, <1>5, <1>6
<1>8. \A i \in 1..Len(queue') : \E m \in Motors : queue'[i].frame = Command(cmd, m)
  <2> SUFFICES ASSUME NEW i \in 1..Len(queue')
               PROVE  \E m \in Motors : queue'[i].frame = Command(cmd, m)
    OBVIOUS
  <2>1. queue'[i] \in Waiting'
    BY <1>6 DEF ToSet
  <2>2. PICK k \in 1..MotorCount : queue'[i].frame = Command(cmd, MotorOrder[k])
    BY <1>1, <1>5, <2>1
  <2> QED
    BY <2>2, MotorsProperties
<1>9. \A m \in Motors : \E i \in 1..Len(queue') : queue'[i].frame = Command(cmd, m)
  <2> SUFFICES ASSUME NEW m \in Motors
               PROVE  \E i \in 1..Len(queue') : queue'[i].frame = Command(cmd, m)
    OBVIOUS
  <2>1. PICK item \in ToSet(queue') : item.frame = Command(cmd, m)
    BY <1>1, <1>5, <1>6
  <2> QED
    BY <1>6, <2>1 DEF ToSet
<1>10. /\ before \X Motors \subseteq sinceStop'
       /\ sinceStop' \subseteq (before \union {cmd}) \X Motors
  BY <1>3
<1> QED
  BY <1>3, <1>7, <1>8, <1>9, <1>10 DEF Leaving

\* A send call of a round: one more of its commands has left, or all have.
LEMMA RoundLeaves ==
  ASSUME TransportTypeOK, Calls, ~retried', stops > 0,
         NEW cmd \in EmergencyCommands, NEW n \in 1..8, Head(script) = Tick(n),
         NEW before \in SUBSET EmergencyCommands, Leaving(before, cmd, n)
  PROVE  \/ /\ n # 1 /\ Leaving(before, cmd, n - 1)'
            /\ script' = [script EXCEPT ![1].left = @ - 1]
         \/ Drained(before \union {cmd})' /\ script' = Tail(script)
<1>0. /\ queue \in Seq(Item) /\ Len(queue) \in Nat /\ pending = <<>> /\ Len(queue) <= n
      /\ cmd \in PlainCommands
  <2>1. queue \in Seq(Item)
    BY DEF TransportTypeOK, QueueTypeOK
  <2>2. pending = <<>> /\ Len(queue) <= n
    BY DEF Leaving
  <2>3. cmd \in PlainCommands
    BY DEF PlainCommands
  <2> QED
    BY <2>1, <2>2, <2>3, LenProperties
<1>1. Head(script).op = "tick" /\ Head(script).left = n
  BY TickIsFresh
<1>2. SendCall \/ SendDone
  BY <1>1 DEF Calls, BatchCall, EachCall, ClearCall, RetryCall, Sending, Call
<1>3. ASSUME queue' = <<>>, pending' = <<>>, \A m \in Motors : <<cmd, m>> \in sinceStop',
             before \X Motors \subseteq sinceStop',
             sinceStop' \subseteq (before \union {cmd}) \X Motors
      PROVE  Drained(before \union {cmd})'
  <2>1. sinceStop' = (before \union {cmd}) \X Motors
    BY <1>3
  <2> QED
    BY <1>3, <2>1 DEF Drained, NothingToSend
<1>4. CASE SendDone
  <2>1. queue = <<>> /\ UNCHANGED <<queueVars, sinceStop>> /\ script' = Tail(script)
    BY <1>4 DEF SendDone, NothingToSend, CallDone
  <2>2. \A m \in Motors : <<cmd, m>> \in sinceStop
    <3>1. Len(queue) = 0
      BY <2>1
    <3>2. \A i \in 1..Len(queue) : FALSE
      BY <3>1
    <3> QED
      BY <3>2 DEF Leaving, HasLeft
  <2> QED
    BY <1>0, <1>3, <2>1, <2>2 DEF Leaving
<1>5. CASE SendCall
  <2>1. /\ queue # <<>> /\ queue' = Tail(queue) /\ pending' = <<>> /\ NextItem = queue[1]
        /\ Left(queue[1].frame)
        /\ script' = IF n = 1 THEN Tail(script) ELSE [script EXCEPT ![1].left = @ - 1]
    BY <1>0, <1>1, <1>5 DEF SendCall, TransmitAccepted, NothingToSend, LoadNext, NextItem
  <2>2. /\ Len(queue) > 0 /\ Len(queue') = Len(queue) - 1
        /\ \A i \in 1..(Len(queue) - 1) : queue'[i] = queue[i + 1]
        /\ queue' \in Seq(Item)
    BY <1>0, <2>1, EmptySeq, HeadTailProperties
  <2>3. PICK m0 \in Motors : queue[1].frame = Command(cmd, m0)
    <3>1. 1 \in 1..Len(queue)
      BY <1>0, <2>2
    <3> QED
      BY <3>1 DEF Leaving
  <2>4. sinceStop' = sinceStop \union {<<cmd, m0>>}
    <3>1. queue[1].frame.cmd = cmd /\ queue[1].frame.motor = m0
      BY <1>0, <2>3, CommandProperties
    <3> QED
      BY <2>1, <3>1 DEF Left
  <2>5. /\ before \X Motors \subseteq sinceStop'
        /\ sinceStop' \subseteq (before \union {cmd}) \X Motors
    BY <2>3, <2>4 DEF Leaving
  <2>6. \A i \in 1..(Len(queue) - 1) : i + 1 \in 1..Len(queue)
    BY <1>0
  <2>7. \A i \in 1..Len(queue') : \E m \in Motors : queue'[i].frame = Command(cmd, m)
    BY <2>2, <2>6 DEF Leaving
  <2>8. ASSUME NEW m \in Motors
        PROVE  \/ <<cmd, m>> \in sinceStop'
               \/ \E i \in 1..Len(queue') : queue'[i].frame = Command(cmd, m)
    <3>1. CASE <<cmd, m>> \in sinceStop
      BY <2>4, <3>1
    <3>2. ASSUME NEW i \in 1..Len(queue), queue[i].frame = Command(cmd, m)
          PROVE  \/ <<cmd, m>> \in sinceStop'
                 \/ \E j \in 1..Len(queue') : queue'[j].frame = Command(cmd, m)
      <4>1. CASE i = 1
        <5>1. m = m0
          BY <1>0, <2>3, <3>2, <4>1, CommandProperties
        <5> QED
          BY <2>4, <5>1
      <4>2. CASE i # 1
        <5>1. i - 1 \in 1..(Len(queue) - 1) /\ (i - 1) + 1 = i
          BY <1>0, <4>2
        <5>2. queue'[i - 1] = queue[i]
          BY <2>2, <5>1
        <5> QED
          BY <2>2, <3>2, <5>1, <5>2
      <4> QED
        BY <4>1, <4>2
    <3> QED
      BY <3>1, <3>2 DEF Leaving, HasLeft
  <2>9. CASE n = 1
    <3>1. Len(queue') = 0
      BY <1>0, <2>2, <2>9
    <3>2. queue' = <<>>
      BY <2>2, <3>1, EmptySeq
    <3>3. \A m \in Motors : <<cmd, m>> \in sinceStop'
      <4>1. \A i \in 1..Len(queue') : FALSE
        BY <3>1
      <4> QED
        BY <2>8, <4>1
    <3> QED
      BY <1>3, <2>1, <2>5, <2>9, <3>2, <3>3
  <2>10. CASE n # 1
    <3>1. Len(queue') <= n - 1
      BY <1>0, <2>2
    <3>2. Leaving(before, cmd, n - 1)'
      BY <2>1, <2>5, <2>7, <2>8, <3>1 DEF Leaving, HasLeft
    <3> QED
      BY <2>1, <2>10, <3>2
  <2> QED
    BY <2>9, <2>10
<1> QED
  BY <1>2, <1>4, <1>5

\* The handler of an emergency stop, call by call.
LEMMA InTurnCall ==
  ASSUME TransportTypeOK, ScriptIsFresh, Calls, stops > 0, ~retried', RoundAfterRound
  PROVE  RoundAfterRound'
<1> DEFINE afterStop    == <<ToAll("disable"), Tick(8), ToAll("unlock"), Tick(8)>>
           afterDisable == <<ToAll("unlock"), Tick(8)>>
<1>1. /\ "stop" \in EmergencyCommands /\ "disable" \in EmergencyCommands
      /\ "unlock" \in EmergencyCommands
      /\ {} \union {"stop"} = {"stop"}
      /\ {"stop"} \union {"disable"} = {"stop", "disable"}
      /\ {"stop", "disable"} \union {"unlock"} = EmergencyCommands
      /\ {} \in SUBSET EmergencyCommands /\ {"stop"} \in SUBSET EmergencyCommands
      /\ {"stop", "disable"} \in SUBSET EmergencyCommands /\ 8 \in 1..8
  BY DEF EmergencyCommands
<1>2. \A n \in 1..8 : n # 1 => n - 1 \in 1..8
  OBVIOUS
<1>3. CASE script = EmergencyScript /\ sinceStop = {}
  <2>1. ClearCall
    BY <1>3, EmergencyScriptProperties
       DEF Calls, BatchCall, EachCall, ClearCall, SendCall, RetryCall, SendDone, Sending, Call
  <2>2. script' = Tail(EmergencyScript) /\ queue' = <<>> /\ pending' = <<>> /\ sinceStop' = {}
    BY <1>3, <2>1 DEF ClearCall, Clear, CallDone
  <2>3. Drained({})'
    BY <2>2 DEF Drained, NothingToSend
  <2> QED
    BY <2>2, <2>3 DEF RoundAfterRound
<1>4. CASE script = Tail(EmergencyScript) /\ Drained({})
  <2>0. script =
          <<ToAll("stop"), Tick(8), ToAll("disable"), Tick(8), ToAll("unlock"), Tick(8)>>
    BY <1>4, EmergencyScriptProperties
  <2>1. /\ Head(script) = ToAll("stop")
        /\ Tail(script) = <<Tick(8), ToAll("disable"), Tick(8), ToAll("unlock"), Tick(8)>>
    BY <2>0
  <2>2. Leaving({}, "stop", 8)' /\ script' = Tail(script)
    BY <1>1, <1>4, <2>1, RoundBegins
  <2> QED
    BY <1>1, <2>1, <2>2 DEF RoundAfterRound
<1>5. ASSUME NEW n \in 1..8, Leaving({}, "stop", n),
             script = <<Tick(n), ToAll("disable"), Tick(8), ToAll("unlock"), Tick(8)>>
      PROVE  RoundAfterRound'
  <2>1. Head(script) = Tick(n) /\ Tail(script) = afterStop
    BY <1>5
  <2>2. \/ /\ n # 1 /\ Leaving({}, "stop", n - 1)'
           /\ script' = [script EXCEPT ![1].left = @ - 1]
        \/ Drained({} \union {"stop"})' /\ script' = Tail(script)
    BY <1>1, <1>5, <2>1, RoundLeaves
  <2>3. CASE /\ n # 1 /\ Leaving({}, "stop", n - 1)'
             /\ script' = [script EXCEPT ![1].left = @ - 1]
    <3>1. script' = <<Tick(n - 1), ToAll("disable"), Tick(8), ToAll("unlock"), Tick(8)>>
      BY <1>5, <2>3 DEF Tick
    <3> QED
      BY <1>2, <2>3, <3>1 DEF RoundAfterRound
  <2>4. CASE Drained({} \union {"stop"})' /\ script' = Tail(script)
    BY <1>1, <2>1, <2>4 DEF RoundAfterRound
  <2> QED
    BY <2>2, <2>3, <2>4
<1>6. CASE script = afterStop /\ Drained({"stop"})
  <2>1. /\ Head(script) = ToAll("disable")
        /\ Tail(script) = <<Tick(8), ToAll("unlock"), Tick(8)>>
    BY <1>6
  <2>2. Leaving({"stop"}, "disable", 8)' /\ script' = Tail(script)
    BY <1>1, <1>6, <2>1, RoundBegins
  <2> QED
    BY <1>1, <2>1, <2>2 DEF RoundAfterRound
<1>7. ASSUME NEW n \in 1..8, Leaving({"stop"}, "disable", n),
             script = <<Tick(n), ToAll("unlock"), Tick(8)>>
      PROVE  RoundAfterRound'
  <2>1. Head(script) = Tick(n) /\ Tail(script) = afterDisable
    BY <1>7
  <2>2. \/ /\ n # 1 /\ Leaving({"stop"}, "disable", n - 1)'
           /\ script' = [script EXCEPT ![1].left = @ - 1]
        \/ Drained({"stop"} \union {"disable"})' /\ script' = Tail(script)
    BY <1>1, <1>7, <2>1, RoundLeaves
  <2>3. CASE /\ n # 1 /\ Leaving({"stop"}, "disable", n - 1)'
             /\ script' = [script EXCEPT ![1].left = @ - 1]
    <3>1. script' = <<Tick(n - 1), ToAll("unlock"), Tick(8)>>
      BY <1>7, <2>3 DEF Tick
    <3> QED
      BY <1>2, <2>3, <3>1 DEF RoundAfterRound
  <2>4. CASE Drained({"stop"} \union {"disable"})' /\ script' = Tail(script)
    BY <1>1, <2>1, <2>4 DEF RoundAfterRound
  <2> QED
    BY <2>2, <2>3, <2>4
<1>8. CASE script = afterDisable /\ Drained({"stop", "disable"})
  <2>1. Head(script) = ToAll("unlock") /\ Tail(script) = <<Tick(8)>>
    BY <1>8
  <2>2. Leaving({"stop", "disable"}, "unlock", 8)' /\ script' = Tail(script)
    BY <1>1, <1>8, <2>1, RoundBegins
  <2> QED
    BY <1>1, <2>1, <2>2 DEF RoundAfterRound
<1>9. ASSUME NEW n \in 1..8, Leaving({"stop", "disable"}, "unlock", n), script = <<Tick(n)>>
      PROVE  RoundAfterRound'
  <2>1. Head(script) = Tick(n)
    BY <1>9
  <2>2. \/ /\ n # 1 /\ Leaving({"stop", "disable"}, "unlock", n - 1)'
           /\ script' = [script EXCEPT ![1].left = @ - 1]
        \/ Drained({"stop", "disable"} \union {"unlock"})' /\ script' = Tail(script)
    BY <1>1, <1>9, <2>1, RoundLeaves
  <2>3. CASE /\ n # 1 /\ Leaving({"stop", "disable"}, "unlock", n - 1)'
             /\ script' = [script EXCEPT ![1].left = @ - 1]
    <3>1. script' = <<Tick(n - 1)>>
      BY <1>9, <2>3 DEF Tick
    <3> QED
      BY <1>2, <2>3, <3>1 DEF RoundAfterRound
  <2>4. CASE Drained({"stop", "disable"} \union {"unlock"})' /\ script' = Tail(script)
    BY <1>1, <2>4 DEF RoundAfterRound, Drained
  <2> QED
    BY <2>2, <2>3, <2>4
<1>10. CASE sinceStop = EmergencyCommands \X Motors
  <2>1. sinceStop \subseteq sinceStop'
    BY DEF Calls, BatchCall, EachCall, ClearCall, SendCall, RetryCall, SendDone, Left
  <2>2. sinceStop' \in SUBSET (EmergencyCommands \X Motors)
    BY TypeCall DEF TransportTypeOK, RecordTypeOK
  <2>3. sinceStop' = EmergencyCommands \X Motors
    BY <1>10, <2>1, <2>2
  <2> QED
    BY <2>3 DEF RoundAfterRound
<1> QED
  BY <1>3, <1>4, <1>5, <1>6, <1>7, <1>8, <1>9, <1>10 DEF RoundAfterRound

\* On a bus that takes every frame an emergency stop goes on round after round.
LEMMA StopsInTurnStep ==
  ASSUME TransportTypeOK, ScriptIsFresh, StopsInTurn, Next
  PROVE  StopsInTurn'
<1>0. stops \in Nat
  BY TransportAssumption DEF TransportTypeOK, ControlTypeOK
<1>1. CASE EmergencyStop \/ RuntimeTimeout
  <2>1. stops' = stops + 1 /\ script' = EmergencyScript /\ sinceStop' = {}
    BY <1>1 DEF EmergencyStop, RuntimeTimeout, EmergencyStopWithReason
  <2> QED
    BY <1>0, <2>1 DEF StopsInTurn, RoundAfterRound
<1>2. CASE Calls
  <2>1. UNCHANGED stops /\ (retried' = TRUE \/ UNCHANGED retried)
    BY <1>2 DEF Calls, BatchCall, EachCall, ClearCall, SendCall, RetryCall, SendDone, Sending, Call
  <2>2. stops = 0 => sinceStop' = {}
    <3>1. UNCHANGED sinceStop \/ Left(NextItem.frame)
      BY <1>2 DEF Calls, BatchCall, EachCall, ClearCall, SendCall, RetryCall, SendDone
    <3>2. stops = 0 => UNCHANGED sinceStop
      BY <1>0, <3>1 DEF Left
    <3> QED
      BY <3>2 DEF StopsInTurn
  <2>3. stops > 0 /\ ~retried' => RoundAfterRound'
    BY <1>2, <2>1, InTurnCall DEF StopsInTurn
  <2> QED
    BY <2>1, <2>2, <2>3 DEF StopsInTurn
<1>3. CASE ResetFault \/ BeginTick \/ LatchCanFault \/ CheckDone \/ RunExecutor \/ NothingRuns
  <2>1. script = <<>> /\ UNCHANGED <<stops, sinceStop, retried>>
    BY <1>3 DEF ResetFault, BeginTick, LatchCanFault, CheckDone, RunExecutor, NothingRuns
  <2>2. RoundAfterRound => sinceStop = EmergencyCommands \X Motors
    <3>1. script # EmergencyScript /\ script # Tail(EmergencyScript)
      BY <2>1, EmergencyScriptProperties
    <3>2. /\ script # <<ToAll("disable"), Tick(8), ToAll("unlock"), Tick(8)>>
          /\ script # <<ToAll("unlock"), Tick(8)>>
      BY <2>1
    <3>3. \A n \in 1..8 :
            /\ script # <<Tick(n), ToAll("disable"), Tick(8), ToAll("unlock"), Tick(8)>>
            /\ script # <<Tick(n), ToAll("unlock"), Tick(8)>> /\ script # <<Tick(n)>>
      BY <2>1
    <3> QED
      BY <3>1, <3>2, <3>3 DEF RoundAfterRound
  <2> QED
    BY <2>1, <2>2 DEF StopsInTurn, RoundAfterRound
<1> QED
  BY <1>1, <1>2, <1>3 DEF Next, Round, Requests

----------------------------------------------------------------------------
(* The theorems *)

\* The invariant holds when the loop starts.
LEMMA DeliveryInit == Init => DeliveryInvariant
<1> SUFFICES ASSUME Init PROVE DeliveryInvariant
  OBVIOUS
<1>1. TransportInvariant
  BY InvariantInit
<1>2. /\ queue = <<>> /\ pending = <<>> /\ script = <<>> /\ stops = 0 /\ sinceStop = {}
      /\ \A r \in Runs : issued[r] = <<>> /\ wire[r] = <<>>
  BY DEF Init, QueueInit
<1>3. Len(queue) = 0 /\ Len(script) = 0 /\ \A r \in Runs : Len(issued[r]) = 0 /\ Len(wire[r]) = 0
  BY <1>2
<1>4. IssuedOnce
  BY <1>2, <1>3 DEF IssuedOnce, NothingIssued
<1>5. BatchIsNext
  BY <1>3 DEF BatchIsNext
<1>6. InLine
  <2> SUFFICES ASSUME NEW r \in Runs PROVE \E p, n \in 0..Len(queue) : Line(r, p, n)
    BY DEF InLine
  <2>1. Held(r) = 0
    BY <1>2 DEF Held
  <2>2. Line(r, 0, 0) /\ 0 \in 0..Len(queue)
    BY <1>3, <2>1 DEF Line
  <2> QED
    BY <2>2
<1>7. StopsInTurn
  BY <1>2 DEF StopsInTurn
<1> QED
  BY <1>1, <1>4, <1>5, <1>6, <1>7 DEF DeliveryInvariant

\* And every step keeps it.
LEMMA DeliveryStep == DeliveryInvariant /\ [Next]_vars => DeliveryInvariant'
<1> SUFFICES ASSUME DeliveryInvariant, [Next]_vars PROVE DeliveryInvariant'
  OBVIOUS
<1>0. /\ TransportInvariant /\ IssuedOnce /\ BatchIsNext /\ InLine /\ StopsInTurn
      /\ TransportTypeOK /\ RunIsNewer /\ ScriptIsFresh
  BY DEF DeliveryInvariant, TransportInvariant
<1>1. TransportInvariant'
  BY <1>0, InvariantStep
<1>2. CASE Next
  BY <1>0, <1>1, <1>2, IssuedOnceStep, BatchIsNextStep, InLineStep, StopsInTurnStep
     DEF DeliveryInvariant
<1>3. CASE UNCHANGED vars
  <2>1. IssuedOnce' /\ BatchIsNext'
    BY <1>0, <1>3 DEF IssuedOnce, NothingIssued, BatchIsNext, NoneWaits, Waiting
  <2>2. InLine'
    <3> SUFFICES ASSUME NEW r \in Runs PROVE \E p, n \in 0..Len(queue') : Line(r, p, n)'
      BY DEF InLine
    <3>1. PICK p \in 0..Len(queue), n \in 0..Len(queue) : Line(r, p, n)
      BY <1>0 DEF InLine
    <3>2. Line(r, p, n)' /\ p \in 0..Len(queue') /\ n \in 0..Len(queue')
      BY <1>3, <3>1 DEF Line, Held
    <3> QED
      BY <3>2
  <2>3. StopsInTurn'
    BY <1>0, <1>3 DEF StopsInTurn, RoundAfterRound, Leaving, Drained, NothingToSend, HasLeft
  <2> QED
    BY <1>1, <2>1, <2>2, <2>3 DEF DeliveryInvariant
<1> QED
  BY <1>2, <1>3

\* The inductive invariant of what leaves holds always.
THEOREM DeliveryInvariantHolds == Spec => []DeliveryInvariant
<1> QED
  BY DeliveryInit, DeliveryStep, PTL DEF Spec

\* What has left of a run is a beginning of what it issued: no frame overtakes
\* another, none is lost between two that leave, none leaves twice.
THEOREM MovesLeaveInOrder == Spec => []BatchLeavesInOrder
<1>1. DeliveryInvariant => BatchLeavesInOrder
  <2> SUFFICES ASSUME DeliveryInvariant, NEW r \in Runs PROVE IsPrefix(wire[r], issued[r])
    BY DEF BatchLeavesInOrder
  <2> DEFINE s == wire[r]
             u == issued[r]
  <2>1. s \in Seq(Frame) /\ u \in Seq(Frame)
    BY DEF DeliveryInvariant, TransportInvariant, TransportTypeOK, RecordTypeOK
  <2>2. Len(s) <= Len(u) /\ \A k \in 1..Len(s) : s[k] = u[k]
    BY DEF DeliveryInvariant, IssuedOnce
  <2> HIDE DEF s, u
  <2>3. Len(s) \in Nat /\ Len(u) \in Nat
    BY <2>1, LenProperties
  <2>4. SubSeq(s, 1, Len(s)) = SubSeq(u, 1, Len(s))
    BY <2>1, <2>2, <2>3
  <2> QED
    BY <2>2, <2>4 DEF IsPrefix, s, u
<1> QED
  BY <1>1, DeliveryInvariantHolds, PTL

\* On a bus that takes every frame, an emergency stop has reached every motor
\* when its handler returns.
THEOREM PromptlyStopped == Spec => []PromptOnHealthyBus
<1>1. DeliveryInvariant => PromptOnHealthyBus
  <2> SUFFICES ASSUME DeliveryInvariant, stops > 0, script = <<>>, ~retried,
                      NEW cmd \in EmergencyCommands, NEW m \in Motors
               PROVE  HasLeft(cmd, m)
    BY DEF PromptOnHealthyBus, EmergencyFrames, Command
  <2>1. RoundAfterRound
    BY DEF DeliveryInvariant, StopsInTurn
  <2>2. script # EmergencyScript /\ script # Tail(EmergencyScript)
    BY EmergencyScriptProperties
  <2>3. sinceStop = EmergencyCommands \X Motors
    BY <2>1, <2>2 DEF RoundAfterRound
  <2> QED
    BY <2>3 DEF HasLeft
<1> QED
  BY <1>1, DeliveryInvariantHolds, PTL

\* On such a bus no motor is disabled before it is stopped, or unlocked before
\* it is disabled.
THEOREM StoppedInOrder == Spec => []OrderOnHealthyBus
<1>1. DeliveryInvariant => OrderOnHealthyBus
  <2> SUFFICES ASSUME DeliveryInvariant, ~retried PROVE StopDisableUnlock
    BY DEF OrderOnHealthyBus
  <2>0. /\ "stop" \in EmergencyCommands /\ "disable" \in EmergencyCommands
        /\ stops \in Nat /\ (stops = 0 => sinceStop = {}) /\ (stops > 0 => RoundAfterRound)
    BY TransportAssumption DEF DeliveryInvariant, StopsInTurn, EmergencyCommands,
       TransportInvariant, TransportTypeOK, ControlTypeOK
  <2>1. ASSUME NEW before \in {{}, {"stop"}, {"stop", "disable"}}, NEW cmd,
               before \X Motors \subseteq sinceStop,
               sinceStop \subseteq (before \union {cmd}) \X Motors,
               cmd = "disable" => "stop" \in before, cmd = "unlock" => "disable" \in before
        PROVE  StopDisableUnlock
    BY <2>1 DEF StopDisableUnlock, HasLeft
  <2>2. ASSUME NEW n \in 1..8, Leaving({}, "stop", n) PROVE StopDisableUnlock
    BY <2>1, <2>2 DEF Leaving
  <2>3. ASSUME NEW n \in 1..8, Leaving({"stop"}, "disable", n) PROVE StopDisableUnlock
    BY <2>1, <2>3 DEF Leaving
  <2>4. ASSUME NEW n \in 1..8, Leaving({"stop", "disable"}, "unlock", n) PROVE StopDisableUnlock
    BY <2>1, <2>4 DEF Leaving
  <2>5. CASE \/ sinceStop = {} \/ sinceStop = {} \X Motors
             \/ sinceStop = {"stop"} \X Motors \/ sinceStop = {"stop", "disable"} \X Motors
             \/ sinceStop = EmergencyCommands \X Motors
    BY <2>0, <2>5 DEF StopDisableUnlock, HasLeft
  <2> QED
    BY <2>0, <2>2, <2>3, <2>4, <2>5 DEF RoundAfterRound, Drained
<1> QED
  BY <1>1, DeliveryInvariantHolds, PTL
=============================================================================
