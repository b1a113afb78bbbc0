--------------------------- MODULE TestQueueProofs ---------------------------
(***************************************************************************)
(* Proofs about TestQueue for any set of requests, any number of           *)
(* goroutines that call Run and any queue limit.  The argument goes in     *)
(* layers, each resting on the ones before it: types; at most one          *)
(* goroutine is past the worker check (OneRunner); wakeups; the fate of    *)
(* every request; their order; and from these the step simulation of       *)
(* SerialExecutor.                                                         *)
(***************************************************************************)
EXTENDS TestQueue, SequenceTheorems, TLAPS

Active == {"select", "leaving"} \union Draining

\* The strengthening behind SerialExecution: a goroutine inside Run holds
\* q.worker, no two are inside, and the one that executes a request has it both
\* in its local variable and in q.running.
OneRunner ==
  /\ \A v, w \in Runner : pc[v] \in Active /\ pc[w] \in Active => v = w
  /\ \A w \in Runner : pc[w] \in Active => worker
  /\ \A w \in Runner : pc[w] \in Busy => running = task[w] /\ task[w] \in Request
  /\ running # None => \E w \in Runner : pc[w] \in Busy

\* Deleting position i moves the later elements down by one and keeps the rest.
LEMMA RemoveAtProperties ==
  ASSUME NEW S, NEW s \in Seq(S), NEW i \in 1 .. Len(s)
  PROVE  /\ RemoveAt(s, i) \in Seq(S)
         /\ Len(RemoveAt(s, i)) = Len(s) - 1
         /\ \A j \in 1 .. Len(s) - 1 :
              RemoveAt(s, i)[j] = IF j < i THEN s[j] ELSE s[j+1]
<1> DEFINE front == SubSeq(s, 1, i-1)
           back  == SubSeq(s, i+1, Len(s))
<1>0. Len(s) \in Nat /\ \A j \in 1 .. Len(s) : s[j] \in S
  BY LenProperties, ElementOfSeq
<1>1. /\ front \in Seq(S)
      /\ Len(front) = i - 1
      /\ \A j \in 1 .. i-1 : front[j] = s[j]
  <2>1. \A j \in 1 .. i-1 : s[j] \in S
    BY <1>0
  <2>2. /\ front \in Seq(S)
        /\ Len(front) = IF 1 <= i-1 THEN (i-1)-1+1 ELSE 0
        /\ \A j \in 1 .. (i-1)-1+1 : front[j] = s[1+j-1]
    BY <2>1, SubSeqProperties
  <2>. QED  BY <2>2
<1>2. /\ back \in Seq(S)
      /\ Len(back) = Len(s) - i
      /\ \A j \in 1 .. Len(s)-i : back[j] = s[i+j]
  <2>1. \A j \in i+1 .. Len(s) : s[j] \in S
    BY <1>0
  <2>2. /\ back \in Seq(S)
        /\ Len(back) = IF i+1 <= Len(s) THEN Len(s)-(i+1)+1 ELSE 0
        /\ \A j \in 1 .. Len(s)-(i+1)+1 : back[j] = s[(i+1)+j-1]
    BY <2>1, <1>0, SubSeqProperties
  <2>. QED  BY <2>2, <1>0
<1>3. RemoveAt(s, i) = front \o back
  BY DEF RemoveAt
<1> HIDE DEF front, back
<1>4. /\ front \o back \in Seq(S)
      /\ Len(front \o back) = Len(front) + Len(back)
      /\ \A j \in 1 .. Len(front) + Len(back) :
           (front \o back)[j] = IF j <= Len(front) THEN front[j] ELSE back[j - Len(front)]
  BY <1>1, <1>2, ConcatProperties
<1>. QED  BY <1>0, <1>1, <1>2, <1>3, <1>4

-----------------------------------------------------------------------------
(* Types.                                                                    *)

\* The new queue is empty and typed.
LEMMA InitTypeOK == Init => TypeOK
<1> SUFFICES ASSUME Init PROVE TypeOK
  OBVIOUS
<1>1. queue \in Seq(Request) /\ Len(queue) = 0
  BY EmptySeq DEF Init
<1>2. Len(queue) <= Capacity
  BY <1>1, QueueAssumption DEF QueueAssumption, Capacity
<1>. QED
  BY <1>1, <1>2 DEF Init, TypeOK, Fate, Draining, Busy

\* Types and the queue limit are preserved by every step.
LEMMA NextTypeOK == TypeOK /\ [Next]_vars => TypeOK'
<1> SUFFICES ASSUME TypeOK, [Next]_vars PROVE TypeOK'
  OBVIOUS
<1> USE QueueAssumption DEF QueueAssumption
<1>0. Len(queue) \in Nat /\ Capacity \in Nat
  BY LenProperties DEF TypeOK, Capacity
<1>1. ASSUME NEW r \in Request, Enqueue(r) PROVE TypeOK'
  <2>1. queue' \in Seq(Request) /\ Len(queue') = Len(queue) + 1
    BY <1>1, AppendProperties DEF TypeOK, Enqueue
  <2>. QED
    BY <1>0, <1>1, <2>1 DEF TypeOK, Enqueue, local, Fate, Capacity
<1>2. ASSUME NEW r \in Request, EnqueueFull(r) PROVE TypeOK'
  BY <1>2 DEF TypeOK, EnqueueFull, shared, local, Fate, Capacity
<1>3. ASSUME NEW r \in Request, CancelRunning(r) PROVE TypeOK'
  BY <1>3 DEF TypeOK, CancelRunning, local, Capacity
<1>4. ASSUME NEW r \in Request, CancelPending(r) PROVE TypeOK'
  <2>1. PICK i \in DOMAIN queue : queue' = RemoveAt(queue, i)
    BY <1>4 DEF CancelPending
  <2>2. queue' \in Seq(Request) /\ Len(queue') = Len(queue) - 1
    BY <2>1, LenProperties, RemoveAtProperties DEF TypeOK
  <2>. QED
    BY <1>0, <1>4, <2>2 DEF TypeOK, CancelPending, local, Fate, Capacity
<1>5. CASE Shutdown
  BY <1>5 DEF TypeOK, Shutdown, local, ghost, Capacity
<1>6. ASSUME NEW w \in Runner, Dequeue(w) PROVE TypeOK'
  <2>1. /\ queue' \in Seq(Request)
        /\ Len(queue') = Len(queue) - 1
        /\ Head(queue) \in Request
    BY <1>6, HeadTailProperties DEF TypeOK, Dequeue
  <2>. QED
    BY <1>0, <1>6, <2>1 DEF TypeOK, Dequeue, Fate, Draining, Busy, Capacity
<1>7. ASSUME NEW w \in Runner, Clear(w) PROVE TypeOK'
  BY <1>7 DEF TypeOK, Clear, Fate, Draining, Busy, Capacity
<1>8. ASSUME NEW w \in Runner,
             RunEnter(w) \/ RunRefused(w) \/ Wake(w) \/ Leave(w) \/ Exit(w)
             \/ Drained(w) \/ OnStart(w) \/ RunTask(w)
      PROVE TypeOK'
  BY <1>8 DEF TypeOK, RunEnter, RunRefused, Wake, Leave, Exit, Drained, OnStart, RunTask,
              shared, ghost, Draining, Busy, Capacity
<1>9. CASE UNCHANGED vars
  BY <1>9 DEF TypeOK, vars, shared, local, ghost, Capacity
<1>. QED
  BY <1>1, <1>2, <1>3, <1>4, <1>5, <1>6, <1>7, <1>8, <1>9 DEF Next, RunnerStep

\* The type invariant, with the queue limit, for every value of the constants.
THEOREM TypeCorrect == Spec => []TypeOK
BY InitTypeOK, NextTypeOK, PTL DEF Spec

-----------------------------------------------------------------------------
\* A goroutine gets past the worker check only while no other is inside Run, and
\* every change of q.running is made by the one that is inside.
LEMMA InitOneRunner == Init => OneRunner
BY DEF Init, OneRunner, Active, Draining, Busy

\* Every step of every goroutine keeps OneRunner.
LEMMA NextOneRunner == TypeOK /\ OneRunner /\ [Next]_vars => OneRunner'
<1> SUFFICES ASSUME TypeOK, OneRunner, [Next]_vars PROVE OneRunner'
  OBVIOUS
<1> USE DEF OneRunner, Active, Draining, Busy
<1>1. ASSUME NEW r \in Request,
             Enqueue(r) \/ EnqueueFull(r) \/ CancelRunning(r) \/ CancelPending(r)
      PROVE OneRunner'
  BY <1>1 DEF Enqueue, EnqueueFull, CancelRunning, CancelPending, shared, local
<1>2. CASE Shutdown
  BY <1>2 DEF Shutdown, local
<1>3. ASSUME NEW w \in Runner, RunEnter(w) PROVE OneRunner'
  BY <1>3 DEF TypeOK, RunEnter
<1>4. ASSUME NEW w \in Runner, Exit(w) PROVE OneRunner'
  BY <1>4 DEF TypeOK, Exit
<1>5. ASSUME NEW w \in Runner, Dequeue(w) PROVE OneRunner'
  <2>1. Head(queue) \in Request
    BY <1>5, HeadTailProperties DEF TypeOK, Dequeue
  <2>. QED
    BY <1>5, <2>1 DEF TypeOK, Dequeue
<1>6. ASSUME NEW w \in Runner, Clear(w) PROVE OneRunner'
  BY <1>6, QueueAssumption DEF TypeOK, Clear, QueueAssumption
<1>7. ASSUME NEW w \in Runner,
             RunRefused(w) \/ Wake(w) \/ Leave(w) \/ Drained(w) \/ OnStart(w) \/ RunTask(w)
      PROVE OneRunner'
  BY <1>7 DEF TypeOK, RunRefused, Wake, Leave, Drained, OnStart, RunTask, shared
<1>8. CASE UNCHANGED vars
  BY <1>8 DEF vars, shared, local
<1>. QED
  BY <1>1, <1>2, <1>3, <1>4, <1>5, <1>6, <1>7, <1>8 DEF Next, RunnerStep

\* SDD 7.4.1: at most one request is executed at a time, for any number of
\* goroutines calling Run, and q.running names it.
THEOREM ExecutionIsSerial == Spec => []SerialExecution
<1>1. OneRunner => SerialExecution
  BY DEF OneRunner, SerialExecution, Active, Draining
<1>. QED
  BY <1>1, InitOneRunner, NextOneRunner, TypeCorrect, PTL DEF Spec

-----------------------------------------------------------------------------
\* The token and the inner loop together never let a request sleep: Enqueue
\* leaves the token, and the loop is only left when the queue is empty.
LEMMA NextNoLostWakeup == TypeOK /\ NoLostWakeup /\ [Next]_vars => NoLostWakeup'
<1> SUFFICES ASSUME TypeOK, NoLostWakeup, [Next]_vars PROVE NoLostWakeup'
  OBVIOUS
<1> USE DEF NoLostWakeup, Draining, Busy
<1>1. ASSUME NEW r \in Request, Enqueue(r) \/ EnqueueFull(r) \/ CancelRunning(r)
      PROVE NoLostWakeup'
  BY <1>1 DEF Enqueue, EnqueueFull, CancelRunning, shared, local
<1>2. ASSUME NEW r \in Request, CancelPending(r) PROVE NoLostWakeup'
  <2>1. queue # <<>>
    BY <1>2 DEF CancelPending
  <2>. QED
    BY <1>2, <2>1 DEF CancelPending, local
<1>3. CASE Shutdown
  BY <1>3 DEF Shutdown, local
<1>4. ASSUME NEW w \in Runner, RunnerStep(w) PROVE NoLostWakeup'
  <2>1. CASE Dequeue(w) \/ OnStart(w) \/ RunTask(w) \/ Clear(w) \/ Wake(w)
    BY <2>1 DEF TypeOK, Dequeue, OnStart, RunTask, Clear, Wake, shared
  <2>2. CASE Drained(w)
    BY <2>2 DEF Drained, shared
  <2>3. CASE RunEnter(w) \/ RunRefused(w) \/ Leave(w) \/ Exit(w)
    BY <2>3 DEF TypeOK, RunEnter, RunRefused, Leave, Exit, shared
  <2>. QED
    BY <1>4, <2>1, <2>2, <2>3 DEF RunnerStep
<1>5. CASE UNCHANGED vars
  BY <1>5 DEF vars, shared, local
<1>. QED
  BY <1>1, <1>2, <1>3, <1>4, <1>5 DEF Next

\* No interleaving of Enqueue, Cancel, Run and shutdown loses a wakeup.
THEOREM WakeupsAreKept == Spec => []NoLostWakeup
<1>1. Init => NoLostWakeup
  BY DEF Init, NoLostWakeup
<1>. QED
  BY <1>1, NextNoLostWakeup, TypeCorrect, PTL DEF Spec

-----------------------------------------------------------------------------
\* The bookkeeping of requests: where each one is, in which order they wait, and
\* whose context q.runningCancel cancels.  Tickets need a bound on lastStarted for
\* a request accepted while the queue is empty.
Bookkeeping ==
  /\ NothingLost
  /\ StartsInOrder
  /\ CancelHitsItsTarget
  /\ lastStarted <= accepted

\* Bookkeeping holds of the new queue.
LEMMA InitBookkeeping == Init => Bookkeeping
<1> SUFFICES ASSUME Init PROVE Bookkeeping
  OBVIOUS
<1>1. DOMAIN queue = {}
  BY DEF Init
<1>2. NothingLost
  BY <1>1, QueueAssumption DEF QueueAssumption, Init, NothingLost
<1>. QED
  BY <1>1, <1>2 DEF Init, Bookkeeping, StartsInOrder, CancelHitsItsTarget

\* Accepting a request puts it behind all the others, with the highest ticket.
LEMMA EnqueueBookkeeping ==
  ASSUME TypeOK, Bookkeeping, NEW r \in Request, Enqueue(r)
  PROVE  Bookkeeping'
<1> USE DEF Bookkeeping
<1>0. /\ Len(queue) \in Nat
      /\ DOMAIN queue = 1 .. Len(queue)
      /\ \A i \in 1 .. Len(queue) : queue[i] \in Request
  BY LenProperties, ElementOfSeq DEF TypeOK
<1>1. /\ queue' \in Seq(Request)
      /\ Len(queue') = Len(queue) + 1
      /\ \A i \in 1 .. Len(queue) : queue'[i] = queue[i]
      /\ queue'[Len(queue) + 1] = r
  BY AppendProperties DEF TypeOK, Enqueue
<1>2. DOMAIN queue' = 1 .. Len(queue) + 1
  BY <1>1, LenProperties
<1>3. \A i \in DOMAIN queue : queue[i] # r
  BY DEF Enqueue, NothingLost
<1>4. NothingLost'
  <2>1. \A q \in Request : fate'[q] = "waiting" <=> \E i \in DOMAIN queue' : queue'[i] = q
    <3>1. fate' = [fate EXCEPT ![r] = "waiting"] /\ fate[r] = "new"
      BY DEF Enqueue
    <3>2. ASSUME NEW q \in Request, q # r
          PROVE  (\E i \in DOMAIN queue : queue[i] = q) <=> (\E i \in DOMAIN queue' : queue'[i] = q)
      BY <1>0, <1>1, <1>2, <3>2
    <3>3. \E i \in DOMAIN queue' : queue'[i] = r
      BY <1>0, <1>1, <1>2
    <3>4. fate'[r] = "waiting" /\ \A q \in Request \ {r} : fate'[q] = fate[q]
      BY <3>1 DEF TypeOK
    <3>. QED
      BY <3>2, <3>3, <3>4 DEF NothingLost
  <2>2. \A q \in Request : fate'[q] = "started" <=> running' = q
    BY DEF Enqueue, NothingLost, TypeOK
  <2>3. \A i, j \in DOMAIN queue' : queue'[i] = queue'[j] => i = j
    BY <1>0, <1>1, <1>2, <1>3 DEF NothingLost
  <2>. QED
    BY <2>1, <2>2, <2>3 DEF NothingLost
<1>5. StartsInOrder'
  <2>1. \A i \in 1 .. Len(queue) : ticket'[queue'[i]] = ticket[queue[i]]
    BY <1>0, <1>1, <1>3 DEF Enqueue, TypeOK
  <2>2. ticket'[queue'[Len(queue) + 1]] = accepted + 1
    BY <1>1 DEF Enqueue, TypeOK
  <2>3. \A i \in 1 .. Len(queue) : ticket[queue[i]] \in Nat
    BY <1>0 DEF TypeOK
  <2>4. accepted' = accepted + 1 /\ lastStarted' = lastStarted
    BY DEF Enqueue
  <2>5. \A i, j \in DOMAIN queue' : i < j => ticket'[queue'[i]] < ticket'[queue'[j]]
    <3> SUFFICES ASSUME NEW i \in DOMAIN queue', NEW j \in DOMAIN queue', i < j
                 PROVE  ticket'[queue'[i]] < ticket'[queue'[j]]
      OBVIOUS
    <3>1. i \in 1 .. Len(queue) /\ ticket[queue[i]] <= accepted
      BY <1>0, <1>2 DEF StartsInOrder
    <3>2. CASE j \in 1 .. Len(queue)
      BY <1>0, <2>1, <3>1, <3>2 DEF StartsInOrder
    <3>3. CASE j = Len(queue) + 1
      BY <2>1, <2>2, <2>3, <3>1, <3>3 DEF TypeOK
    <3>. QED
      BY <1>0, <1>2, <3>2, <3>3
  <2>6. \A i \in DOMAIN queue' :
          lastStarted' < ticket'[queue'[i]] /\ ticket'[queue'[i]] <= accepted'
    BY <1>0, <1>2, <2>1, <2>2, <2>3, <2>4 DEF StartsInOrder, TypeOK
  <2>. QED
    BY <2>5, <2>6 DEF StartsInOrder
<1>6. CancelHitsItsTarget' /\ (lastStarted <= accepted)'
  BY DEF Enqueue, CancelHitsItsTarget, TypeOK
<1>. QED
  BY <1>4, <1>5, <1>6

\* Withdrawing a waiting request leaves the others as they were and in order.
LEMMA CancelPendingBookkeeping ==
  ASSUME TypeOK, Bookkeeping, NEW r \in Request, CancelPending(r)
  PROVE  Bookkeeping'
<1> USE DEF Bookkeeping
<1>0. /\ Len(queue) \in Nat
      /\ DOMAIN queue = 1 .. Len(queue)
      /\ \A i \in 1 .. Len(queue) : queue[i] \in Request
  BY LenProperties, ElementOfSeq DEF TypeOK
<1>1. PICK k \in DOMAIN queue : queue[k] = r /\ queue' = RemoveAt(queue, k)
  BY DEF CancelPending
<1>2. /\ queue' \in Seq(Request)
      /\ Len(queue') = Len(queue) - 1
      /\ \A j \in 1 .. Len(queue) - 1 :
           queue'[j] = IF j < k THEN queue[j] ELSE queue[j+1]
  <2>1. k \in 1 .. Len(queue) /\ queue \in Seq(Request)
    BY <1>0 DEF TypeOK
  <2>. QED
    BY <1>1, <2>1, RemoveAtProperties
<1>3. DOMAIN queue' = 1 .. Len(queue) - 1
  BY <1>2, LenProperties
<1>4. \A i, j \in 1 .. Len(queue) : queue[i] = queue[j] => i = j
  BY <1>0 DEF NothingLost
<1>5. NothingLost'
  <2>1. \A i \in DOMAIN queue' : queue'[i] # r
    BY <1>0, <1>1, <1>2, <1>3, <1>4
  <2>2. ASSUME NEW q \in Request, q # r
        PROVE  (\E i \in DOMAIN queue : queue[i] = q) <=> (\E i \in DOMAIN queue' : queue'[i] = q)
    <3>1. ASSUME NEW i \in DOMAIN queue, queue[i] = q
          PROVE  \E j \in DOMAIN queue' : queue'[j] = q
      <4>1. CASE i < k
        BY <1>0, <1>1, <1>2, <1>3, <3>1, <4>1
      <4>2. CASE i > k
        <5>1. i - 1 \in DOMAIN queue' /\ queue'[i-1] = queue[i]
          BY <1>0, <1>1, <1>2, <1>3, <4>2
        <5>. QED
          BY <3>1, <5>1
      <4>. QED
        BY <1>0, <1>1, <2>2, <3>1, <4>1, <4>2
    <3>2. ASSUME NEW j \in DOMAIN queue', queue'[j] = q
          PROVE  \E i \in DOMAIN queue : queue[i] = q
      BY <1>0, <1>1, <1>2, <1>3, <3>2
    <3>. QED
      BY <3>1, <3>2
  <2>3. \A q \in Request : fate'[q] = "waiting" <=> \E i \in DOMAIN queue' : queue'[i] = q
    BY <2>1, <2>2 DEF CancelPending, NothingLost, TypeOK
  <2>4. \A q \in Request : fate'[q] = "started" <=> running' = q
    BY DEF CancelPending, NothingLost, TypeOK
  <2>5. \A i, j \in DOMAIN queue' : queue'[i] = queue'[j] => i = j
    BY <1>0, <1>1, <1>2, <1>3, <1>4
  <2>. QED
    BY <2>3, <2>4, <2>5 DEF NothingLost
<1>6. StartsInOrder'
  <2>1. ticket' = ticket /\ lastStarted' = lastStarted /\ accepted' = accepted
    BY DEF CancelPending
  <2>2. \A i \in 1 .. Len(queue) : ticket[queue[i]] \in Nat
    BY <1>0 DEF TypeOK
  <2>3. \A i, j \in DOMAIN queue' : i < j => ticket[queue'[i]] < ticket[queue'[j]]
    <3> SUFFICES ASSUME NEW i \in DOMAIN queue', NEW j \in DOMAIN queue', i < j
                 PROVE  ticket[queue'[i]] < ticket[queue'[j]]
      OBVIOUS
    <3>1. PICK m \in DOMAIN queue, n \in DOMAIN queue :
             m < n /\ queue'[i] = queue[m] /\ queue'[j] = queue[n]
      <4>1. CASE j < k
        BY <1>0, <1>1, <1>2, <1>3, <4>1
      <4>2. CASE i < k /\ j >= k
        BY <1>0, <1>1, <1>2, <1>3, <4>2
      <4>3. CASE i >= k
        BY <1>0, <1>1, <1>2, <1>3, <4>3
      <4>. QED
        BY <1>0, <1>1, <1>3, <4>1, <4>2, <4>3
    <3>. QED
      BY <3>1 DEF StartsInOrder
  <2>4. \A i \in DOMAIN queue' : lastStarted < ticket[queue'[i]] /\ ticket[queue'[i]] <= accepted
    BY <1>0, <1>1, <1>2, <1>3 DEF StartsInOrder
  <2>. QED
    BY <2>1, <2>3, <2>4 DEF StartsInOrder
<1>7. CancelHitsItsTarget' /\ (lastStarted <= accepted)'
  BY DEF CancelPending, CancelHitsItsTarget
<1>. QED
  BY <1>5, <1>6, <1>7

\* The worker takes the request that waited longest; the rest move up.
LEMMA DequeueBookkeeping ==
  ASSUME TypeOK, OneRunner, Bookkeeping, NEW w \in Runner, Dequeue(w)
  PROVE  Bookkeeping'
<1> USE DEF Bookkeeping
<1>0. /\ Len(queue) \in Nat
      /\ DOMAIN queue = 1 .. Len(queue)
      /\ \A i \in 1 .. Len(queue) : queue[i] \in Request
      /\ Len(queue) >= 1
  BY LenProperties, ElementOfSeq, EmptySeq DEF TypeOK, Dequeue
<1>1. /\ queue' \in Seq(Request)
      /\ Len(queue') = Len(queue) - 1
      /\ \A i \in 1 .. Len(queue) - 1 : queue'[i] = queue[i+1]
      /\ Head(queue) = queue[1]
  BY HeadTailProperties DEF TypeOK, Dequeue
<1>2. DOMAIN queue' = 1 .. Len(queue) - 1
  BY <1>1, LenProperties
<1>3. \A i, j \in 1 .. Len(queue) : queue[i] = queue[j] => i = j
  BY <1>0 DEF NothingLost
<1>4. running = None
  BY DEF OneRunner, Active, Draining, Busy, Dequeue
<1>5. running' = queue[1] /\ fate' = [fate EXCEPT ![queue[1]] = "started"]
  BY <1>1 DEF Dequeue
<1>6. NothingLost'
  <2>1. \A i \in DOMAIN queue' : queue'[i] # queue[1]
    BY <1>0, <1>1, <1>2, <1>3
  <2>2. ASSUME NEW q \in Request, q # queue[1]
        PROVE  (\E i \in DOMAIN queue : queue[i] = q) <=> (\E i \in DOMAIN queue' : queue'[i] = q)
    <3>1. ASSUME NEW i \in DOMAIN queue, queue[i] = q
          PROVE  \E j \in DOMAIN queue' : queue'[j] = q
      <4>1. i - 1 \in DOMAIN queue' /\ queue'[i-1] = queue[i]
        BY <1>0, <1>1, <1>2, <2>2, <3>1
      <4>. QED
        BY <3>1, <4>1
    <3>2. ASSUME NEW j \in DOMAIN queue', queue'[j] = q
          PROVE  \E i \in DOMAIN queue : queue[i] = q
      BY <1>0, <1>1, <1>2, <3>2
    <3>. QED
      BY <3>1, <3>2
  <2>3. \A q \in Request : fate'[q] = "waiting" <=> \E i \in DOMAIN queue' : queue'[i] = q
    BY <1>0, <1>5, <2>1, <2>2 DEF NothingLost, TypeOK
  <2>4. \A q \in Request : fate'[q] = "started" <=> running' = q
    BY <1>0, <1>4, <1>5, QueueAssumption DEF NothingLost, TypeOK, QueueAssumption
  <2>5. \A i, j \in DOMAIN queue' : queue'[i] = queue'[j] => i = j
    BY <1>0, <1>1, <1>2, <1>3
  <2>. QED
    BY <2>3, <2>4, <2>5 DEF NothingLost
<1>7. StartsInOrder' /\ (lastStarted <= accepted)'
  <2>1. ticket' = ticket /\ lastStarted' = ticket[queue[1]] /\ accepted' = accepted
    BY <1>1 DEF Dequeue
  <2>2. \A i \in 1 .. Len(queue) : ticket[queue[i]] \in Nat
    BY <1>0 DEF TypeOK
  <2>3. \A i, j \in DOMAIN queue' : i < j => ticket[queue'[i]] < ticket[queue'[j]]
    <3> SUFFICES ASSUME NEW i \in DOMAIN queue', NEW j \in DOMAIN queue', i < j
                 PROVE  ticket[queue'[i]] < ticket[queue'[j]]
      OBVIOUS
    <3>1. /\ i+1 \in DOMAIN queue /\ j+1 \in DOMAIN queue /\ i+1 < j+1
          /\ queue'[i] = queue[i+1] /\ queue'[j] = queue[j+1]
      BY <1>0, <1>1, <1>2
    <3>. QED
      BY <3>1 DEF StartsInOrder
  <2>4. \A i \in DOMAIN queue' :
          ticket[queue[1]] < ticket[queue'[i]] /\ ticket[queue'[i]] <= accepted
    BY <1>0, <1>1, <1>2 DEF StartsInOrder
  <2>5. ticket[queue[1]] <= accepted
    BY <1>0 DEF StartsInOrder
  <2>. QED
    BY <2>1, <2>3, <2>4, <2>5 DEF StartsInOrder
<1>8. CancelHitsItsTarget'
  BY DEF Dequeue, CancelHitsItsTarget
<1>. QED
  BY <1>6, <1>7, <1>8

\* Every step keeps Bookkeeping.
LEMMA NextBookkeeping == TypeOK /\ OneRunner /\ Bookkeeping /\ [Next]_vars => Bookkeeping'
<1> SUFFICES ASSUME TypeOK, OneRunner, Bookkeeping, [Next]_vars PROVE Bookkeeping'
  OBVIOUS
<1>1. ASSUME NEW r \in Request, EnqueueFull(r) PROVE Bookkeeping'
  BY <1>1 DEF EnqueueFull, shared, Bookkeeping, NothingLost, StartsInOrder, CancelHitsItsTarget, TypeOK
<1>2. ASSUME NEW r \in Request, CancelRunning(r) PROVE Bookkeeping'
  BY <1>2 DEF CancelRunning, Bookkeeping, NothingLost, StartsInOrder, CancelHitsItsTarget, TypeOK
<1>3. ASSUME NEW w \in Runner, Clear(w) PROVE Bookkeeping'
  <2>1. running = task[w] /\ task[w] \in Request
    BY <1>3 DEF OneRunner, Busy, Clear
  <2>. QED
    BY <1>3, <2>1, QueueAssumption
       DEF Clear, Bookkeeping, NothingLost, StartsInOrder, CancelHitsItsTarget, TypeOK,
           QueueAssumption
<1>4. CASE Shutdown
  BY <1>4 DEF Shutdown, ghost, Bookkeeping, NothingLost, StartsInOrder, CancelHitsItsTarget
<1>5. ASSUME NEW w \in Runner,
             RunEnter(w) \/ RunRefused(w) \/ Wake(w) \/ Leave(w) \/ Exit(w)
             \/ Drained(w) \/ OnStart(w) \/ RunTask(w)
      PROVE Bookkeeping'
  BY <1>5 DEF RunEnter, RunRefused, Wake, Leave, Exit, Drained, OnStart, RunTask, shared, ghost,
              Bookkeeping, NothingLost, StartsInOrder, CancelHitsItsTarget
<1>6. CASE UNCHANGED vars
  BY <1>6 DEF vars, shared, ghost, Bookkeeping, NothingLost, StartsInOrder, CancelHitsItsTarget
<1>. QED
  BY <1>1, <1>2, <1>3, <1>4, <1>5, <1>6, EnqueueBookkeeping, CancelPendingBookkeeping,
     DequeueBookkeeping DEF Next, RunnerStep

\* The inductive invariant holds in every reachable state.
LEMMA Invariant == Spec => [](TypeOK /\ OneRunner /\ Bookkeeping)
BY InitTypeOK, NextTypeOK, InitOneRunner, NextOneRunner, InitBookkeeping, NextBookkeeping,
   PTL DEF Spec

\* Whatever callers and the worker do, an accepted request is in exactly one
\* place: waiting once in the queue, executing, or gone for a recorded reason.
THEOREM RequestsAreConserved == Spec => []NothingLost
<1>1. Bookkeeping => NothingLost
  BY DEF Bookkeeping
<1>. QED
  BY <1>1, Invariant, PTL

\* Requests are started in the order of their acceptance.
THEOREM RequestsStartInOrder == Spec => []StartsInOrder
<1>1. Bookkeeping => StartsInOrder
  BY DEF Bookkeeping
<1>. QED
  BY <1>1, Invariant, PTL

\* Cancel interrupts the request it names and no other.
THEOREM CancelIsPrecise == Spec => []CancelHitsItsTarget
<1>1. Bookkeeping => CancelHitsItsTarget
  BY DEF Bookkeeping
<1>. QED
  BY <1>1, Invariant, PTL

-----------------------------------------------------------------------------
\* Every step of the queue is a step of the serial executor or changes nothing
\* the executor's user can see.
LEMMA StepSimulation ==
  TypeOK /\ OneRunner /\ Bookkeeping /\ [Next]_vars
    => [Executor!ExecutorNext]_(Executor!executorVars)
<1> SUFFICES ASSUME TypeOK, OneRunner, Bookkeeping, [Next]_vars
             PROVE  Executor!ExecutorNext \/ UNCHANGED Executor!executorVars
  OBVIOUS
<1> USE DEF Executor!ExecutorNext
<1>0. Executor!Capacity = Capacity
  BY DEF Executor!Capacity, Capacity
<1>1. ASSUME NEW r \in Request, Enqueue(r) PROVE Executor!Accept(r)
  BY <1>0, <1>1 DEF Enqueue, Executor!Accept
<1>2. ASSUME NEW r \in Request, EnqueueFull(r) PROVE Executor!Refuse(r)
  BY <1>0, <1>2 DEF EnqueueFull, shared, Executor!Refuse
<1>3. ASSUME NEW r \in Request, CancelRunning(r) PROVE Executor!Interrupt(r)
  <2>1. runningCancel = r /\ r # None
    BY <1>3, QueueAssumption DEF CancelRunning, Bookkeeping, CancelHitsItsTarget, QueueAssumption
  <2>. QED
    BY <1>3, <2>1 DEF CancelRunning, Executor!Interrupt
<1>4. ASSUME NEW r \in Request, CancelPending(r) PROVE Executor!Withdraw(r)
  BY <1>4 DEF CancelPending, Executor!Withdraw, RemoveAt, Executor!RemoveAt
<1>5. ASSUME NEW w \in Runner, Dequeue(w) PROVE Executor!Begin
  <2>1. running = None
    BY <1>5 DEF OneRunner, Active, Draining, Busy, Dequeue
  <2>. QED
    BY <1>5, <2>1 DEF Dequeue, Executor!Begin
<1>6. ASSUME NEW w \in Runner, Clear(w) PROVE Executor!Finish
  <2>1. running = task[w] /\ running # None
    BY <1>6, QueueAssumption DEF OneRunner, Busy, Clear, QueueAssumption
  <2>. QED
    BY <1>6, <2>1 DEF Clear, Executor!Finish
<1>7. CASE Shutdown
  BY <1>7 DEF Shutdown, ghost, Executor!Close
<1>8. ASSUME NEW w \in Runner,
             RunEnter(w) \/ RunRefused(w) \/ Wake(w) \/ Leave(w) \/ Exit(w)
             \/ Drained(w) \/ OnStart(w) \/ RunTask(w)
      PROVE UNCHANGED Executor!executorVars
  BY <1>8 DEF RunEnter, RunRefused, Wake, Leave, Exit, Drained, OnStart, RunTask, shared, ghost,
              Executor!executorVars
<1>9. CASE UNCHANGED vars
  BY <1>9 DEF vars, shared, ghost, Executor!executorVars
<1>. QED
  BY <1>1, <1>2, <1>3, <1>4, <1>5, <1>6, <1>7, <1>8, <1>9 DEF Next, RunnerStep

\* The queue of the source keeps the safety part of what SerialExecutor promises.
THEOREM QueueImplementsExecutor == Spec => Executor!ExecutorSafety
<1>1. Init => Executor!ExecutorInit
  BY DEF Init, Executor!ExecutorInit
<1>. QED
  BY <1>1, Invariant, StepSimulation, PTL DEF Spec, Executor!ExecutorSafety

=============================================================================
