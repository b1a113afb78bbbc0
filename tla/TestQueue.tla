------------------------------ MODULE TestQueue ------------------------------
(***************************************************************************)
(* internal/application/queue.go: the single-threaded queue every           *)
(* measurement goes through.  Enqueue, Cancel and the worker goroutine      *)
(* share state under one mutex; each critical section is one action here.   *)
(* The goroutine that called Run sleeps in a select on its context and on   *)
(* notify, a channel that buffers one token; the token is what Enqueue      *)
(* wakes it with, so losing one leaves accepted tests waiting for ever.     *)
(***************************************************************************)
EXTENDS Integers, Sequences, SequencesExt

CONSTANTS
  Request,     \* identities of the requests (job ids, fresh UUIDs)
  Runner,      \* goroutines that call Run
  QueueLimit,  \* argument of NewTestQueue
  None         \* no request

ASSUME QueueAssumption ==
  /\ QueueLimit \in Int
  /\ None \notin Request

VARIABLES
  queue,         \* q.queue
  notify,        \* q.notify holds its token
  worker,        \* q.worker
  running,       \* q.runningID while q.running, else None
  runningCancel, \* the request whose context q.runningCancel cancels, or None
  cancelledCtx,  \* requests whose task context was cancelled by Cancel
  ctxDone,       \* the context given to Run is done
  pc,            \* where each goroutine is in Run
  task,          \* the request each goroutine dequeued (its local variable)
  fate,          \* history: what has become of each request
  asked,         \* history: requests somebody asked to cancel while they ran
  ticket,        \* history: order of acceptance of each request, from 1
  accepted,      \* history: number of requests accepted
  lastStarted    \* history: ticket of the request started last

shared == <<queue, notify, worker, running, runningCancel, cancelledCtx, ctxDone>>
local  == <<pc, task>>
ghost  == <<fate, asked, ticket, accepted, lastStarted>>
vars   == <<shared, local, ghost>>

Capacity == IF QueueLimit < 1 THEN 1 ELSE QueueLimit

Fate == {"new", "waiting", "started", "finished", "withdrawn", "refused"}

Busy == {"onstart", "task", "returned"}   \* Run holds a dequeued request
Draining == {"drain"} \union Busy         \* Run is inside its inner loop

Init ==
  /\ queue = <<>>
  /\ notify = FALSE
  /\ worker = FALSE
  /\ running = None
  /\ runningCancel = None
  /\ cancelledCtx = {}
  /\ ctxDone = FALSE
  /\ pc = [w \in Runner |-> "idle"]
  /\ task = [w \in Runner |-> None]
  /\ fate = [r \in Request |-> "new"]
  /\ asked = {}
  /\ ticket = [r \in Request |-> 0]
  /\ accepted = 0
  /\ lastStarted = 0

-----------------------------------------------------------------------------
(* Callers: Enqueue and Cancel, from HTTP handlers and the scheduler.        *)

EnqueueOverLimit(r) ==   \* mutant: the limit is compared with > instead of >=
  /\ fate[r] = "new"
  /\ Len(queue) <= Capacity
  /\ queue' = Append(queue, r)
  /\ notify' = TRUE
  /\ fate' = [fate EXCEPT ![r] = "waiting"]
  /\ ticket' = [ticket EXCEPT ![r] = accepted + 1]
  /\ accepted' = accepted + 1
  /\ UNCHANGED <<worker, running, runningCancel, cancelledCtx, ctxDone, local, asked, lastStarted>>

EnqueueUnbuffered(r) ==   \* mutant: a token is kept only if a select receives it at once
  /\ fate[r] = "new"
  /\ Len(queue) < Capacity
  /\ queue' = Append(queue, r)
  /\ notify' = (notify \/ \E w \in Runner : pc[w] = "select")
  /\ fate' = [fate EXCEPT ![r] = "waiting"]
  /\ ticket' = [ticket EXCEPT ![r] = accepted + 1]
  /\ accepted' = accepted + 1
  /\ UNCHANGED <<worker, running, runningCancel, cancelledCtx, ctxDone, local, asked, lastStarted>>

Enqueue(r) ==
  /\ fate[r] = "new"
  /\ Len(queue) < Capacity
  /\ queue' = Append(queue, r)
  /\ notify' = TRUE
  /\ fate' = [fate EXCEPT ![r] = "waiting"]
  /\ ticket' = [ticket EXCEPT ![r] = accepted + 1]
  /\ accepted' = accepted + 1
  /\ UNCHANGED <<worker, running, runningCancel, cancelledCtx, ctxDone, local, asked, lastStarted>>

EnqueueFull(r) ==
  /\ fate[r] = "new"
  /\ Len(queue) >= Capacity
  /\ fate' = [fate EXCEPT ![r] = "refused"]
  /\ UNCHANGED <<shared, local, asked, ticket, accepted, lastStarted>>

CancelRunningUnchecked(r) ==   \* mutant: Cancel does not compare the running id
  /\ running # None
  /\ cancelledCtx' = cancelledCtx \union ({runningCancel} \ {None})
  /\ asked' = asked \union {r}
  /\ UNCHANGED <<queue, notify, worker, running, runningCancel, ctxDone, local,
                 fate, ticket, accepted, lastStarted>>

CancelRunning(r) ==
  /\ running = r
  /\ cancelledCtx' = cancelledCtx \union ({runningCancel} \ {None})
  /\ asked' = asked \union {r}
  /\ UNCHANGED <<queue, notify, worker, running, runningCancel, ctxDone, local,
                 fate, ticket, accepted, lastStarted>>

CancelPendingCut(r) ==   \* mutant: the requests behind the removed one are cut off
  /\ running # r
  /\ \E i \in DOMAIN queue :
       /\ queue[i] = r
       /\ queue' = SubSeq(queue, 1, i - 1)
  /\ fate' = [fate EXCEPT ![r] = "withdrawn"]
  /\ UNCHANGED <<notify, worker, running, runningCancel, cancelledCtx, ctxDone, local,
                 asked, ticket, accepted, lastStarted>>

CancelPending(r) ==
  /\ running # r
  /\ \E i \in DOMAIN queue :
       /\ queue[i] = r
       /\ \A j \in 1 .. i-1 : queue[j] # r
       /\ queue' = RemoveAt(queue, i)
  /\ fate' = [fate EXCEPT ![r] = "withdrawn"]
  /\ UNCHANGED <<notify, worker, running, runningCancel, cancelledCtx, ctxDone, local,
                 asked, ticket, accepted, lastStarted>>

Shutdown ==   \* the process context is cancelled (signal or server error)
  /\ ~ctxDone
  /\ ctxDone' = TRUE
  /\ UNCHANGED <<queue, notify, worker, running, runningCancel, cancelledCtx, local, ghost>>

-----------------------------------------------------------------------------
(* The goroutine that called Run.                                            *)

RunEnterUnchecked(w) ==   \* mutant: a second Run is not turned away
  /\ pc[w] = "idle"
  /\ worker' = TRUE
  /\ pc' = [pc EXCEPT ![w] = "select"]
  /\ UNCHANGED <<queue, notify, running, runningCancel, cancelledCtx, ctxDone, task, ghost>>

RunEnter(w) ==
  /\ pc[w] = "idle"
  /\ ~worker
  /\ worker' = TRUE
  /\ pc' = [pc EXCEPT ![w] = "select"]
  /\ UNCHANGED <<queue, notify, running, runningCancel, cancelledCtx, ctxDone, task, ghost>>

RunRefused(w) ==
  /\ pc[w] = "idle"
  /\ worker
  /\ pc' = [pc EXCEPT ![w] = "exited"]
  /\ UNCHANGED <<shared, task, ghost>>

Wake(w) ==
  /\ pc[w] = "select"
  /\ notify
  /\ notify' = FALSE
  /\ pc' = [pc EXCEPT ![w] = "drain"]
  /\ UNCHANGED <<queue, worker, running, runningCancel, cancelledCtx, ctxDone, task, ghost>>

Leave(w) ==
  /\ pc[w] = "select"
  /\ ctxDone
  /\ pc' = [pc EXCEPT ![w] = "leaving"]
  /\ UNCHANGED <<shared, task, ghost>>

ExitHolding(w) ==   \* mutant: q.worker is not reset
  /\ pc[w] = "leaving"
  /\ pc' = [pc EXCEPT ![w] = "exited"]
  /\ UNCHANGED <<shared, task, ghost>>

Exit(w) ==   \* the deferred reset of q.worker
  /\ pc[w] = "leaving"
  /\ worker' = FALSE
  /\ pc' = [pc EXCEPT ![w] = "exited"]
  /\ UNCHANGED <<queue, notify, running, runningCancel, cancelledCtx, ctxDone, task, ghost>>

DequeueNewest(w) ==   \* mutant: the newest request is started
  /\ pc[w] = "drain"
  /\ queue # <<>>
  /\ queue' = Front(queue)
  /\ running' = Last(queue)
  /\ runningCancel' = Last(queue)
  /\ task' = [task EXCEPT ![w] = Last(queue)]
  /\ pc' = [pc EXCEPT ![w] = "onstart"]
  /\ fate' = [fate EXCEPT ![Last(queue)] = "started"]
  /\ lastStarted' = ticket[Last(queue)]
  /\ UNCHANGED <<notify, worker, cancelledCtx, ctxDone, asked, ticket, accepted>>

Dequeue(w) ==
  /\ pc[w] = "drain"
  /\ queue # <<>>
  /\ queue' = Tail(queue)
  /\ running' = Head(queue)
  /\ runningCancel' = Head(queue)
  /\ task' = [task EXCEPT ![w] = Head(queue)]
  /\ pc' = [pc EXCEPT ![w] = "onstart"]
  /\ fate' = [fate EXCEPT ![Head(queue)] = "started"]
  /\ lastStarted' = ticket[Head(queue)]
  /\ UNCHANGED <<notify, worker, cancelledCtx, ctxDone, asked, ticket, accepted>>

Drained(w) ==
  /\ pc[w] = "drain"
  /\ queue = <<>>
  /\ pc' = [pc EXCEPT ![w] = "select"]
  /\ UNCHANGED <<shared, task, ghost>>

OnStart(w) ==   \* request.OnStart()
  /\ pc[w] = "onstart"
  /\ pc' = [pc EXCEPT ![w] = "task"]
  /\ UNCHANGED <<shared, task, ghost>>

RunTask(w) ==   \* request.Run(taskCtx) returns, then cancel()
  /\ pc[w] = "task"
  /\ pc' = [pc EXCEPT ![w] = "returned"]
  /\ UNCHANGED <<shared, task, ghost>>

ClearOnePerToken(w) ==   \* mutant: one request per token instead of draining
  /\ pc[w] = "returned"
  /\ running' = None
  /\ runningCancel' = None
  /\ pc' = [pc EXCEPT ![w] = "select"]
  /\ task' = [task EXCEPT ![w] = None]
  /\ fate' = [fate EXCEPT ![task[w]] = "finished"]
  /\ UNCHANGED <<queue, notify, worker, cancelledCtx, ctxDone, asked, ticket, accepted, lastStarted>>

Clear(w) ==
  /\ pc[w] = "returned"
  /\ running' = None
  /\ runningCancel' = None
  /\ pc' = [pc EXCEPT ![w] = "drain"]
  /\ task' = [task EXCEPT ![w] = None]
  /\ fate' = [fate EXCEPT ![task[w]] = "finished"]
  /\ UNCHANGED <<queue, notify, worker, cancelledCtx, ctxDone, asked, ticket, accepted, lastStarted>>

-----------------------------------------------------------------------------
RunnerStep(w) ==
  \/ RunEnter(w) \/ RunRefused(w)
  \/ Wake(w) \/ Leave(w) \/ Exit(w)
  \/ Dequeue(w) \/ Drained(w)
  \/ OnStart(w) \/ RunTask(w) \/ Clear(w)

Next ==
  \/ \E r \in Request : Enqueue(r) \/ EnqueueFull(r) \/ CancelRunning(r) \/ CancelPending(r)
  \/ Shutdown
  \/ \E w \in Runner : RunnerStep(w)

Spec == Init /\ [][Next]_vars /\ \A w \in Runner : WF_vars(RunnerStep(w))

-----------------------------------------------------------------------------
(* Properties.                                                               *)

\* Every variable has its type, and the queue never grows beyond the limit
\* NewTestQueue was given (1 when it was given less).
TypeOK ==
  /\ queue \in Seq(Request)
  /\ Len(queue) <= Capacity
  /\ notify \in BOOLEAN
  /\ worker \in BOOLEAN
  /\ running \in Request \union {None}
  /\ runningCancel \in Request \union {None}
  /\ cancelledCtx \in SUBSET Request
  /\ ctxDone \in BOOLEAN
  /\ pc \in [Runner -> {"idle", "select", "leaving", "exited"} \union Draining]
  /\ task \in [Runner -> Request \union {None}]
  /\ fate \in [Request -> Fate]
  /\ asked \in SUBSET Request
  /\ ticket \in [Request -> Nat]
  /\ accepted \in Nat
  /\ lastStarted \in Nat

\* SDD 7.4.1: however many goroutines call Run, at most one request is being
\* executed, and Current, Snapshot and Cancel see that one.
SerialExecution ==
  /\ \A v, w \in Runner : pc[v] \in Busy /\ pc[w] \in Busy => v = w
  /\ \A w \in Runner : pc[w] \in Busy => running = task[w] /\ worker
  /\ running # None => \E w \in Runner : pc[w] \in Busy

\* An accepted request is in the queue, or executing, or has left by running to
\* its end or by being cancelled: no interleaving loses or duplicates one.
NothingLost ==
  /\ \A r \in Request : fate[r] = "waiting" <=> \E i \in DOMAIN queue : queue[i] = r
  /\ \A r \in Request : fate[r] = "started" <=> running = r
  /\ \A i, j \in DOMAIN queue : queue[i] = queue[j] => i = j

\* A goroutine is never left asleep in its select with work in the queue: the
\* token is there, or somebody is draining.
NoLostWakeup ==
  queue # <<>> => notify \/ \E w \in Runner : pc[w] \in Draining

\* Requests start in the order they were accepted, whatever was cancelled
\* between them.
StartsInOrder ==
  /\ \A i, j \in DOMAIN queue : i < j => ticket[queue[i]] < ticket[queue[j]]
  /\ \A i \in DOMAIN queue : lastStarted < ticket[queue[i]] /\ ticket[queue[i]] <= accepted

\* Cancel interrupts the request it names and no other: a context is cancelled
\* only for a request somebody asked to cancel, and the cancel function in q is
\* the running request's own.
CancelHitsItsTarget ==
  /\ cancelledCtx \subseteq asked
  /\ runningCancel = running

\* Every accepted request is eventually run to its end or withdrawn, unless the
\* process shuts down.
EventuallyServed ==
  \A r \in Request :
    fate[r] = "waiting" ~> fate[r] \in {"finished", "withdrawn"} \/ ctxDone

\* After a shutdown request the worker drains what it must and lets go of
\* q.worker, which is what the process waits for before it exits.
ShutdownCompletes ==
  ctxDone /\ worker ~> ~worker

(***************************************************************************)
(* The queue implements the serial executor: tokens, the worker flag and   *)
(* the position of the goroutine are internal.                             *)
(***************************************************************************)
Executor == INSTANCE SerialExecutor
              WITH waiting <- queue, current <- running, interrupted <- cancelledCtx,
                   closed <- ctxDone

ImplementsExecutor == Executor!ExecutorSpec

=============================================================================
