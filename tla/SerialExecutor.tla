--------------------------- MODULE SerialExecutor ---------------------------
(***************************************************************************)
(* What the single-threaded test queue of bagualu promises to the code     *)
(* that uses it (internal/application/queue.go, SDD 7.4.1): requests are   *)
(* accepted up to a capacity, started one at a time and in the order they  *)
(* were accepted, and a request leaves the queue exactly once: it runs to  *)
(* its end, or it is withdrawn before it starts.  There is no worker, no   *)
(* channel and no lock here; TestQueue has them and is shown to implement  *)
(* this module.  TestJobs is built on this module.                         *)
(***************************************************************************)
EXTENDS Integers, Sequences, SequencesExt

CONSTANTS
  Request,     \* identities of the requests (job ids, fresh UUIDs)
  QueueLimit,  \* the limit the queue is created with
  None         \* no request is being executed

ASSUME ExecutorAssumption ==
  /\ QueueLimit \in Int
  /\ None \notin Request

VARIABLES
  waiting,     \* accepted requests that have not started, oldest first
  current,     \* the request being executed, or None
  interrupted, \* requests whose context was cancelled while they ran
  fate,        \* what has become of each request
  closed       \* the context the executor runs under is done

executorVars == <<waiting, current, interrupted, fate, closed>>

Capacity == IF QueueLimit < 1 THEN 1 ELSE QueueLimit

Fate == {"new", "waiting", "started", "finished", "withdrawn", "refused"}

ExecutorInit ==
  /\ waiting = <<>>
  /\ current = None
  /\ interrupted = {}
  /\ fate = [r \in Request |-> "new"]
  /\ closed = FALSE

Accept(r) ==
  /\ fate[r] = "new"
  /\ Len(waiting) < Capacity
  /\ waiting' = Append(waiting, r)
  /\ fate' = [fate EXCEPT ![r] = "waiting"]
  /\ UNCHANGED <<current, interrupted, closed>>

Refuse(r) ==
  /\ fate[r] = "new"
  /\ Len(waiting) >= Capacity
  /\ fate' = [fate EXCEPT ![r] = "refused"]
  /\ UNCHANGED <<waiting, current, interrupted, closed>>

Begin ==
  /\ current = None
  /\ waiting # <<>>
  /\ current' = Head(waiting)
  /\ waiting' = Tail(waiting)
  /\ fate' = [fate EXCEPT ![Head(waiting)] = "started"]
  /\ UNCHANGED <<interrupted, closed>>

Finish ==
  /\ current # None
  /\ current' = None
  /\ fate' = [fate EXCEPT ![current] = "finished"]
  /\ UNCHANGED <<waiting, interrupted, closed>>

Interrupt(r) ==
  /\ current = r
  /\ interrupted' = interrupted \union {r}
  /\ UNCHANGED <<waiting, current, fate, closed>>

Withdraw(r) ==
  /\ current # r
  /\ \E i \in DOMAIN waiting :
       /\ waiting[i] = r
       /\ waiting' = RemoveAt(waiting, i)
  /\ fate' = [fate EXCEPT ![r] = "withdrawn"]
  /\ UNCHANGED <<current, interrupted, closed>>

Close ==
  /\ ~closed
  /\ closed' = TRUE
  /\ UNCHANGED <<waiting, current, interrupted, fate>>

ExecutorNext ==
  \/ \E r \in Request : Accept(r) \/ Refuse(r) \/ Interrupt(r) \/ Withdraw(r)
  \/ Begin
  \/ Finish
  \/ Close

\* The safety part of the promise, without fairness.
ExecutorSafety == ExecutorInit /\ [][ExecutorNext]_executorVars

(***************************************************************************)
(* Until the executor is closed a waiting request is eventually started;   *)
(* a started one always comes to its end, because every test the program   *)
(* runs is bounded by timeouts.                                            *)
(***************************************************************************)
ExecutorSpec ==
  /\ ExecutorSafety
  /\ WF_executorVars(~closed /\ Begin)
  /\ WF_executorVars(Finish)

=============================================================================
