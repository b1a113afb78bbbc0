------------------------------ MODULE TestJobs ------------------------------
(***************************************************************************)
(* The life of a measurement job: internal/application/orchestrator.go,    *)
(* the submit and result functions of cmd/bagualu/main.go and the cancel   *)
(* and clear handlers of internal/transport/http/handlers_job.go, around   *)
(* the queue, which is taken here as the SerialExecutor that TestQueue     *)
(* implements.  Three kinds of actor share the job rows in SQLite and the  *)
(* orchestrator's map of live jobs: submitters, the queue's one worker,    *)
(* and HTTP handlers.  Each database call and each critical section is a   *)
(* step of its own.  Any database call may fail: a handler then ends its   *)
(* request, while the others ignore it and go on.                          *)
(***************************************************************************)
EXTENDS SerialExecutor

CONSTANTS
  Throughput,   \* requests that are download tests
  Ping,         \* requests that are ICMP tests; the others are connectivity tests
  Handler,      \* concurrent HTTP cancel/clear handlers
  Retry         \* TestJob.Retry

ASSUME JobsAssumption ==
  /\ Throughput \subseteq Request
  /\ Ping \subseteq Request \ Throughput
  /\ Retry \in Nat

VARIABLES
  rows,      \* status of each job's row in the jobs table, "absent" without one;
             \* "active" stands for pending, scheduled and running
  jobs,      \* o.jobs
  submit,    \* progress of each submission
  step,      \* what the worker does in the wrapped job
  attempt,   \* its attempt counter
  outcome,   \* its outcome and err
  observed,  \* o.baselineObserved
  ready,     \* o.baselineReady
  handler,   \* progress of each HTTP handler
  delivered, \* history: how often deliver was called for each job
  checks,    \* history: the checks passed in the current attempt
  streak,    \* history: baseline checks passed in a row since one failed (cap 2)
  overrun,   \* history: attempts begun by the current job after its cancellation
  unwritten  \* history: rows left active by a last write that failed

tables  == <<rows, jobs, submit, unwritten>>
work    == <<step, attempt, outcome, observed, ready>>
history == <<delivered, checks, streak, overrun>>
vars    == <<executorVars, tables, work, handler, history>>

Terminal == {"done", "succeeded", "failed", "cancelled"}

\* The task context of the running job is done.
Cancelled == closed \/ current \in interrupted

NoOutcome == [status |-> "none", success |-> FALSE, infra |-> FALSE, err |-> "none",
              evidence |-> FALSE, offline |-> FALSE]

\* An outcome that charges nobody: a check stopped the test.
Blocked(status) == [NoOutcome EXCEPT !.status = status, !.infra = TRUE]

\* UPDATE jobs ... WHERE id = r: no effect when the row is gone.
SetRow(r, status) ==
  rows' = [rows EXCEPT ![r] = IF @ = "absent" THEN @ ELSE status]

ActiveRows == {r \in Request : rows[r] = "active"}

\* The last write of a job's status by its submitter or by onResult, both of
\* which ignore its error.
SettleRow(r, status) ==
  \/ SetRow(r, status) /\ unwritten' = unwritten \ {r}
  \/ UNCHANGED rows /\ unwritten' = unwritten \union ({r} \intersect ActiveRows)

Idle == [pc |-> "idle", mode |-> "cancel", job |-> None, todo |-> {}]

Init ==
  /\ ExecutorInit
  /\ rows = [r \in Request |-> "absent"]
  /\ jobs = {}
  /\ submit = [r \in Request |-> "idle"]
  /\ step = "idle"
  /\ attempt = 0
  /\ outcome = NoOutcome
  /\ observed = FALSE
  /\ ready = FALSE
  /\ handler = [h \in Handler |-> Idle]
  /\ delivered = [r \in Request |-> 0]
  /\ checks = {}
  /\ streak = 2
  /\ overrun = 0
  /\ unwritten = {}

-----------------------------------------------------------------------------
(* Submission: testSubmitWithSource and Orchestrator.Submit.                 *)

SubmitSave(r) ==
  /\ submit[r] = "idle"
  /\ submit' = [submit EXCEPT ![r] = "saved"]
  /\ rows' = [rows EXCEPT ![r] = "active"]
  /\ UNCHANGED <<executorVars, jobs, work, handler, history, unwritten>>

SubmitNoSource(r) ==
  /\ submit[r] = "saved"
  /\ r \in Throughput
  /\ submit' = [submit EXCEPT ![r] = "over"]
  /\ SettleRow(r, "failed")
  /\ UNCHANGED <<executorVars, jobs, work, handler, history>>

SubmitRegister(r) ==
  /\ submit[r] = "saved"
  /\ submit' = [submit EXCEPT ![r] = "registered"]
  /\ jobs' = jobs \union {r}
  /\ UNCHANGED <<executorVars, rows, work, handler, history, unwritten>>

SubmitEnqueue(r) ==
  /\ submit[r] = "registered"
  /\ Accept(r)
  /\ submit' = [submit EXCEPT ![r] = "over"]
  /\ UNCHANGED <<rows, jobs, work, handler, history, unwritten>>

SubmitRefusedKept(r) ==   \* mutant: a refused job stays registered
  /\ submit[r] = "registered"
  /\ Refuse(r)
  /\ submit' = [submit EXCEPT ![r] = "refused"]
  /\ UNCHANGED <<rows, jobs, work, handler, history, unwritten>>

SubmitRefused(r) ==
  /\ submit[r] = "registered"
  /\ Refuse(r)
  /\ jobs' = jobs \ {r}
  /\ submit' = [submit EXCEPT ![r] = "refused"]
  /\ UNCHANGED <<rows, work, handler, history, unwritten>>

SubmitFailed(r) ==
  /\ submit[r] = "refused"
  /\ submit' = [submit EXCEPT ![r] = "over"]
  /\ SettleRow(r, "failed")
  /\ UNCHANGED <<executorVars, jobs, work, handler, history>>

Submitting(r) ==
  \/ SubmitNoSource(r) \/ SubmitRegister(r)
  \/ SubmitEnqueue(r) \/ SubmitRefused(r) \/ SubmitFailed(r)

-----------------------------------------------------------------------------
(* The worker: the function wrapJob returns, run by the queue.               *)

Goto(from, to) ==
  /\ step = from
  /\ step' = to

TakeNext ==
  /\ step = "idle"
  /\ Begin
  /\ step' = "onstart"
  /\ UNCHANGED <<tables, attempt, outcome, observed, ready, handler, history>>

OnStart ==
  /\ Goto("onstart", "baseline")
  /\ SetRow(current, "active") \/ UNCHANGED rows
  /\ UNCHANGED <<executorVars, jobs, submit, unwritten, attempt, outcome, observed, ready, handler,
                 history>>

\* History of one baseline check, whoever makes it.
Observe(available) ==
  streak' = IF available THEN (IF streak = 2 THEN 2 ELSE streak + 1) ELSE 0

\* Baseline.Check before the attempt.  The router's network can go down and come
\* back at any moment, so each check answers for its own moment only; a check
\* also fails when its context is cancelled, unless a reply came before that.
BaselineDown ==
  /\ Goto("baseline", "deliver")
  /\ outcome' = Blocked("paused")
  /\ observed' = TRUE
  /\ ready' = FALSE
  /\ checks' = {}
  /\ Observe(FALSE)
  /\ UNCHANGED <<executorVars, tables, attempt, handler, delivered, overrun>>

BaselineUp ==
  /\ step = "baseline"
  /\ step' = IF observed /\ ~ready THEN "recovery" ELSE "load"
  /\ observed' = TRUE
  /\ ready' = TRUE
  /\ checks' = {"before"}
  /\ Observe(TRUE)
  /\ UNCHANGED <<executorVars, tables, attempt, outcome, handler, delivered, overrun>>

RecoveryCancelled ==
  /\ Goto("recovery", "deliver")
  /\ Cancelled
  /\ outcome' = Blocked("cancelled")
  /\ UNCHANGED <<executorVars, tables, attempt, observed, ready, handler, history>>

RecoveryWaited ==   \* the one-second timer
  /\ Goto("recovery", "recheck")
  /\ UNCHANGED <<executorVars, tables, attempt, outcome, observed, ready, handler, history>>

RecheckDown ==
  /\ Goto("recheck", "deliver")
  /\ outcome' = Blocked("paused")
  /\ ready' = FALSE
  /\ checks' = {}
  /\ Observe(FALSE)
  /\ UNCHANGED <<executorVars, tables, attempt, observed, handler, delivered, overrun>>

RecheckUpUnproven ==   \* mutant: the second check of a recovery is not made
  /\ Goto("recheck", "load")
  /\ ready' = TRUE
  /\ UNCHANGED <<executorVars, tables, attempt, outcome, observed, handler, history>>

RecheckUp ==
  /\ Goto("recheck", "load")
  /\ ready' = TRUE
  /\ Observe(TRUE)
  /\ UNCHANGED <<executorVars, tables, attempt, outcome, observed, handler,
                 delivered, checks, overrun>>

\* guard.Check, for download tests only.
LoadBlocks ==
  /\ Goto("load", "deliver")
  /\ current \in Throughput
  /\ outcome' = Blocked("scheduled")
  /\ UNCHANGED <<executorVars, tables, attempt, observed, ready, handler, history>>

LoadClean ==
  /\ Goto("load", "source")
  /\ current \in Throughput
  /\ checks' = checks \union {"load"}
  /\ UNCHANGED <<executorVars, tables, attempt, outcome, observed, ready, handler,
                 delivered, streak, overrun>>

LoadNotNeeded ==
  /\ Goto("load", "run")
  /\ current \notin Throughput
  /\ overrun' = IF current \in interrupted THEN overrun + 1 ELSE overrun
  /\ UNCHANGED <<executorVars, tables, attempt, outcome, observed, ready, handler,
                 delivered, checks, streak>>

SourceDown ==
  /\ Goto("source", "deliver")
  /\ outcome' = Blocked("scheduled")
  /\ UNCHANGED <<executorVars, tables, attempt, observed, ready, handler, history>>

SourceUp ==
  /\ Goto("source", "run")
  /\ checks' = checks \union {"source"}
  /\ overrun' = IF current \in interrupted THEN overrun + 1 ELSE overrun
  /\ UNCHANGED <<executorVars, tables, attempt, outcome, observed, ready, handler,
                 delivered, streak>>

\* job.Run: it may succeed with or without evidence of the route taken, of which
\* a ping has none, fail, or notice the cancelled context.  A killed ping is an
\* ordinary error.
RunSucceeds ==
  /\ Goto("run", "after")
  /\ \E evidence \in BOOLEAN :
       /\ current \in Ping => ~evidence
       /\ outcome' = [NoOutcome EXCEPT !.status = "succeeded", !.success = TRUE, !.evidence = evidence]
  /\ UNCHANGED <<executorVars, tables, attempt, observed, ready, handler, history>>

RunFails ==
  /\ Goto("run", "retry")
  /\ \E offline \in BOOLEAN :   \* the router's own network is down at that moment
       outcome' = [NoOutcome EXCEPT !.status = "failed", !.err = "error", !.offline = offline]
  /\ UNCHANGED <<executorVars, tables, attempt, observed, ready, handler, history>>

RunCancelled ==
  /\ Goto("run", "deliver")
  /\ Cancelled
  /\ current \notin Ping
  /\ outcome' = [NoOutcome EXCEPT !.status = "failed", !.err = "canceled"]
  /\ UNCHANGED <<executorVars, tables, attempt, observed, ready, handler, history>>

\* The baseline check after a run without error, then the contention check,
\* which download tests make whatever the baseline said.
AfterDownIgnored ==   \* mutant: the baseline is noted but the outcome is kept
  /\ step = "after"
  /\ step' = IF current \in Throughput THEN "contention" ELSE "deliver"
  /\ observed' = TRUE
  /\ ready' = FALSE
  /\ Observe(FALSE)
  /\ UNCHANGED <<executorVars, tables, attempt, outcome, handler, delivered,
                 checks, overrun>>

AfterDown ==
  /\ step = "after"
  /\ step' = IF current \in Throughput THEN "contention" ELSE "deliver"
  /\ observed' = TRUE
  /\ ready' = FALSE
  /\ outcome' = [outcome EXCEPT !.status = "paused", !.success = FALSE, !.infra = TRUE]
  /\ Observe(FALSE)
  /\ UNCHANGED <<executorVars, tables, attempt, handler, delivered,
                 checks, overrun>>

AfterUp ==
  /\ step = "after"
  /\ step' = IF current \in Throughput THEN "contention" ELSE "deliver"
  /\ observed' = TRUE
  /\ ready' = TRUE
  /\ checks' = checks \union {"after"}
  /\ Observe(TRUE)
  /\ UNCHANGED <<executorVars, tables, attempt, outcome, handler, delivered, overrun>>

Contended ==
  /\ Goto("contention", "deliver")
  /\ outcome' = [outcome EXCEPT !.status = "scheduled", !.success = FALSE, !.infra = TRUE]
  /\ UNCHANGED <<executorVars, tables, attempt, observed, ready, handler, history>>

Uncontended ==
  /\ Goto("contention", "deliver")
  /\ checks' = checks \union {"contention"}
  /\ UNCHANGED <<executorVars, tables, attempt, outcome, observed, ready, handler,
                 delivered, streak, overrun>>

\* After an error: give up, or back off.  A cancelled context ends the loop; when
\* it is cancelled as the timer fires, select may take either branch.
RetryExhausted ==
  /\ Goto("retry", "deliver")
  /\ attempt >= Retry
  /\ UNCHANGED <<executorVars, tables, attempt, outcome, observed, ready, handler, history>>

RetryInterrupted ==
  /\ Goto("retry", "deliver")
  /\ attempt < Retry
  /\ Cancelled
  /\ \E err \in {"canceled", "error"} : outcome' = [outcome EXCEPT !.err = err]
  /\ UNCHANGED <<executorVars, tables, attempt, observed, ready, handler, history>>

RetryAgainDeaf ==   \* mutant: the context is not looked at between attempts
  /\ Goto("retry", "baseline")
  /\ attempt < Retry
  /\ attempt' = attempt + 1
  /\ UNCHANGED <<executorVars, tables, outcome, observed, ready, handler, history>>

RetryAgainUncounted ==   \* mutant: the attempt is not counted
  /\ Goto("retry", "baseline")
  /\ attempt < Retry
  /\ ~Cancelled
  /\ UNCHANGED <<executorVars, tables, attempt, outcome, observed, ready, handler, history>>

RetryAgainOnceMore ==   \* mutant: Retry counts retries from one too few
  /\ Goto("retry", "baseline")
  /\ attempt <= Retry
  /\ ~Cancelled
  /\ attempt' = attempt + 1
  /\ UNCHANGED <<executorVars, tables, outcome, observed, ready, handler, history>>

RetryAgain ==
  /\ Goto("retry", "baseline")
  /\ attempt < Retry
  /\ ~Cancelled
  /\ attempt' = attempt + 1
  /\ UNCHANGED <<executorVars, tables, outcome, observed, ready, handler, history>>

\* validateOutcome: connectivity and download tests need evidence of the route.
Valid(r, o) == r \in Ping \/ o.evidence

\* What the end of wrapJob makes of outcome and err.
Judged(r, o) ==
  CASE o.err = "canceled" -> [o EXCEPT !.status = "cancelled", !.success = FALSE, !.infra = TRUE]
    [] o.err = "error"    -> [o EXCEPT !.success = FALSE]
    [] OTHER              -> [o EXCEPT !.success = @ /\ Valid(r, o)]

\* deliver: the job leaves o.jobs, and onResult saves its measurement; unless the
\* outcome is infrastructure, the node's health and score are changed by it.
Deliver ==
  /\ Goto("deliver", "record")
  /\ outcome' = Judged(current, outcome)
  /\ jobs' = jobs \ {current}
  /\ delivered' = [delivered EXCEPT ![current] = @ + 1]
  /\ UNCHANGED <<executorVars, rows, submit, unwritten, attempt, observed, ready, handler,
                 checks, streak, overrun>>

FinalStatus(o) ==
  CASE o.status = "cancelled"                           -> "cancelled"
    [] o.status \in {"paused", "scheduled"} /\ o.infra  -> "done"
    [] o.status \in {"paused", "scheduled"} /\ ~o.infra -> "active"
    [] OTHER                                            -> IF o.success THEN "succeeded" ELSE "failed"

\* the end of onResult, and of the queue's loop body
Record ==
  /\ Goto("record", "idle")
  /\ SettleRow(current, FinalStatus(outcome))
  /\ Finish
  /\ outcome' = NoOutcome
  /\ attempt' = 0
  /\ checks' = {}
  /\ overrun' = 0
  /\ UNCHANGED <<jobs, submit, observed, ready, handler, delivered, streak>>

Measuring ==
  \/ OnStart
  \/ BaselineDown \/ BaselineUp \/ RecoveryCancelled \/ RecoveryWaited \/ RecheckDown \/ RecheckUp
  \/ LoadBlocks \/ LoadClean \/ LoadNotNeeded \/ SourceDown \/ SourceUp
  \/ RunSucceeds \/ RunFails \/ RunCancelled
  \/ AfterDown \/ AfterUp \/ Contended \/ Uncontended
  \/ RetryExhausted \/ RetryInterrupted \/ RetryAgain
  \/ Deliver \/ Record

-----------------------------------------------------------------------------
(* HTTP handlers: POST /jobs/{id}/cancel and POST /jobs/clear.               *)

Move(h, from, to) ==
  /\ handler[h].pc = from
  /\ handler' = [handler EXCEPT ![h].pc = to]

\* FindByID, and the refusal of jobs that are terminal.
CancelJob(h, r) ==
  /\ handler[h].pc = "idle"
  /\ rows[r] = "active"
  /\ handler' = [handler EXCEPT ![h] = [Idle EXCEPT !.pc = "lookup", !.job = r]]
  /\ UNCHANGED <<executorVars, tables, work, history>>

\* FindActive.
ClearJobs(h) ==
  /\ handler[h].pc = "idle"
  /\ handler' = [handler EXCEPT ![h] =
       [pc |-> "next", mode |-> "clear", job |-> None, todo |-> ActiveRows]]
  /\ UNCHANGED <<executorVars, tables, work, history>>

ClearNext(h) ==
  /\ handler[h].pc = "next"
  /\ \E r \in handler[h].todo :
       handler' = [handler EXCEPT ![h].pc = "lookup", ![h].job = r, ![h].todo = @ \ {r}]
  /\ UNCHANGED <<executorVars, tables, work, history>>

ClearDone(h) ==
  /\ handler[h].pc = "next"
  /\ handler[h].todo = {}
  /\ handler' = [handler EXCEPT ![h] = Idle]
  /\ \/ UNCHANGED <<rows, unwritten>>
     \/ rows' = [r \in Request |-> "absent"] /\ unwritten' = {}   \* purge=true: DeleteAll
  /\ UNCHANGED <<executorVars, jobs, submit, work, history>>

\* Orchestrator.Cancel: the map, then the queue, each under its own lock.
LookupHit(h) ==
  /\ Move(h, "lookup", "cancel")
  /\ handler[h].job \in jobs
  /\ UNCHANGED <<executorVars, tables, work, history>>

LookupMiss(h) ==
  /\ Move(h, "lookup", "missed")
  /\ handler[h].job \notin jobs
  /\ UNCHANGED <<executorVars, tables, work, history>>

CancelRunningDelivers(h) ==   \* mutant: a running job is delivered as cancelled as well
  /\ Move(h, "cancel", "deliver")
  /\ Interrupt(handler[h].job)
  /\ UNCHANGED <<tables, work, history>>

CancelRunning(h) ==
  /\ Move(h, "cancel", "found")
  /\ Interrupt(handler[h].job)
  /\ UNCHANGED <<tables, work, history>>

CancelPending(h) ==
  /\ Move(h, "cancel", "deliver")
  /\ Withdraw(handler[h].job)
  /\ UNCHANGED <<tables, work, history>>

CancelTooLate(h) ==
  /\ Move(h, "cancel", "missed")
  /\ current # handler[h].job
  /\ \A i \in DOMAIN waiting : waiting[i] # handler[h].job
  /\ UNCHANGED <<executorVars, tables, work, history>>

CancelDeliver(h) ==
  /\ Move(h, "deliver", "record")
  /\ jobs' = jobs \ {handler[h].job}
  /\ delivered' = [delivered EXCEPT ![handler[h].job] = @ + 1]
  /\ UNCHANGED <<executorVars, rows, submit, unwritten, work, checks, streak, overrun>>

CancelRecord(h) ==
  /\ Move(h, "record", "found")
  /\ SettleRow(handler[h].job, "cancelled")
  /\ UNCHANGED <<executorVars, jobs, submit, work, history>>

\* What the handlers do with Orchestrator.Cancel's answer.  cancelJob overwrites
\* the row when the job was not found; clearJobs overwrites it unless it reads it
\* as terminal, also when it cannot read it.  The request ends when UpdateStatus
\* fails, as it does for a row that is gone.
CancelAnswered(h) ==
  /\ handler[h].pc = "found"
  /\ handler[h].mode = "cancel"
  /\ handler' = [handler EXCEPT ![h] = Idle]
  /\ UNCHANGED <<executorVars, tables, work, history>>

CancelMissed(h) ==
  /\ Move(h, "missed", "overwrite")
  /\ handler[h].mode = "cancel"
  /\ UNCHANGED <<executorVars, tables, work, history>>

ClearSettled(h) ==
  /\ handler[h].pc \in {"found", "missed"}
  /\ handler[h].mode = "clear"
  /\ rows[handler[h].job] \in Terminal
  /\ handler' = [handler EXCEPT ![h] = [@ EXCEPT !.pc = "next", !.job = None]]
  /\ UNCHANGED <<executorVars, tables, work, history>>

ClearUnsettled(h) ==
  /\ handler[h].pc \in {"found", "missed"}
  /\ handler[h].mode = "clear"
  /\ handler' = [handler EXCEPT ![h].pc = "overwrite"]
  /\ UNCHANGED <<executorVars, tables, work, history>>

Overwrite(h) ==
  /\ handler[h].pc = "overwrite"
  /\ \/ /\ SetRow(handler[h].job, "cancelled")
        /\ unwritten' = unwritten \ {handler[h].job}
        /\ handler' = [handler EXCEPT ![h] =
                         IF handler[h].mode = "clear" /\ rows[handler[h].job] # "absent"
                         THEN [@ EXCEPT !.pc = "next", !.job = None] ELSE Idle]
     \/ /\ UNCHANGED <<rows, unwritten>>
        /\ handler' = [handler EXCEPT ![h] = Idle]
  /\ UNCHANGED <<executorVars, jobs, submit, work, history>>

Handling(h) ==
  \/ ClearNext(h) \/ ClearDone(h)
  \/ LookupHit(h) \/ LookupMiss(h)
  \/ CancelRunning(h) \/ CancelPending(h) \/ CancelTooLate(h)
  \/ CancelDeliver(h) \/ CancelRecord(h)
  \/ CancelAnswered(h) \/ CancelMissed(h) \/ ClearSettled(h) \/ ClearUnsettled(h)
  \/ Overwrite(h)

-----------------------------------------------------------------------------
(* The environment: shutdown, crash and restart.       *)

Shutdown ==
  /\ Close
  /\ UNCHANGED <<tables, work, handler, history>>

RowsAfterStartKept(deleted, settled) ==   \* mutant: active rows of the previous process are left alone
  [r \in Request |-> IF rows[r] = "active" \/ ~deleted THEN rows[r] ELSE "absent"]

\* DeleteInactive, then CancelOrphanedActive, as far as they succeed.
RowsAfterStart(deleted, settled) ==
  [r \in Request |-> IF rows[r] = "active"
                     THEN (IF settled THEN "cancelled" ELSE rows[r])
                     ELSE (IF deleted THEN "absent" ELSE rows[r])]

\* The process ends at any point and is started again; only the rows survive.
Restart ==
  /\ waiting' = <<>>
  /\ current' = None
  /\ interrupted' = {}
  /\ fate' = [r \in Request |-> IF fate[r] \in {"waiting", "started"} THEN "withdrawn" ELSE fate[r]]
  /\ closed' = FALSE
  /\ \E deleted, settled \in BOOLEAN :
       /\ rows' = RowsAfterStart(deleted, settled)
       /\ unwritten' = IF settled THEN {} ELSE ActiveRows
  /\ jobs' = {}
  /\ submit' = [r \in Request |-> IF submit[r] = "idle" THEN "idle" ELSE "over"]
  /\ step' = "idle"
  /\ attempt' = 0
  /\ outcome' = NoOutcome
  /\ observed' = FALSE
  /\ ready' = FALSE
  /\ handler' = [h \in Handler |-> Idle]
  /\ checks' = {}
  /\ streak' = 2
  /\ overrun' = 0
  /\ UNCHANGED delivered

Next ==
  \/ \E r \in Request : SubmitSave(r) \/ Submitting(r)
  \/ TakeNext
  \/ Measuring
  \/ \E h \in Handler : ClearJobs(h) \/ Handling(h) \/ \E r \in Request : CancelJob(h, r)
  \/ Shutdown \/ Restart

(***************************************************************************)
(* Goroutines that have something to do are scheduled; nobody has to       *)
(* submit, cancel, shut down or restart.                                   *)
(***************************************************************************)
Fairness ==
  /\ \A r \in Request : WF_vars(Submitting(r))
  /\ WF_vars(~closed /\ TakeNext)
  /\ WF_vars(Measuring)
  /\ \A h \in Handler : WF_vars(Handling(h))

Spec == Init /\ [][Next]_vars /\ Fairness

-----------------------------------------------------------------------------
(* Properties.                                                               *)

Steps == {"idle", "onstart", "baseline", "recovery", "recheck", "load", "source", "run",
          "after", "contention", "retry", "deliver", "record"}

\* Every variable has its type; a job is attempted at most Retry + 1 times.
TypeOK ==
  /\ waiting \in Seq(Request) /\ Len(waiting) <= Capacity
  /\ current \in Request \union {None}
  /\ interrupted \subseteq Request
  /\ fate \in [Request -> Fate]
  /\ closed \in BOOLEAN
  /\ rows \in [Request -> {"active"} \union Terminal \union {"absent"}]
  /\ jobs \subseteq Request
  /\ submit \in [Request -> {"idle", "saved", "registered", "refused", "over"}]
  /\ step \in Steps
  /\ attempt \in 0 .. Retry
  /\ outcome.status \in {"none", "succeeded", "failed", "paused", "scheduled", "cancelled"}
  /\ \A h \in Handler : handler[h].job \in Request \union {None} /\ handler[h].todo \subseteq Request
  /\ <<observed, ready>> \in BOOLEAN \X BOOLEAN
  /\ streak \in 0 .. 2
  /\ unwritten \subseteq Request

\* A row that shows a job as pending or running is owned by somebody who will
\* settle it: its submitter, the queue, the worker or a handler that has just
\* withdrawn it.  No interleaving of them, and no restart, leaves a row active in
\* a list where the job can no longer run, but where that last write, or the
\* clean-up at a start, has failed; nobody repeats it.
NoOrphanRows ==
  \A r \in Request : rows[r] = "active" =>
    \/ submit[r] \in {"saved", "registered", "refused"}
    \/ fate[r] \in {"waiting", "started"}
    \/ \E h \in Handler : handler[h].job = r /\ handler[h].pc \in {"deliver", "record"}
    \/ r \in unwritten

\* A job reports one result: cancelling a job that waits and cancelling one that
\* runs never lead to two measurements, and a job that ended has one.
DeliveredOnce ==
  \A r \in Request :
    /\ delivered[r] <= 1
    /\ fate[r] = "finished" => delivered[r] = 1

\* Cancel can find a job from the moment the queue holds it until its result is
\* delivered, and no longer than that.
CancellableUntilDelivered ==
  \A r \in Request :
    r \in jobs <=>
      \/ submit[r] = "registered"
      \/ fate[r] = "waiting"
      \/ current = r /\ step # "record"
      \/ \E h \in Handler : handler[h].job = r /\ handler[h].pc = "deliver"

Required(r) ==
  {"before", "after"} \union (IF r \in Throughput THEN {"load", "source", "contention"} ELSE {})

\* SDD 7.4.2 and 7.4.3: a result counts for a node only when the attempt that
\* produced it passed the checks made before it, and counts as a success only
\* when it also passed the checks made after it and shows the route it took.
CountedResultsAreChecked ==
  step = "record" /\ ~outcome.infra =>
    /\ Required(current) \ {"after", "contention"} \subseteq checks
    /\ outcome.success => Required(current) \subseteq checks /\ Valid(current, outcome)

\* SDD 7.4.2: after a failed baseline check no measurement starts before two
\* checks in a row have succeeded, whatever was cancelled or retried in between.
RecoveryConfirmed ==
  step = "run" => streak = 2

\* A cancelled job stops within its current attempt: its measurement starts at
\* most once after the cancellation was accepted.
CancellationStopsAttempts ==
  overrun <= 1

\* Every row that is pending or running reaches a final status (or is purged),
\* unless the process is shutting down or the write of that status fails.
RowsSettle ==
  \A r \in Request : rows[r] = "active" ~> rows[r] # "active" \/ closed \/ r \in unwritten

-----------------------------------------------------------------------------
(* Statements of the documents that the code does not keep.                  *)

\* domain/job.go: a terminal status is a final state.
TerminalIsFinal ==
  [][\A r \in Request : rows[r] \in Terminal => rows'[r] \in {rows[r], "absent"}]_vars

\* SDD 7.4.2: a test during which the router's own network fails is not counted
\* against the node.
OutageNotBlamed ==
  step = "record" /\ outcome.offline => outcome.infra

=============================================================================
