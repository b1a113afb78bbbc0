--------------------------- MODULE TestJobsProofs ---------------------------
(***************************************************************************)
(* Proofs about TestJobs for any requests, handlers, retries and restarts. *)
(* The layers: types; what the executor knows of each request; how often a *)
(* job was delivered; from these who finds a job and who owns its row; and,*)
(* apart from all that, what the worker has checked.                       *)
(***************************************************************************)
EXTENDS TestJobs, SequenceTheorems, TLAPS

OutcomeType ==
  [status : {"none", "succeeded", "failed", "paused", "scheduled", "cancelled"}, success : BOOLEAN,
   infra : BOOLEAN, err : {"none", "error", "canceled"}, evidence : BOOLEAN, offline : BOOLEAN]

HandlerType ==
  [pc : {"idle", "next", "lookup", "cancel", "missed", "found", "deliver", "record", "overwrite"},
   mode : {"cancel", "clear"}, job : Request \union {None}, todo : SUBSET Request]

QueueTyped ==
  /\ waiting \in Seq(Request) /\ Len(waiting) <= Capacity
  /\ current \in Request \union {None}
  /\ interrupted \subseteq Request
  /\ fate \in [Request -> Fate]
  /\ closed \in BOOLEAN

TablesTyped ==
  /\ rows \in [Request -> {"active"} \union Terminal \union {"absent"}]
  /\ jobs \subseteq Request
  /\ submit \in [Request -> {"idle", "saved", "registered", "refused", "over"}]
  /\ delivered \in [Request -> Nat]
  /\ unwritten \subseteq Request

\* The worker has a request exactly while it is at work.
WorkTyped ==
  /\ step \in Steps
  /\ step = "idle" <=> current = None
  /\ attempt \in 0 .. Retry
  /\ outcome \in OutcomeType
  /\ observed \in BOOLEAN /\ ready \in BOOLEAN
  /\ streak \in 0 .. 2

\* A handler has one while it is about it.
HandlersTyped ==
  /\ handler \in [Handler -> HandlerType]
  /\ \A h \in Handler : handler[h].pc \notin {"idle", "next"} => handler[h].job \in Request

Typed == QueueTyped /\ TablesTyped /\ WorkTyped /\ HandlersTyped

-----------------------------------------------------------------------------
(* Sequences.                                                               *)

\* Deleting position i moves the later elements down by one.
LEMMA Removed ==
  ASSUME NEW S, NEW s \in Seq(S), NEW i \in 1 .. Len(s)
  PROVE  /\ RemoveAt(s, i) \in Seq(S)
         /\ Len(RemoveAt(s, i)) = Len(s) - 1
         /\ \A j \in 1 .. Len(s) - 1 :
              RemoveAt(s, i)[j] = IF j < i THEN s[j] ELSE s[j + 1]
<1> DEFINE front == SubSeq(s, 1, i - 1)
           back  == SubSeq(s, i + 1, Len(s))
<1>1. Len(s) \in Nat /\ \A j \in 1 .. Len(s) : s[j] \in S
  BY LenProperties, ElementOfSeq
<1>2. front \in Seq(S) /\ Len(front) = i - 1 /\ \A j \in 1 .. i - 1 : front[j] = s[j]
  <2>1. \A j \in 1 .. i - 1 : s[j] \in S
    BY <1>1
  <2>2. /\ front \in Seq(S)
        /\ Len(front) = IF 1 <= i - 1 THEN (i - 1) - 1 + 1 ELSE 0
        /\ \A j \in 1 .. (i - 1) - 1 + 1 : front[j] = s[1 + j - 1]
    BY <1>1, <2>1, SubSeqProperties
  <2>3. QED
    BY <1>1, <2>2
<1>3. back \in Seq(S) /\ Len(back) = Len(s) - i /\ \A j \in 1 .. Len(s) - i : back[j] = s[i + j]
  <2>1. \A j \in i + 1 .. Len(s) : s[j] \in S
    BY <1>1
  <2>2. /\ back \in Seq(S)
        /\ Len(back) = IF i + 1 <= Len(s) THEN Len(s) - (i + 1) + 1 ELSE 0
        /\ \A j \in 1 .. Len(s) - (i + 1) + 1 : back[j] = s[(i + 1) + j - 1]
    BY <1>1, <2>1, SubSeqProperties
  <2>3. QED
    BY <1>1, <2>2
<1>4. RemoveAt(s, i) = front \o back
  BY DEF RemoveAt
<1> HIDE DEF front, back
<1>5. /\ front \o back \in Seq(S)
      /\ Len(front \o back) = Len(front) + Len(back)
      /\ \A j \in 1 .. Len(front) + Len(back) :
           (front \o back)[j] = IF j <= Len(front) THEN front[j] ELSE back[j - Len(front)]
  BY <1>2, <1>3, ConcatProperties
<1>6. QED
  BY <1>1, <1>2, <1>3, <1>4, <1>5

-----------------------------------------------------------------------------
(* Types.                                                                   *)

LEMMA WaitingTyped ==
  ASSUME QueueTyped, Begin \/ \E r \in Request : Accept(r) \/ Withdraw(r)
  PROVE  waiting' \in Seq(Request) /\ Len(waiting') <= Capacity
<1>1. Len(waiting) \in Nat /\ Capacity \in Nat /\ Capacity >= 1
  BY LenProperties, ExecutorAssumption DEF QueueTyped, Capacity, ExecutorAssumption
<1>2. CASE Begin
  <2>1. waiting' \in Seq(Request) /\ Len(waiting') = Len(waiting) - 1
    BY <1>2, HeadTailProperties DEF Begin, QueueTyped
  <2>2. QED
    BY <1>1, <2>1 DEF QueueTyped
<1>3. ASSUME NEW r \in Request, Accept(r)
      PROVE  waiting' \in Seq(Request) /\ Len(waiting') <= Capacity
  <2>1. waiting' \in Seq(Request) /\ Len(waiting') = Len(waiting) + 1
    BY <1>3, AppendProperties DEF Accept, QueueTyped
  <2>2. QED
    BY <1>1, <1>3, <2>1 DEF Accept
<1>4. ASSUME NEW r \in Request, Withdraw(r)
      PROVE  waiting' \in Seq(Request) /\ Len(waiting') <= Capacity
  <2>1. PICK i \in 1 .. Len(waiting) : waiting' = RemoveAt(waiting, i)
    BY <1>4, LenProperties DEF Withdraw, QueueTyped
  <2>2. waiting' \in Seq(Request) /\ Len(waiting') = Len(waiting) - 1
    BY <2>1, Removed DEF QueueTyped
  <2>3. QED
    BY <1>1, <2>2 DEF QueueTyped
<1>5. QED
  BY <1>2, <1>3, <1>4

\* The steps of the executor keep its types.
LEMMA QueueKept ==
  ASSUME QueueTyped,
         \/ Begin \/ Finish \/ Close \/ UNCHANGED executorVars
         \/ \E r \in Request : Accept(r) \/ Refuse(r) \/ Withdraw(r) \/ Interrupt(r)
  PROVE  QueueTyped'
<1> USE DEF Capacity, Fate
<1>1. CASE Begin
  <2>1. Head(waiting) \in Request
    BY <1>1, HeadTailProperties DEF Begin, QueueTyped
  <2>2. QED
    BY <1>1, <2>1, WaitingTyped DEF Begin, QueueTyped
<1>2. ASSUME NEW r \in Request, Accept(r) \/ Withdraw(r)
      PROVE  QueueTyped'
  BY <1>2, WaitingTyped DEF Accept, Withdraw, QueueTyped
<1>3. ASSUME NEW r \in Request, Refuse(r) \/ Interrupt(r)
      PROVE  QueueTyped'
  BY <1>3 DEF Refuse, Interrupt, QueueTyped
<1>4. CASE Finish \/ Close \/ UNCHANGED executorVars
  BY <1>4 DEF Finish, Close, executorVars, QueueTyped
<1>5. QED
  BY <1>1, <1>2, <1>3, <1>4

\* What the outcome can be.
LEMMA OutcomesTyped ==
  /\ NoOutcome \in OutcomeType
  /\ \A s \in {"paused", "scheduled", "cancelled"} : Blocked(s) \in OutcomeType
  /\ \A o \in OutcomeType :
       /\ \A s \in {"paused", "scheduled"} :
            [o EXCEPT !.status = s, !.success = FALSE, !.infra = TRUE] \in OutcomeType
       /\ \A e \in {"canceled", "error"} : [o EXCEPT !.err = e] \in OutcomeType
       /\ \A r : Judged(r, o) \in OutcomeType
<1>1. NoOutcome \in OutcomeType
  BY DEF NoOutcome, OutcomeType
<1>2. ASSUME NEW o \in OutcomeType, NEW r
      PROVE  Judged(r, o) \in OutcomeType
  <2>1. Valid(r, o) \in BOOLEAN
    BY DEF Valid, OutcomeType
  <2>2. [o EXCEPT !.success = @ /\ Valid(r, o)] \in OutcomeType
    BY <2>1 DEF OutcomeType
  <2>3. /\ [o EXCEPT !.status = "cancelled", !.success = FALSE, !.infra = TRUE] \in OutcomeType
        /\ [o EXCEPT !.success = FALSE] \in OutcomeType
    BY DEF OutcomeType
  <2>4. QED
    BY <2>2, <2>3 DEF Judged
<1>3. \A s \in {"paused", "scheduled", "cancelled"} : Blocked(s) \in OutcomeType
  BY <1>1 DEF Blocked, OutcomeType
<1>4. ASSUME NEW o \in OutcomeType
      PROVE  /\ \A s \in {"paused", "scheduled"} :
                  [o EXCEPT !.status = s, !.success = FALSE, !.infra = TRUE] \in OutcomeType
             /\ \A e \in {"canceled", "error"} : [o EXCEPT !.err = e] \in OutcomeType
  BY DEF OutcomeType
<1>5. QED
  BY <1>1, <1>2, <1>3, <1>4

LEMMA RunOutcomesTyped ==
  /\ \A e \in BOOLEAN :
       [NoOutcome EXCEPT !.status = "succeeded", !.success = TRUE, !.evidence = e] \in OutcomeType
  /\ \A e \in BOOLEAN :
       [NoOutcome EXCEPT !.status = "failed", !.err = "error", !.offline = e] \in OutcomeType
  /\ [NoOutcome EXCEPT !.status = "failed", !.err = "canceled"] \in OutcomeType
BY DEF NoOutcome, OutcomeType

LEMMA ObserveTyped ==
  ASSUME streak \in 0 .. 2, NEW a \in BOOLEAN, Observe(a)
  PROVE  streak' \in 0 .. 2
BY DEF Observe

LEMMA CapacityTyped == Capacity \in Nat /\ Capacity >= 1
BY ExecutorAssumption DEF ExecutorAssumption, Capacity

LEMMA NoOutcomeTyped == NoOutcome \in OutcomeType
BY OutcomesTyped

LEMMA FinalStatusTyped ==
  ASSUME NEW o
  PROVE  FinalStatus(o) \in {"active"} \union Terminal
BY DEF FinalStatus, Terminal

LEMMA InitTyped == Init => Typed
<1> SUFFICES ASSUME Init PROVE Typed
  OBVIOUS
<1>1. waiting \in Seq(Request) /\ Len(waiting) = 0
  BY EmptySeq DEF Init, ExecutorInit
<1>2. QueueTyped
  <2>1. Len(waiting) <= Capacity
    BY <1>1, CapacityTyped
  <2>2. QED
    BY <1>1, <2>1 DEF Init, ExecutorInit, QueueTyped, Fate
<1>3. TablesTyped
  BY DEF Init, TablesTyped
<1>4. WorkTyped
  <2>1. step \in Steps /\ (step = "idle" <=> current = None)
    BY DEF Init, ExecutorInit, Steps
  <2>2. attempt \in 0 .. Retry
    BY JobsAssumption DEF Init, JobsAssumption
  <2>3. streak \in 0 .. 2
    BY DEF Init
  <2>4. observed \in BOOLEAN /\ ready \in BOOLEAN /\ outcome \in OutcomeType
    BY NoOutcomeTyped DEF Init
  <2>5. QED
    BY <2>1, <2>2, <2>3, <2>4 DEF WorkTyped
<1>5. HandlersTyped
  BY DEF Init, HandlersTyped, HandlerType, Idle
<1>6. QED
  BY <1>2, <1>3, <1>4, <1>5 DEF Typed

LEMMA SubmittingTyped ==
  ASSUME Typed, NEW r \in Request, SubmitSave(r) \/ Submitting(r)
  PROVE  Typed'
<1> USE DEF Typed
<1>1. QueueTyped'
  BY QueueKept DEF Submitting, SubmitSave, SubmitNoSource, SubmitRegister, SubmitEnqueue,
     SubmitRefused, SubmitFailed
<1>2. TablesTyped'
  BY DEF Submitting, SubmitSave, SubmitNoSource, SubmitRegister, SubmitEnqueue, SubmitRefused,
     SubmitFailed, TablesTyped, SettleRow, SetRow, Terminal, history
<1>3. UNCHANGED <<work, handler, streak, current>>
  BY DEF Submitting, SubmitSave, SubmitNoSource, SubmitRegister, SubmitEnqueue, SubmitRefused,
     SubmitFailed, Accept, Refuse, executorVars, history
<1>4. WorkTyped' /\ HandlersTyped'
  BY <1>3 DEF work, WorkTyped, HandlersTyped
<1>5. QED
  BY <1>1, <1>2, <1>4

LEMMA MeasuringTyped ==
  ASSUME Typed, TakeNext \/ Measuring
  PROVE  Typed'
<1> USE DEF Typed
<1>1. QueueTyped' /\ HandlersTyped'
  <2>1. (Begin \/ Finish \/ UNCHANGED executorVars) /\ UNCHANGED handler
    BY DEF TakeNext, Measuring, OnStart, BaselineDown, BaselineUp, RecoveryCancelled,
       RecoveryWaited, RecheckDown, RecheckUp, LoadBlocks, LoadClean, LoadNotNeeded, SourceDown,
       SourceUp, RunSucceeds, RunFails, RunCancelled, AfterDown, AfterUp, Contended, Uncontended,
       RetryExhausted, RetryInterrupted, RetryAgain, Deliver, Record
  <2>2. QED
    BY <2>1, QueueKept DEF HandlersTyped
<1>2. CASE TakeNext
  <2>1. current' \in Request
    BY <1>2, HeadTailProperties DEF TakeNext, Begin, QueueTyped
  <2>2. WorkTyped'
    BY <1>2, <2>1, ExecutorAssumption DEF TakeNext, WorkTyped, Steps, history, ExecutorAssumption
  <2>3. TablesTyped'
    BY <1>2 DEF TakeNext, TablesTyped, tables, history
  <2>4. QED
    BY <1>1, <2>2, <2>3
<1>3. CASE OnStart
  <2>1. TablesTyped'
    BY <1>3 DEF OnStart, TablesTyped, SettleRow, SetRow, history
  <2>2. WorkTyped'
    BY <1>3 DEF OnStart, WorkTyped, Goto, Steps, history, executorVars
  <2>3. QED
    BY <1>1, <2>1, <2>2
<1>4. CASE Deliver
  <2>1. current \in Request
    BY <1>4 DEF Deliver, Goto, WorkTyped, QueueTyped
  <2>2. TablesTyped'
    BY <1>4, <2>1 DEF Deliver, TablesTyped
  <2>3. WorkTyped'
    BY <1>4, OutcomesTyped DEF Deliver, WorkTyped, Goto, Steps, executorVars
  <2>4. QED
    BY <1>1, <2>2, <2>3
<1>5. CASE Record
  <2>1. TablesTyped'
    BY <1>5, FinalStatusTyped DEF Record, TablesTyped, SettleRow, SetRow, ActiveRows
  <2>2. WorkTyped'
    BY <1>5, NoOutcomeTyped, JobsAssumption DEF Record, Finish, WorkTyped, Goto, Steps, JobsAssumption
  <2>3. QED
    BY <1>1, <2>1, <2>2
<1>6. CASE UNCHANGED tables /\ UNCHANGED executorVars /\ UNCHANGED delivered /\ Measuring
  <2>1. TablesTyped'
    BY <1>6 DEF TablesTyped, tables
  <2>2. streak' \in 0 .. 2
    <3>1. UNCHANGED streak \/ \E a \in BOOLEAN : Observe(a)
      BY <1>6 DEF Measuring, OnStart, BaselineDown, BaselineUp, RecoveryCancelled, RecoveryWaited,
         RecheckDown, RecheckUp, LoadBlocks, LoadClean, LoadNotNeeded, SourceDown, SourceUp,
         RunSucceeds, RunFails, RunCancelled, AfterDown, AfterUp, Contended, Uncontended,
         RetryExhausted, RetryInterrupted, RetryAgain, Deliver, Record, history
    <3>2. QED
      BY <3>1, ObserveTyped DEF WorkTyped
  <2>3. observed' \in BOOLEAN /\ ready' \in BOOLEAN
    BY <1>6 DEF Measuring, OnStart, BaselineDown, BaselineUp, RecoveryCancelled, RecoveryWaited,
       RecheckDown, RecheckUp, LoadBlocks, LoadClean, LoadNotNeeded, SourceDown, SourceUp,
       RunSucceeds, RunFails, RunCancelled, AfterDown, AfterUp, Contended, Uncontended,
       RetryExhausted, RetryInterrupted, RetryAgain, Deliver, Record, WorkTyped
  <2>8. attempt' \in 0 .. Retry \/ Record
    <3>1. UNCHANGED attempt \/ RetryAgain \/ Record
      BY <1>6 DEF Measuring, OnStart, BaselineDown, BaselineUp, RecoveryCancelled, RecoveryWaited,
         RecheckDown, RecheckUp, LoadBlocks, LoadClean, LoadNotNeeded, SourceDown, SourceUp,
         RunSucceeds, RunFails, RunCancelled, AfterDown, AfterUp, Contended, Uncontended,
         RetryExhausted, RetryInterrupted, Deliver
    <3>2. QED
      BY <3>1, JobsAssumption DEF RetryAgain, WorkTyped, JobsAssumption
  <2>4. step # "idle" /\ (step' \in Steps \ {"idle"} \/ Record)
    BY <1>6 DEF Measuring, OnStart, BaselineDown, BaselineUp, RecoveryCancelled, RecoveryWaited,
       RecheckDown, RecheckUp, LoadBlocks, LoadClean, LoadNotNeeded, SourceDown, SourceUp,
       RunSucceeds, RunFails, RunCancelled, AfterDown, AfterUp, Contended, Uncontended,
       RetryExhausted, RetryInterrupted, RetryAgain, Deliver, Goto, Steps, Record
  <2>5. outcome' \in OutcomeType
    BY <1>6, OutcomesTyped, RunOutcomesTyped
       DEF Measuring, OnStart, BaselineDown, BaselineUp, RecoveryCancelled, RecoveryWaited,
       RecheckDown, RecheckUp, LoadBlocks, LoadClean, LoadNotNeeded, SourceDown, SourceUp,
       RunSucceeds, RunFails, RunCancelled, AfterDown, AfterUp, Contended, Uncontended,
       RetryExhausted, RetryInterrupted, RetryAgain, Deliver, Record, WorkTyped
  <2>6. WorkTyped' \/ Record
    BY <1>6, <2>2, <2>3, <2>4, <2>5, <2>8 DEF WorkTyped, executorVars
  <2>7. QED
    BY <1>1, <1>5, <2>1, <2>6
<1>7. QED
  BY <1>2, <1>3, <1>4, <1>5, <1>6
     DEF Measuring, BaselineDown, BaselineUp, RecoveryCancelled, RecoveryWaited,
       RecheckDown, RecheckUp, LoadBlocks, LoadClean, LoadNotNeeded, SourceDown, SourceUp,
       RunSucceeds, RunFails, RunCancelled, AfterDown, AfterUp, Contended, Uncontended,
       RetryExhausted, RetryInterrupted, RetryAgain, history

\* A handler that changes its place, and its job only with its place.
LEMMA HandlerKept ==
  ASSUME HandlersTyped, NEW h \in Handler, NEW new \in HandlerType,
         handler' = [handler EXCEPT ![h] = new],
         new.pc \notin {"idle", "next"} => new.job \in Request
  PROVE  HandlersTyped'
BY DEF HandlersTyped

LEMMA HandlingTyped ==
  ASSUME Typed, NEW h \in Handler,
         ClearJobs(h) \/ Handling(h) \/ \E r \in Request : CancelJob(h, r)
  PROVE  Typed'
<1> USE DEF Typed
<1>1. handler[h] \in HandlerType
  BY DEF HandlersTyped
<1>2. HandlersTyped'
  <2>1. ASSUME NEW r \in Request, CancelJob(h, r)
        PROVE  HandlersTyped'
    <3>1. [Idle EXCEPT !.pc = "lookup", !.job = r] \in HandlerType
      BY DEF Idle, HandlerType
    <3>2. [Idle EXCEPT !.pc = "lookup", !.job = r].job = r
      BY DEF Idle
    <3>3. QED
      BY <2>1, <3>1, <3>2, HandlerKept DEF CancelJob
  <2>2. CASE ClearJobs(h)
    <3> DEFINE new == [pc |-> "next", mode |-> "clear", job |-> None,
                       todo |-> ActiveRows]
    <3>1. new \in HandlerType /\ new.pc = "next"
      BY DEF HandlerType, ActiveRows
    <3>2. handler' = [handler EXCEPT ![h] = new]
      BY <2>2 DEF ClearJobs
    <3>3. QED
      BY <3>1, <3>2, HandlerKept
  <2>3. CASE ClearNext(h)
    <3>1. PICK r \in handler[h].todo :
            handler' = [handler EXCEPT ![h].pc = "lookup", ![h].job = r, ![h].todo = @ \ {r}]
      BY <2>3 DEF ClearNext
    <3> DEFINE new == [handler[h] EXCEPT !.pc = "lookup", !.job = r, !.todo = @ \ {r}]
    <3>2. r \in Request /\ new \in HandlerType /\ new.job = r
      BY <1>1 DEF HandlerType
    <3>3. handler' = [handler EXCEPT ![h] = new]
      BY <3>1 DEF HandlersTyped
    <3>4. QED
      BY <3>2, <3>3, HandlerKept
  <2>4. ASSUME handler' = [handler EXCEPT ![h] = Idle]
        PROVE  HandlersTyped'
    <3>1. Idle \in HandlerType /\ Idle.pc = "idle"
      BY DEF Idle, HandlerType
    <3>2. QED
      BY <2>4, <3>1, HandlerKept
  <2>5. ASSUME handler' = [handler EXCEPT ![h] = [@ EXCEPT !.pc = "next", !.job = None]]
        PROVE  HandlersTyped'
    <3> DEFINE new == [handler[h] EXCEPT !.pc = "next", !.job = None]
    <3>1. new \in HandlerType /\ new.pc = "next"
      BY <1>1 DEF HandlerType
    <3>2. handler' = [handler EXCEPT ![h] = new]
      BY <2>5
    <3>3. QED
      BY <3>1, <3>2, HandlerKept
  <2>6. ASSUME handler[h].pc \notin {"idle", "next"},
               NEW pc \in {"cancel", "missed", "found", "deliver", "record", "overwrite"},
               handler' = [handler EXCEPT ![h].pc = pc]
        PROVE  HandlersTyped'
    <3> DEFINE new == [handler[h] EXCEPT !.pc = pc]
    <3>1. new \in HandlerType /\ new.job = handler[h].job
      BY <1>1 DEF HandlerType
    <3>2. handler[h].job \in Request
      BY <2>6 DEF HandlersTyped
    <3>3. handler' = [handler EXCEPT ![h] = new]
      BY <2>6
    <3>4. QED
      BY <3>1, <3>2, <3>3, HandlerKept
  <2>7. CASE ClearDone(h) \/ CancelAnswered(h) \/ ClearSettled(h) \/ Overwrite(h)
    BY <2>4, <2>5, <2>7 DEF ClearDone, CancelAnswered, ClearSettled, Overwrite
  <2>8. CASE LookupHit(h) \/ LookupMiss(h) \/ CancelRunning(h) \/ CancelPending(h)
             \/ CancelTooLate(h) \/ CancelDeliver(h) \/ CancelRecord(h) \/ CancelMissed(h)
             \/ ClearUnsettled(h)
    BY <2>6, <2>8 DEF LookupHit, LookupMiss, CancelRunning, CancelPending, CancelTooLate,
       CancelDeliver, CancelRecord, CancelMissed, ClearUnsettled, Move
  <2>9. QED
    BY <2>1, <2>2, <2>3, <2>7, <2>8 DEF Handling
<1>3. QueueTyped'
  <2>1. (CancelRunning(h) \/ CancelPending(h)) => handler[h].job \in Request
    BY DEF CancelRunning, CancelPending, Move, HandlersTyped
  <2>2. \/ UNCHANGED executorVars
        \/ \E r \in Request : Withdraw(r) \/ Interrupt(r)
    BY <2>1 DEF ClearJobs, CancelJob, Handling, ClearNext, ClearDone, LookupHit, LookupMiss,
       CancelRunning, CancelPending, CancelTooLate, CancelDeliver, CancelRecord, CancelAnswered,
       CancelMissed, ClearSettled, ClearUnsettled, Overwrite
  <2>3. QED
    BY <2>2, QueueKept
<1>4. TablesTyped'
  <2>1. CASE CancelDeliver(h)
    BY <2>1 DEF CancelDeliver, Move, TablesTyped, HandlersTyped
  <2>2. CASE ClearDone(h) \/ CancelRecord(h) \/ Overwrite(h)
    BY <2>2 DEF ClearDone, CancelRecord, Overwrite, SettleRow, SetRow, ActiveRows, TablesTyped, Terminal, history
  <2>3. CASE UNCHANGED <<tables, delivered>>
    BY <2>3 DEF TablesTyped, tables
  <2>4. QED
    BY <2>1, <2>2, <2>3 DEF ClearJobs, CancelJob, Handling, ClearNext, LookupHit, LookupMiss,
       CancelRunning, CancelPending, CancelTooLate, CancelAnswered, CancelMissed, ClearSettled,
       ClearUnsettled, history
<1>5. WorkTyped'
  <2>1. UNCHANGED <<work, streak, current>>
    BY DEF ClearJobs, CancelJob, Handling, ClearNext, ClearDone, LookupHit, LookupMiss,
       CancelRunning, CancelPending, CancelTooLate, CancelDeliver, CancelRecord, CancelAnswered,
       CancelMissed, ClearSettled, ClearUnsettled, Overwrite, Interrupt, Withdraw, executorVars,
       history
  <2>2. QED
    BY <2>1 DEF WorkTyped, work
<1>6. QED
  BY <1>2, <1>3, <1>4, <1>5

LEMMA RestartTyped ==
  ASSUME Typed, Restart
  PROVE  Typed'
<1> USE DEF Typed
<1>1. waiting' \in Seq(Request) /\ Len(waiting') = 0
  BY EmptySeq DEF Restart
<1>2. QueueTyped'
  <2>1. Len(waiting') <= Capacity'
    BY <1>1, CapacityTyped DEF Capacity
  <2>2. QED
    BY <1>1, <2>1 DEF Restart, QueueTyped, Fate
<1>3. TablesTyped'
  BY DEF Restart, RowsAfterStart, TablesTyped, ActiveRows, Terminal
<1>4. WorkTyped'
  <2>1. step' \in Steps /\ (step' = "idle" <=> current' = None)
    BY DEF Restart, Steps
  <2>2. attempt' \in 0 .. Retry
    BY JobsAssumption DEF Restart, JobsAssumption
  <2>3. streak' \in 0 .. 2
    BY DEF Restart
  <2>4. observed' \in BOOLEAN /\ ready' \in BOOLEAN /\ outcome' \in OutcomeType
    BY NoOutcomeTyped DEF Restart
  <2>5. QED
    BY <2>1, <2>2, <2>3, <2>4 DEF WorkTyped
<1>5. HandlersTyped'
  BY DEF Restart, HandlersTyped, HandlerType, Idle
<1>6. QED
  BY <1>2, <1>3, <1>4, <1>5

LEMMA NextTyped ==
  ASSUME Typed, [Next]_vars
  PROVE  Typed'
<1>1. CASE Shutdown \/ UNCHANGED vars
  <2>1. QueueTyped'
    BY <1>1, QueueKept DEF Shutdown, vars, Typed
  <2>2. UNCHANGED <<tables, work, handler, delivered, streak, current>>
    BY <1>1 DEF Shutdown, Close, vars, history, executorVars
  <2>3. QED
    BY <2>1, <2>2 DEF Typed, TablesTyped, WorkTyped, HandlersTyped, tables, work
<1>2. QED
  BY <1>1, SubmittingTyped, MeasuringTyped, HandlingTyped, RestartTyped DEF Next

\* Every variable has its type, and no job is attempted too often.
THEOREM TypeCorrect == Spec => []TypeOK
<1>1. Typed => TypeOK
  BY DEF Typed, QueueTyped, TablesTyped, WorkTyped, HandlersTyped, TypeOK, OutcomeType, HandlerType
<1>2. QED
  BY <1>1, InitTyped, NextTyped, PTL DEF Spec
-----------------------------------------------------------------------------
(* What the executor knows of each request.                                 *)

\* A request waits in one place, executes alone, and is new while submitted.
Fates ==
  /\ \A i \in 1 .. Len(waiting) : fate[waiting[i]] = "waiting"
  /\ \A i, j \in 1 .. Len(waiting) : waiting[i] = waiting[j] => i = j
  /\ \A r \in Request : fate[r] = "started" <=> current = r
  /\ \A r \in Request : submit[r] \in {"idle", "saved", "registered"} => fate[r] = "new"

LEMMA AcceptFates ==
  ASSUME Typed, Fates, NEW r \in Request, SubmitEnqueue(r)
  PROVE  Fates'
<1>1. /\ Len(waiting') = Len(waiting) + 1 /\ Len(waiting) \in Nat
      /\ \A i \in 1 .. Len(waiting) : waiting'[i] = waiting[i] /\ waiting[i] \in Request
      /\ waiting'[Len(waiting) + 1] = r
  BY AppendProperties, LenProperties, ElementOfSeq
     DEF SubmitEnqueue, Accept, Typed, QueueTyped
<1>2. fate[r] = "new" /\ \A q \in Request : fate'[q] = IF q = r THEN "waiting" ELSE fate[q]
  BY DEF SubmitEnqueue, Accept, Typed, QueueTyped
<1>3. (\A i \in 1 .. Len(waiting) : fate[waiting[i]] = "waiting")'
  BY <1>1, <1>2 DEF Fates
<1>4. (\A i, j \in 1 .. Len(waiting) : waiting[i] = waiting[j] => i = j)'
  BY <1>1, <1>2 DEF Fates
<1>5. UNCHANGED current /\ submit' = [submit EXCEPT ![r] = "over"]
  BY DEF SubmitEnqueue, Accept
<1>6. QED
  BY <1>2, <1>3, <1>4, <1>5 DEF Fates, Typed, TablesTyped

LEMMA TakeFates ==
  ASSUME Typed, Fates, TakeNext
  PROVE  Fates'
<1>1. /\ Len(waiting') = Len(waiting) - 1 /\ Len(waiting) \in Nat \ {0}
      /\ \A i \in 1 .. Len(waiting) - 1 : waiting'[i] = waiting[i + 1]
      /\ \A i \in 1 .. Len(waiting) : waiting[i] \in Request
      /\ current' = waiting[1]
  BY HeadTailProperties, LenProperties, ElementOfSeq, EmptySeq
     DEF TakeNext, Begin, Typed, QueueTyped
<1>2. /\ fate[waiting[1]] = "waiting"
      /\ \A q \in Request : fate'[q] = IF q = waiting[1] THEN "started" ELSE fate[q]
  BY <1>1, HeadTailProperties DEF TakeNext, Begin, Typed, QueueTyped, Fates
<1>3. (\A i \in 1 .. Len(waiting) : fate[waiting[i]] = "waiting")'
  BY <1>1, <1>2 DEF Fates
<1>4. (\A i, j \in 1 .. Len(waiting) : waiting[i] = waiting[j] => i = j)'
  BY <1>1 DEF Fates
<1>5. current = None /\ UNCHANGED submit
  BY DEF TakeNext, Begin, tables
<1>6. QED
  BY <1>1, <1>2, <1>3, <1>4, <1>5, ExecutorAssumption DEF Fates, ExecutorAssumption

LEMMA WithdrawFates ==
  ASSUME Typed, Fates, NEW r \in Request, Withdraw(r), UNCHANGED submit
  PROVE  /\ Fates'
         /\ fate[r] = "waiting"
         /\ fate' = [fate EXCEPT ![r] = "withdrawn"]
<1>1. Len(waiting) \in Nat /\ \A i \in 1 .. Len(waiting) : waiting[i] \in Request
  BY LenProperties, ElementOfSeq DEF Typed, QueueTyped
<1>2. PICK i \in 1 .. Len(waiting) : waiting[i] = r /\ waiting' = RemoveAt(waiting, i)
  BY LenProperties DEF Withdraw, Typed, QueueTyped
<1>3. /\ Len(waiting') = Len(waiting) - 1
      /\ \A j \in 1 .. Len(waiting) - 1 : waiting'[j] = IF j < i THEN waiting[j] ELSE waiting[j + 1]
  BY <1>2, Removed DEF Typed, QueueTyped
<1>4. fate[r] = "waiting" /\ \A q \in Request : fate'[q] = IF q = r THEN "withdrawn" ELSE fate[q]
  BY <1>2 DEF Withdraw, Typed, QueueTyped, Fates
<1>5. (\A j \in 1 .. Len(waiting) : fate[waiting[j]] = "waiting")'
  BY <1>1, <1>2, <1>3, <1>4 DEF Fates
<1>6. (\A j, k \in 1 .. Len(waiting) : waiting[j] = waiting[k] => j = k)'
  BY <1>1, <1>2, <1>3 DEF Fates
<1>7. QED
  BY <1>4, <1>5, <1>6 DEF Fates, Withdraw

LEMMA NextFates ==
  ASSUME Typed, Fates, [Next]_vars
  PROVE  Fates'
<1>1. ASSUME UNCHANGED <<waiting, fate, current, submit>>
      PROVE  Fates'
  BY <1>1 DEF Fates
<1>2. ASSUME NEW r \in Request, SubmitSave(r) \/ Submitting(r)
      PROVE  Fates'
  <2>1. CASE SubmitSave(r) \/ SubmitNoSource(r) \/ SubmitRegister(r) \/ SubmitFailed(r)
    BY <2>1 DEF SubmitSave, SubmitNoSource, SubmitRegister, SubmitFailed, executorVars, Fates, Typed,
       TablesTyped
  <2>2. CASE SubmitRefused(r)
    <3>1. /\ fate' = [fate EXCEPT ![r] = "refused"] /\ submit' = [submit EXCEPT ![r] = "refused"]
          /\ fate[r] = "new" /\ UNCHANGED <<waiting, current>>
      BY <2>2 DEF SubmitRefused, Refuse
    <3>2. \A i \in 1 .. Len(waiting) : waiting[i] \in Request
      BY LenProperties, ElementOfSeq DEF Typed, QueueTyped
    <3>3. QED
      BY <3>1, <3>2 DEF Fates, Typed, TablesTyped, QueueTyped
  <2>3. QED
    BY <1>2, <2>1, <2>2, AcceptFates DEF Submitting
<1>3. CASE Record
  <2>1. /\ fate' = [fate EXCEPT ![current] = "finished"] /\ current \in Request /\ current' = None
        /\ UNCHANGED <<waiting, submit>>
    BY <1>3 DEF Record, Finish, Typed, QueueTyped
  <2>2. \A i \in 1 .. Len(waiting) : waiting[i] \in Request
    BY LenProperties, ElementOfSeq DEF Typed, QueueTyped
  <2>3. QED
    BY <2>1, <2>2, ExecutorAssumption DEF Fates, Typed, QueueTyped, ExecutorAssumption
<1>4. CASE Measuring
  <2>1. Record \/ UNCHANGED <<waiting, fate, current, submit>>
    BY <1>4 DEF Measuring, OnStart, BaselineDown, BaselineUp, RecoveryCancelled, RecoveryWaited,
       RecheckDown, RecheckUp, LoadBlocks, LoadClean, LoadNotNeeded, SourceDown, SourceUp,
       RunSucceeds, RunFails, RunCancelled, AfterDown, AfterUp, Contended, Uncontended,
       RetryExhausted, RetryInterrupted, RetryAgain, Deliver, tables, executorVars
  <2>2. QED
    BY <1>1, <1>3, <2>1
<1>5. ASSUME NEW h \in Handler,
             ClearJobs(h) \/ Handling(h) \/ \E r \in Request : CancelJob(h, r)
      PROVE  Fates'
  <2>1. CASE CancelPending(h)
    <3>1. handler[h].job \in Request /\ Withdraw(handler[h].job) /\ UNCHANGED submit
      BY <2>1 DEF CancelPending, Move, Typed, HandlersTyped, tables
    <3>2. QED
      BY <3>1, WithdrawFates
  <2>2. CancelPending(h) \/ UNCHANGED <<waiting, fate, current, submit>>
    BY <1>5 DEF ClearJobs, CancelJob, Handling, ClearNext, ClearDone, LookupHit, LookupMiss,
       CancelRunning, CancelTooLate, CancelDeliver, CancelRecord, CancelAnswered,
       CancelMissed, ClearSettled, ClearUnsettled, Overwrite, Interrupt, executorVars, tables
  <2>3. QED
    BY <1>1, <2>1, <2>2
<1>6. CASE Restart
  <2>1. Len(waiting') = 0 /\ current' = None
    BY <1>6, EmptySeq DEF Restart
  <2>2. \A r \in Request : fate'[r] \notin {"started", "waiting"}
    BY <1>6 DEF Restart
  <2>3. \A r \in Request : submit'[r] = "idle" => submit[r] = "idle"
    BY <1>6 DEF Restart
  <2>4. \A r \in Request : submit'[r] \in {"idle", "over"} /\ (fate[r] = "new" => fate'[r] = "new")
    BY <1>6 DEF Restart
  <2>5. QED
    BY <2>1, <2>2, <2>3, <2>4, ExecutorAssumption DEF Fates, ExecutorAssumption
<1>7. CASE Shutdown \/ UNCHANGED vars
  BY <1>1, <1>7 DEF Shutdown, Close, vars, tables, executorVars
<1>8. QED
  BY <1>2, <1>4, <1>5, <1>6, <1>7, TakeFates DEF Next
-----------------------------------------------------------------------------
(* How often a job is delivered, and where it is found.                     *)

\* Handler h has withdrawn r and is at pc.
Holding(h, r, pc) == handler[h].pc = pc /\ handler[h].job = r

SameHeld ==
  \A h \in Handler, r \in Request, pc \in {"deliver", "record"} : Holding(h, r, pc)' <=> Holding(h, r, pc)

\* A handler that withdraws nothing and delivers nothing.
HandlerAside(h) ==
  \/ ClearJobs(h) \/ (\E r \in Request : CancelJob(h, r))
  \/ ClearNext(h) \/ ClearDone(h) \/ LookupHit(h) \/ LookupMiss(h) \/ CancelRunning(h)
  \/ CancelTooLate(h) \/ CancelAnswered(h) \/ CancelMissed(h) \/ ClearSettled(h)
  \/ ClearUnsettled(h) \/ Overwrite(h)

LEMMA AsideHoldsSame ==
  ASSUME Typed, NEW h \in Handler, HandlerAside(h)
  PROVE  SameHeld
<1>1. \A g \in Handler : g # h => handler'[g] = handler[g]
  BY DEF HandlerAside, ClearJobs, CancelJob, ClearNext, ClearDone, LookupHit, LookupMiss,
     CancelRunning, CancelTooLate, CancelAnswered, CancelMissed, ClearSettled, ClearUnsettled,
     Overwrite, Move, Typed, HandlersTyped
<1>2. handler[h].pc \notin {"deliver", "record"} /\ handler'[h].pc \notin {"deliver", "record"}
  <2>1. handler[h] \in HandlerType
    BY DEF Typed, HandlersTyped
  <2>2. CASE ClearJobs(h) \/ ClearDone(h) \/ CancelAnswered(h) \/ \E r \in Request : CancelJob(h, r)
    <3>1. handler[h].pc \in {"idle", "next", "found"}
      BY <2>2 DEF ClearJobs, CancelJob, ClearDone, CancelAnswered
    <3>2. CASE ClearJobs(h)
      BY <3>1, <3>2 DEF ClearJobs, Typed, HandlersTyped
    <3>3. CASE ClearDone(h) \/ CancelAnswered(h)
      <4>1. handler'[h] = Idle
        BY <3>3 DEF ClearDone, CancelAnswered, Typed, HandlersTyped
      <4>2. QED
        BY <3>1, <4>1 DEF Idle
    <3>4. ASSUME NEW r \in Request, CancelJob(h, r)
          PROVE  handler'[h].pc = "lookup"
      <4>1. handler'[h] = [Idle EXCEPT !.pc = "lookup", !.job = r]
        BY <3>4 DEF CancelJob, Typed, HandlersTyped
      <4>2. QED
        BY <4>1 DEF Idle
    <3>5. QED
      BY <2>2, <3>1, <3>2, <3>3, <3>4
  <2>3. CASE ClearNext(h)
    BY <2>1, <2>3 DEF ClearNext, Typed, HandlersTyped, HandlerType
  <2>4. CASE ClearSettled(h) \/ Overwrite(h)
    <3>1. handler[h].pc \in {"found", "missed", "overwrite"}
      BY <2>4 DEF ClearSettled, Overwrite
    <3>2. \/ handler' = [handler EXCEPT ![h] = Idle]
          \/ handler' = [handler EXCEPT ![h] = [@ EXCEPT !.pc = "next", !.job = None]]
      BY <2>4 DEF ClearSettled, Overwrite
    <3>3. handler'[h] = Idle \/ handler'[h] = [handler[h] EXCEPT !.pc = "next", !.job = None]
      BY <3>2 DEF Typed, HandlersTyped
    <3>4. handler'[h].pc \in {"idle", "next"}
      <4>1. Idle.pc = "idle"
        BY DEF Idle
      <4>2. [handler[h] EXCEPT !.pc = "next", !.job = None].pc = "next"
        BY <2>1 DEF HandlerType
      <4>3. QED
        BY <3>3, <4>1, <4>2
    <3>5. QED
      BY <3>1, <3>4
  <2>5. CASE LookupHit(h) \/ LookupMiss(h) \/ CancelRunning(h) \/ CancelTooLate(h)
             \/ CancelMissed(h) \/ ClearUnsettled(h)
    BY <2>1, <2>5 DEF LookupHit, LookupMiss, CancelRunning, CancelTooLate, CancelMissed,
       ClearUnsettled, Move, Typed, HandlersTyped, HandlerType
  <2>6. QED
    BY <2>2, <2>3, <2>4, <2>5 DEF HandlerAside
<1>3. QED
  BY <1>1, <1>2 DEF SameHeld, Holding

LEMMA AsideKeeps ==
  ASSUME NEW h \in Handler, HandlerAside(h)
  PROVE  UNCHANGED <<waiting, current, fate, jobs, submit, delivered, work>>
BY DEF HandlerAside, ClearJobs, CancelJob, ClearNext, ClearDone, LookupHit, LookupMiss,
   CancelRunning, CancelTooLate, CancelAnswered, CancelMissed, ClearSettled, ClearUnsettled,
   Overwrite, Interrupt, executorVars, tables, history

\* The worker on its way from the start to the result.
Checking == Measuring /\ ~OnStart /\ ~Deliver /\ ~Record

LEMMA CheckingKeeps ==
  ASSUME Checking
  PROVE  /\ UNCHANGED <<executorVars, tables, handler, delivered>>
         /\ step \notin {"idle", "onstart", "record"} /\ step' \notin {"idle", "onstart", "record"}
BY DEF Checking, Measuring, BaselineDown, BaselineUp, RecoveryCancelled, RecoveryWaited,
   RecheckDown, RecheckUp, LoadBlocks, LoadClean, LoadNotNeeded, SourceDown, SourceUp,
   RunSucceeds, RunFails, RunCancelled, AfterDown, AfterUp, Contended, Uncontended,
   RetryExhausted, RetryInterrupted, RetryAgain, Goto, history

Deliveries ==
  /\ \A r \in Request :
       /\ fate[r] \in {"new", "waiting", "refused"} => delivered[r] = 0
       /\ fate[r] = "started" => delivered[r] = IF step = "record" THEN 1 ELSE 0
       /\ fate[r] = "finished" => delivered[r] = 1
       /\ fate[r] = "withdrawn" => delivered[r] <= 1
  /\ \A h \in Handler, r \in Request :
       Holding(h, r, "deliver") => fate[r] = "withdrawn" /\ delivered[r] = 0
  /\ \A g, h \in Handler, r \in Request :
       Holding(g, r, "deliver") /\ Holding(h, r, "deliver") => g = h

LEMMA InitDeliveries == Init => Fates /\ Deliveries
<1> SUFFICES ASSUME Init PROVE Fates /\ Deliveries
  OBVIOUS
<1>1. Len(waiting) = 0
  BY EmptySeq DEF Init, ExecutorInit
<1>2. Fates
  BY <1>1, ExecutorAssumption DEF Init, ExecutorInit, Fates, ExecutorAssumption
<1>3. Deliveries
  BY DEF Init, ExecutorInit, Deliveries, Holding, Idle
<1>4. QED
  BY <1>2, <1>3

LEMMA CancelPendingDelivers ==
  ASSUME Typed, Fates, Deliveries, NEW h \in Handler, CancelPending(h)
  PROVE  /\ Deliveries'
         /\ handler[h].job \in Request /\ fate[handler[h].job] = "waiting"
         /\ fate' = [fate EXCEPT ![handler[h].job] = "withdrawn"]
         /\ \A g \in Handler, r \in Request :
              /\ Holding(g, r, "deliver")' <=> Holding(g, r, "deliver") \/ (g = h /\ r = handler[h].job)
              /\ Holding(g, r, "record")' <=> Holding(g, r, "record")
<1> DEFINE job == handler[h].job
<1>1. job \in Request /\ Withdraw(job) /\ UNCHANGED <<submit, delivered, step>>
  BY DEF CancelPending, Move, Typed, HandlersTyped, tables, work, history
<1>2. fate[job] = "waiting" /\ fate' = [fate EXCEPT ![job] = "withdrawn"]
  BY <1>1, WithdrawFates
<1>3. \A g \in Handler : handler'[g] = IF g = h THEN [handler[h] EXCEPT !.pc = "deliver"] ELSE handler[g]
  BY DEF CancelPending, Move, Typed, HandlersTyped
<1>4. handler[h].pc = "cancel" /\ handler'[h].pc = "deliver" /\ handler'[h].job = job
  BY <1>3 DEF CancelPending, Move, Typed, HandlersTyped, HandlerType
<1>5. \A g \in Handler, r \in Request :
        /\ Holding(g, r, "deliver")' <=> Holding(g, r, "deliver") \/ (g = h /\ r = job)
        /\ Holding(g, r, "record")' <=> Holding(g, r, "record")
  BY <1>3, <1>4 DEF Holding
<1>6. delivered[job] = 0 /\ \A g \in Handler : ~Holding(g, job, "deliver")
  BY <1>1, <1>2 DEF Deliveries
<1> HIDE DEF job
<1>7. \A r \in Request : fate'[r] = IF r = job THEN "withdrawn" ELSE fate[r]
  BY <1>1, <1>2 DEF Typed, QueueTyped
<1>8. Deliveries'
  <2>1. \A r \in Request :
          /\ fate'[r] \in {"new", "waiting", "refused"} => delivered'[r] = 0
          /\ fate'[r] = "started" => delivered'[r] = IF step' = "record" THEN 1 ELSE 0
          /\ fate'[r] = "finished" => delivered'[r] = 1
          /\ fate'[r] = "withdrawn" => delivered'[r] <= 1
    BY <1>1, <1>6, <1>7 DEF Deliveries
  <2>2. \A g \in Handler, r \in Request :
          Holding(g, r, "deliver")' => fate'[r] = "withdrawn" /\ delivered'[r] = 0
    BY <1>1, <1>5, <1>6, <1>7 DEF Deliveries
  <2>3. \A g, k \in Handler, r \in Request :
          Holding(g, r, "deliver")' /\ Holding(k, r, "deliver")' => g = k
    BY <1>5, <1>6 DEF Deliveries
  <2>4. QED
    BY <2>1, <2>2, <2>3 DEF Deliveries, Holding
<1>9. QED
  BY <1>1, <1>2, <1>5, <1>8 DEF job

LEMMA CancelDeliverDelivers ==
  ASSUME Typed, Deliveries, NEW h \in Handler, CancelDeliver(h)
  PROVE  /\ Deliveries'
         /\ handler[h].job \in Request /\ Holding(h, handler[h].job, "deliver")
         /\ \A g \in Handler, r \in Request :
              /\ Holding(g, r, "deliver")' <=> Holding(g, r, "deliver") /\ r # handler[h].job
              /\ Holding(g, r, "record")' <=> Holding(g, r, "record") \/ (g = h /\ r = handler[h].job)
<1> DEFINE job == handler[h].job
<1>1. /\ job \in Request /\ Holding(h, job, "deliver") /\ UNCHANGED <<fate, step>>
      /\ delivered' = [delivered EXCEPT ![job] = @ + 1]
  BY DEF CancelDeliver, Move, Typed, HandlersTyped, Holding, executorVars, work
<1>2. \A g \in Handler : handler'[g] = IF g = h THEN [handler[h] EXCEPT !.pc = "record"] ELSE handler[g]
  BY DEF CancelDeliver, Move, Typed, HandlersTyped
<1>3. handler[h].pc = "deliver" /\ handler'[h].pc = "record" /\ handler'[h].job = job
  BY <1>2 DEF CancelDeliver, Move, Typed, HandlersTyped, HandlerType
<1>4. \A g \in Handler, r \in Request :
        /\ Holding(g, r, "deliver")' <=> Holding(g, r, "deliver") /\ g # h
        /\ Holding(g, r, "record")' <=> Holding(g, r, "record") \/ (g = h /\ r = job)
  BY <1>2, <1>3 DEF Holding
<1>5. \A g \in Handler : Holding(g, job, "deliver") => g = h
  BY <1>1 DEF Deliveries
<1>6. \A r \in Request : Holding(h, r, "deliver") => r = job
  BY DEF Holding
<1> HIDE DEF job
<1>7. fate[job] = "withdrawn" /\ delivered[job] = 0
  BY <1>1 DEF Deliveries
<1>8. \A r \in Request : delivered'[r] = IF r = job THEN 1 ELSE delivered[r]
  BY <1>1, <1>7 DEF Typed, TablesTyped
<1>9. Deliveries'
  <2>1. \A r \in Request :
          /\ fate'[r] \in {"new", "waiting", "refused"} => delivered'[r] = 0
          /\ fate'[r] = "started" => delivered'[r] = IF step' = "record" THEN 1 ELSE 0
          /\ fate'[r] = "finished" => delivered'[r] = 1
          /\ fate'[r] = "withdrawn" => delivered'[r] <= 1
    BY <1>1, <1>7, <1>8 DEF Deliveries
  <2>2. \A g \in Handler, r \in Request :
          Holding(g, r, "deliver")' => fate'[r] = "withdrawn" /\ delivered'[r] = 0
    BY <1>1, <1>4, <1>5, <1>8 DEF Deliveries
  <2>3. \A g, k \in Handler, r \in Request :
          Holding(g, r, "deliver")' /\ Holding(k, r, "deliver")' => g = k
    BY <1>4 DEF Deliveries
  <2>4. QED
    BY <2>1, <2>2, <2>3 DEF Deliveries, Holding
<1>10. QED
  BY <1>1, <1>4, <1>5, <1>6, <1>9 DEF job

LEMMA CancelRecordHolds ==
  ASSUME Typed, NEW h \in Handler, CancelRecord(h)
  PROVE  /\ handler[h].job \in Request /\ Holding(h, handler[h].job, "record")
         /\ \A g \in Handler, r \in Request :
              /\ Holding(g, r, "deliver")' <=> Holding(g, r, "deliver")
              /\ Holding(g, r, "record")' <=> Holding(g, r, "record") /\ g # h
<1>1. handler[h].job \in Request /\ Holding(h, handler[h].job, "record")
  BY DEF CancelRecord, Move, Typed, HandlersTyped, Holding
<1>2. \A g \in Handler : handler'[g] = IF g = h THEN [handler[h] EXCEPT !.pc = "found"] ELSE handler[g]
  BY DEF CancelRecord, Move, Typed, HandlersTyped
<1>3. handler[h].pc = "record" /\ handler'[h].pc = "found"
  BY <1>2 DEF CancelRecord, Move, Typed, HandlersTyped, HandlerType
<1>4. QED
  BY <1>1, <1>2, <1>3 DEF Holding

LEMMA NextDeliveries ==
  ASSUME Typed, Fates, Deliveries, [Next]_vars
  PROVE  Deliveries'
<1>1. ASSUME SameHeld, UNCHANGED <<fate, delivered>>, (step = "record") = (step' = "record")
      PROVE  Deliveries'
  BY <1>1 DEF Deliveries, SameHeld, Holding
<1>2. ASSUME UNCHANGED handler
      PROVE  SameHeld
  BY <1>2 DEF SameHeld, Holding
<1>3. ASSUME NEW r \in Request, SubmitSave(r) \/ Submitting(r)
      PROVE  Deliveries'
  <2>1. UNCHANGED <<handler, delivered, step>>
    BY <1>3 DEF SubmitSave, Submitting, SubmitNoSource, SubmitRegister, SubmitEnqueue, SubmitRefused,
       SubmitFailed, work, history
  <2>2. UNCHANGED fate \/ (fate[r] = "new" /\ \E f \in {"waiting", "refused"} : fate' = [fate EXCEPT ![r] = f])
    BY <1>3 DEF SubmitSave, Submitting, SubmitNoSource, SubmitRegister, SubmitEnqueue, SubmitRefused,
       SubmitFailed, Accept, Refuse, executorVars
  <2>3. QED
    BY <2>1, <2>2 DEF Deliveries, Holding, Typed, QueueTyped
<1>4. CASE TakeNext
  <2>1. waiting # <<>> /\ fate' = [fate EXCEPT ![Head(waiting)] = "started"] /\ step' = "onstart"
        /\ step = "idle" /\ UNCHANGED <<handler, delivered>>
    BY <1>4 DEF TakeNext, Begin, history
  <2>2. Head(waiting) \in Request /\ fate[Head(waiting)] = "waiting"
    BY <2>1, HeadTailProperties, LenProperties, EmptySeq DEF Typed, QueueTyped, Fates
  <2>3. QED
    BY <2>1, <2>2 DEF Deliveries, Holding, Typed, QueueTyped
<1>5. CASE OnStart
  <2>1. UNCHANGED <<handler, fate, delivered>> /\ step # "record" /\ step' # "record"
    BY <1>5 DEF OnStart, Goto, executorVars, history
  <2>2. QED
    BY <1>1, <1>2, <2>1
<1>6. CASE Deliver
  <2>1. /\ current \in Request /\ step = "deliver" /\ step' = "record" /\ UNCHANGED <<handler, fate>>
        /\ delivered' = [delivered EXCEPT ![current] = @ + 1]
    BY <1>6 DEF Deliver, Goto, executorVars, Typed, QueueTyped, WorkTyped
  <2>2. fate[current] = "started" /\ \A r \in Request : fate[r] = "started" => r = current
    BY <2>1 DEF Fates
  <2>3. delivered[current] = 0
    BY <2>1, <2>2 DEF Deliveries
  <2>4. \A r \in Request : delivered'[r] = IF r = current THEN 1 ELSE delivered[r]
    BY <2>1, <2>3 DEF Typed, TablesTyped
  <2>5. QED
    BY <2>1, <2>2, <2>4 DEF Deliveries, Holding
<1>7. CASE Record
  <2>1. /\ current \in Request /\ step = "record" /\ UNCHANGED <<handler, delivered>>
        /\ fate' = [fate EXCEPT ![current] = "finished"]
    BY <1>7 DEF Record, Goto, Finish, Typed, QueueTyped
  <2>2. fate[current] = "started" /\ \A r \in Request : fate[r] = "started" => r = current
    BY <2>1 DEF Fates
  <2>3. \A r \in Request : fate'[r] = IF r = current THEN "finished" ELSE fate[r]
    BY <2>1 DEF Typed, QueueTyped
  <2>4. QED
    BY <2>1, <2>2, <2>3 DEF Deliveries, Holding
<1>8. CASE Checking
  BY <1>1, <1>2, <1>8, CheckingKeeps DEF executorVars
<1>9. ASSUME NEW h \in Handler,
             ClearJobs(h) \/ Handling(h) \/ \E r \in Request : CancelJob(h, r)
      PROVE  Deliveries'
  <2>1. CASE HandlerAside(h)
    BY <1>1, <2>1, AsideHoldsSame, AsideKeeps DEF work
  <2>2. CASE CancelRecord(h)
    <3>1. UNCHANGED <<fate, delivered, step>>
      BY <2>2 DEF CancelRecord, executorVars, work, history
    <3>2. QED
      BY <2>2, <3>1, CancelRecordHolds DEF Deliveries, Holding
  <2>3. QED
    BY <1>9, <2>1, <2>2, CancelPendingDelivers, CancelDeliverDelivers DEF Handling, HandlerAside
<1>10. CASE Restart
  <2>1. /\ \A h \in Handler : handler'[h].pc = "idle"
        /\ UNCHANGED delivered
        /\ \A r \in Request : fate'[r] = IF fate[r] \in {"waiting", "started"} THEN "withdrawn" ELSE fate[r]
    BY <1>10 DEF Restart, Idle
  <2>2. QED
    BY <2>1 DEF Deliveries, Holding, Typed, QueueTyped, TablesTyped
<1>11. CASE Shutdown \/ UNCHANGED vars
  BY <1>1, <1>2, <1>11 DEF Shutdown, Close, vars, executorVars, work, history
<1>12. QED
  BY <1>3, <1>4, <1>5, <1>6, <1>7, <1>8, <1>9, <1>10, <1>11 DEF Next, Checking
\* Cancel finds the jobs it should, in CancellableUntilDelivered's words.
Findable(r) ==
  \/ submit[r] = "registered"
  \/ fate[r] = "waiting"
  \/ current = r /\ step # "record"
  \/ \E h \in Handler : Holding(h, r, "deliver")

LEMMA FindableIsCancellable ==
  CancellableUntilDelivered <=> \A r \in Request : r \in jobs <=> Findable(r)
BY DEF CancellableUntilDelivered, Findable, Holding

LEMMA NextCancellable ==
  ASSUME Typed, Fates, Deliveries, CancellableUntilDelivered, [Next]_vars
  PROVE  CancellableUntilDelivered'
<1>1. \A r \in Request : r \in jobs <=> Findable(r)
  BY FindableIsCancellable
<1> SUFFICES \A r \in Request : r \in jobs' <=> Findable(r)'
  BY DEF CancellableUntilDelivered, Findable, Holding
<1>2. ASSUME SameHeld, UNCHANGED <<jobs, submit, fate, current>>, (step = "record") = (step' = "record")
      PROVE  \A r \in Request : r \in jobs' <=> Findable(r)'
  BY <1>1, <1>2 DEF Findable, SameHeld
<1>3. ASSUME UNCHANGED handler
      PROVE  SameHeld
  BY <1>3 DEF SameHeld, Holding
<1>4. ASSUME NEW q \in Request, SubmitSave(q) \/ Submitting(q)
      PROVE  \A r \in Request : r \in jobs' <=> Findable(r)'
  <2>1. UNCHANGED <<handler, current, step>>
    BY <1>4 DEF SubmitSave, Submitting, SubmitNoSource, SubmitRegister, SubmitEnqueue, SubmitRefused,
       SubmitFailed, Accept, Refuse, executorVars, work
  <2>2. CASE SubmitSave(q) \/ SubmitNoSource(q) \/ SubmitFailed(q)
    <3>1. /\ UNCHANGED <<jobs, fate>>
          /\ \A r \in Request : submit'[r] = "registered" <=> submit[r] = "registered"
      BY <2>2 DEF SubmitSave, SubmitNoSource, SubmitFailed, executorVars, Typed, TablesTyped
    <3>2. QED
      BY <1>1, <2>1, <3>1 DEF Findable, Holding
  <2>3. CASE SubmitRegister(q)
    <3>1. /\ UNCHANGED fate /\ jobs' = jobs \union {q}
          /\ \A r \in Request : submit'[r] = IF r = q THEN "registered" ELSE submit[r]
      BY <2>3 DEF SubmitRegister, executorVars, Typed, TablesTyped
    <3>2. QED
      BY <1>1, <2>1, <3>1 DEF Findable, Holding
  <2>4. CASE SubmitEnqueue(q)
    <3>1. /\ UNCHANGED jobs /\ submit[q] = "registered"
          /\ \A r \in Request : submit'[r] = IF r = q THEN "over" ELSE submit[r]
          /\ \A r \in Request : fate'[r] = IF r = q THEN "waiting" ELSE fate[r]
      BY <2>4 DEF SubmitEnqueue, Accept, Typed, TablesTyped, QueueTyped
    <3>2. QED
      BY <1>1, <2>1, <3>1 DEF Findable, Holding
  <2>5. CASE SubmitRefused(q)
    <3>1. /\ jobs' = jobs \ {q} /\ fate[q] = "new"
          /\ \A r \in Request : submit'[r] = IF r = q THEN "refused" ELSE submit[r]
          /\ \A r \in Request : fate'[r] = IF r = q THEN "refused" ELSE fate[r]
      BY <2>5 DEF SubmitRefused, Refuse, Typed, TablesTyped, QueueTyped
    <3>2. current # q /\ ~\E h \in Handler : Holding(h, q, "deliver")
      BY <3>1 DEF Fates, Deliveries
    <3>3. QED
      BY <1>1, <2>1, <3>1, <3>2 DEF Findable, Holding
  <2>6. QED
    BY <1>4, <2>2, <2>3, <2>4, <2>5 DEF Submitting
<1>5. CASE TakeNext
  <2>1. /\ waiting # <<>> /\ current = None /\ current' = Head(waiting) /\ step' = "onstart"
        /\ fate' = [fate EXCEPT ![Head(waiting)] = "started"] /\ UNCHANGED <<jobs, submit, handler>>
    BY <1>5 DEF TakeNext, Begin, tables
  <2>2. Head(waiting) \in Request /\ fate[Head(waiting)] = "waiting"
    BY <2>1, HeadTailProperties, LenProperties, EmptySeq DEF Typed, QueueTyped, Fates
  <2>3. \A r \in Request : fate'[r] = IF r = current' THEN "started" ELSE fate[r]
    BY <2>1, <2>2 DEF Typed, QueueTyped
  <2>4. QED
    BY <1>1, <2>1, <2>2, <2>3, ExecutorAssumption DEF Findable, Holding, ExecutorAssumption
<1>6. CASE OnStart
  <2>1. UNCHANGED <<handler, jobs, submit, fate, current>> /\ step # "record" /\ step' # "record"
    BY <1>6 DEF OnStart, Goto, executorVars
  <2>2. QED
    BY <1>2, <1>3, <2>1
<1>7. CASE Deliver
  <2>1. /\ current \in Request /\ step' = "record" /\ UNCHANGED <<handler, submit, fate, current>>
        /\ jobs' = jobs \ {current} /\ step = "deliver"
    BY <1>7 DEF Deliver, Goto, executorVars, Typed, QueueTyped, WorkTyped
  <2>2. fate[current] = "started" /\ submit[current] # "registered"
        /\ ~\E h \in Handler : Holding(h, current, "deliver")
    BY <2>1 DEF Fates, Deliveries
  <2>3. QED
    BY <1>1, <2>1, <2>2 DEF Findable, Holding
<1>8. CASE Record
  <2>1. /\ current \in Request /\ current' = None /\ step = "record"
        /\ fate' = [fate EXCEPT ![current] = "finished"] /\ UNCHANGED <<handler, submit, jobs>>
    BY <1>8 DEF Record, Goto, Finish, Typed, QueueTyped
  <2>2. fate[current] = "started"
    BY <2>1 DEF Fates
  <2>3. \A r \in Request : fate'[r] = "waiting" <=> fate[r] = "waiting"
    BY <2>1, <2>2 DEF Typed, QueueTyped
  <2>4. QED
    BY <1>1, <2>1, <2>3, ExecutorAssumption DEF Findable, Holding, ExecutorAssumption
<1>9. CASE Checking
  BY <1>2, <1>3, <1>9, CheckingKeeps DEF executorVars, tables
<1>10. ASSUME NEW h \in Handler,
              ClearJobs(h) \/ Handling(h) \/ \E r \in Request : CancelJob(h, r)
       PROVE  \A r \in Request : r \in jobs' <=> Findable(r)'
  <2>1. CASE HandlerAside(h)
    BY <1>2, <2>1, AsideHoldsSame, AsideKeeps DEF work
  <2>2. CASE CancelPending(h)
    <3>1. UNCHANGED <<jobs, submit, current, step>>
      BY <2>2 DEF CancelPending, Withdraw, tables, work
    <3>2. QED
      BY <1>1, <2>2, <3>1, CancelPendingDelivers DEF Findable, Typed, QueueTyped
  <2>3. CASE CancelDeliver(h)
    <3>1. UNCHANGED <<submit, fate, current, step>> /\ jobs' = jobs \ {handler[h].job}
      BY <2>3 DEF CancelDeliver, executorVars, work
    <3>2. fate[handler[h].job] = "withdrawn"
      BY <2>3, CancelDeliverDelivers DEF Deliveries
    <3>3. submit[handler[h].job] # "registered" /\ current # handler[h].job
      BY <2>3, <3>2, CancelDeliverDelivers DEF Fates
    <3>4. QED
      BY <1>1, <2>3, <3>1, <3>2, <3>3, CancelDeliverDelivers DEF Findable
  <2>4. CASE CancelRecord(h)
    <3>1. UNCHANGED <<jobs, submit, fate, current, step>>
      BY <2>4 DEF CancelRecord, executorVars, work
    <3>2. QED
      BY <1>1, <2>4, <3>1, CancelRecordHolds DEF Findable
  <2>5. QED
    BY <1>10, <2>1, <2>2, <2>3, <2>4 DEF Handling, HandlerAside
<1>11. CASE Restart
  <2>1. /\ \A h \in Handler : handler'[h].pc = "idle"
        /\ jobs' = {} /\ current' = None
        /\ \A r \in Request : submit'[r] # "registered" /\ fate'[r] # "waiting"
    BY <1>11 DEF Restart, Idle
  <2>2. QED
    BY <2>1, ExecutorAssumption DEF Findable, Holding, ExecutorAssumption
<1>12. CASE Shutdown \/ UNCHANGED vars
  BY <1>2, <1>3, <1>12 DEF Shutdown, Close, vars, executorVars, tables, work
<1>13. QED
  BY <1>4, <1>5, <1>6, <1>7, <1>8, <1>9, <1>10, <1>11, <1>12 DEF Next, Checking
-----------------------------------------------------------------------------
(* Who owns an active row.                                                  *)

\* A result that pauses or reschedules a job charges nobody, so that no row is
\* left "scheduled" by it.
PausedChargesNobody == outcome.status \in {"paused", "scheduled"} => outcome.infra

LEMMA InitRows == Init => CancellableUntilDelivered /\ NoOrphanRows /\ PausedChargesNobody
<1> SUFFICES ASSUME Init PROVE CancellableUntilDelivered /\ NoOrphanRows /\ PausedChargesNobody
  OBVIOUS
<1>1. CancellableUntilDelivered
  BY ExecutorAssumption DEF Init, ExecutorInit, CancellableUntilDelivered, Idle, ExecutorAssumption
<1>2. NoOrphanRows
  BY DEF Init, NoOrphanRows
<1>3. PausedChargesNobody
  BY DEF Init, PausedChargesNobody, NoOutcome
<1>4. QED
  BY <1>1, <1>2, <1>3

LEMMA NextPaused ==
  ASSUME Typed, PausedChargesNobody, [Next]_vars
  PROVE  PausedChargesNobody'
<1> USE DEF PausedChargesNobody
<1>1. ASSUME UNCHANGED outcome
      PROVE  PausedChargesNobody'
  BY <1>1
<1>2. \A s : Blocked(s).infra
  BY DEF Blocked, NoOutcome
<1>3. CASE BaselineDown \/ RecoveryCancelled \/ RecheckDown \/ LoadBlocks \/ SourceDown
  BY <1>2, <1>3 DEF BaselineDown, RecoveryCancelled, RecheckDown, LoadBlocks, SourceDown
<1>4. CASE RunSucceeds \/ RunFails \/ RunCancelled
  BY <1>4 DEF RunSucceeds, RunFails, RunCancelled, NoOutcome
<1>5. CASE AfterDown \/ Contended
  BY <1>5 DEF AfterDown, Contended, Typed, WorkTyped, OutcomeType
<1>6. CASE RetryInterrupted
  BY <1>6 DEF RetryInterrupted, Typed, WorkTyped, OutcomeType
<1>7. CASE Deliver
  <2>1. outcome' = Judged(current, outcome)
    BY <1>7 DEF Deliver
  <2>2. QED
    BY <2>1 DEF Judged, Typed, WorkTyped, OutcomeType
<1>8. CASE Record \/ Restart
  BY <1>8 DEF Record, Restart, NoOutcome
<1>9. CASE Measuring
  BY <1>1, <1>3, <1>4, <1>5, <1>6, <1>7, <1>8, <1>9
     DEF Measuring, OnStart, BaselineUp, RecoveryWaited, RecheckUp, LoadClean, LoadNotNeeded, SourceUp,
     AfterUp, Uncontended, RetryExhausted, RetryAgain
<1>10. ASSUME NEW h \in Handler,
              ClearJobs(h) \/ Handling(h) \/ \E r \in Request : CancelJob(h, r)
       PROVE  PausedChargesNobody'
  <2>1. UNCHANGED work
    BY <1>10, AsideKeeps DEF HandlerAside, Handling, CancelPending, CancelDeliver, CancelRecord
  <2>2. QED
    BY <1>1, <2>1 DEF work
<1>11. CASE TakeNext \/ Shutdown \/ UNCHANGED vars
  BY <1>1, <1>11 DEF TakeNext, Shutdown, vars, work
<1>12. ASSUME NEW r \in Request, SubmitSave(r) \/ Submitting(r)
       PROVE  PausedChargesNobody'
  BY <1>1, <1>12 DEF SubmitSave, Submitting, SubmitNoSource, SubmitRegister, SubmitEnqueue,
     SubmitRefused, SubmitFailed, work
<1>13. QED
  BY <1>8, <1>9, <1>10, <1>11, <1>12 DEF Next

\* The owners of a row, in NoOrphanRows' words.
Owned(r) ==
  \/ submit[r] \in {"saved", "registered", "refused"}
  \/ fate[r] \in {"waiting", "started"}
  \/ \E h \in Handler : Holding(h, r, "deliver") \/ Holding(h, r, "record")
  \/ r \in unwritten

LEMMA SetRowFacts ==
  ASSUME Typed, NEW r \in Request, NEW status, SetRow(r, status)
  PROVE  /\ \A q \in Request : q # r => rows'[q] = rows[q]
         /\ rows'[r] = status \/ rows'[r] = "absent"
BY DEF SetRow, Typed, TablesTyped

\* The last write of a row settles it or is known to have failed.
LEMMA SettleRowFacts ==
  ASSUME Typed, NEW r \in Request, NEW status, status # "active", SettleRow(r, status)
  PROVE  \A q \in Request : rows'[q] = "active" =>
           rows[q] = "active" /\ (q \in unwritten \/ q = r => q \in unwritten')
<1>1. CASE SetRow(r, status) /\ unwritten' = unwritten \ {r}
  BY <1>1, SetRowFacts
<1>2. CASE UNCHANGED rows /\ unwritten' = unwritten \union ({r} \intersect ActiveRows)
  BY <1>2 DEF ActiveRows
<1>3. QED
  BY <1>1, <1>2 DEF SettleRow

LEMMA NextOwned ==
  ASSUME Typed, Fates, Deliveries, NoOrphanRows, PausedChargesNobody, [Next]_vars
  PROVE  NoOrphanRows'
<1>1. \A r \in Request : rows[r] = "active" => Owned(r)
  BY DEF NoOrphanRows, Owned, Holding
<1> SUFFICES \A r \in Request : rows'[r] = "active" => Owned(r)'
  BY DEF NoOrphanRows, Owned, Holding
<1>2. ASSUME SameHeld, UNCHANGED <<submit, fate>>,
             \A r \in Request : rows'[r] = "active" =>
               (rows[r] = "active" \/ Owned(r)) /\ (r \in unwritten => r \in unwritten')
      PROVE  \A r \in Request : rows'[r] = "active" => Owned(r)'
  BY <1>1, <1>2 DEF Owned, SameHeld
<1>3. ASSUME UNCHANGED handler
      PROVE  SameHeld
  BY <1>3 DEF SameHeld, Holding
<1>4. "failed" # "active" /\ "cancelled" # "active" /\ "absent" # "active"
  OBVIOUS
<1>5. ASSUME NEW q \in Request, SubmitSave(q) \/ Submitting(q)
      PROVE  \A r \in Request : rows'[r] = "active" => Owned(r)'
  <2>1. UNCHANGED handler
    BY <1>5 DEF SubmitSave, Submitting, SubmitNoSource, SubmitRegister, SubmitEnqueue, SubmitRefused,
       SubmitFailed
  <2>2. CASE SubmitSave(q) \/ SubmitRegister(q)
    <3>1. /\ UNCHANGED <<fate, unwritten>> /\ \A r \in Request : r # q => rows'[r] = rows[r] /\ submit'[r] = submit[r]
          /\ submit'[q] \in {"saved", "registered"}
      BY <2>2 DEF SubmitSave, SubmitRegister, executorVars, Typed, TablesTyped
    <3>2. QED
      BY <1>1, <2>1, <3>1 DEF Owned, Holding
  <2>3. CASE SubmitNoSource(q) \/ SubmitFailed(q)
    <3>1. /\ UNCHANGED fate /\ \A r \in Request : r # q => submit'[r] = submit[r]
          /\ SettleRow(q, "failed")
      BY <2>3 DEF SubmitNoSource, SubmitFailed, executorVars, Typed, TablesTyped
    <3>2. QED
      BY <1>1, <1>4, <2>1, <3>1, SettleRowFacts DEF Owned, Holding
  <2>4. CASE SubmitEnqueue(q) \/ SubmitRefused(q)
    <3>1. /\ UNCHANGED <<rows, unwritten>>
          /\ \A r \in Request : r # q => fate'[r] = fate[r] /\ submit'[r] = submit[r]
          /\ fate'[q] = "waiting" \/ submit'[q] = "refused"
      BY <2>4 DEF SubmitEnqueue, SubmitRefused, Accept, Refuse, Typed, TablesTyped, QueueTyped
    <3>2. QED
      BY <1>1, <2>1, <3>1 DEF Owned, Holding
  <2>5. QED
    BY <1>5, <2>2, <2>3, <2>4 DEF Submitting
<1>6. CASE TakeNext
  <2>1. UNCHANGED <<rows, submit, handler, unwritten>> /\ fate' = [fate EXCEPT ![Head(waiting)] = "started"]
    BY <1>6 DEF TakeNext, Begin, tables
  <2>2. \A r \in Request : fate[r] \in {"waiting", "started"} => fate'[r] \in {"waiting", "started"}
    BY <2>1 DEF Typed, QueueTyped
  <2>3. QED
    BY <1>1, <2>1, <2>2 DEF Owned, Holding
<1>7. CASE OnStart
  <2>1. /\ current \in Request /\ (SetRow(current, "active") \/ UNCHANGED rows)
        /\ UNCHANGED <<submit, fate, handler, unwritten>>
    BY <1>7 DEF OnStart, Goto, executorVars, Typed, QueueTyped, WorkTyped
  <2>2. Owned(current)
    BY <2>1 DEF Fates, Owned
  <2>3. QED
    BY <1>2, <1>3, <2>1, <2>2, SetRowFacts
<1>8. CASE Deliver
  BY <1>2, <1>3, <1>8 DEF Deliver, executorVars
<1>9. CASE Record
  <2>1. /\ current \in Request /\ SettleRow(current, FinalStatus(outcome)) /\ UNCHANGED <<submit, handler>>
        /\ fate' = [fate EXCEPT ![current] = "finished"]
    BY <1>9 DEF Record, Finish, Typed, QueueTyped
  <2>2. FinalStatus(outcome) # "active"
    <3>1. CASE outcome.status \in {"paused", "scheduled"}
      <4>1. outcome.infra
        BY <3>1 DEF PausedChargesNobody
      <4>2. QED
        BY <3>1, <4>1 DEF FinalStatus
    <3>2. CASE outcome.status \notin {"paused", "scheduled"}
      BY <3>2 DEF FinalStatus
    <3>3. QED
      BY <3>1, <3>2
  <2>3. \A r \in Request : r # current => fate'[r] = fate[r]
    BY <2>1 DEF Typed, QueueTyped
  <2>4. QED
    BY <1>1, <2>1, <2>2, <2>3, SettleRowFacts DEF Owned, Holding
<1>10. CASE Checking
  BY <1>2, <1>3, <1>10, CheckingKeeps DEF executorVars, tables
<1>11. ASSUME NEW h \in Handler,
              ClearJobs(h) \/ Handling(h) \/ \E r \in Request : CancelJob(h, r)
       PROVE  \A r \in Request : rows'[r] = "active" => Owned(r)'
  <2>1. CASE HandlerAside(h)
    <3>1. \A r \in Request : rows'[r] = "active" =>
            rows[r] = "active" /\ (r \in unwritten => r \in unwritten')
      <4>1. CASE ClearDone(h)
        BY <1>4, <4>1 DEF ClearDone
      <4>2. CASE Overwrite(h)
        <5>1. /\ handler[h].job \in Request
              /\ \/ SetRow(handler[h].job, "cancelled") /\ unwritten' = unwritten \ {handler[h].job}
                 \/ UNCHANGED <<rows, unwritten>>
          BY <4>2 DEF Overwrite, Typed, HandlersTyped
        <5>2. QED
          BY <1>4, <5>1, SetRowFacts
      <4>3. QED
        BY <2>1, <4>1, <4>2 DEF HandlerAside, ClearJobs, CancelJob, ClearNext, LookupHit, LookupMiss,
           CancelRunning, CancelTooLate, CancelAnswered, CancelMissed, ClearSettled, ClearUnsettled,
           tables
    <3>2. QED
      BY <1>2, <2>1, <3>1, AsideHoldsSame, AsideKeeps
  <2>2. CASE CancelPending(h)
    <3>1. UNCHANGED <<rows, submit, unwritten>>
      BY <2>2 DEF CancelPending, tables
    <3>2. QED
      BY <1>1, <2>2, <3>1, CancelPendingDelivers DEF Owned, Typed, QueueTyped
  <2>3. CASE CancelDeliver(h)
    <3>1. UNCHANGED <<rows, submit, fate, unwritten>>
      BY <2>3 DEF CancelDeliver, executorVars
    <3>2. QED
      BY <1>1, <2>3, <3>1, CancelDeliverDelivers DEF Owned
  <2>4. CASE CancelRecord(h)
    <3>1. UNCHANGED <<submit, fate>> /\ SettleRow(handler[h].job, "cancelled")
      BY <2>4 DEF CancelRecord, executorVars
    <3>2. \A r \in Request : Holding(h, r, "record") => r = handler[h].job
      BY DEF Holding
    <3>3. QED
      BY <1>1, <1>4, <2>4, <3>1, <3>2, CancelRecordHolds, SettleRowFacts DEF Owned
  <2>5. QED
    BY <1>11, <2>1, <2>2, <2>3, <2>4 DEF Handling, HandlerAside
<1>12. CASE Restart
  <2>1. PICK deleted, settled \in BOOLEAN :
          rows' = RowsAfterStart(deleted, settled) /\ unwritten' = IF settled THEN {} ELSE ActiveRows
    BY <1>12 DEF Restart
  <2>2. \A r \in Request : rows'[r] = "active" => r \in unwritten'
    BY <2>1 DEF RowsAfterStart, ActiveRows
  <2>3. QED
    BY <2>2 DEF Owned
<1>13. CASE Shutdown \/ UNCHANGED vars
  BY <1>2, <1>3, <1>13 DEF Shutdown, Close, vars, executorVars, tables
<1>14. QED
  BY <1>5, <1>6, <1>7, <1>8, <1>9, <1>10, <1>11, <1>12, <1>13 DEF Next, Checking

LEMMA JobsInvariant ==
  Spec => [](Typed /\ Fates /\ Deliveries /\ CancellableUntilDelivered /\ NoOrphanRows /\ PausedChargesNobody)
BY InitTyped, InitDeliveries, InitRows, NextTyped, NextFates, NextDeliveries, NextCancellable,
   NextPaused, NextOwned, PTL DEF Spec

\* Every active row has somebody who will settle it, unless the last write that was
\* to settle it, or the clean-up at the start of the program, has failed.
THEOREM RowsAreOwned == Spec => []NoOrphanRows
BY JobsInvariant, PTL

\* Cancel finds a job from its registration until its result is delivered, and
\* no longer.
THEOREM CancelFindsJobs == Spec => []CancellableUntilDelivered
BY JobsInvariant, PTL

\* However a cancel handler and the worker meet, a job has one result at most,
\* and one when it has ended.
THEOREM ResultsAreSingle == Spec => []DeliveredOnce
<1>1. Typed /\ Deliveries => DeliveredOnce
  BY DEF Typed, QueueTyped, TablesTyped, Deliveries, DeliveredOnce, Fate
<1>2. QED
  BY <1>1, JobsInvariant, PTL
-----------------------------------------------------------------------------
(* The worker's own facts: which checks precede which step.                  *)

LEMMA OthersKeep ==
  ASSUME [Next]_vars, ~TakeNext, ~Measuring, ~Restart
  PROVE  /\ UNCHANGED <<work, current, checks, streak, overrun>>
         /\ interrupted \subseteq interrupted'
<1>1. CASE Shutdown \/ UNCHANGED vars
  BY <1>1 DEF Shutdown, Close, vars, history, executorVars, work
<1>2. ASSUME NEW r \in Request, SubmitSave(r) \/ Submitting(r)
      PROVE  UNCHANGED <<work, current, checks, streak, overrun, interrupted>>
  BY <1>2 DEF SubmitSave, Submitting, SubmitNoSource, SubmitRegister, SubmitEnqueue, SubmitRefused,
     SubmitFailed, Accept, Refuse, executorVars, history
<1>3. ASSUME NEW h \in Handler, ClearJobs(h) \/ Handling(h) \/ \E r \in Request : CancelJob(h, r)
      PROVE  /\ UNCHANGED <<work, current, checks, streak, overrun>>
             /\ interrupted \subseteq interrupted'
  BY <1>3 DEF Handling, ClearJobs, CancelJob, ClearNext, ClearDone, LookupHit, LookupMiss,
     CancelRunning, CancelPending, CancelTooLate, CancelDeliver, CancelRecord, CancelAnswered,
     CancelMissed, ClearSettled, ClearUnsettled, Overwrite, Interrupt, Withdraw, executorVars, history
<1>4. QED
  BY <1>1, <1>2, <1>3 DEF Next

\* A measurement is only reached with the baseline confirmed: two checks in a
\* row since the last one that failed.
Confirmed ==
  /\ ~observed => streak = 2
  /\ observed /\ ready => streak >= 1
  /\ step \in {"recovery", "recheck"} => observed /\ ready
  /\ step \in {"load", "source", "run"} => streak = 2

\* A cancelled job is past the start of the attempt it was cancelled in, or in
\* the one measurement that was still begun.
Stopping ==
  /\ overrun \in {0, 1}
  /\ overrun = 1 =>
       current \in interrupted /\ step \in {"run", "after", "contention", "retry", "deliver", "record"}

LEMMA NextConfirmed ==
  ASSUME Typed, Confirmed, [Next]_vars
  PROVE  Confirmed'
<1>1. streak \in 0 .. 2 /\ observed \in BOOLEAN /\ ready \in BOOLEAN
  BY DEF Typed, WorkTyped
<1>2. CASE BaselineDown \/ BaselineUp
  BY <1>1, <1>2 DEF Confirmed, BaselineDown, BaselineUp, Observe, Goto
<1>3. CASE RecheckDown \/ RecheckUp
  BY <1>1, <1>3 DEF Confirmed, RecheckDown, RecheckUp, Observe, Goto
<1>4. CASE AfterDown \/ AfterUp
  BY <1>1, <1>4 DEF Confirmed, AfterDown, AfterUp, Observe
<1>5. CASE Record \/ TakeNext \/ OnStart \/ Deliver
  BY <1>5 DEF Confirmed, Record, TakeNext, OnStart, Deliver, Goto, history
<1>6. CASE RecoveryCancelled \/ RecoveryWaited \/ LoadBlocks \/ LoadClean \/ LoadNotNeeded
           \/ SourceDown \/ SourceUp
  BY <1>6 DEF Confirmed, RecoveryCancelled, RecoveryWaited, LoadBlocks, LoadClean, LoadNotNeeded,
     SourceDown, SourceUp, Goto, history
<1>7. CASE RunSucceeds \/ RunFails \/ RunCancelled \/ Contended \/ Uncontended
           \/ RetryExhausted \/ RetryInterrupted \/ RetryAgain
  <2>1. /\ step' \in {"after", "retry", "deliver", "baseline"}
        /\ UNCHANGED <<observed, ready, streak>>
    BY <1>7 DEF RunSucceeds, RunFails, RunCancelled, Contended, Uncontended, RetryExhausted,
       RetryInterrupted, RetryAgain, Goto, history
  <2>2. QED
    BY <2>1 DEF Confirmed
<1>8. CASE Restart
  BY <1>8 DEF Confirmed, Restart
<1>9. CASE ~TakeNext /\ ~Measuring /\ ~Restart
  BY <1>9, OthersKeep DEF Confirmed, work
<1>10. QED
  BY <1>2, <1>3, <1>4, <1>5, <1>6, <1>7, <1>8, <1>9 DEF Measuring

LEMMA NextStopping ==
  ASSUME Typed, Stopping, [Next]_vars
  PROVE  Stopping'
<1>1. current \in interrupted => Cancelled
  BY DEF Cancelled
<1>2. CASE BaselineDown \/ BaselineUp \/ RecheckDown \/ RecheckUp \/ OnStart
  BY <1>2 DEF Stopping, BaselineDown, BaselineUp, RecheckDown, RecheckUp, OnStart, Goto, history,
     executorVars
<1>3. CASE AfterDown \/ AfterUp
  BY <1>3 DEF Stopping, AfterDown, AfterUp, executorVars
<1>4. CASE Record
  BY <1>4 DEF Stopping, Record
<1>5. CASE TakeNext
  BY <1>5 DEF Stopping, TakeNext, Begin, history
<1>6. CASE Deliver
  BY <1>6 DEF Stopping, Deliver, Goto, executorVars
<1>7. CASE RecoveryCancelled \/ RecoveryWaited \/ LoadBlocks \/ LoadClean \/ LoadNotNeeded
           \/ SourceDown \/ SourceUp
  BY <1>7 DEF Stopping, RecoveryCancelled, RecoveryWaited, LoadBlocks, LoadClean, LoadNotNeeded,
     SourceDown, SourceUp, Goto, history, executorVars
<1>8. CASE RunSucceeds \/ RunFails \/ RunCancelled \/ Contended \/ Uncontended
           \/ RetryExhausted \/ RetryInterrupted
  BY <1>8 DEF Stopping, RunSucceeds, RunFails, RunCancelled, Contended, Uncontended,
     RetryExhausted, RetryInterrupted, Goto, history, executorVars
<1>9. CASE RetryAgain
  BY <1>1, <1>9 DEF Stopping, RetryAgain, Goto, history, executorVars
<1>10. CASE Restart
  BY <1>10 DEF Stopping, Restart
<1>11. CASE ~TakeNext /\ ~Measuring /\ ~Restart
  BY <1>11, OthersKeep DEF Stopping, work
<1>12. QED
  BY <1>2, <1>3, <1>4, <1>5, <1>6, <1>7, <1>8, <1>9, <1>10, <1>11 DEF Measuring

\* The checks a measurement of the current job needs before it is made.
Before == Required(current) \ {"after", "contention"}

\* Which of the checks are behind the worker at each of its steps.
Checked ==
  /\ step \in {"recovery", "recheck", "load"} => "before" \in checks
  /\ step = "source" => current \in Throughput /\ {"before", "load"} \subseteq checks
  /\ step \in {"run", "after", "contention", "retry"} => Before \subseteq checks
  /\ step = "retry" => ~outcome.success
  /\ step = "contention" => current \in Throughput /\ (outcome.success => "after" \in checks)
  /\ step = "deliver" =>
       /\ outcome.infra \/ Before \subseteq checks
       /\ outcome.success /\ ~outcome.infra => Required(current) \subseteq checks
  /\ CountedResultsAreChecked

\* What the check after a run makes of an outcome.
LEMMA AfterOutcomes ==
  ASSUME NEW o \in OutcomeType, NEW s \in {"paused", "scheduled"}
  PROVE  LET p == [o EXCEPT !.status = s, !.success = FALSE, !.infra = TRUE]
         IN  p.infra /\ ~p.success
BY DEF OutcomeType

LEMMA BlockedOutcomes ==
  ASSUME NEW s
  PROVE  Blocked(s).infra /\ ~Blocked(s).success
BY DEF Blocked, NoOutcome

LEMMA JudgedOutcomes ==
  ASSUME NEW o \in OutcomeType, NEW r
  PROVE  /\ ~Judged(r, o).infra => ~o.infra
         /\ Judged(r, o).success => o.success /\ Valid(r, Judged(r, o))
<1>1. CASE o.err = "canceled"
  BY <1>1 DEF Judged, OutcomeType
<1>2. CASE o.err = "error"
  BY <1>2 DEF Judged, OutcomeType
<1>3. CASE o.err = "none"
  <2>1. Judged(r, o) = [o EXCEPT !.success = @ /\ Valid(r, o)]
    BY <1>3 DEF Judged
  <2>2. /\ Judged(r, o).infra = o.infra
        /\ Judged(r, o).evidence = o.evidence
        /\ Judged(r, o).success = (o.success /\ Valid(r, o))
    BY <2>1 DEF OutcomeType
  <2>3. QED
    BY <2>2 DEF Valid
<1>4. QED
  BY <1>1, <1>2, <1>3 DEF OutcomeType

LEMMA NextChecked ==
  ASSUME Typed, Checked, [Next]_vars
  PROVE  Checked'
<1>1. outcome \in OutcomeType
  BY DEF Typed, WorkTyped
<1>2. Required(current) = Before \union {"after"} \union (IF current \in Throughput THEN {"contention"} ELSE {})
  BY DEF Required, Before
<1>3. Before = {"before"} \union (IF current \in Throughput THEN {"load", "source"} ELSE {})
  BY DEF Required, Before
<1>4. ASSUME current' = current
      PROVE  Before' = Before /\ Required(current)' = Required(current)
  BY <1>4 DEF Before, Required
<1>5. CASE BaselineDown \/ RecoveryCancelled \/ RecheckDown \/ LoadBlocks \/ SourceDown
  <2>1. step' = "deliver" /\ outcome'.infra
    BY <1>5, BlockedOutcomes
       DEF BaselineDown, RecoveryCancelled, RecheckDown, LoadBlocks, SourceDown, Goto
  <2>2. QED
    BY <2>1 DEF Checked, CountedResultsAreChecked
<1>6. CASE BaselineUp \/ RecoveryWaited \/ RecheckUp
  BY <1>6 DEF Checked, CountedResultsAreChecked, BaselineUp, RecoveryWaited, RecheckUp, Goto, history
<1>7. CASE LoadClean
  BY <1>7 DEF Checked, CountedResultsAreChecked, LoadClean, Goto, executorVars
<1>8. CASE LoadNotNeeded \/ SourceUp
  <2>1. /\ step' = "run" /\ current' = current
        /\ Before \subseteq checks'
    BY <1>3, <1>8 DEF Checked, LoadNotNeeded, SourceUp, Goto, executorVars
  <2>2. QED
    BY <1>4, <2>1 DEF Checked, CountedResultsAreChecked
<1>9. CASE RunSucceeds \/ RunFails \/ RunCancelled
  <2>1. /\ Before \subseteq checks' /\ current' = current
        /\ step' \in {"after", "retry", "deliver"}
        /\ step' # "after" => ~outcome'.success
    BY <1>9 DEF Checked, RunSucceeds, RunFails, RunCancelled, Goto, executorVars, history, NoOutcome
  <2>2. QED
    BY <1>4, <2>1 DEF Checked, CountedResultsAreChecked
<1>10. CASE AfterDown
  <2>1. outcome'.infra /\ ~outcome'.success
    BY <1>1, <1>10, AfterOutcomes DEF AfterDown
  <2>2. /\ Before \subseteq checks' /\ current' = current
        /\ step' \in {"contention", "deliver"}
        /\ step' = "contention" => current \in Throughput
    BY <1>10 DEF Checked, AfterDown, executorVars
  <2>3. QED
    BY <1>4, <2>1, <2>2 DEF Checked, CountedResultsAreChecked
<1>11. CASE AfterUp
  <2>1. /\ Before \subseteq checks' /\ "after" \in checks' /\ current' = current
        /\ step' = IF current \in Throughput THEN "contention" ELSE "deliver"
    BY <1>11 DEF Checked, AfterUp, executorVars
  <2>2. QED
    BY <1>2, <1>4, <2>1 DEF Checked, CountedResultsAreChecked
<1>12. CASE Contended
  <2>1. step' = "deliver" /\ outcome'.infra
    BY <1>1, <1>12, AfterOutcomes DEF Contended, Goto
  <2>2. QED
    BY <2>1 DEF Checked, CountedResultsAreChecked
<1>13. CASE Uncontended
  <2>1. /\ step' = "deliver" /\ UNCHANGED <<current, outcome>>
        /\ Before \subseteq checks' /\ "contention" \in checks'
        /\ outcome.success => "after" \in checks'
    BY <1>13 DEF Checked, Uncontended, Goto, executorVars
  <2>2. QED
    BY <1>2, <1>4, <2>1 DEF Checked, CountedResultsAreChecked
<1>14. CASE RetryExhausted \/ RetryInterrupted
  <2>1. \A e \in {"canceled", "error"} : [outcome EXCEPT !.err = e].success = outcome.success
    BY <1>1 DEF OutcomeType
  <2>2. /\ step' = "deliver" /\ current' = current
        /\ Before \subseteq checks' /\ ~outcome'.success
    BY <1>14, <2>1 DEF Checked, RetryExhausted, RetryInterrupted, Goto, executorVars, history
  <2>3. QED
    BY <1>4, <2>2 DEF Checked, CountedResultsAreChecked
<1>15. CASE Deliver
  <2>1. /\ step = "deliver" /\ step' = "record" /\ UNCHANGED <<current, checks>>
        /\ outcome' = Judged(current, outcome)
    BY <1>15 DEF Deliver, Goto, executorVars
  <2>2. ASSUME ~outcome'.infra
        PROVE  Before \subseteq checks
    BY <1>1, <2>1, <2>2, JudgedOutcomes DEF Checked
  <2>3. ASSUME ~outcome'.infra, outcome'.success
        PROVE  Required(current) \subseteq checks /\ Valid(current, outcome')
    BY <1>1, <2>1, <2>3, JudgedOutcomes DEF Checked
  <2>4. Valid(current, outcome)' = Valid(current, outcome')
    BY <2>1 DEF Valid
  <2>5. CountedResultsAreChecked'
    BY <1>4, <2>1, <2>2, <2>3, <2>4 DEF CountedResultsAreChecked, Before
  <2>6. QED
    BY <2>1, <2>5 DEF Checked
<1>16. CASE RetryAgain \/ Record \/ TakeNext \/ OnStart \/ Restart
  <2>1. step' \in {"baseline", "idle", "onstart"}
    BY <1>16 DEF RetryAgain, Record, TakeNext, OnStart, Restart, Goto
  <2>2. QED
    BY <2>1 DEF Checked, CountedResultsAreChecked
<1>17. CASE ~TakeNext /\ ~Measuring /\ ~Restart
  <2>1. UNCHANGED <<step, outcome, current, checks>>
    BY <1>17, OthersKeep DEF work
  <2>2. Valid(current, outcome)' = Valid(current, outcome)
    BY <2>1 DEF Valid
  <2>3. QED
    BY <1>4, <2>1, <2>2 DEF Checked, CountedResultsAreChecked
<1>18. QED
  BY <1>5, <1>6, <1>7, <1>8, <1>9, <1>10, <1>11, <1>12, <1>13, <1>14, <1>15, <1>16, <1>17 DEF Measuring

LEMMA WorkerInvariant == Spec => [](Confirmed /\ Stopping /\ Checked)
<1>1. Init => Confirmed /\ Stopping /\ Checked
  BY DEF Init, Confirmed, Stopping, Checked, CountedResultsAreChecked
<1>2. QED
  BY <1>1, InitTyped, NextTyped, NextConfirmed, NextStopping, NextChecked, PTL DEF Spec

\* No measurement starts on a network that has only just come back.
THEOREM RecoveryIsConfirmed == Spec => []RecoveryConfirmed
<1>1. Confirmed => RecoveryConfirmed
  BY DEF Confirmed, RecoveryConfirmed
<1>2. QED
  BY <1>1, WorkerInvariant, PTL

\* A job that was cancelled begins at most one measurement more.
THEOREM CancelledJobsStop == Spec => []CancellationStopsAttempts
<1>1. Stopping => CancellationStopsAttempts
  BY DEF Stopping, CancellationStopsAttempts
<1>2. QED
  BY <1>1, WorkerInvariant, PTL

\* What counts for a node has passed every check the design asks for.
THEOREM OnlyCheckedResultsCount == Spec => []CountedResultsAreChecked
<1>1. Checked => CountedResultsAreChecked
  BY DEF Checked
<1>2. QED
  BY <1>1, WorkerInvariant, PTL
=============================================================================
