--------------------------- MODULE ProcessManager ---------------------------
(***************************************************************************)
(* internal/infrastructure/mihomo/process.go, the supervisor of the Mihomo *)
(* core, and those who call it in cmd/bagualu/main.go: the main goroutine, *)
(* which starts the core, has it monitored and stops it at shutdown, and   *)
(* the HTTP requests that install another binary (stop, replace, start,    *)
(* monitor).  Start, Stop, the goroutine that waits for a process and the  *)
(* goroutines of Monitor meet under m.mu; each critical section, and each  *)
(* wait between two of them, is a step of its own.                         *)
(***************************************************************************)
EXTENDS Integers, FiniteSets

CONSTANTS
  Main,         \* the main goroutine
  Installer,    \* requests to install a binary
  MaxRestarts,  \* maxRestarts of Monitor
  CoreLimit,    \* bound: how many processes may be started
  None

Caller == Installer \union {Main}

ASSUME ProcessAssumption ==
  /\ Main \notin Installer
  /\ IsFiniteSet(Installer)
  /\ MaxRestarts \in Nat
  /\ CoreLimit \in Nat
  /\ None \notin Nat

VARIABLES
  command,       \* m.command: the process it is about, or None
  done,          \* m.done: the process whose end closes it, or None
  stopRequested, \* m.stopRequested
  restartCount,  \* m.restartCount
  failed,        \* m.failed
  started,       \* number of processes started so far
  core,          \* each process and the goroutine that waits for it
  caller,        \* progress of the callers
  monitor,       \* the goroutine of the Monitor call each caller has made
  ctxDone,       \* runCtx is done
  late           \* history: an installation started the core after that

manager == <<command, done, stopRequested, restartCount, failed>>
vars    == <<manager, started, core, caller, monitor, ctxDone, late>>

Process == 1 .. CoreLimit

\* "exited": the process is gone, "waited": cmd.Wait has set ProcessState,
\* "closed": done is closed, "reaped": its goroutine has ended.
CoreState == {"unused", "running", "exited", "waited", "closed", "reaped"}

NoMonitor == [pc |-> "none", channel |-> None]

Init ==
  /\ command = None
  /\ done = None
  /\ stopRequested = FALSE
  /\ restartCount = 0
  /\ failed = FALSE
  /\ started = 0
  /\ core = [p \in Process |-> "unused"]
  /\ caller = [c \in Caller |-> [pc |-> IF c = Main THEN "start" ELSE "idle", target |-> None, last |-> FALSE]]
  /\ monitor = [c \in Caller |-> NoMonitor]
  /\ ctxDone = FALSE
  /\ late = FALSE

-----------------------------------------------------------------------------
(* Start, for whoever calls it.                                              *)

\* m.command has a process whose end cmd.Wait has not recorded.
AlreadyStarted == command # None /\ core[command] \in {"running", "exited"}

Launch ==
  /\ ~AlreadyStarted
  /\ started < CoreLimit
  /\ started' = started + 1
  /\ core' = [core EXCEPT ![started + 1] = "running"]
  /\ command' = started + 1
  /\ done' = started + 1
  /\ stopRequested' = FALSE
  /\ failed' = FALSE
  /\ UNCHANGED restartCount

\* No binary, no pipe or no process; m.done is left as it was.
LaunchFails ==
  /\ ~AlreadyStarted
  /\ command' = None
  /\ stopRequested' = FALSE
  /\ failed' = FALSE
  /\ UNCHANGED <<done, restartCount, started, core>>

-----------------------------------------------------------------------------
(* A process, and the goroutine Start leaves to wait for it.                 *)

CoreExits(p) ==   \* it crashes, or the context it was started with is done
  /\ core[p] = "running"
  /\ core' = [core EXCEPT ![p] = "exited"]
  /\ UNCHANGED <<manager, started, caller, monitor, ctxDone, late>>

CoreWaited(p) ==
  /\ core[p] = "exited"
  /\ core' = [core EXCEPT ![p] = "waited"]
  /\ UNCHANGED <<manager, started, caller, monitor, ctxDone, late>>

CoreClosed(p) ==
  /\ core[p] = "waited"
  /\ core' = [core EXCEPT ![p] = "closed"]
  /\ UNCHANGED <<manager, started, caller, monitor, ctxDone, late>>

CoreReapedBlindly(p) ==   \* mutant: m.command may already be a newer process
  /\ core[p] = "closed"
  /\ core' = [core EXCEPT ![p] = "reaped"]
  /\ command' = None
  /\ done' = None
  /\ UNCHANGED <<stopRequested, restartCount, failed, started, caller, monitor, ctxDone, late>>

CoreReaped(p) ==
  /\ core[p] = "closed"
  /\ core' = [core EXCEPT ![p] = "reaped"]
  /\ command' = IF command = p THEN None ELSE command
  /\ done' = IF command = p THEN None ELSE done
  /\ UNCHANGED <<stopRequested, restartCount, failed, started, caller, monitor, ctxDone, late>>

Reap(p) == CoreWaited(p) \/ CoreClosed(p) \/ CoreReaped(p)

Ended(p) == core[p] \in {"closed", "reaped"}   \* the channel of p is closed

-----------------------------------------------------------------------------
(* The goroutine of a Monitor call.                                          *)

Goto(m, from, to) ==
  /\ monitor[m].pc = from
  /\ monitor' = [monitor EXCEPT ![m].pc = to]

MonitorReads(m) ==
  /\ monitor[m].pc = "read"
  /\ monitor' = [monitor EXCEPT ![m] = [pc |-> IF done = None THEN "gone" ELSE "wait", channel |-> done]]
  /\ UNCHANGED <<manager, started, core, caller, ctxDone, late>>

MonitorLeaves(m) ==   \* one of the two selects on ctx.Done
  /\ ctxDone
  /\ Goto(m, "wait", "gone") \/ Goto(m, "backoff", "gone")
  /\ UNCHANGED <<manager, started, core, caller, ctxDone, late>>

MonitorWakes(m) ==
  /\ Goto(m, "wait", "decide")
  /\ Ended(monitor[m].channel)
  /\ UNCHANGED <<manager, started, core, caller, ctxDone, late>>

MonitorDecidesLate(m) ==   \* mutant: the limit is compared with > instead of >=
  /\ monitor[m].pc = "decide"
  /\ LET limit == ~stopRequested /\ restartCount > MaxRestarts
         again == ~stopRequested /\ ~(failed \/ limit)
     IN /\ failed' = (failed \/ limit)
        /\ restartCount' = IF again THEN restartCount + 1 ELSE restartCount
        /\ monitor' = [monitor EXCEPT ![m].pc = IF again THEN "backoff" ELSE "gone"]
  /\ UNCHANGED <<command, done, stopRequested, started, core, caller, ctxDone, late>>

MonitorDecidesSilently(m) ==   \* mutant: giving up is not recorded
  /\ monitor[m].pc = "decide"
  /\ LET again == ~stopRequested /\ ~failed /\ restartCount < MaxRestarts
     IN /\ restartCount' = IF again THEN restartCount + 1 ELSE restartCount
        /\ monitor' = [monitor EXCEPT ![m].pc = IF again THEN "backoff" ELSE "gone"]
  /\ UNCHANGED <<command, done, stopRequested, failed, started, core, caller, ctxDone, late>>

MonitorDecidesUncounted(m) ==   \* mutant: restarts are not counted
  /\ monitor[m].pc = "decide"
  /\ failed' = (failed \/ (~stopRequested /\ restartCount >= MaxRestarts))
  /\ monitor' = [monitor EXCEPT ![m].pc = IF stopRequested \/ failed' THEN "gone" ELSE "backoff"]
  /\ UNCHANGED <<command, done, stopRequested, restartCount, started, core, caller, ctxDone, late>>

MonitorDecides(m) ==
  /\ monitor[m].pc = "decide"
  /\ LET limit == ~stopRequested /\ restartCount >= MaxRestarts
         again == ~stopRequested /\ ~(failed \/ limit)
     IN /\ failed' = (failed \/ limit)
        /\ restartCount' = IF again THEN restartCount + 1 ELSE restartCount
        /\ monitor' = [monitor EXCEPT ![m].pc = IF again THEN "backoff" ELSE "gone"]
  /\ UNCHANGED <<command, done, stopRequested, started, core, caller, ctxDone, late>>

MonitorWaited(m) ==   \* the timer
  /\ Goto(m, "backoff", "recheck")
  /\ UNCHANGED <<manager, started, core, caller, ctxDone, late>>

MonitorRechecks(m) ==
  /\ monitor[m].pc = "recheck"
  /\ monitor' = [monitor EXCEPT ![m].pc = IF stopRequested THEN "gone" ELSE "start"]
  /\ UNCHANGED <<manager, started, core, caller, ctxDone, late>>

MonitorStartsDetached(m) ==   \* mutant: the process is not started under ctx
  /\ Goto(m, "start", "read")
  /\ \/ AlreadyStarted /\ UNCHANGED <<manager, started, core>>
     \/ Launch
  /\ UNCHANGED <<caller, ctxDone, late>>

MonitorStarts(m) ==   \* exec starts nothing under a context that is done
  /\ Goto(m, "start", "read")
  /\ \/ AlreadyStarted /\ UNCHANGED <<manager, started, core>>
     \/ ~ctxDone /\ Launch
  /\ UNCHANGED <<caller, ctxDone, late>>

MonitorStartFails(m) ==
  /\ Goto(m, "start", "fail")
  /\ LaunchFails
  /\ UNCHANGED <<caller, ctxDone, late>>

MonitorFails(m) ==
  /\ Goto(m, "fail", "gone")
  /\ failed' = TRUE
  /\ UNCHANGED <<command, done, stopRequested, restartCount, started, core, caller, ctxDone, late>>

Monitoring(m) ==
  \/ MonitorReads(m) \/ MonitorLeaves(m) \/ MonitorWakes(m) \/ MonitorDecides(m)
  \/ MonitorWaited(m) \/ MonitorRechecks(m) \/ MonitorStarts(m) \/ MonitorStartFails(m)
  \/ MonitorFails(m)

-----------------------------------------------------------------------------
(* The callers.                                                              *)

Step(c, from, to) ==
  /\ caller[c].pc = from
  /\ caller' = [caller EXCEPT ![c].pc = to]

Install(c) ==   \* coreInstall and coreInstallUpload; the server listens by now
  /\ c \in Installer
  /\ caller[Main].pc \notin {"start", "monitor"}
  /\ Step(c, "idle", "stop")
  /\ UNCHANGED <<manager, started, core, monitor, ctxDone, late>>

\* Where Stop returns to: the installation, or what is left of the shutdown, in
\* which the deferred function of main calls it again.
Returned(c) ==
  [caller EXCEPT ![c] =
     [pc |-> IF c # Main THEN "install" ELSE IF @.last THEN "over" ELSE "stop",
      target |-> None, last |-> (c = Main)]]

StopIdle(c) ==
  /\ caller[c].pc = "stop"
  /\ command = None
  /\ stopRequested' = TRUE
  /\ caller' = Returned(c)
  /\ UNCHANGED <<command, done, restartCount, failed, started, core, monitor, ctxDone, late>>

StopKills(c) ==
  /\ caller[c].pc = "stop"
  /\ command # None
  /\ stopRequested' = TRUE
  /\ core' = [core EXCEPT ![command] = IF @ = "running" THEN "exited" ELSE @]
  /\ caller' = [caller EXCEPT ![c].target = command, ![c].pc = "stopping"]
  /\ UNCHANGED <<command, done, restartCount, failed, started, monitor, ctxDone, late>>

StopReturnsShared(c) ==   \* mutant: m.done is read again instead of kept
  /\ caller[c].pc = "stopping"
  /\ done # None /\ Ended(done)
  /\ command' = IF command = caller[c].target THEN None ELSE command
  /\ done' = IF command = caller[c].target THEN None ELSE done
  /\ caller' = Returned(c)
  /\ UNCHANGED <<stopRequested, restartCount, failed, started, core, monitor, ctxDone, late>>

StopReturns(c) ==   \* <-done, and the second critical section
  /\ caller[c].pc = "stopping"
  /\ Ended(caller[c].target)
  /\ command' = IF command = caller[c].target THEN None ELSE command
  /\ done' = IF command = caller[c].target THEN None ELSE done
  /\ caller' = Returned(c)
  /\ UNCHANGED <<stopRequested, restartCount, failed, started, core, monitor, ctxDone, late>>

Installed(c) ==   \* or not: the core is started again in either case
  /\ Step(c, "install", "start")
  /\ UNCHANGED <<manager, started, core, monitor, ctxDone, late>>

\* process.Start of main and of startCore, under a context that is never done.
CallerStarts(c) ==
  /\ Step(c, "start", "monitor")
  /\ \/ AlreadyStarted /\ UNCHANGED <<manager, started, core>>
     \/ Launch
  /\ late' = (late \/ (ctxDone /\ c # Main))
  /\ UNCHANGED <<monitor, ctxDone>>

CallerStartFails(c) ==
  /\ Step(c, "start", IF c = Main THEN "idle" ELSE "over")
  /\ LaunchFails
  /\ UNCHANGED <<monitor, ctxDone, late>>

CallerMonitors(c) ==
  /\ Step(c, "monitor", IF c = Main THEN "idle" ELSE "over")
  /\ monitor' = [monitor EXCEPT ![c].pc = "read"]
  /\ UNCHANGED <<manager, started, core, ctxDone, late>>

Signal ==   \* runCtx ends: a signal, or the management server has failed
  /\ ~ctxDone
  /\ ctxDone' = TRUE
  /\ UNCHANGED <<manager, started, core, caller, monitor, late>>

Shutdown ==
  /\ ctxDone
  /\ Step(Main, "idle", "stop")
  /\ UNCHANGED <<manager, started, core, monitor, ctxDone, late>>

Calling(c) ==
  \/ StopIdle(c) \/ StopKills(c) \/ StopReturns(c)
  \/ Installed(c) \/ CallerStarts(c) \/ CallerStartFails(c) \/ CallerMonitors(c)

\* The goroutines that are left when main is over die with it, at any moment:
\* what they could still do is kept.
Next ==
  \/ \E p \in Process : CoreExits(p) \/ Reap(p)
  \/ \E c \in Caller : Monitoring(c) \/ Install(c) \/ Calling(c)
  \/ Signal \/ Shutdown

(***************************************************************************)
(* Goroutines that can go on do; no process has to crash and nobody has to *)
(* install anything or shut down.                                          *)
(***************************************************************************)
Spec ==
  /\ Init /\ [][Next]_vars
  /\ \A p \in Process : WF_vars(Reap(p))
  /\ \A c \in Caller : WF_vars(Monitoring(c)) /\ WF_vars(Calling(c))

-----------------------------------------------------------------------------
(* Properties.                                                               *)

\* Every variable has its type; the count of restarts stays within maxRestarts.
TypeOK ==
  /\ command \in Process \union {None} /\ done \in Process \union {None}
  /\ stopRequested \in BOOLEAN /\ failed \in BOOLEAN
  /\ restartCount \in 0 .. MaxRestarts
  /\ started \in 0 .. CoreLimit
  /\ core \in [Process -> CoreState]
  /\ caller \in [Caller -> [pc : {"start", "monitor", "idle", "stop", "stopping", "install", "over"},
                            target : Process \union {None}, last : BOOLEAN]]
  /\ monitor \in [Caller -> [pc : {"none", "read", "wait", "decide", "backoff", "recheck",
                                   "start", "fail", "gone"},
                             channel : Process \union {None}]]
  /\ ctxDone \in BOOLEAN /\ late \in BOOLEAN

\* There is one core, and the manager knows it: a process that has not ended is
\* the one Stop would kill and Monitor would wait for, whoever started it and
\* whatever goroutines of earlier processes still have to do.
OneKnownCore ==
  \A p \in Process : core[p] \in {"running", "exited"} => command = p /\ done = p

\* SDD 5.1.1: crashes lead to at most maxRestarts automatic restarts, also when
\* several Monitor goroutines watch the same core.
RestartsAreBounded ==
  started <= 1 + Cardinality({i \in Installer : caller[i].pc \in {"monitor", "over"}}) + MaxRestarts

\* SDD 5.1.1: Bagualu stops its core before it exits, unless an installation has
\* started one during the shutdown.
ShutdownLeavesNoCore ==
  caller[Main].pc = "over" /\ ~late => \A p \in Process : core[p] # "running"

\* Stop does not wait for ever for the process it has killed.
StopsReturn ==
  \A c \in Caller : caller[c].pc = "stopping" ~> caller[c].pc # "stopping"

\* When a process ends that a Monitor goroutine waits for, a newer one is
\* started, or the manager reports that it gave up, unless the core was to stop.
WatchedCrashIsAnswered ==
  \A m \in Caller :
    monitor[m].pc = "wait" /\ Ended(monitor[m].channel)
      ~> \/ monitor[m].channel # None /\ started > monitor[m].channel
         \/ failed \/ stopRequested \/ ctxDone

-----------------------------------------------------------------------------
(* Statements of the documents and tests that the code does not keep.        *)

\* SDD 5.1.1: when the core ends unexpectedly Bagualu starts it again.
CrashIsAnswered ==
  \A p \in Process :
    core[p] = "exited" /\ ~stopRequested ~> started > p \/ failed \/ stopRequested \/ ctxDone

\* process_test.go: a manual stop does not allow an automatic restart, so that
\* no core runs while its binary is replaced.
StopPreventsRestart ==
  \A c \in Installer : caller[c].pc = "install" => \A p \in Process : core[p] # "running"

=============================================================================
