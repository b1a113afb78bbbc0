------------------------ MODULE ProcessManagerProofs ------------------------
(***************************************************************************)
(* Proofs about ProcessManager, for any number of installations, any limit *)
(* on restarts and any number of processes: types, the one core that the   *)
(* manager knows, the shutdown that leaves none behind, how often the core *)
(* is started, and that nobody waits for what cannot come.                 *)
(***************************************************************************)
EXTENDS ProcessManager, FiniteSetTheorems, TLAPS

\* Processes are numbered as they are started, and m.command and m.done are set
\* and reset together, but for a failed start.
NumberInv ==
  /\ \A p \in Process : core[p] = "unused" <=> p > started
  /\ command # None => done = command

KnownInv == NumberInv /\ OneKnownCore

\* From main's first Stop on no monitor can start a core, and once Stop has
\* killed the one there was, none runs.
ShutdownInv ==
  /\ caller[Main].pc \in {"stop", "stopping", "over"} => ctxDone
  /\ caller[Main].last => caller[Main].pc \in {"stop", "stopping", "over"}
  /\ (caller[Main].pc \in {"stopping", "over"} \/ caller[Main].last) /\ ~late =>
       \A p \in Process : core[p] # "running"

CallerType == [pc : {"start", "monitor", "idle", "stop", "stopping", "install", "over"},
               target : Process \union {None}, last : BOOLEAN]
MonitorType == [pc : {"none", "read", "wait", "decide", "backoff", "recheck", "start", "fail", "gone"},
                channel : Process \union {None}]

-----------------------------------------------------------------------------
(* Types.                                                                    *)

\* What a start leaves of the manager's state is typed.
LEMMA StartTyped ==
  ASSUME TypeOK, Launch \/ LaunchFails \/ UNCHANGED <<manager, started, core>>
  PROVE  /\ command' \in Process \union {None} /\ done' \in Process \union {None}
         /\ stopRequested' \in BOOLEAN /\ failed' \in BOOLEAN
         /\ restartCount' \in 0 .. MaxRestarts
         /\ started' \in 0 .. CoreLimit
         /\ core' \in [Process -> CoreState]
<1> USE ProcessAssumption DEF ProcessAssumption
<1>1. CASE Launch
  <2>1. started + 1 \in Process /\ started + 1 \in 0 .. CoreLimit
    BY <1>1 DEF Launch, TypeOK, Process
  <2>2. QED
    BY <1>1, <2>1 DEF Launch, TypeOK, CoreState
<1>2. CASE LaunchFails
  BY <1>2 DEF LaunchFails, TypeOK
<1>3. CASE UNCHANGED <<manager, started, core>>
  BY <1>3 DEF manager, TypeOK
<1>4. QED
  BY <1>1, <1>2, <1>3

\* The steps of a process keep the types.
LEMMA CoreTyped ==
  ASSUME TypeOK, NEW p \in Process, CoreExits(p) \/ Reap(p)
  PROVE  TypeOK'
BY DEF TypeOK, CoreExits, Reap, CoreWaited, CoreClosed, CoreReaped, manager, CoreState

\* The steps of a monitor goroutine keep the types.
LEMMA MonitorTyped ==
  ASSUME TypeOK, NEW m \in Caller, Monitoring(m)
  PROVE  TypeOK'
<1> USE ProcessAssumption DEF ProcessAssumption
<1>1. monitor \in [Caller -> MonitorType]
  BY DEF TypeOK, MonitorType
<1>2. monitor' \in [Caller -> MonitorType]
  <2>1. CASE MonitorReads(m)
    BY <1>1, <2>1 DEF MonitorReads, MonitorType, TypeOK
  <2>2. CASE ~MonitorReads(m)
    BY <1>1, <2>2 DEF Monitoring, MonitorLeaves, MonitorWakes, MonitorDecides, MonitorWaited,
       MonitorRechecks, MonitorStarts, MonitorStartFails, MonitorFails, Goto, MonitorType
  <2>3. QED
    BY <2>1, <2>2
<1>3. CASE MonitorStarts(m) \/ MonitorStartFails(m)
  <2>1. Launch \/ LaunchFails \/ UNCHANGED <<manager, started, core>>
    BY <1>3 DEF MonitorStarts, MonitorStartFails
  <2>2. UNCHANGED <<caller, ctxDone, late>>
    BY <1>3 DEF MonitorStarts, MonitorStartFails
  <2>3. QED
    BY <1>2, <2>1, <2>2, StartTyped DEF TypeOK, MonitorType
<1>4. CASE MonitorDecides(m)
  <2>1. restartCount' \in 0 .. MaxRestarts
    BY <1>4 DEF MonitorDecides, TypeOK
  <2>2. failed' \in BOOLEAN
    BY <1>4, Zenon DEF MonitorDecides, TypeOK
  <2>3. QED
    BY <1>2, <1>4, <2>1, <2>2 DEF MonitorDecides, TypeOK, MonitorType
<1>5. CASE MonitorFails(m)
  BY <1>2, <1>5 DEF MonitorFails, TypeOK, MonitorType
<1>6. CASE MonitorReads(m) \/ MonitorLeaves(m) \/ MonitorWakes(m) \/ MonitorWaited(m) \/ MonitorRechecks(m)
  BY <1>2, <1>6 DEF MonitorReads, MonitorLeaves, MonitorWakes, MonitorWaited, MonitorRechecks,
     manager, TypeOK, MonitorType
<1>7. QED
  BY <1>3, <1>4, <1>5, <1>6 DEF Monitoring

\* The steps of the callers keep the types.
LEMMA CallerTyped ==
  ASSUME TypeOK, NEW c \in Caller, Install(c) \/ Calling(c)
  PROVE  TypeOK'
<1> USE ProcessAssumption DEF ProcessAssumption
<1>1. caller \in [Caller -> CallerType] /\ Main \in Caller
  BY DEF TypeOK, CallerType, Caller
<1>2. CASE StopIdle(c) \/ StopReturns(c)
  <2>1. caller' = Returned(c)
    BY <1>2 DEF StopIdle, StopReturns
  <2>2. caller[c].last \in BOOLEAN
    BY <1>1 DEF CallerType
  <2>3. Returned(c)[c] \in CallerType
    BY <1>1, <2>2 DEF Returned, CallerType
  <2>4. Returned(c) \in [Caller -> CallerType]
    BY <1>1, <2>3 DEF Returned
  <2>5. QED
    BY <1>2, <2>1, <2>4 DEF StopIdle, StopReturns, TypeOK, CallerType
<1>3. CASE StopKills(c)
  <2>1. caller' \in [Caller -> CallerType]
    BY <1>1, <1>3 DEF StopKills, CallerType, TypeOK
  <2>2. core' \in [Process -> CoreState]
    BY <1>3 DEF StopKills, TypeOK, CoreState
  <2>3. QED
    BY <1>3, <2>1, <2>2 DEF StopKills, TypeOK, CallerType
<1>4. CASE CallerStarts(c) \/ CallerStartFails(c)
  <2>1. Launch \/ LaunchFails \/ UNCHANGED <<manager, started, core>>
    BY <1>4 DEF CallerStarts, CallerStartFails
  <2>2. caller' \in [Caller -> CallerType]
    BY <1>1, <1>4 DEF CallerStarts, CallerStartFails, Step, CallerType
  <2>3. late' \in BOOLEAN
    BY <1>4, Zenon DEF CallerStarts, CallerStartFails, TypeOK
  <2>4. UNCHANGED <<monitor, ctxDone>>
    BY <1>4 DEF CallerStarts, CallerStartFails
  <2>5. QED
    BY <2>1, <2>2, <2>3, <2>4, StartTyped DEF TypeOK, CallerType
<1>5. CASE CallerMonitors(c)
  BY <1>5 DEF CallerMonitors, Step, manager, TypeOK
<1>6. CASE Install(c) \/ Installed(c)
  <2>1. caller' \in [Caller -> CallerType]
    BY <1>1, <1>6 DEF Install, Installed, Step, CallerType
  <2>2. QED
    BY <1>6, <2>1 DEF Install, Installed, manager, TypeOK, CallerType
<1>7. QED
  BY <1>2, <1>3, <1>4, <1>5, <1>6 DEF Calling

\* Every variable keeps its type, and restarts stay within maxRestarts (TypeOK
\* of the runs).
THEOREM TypeCorrect == Spec => []TypeOK
<1> USE ProcessAssumption DEF ProcessAssumption
<1>1. Init => TypeOK
  <2> SUFFICES ASSUME Init PROVE TypeOK
    OBVIOUS
  <2>1. caller \in [Caller -> CallerType] /\ monitor \in [Caller -> MonitorType]
    BY DEF Init, CallerType, MonitorType, NoMonitor
  <2>2. stopRequested \in BOOLEAN /\ failed \in BOOLEAN /\ ctxDone \in BOOLEAN /\ late \in BOOLEAN
    BY Zenon DEF Init
  <2>3. QED
    BY <2>1, <2>2 DEF Init, TypeOK, CoreState, CallerType, MonitorType
<1>2. TypeOK /\ [Next]_vars => TypeOK'
  <2> SUFFICES ASSUME TypeOK, [Next]_vars PROVE TypeOK'
    OBVIOUS
  <2>1. CASE Signal
    BY <2>1 DEF Signal, manager, TypeOK
  <2>2. CASE Shutdown
    BY <2>2 DEF Shutdown, Step, manager, TypeOK, Caller
  <2>3. CASE UNCHANGED vars
    BY <2>3 DEF vars, manager, TypeOK
  <2>4. QED
    BY <2>1, <2>2, <2>3, CoreTyped, MonitorTyped, CallerTyped DEF Next
<1>3. QED
  BY <1>1, <1>2, PTL DEF Spec

-----------------------------------------------------------------------------
(* The one core.                                                             *)

\* No start, whoever makes it, leaves two processes or one that is not known.
LEMMA StartKnown ==
  ASSUME TypeOK, KnownInv, Launch \/ LaunchFails
  PROVE  KnownInv'
<1>1. \A p \in Process : core[p] \notin {"running", "exited"}
  <2>1. ~AlreadyStarted
    BY DEF Launch, LaunchFails
  <2>2. QED
    BY <2>1, ProcessAssumption DEF ProcessAssumption, KnownInv, OneKnownCore, AlreadyStarted, Process
<1>2. CASE Launch
  BY <1>1, <1>2 DEF KnownInv, NumberInv, OneKnownCore, Launch, TypeOK, Process
<1>3. CASE LaunchFails
  BY <1>1, <1>3 DEF KnownInv, NumberInv, OneKnownCore, LaunchFails
<1>4. QED
  BY <1>2, <1>3

\* Every step keeps KnownInv.
LEMMA KnownStep ==
  ASSUME TypeOK, KnownInv, [Next]_vars
  PROVE  KnownInv'
<1> USE ProcessAssumption DEF ProcessAssumption
<1>1. CASE Launch \/ LaunchFails
  BY <1>1, StartKnown
<1>2. CASE UNCHANGED <<manager, started, core>>
  BY <1>2 DEF KnownInv, NumberInv, OneKnownCore, manager
<1>3. ASSUME NEW p \in Process, CoreExits(p) \/ CoreWaited(p) \/ CoreClosed(p) PROVE KnownInv'
  BY <1>3 DEF KnownInv, NumberInv, OneKnownCore, CoreExits, CoreWaited, CoreClosed, manager, TypeOK
<1>4. ASSUME NEW p \in Process, CoreReaped(p) PROVE KnownInv'
  BY <1>4 DEF KnownInv, NumberInv, OneKnownCore, CoreReaped, TypeOK
<1>5. ASSUME NEW m \in Caller, MonitorDecides(m) \/ MonitorFails(m) PROVE KnownInv'
  BY <1>5 DEF KnownInv, NumberInv, OneKnownCore, MonitorDecides, MonitorFails
<1>6. ASSUME NEW c \in Caller, StopIdle(c) PROVE KnownInv'
  BY <1>6 DEF KnownInv, NumberInv, OneKnownCore, StopIdle
<1>7. ASSUME NEW c \in Caller, StopKills(c) PROVE KnownInv'
  BY <1>7 DEF KnownInv, NumberInv, OneKnownCore, StopKills, TypeOK
<1>8. ASSUME NEW c \in Caller, StopReturns(c) PROVE KnownInv'
  BY <1>8 DEF KnownInv, NumberInv, OneKnownCore, StopReturns, Ended
<1>9. QED
  <2>1. ASSUME NEW m \in Caller, Monitoring(m) PROVE KnownInv'
    BY <1>1, <1>2, <1>5, <2>1 DEF Monitoring, MonitorReads, MonitorLeaves, MonitorWakes, MonitorWaited,
       MonitorRechecks, MonitorStarts, MonitorStartFails
  <2>2. ASSUME NEW c \in Caller, Install(c) \/ Calling(c) PROVE KnownInv'
    BY <1>1, <1>2, <1>6, <1>7, <1>8, <2>2 DEF Install, Calling, Installed, CallerStarts,
       CallerStartFails, CallerMonitors
  <2>3. CASE Signal \/ Shutdown \/ UNCHANGED vars
    BY <1>2, <2>3 DEF Signal, Shutdown, vars
  <2>4. QED
    BY <1>3, <1>4, <2>1, <2>2, <2>3 DEF Next, Reap

\* KnownInv holds in every reachable state.
LEMMA KnownInvariant == Spec => []KnownInv
<1>1. Init => KnownInv
  BY ProcessAssumption DEF ProcessAssumption, Init, KnownInv, NumberInv, OneKnownCore, Process
<1>2. TypeOK /\ KnownInv /\ [Next]_vars => KnownInv'
  BY KnownStep
<1>3. QED
  BY <1>1, <1>2, TypeCorrect, PTL DEF Spec

\* At most one core has not ended, and m.command and m.done are about it, in any
\* interleaving of Start, Stop, monitors and reapers (SDD 5.1.1).
THEOREM CoreIsKnown == Spec => []OneKnownCore
BY KnownInvariant, PTL DEF KnownInv
-----------------------------------------------------------------------------
(* Shutdown.                                                                 *)

\* Every step keeps ShutdownInv.
LEMMA ShutdownStep ==
  ASSUME TypeOK, KnownInv, ShutdownInv, [Next]_vars
  PROVE  ShutdownInv'
<1> USE ProcessAssumption DEF ProcessAssumption
<1> Main \in Caller
  BY DEF Caller
<1>1. ASSUME NEW p \in Process, CoreExits(p) \/ Reap(p) PROVE ShutdownInv'
  BY <1>1 DEF ShutdownInv, CoreExits, Reap, CoreWaited, CoreClosed, CoreReaped, TypeOK
<1>2. ASSUME NEW m \in Caller, Monitoring(m) PROVE ShutdownInv'
  <2>1. CASE MonitorStarts(m)
    BY <2>1 DEF ShutdownInv, MonitorStarts, Launch
  <2>2. CASE ~MonitorStarts(m)
    BY <1>2, <2>2 DEF ShutdownInv, Monitoring, MonitorReads, MonitorLeaves, MonitorWakes, MonitorDecides,
       MonitorWaited, MonitorRechecks, MonitorStartFails, MonitorFails, LaunchFails
  <2>3. QED
    BY <2>1, <2>2
<1>3. ASSUME NEW c \in Caller, StopIdle(c) PROVE ShutdownInv'
  <2>1. \A p \in Process : core[p] # "running"
    BY <1>3 DEF StopIdle, KnownInv, OneKnownCore, Process
  <2>2. QED
    BY <1>3, <2>1 DEF ShutdownInv, StopIdle, Returned, TypeOK
<1>4. ASSUME NEW c \in Caller, StopKills(c) PROVE ShutdownInv'
  <2>1. \A p \in Process : core'[p] # "running"
    BY <1>4 DEF StopKills, KnownInv, OneKnownCore, TypeOK
  <2>2. QED
    BY <1>4, <2>1 DEF ShutdownInv, StopKills, TypeOK
<1>5. ASSUME NEW c \in Caller, StopReturns(c) PROVE ShutdownInv'
  BY <1>5 DEF ShutdownInv, StopReturns, Returned, TypeOK
<1>6. ASSUME NEW c \in Caller, CallerStarts(c) PROVE ShutdownInv'
  <2>1. CASE c = Main
    BY <1>6, <2>1 DEF ShutdownInv, CallerStarts, Step, TypeOK
  <2>2. CASE c # Main
    <3>1. caller'[Main] = caller[Main] /\ ctxDone' = ctxDone
      BY <1>6, <2>2 DEF CallerStarts, Step, TypeOK
    <3>2. CASE ctxDone
      BY <1>6, <2>2, <3>1, <3>2 DEF ShutdownInv, CallerStarts
    <3>3. CASE ~ctxDone
      BY <1>6, <3>1, <3>3 DEF ShutdownInv
    <3>4. QED
      BY <3>2, <3>3
  <2>3. QED
    BY <2>1, <2>2
<1>7. ASSUME NEW c \in Caller, CallerStartFails(c) PROVE ShutdownInv'
  BY <1>7 DEF ShutdownInv, CallerStartFails, LaunchFails, Step, TypeOK
<1>8. ASSUME NEW c \in Caller, Install(c) \/ Installed(c) \/ CallerMonitors(c) PROVE ShutdownInv'
  BY <1>8 DEF ShutdownInv, Install, Installed, CallerMonitors, Step, TypeOK
<1>9. CASE Signal \/ Shutdown
  BY <1>9 DEF ShutdownInv, Signal, Shutdown, Step, TypeOK
<1>10. CASE UNCHANGED vars
  BY <1>10 DEF ShutdownInv, vars
<1>11. QED
  BY <1>1, <1>2, <1>3, <1>4, <1>5, <1>6, <1>7, <1>8, <1>9, <1>10 DEF Next, Calling

\* After the last Stop of main no core runs, unless an installation has started
\* one since the shutdown began (SDD 5.1.1).
THEOREM ShutdownIsComplete == Spec => []ShutdownLeavesNoCore
<1>1. Init => ShutdownInv
  BY DEF Init, ShutdownInv, Caller
<1>2. TypeOK /\ KnownInv /\ ShutdownInv /\ [Next]_vars => ShutdownInv'
  BY ShutdownStep
<1>3. ShutdownInv => ShutdownLeavesNoCore
  BY DEF ShutdownInv, ShutdownLeavesNoCore
<1>4. QED
  BY <1>1, <1>2, <1>3, TypeCorrect, KnownInvariant, PTL DEF Spec
-----------------------------------------------------------------------------
(* How often the core is started.                                            *)

\* The monitors that have been granted a restart they have not yet made, and the
\* installations that have started the core.
Granted == {m \in Caller : monitor[m].pc \in {"backoff", "recheck", "start"}}
Installations == {i \in Installer : caller[i].pc \in {"monitor", "over"}}
MainStarts == IF caller[Main].pc = "start" THEN 0 ELSE 1

\* Every start is main's, an installation's or one that has been counted.
CountInv == started + Cardinality(Granted) <= restartCount + MainStarts + Cardinality(Installations)

LEMMA Finite ==
  /\ IsFiniteSet(Granted) /\ IsFiniteSet(Granted')
  /\ IsFiniteSet(Installations) /\ IsFiniteSet(Installations')
  /\ Cardinality(Granted) \in Nat /\ Cardinality(Granted') \in Nat
  /\ Cardinality(Installations) \in Nat /\ Cardinality(Installations') \in Nat
<1>1. IsFiniteSet(Installer) /\ IsFiniteSet(Caller)
  BY ProcessAssumption, FS_AddElement DEF ProcessAssumption, Caller
<1>2. /\ Granted \subseteq Caller /\ Granted' \subseteq Caller
      /\ Installations \subseteq Installer /\ Installations' \subseteq Installer
  BY DEF Granted, Installations
<1>3. /\ IsFiniteSet(Granted) /\ IsFiniteSet(Granted')
      /\ IsFiniteSet(Installations) /\ IsFiniteSet(Installations')
  BY <1>1, <1>2, FS_Subset
<1>4. QED
  BY <1>3, FS_CardinalityType

\* Main starts the core once.
LEMMA MainStartsOnce ==
  ASSUME caller'[Main].pc = "start" => caller[Main].pc = "start"
  PROVE  MainStarts' >= MainStarts
<1>1. MainStarts \in {0, 1} /\ MainStarts' \in {0, 1}
  BY DEF MainStarts
<1>2. MainStarts' = 0 => MainStarts = 0
  BY DEF MainStarts
<1>3. QED
  BY <1>1, <1>2

\* Main is not among those that install a binary and start the core again.
MainNeverInstalls == caller[Main].pc # "install"

LEMMA MainNeverInstallsStep ==
  ASSUME TypeOK, MainNeverInstalls, [Next]_vars
  PROVE  MainNeverInstalls'
<1>1. Main \in Caller /\ Main \notin Installer
  BY ProcessAssumption DEF Caller, ProcessAssumption
<1>2. ASSUME NEW p \in Process, CoreExits(p) \/ Reap(p) PROVE MainNeverInstalls'
  BY <1>2 DEF CoreExits, Reap, CoreWaited, CoreClosed, CoreReaped, MainNeverInstalls
<1>3. ASSUME NEW m \in Caller, Monitoring(m) PROVE MainNeverInstalls'
  BY <1>3 DEF Monitoring, MonitorReads, MonitorLeaves, MonitorWakes, MonitorDecides, MonitorWaited,
     MonitorRechecks, MonitorStarts, MonitorStartFails, MonitorFails, MainNeverInstalls
<1>4. ASSUME NEW c \in Caller, StopIdle(c) \/ StopReturns(c) PROVE MainNeverInstalls'
  <2>1. caller' = Returned(c)
    BY <1>4 DEF StopIdle, StopReturns
  <2>2. QED
    BY <1>1, <2>1 DEF Returned, TypeOK, MainNeverInstalls
<1>5. ASSUME NEW c \in Caller,
             StopKills(c) \/ Installed(c) \/ CallerStarts(c) \/ CallerStartFails(c) \/ CallerMonitors(c)
      PROVE  MainNeverInstalls'
  BY <1>1, <1>5 DEF StopKills, Installed, CallerStarts, CallerStartFails, CallerMonitors, Step, TypeOK,
     MainNeverInstalls
<1>6. ASSUME NEW c \in Caller, Install(c) PROVE MainNeverInstalls'
  BY <1>1, <1>6 DEF Install, Step, TypeOK, MainNeverInstalls
<1>7. CASE Signal \/ Shutdown \/ UNCHANGED vars
  BY <1>1, <1>7 DEF Signal, Shutdown, Step, TypeOK, vars, MainNeverInstalls
<1>8. QED
  BY <1>2, <1>3, <1>4, <1>5, <1>6, <1>7 DEF Next, Calling

\* A step that starts nothing grants nothing, unless it counts it.
LEMMA CountKept ==
  ASSUME TypeOK, CountInv, TypeOK',
         started' = started, restartCount' = restartCount,
         Granted' \subseteq Granted, Installations \subseteq Installations',
         MainStarts' >= MainStarts
  PROVE  CountInv'
<1>1. Cardinality(Granted') <= Cardinality(Granted)
  BY Finite, FS_Subset
<1>2. Cardinality(Installations) <= Cardinality(Installations')
  BY Finite, FS_Subset
<1>3. started \in Nat /\ restartCount \in Nat /\ MainStarts \in Nat /\ MainStarts' \in Nat
  BY ProcessAssumption DEF ProcessAssumption, TypeOK, MainStarts
<1>4. QED
  BY <1>1, <1>2, <1>3, Finite DEF CountInv

\* A start adds one process at most.
LEMMA StartCounts ==
  ASSUME TypeOK, Launch \/ LaunchFails \/ (AlreadyStarted /\ UNCHANGED <<manager, started, core>>)
  PROVE  started' \in {started, started + 1} /\ restartCount' = restartCount
BY DEF Launch, LaunchFails, manager

LEMMA CountStep ==
  ASSUME TypeOK, TypeOK', MainNeverInstalls, CountInv, [Next]_vars
  PROVE  CountInv'
<1>1. started \in Nat /\ restartCount \in Nat /\ MainStarts \in Nat /\ MainStarts' \in Nat
  BY ProcessAssumption DEF ProcessAssumption, TypeOK, MainStarts
<1>2. ASSUME NEW p \in Process, CoreExits(p) \/ Reap(p) PROVE CountInv'
  <2>1. UNCHANGED <<started, restartCount, caller, monitor>>
    BY <1>2 DEF CoreExits, Reap, CoreWaited, CoreClosed, CoreReaped, manager
  <2>2. QED
    BY <1>1, <2>1, CountKept DEF Granted, Installations, MainStarts
<1>3. ASSUME NEW m \in Caller, MonitorDecides(m) PROVE CountInv'
  <2>1. UNCHANGED <<started, caller>> /\ m \notin Granted
    BY <1>3 DEF MonitorDecides, Granted
  <2>2. CASE restartCount' = restartCount + 1
    <3>1. Granted' \subseteq Granted \union {m}
      BY <1>3 DEF MonitorDecides, Granted, TypeOK
    <3>2. Cardinality(Granted') <= Cardinality(Granted) + 1
      <4>1. IsFiniteSet(Granted \union {m}) /\ Cardinality(Granted \union {m}) = Cardinality(Granted) + 1
        BY <2>1, Finite, FS_AddElement
      <4>2. QED
        BY <3>1, <4>1, FS_Subset
    <3>3. MainStarts' = MainStarts /\ Installations' = Installations
      BY <2>1 DEF MainStarts, Installations
    <3>4. QED
      BY <1>1, <2>1, <2>2, <3>2, <3>3, Finite DEF CountInv
  <2>3. CASE restartCount' # restartCount + 1
    <3>1. restartCount' = restartCount /\ Granted' \subseteq Granted
      BY <1>1, <1>3, <2>3 DEF MonitorDecides, Granted, TypeOK
    <3>2. QED
      BY <1>1, <2>1, <3>1, CountKept DEF Installations, MainStarts
  <2>4. QED
    BY <2>2, <2>3
<1>4. ASSUME NEW m \in Caller, MonitorStarts(m) PROVE CountInv'
  <2>1. started' \in {started, started + 1} /\ restartCount' = restartCount /\ caller' = caller
    BY <1>4, StartCounts DEF MonitorStarts
  <2>2. m \in Granted /\ Granted' \subseteq Granted \ {m}
    BY <1>4 DEF MonitorStarts, Goto, Granted, TypeOK
  <2>3. Cardinality(Granted') <= Cardinality(Granted) - 1
    <3>1. IsFiniteSet(Granted \ {m}) /\ Cardinality(Granted \ {m}) = Cardinality(Granted) - 1
      BY <2>2, Finite, FS_RemoveElement
    <3>2. QED
      BY <2>2, <3>1, FS_Subset
  <2>4. MainStarts' = MainStarts /\ Installations' = Installations
    BY <2>1 DEF MainStarts, Installations
  <2>5. QED
    BY <1>1, <2>1, <2>3, <2>4, Finite DEF CountInv
<1>5. ASSUME NEW m \in Caller, Monitoring(m), ~MonitorDecides(m), ~MonitorStarts(m) PROVE CountInv'
  <2>1. UNCHANGED <<started, restartCount, caller>>
    BY <1>5 DEF Monitoring, MonitorReads, MonitorLeaves, MonitorWakes, MonitorWaited, MonitorRechecks,
       MonitorStartFails, MonitorFails, LaunchFails, manager
  <2>2. Granted' \subseteq Granted
    BY <1>5 DEF Monitoring, MonitorReads, MonitorLeaves, MonitorWakes, MonitorWaited, MonitorRechecks,
       MonitorStartFails, MonitorFails, Goto, Granted, TypeOK
  <2>3. QED
    BY <1>1, <2>1, <2>2, CountKept DEF Installations, MainStarts
<1>6. ASSUME NEW c \in Caller, CallerStarts(c) PROVE CountInv'
  <2>1. started' \in {started, started + 1} /\ restartCount' = restartCount /\ Granted' = Granted
    BY <1>6, StartCounts DEF CallerStarts, Granted
  <2>2. CASE c = Main
    <3>1. MainStarts' = 1 /\ MainStarts = 0
      BY <1>6, <2>2 DEF CallerStarts, Step, MainStarts, TypeOK
    <3>2. Installations' = Installations
      BY <1>6, <2>2, ProcessAssumption DEF CallerStarts, Step, Installations, TypeOK, ProcessAssumption, Caller
    <3>3. QED
      BY <1>1, <2>1, <3>1, <3>2, Finite DEF CountInv
  <2>3. CASE c # Main
    <3>1. MainStarts' = MainStarts
      BY <1>6, <2>3 DEF CallerStarts, Step, MainStarts, TypeOK
    <3>2. c \notin Installations /\ Installations' = Installations \union {c}
      BY <1>6, <2>3 DEF CallerStarts, Step, Installations, TypeOK, Caller
    <3>3. Cardinality(Installations') = Cardinality(Installations) + 1
      BY <3>2, Finite, FS_AddElement
    <3>4. QED
      BY <1>1, <2>1, <3>1, <3>3, Finite DEF CountInv
  <2>4. QED
    BY <2>2, <2>3
<1>7. ASSUME NEW c \in Caller, CallerStartFails(c) \/ CallerMonitors(c) PROVE CountInv'
  <2>1. UNCHANGED <<started, restartCount>>
    BY <1>7 DEF CallerStartFails, CallerMonitors, LaunchFails, manager
  <2>2. Granted' \subseteq Granted
    BY <1>7 DEF CallerStartFails, CallerMonitors, Granted, TypeOK
  <2>3. Installations \subseteq Installations'
    BY <1>7, ProcessAssumption
       DEF CallerStartFails, CallerMonitors, Step, Installations, TypeOK, Caller, ProcessAssumption
  <2>4. caller'[Main].pc = "start" => caller[Main].pc = "start"
    BY <1>7 DEF CallerStartFails, CallerMonitors, Step, TypeOK, Caller
  <2>5. QED
    BY <2>1, <2>2, <2>3, <2>4, CountKept, MainStartsOnce
<1>8. ASSUME NEW c \in Caller, StopIdle(c) \/ StopKills(c) \/ StopReturns(c) \/ Installed(c) \/ Install(c)
      PROVE  CountInv'
  <2>1. UNCHANGED <<started, restartCount, monitor>>
    BY <1>8 DEF StopIdle, StopKills, StopReturns, Installed, Install, manager
  <2>2. caller[c].pc \in {"stop", "stopping", "install", "idle"}
    BY <1>8 DEF StopIdle, StopKills, StopReturns, Installed, Install, Step
  <2>3. \A d \in Caller : d # c => caller'[d] = caller[d]
    BY <1>8 DEF StopIdle, StopKills, StopReturns, Installed, Install, Step, Returned, TypeOK
  <2>4. c \notin Installations /\ MainStarts' >= MainStarts
    <3>1. c \notin Installations
      BY <2>2 DEF Installations
    <3>2. CASE c # Main
      BY <2>3, <3>1, <3>2, MainStartsOnce DEF Caller
    <3>3. CASE c = Main
      <4>1. caller'[Main].pc # "start"
        <5>1. ~Install(c) /\ Main \in Caller
          BY <3>3, ProcessAssumption DEF Install, ProcessAssumption, Caller
        <5>2. CASE Installed(c)
          BY <3>3, <5>2 DEF Installed, Step, MainNeverInstalls
        <5>3. CASE StopKills(c)
          BY <3>3, <5>1, <5>3 DEF StopKills, TypeOK
        <5>4. CASE StopIdle(c) \/ StopReturns(c)
          <6>1. caller' = Returned(c)
            BY <5>4 DEF StopIdle, StopReturns
          <6>2. QED
            BY <3>3, <5>1, <6>1 DEF Returned, TypeOK
        <5>5. QED
          BY <1>8, <5>1, <5>2, <5>3, <5>4
      <4>2. QED
        BY <3>1, <4>1, MainStartsOnce
    <3>4. QED
      BY <3>1, <3>2, <3>3
  <2>5. Installations \subseteq Installations'
    BY <2>3, <2>4 DEF Installations, Caller
  <2>6. QED
    BY <2>1, <2>4, <2>5, CountKept DEF Granted
<1>9. CASE Signal \/ Shutdown
  <2>1. UNCHANGED <<started, restartCount, monitor>>
    BY <1>9 DEF Signal, Shutdown, manager
  <2>2. Installations' = Installations /\ MainStarts' >= MainStarts
    BY <1>9, ProcessAssumption
       DEF Signal, Shutdown, Step, Installations, MainStarts, TypeOK, Caller, ProcessAssumption
  <2>3. QED
    BY <2>1, <2>2, CountKept DEF Granted
<1>10. CASE UNCHANGED vars
  BY <1>1, <1>10, CountKept DEF vars, manager, Granted, Installations, MainStarts
<1>11. QED
  BY <1>2, <1>3, <1>4, <1>5, <1>6, <1>7, <1>8, <1>9, <1>10 DEF Next, Calling, Monitoring

\* However many monitors watch the core, crashes start it at most maxRestarts
\* times (SDD 5.1.1).
THEOREM CrashesAreBounded == Spec => []RestartsAreBounded
<1>1. Init => CountInv
  <2> SUFFICES ASSUME Init PROVE CountInv
    OBVIOUS
  <2>1. Granted = {} /\ Installations = {} /\ MainStarts = 0
    BY ProcessAssumption DEF Init, Granted, Installations, MainStarts, NoMonitor, Caller, ProcessAssumption
  <2>2. QED
    BY <2>1, FS_EmptySet DEF Init, CountInv
<1>2. TypeOK /\ TypeOK' /\ MainNeverInstalls /\ CountInv /\ [Next]_vars => CountInv'
  BY CountStep
<1>3. TypeOK /\ CountInv => RestartsAreBounded
  <2> SUFFICES ASSUME TypeOK, CountInv PROVE RestartsAreBounded
    OBVIOUS
  <2>1. started \in Nat /\ restartCount \in 0 .. MaxRestarts /\ MainStarts \in {0, 1}
    BY ProcessAssumption DEF ProcessAssumption, TypeOK, MainStarts
  <2>2. QED
    BY <2>1, Finite, ProcessAssumption DEF CountInv, RestartsAreBounded, Installations, ProcessAssumption
<1>4. Init => MainNeverInstalls
  BY DEF Init, MainNeverInstalls, Caller
<1>5. TypeOK /\ MainNeverInstalls /\ [Next]_vars => MainNeverInstalls'
  BY MainNeverInstallsStep
<1>6. QED
  BY <1>1, <1>2, <1>3, <1>4, <1>5, TypeCorrect, PTL DEF Spec

-----------------------------------------------------------------------------
(* Whom a goroutine waits for.                                               *)

\* What has happened to a process that has been killed.
Gone == {"exited", "waited", "closed", "reaped"}

\* The channel of a process that has been started is closed some time after the
\* process ends; that of a process never started would not be.  A Stop that
\* waits has killed its process, and a monitor waits for a process that was
\* started.
StopInv ==
  \A c \in Caller : caller[c].pc = "stopping" =>
    /\ caller[c].target \in Process
    /\ core[caller[c].target] \in Gone

WatchInv ==
  \A m \in Caller : monitor[m].pc = "wait" =>
    monitor[m].channel \in Process /\ core[monitor[m].channel] # "unused"

ManagerInv ==
  /\ command # None => core[command] # "unused"
  /\ done # None => core[done] # "unused"

WaitInv == ManagerInv /\ StopInv /\ WatchInv

\* Nobody waits for what cannot come: Stop waits only for a process it has
\* killed, and a monitor only for one that has ended or that the manager still
\* knows, so that the next Stop kills it.
WaitsCanEnd ==
  /\ StopInv
  /\ \A m \in Caller : monitor[m].pc = "wait" =>
       \/ monitor[m].channel \in Process /\ core[monitor[m].channel] \in {"waited", "closed", "reaped"}
       \/ monitor[m].channel = command /\ command \in Process

\* A process is started once and never comes back.
LEMMA CoresGoForward ==
  ASSUME TypeOK, NumberInv, [Next]_vars, NEW p \in Process
  PROVE  /\ core[p] # "unused" => core'[p] # "unused"
         /\ core[p] \in Gone => core'[p] \in Gone
<1>1. CASE Launch
  <2>1. started + 1 \in Process /\ core[started + 1] = "unused"
    BY <1>1, ProcessAssumption DEF ProcessAssumption, Launch, TypeOK, NumberInv, Process, CoreState
  <2>2. QED
    BY <1>1, <2>1 DEF Launch, TypeOK, Gone
<1>2. CASE UNCHANGED core
  BY <1>2
<1>3. ASSUME NEW q \in Process, CoreExits(q) \/ Reap(q)
      PROVE  (core[p] # "unused" => core'[p] # "unused") /\ (core[p] \in Gone => core'[p] \in Gone)
  BY <1>3 DEF CoreExits, Reap, CoreWaited, CoreClosed, CoreReaped, TypeOK, Gone
<1>4. ASSUME NEW c \in Caller, StopKills(c)
      PROVE  (core[p] # "unused" => core'[p] # "unused") /\ (core[p] \in Gone => core'[p] \in Gone)
  BY <1>4 DEF StopKills, TypeOK, Gone
<1>5. ASSUME NEW c \in Caller, Monitoring(c) PROVE Launch \/ UNCHANGED core
  BY <1>5 DEF Monitoring, MonitorReads, MonitorLeaves, MonitorWakes, MonitorDecides, MonitorWaited,
     MonitorRechecks, MonitorStarts, MonitorStartFails, MonitorFails, LaunchFails
<1>6. ASSUME NEW c \in Caller, Install(c) \/ Calling(c), ~StopKills(c) PROVE Launch \/ UNCHANGED core
  BY <1>6 DEF Install, Calling, StopIdle, StopReturns, Installed, CallerStarts, CallerStartFails,
     CallerMonitors, LaunchFails
<1>7. CASE Signal \/ Shutdown \/ UNCHANGED vars
  BY <1>2, <1>7 DEF Signal, Shutdown, vars
<1>8. QED
  BY <1>1, <1>2, <1>3, <1>4, <1>5, <1>6, <1>7 DEF Next

\* m.command and m.done are about processes that have been started.
LEMMA ManagerStep ==
  ASSUME TypeOK, KnownInv, ManagerInv, [Next]_vars
  PROVE  ManagerInv'
<1> USE ProcessAssumption DEF ProcessAssumption
<1>1. CASE Launch
  <2>1. started + 1 \in Process /\ core'[started + 1] = "running"
    BY <1>1 DEF Launch, TypeOK, Process
  <2>2. QED
    BY <1>1, <2>1 DEF Launch, ManagerInv
<1>2. CASE command' \in {command, None} /\ done' \in {done, None}
  BY <1>2, CoresGoForward DEF ManagerInv, KnownInv, TypeOK
<1>3. ASSUME NEW p \in Process, CoreExits(p) \/ Reap(p)
      PROVE  command' \in {command, None} /\ done' \in {done, None}
  BY <1>3 DEF CoreExits, Reap, CoreWaited, CoreClosed, CoreReaped, manager
<1>4. ASSUME NEW c \in Caller, Monitoring(c)
      PROVE  Launch \/ (command' \in {command, None} /\ done' \in {done, None})
  BY <1>4 DEF Monitoring, MonitorReads, MonitorLeaves, MonitorWakes, MonitorDecides, MonitorWaited,
     MonitorRechecks, MonitorStarts, MonitorStartFails, MonitorFails, LaunchFails, manager
<1>5. ASSUME NEW c \in Caller, Install(c) \/ Calling(c)
      PROVE  Launch \/ (command' \in {command, None} /\ done' \in {done, None})
  BY <1>5 DEF Install, Calling, StopIdle, StopKills, StopReturns, Installed, CallerStarts,
     CallerStartFails, CallerMonitors, LaunchFails, manager
<1>6. CASE Signal \/ Shutdown \/ UNCHANGED vars
  BY <1>2, <1>6 DEF Signal, Shutdown, vars, manager
<1>7. QED
  BY <1>1, <1>2, <1>3, <1>4, <1>5, <1>6 DEF Next

\* A Stop that waits has killed the process it waits for, and goes on waiting
\* for that one, whatever becomes of m.command meanwhile.
LEMMA StopStep ==
  ASSUME TypeOK, KnownInv, ManagerInv, StopInv, [Next]_vars
  PROVE  StopInv'
<1> SUFFICES ASSUME NEW d \in Caller, caller'[d].pc = "stopping"
             PROVE  caller'[d].target \in Process /\ core'[caller'[d].target] \in Gone
  BY DEF StopInv, Gone
<1>1. CASE caller'[d] = caller[d]
  BY <1>1, CoresGoForward DEF StopInv, KnownInv, Gone
<1>2. CASE StopKills(d)
  <2>1. command \in Process /\ core[command] \in {"running", "exited", "waited", "closed", "reaped"}
    BY <1>2 DEF StopKills, TypeOK, ManagerInv, CoreState
  <2>2. core'[command] \in Gone
    BY <1>2, <2>1 DEF StopKills, TypeOK, Gone
  <2>3. caller'[d].target = command
    BY <1>2 DEF StopKills, TypeOK
  <2>4. QED
    BY <2>1, <2>2, <2>3
<1>3. ASSUME NEW c \in Caller, Install(c) \/ Calling(c) PROVE caller'[d] = caller[d] \/ StopKills(d)
  <2>1. CASE c # d
    BY <1>3, <2>1 DEF Install, Calling, StopIdle, StopKills, StopReturns, Installed, CallerStarts,
       CallerStartFails, CallerMonitors, Step, Returned, TypeOK
  <2>2. CASE c = d /\ (StopIdle(d) \/ StopReturns(d))
    <3>1. caller'[d].pc # "stopping"
      BY <2>2 DEF StopIdle, StopReturns, Returned, TypeOK
    <3>2. QED
      BY <3>1
  <2>3. CASE c = d /\ ~(StopIdle(d) \/ StopReturns(d) \/ StopKills(d))
    <3>1. caller'[d].pc # "stopping"
      BY <1>3, <2>3 DEF Install, Calling, Installed, CallerStarts, CallerStartFails, CallerMonitors,
         Step, TypeOK
    <3>2. QED
      BY <3>1
  <2>4. QED
    BY <2>1, <2>2, <2>3
<1>4. ASSUME NEW c \in Caller, Monitoring(c) PROVE caller' = caller
  BY <1>4 DEF Monitoring, MonitorReads, MonitorLeaves, MonitorWakes, MonitorDecides, MonitorWaited,
     MonitorRechecks, MonitorStarts, MonitorStartFails, MonitorFails
<1>5. ASSUME NEW p \in Process, CoreExits(p) \/ Reap(p) PROVE caller' = caller
  BY <1>5 DEF CoreExits, Reap, CoreWaited, CoreClosed, CoreReaped
<1>6. CASE Shutdown
  BY <1>1, <1>6 DEF Shutdown, Step, TypeOK, Caller
<1>7. CASE Signal \/ UNCHANGED vars
  BY <1>1, <1>7 DEF Signal, vars
<1>8. QED
  BY <1>1, <1>2, <1>3, <1>4, <1>5, <1>6, <1>7 DEF Next

\* A monitor that waits does so for the process m.done was about when it read it.
LEMMA WatchStep ==
  ASSUME TypeOK, KnownInv, ManagerInv, WatchInv, [Next]_vars
  PROVE  WatchInv'
<1> SUFFICES ASSUME NEW n \in Caller, monitor'[n].pc = "wait"
             PROVE  monitor'[n].channel \in Process /\ core'[monitor'[n].channel] # "unused"
  BY DEF WatchInv
<1>1. CASE monitor'[n] = monitor[n]
  BY <1>1, CoresGoForward DEF WatchInv, KnownInv
<1>2. CASE MonitorReads(n)
  BY <1>2 DEF MonitorReads, TypeOK, ManagerInv
<1>3. ASSUME NEW m \in Caller, Monitoring(m) PROVE monitor'[n] = monitor[n] \/ MonitorReads(n)
  <2>1. CASE m # n
    BY <1>3, <2>1 DEF Monitoring, MonitorReads, MonitorLeaves, MonitorWakes, MonitorDecides, MonitorWaited,
       MonitorRechecks, MonitorStarts, MonitorStartFails, MonitorFails, Goto, TypeOK
  <2>2. CASE m = n /\ ~MonitorReads(n)
    <3>1. monitor'[n].pc # "wait"
      BY <1>3, <2>2 DEF Monitoring, MonitorLeaves, MonitorWakes, MonitorDecides, MonitorWaited,
         MonitorRechecks, MonitorStarts, MonitorStartFails, MonitorFails, Goto, TypeOK
    <3>2. QED
      BY <3>1
  <2>3. QED
    BY <2>1, <2>2
<1>4. ASSUME NEW c \in Caller, Install(c) \/ Calling(c) PROVE monitor'[n] = monitor[n]
  <2>1. CASE CallerMonitors(c)
    <3>1. CASE c = n
      <4>1. monitor'[n].pc = "read"
        BY <2>1, <3>1 DEF CallerMonitors, TypeOK
      <4>2. QED
        BY <4>1
    <3>2. CASE c # n
      BY <2>1, <3>2 DEF CallerMonitors, TypeOK
    <3>3. QED
      BY <3>1, <3>2
  <2>2. CASE ~CallerMonitors(c)
    BY <1>4, <2>2 DEF Install, Calling, StopIdle, StopKills, StopReturns, Installed, CallerStarts,
       CallerStartFails
  <2>3. QED
    BY <2>1, <2>2
<1>5. ASSUME NEW p \in Process, CoreExits(p) \/ Reap(p) PROVE monitor' = monitor
  BY <1>5 DEF CoreExits, Reap, CoreWaited, CoreClosed, CoreReaped
<1>6. CASE Signal \/ Shutdown \/ UNCHANGED vars
  BY <1>1, <1>6 DEF Signal, Shutdown, vars
<1>7. QED
  BY <1>1, <1>2, <1>3, <1>4, <1>5, <1>6 DEF Next

\* Nobody waits for what cannot come, in any interleaving: what StopsReturn and
\* WatchedCrashIsAnswered need of the states, short of fairness.
THEOREM NobodyWaitsInVain == Spec => []WaitsCanEnd
<1>1. Init => WaitInv
  BY DEF Init, WaitInv, ManagerInv, StopInv, WatchInv, NoMonitor, Caller
<1>2. TypeOK /\ KnownInv /\ WaitInv /\ [Next]_vars => WaitInv'
  BY ManagerStep, StopStep, WatchStep DEF WaitInv
<1>3. TypeOK /\ KnownInv /\ WaitInv => WaitsCanEnd
  BY DEF TypeOK, KnownInv, OneKnownCore, WaitInv, WatchInv, WaitsCanEnd, CoreState
<1>4. QED
  BY <1>1, <1>2, <1>3, TypeCorrect, KnownInvariant, PTL DEF Spec

=============================================================================
