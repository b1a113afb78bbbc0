--------------------------- MODULE EndpointCircuit ---------------------------
(***************************************************************************)
(* The circuit breaker of one entry IP and the health of the nodes behind  *)
(* it: internal/application/endpoint_circuit.go, and the parts of          *)
(* cmd/bagualu/main.go that ask it (testSubmitWithSource), tell it the     *)
(* results and write node statuses (onResult), and load the core with the  *)
(* nodes to test (reloadCoreConfig).  Tests run one at a time; management  *)
(* calls, upstream refreshes and restarts come at any moment, also between *)
(* the reads and the writes of onResult, and save what they read earlier.  *)
(* Each of these reads and writes may fail; onResult ignores it.           *)
(***************************************************************************)
EXTENDS Integers, Sequences, SequencesExt

CONSTANTS
  Node,          \* the nodes with this entry IP
  FailureLimit,  \* failureLimit of NewEndpointCircuit
  QueueLimit,    \* limit of the test queue
  None           \* no node

ASSUME CircuitAssumption ==
  /\ FailureLimit \in Nat /\ FailureLimit >= 2
  /\ QueueLimit \in Nat \ {0}
  /\ None \notin Node

VARIABLES
  failures,       \* entry.failures, which matters up to FailureLimit only
  phase,          \* entry.openUntil: "closed" when zero, "cooling" ahead of it, "due" after it
  representative, \* entry.representative
  probing,        \* entry.probeInFlight
  status,         \* nodes.status
  loaded,         \* the nodes the core was last given
  written,        \* the nodes activeConfigDigest stands for
  tests,          \* tests waiting in the queue; probe: history, the circuit waits for it
  test,           \* the test being executed, or NoTest
  step,           \* where the worker is in it
  result,         \* what the test showed
  todo,           \* nodes the loop of onResult has still to update
  target,         \* status it is writing
  seen,           \* status GeoService.UpdateNode has read
  lost,           \* history: the probe the circuit waits for has ended or was never submitted
  astray          \* history: nodes that others made active or hid, or that a failed
                  \* statement of onResult passed over, while it was open or closing

circuit == <<failures, phase, representative, probing>>
core    == <<loaded, written>>
worker  == <<test, step, result, todo, target, seen>>
history == <<lost, astray>>
vars    == <<circuit, status, core, tests, worker, history>>

Kind   == {"connectivity", "ping", "throughput"}
Status == {"active", "unreachable", "endpoint_ip_unreachable", "disabled", "expired"}
Retired == {"disabled", "expired"}   \* not touched by results
Result == {"success", "network", "other", "infrastructure"}

NoTest == [node |-> None, kind |-> "none", probe |-> FALSE]

ActiveNodes == {n \in Node : status[n] = "active"}

Init ==
  /\ failures = 0
  /\ phase = "closed"
  /\ representative = None
  /\ probing = FALSE
  /\ status = [n \in Node |-> "active"]
  /\ loaded = Node
  /\ written = Node
  /\ tests = <<>>
  /\ test = NoTest
  /\ step = "idle"
  /\ result = "none"
  /\ todo = {}
  /\ target = "none"
  /\ seen = "none"
  /\ lost = FALSE
  /\ astray = {}

-----------------------------------------------------------------------------
(* Submission.  Before admits every node of a closed circuit, and one probe  *)
(* of the representative when the cooldown is over.  Before and the queueing *)
(* are one step: what others do in between they could as well do after it.  *)

Admits(n) ==
  \/ phase = "closed"
  \/ /\ phase = "due"
     /\ ~probing
     /\ n = representative

Before(n) ==
  /\ Admits(n)
  /\ probing' = (probing \/ phase = "due")

SubmitOverLimit(n, kind) ==   \* mutant: one test more than the limit is let in
  /\ Before(n)
  /\ Len(tests) <= QueueLimit
  /\ tests' = Append(tests, [node |-> n, kind |-> kind, probe |-> phase = "due"])
  /\ UNCHANGED <<failures, phase, representative, status, core, worker, history>>

Submit(n, kind) ==
  /\ Before(n)
  /\ Len(tests) < QueueLimit
  /\ tests' = Append(tests, [node |-> n, kind |-> kind, probe |-> phase = "due"])
  /\ UNCHANGED <<failures, phase, representative, status, core, worker, history>>

\* The row cannot be saved, there is no download source, or the queue is full:
\* the submission fails after Before has admitted it.
SubmitFails(n) ==
  /\ Before(n)
  /\ lost' = (lost \/ phase = "due")
  /\ UNCHANGED <<failures, phase, representative, status, core, tests, worker, astray>>

\* A waiting test is cancelled: its outcome is infrastructure.
Withdraw ==
  /\ \E i \in DOMAIN tests :
       /\ tests' = RemoveAt(tests, i)
       /\ lost' = (lost \/ tests[i].probe)
  /\ UNCHANGED <<circuit, status, core, worker, astray>>

\* AutomaticTestPlanner: when nothing is queued or running, one due test, of
\* connectivity for a node hidden by the circuit, a ping or a download test for
\* an active one.
PlanTest(n) ==
  /\ tests = <<>> /\ test = NoTest
  /\ \/ status[n] = "endpoint_ip_unreachable" /\ Submit(n, "connectivity")
     \/ status[n] = "active" /\ (Submit(n, "ping") \/ Submit(n, "throughput"))

-----------------------------------------------------------------------------
(* The worker: one test, then onResult.                                      *)

Start ==
  /\ test = NoTest
  /\ tests # <<>>
  /\ test' = Head(tests)
  /\ tests' = Tail(tests)
  /\ step' = "reload"
  /\ UNCHANGED <<circuit, status, core, result, todo, target, seen, history>>

\* The baseline, load or source check stops the test, or it is cancelled.
Stopped ==
  /\ step \in {"reload", "measure"}
  /\ result' = "infrastructure"
  /\ step' = "record"
  /\ UNCHANGED <<circuit, status, core, tests, test, todo, target, seen, history>>

\* reloadCoreConfig: only active nodes are given to the core, and only when the
\* configuration differs from the one written last.
LoadCore ==
  /\ written # ActiveNodes
  /\ written' = ActiveNodes
  /\ loaded' = ActiveNodes

LoadCoreFails ==   \* the file cannot be written, or, with the digest updated, the core refuses it
  /\ written # ActiveNodes
  /\ written' \in {written, ActiveNodes}
  /\ loaded' = loaded

ReloadUnneeded ==
  /\ step = "reload"
  /\ written = ActiveNodes
  /\ step' = "measure"
  /\ UNCHANGED <<circuit, status, core, tests, test, result, todo, target, seen, history>>

Reload ==
  /\ step = "reload"
  /\ LoadCore
  /\ step' = "measure"
  /\ UNCHANGED <<circuit, status, tests, test, result, todo, target, seen, history>>

ReloadFails ==
  /\ step = "reload"
  /\ LoadCoreFails
  /\ result' = "other"
  /\ step' = "record"
  /\ UNCHANGED <<circuit, status, tests, test, todo, target, seen, history>>

\* A ping needs no core; another test of a node the core does not have ends in
\* node_load_failed.
Measure ==
  /\ step = "measure"
  /\ result' \in
       (IF test.kind = "ping" THEN {"success", "other"}
        ELSE IF test.node \in loaded THEN {"success", "network", "other"} ELSE {"other"})
  /\ step' = "record"
  /\ UNCHANGED <<circuit, status, core, tests, test, todo, target, seen, history>>

\* What EndpointCircuit.Record does with the four kinds of result.  One that
\* closes or opens the circuit may be another test's than the probe's: the
\* circuit waits for the probe no more.
Unawaited(s) == [i \in DOMAIN s |-> [s[i] EXCEPT !.probe = FALSE]]

Decided ==
  /\ tests' = Unawaited(tests)
  /\ lost' = FALSE
  /\ astray' = {}

Undecided ==
  /\ target' = "none"
  /\ lost' = (lost \/ test.probe)
  /\ UNCHANGED <<circuit, tests>>

RecordInfrastructureCounted ==   \* mutant: an infrastructure outcome closes the circuit
  /\ result = "infrastructure"
  /\ phase' = "closed"
  /\ failures' = 0
  /\ probing' = FALSE
  /\ target' = "none"
  /\ UNCHANGED <<representative, tests, history>>

RecordInfrastructure ==
  /\ result = "infrastructure"
  /\ Undecided /\ UNCHANGED astray

RecordSuccess ==
  /\ result = "success"
  /\ failures' = 0
  /\ phase' = "closed"
  /\ probing' = FALSE
  /\ target' = IF test.kind = "connectivity" /\ status[test.node] = "endpoint_ip_unreachable"
               THEN "active" ELSE "none"
  /\ Decided
  /\ UNCHANGED representative

RecordOther ==
  /\ result = "other"
  /\ Undecided /\ UNCHANGED astray

\* The failure that opens the circuit, or opens it again.
OpensKeepingProbe ==   \* mutant: probeInFlight is left as it was
  /\ phase' = "cooling"
  /\ representative' = test.node
  /\ target' = "endpoint_ip_unreachable"
  /\ Decided
  /\ UNCHANGED probing

Opens ==
  /\ phase' = "cooling"
  /\ representative' = test.node
  /\ probing' = FALSE
  /\ target' = "endpoint_ip_unreachable"
  /\ Decided

RecordNetwork ==
  /\ result = "network"
  /\ failures' = IF failures = FailureLimit THEN FailureLimit ELSE failures + 1
  /\ IF failures' < FailureLimit
     THEN /\ target' = "none"
          /\ UNCHANGED <<phase, representative, probing, tests, history>>
     ELSE Opens

\* FindByID fails: the circuit is not told.
RecordUnread ==
  /\ Undecided
  /\ astray' = astray \union {test.node}

\* A success through the core shows an exit address, whose location is recorded.
Rest == IF result = "success" /\ test.kind # "ping" THEN "locate" ELSE "judge"

\* FindByID, then Record; the whole group is updated when the circuit opened or
\* a hidden node was reached.
Record ==
  /\ step = "record"
  /\ RecordInfrastructure \/ RecordSuccess \/ RecordOther \/ RecordNetwork \/ RecordUnread
  /\ step' = IF target' = "none" THEN Rest ELSE "group"
  /\ UNCHANGED <<status, core, test, result, todo, seen>>

ReadGroupActive ==   \* mutant: only the failing node is hidden
  /\ step = "group"
  /\ todo' = {n \in Node : /\ status[n] \notin Retired
                           /\ target = "active" => status[n] = "endpoint_ip_unreachable"
                           /\ target # "active" => n = test.node}
  /\ step' = "update"
  /\ UNCHANGED <<circuit, status, core, tests, test, result, target, seen, history>>

ReadGroupProbe ==   \* mutant: a success brings back the node that was tested alone
  /\ step = "group"
  /\ todo' = {n \in Node : /\ status[n] \notin Retired
                           /\ target = "active" => n = test.node}
  /\ step' = "update"
  /\ UNCHANGED <<circuit, status, core, tests, test, result, target, seen, history>>

ReadGroup ==   \* FindAll
  /\ step = "group"
  /\ todo' = {n \in Node : /\ status[n] \notin Retired
                           /\ target = "active" => status[n] = "endpoint_ip_unreachable"}
  /\ step' = "update"
  /\ UNCHANGED <<circuit, status, core, tests, test, result, target, seen, history>>

GroupUnread ==   \* FindAll fails: the loop has no nodes
  /\ step = "group"
  /\ todo' = {}
  /\ astray' = Node
  /\ step' = "update"
  /\ UNCHANGED <<circuit, status, core, tests, test, result, target, seen, lost>>

UpdateGroup ==   \* one UpdateStatus of the loop, which goes on when it fails
  /\ step = "update"
  /\ \E n \in todo :
       /\ todo' = todo \ {n}
       /\ \/ status' = [status EXCEPT ![n] = target] /\ UNCHANGED astray
          \/ astray' = astray \union {n} /\ UNCHANGED status
  /\ UNCHANGED <<circuit, core, tests, test, step, result, target, seen, lost>>

GroupUpdated ==
  /\ step = "update"
  /\ todo = {}
  /\ step' = Rest
  /\ UNCHANGED <<circuit, status, core, tests, test, result, todo, target, seen, history>>

\* GeoService.UpdateNode reads the node, looks its address up over the network,
\* and saves the whole node, unless one of these fails.
Locate ==
  /\ step = "locate"
  /\ seen' = status[test.node]
  /\ step' = "place"
  /\ UNCHANGED <<circuit, status, core, tests, test, result, todo, target, history>>

Place ==
  /\ step = "place"
  /\ status' = status \/ status' = [status EXCEPT ![test.node] = seen]
  /\ seen' = "none"
  /\ step' = "judge"
  /\ UNCHANGED <<circuit, core, tests, test, result, todo, target, history>>

\* The second FindByID decides, and the UpdateStatus that follows it writes,
\* unless either fails.
Verdict ==
  IF result = "infrastructure" \/ test.kind # "connectivity" THEN "none"
  ELSE IF result = "success" /\ status[test.node] \notin Retired THEN "active"
  ELSE "unreachable"

Judge ==
  /\ step = "judge"
  /\ target' \in {Verdict, "none"}
  /\ step' = "settle"
  /\ UNCHANGED <<circuit, status, core, tests, test, result, todo, seen, history>>

Settle ==
  /\ step = "settle"
  /\ \/ UNCHANGED status
     \/ target # "none" /\ status' = [status EXCEPT ![test.node] = target]
  /\ test' = NoTest
  /\ step' = "idle"
  /\ result' = "none"
  /\ target' = "none"
  /\ astray' = IF phase = "closed" THEN {} ELSE astray
  /\ UNCHANGED <<circuit, core, tests, todo, seen, lost>>

Work ==
  \/ Start \/ Stopped \/ ReloadUnneeded \/ Reload \/ ReloadFails \/ Measure
  \/ Record \/ ReadGroup \/ GroupUnread \/ UpdateGroup \/ GroupUpdated
  \/ Locate \/ Place \/ Judge \/ Settle

-----------------------------------------------------------------------------
(* Management calls, refreshes, time and restarts.                           *)

SetStatus(n, value) ==   \* by somebody other than the worker
  /\ status' = [status EXCEPT ![n] = value]
  /\ astray' = IF /\ value \in {"active", "endpoint_ip_unreachable"}
                  /\ phase # "closed" \/ target = "active"
               THEN astray \union {n} ELSE astray
  /\ UNCHANGED <<circuit, core, tests, worker, lost>>

DisableNode(n) == SetStatus(n, "disabled")

EnableNode(n) == SetStatus(n, "active")

\* A node its upstream lists becomes active, unless it was disabled when the
\* refresh read it; one no upstream lists any more, and was not disabled then,
\* expires.  A person may have changed it since.
RefreshNode(n) == SetStatus(n, "active") \/ SetStatus(n, "disabled")

ExpireNode(n) == SetStatus(n, "expired")

\* PUT /nodes/{id} saves the status it read before it received the request's
\* body: any that the node has had.
EditNode(n) == \E value \in Status : SetStatus(n, value)

CoreReload ==   \* POST /system/core/reload
  /\ LoadCore \/ LoadCoreFails
  /\ UNCHANGED <<circuit, status, tests, worker, history>>

CooldownEnds ==
  /\ phase = "cooling"
  /\ phase' = "due"
  /\ UNCHANGED <<failures, representative, probing, status, core, tests, worker, history>>

\* The circuit lives in memory; the statuses are in the database.
Restart ==
  /\ failures' = 0
  /\ phase' = "closed"
  /\ representative' = None
  /\ probing' = FALSE
  /\ loaded' = ActiveNodes
  /\ written' = ActiveNodes
  /\ tests' = <<>>
  /\ test' = NoTest
  /\ step' = "idle"
  /\ result' = "none"
  /\ todo' = {}
  /\ target' = "none"
  /\ seen' = "none"
  /\ lost' = FALSE
  /\ astray' = {}
  /\ UNCHANGED status

Next ==
  \/ \E n \in Node :
       \/ \E kind \in Kind : Submit(n, kind)
       \/ SubmitFails(n) \/ PlanTest(n)
       \/ DisableNode(n) \/ EnableNode(n) \/ RefreshNode(n) \/ ExpireNode(n) \/ EditNode(n)
  \/ Withdraw
  \/ Work
  \/ CoreReload
  \/ CooldownEnds
  \/ Restart

(***************************************************************************)
(* The worker runs, time passes, and the planner's ticker keeps offering   *)
(* the hidden nodes a test; nobody has to call the management interface.   *)
(***************************************************************************)
Spec ==
  /\ Init /\ [][Next]_vars
  /\ WF_vars(Work)
  /\ WF_vars(CooldownEnds)
  /\ \A n \in Node : WF_vars(PlanTest(n))

-----------------------------------------------------------------------------
(* Properties.                                                               *)

\* Every variable has its type.
TypeOK ==
  /\ failures \in 0 .. FailureLimit
  /\ phase \in {"closed", "cooling", "due"}
  /\ representative \in Node \union {None}
  /\ probing \in BOOLEAN
  /\ status \in [Node -> Status]
  /\ loaded \subseteq Node /\ written \subseteq Node
  /\ tests \in Seq([node : Node, kind : Kind, probe : BOOLEAN]) /\ Len(tests) <= QueueLimit
  /\ test \in [node : Node, kind : Kind, probe : BOOLEAN] \union {NoTest}
  /\ step \in {"idle", "reload", "measure", "record", "group", "update",
              "locate", "place", "judge", "settle"}
  /\ result \in Result \union {"none"}
  /\ todo \subseteq Node
  /\ target \in Status \union {"none"} /\ seen \in Status \union {"none"}
  /\ lost \in BOOLEAN
  /\ astray \subseteq Node

\* Where the probe is that the circuit waits for.
Queued   == {i \in DOMAIN tests : tests[i].probe}
Measured == test.probe /\ step \in {"reload", "measure", "record"}

\* probeInFlight, set at a submission and reset much later, by the result of this
\* test or another, agrees with queue and worker: there is one test at most that
\* the open circuit waits for, the representative's, and the circuit keeps all
\* others away because of a probe only while that one is waiting or measured, or
\* after it was lost: withdrawn, not submitted, or ended without a verdict.
\* (One that another test's result has overtaken is not waited for.)
ProbeIsAccountedFor ==
  /\ \A i, j \in Queued : i = j
  /\ Measured => Queued = {}
  /\ \A i \in Queued : probing /\ phase = "due" /\ tests[i].node = representative
  /\ Measured => probing /\ phase = "due" /\ test.node = representative
  /\ probing => phase = "due" /\ (Queued # {} \/ Measured \/ lost)

\* SDD 6.1.2: while the circuit is open and no result is being written, none of
\* its nodes is left active, except those that management calls or refreshes have
\* made active since, and those a failed read or write has passed over.
OpenCircuitHidesNodes ==
  phase # "closed" /\ step \in {"idle", "reload", "measure"} => ActiveNodes \subseteq astray

\* SDD 7.4.2: an infrastructure outcome changes neither the circuit nor the
\* status of a node, in any of the steps that process it.
InfrastructureIsNeutral ==
  [][result = "infrastructure" /\ Work => UNCHANGED <<circuit, status>>]_vars

\* A connectivity test that reaches a hidden node brings back every node the
\* circuit had hidden, but those whose write fails; one that is hidden afterwards
\* was written by an edit that read it before.
RecoveryRestoresGroup ==
  step = "judge" /\ target = "active" =>
    \A n \in Node : status[n] = "endpoint_ip_unreachable" => n \in astray

-----------------------------------------------------------------------------
(* A statement of the documents that the code does not keep.                 *)

\* SDD 6.1.2: the circuit is a temporary state.  A probe that was admitted after
\* the cooldown closes the circuit or opens it for another cooldown; the circuit
\* does not wait for ever for a probe that has come to its end.
ProbeIsAnswered ==
  probing ~> ~probing

=============================================================================
