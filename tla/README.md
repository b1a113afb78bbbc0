# A TLA+ model of bagualu

bagualu is a program for OpenWrt routers that collects proxy nodes from
subscriptions, measures them through a Mihomo core it supervises, and hands the
good ones on. This directory holds a formal model of the parts of it in which
several goroutines, requests or answers meet, the TLC configurations that check the model on small
instances, and proofs, checked by TLAPS, that the most important safety
properties hold for every value of the constants.

Paths below are relative to the repository. "SDD" is `docs/proxy-pool-sdd.md`.

## 1. The system and its components

| Component | Code | State it keeps | Operations |
| --- | --- | --- | --- |
| Test queue | `internal/application/queue.go` | slice of requests, token channel, `worker`, `running*` | Enqueue, Run, Cancel, WaitUntilIdle |
| Orchestrator | `internal/application/orchestrator.go` | map of live jobs, `baselineObserved`, `baselineReady` | Submit, Cancel, the wrapped job, deliver |
| Job rows | `handlers_job.go`, `job_repo.go`, `domain/job.go` | table `jobs` | cancelJob, clearJobs, status updates, clean-up at start |
| Entry-IP circuit | `internal/application/endpoint_circuit.go` | failures, openUntil, representative, probeInFlight for each IP | Before, Record |
| Result callback | `cmd/bagualu/main.go:359-434` | `nodes.status`, measurements, scores | group update, location, node health, job row |
| Core configuration | `cmd/bagualu/main.go:440-460`, `mihomo/config.go` | configuration file, `activeConfigDigest` | reloadCoreConfig |
| Process supervisor | `internal/infrastructure/mihomo/process.go` | command, done, stopRequested, restartCount, failed | Start, Stop, Monitor |
| Planner and scheduler | `automatic_tests.go`, `scheduler.go`, `main.go:550-616` | none of their own | one due test; due refreshes; clean-up |
| Subscription refresh | `upstream_refresh.go`, `handlers_upstream.go` | `nodes`, `node_sources`, refresh records | Submit, Refresh |
| Scoring | `domain/scoring.go`, `application/scoring.go` | score snapshots | CalculateScore, Recalculate |
| Network checks | `application/network.go`, `infrastructure/network` | WAN samples | baseline, load guard, contention |
| Location of nodes | `application/geolocation.go` | columns of `nodes` | UpdateNode |
| Node, group, key, link and resource handlers | `internal/transport/http`, `internal/modules` | their tables | CRUD, group tests, rotation, rendering |
| Store | `internal/infrastructure/persistence` | SQLite, one connection | one statement at a time |
| Administration page | `web/admin/src/main.tsx`, `api.ts` | token, page, one hook for each endpoint shown, dialogs, form, busy flags, chart | log in, navigate, reload, poll, save, delete, test, install |
| Sessions | `internal/transport/http/auth.go` | tokens accepted, with their expiry | authLogin, adminRequired |
| Log buffer, installer, packaging | | | |

How they interact. An HTTP request or the planner asks the circuit (`Before`),
saves a row in `jobs`, registers the job with the orchestrator and enqueues it.
The queue's one goroutine calls the wrapped job, which makes the checks, gives
the core its configuration, measures, perhaps retries, and delivers the outcome
to the result callback. That callback tells the circuit, writes node statuses and
the job's final status. Meanwhile other HTTP requests cancel or clear jobs,
enable, disable and edit nodes, refresh subscriptions, reload the configuration
or replace the core's binary, which stops and starts the process that monitors
watch. All of them share the database, one statement at a time, with no
transaction around a read and the write that follows from it.

The administration page is one more concurrent program. Each of its hooks, timers
and buttons sends requests and goes on; answers come in in any order, after the
page was left, after the session was lost, or not at all, and what they change is
state that other answers and the user have changed since the request was sent.

What is hard here, then, is order: the lost wakeup, two cancellation paths for
one job, statuses written from stale reads, checks that must come before and
after a measurement, probes whose answer never comes, monitors, waiters and
callers of Stop that interleave, refreshes that overlap and fail half-way,
shutdown in the middle of any of it, crashes that leave rows behind, and, in the
browser, answers nobody expects any more. `PROJECT.json` lists each such hazard with its line and
the properties that cover it.

What makes each component correct:

* queue: one request at a time, in order, none lost, none forgotten asleep;
  Cancel reaches the request it names; shutdown comes to an end (SDD 7.4.1);
* jobs: a row that looks alive is alive and gets a final status, unless the
  write of it fails; one result for each job; a result counts only when the checks around it passed (SDD 7.4.2,
  7.4.3); after an outage two good checks come before the next measurement; a
  cancelled job does not go on;
* circuit: after a cooldown it waits for one probe, which is on its way; an open
  circuit hides its nodes, a connectivity success brings them back; infrastructure
  outcomes touch nothing (SDD 6.1.2);
* supervisor: one core, known to the manager; bounded restarts; Stop returns and
  leaves no core (SDD 5.1.1);
* refresh: a run that succeeds leaves its upstream with the nodes of its list; the
  administrator's decisions survive; whatever happened before, the tables
  converge to the lists (`upstream_refresh.go:139`, SDD line 1312);
* page: console and token agree; a spinner stops, an empty table was answered; a
  button is blocked while its request runs; a form shows the row it edits; a
  polled view ends up with the server's data.

## 2. The modules

| Module | Role |
| --- | --- |
| `SerialExecutor` | abstract specification: what the queue promises its users |
| `TestQueue` | `queue.go`: critical sections, token channel, several callers of Run; implements `SerialExecutor` |
| `TestQueueProofs` | proofs about `TestQueue` |
| `TestJobs` | a job from its row to its result, on top of `SerialExecutor`: submitters, worker, handlers, shutdown, restart |
| `TestJobsProofs` | proofs about `TestJobs` |
| `EndpointCircuit` | circuit of one entry IP, node statuses, core configuration, result callback |
| `EndpointCircuitProofs` | proofs about `EndpointCircuit` |
| `ProcessManager` | supervisor, its waiters and monitors, main, installations |
| `ProcessManagerProofs` | proofs about `ProcessManager` |
| `UpstreamRefresh` | runs of Refresh on the tables of nodes and sources, scheduler, administrator, crashes |
| `UpstreamRefreshProofs` | proofs about `UpstreamRefresh` |
| `AdminApi` | requests in flight between page and server, sessions, the token |
| `AdminConsole` | the administration page on top of `AdminApi` |
| `AdminApiProofs` | lemmas on the bag of requests in flight, a request at a time |
| `AdminConsoleProofs` | proofs about `AdminConsole`: token, console and form |
| `AdminScreenProofs` | proofs about `AdminConsole`: types, tables, blocked buttons, chart |
| `MC...` | instances for TLC |

`TestJobs` EXTENDS the abstract executor instead of `TestQueue`: the refinement
of the queue justifies that, and the state space stays small enough for jobs.
`AdminConsole` EXTENDS `AdminApi`: the page and what it talks to, composed.

### SerialExecutor and TestQueue

`queue`, `notify` (the channel of capacity one), `worker`, `running`,
`runningCancel` and the set of cancelled contexts are the fields of `TestQueue`;
`pc` and `task` are the goroutines inside Run. Every section under `q.mu`, and
every channel operation between two sections, is one action: `RunEnter`,
`RunRefused`, `Wake`, `Leave`, `Dequeue`, `Drained`, `OnStart`, `RunTask`,
`Clear`, `Exit`. The select in Run takes either ready branch, as Go's does. The refinement
mapping forgets the token, the worker flag and the goroutines; `fate`, `asked`,
`ticket`, `accepted` and `lastStarted` record history for the properties.

### TestJobs

`rows` is the status column of `jobs`; `jobs` is `o.jobs`; `submit[r]` is the
position of a submission between row, registration and queue; `step`,
`attempt`, `outcome` are the wrapped job; `handler[h]` is a cancelJob or clearJobs
request, which reads a row, asks the orchestrator, and writes. A restart empties
memory and applies the clean-up of `main.go:150-155`, as far as its two statements
succeed. `"active"` in `rows` stands for pending, scheduled and running, which no
statement tells apart. Any database call may fail. The code ignores that where it
writes a last status (`main.go:432`, 494, 541: `SettleRow`) or that a job has
started (507), logs it at a start, and ends the request in a handler (`Overwrite`);
clearJobs takes a row it cannot read for one that has not ended. `unwritten` is the
history of rows left active by such a failure: `NoOrphanRows` and `RowsSettle` speak
of all others. Outcomes are records of what decides their fate: status, success, infrastructure,
kind of error, evidence, and whether the router's own network was down meanwhile.
The answers of checks are chosen freely; a check answers only for its moment.

### EndpointCircuit

`phase` abstracts `openUntil`: zero, in the future, or past (`CooldownEnds`
passes time). The result callback is the sequence `Record`, `ReadGroup`, one
`UpdateGroup` for each node of the loop, `Locate` and `Place` (the location
lookup, which saves the whole node), `Judge` and `Settle` (second read and its
write), and everybody else acts in between: enabling, disabling, refreshes, and
edits, which save the status they read before they received the request's body.
The request's snapshot is not kept: `EditNode` may write any status, a superset
of what can happen, and refreshes likewise may act on an older read. `loaded` and `written` are
the nodes the core was given and those the digest stands for; a test of a node
the core does not have ends in `node_load_failed`. 
`Before` and the queueing that follows are one step, or a failure (`SubmitFails`);
what comes between them changes nothing they read. `Withdraw` is the cancellation of
a waiting test.

The statements of the callback fail, and it goes on: `RecordUnread` (362: the circuit
is not told), `GroupUnread` (365: nobody is updated), an `UpdateGroup` that leaves its
node alone (371, 373), `Judge` and `Settle` without a write (385-391). Three histories
are there for the properties. `probe`, on a test: the circuit waits for this one, which
was admitted as the probe and which no other test's result has overtaken. `lost`: the
probe the circuit waits for was withdrawn, not submitted, or ended without a verdict.
`astray`: the nodes that others made active or hid while the circuit was open or being
closed, or that a failed statement passed over. Left out is the deletion of a node.

### ProcessManager

`command` and `done` name the process they belong to; `core[p]` is the life of
process `p` and of the goroutine that waits for it (`exited`: gone; `waited`:
`ProcessState` is set; `closed`: the channel is closed; `reaped`: the fields are
reset). `monitor[m]` is the goroutine of a Monitor call: reading `m.done`,
waiting, deciding, backing off, looking again at `stopRequested`, starting.
`caller[c]` is main or an installation in Stop, between Stop and Start, or in
Start. The context of the monitors is `ctxDone`; that of Start in main and in
startCore is never done, as in the code. Left out: a `Kill` that fails although the
process is there, which the system does not refuse a parent.

### UpstreamRefresh

A run of Refresh is a goroutine and a row of `jobs`; `runs[r].pc` says which
statement it sends to the database next: `Fetch` (which stands for the row's
update to running too), `Previous`, then `Identify`, `Reread`, `Save`,
`SaveNodeSource` for each node listed, `Sweep`, `Look`, `Expire` for each that is
listed no longer, and `Record`. Every statement can fail and the program can die between
any two: `Fails`, `Lose` (the row itself cannot be written), `Crash`. `Tick` is
the scheduler, which looks for an active row first; `Request` is the HTTP
handler, which does not look. `Enable`, `Disable`, `Delete`, `Cancel` are the
administrator's. `left` counts active rows whose run is gone: they keep the scheduler from
submitting. A key is a node's identity and the id the parser gives it; other ids
are drawn. Order among the listed nodes is left open, as map iteration and
subscriptions leave it. `alone`, `misled` and `late` are history for the
properties: overlapping with another run of the same upstream, told something
false by a failed read, a disable that came after the read. Left out: the columns
of locations and measurements, creating nodes over HTTP (whose drawn id no refresh
meets), and changes of an upstream's own enabled flag. Left out too:
`PUT /nodes/{id}` (`handlers_node.go:202-256`), which may give a node without a source
another identity and saves the status it read before, so that it may change a node
between its save and its source's; the location lookup (`GeoService.UpdateNode`), which
saves the whole node it read before; and errors of the reads that
`findPreviousSubscriptionNode` sends for each candidate (189-206), which skip that
candidate: `Identify` makes them one read, which succeeds.

### AdminApi and AdminConsole

`calls` is the bag of requests in flight, with what they ask, the token they
carry and their answer. The server is `Serve`, `Fail`, `Change`, `LoseSessions`; everything it
knows is one version number, `now`. A handler of the page that awaits a request is two
actions, the click and the arrival. A component that is unmounted leaves its
requests behind with the path `NoPath`: they can still meet a 401, navigate, or
reload, but change no state on the screen. `Copies` takes the bag apart into requests told
apart by a number, and `Size` counts those: what the library's `BagCardinality` counts too,
by a recursion no prover can follow. `view[h]` is the useApi hook `h`, whose
data, spinner and error all of its requests share. `form` has the row that is
edited and the row whose fields are shown, two states in the code. `Show` mounts a
page, keeping the component between two pages of `DataPage`, as React does.
`chart` is the effect of the page Runtime on the totals that come in.

## 3. What is checked

`tlc -config X.cfg M` for each run; all properties of a passing run hold.

| Run | Instance | Shows |
| --- | --- | --- |
| `test_queue` (`MCTestQueue.cfg`) | 4 requests, 2 goroutines in Run, limit 2 | all safety and liveness properties of the queue, and `ImplementsExecutor` |
| `test_jobs` (`MCTestJobs.cfg`) | a download test and a ping, 1 handler, limit 1, 1 retry, any number of restarts, statements that fail | ownership of rows, one result, checks around results, recovery, cancellation, and that rows settle, across restarts too |
| `endpoint_circuit` (`MCEndpointCircuit.cfg`) | 2 nodes (symmetric), 2 failures, limit 1, statements that fail | the probe an open circuit waits for, the group hidden and brought back, infrastructure outcomes |
| `process_manager` (`MCProcessManager.cfg`) | main and 1 installation, 2 restarts, 5 processes | supervisor |
| `upstream_refresh` (`MCUpstreamRefresh.cfg`) | 2 upstreams, one scheduled, 2 identities, one made by hand; 2 runs, 3 events | refreshes |
| `admin_console` (`MCAdminConsole.cfg`) | links, nodes, groups, reports, settings, 2 sessions, 3 requests, 1 failure | types, sessions, tables, forms, busy flags |
| `admin_polling` (`MCAdminConsolePolling.cfg`) | runtime, logs and tests, which have timers, and upstreams, 1 change of the data, 3 requests, 1 failure | the chart; convergence; lost sessions |
| `job_terminal`, `job_outage` | 1 connectivity test, 1 handler | violations, section 5 |
| `endpoint_probe` | 1 node | violation |
| `process_crash`, `process_stop` | main alone; main and 1 installation | violations |

Bounds. A queue shorter than the number of requests makes it full; a second goroutine in
Run must be turned away; three requests in and behind a queue of two let Cancel
take the first, middle and last one out. One retry has a first and a last
attempt, and one handler already meets submission, worker and restart in every
order; two jobs show that one job's handler does not touch another's. Two nodes
make a representative and one that is not; a limit of two failures is the
smallest the code accepts (`NewEndpointCircuit`), the program uses more. Five processes are
main's, the installation's, two restarts and one to show the limit is not what
stops them. `CoreLimit` bounds the runs only. Deadlock is not checked where the
system ends, after a shutdown of the queue or of the program that nothing follows,
nor in `MCUpstreamRefresh`, where a row that was never written stops the
scheduler for good.

For refreshes, `MaxRuns` 2 makes two runs overlap, of one upstream or of two that
share nodes. The three events (`MaxEvents`) are changed lists, management calls,
failures, crashes and HTTP refreshes in any combination; three are what a disable,
a failed read and an overlap, or a crash half-way and two changes of the list
take. `Listed` has disjoint lists and the empty one: a node changes hands, goes, comes back.
Lists of two nodes have been checked with two events. `MaxSpare` is large enough
that a uuid is always at hand. For the page, `MaxCalls` 3 lets an answer be overtaken
by two others; `MaxSessions` 2 gives a request of a session that is over; `MaxOrphans`
lets one request outlive its page, `MaxOrders` 2 is a second click, `MaxReads` 2
two reads of one endpoint that pass each other. `MaxReads` is 1 in `admin_console`,
where a reload after a save, which it does not bind, is the second read. `Visited` splits the pages over the two
runs: in `admin_console` those with drawers, previews, forms and orders (Tests too, where a test of all nodes
leads), in `admin_polling` the timers, and upstreams, whose form keeps its fields and whose test of all nodes goes to Tests;
they share nothing but `App` and `useApi`, which are in both. The page of keys is `DataPage` once more
and is visited in neither. One row is enough for a form that is overtaken by a late answer;
that the form of one row never shows another's, and what the chart makes of a core that restarts, is
not reached by the runs and rests on the theorems `EditedRowShown` and `ChartIsOfTotals`. `SampleLimit` 2 fills the chart; in the code it is 30.

Fairness. Weak fairness of each goroutine that can go on: the queue's callers of
Run, submissions and handlers once begun, the worker, the waiter of each process,
monitors, callers of Stop. That is what Go's scheduler gives, together with
timeouts on every network operation of a test. Nobody has to submit, cancel,
crash, install or shut down. In `EndpointCircuit` time passes and the planner's
ticker keeps offering tests. After shutdown `TestJobs` does not promise that a
waiting request is begun (`~closed /\ TakeNext`): the worker may take it or leave.

In `UpstreamRefresh` the scheduler ticks for enabled upstreams and each run advances or
fails; `SubscriptionsConverge` assumes in its statement, not as fairness, that the list is not
empty and that no row without a run is left. In `AdminConsole`
timers run while their page is shown, and the server answers and the
network delivers some request of each polled endpoint, and some of the others:
nothing is said about the order, nor about the user, who may leave at any time
(the properties are about one who stays).

Every property has a mutant in `PROJECT.json`, a plausible bug in one
action, which TLC must catch.

## 4. What is proved

For every set of requests, goroutines, nodes or installations, and every limit
(`tlapm <Module>.tla`):

* `TestQueueProofs`: `TypeCorrect`, `ExecutionIsSerial`, `WakeupsAreKept`,
  `RequestsAreConserved`, `RequestsStartInOrder`, `CancelIsPrecise`, and
  `QueueImplementsExecutor`: every behaviour of the queue is one of
  `SerialExecutor`, its safety part.
* `TestJobsProofs`: `TypeCorrect`, `RowsAreOwned`, `CancelFindsJobs`,
  `ResultsAreSingle`, `OnlyCheckedResultsCount`, `RecoveryIsConfirmed` and
  `CancelledJobsStop`: every safety property of the run `test_jobs`.
* `EndpointCircuitProofs`: `TypeCorrect`, `ProbesAreAccountedFor`,
  `OpenCircuitHides`, `RecoveryIsComplete`, `NobodyIsCharged`.
* `ProcessManagerProofs`: `TypeCorrect`, `CoreIsKnown`, `ShutdownIsComplete`,
  `CrashesAreBounded`, `NobodyWaitsInVain`.
* `UpstreamRefreshProofs`: `RefreshInvariant`, `ManagementKept`, `MirrorInvariant`
  and `SuccessMirrors`.
* `AdminConsoleProofs`: `ConsoleAgreesWithToken`, `EditedRowShown`.
* `AdminScreenProofs`: `ConsoleTypeOK`, `SpinnersAreHonest`, `EmptyTablesWereAnswered`,
  `BlockedButtonsWait`, `ChartIsOfTotals`.
* `AdminApiProofs`: no theorem of the system, but the lemmas on requests in flight that the
  two others cite: what one request more, one less, or an orphaned page does to the bag.

With these, every property of a passing run that is not about liveness is proved.

Assumptions are the named ASSUMEs on the constants (`ExecutorAssumption`,
`QueueAssumption`, `JobsAssumption`, `CircuitAssumption`, `ProcessAssumption`, `RefreshAssumption`, `ApiAssumption`,
`ConsoleAssumption`, `NoneAssumption`, `IdAssumption`), which TLC evaluates in the runs.
`NoneAssumption` tells the absence of a row from hooks, paths and figures.
`IdAssumption` says that a drawn id is no canonical one (`upstream_refresh.go:121` draws a
uuid of 36 characters, `stableID` gives 16) and that a subscription's list is finite.

Inductive invariants. `SerialExecution` alone does not survive `RunEnter`: it
says nothing of a goroutine that waits in the select. `OneRunner` adds that one
goroutine at most is anywhere inside Run, and that it holds `q.worker`. `Bookkeeping`
relates queue, fates and tickets; conservation and order are proved together,
since removing from the middle needs both. The lemma about `RemoveAt` carries
them through Cancel. The refinement shows that each step of the queue is a step
of the executor or changes nothing the executor sees.

For jobs the invariant has layers, each proved from those before it. `Typed`: types,
and that the worker has a request exactly while it is at work and a handler one
while it is about it. `Fates`: a request waits in one place, executes alone and
is new while it is submitted. `Deliveries`: how often a job in each of these
states was delivered, and that the handler which withdrew it is the only one to
deliver it; without that, two cancels of a waiting job could both report it.
Membership in the map and ownership of rows follow, the latter with
`PausedChargesNobody`: a status of paused or scheduled is infrastructure, so that
the last write, when it succeeds, leaves no row scheduled; when it fails, `unwritten`
has the row (`SettleRowFacts`). Apart from all that, `Confirmed`, `Stopping` and `Checked` say
what lies behind the worker at each of its steps; `OthersKeep` shows that nobody else
changes what they speak of.

For the circuit, `ProbeInv` adds to `ProbeIsAccountedFor` that a circuit that is not
closed has counted all its failures: a late failure therefore opens it again and drops
the probe it waits for. `HideInv` and `RestoreInv` extend the two group properties into
the loop: nodes not yet as they should be are among those to do, or went astray. A success
the circuit was not told of while it stays open concerns such a node, and so does the
status that the location lookup saves. `WorkerInv` ties the worker's registers to its step. `NeutralInv`: an
infrastructure outcome never gets into the loop over a group.

For the supervisor, `KnownInv` adds to `OneKnownCore` that processes are numbered
as they start and that `m.done` belongs to `m.command`; without it, nothing would
say that a waiter that resets the fields resets its own. `ShutdownInv` says that from
main's first Stop on the context is done, and that once Stop has killed its core
none runs. `CountInv` counts the restarts that were granted and not yet made:
`RestartsAreBounded` alone would not survive the next start. `WaitInv` follows
each wait: the process `m.command` and `m.done` are about was started, the one a Stop
waits for was killed, and processes only go forward, so that the channel is closed in the end.
That is what `StopsReturn` rests on; the rest is fairness.

For refreshes, `ManagementIsKept` speaks of the step that writes, so the
invariant must say what a run in each position knows. `ManualUnlisted`: a node made by hand
has no source. `Apart`: none is therefore among those the run found listed, nor,
unless a failed read misled it, in its hand; `Identify` needs the first to prove the second.
`Knows`: a run about to write over a disabled node either read that
it was disabled, or is late. `SuccessMirrors` needs more, `MirrorInv`. `Mirrors`: the nodes a run has given
its source to are one for each identity dealt with, and all else of its upstream
is known to its sweep. Other runs, of other upstreams, save nodes meanwhile, even the
same ones; `NodeKeys` and `HandKeys` say that none of them gives a node another
identity: a canonical id stays with its identity, and two runs with one
node in hand agree on it. `AloneIsAlone`: nobody else writes this upstream's sources.
When nothing is left to expire, the two sets are in bijection, and so of one size.

For the page, the screen changes in a login's arrival, the 401 and the reload of the tab;
the invariant adds that an accepted login in flight carries a
token, which is not zero, and that all that passes through the bag of requests (sums,
differences, orphaned pages) keeps it so. `EditedRowShown` is inductive with the fact
that an empty form comes with a closed dialog.

For the tables, the chart and the buttons the first step is `TypeInv`: which page mounts which hooks, and
that every request in flight is one some component can send. `SpinnerIsHonest` and
`AnEmptyTableWasAnswered` are then inductive together: a hook stops loading only when an
answer of its own arrives. For the buttons the invariant is `FlagInv`. `OrdersOfPage`: a request that
is neither a read nor a login belongs to the page that sent it, or to nobody.
`LoginsOutside`: logins are in flight only while the console is not shown.
`BlockedOnce`: a button's request that somebody waits for is alone in the bag, and its button blocked.
`BlockedRightly`: a blocked button has such a request. Leaving a
page keeps all four, since unmounting takes flags and requests away together. `ChartInv` adds to
`ChartFollowsTotals` that the samples are figures.

Only model-checked is liveness: `EventuallyServed`, `ShutdownCompletes`, `RowsSettle`,
`StopsReturn`, `WatchedCrashIsAnswered`, `SubscriptionsConverge`, `PolledViewsConverge`,
`LostSessionIsNoticed`, and the fairness half of `ImplementsExecutor`. It needs ENABLED, which
the prover does not have.

## 5. Where the code and its documents disagree

Each is a run that TLC must find violated.

* `job_terminal`: `domain/job.go:35` calls a terminal status final. cancelJob and
  clearJobs write `cancelled` over a row that ended after they read it, and the
  worker's OnStart writes `running` over a row just cancelled.
* `job_outage`: SDD 7.4.2 does not charge a node for an outage of the router's
  own network during a test. The baseline is asked again only after a
  measurement without error, and an outage usually is one with an error.
* `endpoint_probe`: SDD 6.1.2 calls the circuit a temporary state. A probe that
  ends with an infrastructure outcome or an error of another kind, or whose
  submission fails after `Before`, leaves `probeInFlight` set for ever.
* `process_crash`: SDD 5.1.1 has a crashed core restarted. A core that ends
  before its monitor has read `m.done` is not.
* `process_stop`: a test of `process_test.go` says that a manual stop cancels
  a restart. A monitor past its last look at `stopRequested` starts the core
  after Stop has returned, and clears the flag.

Seen while modelling, without a run: `restartCount` counts all crashes of the
program's life, where SDD 5.1.1 speaks of consecutive ones; after an installation two
monitors may watch one core and count its crash twice; a recovery wait that is
cancelled leaves `baselineReady` true; nodes hidden by the circuit are not in the core's
configuration, so that the connectivity test meant to bring them back ends in
`node_load_failed` unless the digest is stale; a refresh makes hidden nodes active while
the circuit is open; a successful test of a node disabled meanwhile makes it `unreachable`.

SDD line 431 wants one representative tested after the cooldown and the other nodes of
the IP restored step by step once it has passed. In the code a result of any test, of any
node behind the IP, that was queued before the circuit opened closes it or opens it again and
resets `probeInFlight` (`endpoint_circuit.go:75-90`): after the next cooldown a second probe is
let out while the first is queued or measured (`ProbeIsAccountedFor` counts the one the
circuit waits for). A connectivity success restores all hidden nodes at once, in
the loop of `main.go:366-375`; the success of a ping or a download test
closes the circuit and restores none, and they stay hidden until a connectivity test reaches one.
A representative that is deleted is never tested, and no other node is admitted.

Errors that are ignored (`main.go`): a job whose last status is not written (432, 494, 541)
is listed as running until somebody clears or cancels it or the program restarts, and a clean-up that fails
at the start (150-155) leaves such rows for another run of the program; after a failed `FindAll` or
`UpdateStatus` (365, 371, 373) nodes stay active in an open circuit, or hidden in a closed one;
after a failed `FindByID` (362) the circuit misses a result, and waits for ever if it was the probe's.

In refreshes (`upstream_refresh.go`): a node disabled between the read at 138 and the save at 144 is
active again, and one disabled while it is swept expires; an error of FindByID at
112 is taken for a node that is not there, so that the run may write over a node made by hand; two refreshes
of one upstream may overlap when one is asked for over HTTP; a row that could not be
written keeps the scheduler away until somebody cancels it; an upstream that lists no node is an
error and keeps its old ones; a disabled node that disappears from its list loses
its source, and when the list has it again the refresh may draw a new id, which is active. The
model takes a node's id and its identity for one. `stableID` (`subscription.go:376`) keeps 8 bytes of a digest
in which each byte of the input reaches one byte only (387-392): two nodes that differ only in the
24 of each 32 bytes left over have one id, and the second is passed over (`upstream_refresh.go:109`).

In the page: every deletion succeeds in the server and fails in the browser. The handlers answer 204
without a body (`handlers_node.go:303`, `handlers_upstream.go:147`; `server_more_test.go:278`
expects that status), `api.ts:16` parses the body of every
answer, and so the page shows an error and does not read its table again
(`main.tsx:147-148`), where SDD 8.7.3 has every operation show whether it
succeeded. A 401 that comes late takes away the token of a newer session (`api.ts:12`): the user is
logged out again. The drawer keeps a node's history on the screen while it loads another's, and
the answer that comes last wins (`main.tsx:698-700`). The answer to a test of all nodes
navigates to Tests from wherever the user is by then (167). The form of a new upstream keeps the last row's
fields (157). The address of a link just created is shown nowhere when its page
was left before the answer. The forms of DataPage can be submitted twice. An upload of a core can start
during an installation (642). The error of one of two overlapping reads may stay next to the
data of the other. The traffic chart has no sample for a second without traffic.

## 6. Not modelled

Text (rendering, parsing, configuration, layout), network I/O, the installer's
files, read-only views of the server, and the columns no property reads. Of the
page: the formatting of figures, the fields of local searches and choices,
sorting, the clipboard, and `logout`, which nothing calls. The bundle
`index-Li0Yostg.js` is generated from the page's sources with React and Ant
Design. Groups, API keys, subscription links, scoring and the load guard are not modelled yet. Each component's reason is in `PROJECT.json`.

## 7. Plan

In order of importance:

1. `CoreConfig`: reloadCoreConfig and its two callers: what the core holds while
   a node is measured.
2. `Scoring`, `Planner`, `ResourceFilter`, `LoadGuard`: pure operators against
   reference definitions over bounded inputs: monotonicity and exclusion of
   infrastructure results, least recently tested first, windows across midnight,
   one node for each entry IP.
3. `GroupTest` and `ApiKeys`: parents waiting for purged children; rotation and
   revocation of a key in concurrent requests.

`TestJobs` as a `SerialExecutor` between restarts is not on the list: every step it takes
on the queue is one of the executor's actions by definition, so that the theorem would
say nothing.
