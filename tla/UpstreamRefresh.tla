--------------------------- MODULE UpstreamRefresh ---------------------------
(***************************************************************************)
(* Refreshing upstream subscriptions, application/upstream_refresh.go, with *)
(* those who work on the same tables: other refreshes, the scheduler of    *)
(* main.go, the administrator.                                             *)
(*                                                                         *)
(* A run is a goroutine.  Each statement it sends to the database is a step *)
(* of its own; between two of them anything may happen.  Nothing is rolled *)
(* back when one fails, or when the program dies.                          *)
(*                                                                         *)
(* A key is a node's identity: protocol, address, port and configuration.  *)
(* It is also the canonical id the parser gives a node (stableID); other   *)
(* ids are drawn (uuid).  The status "active" stands for "unreachable" too. *)
(*                                                                         *)
(* Left out: the reads findPreviousSubscriptionNode sends for each candidate *)
(* (189-206), which are one here and do not fail; PUT /nodes/{id}, which may *)
(* give a node without a source another identity; and the location lookup, *)
(* which saves the whole node it read before.                              *)
(***************************************************************************)
EXTENDS Integers, FiniteSets

CONSTANTS
  Upstream,     \* the subscriptions
  Enabled,      \* those the scheduler refreshes
  Key,          \* identities of nodes
  None,         \* no node
  ByHand,       \* identities of the nodes that were made by hand before
  Listed,       \* bound: what a subscription may list
  MaxSpare,     \* bound: uuids
  MaxRuns,      \* bound: runs at a time
  MaxEvents     \* bound: lists changed, orders of the administrator, statements and
                \* fetches that fail, crashes, all together

ASSUME RefreshAssumption ==
  /\ {MaxSpare, MaxRuns, MaxEvents} \subseteq Nat
  /\ Enabled \subseteq Upstream /\ None \notin Key /\ ByHand \subseteq Key
  /\ Listed \subseteq SUBSET Key

Spare == 1..MaxSpare
Id    == Key \union Spare
Slot  == 1..MaxRuns

\* A uuid is no canonical id; a subscription lists what one answer can hold.
ASSUME IdAssumption == Key \intersect Spare = {} /\ \A s \in Listed : IsFiniteSet(s)

VARIABLES
  nodes,    \* table nodes: identity, status, and whether the user made it
  sources,  \* table node_sources: <<node, upstream>>
  lists,    \* what each subscription lists
  left,     \* how many rows in table jobs are active with no run to end them
  runs,     \* the runs, each with its row in table jobs; and, for the properties, whether
            \* a run was alone with its upstream, was misled by a read that failed,
            \* came too late for a disable of the node it has in hand
  events    \* how many there have been

vars == <<nodes, sources, lists, left, runs, events>>

Absent == [key |-> None, status |-> "absent", manual |-> FALSE]

Idle == [pc |-> "idle", of |-> None, row |-> "none", list |-> {}, todo |-> {}, previous |-> {},
         seen |-> {}, id |-> None, key |-> None, status |-> "absent",
         alone |-> TRUE, misled |-> FALSE, late |-> FALSE]

Exists(id)  == nodes[id] # Absent
Sources(id) == {u \in Upstream : <<id, u>> \in sources}
Sourced(u)  == {id \in Id : <<id, u>> \in sources}

Init ==
  /\ nodes = [id \in Id |-> IF id \in ByHand THEN [key |-> id, status |-> "active", manual |-> TRUE]
                                              ELSE Absent]
  /\ sources = {}
  /\ lists \in {[u \in Upstream |-> s] : s \in Listed}
  /\ left = [u \in Upstream |-> 0]
  /\ runs = [r \in Slot |-> Idle]
  /\ events = 0

Event == events < MaxEvents /\ events' = events + 1

Free == {r \in Slot : runs[r].pc = "idle"}

At(r, pc)   == runs[r].pc = pc
Goto(r, pc) == runs' = [runs EXCEPT ![r].pc = pc]

\* Done with a node, done with everything: what the run knew is of no more use.
GoOn(r)    == [runs[r] EXCEPT !.pc = "next", !.id = None, !.key = None, !.status = "absent",
                              !.late = FALSE]
End(r, pc) == runs' = [runs EXCEPT ![r] = [Idle EXCEPT !.pc = pc, !.of = runs[r].of, !.row = runs[r].row]]

\* saveFailure: the record says why, what was written stays.
Fails(r) ==
  /\ Event
  /\ End(r, "failed")
  /\ UNCHANGED <<nodes, sources, lists, left>>

-----------------------------------------------------------------------------
(* The runner.                                                              *)

Submit(u) ==
  \E r \in Free :
    /\ \A q \in Free : r <= q
    /\ runs' = [q \in Slot |->
         IF q = r THEN [Idle EXCEPT !.pc = "submitted", !.of = u, !.row = "active",
                                    !.alone = \A s \in Slot : runs[s].of # u]
         ELSE [runs[q] EXCEPT !.alone = @ /\ runs[q].of # u]]

\* The scheduler's tick: not for an upstream that has an active row.
Tick(u) ==
  /\ u \in Enabled
  /\ left[u] = 0 /\ \A r \in Slot : runs[r].of = u => runs[r].row # "active"
  /\ Submit(u)
  /\ UNCHANGED <<nodes, sources, lists, left, events>>

\* POST .../refresh submits without looking.
Request(u) ==
  /\ Event
  /\ Submit(u)
  /\ UNCHANGED <<nodes, sources, lists, left>>

Finish(r) ==
  /\ runs[r].pc \in {"succeeded", "failed"}
  /\ runs' = [runs EXCEPT ![r] = Idle]
  /\ UNCHANGED <<nodes, sources, lists, left, events>>

\* The row cannot be written: the run is over, and the row stays as it is.
Lose(r) ==
  /\ runs[r].pc \in {"submitted", "succeeded", "failed"}
  /\ Event
  /\ runs' = [runs EXCEPT ![r] = Idle]
  /\ left' = [left EXCEPT ![runs[r].of] = @ + (IF runs[r].row = "active" THEN 1 ELSE 0)]
  /\ UNCHANGED <<nodes, sources, lists>>

-----------------------------------------------------------------------------
(* Refresh.                                                                 *)

\* The row is running, whatever it was; the list is read.  A list without a node
\* is a malformed one to the parser.
Fetch(r) ==
  /\ At(r, "submitted")
  /\ LET list    == lists[runs[r].of]
         running == [runs[r] EXCEPT !.row = "active"] IN
     \/ /\ list # {}
        /\ runs' = [runs EXCEPT ![r] = [running EXCEPT !.pc = "previous", !.list = list, !.todo = list]]
        /\ UNCHANGED events
     \/ /\ runs' = [runs EXCEPT ![r] = [running EXCEPT !.pc = "failed"]]
        /\ IF list = {} THEN UNCHANGED events ELSE Event
  /\ UNCHANGED <<nodes, sources, lists, left>>

\* FindNodeIDsByUpstream.  An error is taken for an upstream without nodes.
Previous(r) ==
  /\ At(r, "previous")
  /\ \/ /\ runs' = [runs EXCEPT ![r].pc = "next", ![r].previous = Sourced(runs[r].of)]
        /\ UNCHANGED events
     \/ /\ Event
        /\ runs' = [runs EXCEPT ![r].pc = "next", ![r].misled = TRUE]
  /\ UNCHANGED <<nodes, sources, lists, left>>

\* findPreviousSubscriptionNode: whichever of them comes first in the map.
PreviousOf(r, k) ==
  {id \in runs[r].previous : nodes[id].key = k /\ runs[r].of \in Sources(id)}

\* An id nobody has.
Unused == {s \in Spare : /\ ~Exists(s)
                         /\ \A r \in Slot : s \notin {runs[r].id} \union runs[r].previous \union runs[r].seen}
Drawn == {s \in Unused : \A t \in Unused : s <= t}

\* The canonical node whoever it belongs to.
TargetsUnowned(r, k, found) == IF found \/ PreviousOf(r, k) = {} THEN {k} ELSE PreviousOf(r, k)

\* The ids a listed node may be saved under.  found: the canonical node is there.
Targets(r, k, found) ==
  IF found /\ Sources(k) # {} THEN {k}
  ELSE IF PreviousOf(r, k) # {} THEN PreviousOf(r, k)
  ELSE IF found THEN Drawn
  ELSE {k}

\* The run has seen its target before it is known what that is.
IdentifyBySeenKey(r, k) ==
  /\ At(r, "next") /\ k \in runs[r].todo
  /\ \E id \in Targets(r, k, Exists(k)) :
       runs' = [runs EXCEPT ![r].pc = "reread", ![r].key = k, ![r].id = id,
                            ![r].seen = @ \union {k}]
  /\ UNCHANGED <<nodes, sources, lists, left, events>>

\* The canonical node is looked up, then its sources.  An error of the first is
\* taken for a node that is not there.  The reads about the previous nodes
\* (findPreviousSubscriptionNode) are part of the same step.
Identify(r, k) ==
  /\ At(r, "next") /\ k \in runs[r].todo
  /\ \E found \in BOOLEAN :
       /\ \/ found = Exists(k) /\ UNCHANGED events
          \/ ~found /\ Exists(k) /\ Event
       /\ \E id \in Targets(r, k, found) :
            runs' = [runs EXCEPT ![r].pc = "reread", ![r].key = k, ![r].id = id,
                                 ![r].seen = @ \union {id},
                                 ![r].misled = @ \/ found # Exists(k)]
  /\ UNCHANGED <<nodes, sources, lists, left>>

\* A disabled node is to stay disabled; every other is active again.
Reread(r) ==
  /\ At(r, "reread")
  /\ LET read == nodes[runs[r].id].status = "disabled" IN
     \/ /\ runs' = [runs EXCEPT ![r].pc = "save",
                                ![r].status = IF read THEN "disabled" ELSE "active"]
        /\ UNCHANGED events
     \/ /\ Event /\ read
        /\ runs' = [runs EXCEPT ![r].pc = "save", ![r].status = "active", ![r].misled = TRUE]
  /\ UNCHANGED <<nodes, sources, lists, left>>

\* The run has read the node's status and is about to write it.
InHand(r, id) == runs[r].id = id /\ runs[r].pc \in {"save", "expire"}

\* The runs, when a node is given a status.
Informed(id, status) ==
  [r \in Slot |-> IF status = "disabled" /\ InHand(r, id) THEN [runs[r] EXCEPT !.late = TRUE]
                                                          ELSE runs[r]]

Save(r) ==
  /\ At(r, "save")
  /\ nodes' = [nodes EXCEPT ![runs[r].id] =
                 [key |-> runs[r].key, status |-> runs[r].status, manual |-> FALSE]]
  /\ runs' = [Informed(runs[r].id, runs[r].status) EXCEPT ![r].pc = "source"]
  /\ UNCHANGED <<sources, lists, left, events>>

\* The foreign key refuses the source of a node that was deleted meanwhile.
SaveNodeSource(r) ==
  /\ At(r, "source")
  /\ IF Exists(runs[r].id)
     THEN /\ sources' = sources \union {<<runs[r].id, runs[r].of>>}
          /\ runs' = [runs EXCEPT ![r] = [GoOn(r) EXCEPT !.todo = @ \ {runs[r].key}]]
     ELSE /\ End(r, "failed")
          /\ UNCHANGED sources
  /\ UNCHANGED <<nodes, lists, left, events>>

\* The node expires, its source stays.
SweepKeepingSource(r, id) ==
  /\ At(r, "next") /\ runs[r].todo = {}
  /\ id \in runs[r].previous \ runs[r].seen
  /\ runs' = [runs EXCEPT ![r].pc = "swept", ![r].id = id, ![r].previous = @ \ {id}]
  /\ UNCHANGED <<nodes, sources, lists, left, events>>

\* A node that is no longer listed.
Sweep(r, id) ==
  /\ At(r, "next") /\ runs[r].todo = {}
  /\ id \in runs[r].previous \ runs[r].seen
  /\ sources' = sources \ {<<id, runs[r].of>>}
  /\ runs' = [runs EXCEPT ![r].pc = "swept", ![r].id = id, ![r].previous = @ \ {id}]
  /\ UNCHANGED <<nodes, lists, left, events>>

Skip(r) == runs' = [runs EXCEPT ![r] = GoOn(r)]

\* With its last source gone its measurements go too, and it expires.
Look(r) ==
  /\ At(r, "swept")
  /\ LET keep == Sources(runs[r].id) # {} \/ nodes[runs[r].id].status \in {"absent", "disabled"} IN
     \/ ~keep /\ Goto(r, "expire") /\ UNCHANGED events
     \/ keep /\ Skip(r) /\ UNCHANGED events
     \/ Skip(r) /\ Event
  /\ UNCHANGED <<nodes, sources, lists, left>>

\* UpdateStatus; its error is dropped.
Expire(r) ==
  /\ At(r, "expire")
  /\ \/ /\ nodes' = IF Exists(runs[r].id) THEN [nodes EXCEPT ![runs[r].id].status = "expired"] ELSE nodes
        /\ UNCHANGED events
     \/ Event /\ UNCHANGED nodes
  /\ Skip(r)
  /\ UNCHANGED <<sources, lists, left>>

Record(r) ==
  /\ At(r, "next") /\ runs[r].todo = {} /\ runs[r].previous \subseteq runs[r].seen
  /\ End(r, "succeeded")
  /\ UNCHANGED <<nodes, sources, lists, left, events>>

Refresh(r) ==
  \/ Fetch(r) \/ Previous(r)
  \/ (\E k \in Key : Identify(r, k)) \/ Reread(r) \/ Save(r) \/ SaveNodeSource(r)
  \/ (\E id \in Id : Sweep(r, id)) \/ Look(r) \/ Expire(r)
  \/ Record(r)
  \/ runs[r].pc \in {"next", "save", "source", "swept"} /\ Fails(r)

Advance(r) == Lose(r) \/ Refresh(r) \/ Finish(r)

-----------------------------------------------------------------------------
(* The administrator, the subscriptions, the program's end.                 *)

SetStatus(id, status) ==
  /\ Exists(id) /\ nodes[id].status # status
  /\ Event
  /\ nodes' = [nodes EXCEPT ![id].status = status]
  /\ runs' = Informed(id, status)
  /\ UNCHANGED <<sources, lists, left>>

\* Whatever the status was.
Enable(id)  == SetStatus(id, "active")
Disable(id) == SetStatus(id, "disabled")

\* Refused while the node has a source, by the handler and by the foreign key.
Delete(id) ==
  /\ Exists(id) /\ Sources(id) = {}
  /\ Event
  /\ nodes' = [nodes EXCEPT ![id] = Absent]
  /\ UNCHANGED <<sources, lists, left, runs>>

\* cancelJob marks the row; it cannot stop a refresh.
Cancel(r) ==
  /\ runs[r].row = "active"
  /\ Event
  /\ runs' = [runs EXCEPT ![r].row = "cancelled"]
  /\ UNCHANGED <<nodes, sources, lists, left>>

CancelLeft(u) ==
  /\ left[u] > 0
  /\ Event
  /\ left' = [left EXCEPT ![u] = @ - 1]
  /\ UNCHANGED <<nodes, sources, lists, runs>>

ChangeList(u) ==
  /\ Event
  /\ \E s \in Listed \ {lists[u]} : lists' = [lists EXCEPT ![u] = s]
  /\ UNCHANGED <<nodes, sources, runs, left>>

\* main cancels the rows the last life of the program left active, or cannot.
Crash ==
  /\ Event
  /\ runs' = [r \in Slot |-> Idle]
  /\ \/ left' = [u \in Upstream |-> 0]
     \/ left' = [u \in Upstream |->
                   left[u] + Cardinality({r \in Slot : runs[r].of = u /\ runs[r].row = "active"})]
  /\ UNCHANGED <<nodes, sources, lists>>

Next ==
  \/ \E u \in Upstream : Tick(u) \/ Request(u) \/ ChangeList(u) \/ CancelLeft(u)
  \/ \E r \in Slot : Advance(r) \/ Cancel(r)
  \/ \E id \in Id : Enable(id) \/ Disable(id) \/ Delete(id)
  \/ Crash

Spec == Init /\ [][Next]_vars

(* The scheduler ticks, and a goroutine that can go on does.                *)
Fairness ==
  /\ \A u \in Enabled : WF_vars(Tick(u))
  /\ \A r \in Slot : WF_vars(Advance(r))

FairSpec == Spec /\ Fairness

-----------------------------------------------------------------------------
(* A run that ends in success, alone with its upstream and never deceived by *)
(* a read that failed, leaves the upstream with one node for each identity  *)
(* its list held, and with no other.  Earlier runs may have overlapped,     *)
(* failed half-way or died, and other upstreams share the nodes.            *)
SuccessMirrorsSubscription ==
  [][\A r \in Slot :
       LET run == runs[r] IN
       run.pc = "next" /\ runs'[r].pc = "succeeded" /\ run.alone /\ ~run.misled =>
         /\ Cardinality(Sourced(run.of)) = Cardinality(run.list)
         /\ {nodes[id].key : id \in Sourced(run.of)} = run.list]_vars

(* "Nodes made by hand are not affected by refreshes", and "a manual disable *)
(* must survive refresh": only the administrator changes a node made by     *)
(* hand or makes a disabled one usable, unless a failed read deceived the   *)
(* run, or the run had read the node's status before it was disabled.       *)
ManagementIsKept ==
  [][\A id \in Id, r \in Slot :
       /\ InHand(r, id) /\ ~InHand(r, id)' /\ nodes'[id] # nodes[id] /\ ~runs[r].misled
       => /\ ~nodes[id].manual
          /\ nodes[id].status = "disabled" /\ nodes'[id].status # "disabled" => runs[r].late]_vars

(* Once the administrator and the subscriptions are done with changes, each *)
(* upstream ends up with its list's nodes and no others, all of them usable *)
(* or disabled, whatever overlapped, failed or crashed before; unless a run *)
(* that could not write its row has left it active, which keeps the         *)
(* scheduler from ever refreshing that upstream again, or the list is empty, *)
(* which is an error that leaves the old nodes in place.                    *)
SubscriptionsConverge ==
  \A u \in Enabled :
    <>[](left[u] = 0 /\ lists[u] # {}) =>
      <>[](/\ {nodes[id].key : id \in Sourced(u)} = lists[u]
           /\ \A id \in Sourced(u) : nodes[id].status # "expired")
=============================================================================
