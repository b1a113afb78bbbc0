------------------------ MODULE UpstreamRefreshProofs ------------------------
(***************************************************************************)
(* Proofs about UpstreamRefresh, for any subscriptions, identities, number *)
(* of runs and of events: what the administrator decided is kept, and a    *)
(* refresh that succeeds leaves what its list held.                        *)
(***************************************************************************)
EXTENDS UpstreamRefresh, FiniteSetTheorems, TLAPS

Status == {"absent", "active", "disabled", "expired"}
Pc     == {"idle", "submitted", "previous", "next", "reread", "save", "source", "swept",
           "expire", "succeeded", "failed"}

NodeType == [key : Key \union {None}, status : Status, manual : BOOLEAN]
RunType  == [pc : Pc, of : Upstream \union {None}, row : {"none", "active", "cancelled"},
             list : SUBSET Key, todo : SUBSET Key, previous : SUBSET Id, seen : SUBSET Id,
             id : Id \union {None}, key : Key \union {None}, status : Status,
             alone : BOOLEAN, misled : BOOLEAN, late : BOOLEAN]

\* What the proofs need of the types; left and events play no part.
Typed ==
  /\ nodes \in [Id -> NodeType]
  /\ sources \subseteq Id \X Upstream
  /\ lists \in [Upstream -> SUBSET Key]
  /\ runs \in [Slot -> RunType]

\* A run knows whose it is, and with a node in hand which.
Holds(run) ==
  /\ run.pc # "idle" => run.of \in Upstream
  /\ run.pc \in {"reread", "save", "source", "swept", "expire"} => run.id \in Id
  /\ run.pc \in {"reread", "save", "source"} => run.key \in Key

\* No run that was told the truth is about to take a node made by hand for its
\* own, and none at all has one among those its subscription listed.
Apart(run) ==
  /\ \A id \in run.previous : ~nodes[id].manual
  /\ run.pc \in {"reread", "save"} /\ ~run.misled => ~nodes[run.id].manual
  /\ run.pc \in {"source", "swept", "expire"} => ~nodes[run.id].manual

\* A run about to make a disabled node something else is late.
Knows(run) ==
  /\ run.pc = "save" /\ nodes[run.id].status = "disabled" /\ ~run.misled =>
       run.status = "disabled" \/ run.late
  /\ run.pc = "expire" /\ nodes[run.id].status = "disabled" => run.late

ManualUnlisted == \A id \in Id : nodes[id].manual => Sources(id) = {}

IInv ==
  /\ Typed /\ ManualUnlisted
  /\ \A r \in Slot : Holds(runs[r]) /\ Apart(runs[r]) /\ Knows(runs[r])

-----------------------------------------------------------------------------
\* A step of one run that touches neither nodes nor sources.
LEMMA OneRun ==
  ASSUME IInv, NEW r \in Slot, NEW run \in RunType,
         runs' = [runs EXCEPT ![r] = run], UNCHANGED <<nodes, sources, lists>>,
         Holds(run), Apart(run), Knows(run)
  PROVE  IInv'
<1>1. runs'[r] = run /\ \A q \in Slot \ {r} : runs'[q] = runs[q]
  BY DEF IInv, Typed
<1>2. Typed'
  BY DEF IInv, Typed
<1>3. ManualUnlisted'
  BY DEF IInv, ManualUnlisted, Sources
<1>4. \A q \in Slot : Holds(runs[q])' /\ Apart(runs[q])' /\ Knows(runs[q])'
  BY <1>1 DEF IInv, Holds, Apart, Knows
<1>5. QED
  BY <1>2, <1>3, <1>4 DEF IInv

LEMMA RunFacts ==
  ASSUME IInv, NEW r \in Slot
  PROVE  /\ runs[r] \in RunType
         /\ Holds(runs[r]) /\ Apart(runs[r]) /\ Knows(runs[r])
BY DEF IInv, Typed

\* What is left of a run that goes on with the next node, and of one that ends.
LEMMA PutDown ==
  ASSUME IInv, NEW r \in Slot, runs[r].pc # "idle"
  PROVE  /\ GoOn(r) \in RunType /\ GoOn(r).pc = "next"
         /\ GoOn(r).previous = runs[r].previous /\ GoOn(r).of = runs[r].of
         /\ Holds(GoOn(r)) /\ Apart(GoOn(r)) /\ Knows(GoOn(r))
<1>1. /\ GoOn(r) \in RunType /\ GoOn(r).pc = "next"
      /\ GoOn(r).previous = runs[r].previous /\ GoOn(r).of = runs[r].of
  BY RunFacts DEF GoOn, RunType, Pc, Status
<1>2. QED
  BY <1>1, RunFacts DEF Holds, Apart, Knows

LEMMA IdleFacts ==
  /\ Idle \in RunType /\ Idle.pc = "idle" /\ Idle.previous = {}
  /\ Holds(Idle) /\ Apart(Idle) /\ Knows(Idle)
BY DEF Idle, RunType, Pc, Status, Holds, Apart, Knows

LEMMA EndKeeps ==
  ASSUME IInv, NEW r \in Slot, runs[r].pc # "idle", NEW pc \in {"succeeded", "failed"},
         End(r, pc), UNCHANGED <<nodes, sources, lists>>
  PROVE  IInv'
<1> DEFINE over == [Idle EXCEPT !.pc = pc, !.of = runs[r].of, !.row = runs[r].row]
<1>1. over \in RunType /\ over.pc = pc /\ over.previous = {} /\ over.of = runs[r].of
  BY RunFacts, IdleFacts DEF RunType, Pc, Status
<1>2. runs' = [runs EXCEPT ![r] = over]
  BY DEF End
<1> HIDE DEF over
<1>3. Holds(over) /\ Apart(over) /\ Knows(over)
  BY <1>1, RunFacts DEF Holds, Apart, Knows
<1>4. QED
  BY <1>1, <1>2, <1>3, OneRun

LEMMA SkipKeeps ==
  ASSUME IInv, NEW r \in Slot, runs[r].pc # "idle", Skip(r), UNCHANGED <<nodes, sources, lists>>
  PROVE  IInv'
BY PutDown, OneRun DEF Skip

-----------------------------------------------------------------------------
(* The runner's steps.                                                      *)

LEMMA SubmitKeeps ==
  ASSUME IInv, NEW u \in Upstream, Submit(u), UNCHANGED <<nodes, sources, lists>>
  PROVE  IInv'
<1>1. PICK r \in Slot :
        runs' = [q \in Slot |->
          IF q = r THEN [Idle EXCEPT !.pc = "submitted", !.of = u, !.row = "active",
                                     !.alone = \A s \in Slot : runs[s].of # u]
          ELSE [runs[q] EXCEPT !.alone = @ /\ runs[q].of # u]]
  BY DEF Submit, Free
<1>2. runs'[r] \in RunType /\ runs'[r].pc = "submitted" /\ runs'[r].previous = {}
        /\ runs'[r].of = u
  BY <1>1, IdleFacts DEF RunType, Pc
<1>3. ASSUME NEW q \in Slot, q # r
      PROVE  /\ runs'[q] \in RunType
             /\ runs'[q].pc = runs[q].pc /\ runs'[q].id = runs[q].id /\ runs'[q].key = runs[q].key
             /\ runs'[q].previous = runs[q].previous /\ runs'[q].misled = runs[q].misled
             /\ runs'[q].status = runs[q].status /\ runs'[q].late = runs[q].late
             /\ runs'[q].of = runs[q].of
  <2>1. runs'[q] = [runs[q] EXCEPT !.alone = @ /\ runs[q].of # u]
    BY <1>1, <1>3
  <2>2. QED
    BY <2>1, RunFacts DEF RunType
<1>4. Typed' /\ ManualUnlisted'
  BY <1>1, <1>2, <1>3 DEF IInv, Typed, ManualUnlisted, Sources
<1>5. ASSUME NEW q \in Slot
      PROVE  Holds(runs[q])' /\ Apart(runs[q])' /\ Knows(runs[q])'
  BY <1>2, <1>3, RunFacts DEF Holds, Apart, Knows
<1>6. QED
  BY <1>4, <1>5 DEF IInv

LEMMA FetchKeeps ==
  ASSUME IInv, NEW r \in Slot, Fetch(r)
  PROVE  IInv'
<1> DEFINE list    == lists[runs[r].of]
           started == [[runs[r] EXCEPT !.row = "active"] EXCEPT !.pc = "previous", !.list = list, !.todo = list]
           failed  == [[runs[r] EXCEPT !.row = "active"] EXCEPT !.pc = "failed"]
<1>1. runs[r].pc = "submitted" /\ UNCHANGED <<nodes, sources, lists>>
  BY DEF Fetch, At
<1>2. runs' = [runs EXCEPT ![r] = started] \/ runs' = [runs EXCEPT ![r] = failed]
  BY DEF Fetch
<1>3. list \in SUBSET Key
  BY <1>1, RunFacts DEF IInv, Typed, Holds
<1>4. /\ started \in RunType /\ started.pc = "previous"
      /\ started.previous = runs[r].previous /\ started.of = runs[r].of
  BY <1>3, RunFacts DEF RunType, Pc
<1>5. /\ failed \in RunType /\ failed.pc = "failed"
      /\ failed.previous = runs[r].previous /\ failed.of = runs[r].of
  BY RunFacts DEF RunType, Pc
<1> HIDE DEF started, failed
<1>6. Holds(started) /\ Apart(started) /\ Knows(started)
  BY <1>1, <1>4, RunFacts DEF Holds, Apart, Knows
<1>7. Holds(failed) /\ Apart(failed) /\ Knows(failed)
  BY <1>1, <1>5, RunFacts DEF Holds, Apart, Knows
<1>8. QED
  BY <1>1, <1>2, <1>4, <1>5, <1>6, <1>7, OneRun

LEMMA PreviousKeeps ==
  ASSUME IInv, NEW r \in Slot, Previous(r)
  PROVE  IInv'
<1> DEFINE read    == [runs[r] EXCEPT !.pc = "next", !.previous = Sourced(runs[r].of)]
           deluded == [runs[r] EXCEPT !.pc = "next", !.misled = TRUE]
<1>1. runs[r].pc = "previous" /\ UNCHANGED <<nodes, sources, lists>>
  BY DEF Previous, At
<1>2. runs' = [runs EXCEPT ![r] = read] \/ runs' = [runs EXCEPT ![r] = deluded]
  BY DEF Previous
<1>3. \A id \in Sourced(runs[r].of) : id \in Id /\ ~nodes[id].manual
  BY <1>1, RunFacts DEF IInv, ManualUnlisted, Sourced, Sources, Holds
<1>4. read \in RunType /\ read.pc = "next" /\ read.of = runs[r].of
        /\ read.previous = Sourced(runs[r].of)
  BY <1>3, RunFacts DEF RunType, Pc
<1>5. deluded \in RunType /\ deluded.pc = "next" /\ deluded.of = runs[r].of
        /\ deluded.previous = runs[r].previous
  BY RunFacts DEF RunType, Pc
<1> HIDE DEF read, deluded
<1>6. Holds(read) /\ Apart(read) /\ Knows(read)
  BY <1>1, <1>3, <1>4, RunFacts DEF Holds, Apart, Knows
<1>7. Holds(deluded) /\ Apart(deluded) /\ Knows(deluded)
  BY <1>1, <1>5, RunFacts DEF Holds, Apart, Knows
<1>8. QED
  BY <1>1, <1>2, <1>4, <1>5, <1>6, <1>7, OneRun

-----------------------------------------------------------------------------
(* A listed node: identified, looked at again, saved, given its source.     *)

\* What a run takes for a listed node is nobody's or a subscription's.
LEMMA TargetsApart ==
  ASSUME IInv, NEW r \in Slot, runs[r].pc = "next", NEW k \in Key, NEW found \in BOOLEAN,
         NEW id \in Targets(r, k, found)
  PROVE  id \in Id /\ (found = Exists(k) => ~nodes[id].manual)
<1>1. CASE found /\ Sources(k) # {}
  BY <1>1 DEF Targets, Id, IInv, ManualUnlisted
<1>2. CASE id \in PreviousOf(r, k)
  <2>1. id \in runs[r].previous
    BY <1>2 DEF PreviousOf
  <2>2. QED
    BY <2>1, RunFacts DEF RunType, Apart
<1>3. CASE id \in Drawn
  <2>1. id \in Spare /\ nodes[id] = Absent
    BY <1>3 DEF Drawn, Unused, Exists
  <2>2. QED
    BY <2>1 DEF Absent, Id
<1>4. CASE id = k /\ ~found
  BY <1>4 DEF Id, Exists, Absent
<1>5. QED
  BY <1>1, <1>2, <1>3, <1>4 DEF Targets

LEMMA IdentifyKeeps ==
  ASSUME IInv, NEW r \in Slot, NEW k \in Key, Identify(r, k)
  PROVE  IInv'
<1>1. runs[r].pc = "next" /\ UNCHANGED <<nodes, sources, lists>>
  BY DEF Identify, At
<1>8. PICK found \in BOOLEAN : \E id \in Targets(r, k, found) :
        runs' = [runs EXCEPT ![r].pc = "reread", ![r].key = k, ![r].id = id,
                             ![r].seen = @ \union {id},
                             ![r].misled = @ \/ found # Exists(k)]
  BY DEF Identify
<1>2. PICK id \in Targets(r, k, found) :
        runs' = [runs EXCEPT ![r].pc = "reread", ![r].key = k, ![r].id = id,
                             ![r].seen = @ \union {id},
                             ![r].misled = @ \/ found # Exists(k)]
  BY <1>8
<1> DEFINE run == [runs[r] EXCEPT !.pc = "reread", !.key = k, !.id = id,
                                  !.seen = @ \union {id},
                                  !.misled = @ \/ found # Exists(k)]
<1>3. id \in Id /\ (found = Exists(k) => ~nodes[id].manual)
  BY <1>1, TargetsApart
<1>4. runs' = [runs EXCEPT ![r] = run]
  BY <1>2
<1>5. /\ run \in RunType /\ run.pc = "reread" /\ run.id = id /\ run.key = k
      /\ run.of = runs[r].of /\ run.previous = runs[r].previous
      /\ ~run.misled => found = Exists(k)
  BY <1>3, RunFacts DEF RunType, Pc
<1> HIDE DEF run
<1>6. Holds(run) /\ Apart(run) /\ Knows(run)
  BY <1>1, <1>3, <1>5, RunFacts DEF Holds, Apart, Knows
<1>7. QED
  BY <1>1, <1>4, <1>5, <1>6, OneRun

LEMMA RereadKeeps ==
  ASSUME IInv, NEW r \in Slot, Reread(r)
  PROVE  IInv'
<1> DEFINE read == nodes[runs[r].id].status = "disabled"
           told == [runs[r] EXCEPT !.pc = "save", !.status = IF read THEN "disabled" ELSE "active"]
           deluded == [runs[r] EXCEPT !.pc = "save", !.status = "active", !.misled = TRUE]
<1>1. runs[r].pc = "reread" /\ UNCHANGED <<nodes, sources, lists>>
  BY DEF Reread, At
<1>2. runs' = [runs EXCEPT ![r] = told] \/ runs' = [runs EXCEPT ![r] = deluded]
  BY DEF Reread
<1>3. /\ told \in RunType /\ told.pc = "save" /\ told.id = runs[r].id /\ told.key = runs[r].key
      /\ told.of = runs[r].of /\ told.previous = runs[r].previous /\ told.misled = runs[r].misled
      /\ read => told.status = "disabled"
  BY RunFacts DEF RunType, Pc, Status
<1>4. /\ deluded \in RunType /\ deluded.pc = "save" /\ deluded.id = runs[r].id
      /\ deluded.key = runs[r].key /\ deluded.of = runs[r].of
      /\ deluded.previous = runs[r].previous /\ deluded.misled
  BY RunFacts DEF RunType, Pc, Status
<1> HIDE DEF told, deluded
<1>5. Holds(told) /\ Apart(told) /\ Knows(told)
  BY <1>1, <1>3, RunFacts DEF Holds, Apart, Knows
<1>6. Holds(deluded) /\ Apart(deluded) /\ Knows(deluded)
  BY <1>1, <1>4, RunFacts DEF Holds, Apart, Knows
<1>7. QED
  BY <1>1, <1>2, <1>3, <1>4, <1>5, <1>6, OneRun

\* A run is as it was, but perhaps for its step and for being late.
SameHand(run, was) ==
  /\ run.of = was.of /\ run.id = was.id /\ run.key = was.key /\ run.previous = was.previous
  /\ run.status = was.status /\ run.misled = was.misled
  /\ was.late => run.late

\* Telling the runs of a status changes nothing but that some of them are late.
LEMMA InformedFacts ==
  ASSUME IInv, NEW id \in Id, NEW status \in Status, NEW q \in Slot
  PROVE  /\ Informed(id, status)[q] \in RunType
         /\ SameHand(Informed(id, status)[q], runs[q])
         /\ Informed(id, status)[q].pc = runs[q].pc
         /\ status = "disabled" /\ InHand(q, id) => Informed(id, status)[q].late
BY RunFacts DEF Informed, RunType, SameHand

\* A node is given a status by a run or by the administrator, who tell the
\* runs; no node becomes one made by hand.
LEMMA StatusGiven ==
  ASSUME IInv, NEW id \in Id, NEW node \in NodeType,
         nodes' = [nodes EXCEPT ![id] = node], node.manual => nodes[id].manual,
         UNCHANGED <<sources, lists>>, runs' \in [Slot -> RunType],
         \A q \in Slot :
           /\ SameHand(runs'[q], runs[q])
           /\ runs'[q].pc # "source" => runs'[q].pc = runs[q].pc
           /\ runs'[q].pc = "source" => runs[q].pc = "source" \/ (runs[q].pc = "save" /\ node.manual = FALSE /\ runs[q].id = id)
           /\ node.status = "disabled" /\ InHand(q, id) => runs'[q].late
  PROVE  IInv'
<1>1. Typed'
  BY DEF IInv, Typed
<1>2. nodes'[id] = node /\ \A j \in Id \ {id} : nodes'[j] = nodes[j]
  BY DEF IInv, Typed
<1>3. \A j \in Id : nodes'[j].manual => nodes[j].manual
  BY <1>2
<1>4. ManualUnlisted'
  BY <1>3 DEF IInv, ManualUnlisted, Sources
<1>5. ASSUME NEW q \in Slot
      PROVE  Holds(runs[q])' /\ Apart(runs[q])' /\ Knows(runs[q])'
  <2>1. Holds(runs[q])'
    BY RunFacts DEF Holds, SameHand
  <2>2. \A j \in runs'[q].previous : j \in Id
    BY RunFacts DEF RunType
  <2>3. Apart(runs[q])'
    BY <1>2, <1>3, <2>1, <2>2, RunFacts DEF Apart, Holds, SameHand
  <2>4. Knows(runs[q])'
    BY <1>2, <2>1, RunFacts DEF Knows, Holds, InHand, SameHand
  <2>5. QED
    BY <2>1, <2>3, <2>4
<1>6. QED
  BY <1>1, <1>4, <1>5 DEF IInv

LEMMA SaveKeeps ==
  ASSUME IInv, NEW r \in Slot, Save(r)
  PROVE  IInv'
<1> DEFINE node == [key |-> runs[r].key, status |-> runs[r].status, manual |-> FALSE]
           told == Informed(runs[r].id, runs[r].status)
<1>1. /\ runs[r].pc = "save" /\ runs[r].id \in Id /\ runs[r].key \in Key
      /\ runs[r].status \in Status
  BY RunFacts DEF Save, At, Holds, RunType
<1>2. node \in NodeType /\ node.manual = FALSE /\ node.status = runs[r].status
  BY <1>1 DEF NodeType
<1>3. nodes' = [nodes EXCEPT ![runs[r].id] = node] /\ UNCHANGED <<sources, lists>>
  BY DEF Save
<1>4. told \in [Slot -> RunType]
  BY <1>1, InformedFacts DEF Informed
<1>5. runs' = [told EXCEPT ![r] = [told[r] EXCEPT !.pc = "source"]]
  BY DEF Save
<1> HIDE DEF node
<1>6. [told[r] EXCEPT !.pc = "source"] \in RunType
  BY <1>4 DEF RunType, Pc
<1>7. runs' \in [Slot -> RunType]
  BY <1>4, <1>5, <1>6
<1>8. ASSUME NEW q \in Slot
      PROVE  /\ SameHand(runs'[q], runs[q])
             /\ runs'[q].pc = IF q = r THEN "source" ELSE runs[q].pc
             /\ node.status = "disabled" /\ InHand(q, runs[r].id) => runs'[q].late
  <2>1. /\ SameHand(told[q], runs[q]) /\ told[q].pc = runs[q].pc
        /\ node.status = "disabled" /\ InHand(q, runs[r].id) => told[q].late
    BY <1>1, <1>2, InformedFacts
  <2>2. CASE q # r
    BY <1>4, <1>5, <2>1, <2>2
  <2>3. CASE q = r
    BY <1>4, <1>5, <2>1, <2>3 DEF RunType, SameHand
  <2>4. QED
    BY <2>2, <2>3
<1>9. \A q \in Slot : runs'[q].pc = IF q = r THEN "source" ELSE runs[q].pc
  BY <1>8
<1>10. \A q \in Slot :
         /\ runs'[q].pc # "source" => runs'[q].pc = runs[q].pc
         /\ runs'[q].pc = "source" =>
              runs[q].pc = "source" \/ (runs[q].pc = "save" /\ node.manual = FALSE /\ runs[q].id = runs[r].id)
  BY <1>1, <1>2, <1>9
<1>11. \A q \in Slot : SameHand(runs'[q], runs[q])
  BY <1>8
<1>12. \A q \in Slot : node.status = "disabled" /\ InHand(q, runs[r].id) => runs'[q].late
  BY <1>8
<1> HIDE DEF told
<1>13. QED
  BY <1>1, <1>2, <1>3, <1>7, <1>10, <1>11, <1>12, StatusGiven

LEMMA SaveNodeSourceKeeps ==
  ASSUME IInv, NEW r \in Slot, SaveNodeSource(r)
  PROVE  IInv'
<1>1. /\ runs[r].pc = "source" /\ UNCHANGED <<nodes, lists>>
      /\ runs[r].id \in Id /\ runs[r].of \in Upstream /\ ~nodes[runs[r].id].manual
  BY RunFacts DEF SaveNodeSource, At, Holds, Apart
<1>2. CASE Exists(runs[r].id)
  <2> DEFINE run == [GoOn(r) EXCEPT !.todo = @ \ {runs[r].key}]
  <2>1. /\ sources' = sources \union {<<runs[r].id, runs[r].of>>}
        /\ runs' = [runs EXCEPT ![r] = run]
    BY <1>2 DEF SaveNodeSource
  <2>2. GoOn(r) \in RunType /\ GoOn(r).pc = "next" /\ GoOn(r).previous = runs[r].previous
          /\ GoOn(r).of = runs[r].of
    BY <1>1, PutDown
  <2>3. run \in RunType /\ run.pc = "next" /\ run.previous = runs[r].previous /\ run.of = runs[r].of
    BY <2>2 DEF RunType
  <2> HIDE DEF run
  <2>4. Typed'
    BY <1>1, <2>1, <2>3 DEF IInv, Typed
  <2>5. ManualUnlisted'
    BY <1>1, <2>1 DEF IInv, ManualUnlisted, Sources
  <2>6. ASSUME NEW q \in Slot
        PROVE  Holds(runs[q])' /\ Apart(runs[q])' /\ Knows(runs[q])'
    BY <1>1, <2>1, <2>3, RunFacts DEF IInv, Typed, Holds, Apart, Knows
  <2>7. QED
    BY <2>4, <2>5, <2>6 DEF IInv
<1>3. CASE ~Exists(runs[r].id)
  BY <1>1, <1>3, EndKeeps DEF SaveNodeSource
<1>4. QED
  BY <1>2, <1>3

-----------------------------------------------------------------------------
(* Nodes that are no longer listed.                                         *)

LEMMA SweepKeeps ==
  ASSUME IInv, NEW r \in Slot, NEW id \in Id, Sweep(r, id)
  PROVE  IInv'
<1> DEFINE run == [runs[r] EXCEPT !.pc = "swept", !.id = id, !.previous = @ \ {id}]
<1>1. /\ runs[r].pc = "next" /\ id \in runs[r].previous /\ UNCHANGED <<nodes, lists>>
      /\ sources' \subseteq sources
      /\ runs' = [runs EXCEPT ![r] = run]
  BY DEF Sweep, At
<1>2. run \in RunType /\ run.pc = "swept" /\ run.id = id /\ run.of = runs[r].of
        /\ run.previous = runs[r].previous \ {id}
  BY RunFacts DEF RunType, Pc
<1> HIDE DEF run
<1>3. Typed' /\ ManualUnlisted'
  BY <1>1, <1>2 DEF IInv, Typed, ManualUnlisted, Sources
<1>4. Holds(run) /\ Apart(run) /\ Knows(run)
  BY <1>1, <1>2, RunFacts DEF Holds, Apart, Knows
<1>5. ASSUME NEW q \in Slot
      PROVE  Holds(runs[q])' /\ Apart(runs[q])' /\ Knows(runs[q])'
  <2>1. runs'[q] = IF q = r THEN run ELSE runs[q]
    BY <1>1 DEF IInv, Typed
  <2>2. QED
    BY <1>1, <1>4, <2>1, RunFacts DEF Holds, Apart, Knows
<1>6. QED
  BY <1>3, <1>5 DEF IInv

LEMMA LookKeeps ==
  ASSUME IInv, NEW r \in Slot, Look(r)
  PROVE  IInv'
<1>1. runs[r].pc = "swept" /\ UNCHANGED <<nodes, sources, lists>>
  BY DEF Look, At
<1>2. CASE Skip(r)
  BY <1>1, <1>2, SkipKeeps
<1>3. CASE Goto(r, "expire") /\ nodes[runs[r].id].status # "disabled"
  <2> DEFINE run == [runs[r] EXCEPT !.pc = "expire"]
  <2>1. runs' = [runs EXCEPT ![r] = run]
    BY <1>3 DEF Goto
  <2>2. run \in RunType /\ run.pc = "expire" /\ run.id = runs[r].id /\ run.of = runs[r].of
          /\ run.previous = runs[r].previous
    BY RunFacts DEF RunType, Pc
  <2> HIDE DEF run
  <2>3. Holds(run) /\ Apart(run) /\ Knows(run)
    BY <1>1, <1>3, <2>2, RunFacts DEF Holds, Apart, Knows
  <2>4. QED
    BY <1>1, <2>1, <2>2, <2>3, OneRun
<1>4. QED
  BY <1>2, <1>3 DEF Look

LEMMA ExpireKeeps ==
  ASSUME IInv, NEW r \in Slot, Expire(r)
  PROVE  IInv'
<1>1. runs[r].pc = "expire" /\ Skip(r) /\ UNCHANGED <<sources, lists>>
  BY DEF Expire, At
<1>2. CASE UNCHANGED nodes
  BY <1>1, <1>2, SkipKeeps
<1>3. CASE nodes' = [nodes EXCEPT ![runs[r].id].status = "expired"]
  <2> DEFINE id == runs[r].id
             node == [nodes[id] EXCEPT !.status = "expired"]
  <2>1. id \in Id /\ ~nodes[id].manual
    BY <1>1, RunFacts DEF Holds, Apart
  <2>2. node \in NodeType /\ node.status = "expired" /\ node.manual = nodes[id].manual
    BY <2>1 DEF IInv, Typed, NodeType, Status
  <2>3. nodes' = [nodes EXCEPT ![id] = node]
    BY <1>3
  <2> HIDE DEF node
  <2>4. nodes'[id] = node /\ \A j \in Id \ {id} : nodes'[j] = nodes[j]
    BY <2>1, <2>3 DEF IInv, Typed
  <2>5. \A j \in Id : nodes'[j].manual = nodes[j].manual /\ (nodes'[j].status = "disabled" => nodes[j].status = "disabled")
    BY <2>2, <2>4
  <2>6. runs' = [runs EXCEPT ![r] = GoOn(r)]
    BY <1>1 DEF Skip
  <2>7. Typed'
    BY <1>1, <2>2, <2>3, <2>6, PutDown DEF IInv, Typed
  <2>8. ManualUnlisted'
    BY <1>1, <2>5 DEF IInv, ManualUnlisted, Sources
  <2>9. ASSUME NEW q \in Slot
        PROVE  Holds(runs[q])' /\ Apart(runs[q])' /\ Knows(runs[q])'
    <3>1. runs'[q] = IF q = r THEN GoOn(r) ELSE runs[q]
      BY <2>6 DEF IInv, Typed
    <3>2. Holds(runs'[q]) /\ Apart(runs'[q]) /\ Knows(runs'[q]) /\ runs'[q] \in RunType
      BY <1>1, <3>1, PutDown, RunFacts
    <3>3. QED
      BY <2>5, <3>2 DEF Holds, Apart, Knows, RunType
  <2>10. QED
    BY <2>7, <2>8, <2>9 DEF IInv
<1>4. QED
  BY <1>2, <1>3 DEF Expire

\* The steps of one run.
LEMMA AdvanceKeeps ==
  ASSUME IInv, NEW r \in Slot, Advance(r)
  PROVE  IInv'
<1>1. CASE Lose(r) \/ Finish(r)
  BY <1>1, IdleFacts, OneRun DEF Lose, Finish
<1>2. CASE Record(r) \/ (runs[r].pc \in {"next", "save", "source", "swept"} /\ Fails(r))
  BY <1>2, EndKeeps DEF Record, Fails, At
<1>3. QED
  BY <1>1, <1>2, FetchKeeps, PreviousKeeps, IdentifyKeeps, RereadKeeps, SaveKeeps,
     SaveNodeSourceKeeps, SweepKeeps, LookKeeps, ExpireKeeps DEF Advance, Refresh

-----------------------------------------------------------------------------
(* The administrator's steps.                                               *)

LEMMA SetStatusKeeps ==
  ASSUME IInv, NEW id \in Id, NEW status \in {"active", "disabled"}, SetStatus(id, status)
  PROVE  IInv'
<1> DEFINE node == [nodes[id] EXCEPT !.status = status]
<1>1. node \in NodeType /\ node.status = status /\ node.manual = nodes[id].manual
  BY DEF IInv, Typed, NodeType, Status
<1>2. nodes' = [nodes EXCEPT ![id] = node] /\ UNCHANGED <<sources, lists>>
      /\ runs' = Informed(id, status)
  BY DEF SetStatus
<1> HIDE DEF node
<1>3. ASSUME NEW q \in Slot
      PROVE  /\ runs'[q] \in RunType /\ SameHand(runs'[q], runs[q]) /\ runs'[q].pc = runs[q].pc
             /\ status = "disabled" /\ InHand(q, id) => runs'[q].late
  BY <1>2, InformedFacts DEF Status
<1>4. runs' \in [Slot -> RunType]
  BY <1>2, <1>3 DEF Informed
<1>5. \A q \in Slot : SameHand(runs'[q], runs[q]) /\ runs'[q].pc = runs[q].pc
  BY <1>3
<1>6. \A q \in Slot : node.status = "disabled" /\ InHand(q, id) => runs'[q].late
  BY <1>1, <1>3
<1>7. QED
  BY <1>1, <1>2, <1>4, <1>5, <1>6, StatusGiven

LEMMA DeleteKeeps ==
  ASSUME IInv, NEW id \in Id, Delete(id)
  PROVE  IInv'
<1>1. nodes' = [nodes EXCEPT ![id] = Absent] /\ UNCHANGED <<sources, lists, runs>>
  BY DEF Delete
<1>2. Absent \in NodeType /\ Absent.manual = FALSE /\ Absent.status = "absent"
  BY DEF Absent, NodeType, Status
<1>3. \A q \in Slot : SameHand(runs'[q], runs[q]) /\ runs'[q].pc = runs[q].pc
  BY <1>1 DEF SameHand
<1>4. runs' \in [Slot -> RunType]
  BY <1>1 DEF IInv, Typed
<1>5. QED
  BY <1>1, <1>2, <1>3, <1>4, StatusGiven

LEMMA CancelKeeps ==
  ASSUME IInv, NEW r \in Slot, Cancel(r)
  PROVE  IInv'
<1> DEFINE run == [runs[r] EXCEPT !.row = "cancelled"]
<1>1. runs' = [runs EXCEPT ![r] = run] /\ UNCHANGED <<nodes, sources, lists>>
  BY DEF Cancel
<1>2. /\ run \in RunType /\ run.pc = runs[r].pc /\ run.of = runs[r].of /\ run.id = runs[r].id
      /\ run.key = runs[r].key /\ run.previous = runs[r].previous /\ run.status = runs[r].status
      /\ run.misled = runs[r].misled /\ run.late = runs[r].late
  BY RunFacts DEF RunType
<1> HIDE DEF run
<1>3. Holds(run) /\ Apart(run) /\ Knows(run)
  BY <1>2, RunFacts DEF Holds, Apart, Knows
<1>4. QED
  BY <1>1, <1>2, <1>3, OneRun

LEMMA CrashKeeps ==
  ASSUME IInv, Crash
  PROVE  IInv'
<1>1. runs' = [r \in Slot |-> Idle] /\ UNCHANGED <<nodes, sources, lists>>
  BY DEF Crash
<1>2. Typed' /\ ManualUnlisted'
  BY <1>1, IdleFacts DEF IInv, Typed, ManualUnlisted, Sources
<1>3. ASSUME NEW r \in Slot
      PROVE  Holds(runs[r])' /\ Apart(runs[r])' /\ Knows(runs[r])'
  BY <1>1, IdleFacts DEF Holds, Apart, Knows
<1>4. QED
  BY <1>2, <1>3 DEF IInv

\* The lists change, and nothing else but the rows left behind and the events.
LEMMA ListsKeep ==
  ASSUME IInv, lists' \in [Upstream -> SUBSET Key], UNCHANGED <<nodes, sources, runs>>
  PROVE  IInv'
<1>1. Typed' /\ ManualUnlisted'
  BY DEF IInv, Typed, ManualUnlisted, Sources
<1>2. ASSUME NEW r \in Slot
      PROVE  Holds(runs[r])' /\ Apart(runs[r])' /\ Knows(runs[r])'
  BY RunFacts DEF Holds, Apart, Knows
<1>3. QED
  BY <1>1, <1>2 DEF IInv

-----------------------------------------------------------------------------
LEMMA InitHolds == Init => IInv
<1> SUFFICES ASSUME Init PROVE IInv
  OBVIOUS
<1> USE RefreshAssumption DEF RefreshAssumption
<1>1. \A id \in Id : nodes[id] \in NodeType
  BY DEF Init, NodeType, Absent, Status
<1>2. Typed
  <2>1. nodes \in [Id -> NodeType]
    BY <1>1 DEF Init
  <2>2. lists \in [Upstream -> SUBSET Key] /\ sources = {} /\ runs = [r \in Slot |-> Idle]
    BY DEF Init
  <2>3. QED
    BY <2>1, <2>2, IdleFacts DEF Typed
<1>3. ManualUnlisted
  BY DEF Init, ManualUnlisted, Sources
<1>4. \A r \in Slot : Holds(runs[r]) /\ Apart(runs[r]) /\ Knows(runs[r])
  BY IdleFacts DEF Init
<1>5. QED
  BY <1>2, <1>3, <1>4 DEF IInv

LEMMA NextKeeps == IInv /\ [Next]_vars => IInv'
<1> SUFFICES ASSUME IInv, [Next]_vars PROVE IInv'
  OBVIOUS
<1>1. ASSUME NEW u \in Upstream, Tick(u) \/ Request(u)
      PROVE  IInv'
  BY <1>1, SubmitKeeps DEF Tick, Request
<1>2. ASSUME NEW u \in Upstream, ChangeList(u) \/ CancelLeft(u)
      PROVE  IInv'
  <2>1. lists' \in [Upstream -> SUBSET Key] /\ UNCHANGED <<nodes, sources, runs>>
    BY <1>2, RefreshAssumption DEF ChangeList, CancelLeft, RefreshAssumption, IInv, Typed
  <2>2. QED
    BY <2>1, ListsKeep
<1>3. ASSUME NEW r \in Slot, Advance(r) \/ Cancel(r)
      PROVE  IInv'
  BY <1>3, AdvanceKeeps, CancelKeeps
<1>4. ASSUME NEW id \in Id, Enable(id) \/ Disable(id) \/ Delete(id)
      PROVE  IInv'
  BY <1>4, SetStatusKeeps, DeleteKeeps DEF Enable, Disable
<1>5. CASE Crash
  BY <1>5, CrashKeeps
<1>6. CASE UNCHANGED vars
  <2>1. lists' \in [Upstream -> SUBSET Key] /\ UNCHANGED <<nodes, sources, runs>>
    BY <1>6 DEF vars, IInv, Typed
  <2>2. QED
    BY <2>1, ListsKeep
<1>7. QED
  BY <1>1, <1>2, <1>3, <1>4, <1>5, <1>6 DEF Next

(* Whatever the subscriptions list, fail or overlap: the invariant on which *)
(* the administrator's decisions rest (UpstreamRefresher.Refresh).          *)
THEOREM RefreshInvariant == Spec => []IInv
BY InitHolds, NextKeeps, PTL DEF Spec

(* Saving or expiring a node leaves the other runs where they are.          *)
LEMMA HandKept ==
  ASSUME IInv, NEW q \in Slot, NEW r \in Slot, q # r, Save(q) \/ Expire(q)
  PROVE  runs'[r].pc = runs[r].pc /\ runs'[r].id = runs[r].id
<1>1. CASE Save(q)
  <2>1. runs[q].id \in Id /\ runs[q].status \in Status
    BY <1>1, RunFacts DEF Save, At, Holds, RunType
  <2>2. runs'[r] = Informed(runs[q].id, runs[q].status)[r]
    BY <1>1 DEF Save, Informed
  <2>3. QED
    BY <2>1, <2>2, InformedFacts DEF SameHand
<1>2. CASE Expire(q)
  BY <1>2 DEF Expire, Skip, IInv, Typed
<1>3. QED
  BY <1>1, <1>2

(* A refresh changes no node made by hand and makes no disabled node usable, *)
(* unless a read failed it or the disable came after its read.              *)
THEOREM ManagementKept == Spec => ManagementIsKept
<1>1. ASSUME IInv, [Next]_vars, NEW id \in Id, NEW r \in Slot,
             InHand(r, id), ~InHand(r, id)', nodes'[id] # nodes[id], ~runs[r].misled
      PROVE  /\ ~nodes[id].manual
             /\ nodes[id].status = "disabled" /\ nodes'[id].status # "disabled" => runs[r].late
  <2>1. /\ runs[r].id = id /\ runs[r].pc \in {"save", "expire"}
        /\ Apart(runs[r]) /\ Knows(runs[r])
    BY <1>1, RunFacts DEF InHand
  <2>2. ~nodes[id].manual
    BY <1>1, <2>1 DEF Apart
  <2>3. CASE Save(r)
    <3>1. nodes'[id].status = runs[r].status
      BY <1>1, <2>1, <2>3 DEF Save, IInv, Typed
    <3>2. runs[r].pc = "save"
      BY <2>3 DEF Save, At
    <3>3. QED
      BY <1>1, <2>1, <2>2, <3>1, <3>2 DEF Knows
  <2>4. CASE Expire(r)
    <3>1. runs[r].pc = "expire"
      BY <2>4 DEF Expire, At
    <3>2. QED
      BY <2>1, <2>2, <3>1 DEF Knows
  <2>5. ASSUME NEW q \in Slot, Save(q) \/ Expire(q), q # r
        PROVE  FALSE
    <3>1. runs'[r].pc = runs[r].pc /\ runs'[r].id = runs[r].id
      BY <1>1, <2>5, HandKept
    <3>2. QED
      BY <1>1, <3>1 DEF InHand
  <2>6. ASSUME NEW j \in Id, NEW status \in {"active", "disabled"}, SetStatus(j, status)
        PROVE  FALSE
    <3>1. runs'[r].pc = runs[r].pc /\ runs'[r].id = runs[r].id
      BY <1>1, <2>6, InformedFacts DEF SetStatus, Status, SameHand
    <3>2. QED
      BY <1>1, <3>1 DEF InHand
  <2>7. ASSUME NEW j \in Id, Delete(j)
        PROVE  FALSE
    BY <1>1, <2>7 DEF Delete, InHand
  <2>8. ASSUME UNCHANGED nodes
        PROVE  FALSE
    BY <1>1, <2>8
  <2>9. ASSUME NEW q \in Slot, Advance(q), nodes' # nodes
        PROVE  Save(q) \/ Expire(q)
    BY <2>9 DEF Advance, Lose, Finish, Refresh, Fetch, Previous, Identify, Reread,
       SaveNodeSource, Sweep, Look, Record, Fails
  <2>10. ASSUME NEW q \in Slot, Advance(q)
         PROVE  Save(r) \/ Expire(r)
    BY <2>5, <2>8, <2>9, <2>10
  <2>11. CASE \E u \in Upstream : Tick(u) \/ Request(u) \/ ChangeList(u) \/ CancelLeft(u)
    BY <2>8, <2>11 DEF Tick, Request, ChangeList, CancelLeft
  <2>12. CASE \E q \in Slot : Advance(q) \/ Cancel(q)
    BY <2>3, <2>4, <2>8, <2>10, <2>12 DEF Cancel
  <2>13. CASE \E j \in Id : Enable(j) \/ Disable(j) \/ Delete(j)
    BY <2>6, <2>7, <2>13 DEF Enable, Disable
  <2>14. CASE Crash \/ UNCHANGED vars
    BY <2>8, <2>14 DEF Crash, vars
  <2>15. QED
    BY <1>1, <2>11, <2>12, <2>13, <2>14 DEF Next
<1>2. IInv /\ [Next]_vars =>
        \A id \in Id, r \in Slot :
          /\ InHand(r, id) /\ ~InHand(r, id)' /\ nodes'[id] # nodes[id] /\ ~runs[r].misled
          => /\ ~nodes[id].manual
             /\ nodes[id].status = "disabled" /\ nodes'[id].status # "disabled" => runs[r].late
  BY <1>1
<1>3. QED
  BY <1>2, RefreshInvariant, PTL DEF Spec, ManagementIsKept

-----------------------------------------------------------------------------
(* Success: the invariant on which a refresh that succeeds rests.           *)

HasNode(run) == run.pc \in {"reread", "save", "source"}
Active(run)  == run.pc \notin {"idle", "succeeded", "failed"}

\* Alone with its upstream, told the truth, and at its nodes.
Trusted(run) ==
  /\ run.pc \in {"next", "reread", "save", "source", "swept", "expire"}
  /\ run.alone /\ ~run.misled

\* The nodes that have their source.
Handled(run) == IF HasNode(run) THEN run.seen \ {run.id} ELSE run.seen

\* A canonical id names the identity of its node.
NodeKeys ==
  \A id \in Id : /\ nodes[id] = Absent \/ nodes[id].key \in Key
                 /\ id \in Key => nodes[id].key \in {id, None}

\* No node is about to be given another identity, and no two runs have one node
\* in hand for two identities.
HandKeys ==
  \A r \in Slot : HasNode(runs[r]) =>
    /\ runs[r].id \in Key => runs[r].key = runs[r].id
    /\ nodes[runs[r].id].key \in {runs[r].key, None}
    /\ \A q \in Slot : HasNode(runs[q]) /\ runs[q].id = runs[r].id => runs[q].key = runs[r].key

AloneIsAlone ==
  \A r, q \in Slot :
    r # q /\ Active(runs[r]) /\ Active(runs[q]) /\ runs[r].alone => runs[q].of # runs[r].of

Ready(run) ==
  /\ IsFiniteSet(run.list)
  /\ run.pc \in {"submitted", "previous"} => run.seen = {}
  /\ run.pc = "previous" => run.todo = run.list

\* The nodes handled are those of the listed identities dealt with, one for
\* each, and what else has this source is known to the run.
Mirrors(run) ==
  Trusted(run) =>
    /\ run.todo \subseteq run.list
    /\ HasNode(run) => run.key \in run.todo /\ run.id \in run.seen
    /\ Sourced(run.of) \subseteq run.previous \union run.seen
    /\ Handled(run) \subseteq Sourced(run.of)
    /\ \A id \in Handled(run) : nodes[id].key \in run.list \ run.todo
    /\ \A k \in run.list \ run.todo : \E id \in Handled(run) : nodes[id].key = k
    /\ \A i, j \in Handled(run) : nodes[i].key = nodes[j].key => i = j

MirrorInv ==
  /\ NodeKeys /\ HandKeys /\ AloneIsAlone /\ lists \in [Upstream -> Listed]
  /\ \A r \in Slot : Ready(runs[r]) /\ Mirrors(runs[r])

\* What a step may do to nodes: nothing, delete one without a source, change
\* its status, or save one that a run has in hand.
NodesMove ==
  \A id \in Id :
    \/ nodes'[id] = nodes[id]
    \/ nodes'[id] = Absent /\ Sources(id) = {}
    \/ Exists(id) /\ nodes'[id].key = nodes[id].key
    \/ \E q \in Slot : /\ HasNode(runs[q]) /\ runs[q].id = id
                       /\ nodes'[id].key = runs[q].key

\* A run goes on with what it has in hand, and with whom it is alone.
HandOn(run, was) == HasNode(run) => HasNode(was) /\ run.id = was.id /\ run.key = was.key
Still(run, was)  ==
  Active(run) => Active(was) /\ run.of = was.of /\ (run.alone => was.alone)

\* Nothing that matters here has changed for a run.
Alike(run, was) ==
  /\ run.pc = was.pc /\ run.of = was.of /\ run.list = was.list /\ run.todo = was.todo
  /\ run.previous = was.previous /\ run.seen = was.seen /\ run.id = was.id
  /\ run.key = was.key /\ run.misled = was.misled /\ (run.alone => was.alone)

\* A run has come no further with its nodes, or is not to be trusted.
Follows(run, was) ==
  Trusted(run) =>
    /\ Trusted(was) /\ run.of = was.of /\ run.list = was.list /\ run.todo = was.todo
    /\ run.previous = was.previous /\ run.seen = was.seen
    /\ HasNode(run) <=> HasNode(was)
    /\ HasNode(run) => run.id = was.id /\ run.key = was.key

KeysStay ==
  \A id \in Id : Sources(id) # {} /\ nodes[id].key \in Key => nodes'[id].key = nodes[id].key

\* Nobody else gives a source of the run's upstream, or takes one.
SourcesKept(q) ==
  Trusted(runs'[q]) =>
    \A id \in Id : <<id, runs[q].of>> \in sources' <=> <<id, runs[q].of>> \in sources

LEMMA NodeKeysKept ==
  ASSUME IInv, MirrorInv, NodesMove
  PROVE  NodeKeys' /\ KeysStay
<1>1. None \notin Key /\ Absent.key = None
  BY RefreshAssumption DEF RefreshAssumption, Absent
<1>2. ASSUME NEW id \in Id
      PROVE  /\ nodes'[id] = Absent \/ nodes'[id].key \in Key
             /\ id \in Key => nodes'[id].key \in {id, None}
             /\ Sources(id) # {} /\ nodes[id].key \in Key => nodes'[id].key = nodes[id].key
  <2>1. /\ nodes[id] = Absent \/ nodes[id].key \in Key
        /\ id \in Key => nodes[id].key \in {id, None}
    BY DEF MirrorInv, NodeKeys
  <2>2. ASSUME NEW q \in Slot, HasNode(runs[q]), runs[q].id = id
        PROVE  /\ runs[q].key \in Key
               /\ id \in Key => runs[q].key = id
               /\ nodes[id].key \in {runs[q].key, None}
    BY <2>2, RunFacts DEF MirrorInv, HandKeys, HasNode, Holds
  <2>3. QED
    BY <1>1, <2>1, <2>2 DEF NodesMove, Exists
<1>3. QED
  BY <1>2 DEF NodeKeys, KeysStay

LEMMA HandKeysKept ==
  ASSUME IInv, MirrorInv, NodesMove, \A q \in Slot : HandOn(runs'[q], runs[q])
  PROVE  HandKeys'
<1>1. ASSUME NEW r \in Slot, HasNode(runs'[r])
      PROVE  /\ runs'[r].id \in Key => runs'[r].key = runs'[r].id
             /\ nodes'[runs'[r].id].key \in {runs'[r].key, None}
             /\ \A q \in Slot : HasNode(runs'[q]) /\ runs'[q].id = runs'[r].id =>
                                  runs'[q].key = runs'[r].key
  <2>1. HasNode(runs[r]) /\ runs'[r].id = runs[r].id /\ runs'[r].key = runs[r].key
    BY <1>1 DEF HandOn
  <2>2. /\ runs[r].id \in Id
        /\ runs[r].id \in Key => runs[r].key = runs[r].id
        /\ nodes[runs[r].id].key \in {runs[r].key, None}
        /\ \A q \in Slot : HasNode(runs[q]) /\ runs[q].id = runs[r].id => runs[q].key = runs[r].key
    BY <2>1, RunFacts DEF MirrorInv, HandKeys, HasNode, Holds
  <2>3. nodes'[runs[r].id].key \in {runs[r].key, None}
    BY <2>2 DEF NodesMove, Absent
  <2>4. \A q \in Slot : HasNode(runs'[q]) /\ runs'[q].id = runs'[r].id => runs'[q].key = runs'[r].key
    BY <2>1, <2>2 DEF HandOn
  <2>5. QED
    BY <2>1, <2>2, <2>3, <2>4
<1>2. QED
  BY <1>1 DEF HandKeys, HasNode

LEMMA AloneKept ==
  ASSUME IInv, MirrorInv, \A q \in Slot : Still(runs'[q], runs[q])
  PROVE  AloneIsAlone'
BY DEF MirrorInv, AloneIsAlone, Active, Still

\* What a run that has come no further says of its nodes stays true, if nobody
\* else's source is given or taken.
LEMMA MirrorsKept ==
  ASSUME IInv, MirrorInv, KeysStay, NEW q \in Slot, runs'[q] \in RunType,
         Follows(runs'[q], runs[q]),
         SourcesKept(q)
  PROVE  Mirrors(runs[q])'
<1> SUFFICES ASSUME Trusted(runs'[q]) PROVE Mirrors(runs[q])'
  BY DEF Mirrors, Trusted
<1> DEFINE run == runs[q]
           done == Handled(runs[q])
<1>1. /\ Trusted(run) /\ run'.of = run.of /\ run'.list = run.list /\ run'.todo = run.todo
      /\ run'.previous = run.previous /\ run'.seen = run.seen
      /\ HasNode(run') <=> HasNode(run)
      /\ HasNode(run') => run'.id = run.id /\ run'.key = run.key
  BY DEF Follows
<1>2. /\ run.todo \subseteq run.list
      /\ HasNode(run) => run.key \in run.todo /\ run.id \in run.seen
      /\ Sourced(run.of) \subseteq run.previous \union run.seen
      /\ done \subseteq Sourced(run.of)
      /\ \A id \in done : nodes[id].key \in run.list \ run.todo
      /\ \A k \in run.list \ run.todo : \E id \in done : nodes[id].key = k
      /\ \A i, j \in done : nodes[i].key = nodes[j].key => i = j
  BY <1>1 DEF MirrorInv, Mirrors
<1>3. Handled(runs'[q]) = done
  BY <1>1 DEF Handled
<1>4. Sourced(runs[q].of)' = Sourced(run.of)
  BY <1>1 DEF SourcesKept, Sourced
<1>5. run.of \in Upstream /\ run.list \subseteq Key
  BY <1>1, RunFacts DEF Trusted, Holds, RunType
<1>6. \A id \in done : nodes'[id].key = nodes[id].key
  <2>1. ASSUME NEW id \in done PROVE nodes'[id].key = nodes[id].key
    <3>1. id \in Id /\ run.of \in Sources(id) /\ nodes[id].key \in Key
      BY <1>2, <1>5 DEF Sourced, Sources
    <3>2. QED
      BY <3>1 DEF KeysStay
  <2>2. QED
    BY <2>1
<1> HIDE DEF run, done
<1>7. QED
  BY <1>1, <1>2, <1>3, <1>4, <1>6 DEF Mirrors, run, Handled, HasNode

LEMMA MirrorFacts ==
  ASSUME IInv, MirrorInv, NEW r \in Slot
  PROVE  /\ runs[r] \in RunType /\ Holds(runs[r])
         /\ Ready(runs[r]) /\ Mirrors(runs[r])
BY RunFacts DEF MirrorInv

\* The nodes are as they were, or a run writes the one it has in hand, or the
\* administrator its status.
LEMMA SaveMoves ==
  ASSUME IInv, NEW r \in Slot, Save(r)
  PROVE  NodesMove
<1>1. HasNode(runs[r]) /\ runs[r].id \in Id
  BY RunFacts DEF Save, At, HasNode, Holds
<1>2. \A id \in Id \ {runs[r].id} : nodes'[id] = nodes[id]
  BY DEF Save, IInv, Typed
<1>3. nodes'[runs[r].id].key = runs[r].key
  BY <1>1 DEF Save, IInv, Typed
<1>4. QED
  BY <1>1, <1>2, <1>3 DEF NodesMove

LEMMA StatusMoves ==
  ASSUME IInv, NEW id \in Id, NEW status \in Status, Exists(id),
         nodes' = [nodes EXCEPT ![id].status = status]
  PROVE  NodesMove
<1>1. \A j \in Id \ {id} : nodes'[j] = nodes[j]
  BY DEF IInv, Typed
<1>2. nodes'[id].key = nodes[id].key
  BY DEF IInv, Typed, NodeType
<1>3. QED
  BY <1>1, <1>2 DEF NodesMove

LEMMA AdvanceMoves ==
  ASSUME IInv, NEW r \in Slot, Advance(r)
  PROVE  NodesMove
<1>1. CASE Save(r)
  BY <1>1, SaveMoves
<1>2. CASE Expire(r)
  <2>1. runs[r].id \in Id
    BY <1>2, RunFacts DEF Expire, At, Holds
  <2>2. UNCHANGED nodes \/ (Exists(runs[r].id) /\ nodes' = [nodes EXCEPT ![runs[r].id].status = "expired"])
    BY <1>2 DEF Expire
  <2>3. QED
    BY <2>1, <2>2, StatusMoves DEF Status, NodesMove
<1>3. CASE ~Save(r) /\ ~Expire(r)
  <2>1. UNCHANGED nodes
    BY <1>3 DEF Advance, Lose, Finish, Refresh, Fetch, Previous, Identify, Reread,
       SaveNodeSource, Sweep, Look, Record, Fails
  <2>2. QED
    BY <2>1 DEF NodesMove
<1>4. QED
  BY <1>1, <1>2, <1>3

\* Telling the runs of a status makes some of them late and nothing else.
LEMMA InformedAlike ==
  ASSUME IInv, NEW id \in Id, NEW status \in Status, NEW q \in Slot
  PROVE  Alike(Informed(id, status)[q], runs[q])
BY RunFacts DEF Informed, RunType, Alike

\* A run's step leaves the others where they are.
LEMMA Bystanders ==
  ASSUME IInv, NEW r \in Slot, Advance(r), NEW q \in Slot, q # r
  PROVE  Alike(runs'[q], runs[q])
<1>1. CASE Save(r)
  <2>1. runs[r].id \in Id /\ runs[r].status \in Status
    BY <1>1, RunFacts DEF Save, At, Holds, RunType
  <2>2. runs'[q] = Informed(runs[r].id, runs[r].status)[q]
    BY <1>1 DEF Save, Informed
  <2>3. QED
    BY <2>1, <2>2, InformedAlike
<1>2. CASE ~Save(r)
  <2>1. runs'[q] = runs[q]
    BY <1>2 DEF Advance, Lose, Finish, Refresh, Fetch, Previous, Identify, Reread,
       SaveNodeSource, Sweep, Look, Expire, Skip, Goto, End, Record, Fails, IInv, Typed
  <2>2. QED
    BY <2>1 DEF Alike
<1>3. QED
  BY <1>1, <1>2

\* All that the invariant asks of a run after a step.
Carried(q) ==
  /\ Still(runs'[q], runs[q])
  /\ Ready(runs[q])' /\ Mirrors(runs[q])'

LEMMA AlikeCarried ==
  ASSUME IInv, MirrorInv, KeysStay, NEW q \in Slot, runs'[q] \in RunType,
         Alike(runs'[q], runs[q]),
         SourcesKept(q)
  PROVE  Carried(q) /\ HandOn(runs'[q], runs[q])
<1>1. Follows(runs'[q], runs[q]) /\ HandOn(runs'[q], runs[q]) /\ Still(runs'[q], runs[q])
  BY DEF Alike, Follows, HandOn, Still, Trusted, HasNode, Active
<1>2. Mirrors(runs[q])'
  BY <1>1, MirrorsKept
<1>3. Ready(runs[q])'
  BY MirrorFacts DEF Ready, Alike
<1>4. QED
  BY <1>1, <1>2, <1>3 DEF Carried

\* A run that is over, or has not begun with its nodes, has nothing to show.
LEMMA Untrusted ==
  ASSUME NEW q \in Slot, ~Trusted(runs'[q])
  PROVE  Mirrors(runs[q])'
BY DEF Mirrors, Trusted

LEMMA Over ==
  ASSUME NEW q \in Slot, runs'[q].pc \in {"idle", "succeeded", "failed"}, IsFiniteSet(runs'[q].list)
  PROVE  Carried(q) /\ HandOn(runs'[q], runs[q])
<1>1. Mirrors(runs[q])'
  BY Untrusted DEF Trusted
<1>2. QED
  BY <1>1 DEF Carried, Ready, Still, HandOn, Active, HasNode

\* A run that goes on with a node in hand, or without one, but no further.
LEMMA FollowCarried ==
  ASSUME IInv, MirrorInv, KeysStay, NEW q \in Slot, runs'[q] \in RunType,
         runs'[q].pc \notin {"submitted", "previous"}, UNCHANGED sources,
         Still(runs'[q], runs[q]), Follows(runs'[q], runs[q]), runs'[q].list = runs[q].list
  PROVE  Carried(q)
<1>1. Mirrors(runs[q])'
  BY MirrorsKept DEF SourcesKept
<1>2. QED
  BY <1>1, MirrorFacts DEF Carried, Ready

-----------------------------------------------------------------------------
(* What each statement does for the run that sends it.                      *)

LEMMA FetchCarries ==
  ASSUME IInv, MirrorInv, NEW r \in Slot, Fetch(r)
  PROVE  Carried(r) /\ HandOn(runs'[r], runs[r])
<1> DEFINE list    == lists[runs[r].of]
           started == [[runs[r] EXCEPT !.row = "active"] EXCEPT !.pc = "previous", !.list = list, !.todo = list]
           failed  == [[runs[r] EXCEPT !.row = "active"] EXCEPT !.pc = "failed"]
<1>1. runs[r].pc = "submitted" /\ runs[r].of \in Upstream
  BY RunFacts DEF Fetch, At, Holds
<1>2. runs'[r] = started \/ runs'[r] = failed
  BY DEF Fetch, IInv, Typed
<1>3. IsFiniteSet(list) /\ runs[r].seen = {} /\ IsFiniteSet(runs[r].list)
  BY <1>1, MirrorFacts, IdAssumption DEF IdAssumption, MirrorInv, Ready
<1>4. /\ started.pc = "previous" /\ started.list = list /\ started.todo = list
      /\ started.seen = runs[r].seen /\ started.of = runs[r].of /\ started.alone = runs[r].alone
  BY RunFacts DEF RunType
<1>5. failed.pc = "failed" /\ failed.list = runs[r].list
  BY RunFacts DEF RunType
<1> HIDE DEF started, failed, list
<1>6. CASE runs'[r] = started
  <2>1. Mirrors(runs[r])'
    BY <1>4, <1>6, Untrusted DEF Trusted
  <2>2. QED
    BY <1>1, <1>3, <1>4, <1>6, <2>1 DEF Carried, Still, Ready, HandOn, HasNode, Active
<1>7. CASE runs'[r] = failed
  BY <1>3, <1>5, <1>7, Over
<1>8. QED
  BY <1>2, <1>6, <1>7

LEMMA PreviousCarries ==
  ASSUME IInv, MirrorInv, NEW r \in Slot, Previous(r)
  PROVE  Carried(r) /\ HandOn(runs'[r], runs[r])
<1> DEFINE read    == [runs[r] EXCEPT !.pc = "next", !.previous = Sourced(runs[r].of)]
           deluded == [runs[r] EXCEPT !.pc = "next", !.misled = TRUE]
<1>1. runs[r].pc = "previous" /\ runs[r].of \in Upstream /\ UNCHANGED <<nodes, sources>>
  BY RunFacts DEF Previous, At, Holds
<1>2. runs'[r] = read \/ runs'[r] = deluded
  BY DEF Previous, IInv, Typed
<1>3. IsFiniteSet(runs[r].list) /\ runs[r].seen = {} /\ runs[r].todo = runs[r].list
  BY <1>1, MirrorFacts DEF Ready
<1>4. /\ read.pc = "next" /\ read.list = runs[r].list /\ read.todo = runs[r].todo
      /\ read.seen = runs[r].seen /\ read.of = runs[r].of /\ read.alone = runs[r].alone
      /\ read.previous = Sourced(runs[r].of)
  BY RunFacts DEF RunType
<1>5. /\ deluded.pc = "next" /\ deluded.misled /\ deluded.list = runs[r].list
      /\ deluded.of = runs[r].of /\ deluded.alone = runs[r].alone
  BY RunFacts DEF RunType
<1> HIDE DEF read, deluded
<1>6. CASE runs'[r] = read
  <2>1. Sourced(runs[r].of)' = Sourced(runs[r].of)
    BY <1>1, <1>4, <1>6 DEF Sourced
  <2>2. Handled(runs'[r]) = {}
    BY <1>3, <1>4, <1>6 DEF Handled, HasNode
  <2>3. Mirrors(runs[r])'
    BY <1>3, <1>4, <1>6, <2>1, <2>2 DEF Mirrors, HasNode, Handled
  <2>4. QED
    BY <1>1, <1>3, <1>4, <1>6, <2>3 DEF Carried, Still, Ready, HandOn, HasNode, Active
<1>7. CASE runs'[r] = deluded
  <2>1. Mirrors(runs[r])'
    BY <1>5, <1>7, Untrusted DEF Trusted
  <2>2. QED
    BY <1>1, <1>3, <1>5, <1>7, <2>1 DEF Carried, Still, Ready, HandOn, HasNode, Active
<1>8. QED
  BY <1>2, <1>6, <1>7

\* A target whose lookup told the truth is not one the run has handled.
LEMMA TargetUnseen ==
  ASSUME IInv, MirrorInv, NEW r \in Slot, Trusted(runs[r]), runs[r].pc = "next",
         NEW k \in runs[r].todo, NEW id \in Targets(r, k, Exists(k))
  PROVE  id \notin runs[r].seen
<1>1. k \in Key /\ None \notin Key /\ Absent.key = None
  BY RunFacts, RefreshAssumption DEF RunType, RefreshAssumption, Absent
<1>2. \A i \in runs[r].seen : nodes[i].key \in runs[r].list \ runs[r].todo
  BY MirrorFacts DEF Mirrors, Handled, HasNode
<1>3. k \in Id /\ (nodes[k] = Absent \/ nodes[k].key = k)
  BY <1>1 DEF MirrorInv, NodeKeys, Id
<1>4. nodes[k].key \notin runs[r].list \ runs[r].todo
  BY <1>1, <1>3, RunFacts DEF RunType
<1>5. \A i \in PreviousOf(r, k) : nodes[i].key = k
  BY DEF PreviousOf
<1>6. \A i \in Drawn : i \notin runs[r].seen
  BY DEF Drawn, Unused
<1>7. id = k \/ id \in PreviousOf(r, k) \/ id \in Drawn
  BY DEF Targets
<1>8. QED
  BY <1>2, <1>4, <1>5, <1>6, <1>7

\* What a run takes for a listed node has that identity or none, and in another
\* run's hand it is the same.
LEMMA TargetKeys ==
  ASSUME IInv, MirrorInv, NEW r \in Slot, NEW k \in Key, NEW found \in BOOLEAN,
         NEW id \in Targets(r, k, found)
  PROVE  /\ id \in Key => k = id
         /\ nodes[id].key \in {k, None}
         /\ \A q \in Slot : HasNode(runs[q]) /\ runs[q].id = id => runs[q].key = k
<1>1. None \notin Key /\ Absent.key = None /\ Key \intersect Spare = {}
  BY RefreshAssumption, IdAssumption DEF RefreshAssumption, IdAssumption, Absent
<1>2. ASSUME NEW q \in Slot, HasNode(runs[q]), runs[q].id = id
      PROVE  /\ id \in Key => runs[q].key = id
             /\ nodes[id].key \in {runs[q].key, None}
  BY <1>2 DEF MirrorInv, HandKeys
<1>3. CASE id = k
  BY <1>2, <1>3 DEF MirrorInv, NodeKeys, Id
<1>4. CASE id \in PreviousOf(r, k)
  <2>1. nodes[id].key = k /\ id \in Id
    BY <1>4, RunFacts DEF PreviousOf, RunType
  <2>2. id \in Key => k = id
    BY <1>1, <2>1 DEF MirrorInv, NodeKeys
  <2>3. QED
    BY <1>1, <1>2, <2>1, <2>2
<1>5. CASE id \in Drawn
  BY <1>1, <1>5 DEF Drawn, Unused, Exists
<1>6. QED
  BY <1>3, <1>4, <1>5 DEF Targets

LEMMA IdentifyCarries ==
  ASSUME IInv, MirrorInv, NEW r \in Slot, NEW k \in Key, Identify(r, k)
  PROVE  /\ Carried(r) /\ runs'[r].key = k
         /\ \E found \in BOOLEAN : runs'[r].id \in Targets(r, k, found)
<1>1. /\ runs[r].pc = "next" /\ k \in runs[r].todo /\ UNCHANGED <<nodes, sources>>
      /\ runs[r].of \in Upstream
  BY RunFacts DEF Identify, At, Holds
<1>8. PICK found \in BOOLEAN : \E id \in Targets(r, k, found) :
        runs' = [runs EXCEPT ![r].pc = "reread", ![r].key = k, ![r].id = id,
                             ![r].seen = @ \union {id},
                             ![r].misled = @ \/ found # Exists(k)]
  BY DEF Identify
<1>2. PICK id \in Targets(r, k, found) :
        runs' = [runs EXCEPT ![r].pc = "reread", ![r].key = k, ![r].id = id,
                             ![r].seen = @ \union {id},
                             ![r].misled = @ \/ found # Exists(k)]
  BY <1>8
<1> DEFINE run == [runs[r] EXCEPT !.pc = "reread", !.key = k, !.id = id,
                                  !.seen = @ \union {id},
                                  !.misled = @ \/ found # Exists(k)]
<1>3. runs'[r] = run
  BY <1>2 DEF IInv, Typed
<1>4. /\ run.pc = "reread" /\ run.key = k /\ run.id = id /\ run.seen = runs[r].seen \union {id}
      /\ run.list = runs[r].list /\ run.todo = runs[r].todo /\ run.of = runs[r].of
      /\ run.previous = runs[r].previous /\ run.alone = runs[r].alone
      /\ ~run.misled => ~runs[r].misled /\ found = Exists(k)
  BY RunFacts DEF RunType
<1> HIDE DEF run
<1>5. ASSUME Trusted(run)
      PROVE  Mirrors(runs[r])'
  <2>1. Trusted(runs[r]) /\ found = Exists(k)
    BY <1>1, <1>4, <1>5 DEF Trusted
  <2>2. id \notin runs[r].seen
    BY <1>1, <2>1, TargetUnseen
  <2>3. Handled(runs'[r]) = runs[r].seen /\ Handled(runs[r]) = runs[r].seen
    BY <1>1, <1>3, <1>4, <2>2 DEF Handled, HasNode
  <2>4. Sourced(runs[r].of)' = Sourced(runs[r].of)
    BY <1>1, <1>3, <1>4 DEF Sourced
  <2>5. Mirrors(runs[r])
    BY MirrorFacts
  <2>6. QED
    BY <1>1, <1>3, <1>4, <2>1, <2>3, <2>4, <2>5 DEF Mirrors, HasNode, Handled
<1>6. Mirrors(runs[r])'
  BY <1>3, <1>5, Untrusted
<1>7. QED
  BY <1>1, <1>2, <1>3, <1>4, <1>6, MirrorFacts DEF Carried, Still, Ready, Active

LEMMA RereadCarries ==
  ASSUME IInv, IInv', MirrorInv, KeysStay, NEW r \in Slot, Reread(r)
  PROVE  Carried(r) /\ HandOn(runs'[r], runs[r])
<1> DEFINE told == [runs[r] EXCEPT !.pc = "save", !.status =
                      IF nodes[runs[r].id].status = "disabled" THEN "disabled" ELSE "active"]
           deluded == [runs[r] EXCEPT !.pc = "save", !.status = "active", !.misled = TRUE]
<1>1. runs[r].pc = "reread" /\ UNCHANGED sources
  BY DEF Reread, At
<1>2. runs'[r] = told \/ runs'[r] = deluded
  BY DEF Reread, IInv, Typed
<1>3. /\ told.pc = "save" /\ told.id = runs[r].id /\ told.key = runs[r].key
      /\ told.of = runs[r].of /\ told.list = runs[r].list /\ told.todo = runs[r].todo
      /\ told.previous = runs[r].previous /\ told.seen = runs[r].seen
      /\ told.alone = runs[r].alone /\ told.misled = runs[r].misled
  BY RunFacts DEF RunType
<1>4. /\ deluded.pc = "save" /\ deluded.id = runs[r].id /\ deluded.key = runs[r].key
      /\ deluded.of = runs[r].of /\ deluded.list = runs[r].list
      /\ deluded.alone = runs[r].alone /\ deluded.misled
  BY RunFacts DEF RunType
<1> HIDE DEF told, deluded
<1>5. Still(runs'[r], runs[r]) /\ HandOn(runs'[r], runs[r]) /\ Follows(runs'[r], runs[r])
  BY <1>1, <1>2, <1>3, <1>4 DEF Still, HandOn, Follows, Trusted, HasNode, Active
<1>6. QED
  BY <1>1, <1>2, <1>3, <1>4, <1>5, FollowCarried DEF IInv, Typed

LEMMA SaveCarries ==
  ASSUME IInv, IInv', MirrorInv, KeysStay, NEW r \in Slot, Save(r)
  PROVE  Carried(r) /\ HandOn(runs'[r], runs[r])
<1>1. runs[r].pc = "save" /\ UNCHANGED sources /\ runs[r].id \in Id /\ runs[r].status \in Status
  BY RunFacts DEF Save, At, Holds, RunType
<1> DEFINE told == Informed(runs[r].id, runs[r].status)
<1>2. told[r] \in RunType /\ Alike(told[r], runs[r])
  BY <1>1, InformedAlike, InformedFacts
<1>3. runs'[r] = [told[r] EXCEPT !.pc = "source"]
  BY DEF Save, Informed
<1> HIDE DEF told
<1>4. /\ runs'[r].pc = "source" /\ runs'[r].id = runs[r].id /\ runs'[r].key = runs[r].key
      /\ runs'[r].of = runs[r].of /\ runs'[r].list = runs[r].list /\ runs'[r].todo = runs[r].todo
      /\ runs'[r].previous = runs[r].previous /\ runs'[r].seen = runs[r].seen
      /\ (runs'[r].alone => runs[r].alone) /\ runs'[r].misled = runs[r].misled
  BY <1>2, <1>3 DEF RunType, Alike
<1>5. Still(runs'[r], runs[r]) /\ HandOn(runs'[r], runs[r]) /\ Follows(runs'[r], runs[r])
  BY <1>1, <1>4 DEF Still, HandOn, Follows, Trusted, HasNode, Active
<1>6. QED
  BY <1>1, <1>4, <1>5, FollowCarried DEF IInv, Typed

\* What a run keeps when it goes on with the next node.
LEMMA GoOnFacts ==
  ASSUME IInv, NEW r \in Slot
  PROVE  /\ GoOn(r).pc = "next" /\ GoOn(r).of = runs[r].of /\ GoOn(r).list = runs[r].list
         /\ GoOn(r).todo = runs[r].todo /\ GoOn(r).previous = runs[r].previous
         /\ GoOn(r).seen = runs[r].seen /\ GoOn(r).alone = runs[r].alone
         /\ GoOn(r).misled = runs[r].misled /\ GoOn(r) \in RunType
BY RunFacts DEF GoOn, RunType, Pc, Status

\* A node that has got its source is the one of its identity.
LEMMA SourceCarries ==
  ASSUME IInv, MirrorInv, NEW r \in Slot, SaveNodeSource(r), Exists(runs[r].id)
  PROVE  Carried(r) /\ HandOn(runs'[r], runs[r])
<1> DEFINE run == [GoOn(r) EXCEPT !.todo = @ \ {runs[r].key}]
           id  == runs[r].id
           key == runs[r].key
<1>1. /\ runs[r].pc = "source" /\ UNCHANGED nodes /\ id \in Id /\ key \in Key
      /\ runs[r].of \in Upstream
      /\ sources' = sources \union {<<id, runs[r].of>>}
  BY RunFacts DEF SaveNodeSource, At, Holds
<1>2. runs'[r] = run
  BY DEF SaveNodeSource, IInv, Typed
<1>3. /\ run.pc = "next" /\ run.of = runs[r].of /\ run.list = runs[r].list
      /\ run.todo = runs[r].todo \ {key} /\ run.previous = runs[r].previous
      /\ run.seen = runs[r].seen /\ run.alone = runs[r].alone /\ run.misled = runs[r].misled
  BY GoOnFacts DEF RunType
<1>4. nodes[id].key = key
  BY <1>1, RefreshAssumption DEF MirrorInv, NodeKeys, HandKeys, HasNode, Exists, RefreshAssumption
<1> HIDE DEF run
<1>5. ASSUME Trusted(run)
      PROVE  Mirrors(runs[r])'
  <2> DEFINE done == Handled(runs[r])
  <2>1. Trusted(runs[r]) /\ HasNode(runs[r])
    BY <1>1, <1>3, <1>5 DEF Trusted, HasNode
  <2>2. /\ runs[r].todo \subseteq runs[r].list
        /\ key \in runs[r].todo /\ id \in runs[r].seen
        /\ Sourced(runs[r].of) \subseteq runs[r].previous \union runs[r].seen
        /\ done \subseteq Sourced(runs[r].of)
        /\ \A i \in done : nodes[i].key \in runs[r].list \ runs[r].todo
        /\ \A k \in runs[r].list \ runs[r].todo : \E i \in done : nodes[i].key = k
        /\ \A i, j \in done : nodes[i].key = nodes[j].key => i = j
    BY <2>1, MirrorFacts DEF Mirrors
  <2>3. Handled(runs'[r]) = runs[r].seen /\ runs[r].seen = done \union {id}
    BY <1>2, <1>3, <2>1, <2>2 DEF Handled, HasNode
  <2>4. Sourced(runs[r].of)' = Sourced(runs[r].of) \union {id}
    BY <1>1, <1>2, <1>3 DEF Sourced
  <2> HIDE DEF done, id, key
  <2>5. \A k \in run.list \ run.todo : \E i \in done \union {id} : nodes[i].key = k
    BY <1>3, <1>4, <2>2
  <2>6. \A i, j \in done \union {id} : nodes[i].key = nodes[j].key => i = j
    BY <1>4, <2>2
  <2>7. \A i \in done \union {id} : nodes[i].key \in run.list \ run.todo
    BY <1>3, <1>4, <2>2
  <2>8. ~HasNode(run)
    BY <1>3 DEF HasNode
  <2>9. QED
    BY <1>1, <1>2, <1>3, <2>2, <2>3, <2>4, <2>5, <2>6, <2>7, <2>8 DEF Mirrors, Handled, HasNode
<1>6. Mirrors(runs[r])'
  BY <1>2, <1>5, Untrusted
<1>7. QED
  BY <1>1, <1>2, <1>3, <1>6, MirrorFacts DEF Carried, Still, Ready, HandOn, HasNode, Active

\* A node that is listed no longer is none of those handled.
LEMMA SweepCarries ==
  ASSUME IInv, MirrorInv, NEW r \in Slot, NEW id \in Id, Sweep(r, id)
  PROVE  Carried(r) /\ HandOn(runs'[r], runs[r])
<1> DEFINE run == [runs[r] EXCEPT !.pc = "swept", !.id = id, !.previous = @ \ {id}]
<1>1. /\ runs[r].pc = "next" /\ id \notin runs[r].seen /\ UNCHANGED nodes
      /\ runs[r].of \in Upstream
      /\ sources' = sources \ {<<id, runs[r].of>>}
  BY RunFacts DEF Sweep, At, Holds
<1>2. runs'[r] = run
  BY DEF Sweep, IInv, Typed
<1>3. /\ run.pc = "swept" /\ run.of = runs[r].of /\ run.list = runs[r].list
      /\ run.todo = runs[r].todo /\ run.previous = runs[r].previous \ {id}
      /\ run.seen = runs[r].seen /\ run.alone = runs[r].alone /\ run.misled = runs[r].misled
  BY RunFacts DEF RunType
<1> HIDE DEF run
<1>4. ASSUME Trusted(run)
      PROVE  Mirrors(runs[r])'
  <2>1. Trusted(runs[r])
    BY <1>1, <1>3, <1>4 DEF Trusted
  <2>2. Handled(runs'[r]) = runs[r].seen /\ Handled(runs[r]) = runs[r].seen
    BY <1>1, <1>2, <1>3 DEF Handled, HasNode
  <2>3. Sourced(runs[r].of)' = Sourced(runs[r].of) \ {id}
    BY <1>1, <1>2, <1>3 DEF Sourced
  <2>4. Mirrors(runs[r])
    BY MirrorFacts
  <2>5. QED
    BY <1>1, <1>2, <1>3, <2>1, <2>2, <2>3, <2>4 DEF Mirrors, HasNode, Handled
<1>5. Mirrors(runs[r])'
  BY <1>2, <1>4, Untrusted
<1>6. QED
  BY <1>1, <1>2, <1>3, <1>5, MirrorFacts DEF Carried, Still, Ready, HandOn, HasNode, Active

LEMMA SkipCarries ==
  ASSUME IInv, IInv', MirrorInv, KeysStay, NEW r \in Slot, runs[r].pc \in {"swept", "expire"},
         Skip(r), UNCHANGED sources
  PROVE  Carried(r) /\ HandOn(runs'[r], runs[r])
<1>1. runs'[r] = GoOn(r)
  BY DEF Skip, IInv, Typed
<1>2. Still(runs'[r], runs[r]) /\ HandOn(runs'[r], runs[r]) /\ Follows(runs'[r], runs[r])
  BY <1>1, GoOnFacts DEF Still, HandOn, Follows, Trusted, HasNode, Active
<1>3. QED
  BY <1>1, <1>2, GoOnFacts, FollowCarried

LEMMA LookCarries ==
  ASSUME IInv, IInv', MirrorInv, KeysStay, NEW r \in Slot, Look(r)
  PROVE  Carried(r) /\ HandOn(runs'[r], runs[r])
<1>1. runs[r].pc = "swept" /\ UNCHANGED sources /\ (Goto(r, "expire") \/ Skip(r))
  BY DEF Look, At
<1>2. CASE Goto(r, "expire")
  <2> DEFINE run == [runs[r] EXCEPT !.pc = "expire"]
  <2>1. runs'[r] = run
    BY <1>2 DEF Goto, IInv, Typed
  <2>2. /\ run.pc = "expire" /\ run.of = runs[r].of /\ run.list = runs[r].list
        /\ run.todo = runs[r].todo /\ run.previous = runs[r].previous
        /\ run.seen = runs[r].seen /\ run.alone = runs[r].alone /\ run.misled = runs[r].misled
    BY RunFacts DEF RunType
  <2> HIDE DEF run
  <2>3. Still(runs'[r], runs[r]) /\ HandOn(runs'[r], runs[r]) /\ Follows(runs'[r], runs[r])
    BY <1>1, <2>1, <2>2 DEF Still, HandOn, Follows, Trusted, HasNode, Active
  <2>4. QED
    BY <1>1, <2>1, <2>2, <2>3, FollowCarried DEF IInv, Typed
<1>3. QED
  BY <1>1, <1>2, SkipCarries

\* The run is over, whatever it was at.
LEMMA OverCarries ==
  ASSUME IInv, NEW r \in Slot,
         Lose(r) \/ Finish(r) \/ Fails(r) \/ Record(r)
           \/ (SaveNodeSource(r) /\ ~Exists(runs[r].id))
  PROVE  Carried(r) /\ HandOn(runs'[r], runs[r])
<1>1. IsFiniteSet({})
  BY FS_EmptySet
<1>2. \/ runs'[r] = Idle
      \/ \E pc \in {"succeeded", "failed"} :
           runs'[r] = [Idle EXCEPT !.pc = pc, !.of = runs[r].of, !.row = runs[r].row]
  BY DEF Lose, Finish, Fails, Record, SaveNodeSource, End, IInv, Typed
<1>3. runs'[r].pc \in {"idle", "succeeded", "failed"} /\ runs'[r].list = {}
  <2>1. CASE runs'[r] = Idle
    BY <2>1 DEF Idle
  <2>2. ASSUME NEW pc \in {"succeeded", "failed"},
               runs'[r] = [Idle EXCEPT !.pc = pc, !.of = runs[r].of, !.row = runs[r].row]
        PROVE  runs'[r].pc = pc /\ runs'[r].list = {}
    BY <2>2 DEF Idle
  <2>3. QED
    BY <1>2, <2>1, <2>2
<1>4. QED
  BY <1>1, <1>3, Over

-----------------------------------------------------------------------------
(* Every step keeps it.                                                     *)

LEMMA OthersCarry ==
  ASSUME IInv, IInv', MirrorInv, KeysStay, NEW r \in Slot, Advance(r), NEW q \in Slot, q # r
  PROVE  Carried(q) /\ HandOn(runs'[q], runs[q])
<1>1. Alike(runs'[q], runs[q])
  BY Bystanders
<1>2. CASE UNCHANGED sources
  BY <1>1, <1>2, AlikeCarried DEF SourcesKept, IInv, Typed
<1>3. CASE SaveNodeSource(r) \/ \E id \in Id : Sweep(r, id)
  <2>1. Active(runs[r])
    BY <1>3 DEF SaveNodeSource, Sweep, At, Active
  <2>2. \A id \in Id, u \in Upstream :
          u # runs[r].of => (<<id, u>> \in sources' <=> <<id, u>> \in sources)
    <3>1. \/ UNCHANGED sources
          \/ \E id \in Id : sources' = sources \union {<<id, runs[r].of>>}
          \/ \E id \in Id : sources' = sources \ {<<id, runs[r].of>>}
      <4>1. SaveNodeSource(r) => UNCHANGED sources \/ sources' = sources \union {<<runs[r].id, runs[r].of>>}
        BY DEF SaveNodeSource
      <4>2. SaveNodeSource(r) => runs[r].id \in Id
        BY RunFacts DEF SaveNodeSource, At, Holds
      <4>3. (\E id \in Id : Sweep(r, id)) => \E id \in Id : sources' = sources \ {<<id, runs[r].of>>}
        BY DEF Sweep
      <4>4. QED
        BY <1>3, <4>1, <4>2, <4>3
    <3>2. QED
      BY <3>1
  <2>3. ASSUME Trusted(runs'[q])
        PROVE  runs[q].of \in Upstream /\ runs[q].of # runs[r].of
    BY <1>1, <2>1, <2>3, RunFacts DEF Trusted, Alike, Active, Holds, MirrorInv, AloneIsAlone
  <2>4. SourcesKept(q)
    BY <2>2, <2>3 DEF SourcesKept
  <2>5. QED
    BY <1>1, <2>4, AlikeCarried DEF IInv, Typed
<1>4. ASSUME ~UNCHANGED sources
      PROVE  SaveNodeSource(r) \/ \E id \in Id : Sweep(r, id)
  BY <1>4 DEF Advance, Lose, Finish, Refresh, Fetch, Previous, Identify, Reread, Save,
     Look, Expire, Record, Fails
<1>5. QED
  BY <1>2, <1>3, <1>4

LEMMA IdentifyHands ==
  ASSUME IInv, IInv', MirrorInv, NEW r \in Slot, NEW k \in Key, Identify(r, k)
  PROVE  HandKeys'
<1>1. UNCHANGED nodes
  BY DEF Identify
<1>2. \A q \in Slot : q # r => Alike(runs'[q], runs[q])
  BY Bystanders DEF Advance, Refresh
<1>3. PICK found \in BOOLEAN : runs'[r].id \in Targets(r, k, found)
  BY IdentifyCarries
<1>4. runs'[r].key = k
  BY IdentifyCarries
<1> DEFINE id == runs'[r].id
<1>5. /\ id \in Key => k = id
      /\ nodes[id].key \in {k, None}
      /\ \A q \in Slot : HasNode(runs[q]) /\ runs[q].id = id => runs[q].key = k
  BY <1>3, TargetKeys
<1>6. ASSUME NEW p \in Slot, HasNode(runs'[p])
      PROVE  /\ runs'[p].id \in Key => runs'[p].key = runs'[p].id
             /\ nodes'[runs'[p].id].key \in {runs'[p].key, None}
             /\ \A q \in Slot : HasNode(runs'[q]) /\ runs'[q].id = runs'[p].id =>
                                  runs'[q].key = runs'[p].key
  <2>1. CASE p = r
    BY <1>1, <1>2, <1>4, <1>5, <2>1 DEF Alike, HasNode
  <2>2. CASE p # r
    <3>1. /\ HasNode(runs[p]) /\ runs'[p].id = runs[p].id /\ runs'[p].key = runs[p].key
      BY <1>2, <1>6, <2>2 DEF Alike, HasNode
    <3>2. /\ runs[p].id \in Key => runs[p].key = runs[p].id
          /\ nodes[runs[p].id].key \in {runs[p].key, None}
          /\ \A q \in Slot : HasNode(runs[q]) /\ runs[q].id = runs[p].id => runs[q].key = runs[p].key
      BY <3>1 DEF MirrorInv, HandKeys
    <3>3. ASSUME NEW q \in Slot, HasNode(runs'[q]), runs'[q].id = runs'[p].id
          PROVE  runs'[q].key = runs'[p].key
      <4>1. CASE q = r
        BY <1>4, <1>5, <3>1, <3>3, <4>1
      <4>2. CASE q # r
        BY <1>2, <3>1, <3>2, <3>3, <4>2 DEF Alike, HasNode
      <4>3. QED
        BY <4>1, <4>2
    <3>4. QED
      BY <1>1, <3>1, <3>2, <3>3
  <2>3. QED
    BY <2>1, <2>2
<1>7. QED
  BY <1>6 DEF HandKeys, HasNode

\* The invariant, from what each run carries over.
LEMMA MirrorPuts ==
  ASSUME IInv, MirrorInv, NodesMove, HandKeys', lists' \in [Upstream -> Listed],
         \A q \in Slot : Carried(q)
  PROVE  MirrorInv'
<1>1. NodeKeys'
  BY NodeKeysKept
<1>2. AloneIsAlone'
  BY AloneKept DEF Carried
<1>3. \A q \in Slot : Ready(runs[q])' /\ Mirrors(runs[q])'
  BY DEF Carried
<1>4. QED
  BY <1>1, <1>2, <1>3 DEF MirrorInv

\* Nothing happens to the runs but that some are late or cancelled.
LEMMA MirrorStands ==
  ASSUME IInv, IInv', MirrorInv, NodesMove, UNCHANGED sources, lists' \in [Upstream -> Listed],
         \A q \in Slot : Alike(runs'[q], runs[q])
  PROVE  MirrorInv'
<1>1. KeysStay
  BY NodeKeysKept
<1>2. \A q \in Slot : Carried(q) /\ HandOn(runs'[q], runs[q])
  BY <1>1, AlikeCarried DEF SourcesKept, IInv, Typed
<1>3. HandKeys'
  BY <1>2, HandKeysKept
<1>4. QED
  BY <1>2, <1>3, MirrorPuts

LEMMA AdvanceMirrors ==
  ASSUME IInv, IInv', MirrorInv, NEW r \in Slot, Advance(r)
  PROVE  MirrorInv'
<1>1. NodesMove /\ KeysStay
  BY AdvanceMoves, NodeKeysKept
<1>2. lists' \in [Upstream -> Listed]
  BY DEF Advance, Lose, Finish, Refresh, Fetch, Previous, Identify, Reread, Save,
     SaveNodeSource, Sweep, Look, Expire, Record, Fails, MirrorInv
<1>3. \A q \in Slot \ {r} : Carried(q) /\ HandOn(runs'[q], runs[q])
  BY <1>1, OthersCarry
<1>4. CASE \E k \in Key : Identify(r, k)
  <2>1. Carried(r) /\ HandKeys'
    BY <1>4, IdentifyCarries, IdentifyHands
  <2>2. QED
    BY <1>1, <1>2, <1>3, <2>1, MirrorPuts
<1>5. CASE ~\E k \in Key : Identify(r, k)
  <2>1. ASSUME Expire(r)
        PROVE  Carried(r) /\ HandOn(runs'[r], runs[r])
    BY <1>1, <2>1, SkipCarries DEF Expire, At
  <2>2. ASSUME SaveNodeSource(r)
        PROVE  Carried(r) /\ HandOn(runs'[r], runs[r])
    BY <2>2, SourceCarries, OverCarries
  <2>3. ASSUME Lose(r) \/ Finish(r) \/ Fails(r) \/ Record(r)
        PROVE  Carried(r) /\ HandOn(runs'[r], runs[r])
    BY <2>3, OverCarries
  <2>4. Carried(r) /\ HandOn(runs'[r], runs[r])
    BY <1>1, <1>5, <2>1, <2>2, <2>3, FetchCarries, PreviousCarries, RereadCarries, SaveCarries,
       SweepCarries, LookCarries DEF Advance, Refresh
  <2>5. \A q \in Slot : HandOn(runs'[q], runs[q])
    BY <1>3, <2>4
  <2>6. HandKeys'
    BY <1>1, <2>5, HandKeysKept
  <2>7. QED
    BY <1>1, <1>2, <1>3, <2>4, <2>6, MirrorPuts
<1>6. QED
  BY <1>4, <1>5

LEMMA SubmitMirrors ==
  ASSUME IInv, IInv', MirrorInv, NEW u \in Upstream, Submit(u), UNCHANGED <<nodes, sources, lists>>
  PROVE  MirrorInv'
<1>1. PICK r \in Slot :
        runs' = [q \in Slot |->
          IF q = r THEN [Idle EXCEPT !.pc = "submitted", !.of = u, !.row = "active",
                                     !.alone = \A s \in Slot : runs[s].of # u]
          ELSE [runs[q] EXCEPT !.alone = @ /\ runs[q].of # u]]
  BY DEF Submit, Free
<1>2. runs'[r] = [Idle EXCEPT !.pc = "submitted", !.of = u, !.row = "active",
                              !.alone = \A s \in Slot : runs[s].of # u]
  BY <1>1
<1>3. /\ runs'[r].pc = "submitted" /\ runs'[r].of = u /\ runs'[r].seen = {}
      /\ runs'[r].list = {}
      /\ runs'[r].alone => \A s \in Slot : runs[s].of # u
  BY <1>2 DEF Idle
<1>4. ASSUME NEW q \in Slot, q # r
      PROVE  Alike(runs'[q], runs[q]) /\ (runs'[q].alone => runs[q].of # u)
  <2>1. runs'[q] = [runs[q] EXCEPT !.alone = @ /\ runs[q].of # u]
    BY <1>1, <1>4
  <2>2. QED
    BY <2>1, RunFacts DEF RunType, Alike
<1>5. NodesMove /\ KeysStay
  BY NodeKeysKept DEF NodesMove
<1>6. ASSUME NEW q \in Slot, q # r
      PROVE  Carried(q) /\ HandOn(runs'[q], runs[q])
  BY <1>4, <1>5, <1>6, AlikeCarried DEF SourcesKept, IInv, Typed
<1>7. HandOn(runs'[r], runs[r]) /\ Ready(runs[r])' /\ Mirrors(runs[r])'
  <2>1. IsFiniteSet({})
    BY FS_EmptySet
  <2>2. Mirrors(runs[r])'
    BY <1>3, Untrusted DEF Trusted
  <2>3. QED
    BY <1>3, <2>1, <2>2 DEF HandOn, HasNode, Ready
<1>8. HandKeys'
  BY <1>5, <1>6, <1>7, HandKeysKept
<1>9. AloneIsAlone'
  <2>1. ASSUME NEW p \in Slot, NEW q \in Slot, p # q, Active(runs'[p]), Active(runs'[q]),
               runs'[p].alone
        PROVE  runs'[q].of # runs'[p].of
    <3>1. CASE p = r
      BY <1>3, <1>4, <2>1, <3>1 DEF Alike
    <3>2. CASE q = r
      BY <1>3, <1>4, <2>1, <3>2 DEF Alike
    <3>3. CASE p # r /\ q # r
      BY <1>4, <2>1, <3>3 DEF Alike, Active, MirrorInv, AloneIsAlone
    <3>4. QED
      BY <3>1, <3>2, <3>3
  <2>2. QED
    BY <2>1 DEF AloneIsAlone, Active
<1>10. NodeKeys' /\ lists' \in [Upstream -> Listed]
  BY <1>5, NodeKeysKept DEF MirrorInv
<1>11. QED
  BY <1>6, <1>7, <1>8, <1>9, <1>10 DEF MirrorInv, Carried

LEMMA CrashMirrors ==
  ASSUME IInv, MirrorInv, Crash
  PROVE  MirrorInv'
<1>1. runs' = [r \in Slot |-> Idle] /\ UNCHANGED <<nodes, sources, lists>>
  BY DEF Crash
<1>2. NodesMove
  BY <1>1 DEF NodesMove
<1>3. Idle.list = {} /\ IsFiniteSet({})
  BY FS_EmptySet DEF Idle
<1>4. \A q \in Slot : Carried(q) /\ HandOn(runs'[q], runs[q])
  BY <1>1, <1>3, IdleFacts, Over
<1>5. HandKeys'
  BY <1>2, <1>4, HandKeysKept
<1>6. QED
  BY <1>1, <1>2, <1>4, <1>5, MirrorPuts DEF MirrorInv

LEMMA MirrorInit == Init => MirrorInv
<1> SUFFICES ASSUME Init PROVE MirrorInv
  OBVIOUS
<1>1. NodeKeys
  BY RefreshAssumption DEF Init, NodeKeys, Absent, Id, RefreshAssumption
<1>2. \A r \in Slot : runs[r] = Idle
  BY DEF Init
<1>3. Idle.list = {} /\ IsFiniteSet({})
  BY FS_EmptySet DEF Idle
<1>4. HandKeys /\ AloneIsAlone
  BY <1>2, IdleFacts DEF HandKeys, AloneIsAlone, HasNode, Active
<1>5. \A r \in Slot : Ready(runs[r]) /\ Mirrors(runs[r])
  BY <1>2, <1>3, IdleFacts DEF Ready, Mirrors, Trusted
<1>6. lists \in [Upstream -> Listed]
  BY DEF Init
<1>7. QED
  BY <1>1, <1>4, <1>5, <1>6 DEF MirrorInv

LEMMA MirrorNext == IInv /\ IInv' /\ MirrorInv /\ [Next]_vars => MirrorInv'
<1> SUFFICES ASSUME IInv, IInv', MirrorInv, [Next]_vars PROVE MirrorInv'
  OBVIOUS
<1>1. ASSUME NEW u \in Upstream, Tick(u) \/ Request(u)
      PROVE  MirrorInv'
  BY <1>1, SubmitMirrors DEF Tick, Request
<1>2. ASSUME UNCHANGED <<nodes, sources, runs>>, lists' \in [Upstream -> Listed]
      PROVE  MirrorInv'
  BY <1>2, MirrorStands DEF NodesMove, Alike
<1>3. ASSUME NEW u \in Upstream, ChangeList(u) \/ CancelLeft(u)
      PROVE  MirrorInv'
  BY <1>2, <1>3 DEF ChangeList, CancelLeft, MirrorInv
<1>4. ASSUME NEW r \in Slot, Cancel(r)
      PROVE  MirrorInv'
  <2>1. \A q \in Slot : Alike(runs'[q], runs[q])
    BY <1>4, RunFacts DEF Cancel, IInv, Typed, RunType, Alike
  <2>2. NodesMove /\ UNCHANGED sources /\ lists' \in [Upstream -> Listed]
    BY <1>4 DEF Cancel, NodesMove, MirrorInv
  <2>3. QED
    BY <2>1, <2>2, MirrorStands
<1>5. ASSUME NEW id \in Id, NEW status \in {"active", "disabled"}, SetStatus(id, status)
      PROVE  MirrorInv'
  <2>1. status \in Status
    BY DEF Status
  <2>2. \A q \in Slot : Alike(runs'[q], runs[q])
    BY <1>5, <2>1, InformedAlike DEF SetStatus
  <2>3. NodesMove
    BY <1>5, <2>1, StatusMoves DEF SetStatus
  <2>4. UNCHANGED sources /\ lists' \in [Upstream -> Listed]
    BY <1>5 DEF SetStatus, MirrorInv
  <2>5. QED
    BY <2>2, <2>3, <2>4, MirrorStands
<1>6. ASSUME NEW id \in Id, Delete(id)
      PROVE  MirrorInv'
  <2>1. \A q \in Slot : Alike(runs'[q], runs[q])
    BY <1>6 DEF Delete, Alike
  <2>2. NodesMove
    BY <1>6 DEF Delete, NodesMove, IInv, Typed
  <2>3. UNCHANGED sources /\ lists' \in [Upstream -> Listed]
    BY <1>6 DEF Delete, MirrorInv
  <2>4. QED
    BY <2>1, <2>2, <2>3, MirrorStands
<1>7. CASE UNCHANGED vars
  BY <1>2, <1>7 DEF vars, MirrorInv
<1>8. QED
  BY <1>1, <1>3, <1>4, <1>5, <1>6, <1>7, AdvanceMirrors, CrashMirrors DEF Next, Enable, Disable

(* Whatever overlaps, fails or crashes, a run alone with its upstream and   *)
(* told the truth has handled one node for each identity it has dealt with  *)
(* (UpstreamRefresher.Refresh, the loop over the listed nodes).             *)
THEOREM MirrorInvariant == Spec => []MirrorInv
<1>1. Spec => []IInv
  BY RefreshInvariant
<1>2. QED
  BY <1>1, MirrorInit, MirrorNext, PTL DEF Spec

\* Only Record makes a run that is at its nodes succeed.
LEMMA SucceedsByRecord ==
  ASSUME IInv, [Next]_vars, NEW r \in Slot, runs[r].pc = "next", runs'[r].pc = "succeeded"
  PROVE  Record(r)
<1>1. runs[r].pc # runs'[r].pc
  OBVIOUS
<1>2. ASSUME \A q \in Slot : Alike(runs'[q], runs[q])
      PROVE  FALSE
  BY <1>1, <1>2 DEF Alike
<1>3. ASSUME NEW q \in Slot, Advance(q)
      PROVE  Record(r)
  <2>1. q = r
    BY <1>1, <1>3, Bystanders DEF Alike
  <2>2. CASE Lose(r) \/ Finish(r)
    BY <2>2, IdleFacts DEF Lose, Finish, IInv, Typed
  <2>3. CASE Fails(r)
    BY <2>3 DEF Fails, End, Idle, IInv, Typed
  <2>4. ASSUME NEW k \in Key, Identify(r, k)
        PROVE  FALSE
    <3>1. runs'[r].pc = "reread"
      BY <2>4 DEF Identify, IInv, Typed, RunType
    <3>2. QED
      BY <3>1
  <2>5. ASSUME NEW id \in Id, Sweep(r, id)
        PROVE  FALSE
    <3>1. runs'[r].pc = "swept"
      BY <2>5 DEF Sweep, IInv, Typed, RunType
    <3>2. QED
      BY <3>1
  <2>6. QED
    BY <1>3, <2>1, <2>2, <2>3, <2>4, <2>5 DEF Advance, Refresh, Fetch, Previous, Reread, Save,
       SaveNodeSource, Look, Expire, At
<1>4. ASSUME NEW u \in Upstream, Submit(u)
      PROVE  FALSE
  <2>1. PICK q \in Slot :
          runs' = [s \in Slot |->
            IF s = q THEN [Idle EXCEPT !.pc = "submitted", !.of = u, !.row = "active",
                                       !.alone = \A t \in Slot : runs[t].of # u]
            ELSE [runs[s] EXCEPT !.alone = @ /\ runs[s].of # u]]
    BY <1>4 DEF Submit, Free
  <2>2. CASE r = q
    BY <2>1, <2>2 DEF Idle
  <2>3. CASE r # q
    BY <1>1, <2>1, <2>3, RunFacts DEF RunType
  <2>4. QED
    BY <2>2, <2>3
<1>5. ASSUME NEW q \in Slot, Cancel(q)
      PROVE  FALSE
  BY <1>1, <1>5, RunFacts DEF Cancel, IInv, Typed, RunType
<1>6. ASSUME NEW id \in Id, NEW status \in {"active", "disabled"}, SetStatus(id, status)
      PROVE  FALSE
  BY <1>2, <1>6, InformedAlike DEF SetStatus, Status
<1>7. ASSUME UNCHANGED runs
      PROVE  FALSE
  BY <1>1, <1>7
<1>8. CASE Crash
  BY <1>8, IdleFacts DEF Crash
<1>9. QED
  BY <1>3, <1>4, <1>5, <1>6, <1>7, <1>8 DEF Next, Tick, Request, ChangeList, CancelLeft,
     Enable, Disable, Delete, vars

\* One node for each identity: as many of the one as of the other.
LEMMA OneForEach ==
  ASSUME NEW S, NEW L, IsFiniteSet(L), NEW f, f \in [S -> L],
         \A k \in L : \E i \in S : f[i] = k,
         \A i, j \in S : f[i] = f[j] => i = j
  PROVE  Cardinality(S) = Cardinality(L)
<1>1. f \in Injection(S, L) /\ f \in Surjection(S, L)
  BY DEF Injection, Surjection, IsInjective
<1>2. QED
  BY <1>1, FS_Injection

(* A refresh that succeeds, alone with its upstream and never deceived,     *)
(* leaves the upstream with one node for each identity its list held, and   *)
(* with no other, for any lists, overlaps, failures and crashes before.     *)
THEOREM SuccessMirrors == Spec => SuccessMirrorsSubscription
<1>1. ASSUME IInv, MirrorInv, [Next]_vars, NEW r \in Slot,
             runs[r].pc = "next", runs'[r].pc = "succeeded", runs[r].alone, ~runs[r].misled
      PROVE  /\ Cardinality(Sourced(runs[r].of)) = Cardinality(runs[r].list)
             /\ {nodes[id].key : id \in Sourced(runs[r].of)} = runs[r].list
  <2> DEFINE S == Sourced(runs[r].of)
             L == runs[r].list
             f == [id \in S |-> nodes[id].key]
  <2>1. Trusted(runs[r]) /\ Handled(runs[r]) = runs[r].seen
    BY <1>1 DEF Trusted, Handled, HasNode
  <2>2. runs[r].todo = {} /\ runs[r].previous \subseteq runs[r].seen
    BY <1>1, SucceedsByRecord DEF Record
  <2>3. /\ S = runs[r].seen
        /\ \A id \in S : nodes[id].key \in L
        /\ \A k \in L : \E id \in S : nodes[id].key = k
        /\ \A i, j \in S : nodes[i].key = nodes[j].key => i = j
    BY <1>1, <2>1, <2>2, MirrorFacts DEF Mirrors
  <2>4. IsFiniteSet(L)
    BY <1>1, MirrorFacts DEF Ready
  <2> HIDE DEF S, L
  <2>5. f \in [S -> L] /\ \A id \in S : f[id] = nodes[id].key
    BY <2>3
  <2> HIDE DEF f
  <2>6. /\ \A k \in L : \E id \in S : f[id] = k
        /\ \A i, j \in S : f[i] = f[j] => i = j
    BY <2>3, <2>5
  <2>7. Cardinality(S) = Cardinality(L)
    BY <2>4, <2>5, <2>6, OneForEach
  <2>8. {nodes[id].key : id \in S} = L
    BY <2>3
  <2>9. QED
    BY <2>8, <2>7 DEF S, L
<1>2. IInv /\ MirrorInv /\ [Next]_vars =>
        \A r \in Slot :
          LET run == runs[r] IN
          run.pc = "next" /\ runs'[r].pc = "succeeded" /\ run.alone /\ ~run.misled =>
            /\ Cardinality(Sourced(run.of)) = Cardinality(run.list)
            /\ {nodes[id].key : id \in Sourced(run.of)} = run.list
  BY <1>1
<1>3. QED
  BY <1>2, RefreshInvariant, MirrorInvariant, PTL DEF Spec, SuccessMirrorsSubscription
=============================================================================
