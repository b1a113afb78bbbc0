------------------------ MODULE EndpointCircuitProofs ------------------------
(***************************************************************************)
(* Proofs about EndpointCircuit, for any number of nodes, any failure      *)
(* limit of at least two and any queue limit.  Inv strengthens the         *)
(* properties with what the worker knows between two database calls.       *)
(***************************************************************************)
EXTENDS EndpointCircuit, SequenceTheorems, TLAPS

Test == [node : Node, kind : Kind, probe : BOOLEAN]

\* The worker has a test exactly when it is not idle, and while it updates the
\* group it knows the status it is writing; it asks for the location of a node
\* after a success only.
WorkerInv ==
  /\ test = NoTest <=> step = "idle"
  /\ step \in {"group", "update"} => target \in {"active", "endpoint_ip_unreachable"}
  /\ step \in {"locate", "place"} => result = "success"
  /\ step = "place" => seen \in Status

\* The circuit that is not closed has counted all the failures it allows.
ProbeInv ==
  /\ ProbeIsAccountedFor
  /\ phase # "closed" => failures = FailureLimit

\* While the circuit is open the nodes that are still shown as active are those
\* the loop has not come to yet, or went astray; a success the circuit was not
\* told of, and the location looked up after it, concern such a node.
HideInv ==
  phase # "closed" =>
    /\ step \in {"group", "update"} => target = "endpoint_ip_unreachable" /\ result # "success"
    /\ step = "update" => ActiveNodes \subseteq astray \union todo
    /\ step \notin {"group", "update"} => ActiveNodes \subseteq astray
    /\ step \in {"locate", "place", "judge", "settle"} /\ result = "success" => test.node \in astray
    /\ step = "settle" /\ target = "active" => test.node \in astray

\* While a group is brought back, the nodes still hidden are those to do and
\* those that went astray meanwhile.
RestoreInv ==
  target = "active" =>
    /\ step = "update" =>
         \A n \in Node : status[n] = "endpoint_ip_unreachable" => n \in todo \union astray
    /\ step \in {"locate", "place", "judge"} =>
         \A n \in Node : status[n] = "endpoint_ip_unreachable" => n \in astray
    /\ step = "place" /\ seen = "endpoint_ip_unreachable" => test.node \in astray

-----------------------------------------------------------------------------
(* Types.                                                                    *)

\* Deleting position i moves the later elements down by one and keeps the rest.
LEMMA RemoveAtProperties ==
  ASSUME NEW S, NEW s \in Seq(S), NEW i \in 1 .. Len(s)
  PROVE  /\ RemoveAt(s, i) \in Seq(S)
         /\ Len(RemoveAt(s, i)) = Len(s) - 1
         /\ \A j \in 1 .. Len(s) - 1 :
              RemoveAt(s, i)[j] = IF j < i THEN s[j] ELSE s[j+1]
<1> DEFINE front == SubSeq(s, 1, i-1)
           back  == SubSeq(s, i+1, Len(s))
<1>0. Len(s) \in Nat /\ \A j \in 1 .. Len(s) : s[j] \in S
  BY LenProperties, ElementOfSeq
<1>1. /\ front \in Seq(S)
      /\ Len(front) = i - 1
      /\ \A j \in 1 .. i-1 : front[j] = s[j]
  <2>1. \A j \in 1 .. i-1 : s[j] \in S
    BY <1>0
  <2>2. /\ front \in Seq(S)
        /\ Len(front) = IF 1 <= i-1 THEN (i-1)-1+1 ELSE 0
        /\ \A j \in 1 .. (i-1)-1+1 : front[j] = s[1+j-1]
    BY <2>1, SubSeqProperties
  <2>. QED  BY <2>2
<1>2. /\ back \in Seq(S)
      /\ Len(back) = Len(s) - i
      /\ \A j \in 1 .. Len(s)-i : back[j] = s[i+j]
  <2>1. \A j \in i+1 .. Len(s) : s[j] \in S
    BY <1>0
  <2>2. /\ back \in Seq(S)
        /\ Len(back) = IF i+1 <= Len(s) THEN Len(s)-(i+1)+1 ELSE 0
        /\ \A j \in 1 .. Len(s)-(i+1)+1 : back[j] = s[(i+1)+j-1]
    BY <2>1, <1>0, SubSeqProperties
  <2>. QED  BY <2>2, <1>0
<1>3. RemoveAt(s, i) = front \o back
  BY DEF RemoveAt
<1> HIDE DEF front, back
<1>4. /\ front \o back \in Seq(S)
      /\ Len(front \o back) = Len(front) + Len(back)
      /\ \A j \in 1 .. Len(front) + Len(back) :
           (front \o back)[j] = IF j <= Len(front) THEN front[j] ELSE back[j - Len(front)]
  BY <1>1, <1>2, ConcatProperties
<1>. QED  BY <1>0, <1>1, <1>2, <1>3, <1>4

\* Forgetting which test is the probe keeps the queue's tests and their order.
LEMMA UnawaitedTyped ==
  ASSUME NEW s \in Seq(Test)
  PROVE  /\ Unawaited(s) \in Seq(Test)
         /\ Len(Unawaited(s)) = Len(s)
         /\ \A i \in DOMAIN Unawaited(s) : ~Unawaited(s)[i].probe
<1>1. Len(s) \in Nat /\ DOMAIN s = 1 .. Len(s) /\ \A i \in 1 .. Len(s) : s[i] \in Test
  BY LenProperties, ElementOfSeq
<1>2. Unawaited(s) \in [1 .. Len(s) -> Test]
  BY <1>1 DEF Unawaited, Test
<1>3. Unawaited(s) \in Seq(Test) /\ Len(Unawaited(s)) = Len(s)
  BY <1>1, <1>2, SeqDef, LenProperties
<1>4. \A i \in 1 .. Len(s) : ~Unawaited(s)[i].probe
  BY <1>1 DEF Unawaited, Test
<1>5. QED
  BY <1>2, <1>3, <1>4

\* Submitting a test keeps the queue typed and within its limit.
LEMMA SubmitTyped ==
  ASSUME TypeOK, NEW n \in Node, NEW kind \in Kind, Submit(n, kind)
  PROVE  TypeOK'
<1>1. tests' \in Seq(Test) /\ Len(tests') <= QueueLimit
  <2>1. [node |-> n, kind |-> kind, probe |-> phase = "due"] \in Test
    BY DEF Test
  <2>2. QED
    BY <2>1, CircuitAssumption DEF CircuitAssumption, TypeOK, Submit, Test
<1>2. probing' \in BOOLEAN
  BY DEF TypeOK, Submit, Before, Admits
<1>3. QED
  BY <1>1, <1>2 DEF TypeOK, Submit, worker, core, history, Test

\* Every change of a status by others is one SetStatus.
LEMMA OthersSet ==
  ASSUME NEW n \in Node,
         DisableNode(n) \/ EnableNode(n) \/ RefreshNode(n) \/ ExpireNode(n) \/ EditNode(n)
  PROVE  \E value \in Status : SetStatus(n, value)
BY DEF DisableNode, EnableNode, RefreshNode, ExpireNode, EditNode, Status

\* The planner only submits tests.
LEMMA PlanSubmits ==
  ASSUME NEW n \in Node, PlanTest(n)
  PROVE  \E kind \in Kind : Submit(n, kind)
BY DEF PlanTest, Kind

\* Types and the worker's own bookkeeping are kept by every step.
LEMMA TypeStep ==
  ASSUME TypeOK, WorkerInv, [Next]_vars
  PROVE  TypeOK' /\ WorkerInv'
<1> USE CircuitAssumption DEF CircuitAssumption
<1>1. ASSUME NEW n \in Node, NEW kind \in Kind, Submit(n, kind) PROVE TypeOK' /\ WorkerInv'
  BY <1>1, SubmitTyped DEF WorkerInv, Submit, worker
<1>2. ASSUME NEW n \in Node, SubmitFails(n) PROVE TypeOK' /\ WorkerInv'
  BY <1>2 DEF TypeOK, WorkerInv, SubmitFails, Before, Admits, core, worker
<1>3. ASSUME NEW n \in Node, PlanTest(n) PROVE TypeOK' /\ WorkerInv'
  BY <1>1, <1>3, PlanSubmits
<1>4. CASE Start
  <2>1. Head(tests) \in Test /\ Tail(tests) \in Seq(Test) /\ Len(Tail(tests)) <= QueueLimit
    <3>1. tests \in Seq(Test) /\ tests # <<>> /\ Len(tests) <= QueueLimit
      BY <1>4 DEF Start, TypeOK, Test
    <3>2. QED
      BY <3>1, HeadTailProperties
  <2>2. \A t \in Test : t # NoTest
    BY DEF Test, NoTest
  <2>3. QED
    BY <1>4, <2>1, <2>2 DEF Start, TypeOK, WorkerInv, Test, circuit, core, history
<1>5. CASE Stopped
  BY <1>5 DEF Stopped, TypeOK, WorkerInv, Result, circuit, core, history
<1>6. CASE ReloadUnneeded
  BY <1>6 DEF ReloadUnneeded, TypeOK, WorkerInv, circuit, core, history
<1>7. CASE Reload
  BY <1>7 DEF Reload, LoadCore, TypeOK, WorkerInv, ActiveNodes, circuit, history
<1>8. CASE ReloadFails
  BY <1>8 DEF ReloadFails, LoadCoreFails, TypeOK, WorkerInv, ActiveNodes, Result, circuit, history
<1>9. CASE Measure
  <2>1. result' \in Result
    BY <1>9 DEF Measure, Result
  <2>2. QED
    BY <1>9, <2>1 DEF Measure, TypeOK, WorkerInv, circuit, core, history
<1>10. CASE Record
  <2>1. test.node \in Node \union {None}
    BY DEF TypeOK, Test, NoTest
  <2>2. probing' \in BOOLEAN
    <3>1. probing \in BOOLEAN
      BY DEF TypeOK
    <3>2. probing' = probing \/ probing' = FALSE
      BY <1>10, Zenon DEF Record, RecordInfrastructure, RecordSuccess, RecordOther,
                          RecordNetwork, RecordUnread, Undecided, Opens, circuit
    <3>3. QED
      BY <3>1, <3>2, Zenon
  <2>3. /\ failures' \in 0 .. FailureLimit
        /\ phase' \in {"closed", "cooling", "due"}
        /\ representative' \in Node \union {None}
        /\ target' \in {"none", "active", "endpoint_ip_unreachable"}
        /\ tests' \in Seq(Test) /\ Len(tests') <= QueueLimit
        /\ lost' \in BOOLEAN
        /\ astray' \subseteq Node
    <3>0. /\ failures \in 0 .. FailureLimit
          /\ phase \in {"closed", "cooling", "due"}
          /\ representative \in Node \union {None}
          /\ tests \in Seq(Test) /\ Len(tests) <= QueueLimit
          /\ lost \in BOOLEAN /\ test.probe \in BOOLEAN
          /\ astray \subseteq Node
      <4>1. test \in Test \union {NoTest}
        BY DEF TypeOK, Test
      <4>2. test.probe \in BOOLEAN
        <5>1. CASE test \in Test
          BY <5>1 DEF Test
        <5>2. CASE test = NoTest
          <6>1. test.probe = FALSE
            BY <5>2 DEF NoTest
          <6>2. QED
            BY <6>1
        <5>3. QED
          BY <4>1, <5>1, <5>2
      <4>3. QED
        BY <4>2 DEF TypeOK, Test
    <3>1. test.node \in Node
      BY <1>10 DEF Record, TypeOK, WorkerInv, Test
    <3>2. CASE RecordInfrastructure \/ RecordOther \/ RecordUnread
      BY <3>0, <3>1, <3>2 DEF RecordInfrastructure, RecordOther, RecordUnread, Undecided, circuit
    <3>3. ASSUME Decided
          PROVE  /\ tests' \in Seq(Test) /\ Len(tests') <= QueueLimit
                 /\ lost' \in BOOLEAN /\ astray' \subseteq Node
      BY <3>0, <3>3, UnawaitedTyped DEF Decided
    <3>4. CASE RecordSuccess
      BY <3>0, <3>3, <3>4 DEF RecordSuccess
    <3>5. CASE RecordNetwork
      <4>1. failures' \in 0 .. FailureLimit
        BY <3>0, <3>5 DEF RecordNetwork
      <4>2. CASE failures' < FailureLimit
        BY <3>0, <3>5, <4>1, <4>2 DEF RecordNetwork, history
      <4>3. CASE ~(failures' < FailureLimit)
        <5>1. Opens
          BY <3>5, <4>3 DEF RecordNetwork
        <5>2. QED
          BY <4>1, <5>1, <3>3, <2>1 DEF Opens
      <4>4. QED
        BY <4>2, <4>3
    <3>6. QED
      BY <1>10, <3>2, <3>4, <3>5 DEF Record
  <2>4. QED
    BY <1>10, <2>2, <2>3 DEF TypeOK, WorkerInv, Record, Rest, Status, core, Test
<1>11. CASE ReadGroup \/ GroupUnread
  BY <1>11 DEF ReadGroup, GroupUnread, TypeOK, WorkerInv, circuit, core, history
<1>12. CASE UpdateGroup
  <2>1. target \in Status
    BY <1>12 DEF UpdateGroup, WorkerInv, Status
  <2>2. status' \in [Node -> Status] /\ todo' \subseteq Node /\ astray' \subseteq Node
    BY <1>12, <2>1 DEF UpdateGroup, TypeOK
  <2>3. QED
    BY <1>12, <2>2 DEF UpdateGroup, TypeOK, WorkerInv, circuit, core, history
<1>13. CASE GroupUpdated
  BY <1>13 DEF GroupUpdated, Rest, TypeOK, WorkerInv, circuit, core, history
<1>14. CASE Judge
  BY <1>14 DEF Judge, Verdict, TypeOK, WorkerInv, Status, circuit, core, history
<1>15. CASE Settle
  <2>1. status' \in [Node -> Status]
    BY <1>15 DEF Settle, TypeOK, Status
  <2>2. QED
    BY <1>15, <2>1 DEF Settle, TypeOK, WorkerInv, Test, circuit, core, history
<1>16. ASSUME NEW n \in Node, NEW value \in Status, SetStatus(n, value) PROVE TypeOK' /\ WorkerInv'
  BY <1>16 DEF SetStatus, TypeOK, WorkerInv, circuit, core, worker
<1>17. CASE CooldownEnds
  BY <1>17 DEF CooldownEnds, TypeOK, WorkerInv, core, worker, history
<1>18. CASE Restart
  <2>1. tests' \in Seq(Test) /\ Len(tests') <= QueueLimit
    BY <1>18 DEF Restart
  <2>2. /\ failures' \in 0 .. FailureLimit
        /\ loaded' \subseteq Node /\ written' \subseteq Node /\ astray' \subseteq Node
    BY <1>18 DEF Restart, ActiveNodes
  <2>3. /\ status' \in [Node -> Status]
        /\ test' = NoTest /\ step' = "idle"
    BY <1>18 DEF Restart, TypeOK
  <2>4. QED
    BY <1>18, <2>1, <2>2, <2>3 DEF Restart, TypeOK, WorkerInv, Test
<1>19. CASE UNCHANGED vars
  BY <1>19 DEF vars, TypeOK, WorkerInv, circuit, core, worker, history
<1>20. CASE CoreReload
  BY <1>20 DEF CoreReload, LoadCore, LoadCoreFails, ActiveNodes, TypeOK, WorkerInv, circuit, worker, history
<1>21. CASE Locate
  <2>1. test.node \in Node
    BY <1>21 DEF Locate, TypeOK, WorkerInv, Test
  <2>2. seen' \in Status
    BY <1>21, <2>1 DEF Locate, TypeOK
  <2>3. QED
    BY <1>21, <2>2 DEF Locate, TypeOK, WorkerInv, circuit, core, history
<1>22. CASE Place
  <2>1. status' \in [Node -> Status]
    BY <1>22 DEF Place, TypeOK, WorkerInv
  <2>2. QED
    BY <1>22, <2>1 DEF Place, TypeOK, WorkerInv, circuit, core, history
<1>23. CASE Withdraw
  <2>1. PICK i \in DOMAIN tests : tests' = RemoveAt(tests, i) /\ lost' = (lost \/ tests[i].probe)
    BY <1>23 DEF Withdraw
  <2>2. tests \in Seq(Test) /\ Len(tests) <= QueueLimit /\ i \in 1 .. Len(tests)
    BY <2>1, LenProperties DEF TypeOK, Test
  <2>3. tests' \in Seq(Test) /\ Len(tests') <= QueueLimit /\ lost' \in BOOLEAN
    BY <2>1, <2>2, RemoveAtProperties, LenProperties, ElementOfSeq DEF TypeOK, Test
  <2>4. QED
    BY <1>23, <2>3 DEF Withdraw, TypeOK, WorkerInv, circuit, core, worker, Test
<1>24. QED
  BY <1>1, <1>2, <1>3, <1>4, <1>5, <1>6, <1>7, <1>8, <1>9, <1>10, <1>11, <1>12, <1>13, <1>14,
     <1>15, <1>16, <1>17, <1>18, <1>19, <1>20, <1>21, <1>22, <1>23, OthersSet DEF Next, Work

\* The initial state has its types.
LEMMA InitTyped == Init => TypeOK /\ WorkerInv
<1> SUFFICES ASSUME Init PROVE TypeOK /\ WorkerInv
  OBVIOUS
<1>1. tests \in Seq(Test) /\ Len(tests) <= QueueLimit
  BY CircuitAssumption DEF CircuitAssumption, Init
<1>2. failures \in 0 .. FailureLimit
  BY CircuitAssumption DEF CircuitAssumption, Init
<1>3. status \in [Node -> Status]
  BY DEF Init, Status
<1>4. QED
  BY <1>1, <1>2, <1>3 DEF Init, TypeOK, WorkerInv, Test

\* Every variable keeps its type, and the queue its limit (TypeOK of the runs).
THEOREM TypeCorrect == Spec => []TypeOK
<1>1. Init => TypeOK /\ WorkerInv
  BY InitTyped
<1>2. TypeOK /\ WorkerInv /\ [Next]_vars => (TypeOK /\ WorkerInv)'
  BY TypeStep
<1>3. QED
  BY <1>1, <1>2, PTL DEF Spec

-----------------------------------------------------------------------------
(* The probe of an open circuit.                                             *)

\* A submission that is admitted while the cooldown is over is the only probe
\* waiting; any other is none.
LEMMA ProbeSubmitted ==
  ASSUME TypeOK, ProbeInv, NEW n \in Node, NEW kind \in Kind, Submit(n, kind)
  PROVE  ProbeInv'
<1> DEFINE new == [node |-> n, kind |-> kind, probe |-> phase = "due"]
<1>1. tests \in Seq(Test) /\ new \in Test /\ tests' = Append(tests, new)
  BY DEF TypeOK, Submit, Test
<1>2. /\ Len(tests) \in Nat /\ DOMAIN tests = 1 .. Len(tests)
      /\ DOMAIN tests' = 1 .. Len(tests) + 1
      /\ \A i \in 1 .. Len(tests) : tests'[i] = tests[i]
      /\ tests'[Len(tests) + 1] = new
  BY <1>1, AppendProperties, LenProperties
<1>3. /\ UNCHANGED <<phase, failures, representative, test, step, lost>>
      /\ phase = "closed" \/ (phase = "due" /\ ~probing /\ n = representative)
      /\ probing' = (probing \/ phase = "due")
  BY DEF Submit, Before, Admits, worker, history
<1>4. CASE phase = "closed"
  <2>1. Queued = {} /\ ~new.probe
    BY <1>4 DEF ProbeInv, ProbeIsAccountedFor
  <2>3. Queued' = {}
    BY <1>2, <2>1 DEF Queued
  <2>2. ~probing /\ ~probing'
    BY <1>3, <1>4 DEF ProbeInv, ProbeIsAccountedFor
  <2>4. QED
    BY <1>3, <1>4, <2>1, <2>2, <2>3 DEF ProbeInv, ProbeIsAccountedFor, Measured
<1>5. CASE phase = "due" /\ ~probing /\ n = representative
  <2>1. Queued = {} /\ ~Measured
    BY <1>5 DEF ProbeInv, ProbeIsAccountedFor
  <2>2. Queued' = {Len(tests) + 1}
    <3>1. new.probe /\ \A i \in 1 .. Len(tests) : ~tests'[i].probe
      BY <1>2, <1>5, <2>1 DEF Queued
    <3>2. \A i \in 1 .. Len(tests) + 1 : tests'[i].probe <=> i = Len(tests) + 1
      BY <1>2, <3>1
    <3>3. QED
      BY <1>2, <3>2 DEF Queued
  <2>3. /\ ~Measured'
        /\ tests'[Len(tests) + 1].node = representative'
        /\ probing' /\ phase' = "due" /\ failures' = failures
    <3>1. ~Measured'
      BY <1>3, <2>1 DEF Measured
    <3>2. new.node = representative
      BY <1>5
    <3>3. QED
      BY <1>2, <1>3, <1>5, <3>1, <3>2
  <2>4. failures' = FailureLimit
    BY <1>5, <2>3 DEF ProbeInv
  <2>5. QED
    BY <2>2, <2>3, <2>4 DEF ProbeInv, ProbeIsAccountedFor
<1>6. QED
  BY <1>3, <1>4, <1>5

\* A probe that is withdrawn is lost; another's withdrawal moves it at most.
LEMMA ProbeWithdrawn ==
  ASSUME TypeOK, ProbeInv, Withdraw
  PROVE  ProbeInv'
<1>1. PICK k \in DOMAIN tests : tests' = RemoveAt(tests, k) /\ lost' = (lost \/ tests[k].probe)
  BY DEF Withdraw
<1>2. tests \in Seq(Test) /\ k \in 1 .. Len(tests) /\ DOMAIN tests = 1 .. Len(tests) /\ Len(tests) \in Nat
  BY <1>1, LenProperties DEF TypeOK, Test
<1>3. /\ DOMAIN tests' = 1 .. Len(tests) - 1
      /\ \A j \in 1 .. Len(tests) - 1 : tests'[j] = IF j < k THEN tests[j] ELSE tests[j+1]
  BY <1>1, <1>2, RemoveAtProperties, LenProperties
<1>4. UNCHANGED <<phase, failures, representative, probing, test, step>>
  BY DEF Withdraw, circuit, worker
<1>5. \A i \in Queued' : /\ i < k => i \in Queued
                         /\ ~(i < k) => i + 1 \in Queued
                         /\ tests'[i] = IF i < k THEN tests[i] ELSE tests[i+1]
  BY <1>2, <1>3 DEF Queued
<1>6. \A i, j \in Queued' : i = j
  BY <1>2, <1>3, <1>5 DEF ProbeInv, ProbeIsAccountedFor, Queued
<1>7. \A i \in Queued' : probing' /\ phase' = "due" /\ tests'[i].node = representative'
  BY <1>4, <1>5 DEF ProbeInv, ProbeIsAccountedFor
<1>8. ASSUME Measured' PROVE Queued' = {} /\ probing' /\ phase' = "due" /\ test'.node = representative'
  <2>1. Measured
    BY <1>4, <1>8 DEF Measured
  <2>2. QED
    BY <1>4, <1>5, <2>1 DEF ProbeInv, ProbeIsAccountedFor
<1>9. ASSUME probing' PROVE phase' = "due" /\ (Queued' # {} \/ Measured' \/ lost')
  <2>1. probing /\ phase' = "due" /\ (Queued # {} \/ Measured \/ lost)
    BY <1>4, <1>9 DEF ProbeInv, ProbeIsAccountedFor
  <2>2. CASE Measured \/ lost
    BY <1>1, <1>4, <2>1, <2>2 DEF Measured
  <2>3. CASE Queued # {}
    <3>1. PICK i \in Queued : TRUE
      BY <2>3
    <3>2. CASE i = k
      BY <1>1, <2>1, <3>1, <3>2 DEF Queued
    <3>3. CASE i < k
      <4>1. i \in Queued'
        BY <1>2, <1>3, <3>1, <3>3 DEF Queued
      <4>2. QED
        BY <2>1, <4>1
    <3>4. CASE i > k
      <4>1. i - 1 \in Queued'
        BY <1>2, <1>3, <3>1, <3>4 DEF Queued
      <4>2. QED
        BY <2>1, <4>1
    <3>5. QED
      BY <1>2, <3>1, <3>2, <3>3, <3>4 DEF Queued
  <2>4. QED
    BY <2>1, <2>2, <2>3
<1>10. QED
  BY <1>4, <1>6, <1>7, <1>8, <1>9 DEF ProbeInv, ProbeIsAccountedFor

\* The probe that is taken from the head of the queue is measured.
LEMMA ProbeStarted ==
  ASSUME TypeOK, WorkerInv, ProbeInv, Start
  PROVE  ProbeInv'
<1>1. /\ tests \in Seq(Test) /\ tests # <<>>
      /\ test' = Head(tests) /\ tests' = Tail(tests) /\ step' = "reload"
      /\ UNCHANGED <<phase, failures, representative, probing, lost>>
      /\ ~Measured
  BY DEF Start, TypeOK, Test, circuit, history, Measured, NoTest
<1>2. /\ Len(tests) \in Nat \ {0} /\ DOMAIN tests = 1 .. Len(tests)
      /\ Head(tests) = tests[1]
      /\ DOMAIN tests' = 1 .. Len(tests) - 1
      /\ \A i \in 1 .. Len(tests) - 1 : tests'[i] = tests[i+1]
  BY <1>1, HeadTailProperties, LenProperties, EmptySeq
<1>3. \A i \in Queued' : i + 1 \in Queued /\ tests'[i] = tests[i+1]
  BY <1>2 DEF Queued
<1>4. Measured' <=> 1 \in Queued
  BY <1>1, <1>2 DEF Measured, Queued
<1>5. \A i, j \in Queued' : i = j
  BY <1>2, <1>3 DEF ProbeInv, ProbeIsAccountedFor, Queued
<1>6. \A i \in Queued' : probing' /\ phase' = "due" /\ tests'[i].node = representative'
  BY <1>1, <1>3 DEF ProbeInv, ProbeIsAccountedFor
<1>7. ASSUME Measured' PROVE Queued' = {} /\ probing' /\ phase' = "due" /\ test'.node = representative'
  <2>1. 1 \in Queued
    BY <1>4, <1>7
  <2>2. \A i \in Queued' : i + 1 = 1 /\ i \in Nat \ {0}
    BY <1>2, <1>3, <2>1 DEF ProbeInv, ProbeIsAccountedFor, Queued
  <2>3. Queued' = {}
    BY <2>2
  <2>4. QED
    BY <1>1, <1>2, <2>1, <2>3 DEF ProbeInv, ProbeIsAccountedFor
<1>8. ASSUME probing' PROVE phase' = "due" /\ (Queued' # {} \/ Measured' \/ lost')
  <2>1. phase' = "due" /\ (Queued # {} \/ lost)
    BY <1>1, <1>8 DEF ProbeInv, ProbeIsAccountedFor
  <2>2. ASSUME NEW i \in Queued PROVE Queued' # {} \/ Measured'
    <3>1. CASE i = 1
      BY <1>4, <2>2, <3>1
    <3>2. CASE i # 1
      <4>1. i - 1 \in Queued'
        BY <1>2, <2>2, <3>2 DEF Queued
      <4>2. QED
        BY <4>1
    <3>3. QED
      BY <3>1, <3>2
  <2>3. QED
    BY <1>1, <2>1, <2>2
<1>9. QED
  BY <1>1, <1>5, <1>6, <1>7, <1>8 DEF ProbeInv, ProbeIsAccountedFor

\* The circuit waits for no probe once a result has closed or opened it; the
\* probe that ends without such a result is lost.
LEMMA ProbeRecorded ==
  ASSUME TypeOK, WorkerInv, ProbeInv, Record
  PROVE  ProbeInv'
<1>1. step = "record" /\ ~Measured' /\ (test.probe => Measured)
  BY DEF Record, Rest, Measured
<1>2. tests \in Seq(Test) /\ failures \in 0 .. FailureLimit
  BY DEF TypeOK, Test
<1>3. CASE Undecided
  <2>1. UNCHANGED <<phase, failures, representative, probing, tests>> /\ lost' = (lost \/ test.probe)
    BY <1>3 DEF Undecided, circuit
  <2>2. Queued' = Queued
    BY <2>1 DEF Queued
  <2>3. QED
    BY <1>1, <2>1, <2>2 DEF ProbeInv, ProbeIsAccountedFor, Measured
<1>4. ASSUME Decided, ~probing', phase' = "closed" \/ failures' = FailureLimit PROVE ProbeInv'
  <2>1. Queued' = {}
    BY <1>2, <1>4, UnawaitedTyped DEF Decided, Queued
  <2>2. QED
    BY <1>1, <1>4, <2>1 DEF ProbeInv, ProbeIsAccountedFor
<1>5. CASE RecordSuccess
  BY <1>4, <1>5 DEF RecordSuccess
<1>6. CASE RecordNetwork
  <2>1. CASE ~(failures' < FailureLimit)
    <3>1. failures' = FailureLimit
      BY <1>2, <1>6, <2>1, CircuitAssumption DEF RecordNetwork, CircuitAssumption
    <3>2. QED
      BY <1>4, <1>6, <2>1, <3>1 DEF RecordNetwork, Opens
  <2>2. CASE failures' < FailureLimit
    <3>1. UNCHANGED <<phase, representative, probing, tests, lost>> /\ failures # FailureLimit
      BY <1>6, <2>2, CircuitAssumption DEF RecordNetwork, history, CircuitAssumption
    <3>2. phase = "closed" /\ Queued' = Queued
      BY <3>1 DEF ProbeInv, Queued
    <3>3. QED
      BY <1>1, <3>1, <3>2 DEF ProbeInv, ProbeIsAccountedFor
  <2>3. QED
    BY <2>1, <2>2
<1>7. QED
  BY <1>3, <1>5, <1>6 DEF Record, RecordInfrastructure, RecordOther, RecordUnread

\* Every step keeps ProbeInv.
LEMMA ProbeStep ==
  ASSUME TypeOK, WorkerInv, ProbeInv, [Next]_vars
  PROVE  ProbeInv'
<1>1. ASSUME NEW n \in Node, SubmitFails(n) PROVE ProbeInv'
  <2>1. /\ UNCHANGED <<phase, failures, representative, tests, test, step>>
        /\ probing' = (probing \/ phase = "due") /\ lost' = (lost \/ phase = "due")
    BY <1>1 DEF SubmitFails, Before, worker
  <2>2. Queued' = Queued /\ Measured' = Measured
    BY <2>1 DEF Queued, Measured
  <2>3. QED
    BY <2>1, <2>2 DEF ProbeInv, ProbeIsAccountedFor, TypeOK
<1>2. ASSUME NEW n \in Node, PlanTest(n) PROVE ProbeInv'
  BY <1>2, PlanSubmits, ProbeSubmitted
<1>3. ASSUME UNCHANGED <<phase, failures, representative, probing, tests, lost>>,
             Measured' <=> Measured, Measured' => test' = test
      PROVE  ProbeInv'
  <2>1. Queued' = Queued
    BY <1>3 DEF Queued
  <2>2. QED
    BY <1>3, <2>1 DEF ProbeInv, ProbeIsAccountedFor
<1>4. CASE Work /\ ~Record /\ ~Start
  <2>1. UNCHANGED <<phase, failures, representative, probing, tests, lost>>
    BY <1>4 DEF Work, Stopped, ReloadUnneeded, Reload, ReloadFails, Measure, ReadGroup, GroupUnread,
       UpdateGroup, GroupUpdated, Locate, Place, Judge, Settle, circuit, history
  <2>2. (Measured' <=> Measured) /\ (Measured' => test' = test)
    BY <1>4 DEF Work, Stopped, ReloadUnneeded, Reload, ReloadFails, Measure, ReadGroup, GroupUnread,
       UpdateGroup, GroupUpdated, Locate, Place, Judge, Settle, Rest, Measured, NoTest
  <2>3. QED
    BY <1>3, <2>1, <2>2
<1>5. ASSUME NEW n \in Node, NEW value \in Status, SetStatus(n, value) PROVE ProbeInv'
  BY <1>3, <1>5 DEF SetStatus, circuit, worker, Measured
<1>6. CASE CooldownEnds
  <2>1. ~probing /\ Queued' = {} /\ ~Measured'
    BY <1>6 DEF CooldownEnds, ProbeInv, ProbeIsAccountedFor, Queued, Measured, worker
  <2>2. QED
    BY <1>6, <2>1 DEF ProbeInv, ProbeIsAccountedFor, CooldownEnds
<1>7. CASE Restart
  BY <1>7 DEF Restart, ProbeInv, ProbeIsAccountedFor, Queued, Measured
<1>8. CASE CoreReload \/ UNCHANGED vars
  BY <1>3, <1>8 DEF CoreReload, vars, circuit, worker, history, Measured
<1>9. QED
  BY <1>1, <1>2, <1>4, <1>5, <1>6, <1>7, <1>8, OthersSet, ProbeSubmitted, ProbeWithdrawn,
     ProbeStarted, ProbeRecorded DEF Next

\* An open circuit waits for one probe at most, the representative's, and it is
\* in the queue or measured, or it was lost: whoever submits and cancels, and
\* whichever other tests close and open the circuit meanwhile (SDD 6.1.2).
THEOREM ProbesAreAccountedFor == Spec => []ProbeIsAccountedFor
<1>1. Init => ProbeInv
  BY DEF Init, ProbeInv, ProbeIsAccountedFor, Queued, Measured
<1>2. Init => TypeOK /\ WorkerInv
  BY InitTyped
<1>3. TypeOK /\ WorkerInv /\ [Next]_vars => (TypeOK /\ WorkerInv)'
  BY TypeStep
<1>4. TypeOK /\ WorkerInv /\ ProbeInv /\ [Next]_vars => ProbeInv'
  BY ProbeStep
<1>5. ProbeInv => ProbeIsAccountedFor
  BY DEF ProbeInv
<1>6. QED
  BY <1>1, <1>2, <1>3, <1>4, <1>5, PTL DEF Spec

-----------------------------------------------------------------------------
(* Hiding and restoring the group.                                           *)

GroupInv == HideInv /\ RestoreInv

\* Every step keeps GroupInv.
LEMMA GroupStep ==
  ASSUME TypeOK, WorkerInv, GroupInv, [Next]_vars
  PROVE  GroupInv'
<1> USE DEF GroupInv, HideInv, RestoreInv, ActiveNodes
<1>1. ASSUME NEW n \in Node, NEW kind \in Kind, Submit(n, kind) PROVE GroupInv'
  BY <1>1 DEF Submit, circuit, worker, history
<1>2. ASSUME NEW n \in Node, SubmitFails(n) PROVE GroupInv'
  BY <1>2 DEF SubmitFails, worker
<1>3. ASSUME NEW n \in Node, PlanTest(n) PROVE GroupInv'
  BY <1>1, <1>3, PlanSubmits
<1>4. CASE Start
  BY <1>4 DEF Start, WorkerInv, circuit, history
<1>5. CASE Stopped \/ ReloadUnneeded \/ Reload \/ ReloadFails \/ Measure
  BY <1>5 DEF Stopped, ReloadUnneeded, Reload, ReloadFails, Measure, circuit, history
<1>6. CASE Record
  <2>1. CASE RecordInfrastructure \/ RecordOther
    BY <1>6, <2>1 DEF Record, Rest, RecordInfrastructure, RecordOther, Undecided, circuit
  <2>2. CASE RecordUnread
    BY <1>6, <2>2 DEF Record, Rest, RecordUnread, Undecided, circuit
  <2>3. CASE RecordSuccess
    BY <1>6, <2>3 DEF Record, Rest, RecordSuccess
  <2>4. CASE RecordNetwork
    <3>1. CASE failures' < FailureLimit
      BY <1>6, <2>4, <3>1 DEF Record, Rest, RecordNetwork, history
    <3>2. CASE ~(failures' < FailureLimit)
      BY <1>6, <2>4, <3>2 DEF Record, Rest, RecordNetwork, Opens
    <3>3. QED
      BY <3>1, <3>2
  <2>5. QED
    BY <1>6, <2>1, <2>2, <2>3, <2>4 DEF Record
<1>7. CASE ReadGroup \/ GroupUnread
  <2>1. CASE ReadGroup
    BY <2>1 DEF ReadGroup, Retired, circuit, history
  <2>2. CASE GroupUnread
    BY <2>2 DEF GroupUnread, circuit
  <2>3. QED
    BY <1>7, <2>1, <2>2
<1>8. CASE UpdateGroup
  <2>1. PICK n \in todo : /\ todo' = todo \ {n}
                          /\ \/ status' = [status EXCEPT ![n] = target] /\ UNCHANGED astray
                             \/ astray' = astray \union {n} /\ UNCHANGED status
    BY <1>8 DEF UpdateGroup
  <2>2. n \in Node /\ status \in [Node -> Status]
    BY <2>1 DEF TypeOK
  <2>3. UNCHANGED <<circuit, test, step, result, target, seen>>
    BY <1>8 DEF UpdateGroup
  <2>4. CASE status' = [status EXCEPT ![n] = target] /\ UNCHANGED astray
    BY <1>8, <2>1, <2>2, <2>3, <2>4 DEF UpdateGroup, WorkerInv, circuit
  <2>5. CASE astray' = astray \union {n} /\ UNCHANGED status
    BY <1>8, <2>1, <2>2, <2>3, <2>5 DEF UpdateGroup, WorkerInv, circuit
  <2>6. QED
    BY <2>1, <2>4, <2>5
<1>9. CASE GroupUpdated
  BY <1>9 DEF GroupUpdated, Rest, circuit, history
<1>10. CASE Judge
  BY <1>10 DEF Judge, Verdict, circuit, history
<1>11. CASE Settle
  <2>1. \A n \in Node : status'[n] = "active" =>
          status[n] = "active" \/ (target = "active" /\ n = test.node)
    BY <1>11 DEF Settle, TypeOK
  <2>2. phase = "closed" \/ astray' = astray
    BY <1>11 DEF Settle
  <2>3. QED
    BY <1>11, <2>1, <2>2 DEF Settle, circuit
<1>12. ASSUME NEW n \in Node, NEW value \in Status, SetStatus(n, value) PROVE GroupInv'
  BY <1>12 DEF SetStatus, TypeOK, circuit, worker
<1>13. CASE Locate \/ Place
  <2>1. test.node \in Node /\ result = "success"
    BY <1>13 DEF Locate, Place, TypeOK, WorkerInv, Test
  <2>2. CASE Locate
    BY <2>1, <2>2 DEF Locate, circuit, history
  <2>3. CASE Place
    BY <2>1, <2>3 DEF Place, TypeOK, circuit, history
  <2>4. QED
    BY <1>13, <2>2, <2>3
<1>14. CASE CooldownEnds
  BY <1>14 DEF CooldownEnds, worker, history
<1>15. CASE Restart
  BY <1>15 DEF Restart
<1>16. CASE UNCHANGED vars
  BY <1>16 DEF vars, circuit, worker, history
<1>17. CASE CoreReload
  BY <1>17 DEF CoreReload, circuit, worker, history
<1>18. CASE Withdraw
  BY <1>18 DEF Withdraw, circuit, worker
<1>19. QED
  BY <1>1, <1>2, <1>3, <1>4, <1>5, <1>6, <1>7, <1>8, <1>9, <1>10, <1>11, <1>12, <1>13,
     <1>14, <1>15, <1>16, <1>17, <1>18, OthersSet DEF Next, Work

\* GroupInv holds in every reachable state.
LEMMA GroupInvariant == Spec => [](TypeOK /\ WorkerInv /\ GroupInv)
<1>1. Init => TypeOK /\ WorkerInv /\ GroupInv
  <2>1. Init => GroupInv
    BY DEF Init, GroupInv, HideInv, RestoreInv
  <2>2. QED
    BY <2>1, InitTyped
<1>2. TypeOK /\ WorkerInv /\ GroupInv /\ [Next]_vars => (TypeOK /\ WorkerInv /\ GroupInv)'
  BY TypeStep, GroupStep
<1>3. QED
  BY <1>1, <1>2, PTL DEF Spec

\* An open circuit leaves no node active behind it, whatever statuses are written
\* between the steps of onResult, apart from those that others made active since
\* and those that a failed statement of onResult passed over (SDD 6.1.2).
THEOREM OpenCircuitHides == Spec => []OpenCircuitHidesNodes
<1>1. GroupInv => OpenCircuitHidesNodes
  BY DEF GroupInv, HideInv, OpenCircuitHidesNodes
<1>2. QED
  BY <1>1, GroupInvariant, PTL

\* A connectivity test that reaches a hidden node brings back every node the
\* circuit had hidden, but for those whose write failed and those that an edit hid
\* again meanwhile.
THEOREM RecoveryIsComplete == Spec => []RecoveryRestoresGroup
<1>1. GroupInv => RecoveryRestoresGroup
  BY DEF GroupInv, RestoreInv, RecoveryRestoresGroup
<1>2. QED
  BY <1>1, GroupInvariant, PTL

-----------------------------------------------------------------------------
(* Infrastructure outcomes.                                                  *)

\* An infrastructure outcome is recorded, judged and settled, and never reaches
\* the loop over a group.
NeutralInv ==
  result = "infrastructure" =>
    /\ step \in {"record", "judge", "settle"}
    /\ step = "settle" => target = "none"

LEMMA NeutralStep ==
  ASSUME WorkerInv, NeutralInv, [Next]_vars
  PROVE  NeutralInv'
<1> USE DEF NeutralInv
<1>1. CASE Start \/ Stopped \/ ReloadUnneeded \/ Reload \/ ReloadFails
  <2>1. CASE Stopped
    BY <2>1 DEF Stopped
  <2>2. CASE Start
    BY <2>2 DEF Start, WorkerInv
  <2>3. CASE ReloadUnneeded \/ Reload \/ ReloadFails
    BY <2>3 DEF ReloadUnneeded, Reload, ReloadFails
  <2>4. QED
    BY <1>1, <2>1, <2>2, <2>3
<1>2. CASE Measure
  <2>1. result' # "infrastructure"
    BY <1>2 DEF Measure
  <2>2. QED
    BY <2>1
<1>3. CASE Record
  <2>1. result' = result /\ (result = "infrastructure" => step' = "judge")
    BY <1>3 DEF Record, RecordInfrastructure, RecordSuccess, RecordOther, RecordNetwork, RecordUnread,
                  Undecided, Rest
  <2>2. QED
    BY <2>1
<1>4. CASE ReadGroup \/ GroupUnread \/ UpdateGroup \/ GroupUpdated \/ Locate \/ Place
  BY <1>4 DEF ReadGroup, GroupUnread, UpdateGroup, GroupUpdated, Locate, Place
<1>5. CASE Judge \/ Settle
  BY <1>5 DEF Judge, Verdict, Settle
<1>6. ASSUME NEW n \in Node, \E value \in Status : SetStatus(n, value) PROVE NeutralInv'
  BY <1>6 DEF SetStatus, worker
<1>7. ASSUME NEW n \in Node, SubmitFails(n) \/ \E kind \in Kind : Submit(n, kind) PROVE NeutralInv'
  BY <1>7 DEF SubmitFails, Submit, worker
<1>8. CASE Withdraw \/ CoreReload \/ CooldownEnds \/ Restart \/ UNCHANGED vars
  BY <1>8 DEF Withdraw, CoreReload, CooldownEnds, Restart, worker, vars
<1>9. QED
  BY <1>1, <1>2, <1>3, <1>4, <1>5, <1>6, <1>7, <1>8, OthersSet, PlanSubmits DEF Next, Work

\* A test that was stopped by the router's network, load or a cancellation
\* leaves circuit and nodes alone, in every step that processes it (SDD 7.4.2).
THEOREM NobodyIsCharged == Spec => InfrastructureIsNeutral
<1>1. Init => NeutralInv
  BY DEF Init, NeutralInv
<1>2. WorkerInv /\ NeutralInv /\ [Next]_vars => NeutralInv'
  BY NeutralStep
<1>3. WorkerInv /\ NeutralInv /\ [Next]_vars => [result = "infrastructure" /\ Work => UNCHANGED <<circuit, status>>]_vars
  <2> SUFFICES ASSUME WorkerInv, NeutralInv, result = "infrastructure", Work
               PROVE  UNCHANGED <<circuit, status>>
    OBVIOUS
  <2>1. step \in {"record", "judge", "settle"} /\ (step = "settle" => target = "none")
    BY DEF NeutralInv
  <2>2. CASE Record
    BY <2>2 DEF Record, RecordInfrastructure, RecordSuccess, RecordOther, RecordNetwork, RecordUnread,
                Undecided
  <2>3. CASE Judge \/ Settle
    BY <2>1, <2>3 DEF Judge, Settle
  <2>4. QED
    BY <2>1, <2>2, <2>3 DEF Work, Start, Stopped, ReloadUnneeded, Reload, ReloadFails, Measure,
       ReadGroup, GroupUnread, UpdateGroup, GroupUpdated, Locate, Place, WorkerInv
<1>4. QED
  BY <1>1, <1>2, <1>3, GroupInvariant, PTL DEF Spec, InfrastructureIsNeutral

=============================================================================
