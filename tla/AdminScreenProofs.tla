-------------------------- MODULE AdminScreenProofs --------------------------
(***************************************************************************)
(* More proofs about AdminConsole: what is on the screen agrees with the   *)
(* requests in flight.  The type of the state comes first, then, each with *)
(* the inductive invariant it needs, the tables and their spinners, the    *)
(* buttons that are blocked, and the chart.                                *)
(***************************************************************************)
EXTENDS AdminConsoleProofs, AdminApiProofs, SequenceTheorems

Op      == Read \union Mutation \union Login
Status  == {"pending", "ok", "empty", "refused", "failed"}
Subject == Page \union Row \union Filter \union {None}

\* The endpoints, those of the hooks and the login's, and NoPath.
Endpoint == (Hook \union {"login", None}) \X Subject

\* A request when n sessions have been handed out.
Fitting(c, n) ==
  /\ c \in [op : Op, path : Endpoint, token : 0..n, status : Status, answer : Nat]
  /\ c.op \in Read => c.answer \in 0..MaxChanges
  /\ c.op = "login" /\ c.status = "ok" => c.answer \in 1..n

AllFit(b, n) == FiniteBag(b) /\ \A c \in DOMAIN b : Fitting(c, n)

Data      == [of : Subject, at : 0..MaxChanges] \union {Nothing}
HookState == [data : Data, loading : BOOLEAN, error : BOOLEAN]

ApiInv ==
  /\ issued \in 0..MaxSessions /\ token \in 0..issued /\ sessions \subseteq 1..issued
  /\ now \in 0..MaxChanges /\ faults \in 0..MaxFaults
  /\ AllFit(calls, issued) /\ Size(calls) <= MaxCalls

ScreenInv ==
  /\ authenticated \in BOOLEAN /\ page \in Page /\ selectedNode \in Row \union {None}
  /\ filter \in Filter \union {None}

ViewInv ==
  /\ DOMAIN view = IF authenticated THEN HooksOf[page] \union {"history"} ELSE {}
  /\ \A h \in DOMAIN view : view[h] \in HookState

InsideInv ==
  /\ dialogs \subseteq {"form", "token", "preview"}
  /\ busy \subseteq {"login", "save"} \union DOMAIN HookOf

TypeInv == ApiInv /\ ScreenInv /\ ViewInv /\ InsideInv

-----------------------------------------------------------------------------
(* Pages, hooks and endpoints.                                              *)

LEMMA PagesAre ==
  /\ Page = {"dashboard", "upstreams", "nodes", "subscriptions", "tests", "runtime", "logs",
             "settings", "groups", "reports", "keys"}
  /\ HooksOf["dashboard"] = {"summary", "core"} /\ HooksOf["upstreams"] = {"upstreams"}
  /\ HooksOf["nodes"] = {"nodes"} /\ HooksOf["subscriptions"] = {"links"}
  /\ HooksOf["tests"] = {"jobs", "active", "policy"}
  /\ HooksOf["runtime"] = {"traffic", "runtime"} /\ HooksOf["logs"] = {"logs"}
  /\ HooksOf["settings"] = {"status"} /\ HooksOf["groups"] = {"table"}
  /\ HooksOf["reports"] = {"table"} /\ HooksOf["keys"] = {"table"}
BY DEF Page, HooksOf

LEMMA HooksAre ==
  Hook = {"summary", "core", "upstreams", "nodes", "links", "jobs", "active", "policy",
          "traffic", "runtime", "logs", "status", "table", "history"}
<1> DEFINE hooks == {"summary", "core", "upstreams", "nodes", "links", "jobs", "active", "policy",
                     "traffic", "runtime", "logs", "status", "table"}
<1>1. \A p \in Page : HooksOf[p] \subseteq hooks
  BY PagesAre
<1>2. \A h \in hooks : \E p \in Page : h \in HooksOf[p]
  BY PagesAre
<1>3. UNION {HooksOf[p] : p \in Page} = hooks
  <2> HIDE DEF hooks
  <2>1. QED
    BY <1>1, <1>2
<1>4. Hook = hooks \union {"history"}
  <2> HIDE DEF hooks
  <2>1. \A h : h \in Hook <=> h \in UNION {HooksOf[p] : p \in Page} \/ h = "history"
    BY DEF Hook
  <2>2. QED
    BY <1>3, <2>1
<1>5. QED
  BY <1>4

LEMMA PageHooks ==
  ASSUME NEW p \in Page
  PROVE  /\ HooksOf[p] \subseteq Hook /\ HooksOf[p] # {}
         /\ "history" \notin HooksOf[p]
         /\ "login" \notin HooksOf[p]
         /\ ListOf(p) \in HooksOf[p]
<1>1. HooksOf[p] \subseteq Hook
  BY DEF Hook
<1>2. /\ HooksOf[p] # {} /\ "history" \notin HooksOf[p] /\ "login" \notin HooksOf[p]
  BY PagesAre
<1>3. QED
  BY <1>1, <1>2 DEF ListOf

LEMMA DataPages ==
  ASSUME NEW p \in Page
  PROVE  /\ p \in DataPage => HooksOf[p] = {"table"}
         /\ p \notin DataPage => "table" \notin HooksOf[p]
BY PagesAre DEF DataPage

LEMMA HookFinite == IsFiniteSet(Hook)
<1> DEFINE a == {"summary", "core", "upstreams", "nodes", "links", "jobs", "active"}
           b == {"policy", "traffic", "runtime", "logs", "status", "table", "history"}
<1>1. IsFiniteSet(a)
  <2>1. IsFiniteSet({} \union {"summary"} \union {"core"} \union {"upstreams"} \union {"nodes"}
                    \union {"links"} \union {"jobs"} \union {"active"})
    BY FS_EmptySet, FS_AddElement
  <2>2. QED
    BY <2>1
<1>2. IsFiniteSet(b)
  <2>1. IsFiniteSet({} \union {"policy"} \union {"traffic"} \union {"runtime"} \union {"logs"}
                    \union {"status"} \union {"table"} \union {"history"})
    BY FS_EmptySet, FS_AddElement
  <2>2. QED
    BY <2>1
<1>3. Hook = a \union b
  BY HooksAre
<1> HIDE DEF a, b
<1>4. QED
  BY <1>1, <1>2, <1>3, FS_Union

LEMMA NoneIsNoHook == None \notin Hook /\ None \notin Nat /\ None \notin Row \union Filter
BY NoneAssumption, ConsoleAssumption

LEMMA PathFits ==
  ASSUME NEW h \in Hook, NEW p \in Page, NEW f \in Filter \union {None}, NEW n \in Row \union {None}
  PROVE  /\ Path(h, p, f, n) \in Endpoint
         /\ Path(h, p, f, n) = NoPath <=> h = "history" /\ n = None
         /\ Path(h, p, f, n) # NoPath => Path(h, p, f, n)[1] = h
<1>1. CASE h = "table"
  BY <1>1, NoneIsNoHook DEF Path, NoPath, Endpoint, Subject
<1>2. CASE h = "logs"
  BY <1>2, NoneIsNoHook DEF Path, NoPath, Endpoint, Subject
<1>3. CASE h = "history" /\ n = None
  BY <1>3, NoneIsNoHook DEF Path, NoPath, Endpoint, Subject
<1>4. CASE h = "history" /\ n # None
  BY <1>4, NoneIsNoHook DEF Path, NoPath, Endpoint, Subject
<1>5. CASE h \notin {"table", "logs", "history"}
  BY <1>5, NoneIsNoHook DEF Path, NoPath, Endpoint, Subject
<1>6. QED
  BY <1>1, <1>2, <1>3, <1>4, <1>5
-----------------------------------------------------------------------------
(* The requests that go and come.                                           *)

LEMMA Bounds == {MaxCalls, MaxSessions, MaxChanges, MaxFaults} \subseteq Nat
BY ApiAssumption

LEMMA CallFits ==
  ASSUME NEW n \in Nat, NEW op \in Op, NEW path \in Endpoint, NEW t \in 0..n
  PROVE  /\ Fitting(Call(op, path, t), n)
         /\ Call(op, path, t).op = op /\ Call(op, path, t).path = path
<1>1. Call(op, path, t) \in [op : Op, path : Endpoint, token : 0..n, status : Status, answer : Nat]
  BY DEF Call, Status
<1>2. 0 \in 0..MaxChanges
  BY ApiAssumption
<1>3. QED
  BY <1>1, <1>2 DEF Fitting, Call

\* The reads of a set of hooks.
Asked(asked, t) == {Call("get", asked[h], t) : h \in {k \in DOMAIN asked : asked[k] # NoPath}}

\* What hooks can ask for.
Askable(asked) ==
  /\ DOMAIN asked \subseteq Hook
  /\ \A h \in DOMAIN asked : asked[h] \in Endpoint /\ (asked[h] # NoPath => asked[h][1] = h)

LEMMA AskedFinite ==
  ASSUME NEW asked, NEW t, DOMAIN asked \subseteq Hook
  PROVE  IsFiniteSet(Asked(asked, t))
<1> DEFINE live == {k \in DOMAIN asked : asked[k] # NoPath}
           call == [h \in live |-> Call("get", asked[h], t)]
<1>1. IsFiniteSet(live)
  BY HookFinite, FS_Subset
<1>2. call \in Surjection(live, Asked(asked, t))
  BY DEF Surjection, Asked
<1> HIDE DEF live, call
<1>3. QED
  BY <1>1, <1>2, FS_Surjection

LEMMA AskFits ==
  ASSUME NEW n \in Nat, NEW rest, AllFit(rest, n), NEW asked, Askable(asked), NEW t \in 0..n,
         Ask(rest, asked, t)
  PROVE  /\ AllFit(calls', n) /\ Size(calls') <= MaxCalls
         /\ DOMAIN calls' = DOMAIN rest \union Asked(asked, t)
         /\ \A c \in DOMAIN rest : c \notin Asked(asked, t) => calls'[c] = rest[c]
<1>1. calls' = rest (+) SetToBag(Asked(asked, t)) /\ Size(calls') <= MaxCalls
  BY DEF Ask, Reads, Asked
<1>2. /\ FiniteBag(calls')
      /\ DOMAIN calls' = DOMAIN rest \union Asked(asked, t)
      /\ \A c \in DOMAIN rest : c \notin Asked(asked, t) => calls'[c] = rest[c]
  <2>1. IsFiniteSet(Asked(asked, t)) /\ FiniteBag(rest)
    BY AskedFinite DEF Askable, AllFit
  <2>2. QED
    BY <1>1, <2>1, SomeMore DEF AreMore
<1>3. \A c \in Asked(asked, t) : Fitting(c, n)
  <2>1. "get" \in Op
    BY DEF Op, Read
  <2>2. QED
    BY <2>1, CallFits DEF Asked, Askable
<1>4. QED
  BY <1>1, <1>2, <1>3 DEF AllFit

LEMMA LaterFits ==
  ASSUME NEW n \in Nat, NEW m \in Nat, n <= m, NEW c, Fitting(c, n)
  PROVE  Fitting(c, m)
<1>1. 0..n \subseteq 0..m /\ 1..n \subseteq 1..m
  OBVIOUS
<1>2. QED
  BY <1>1 DEF Fitting

LEMMA WithoutFits ==
  ASSUME NEW n \in Nat, AllFit(calls, n), NEW c \in DOMAIN calls
  PROVE  /\ AllFit(Without(c), n) /\ Size(Without(c)) + 1 = Size(calls) /\ Size(Without(c)) \in Nat
         /\ DOMAIN Without(c) \subseteq DOMAIN calls
         /\ \A d \in DOMAIN calls : d # c => d \in DOMAIN Without(c) /\ Without(c)[d] = calls[d]
         /\ (c \in DOMAIN Without(c) <=> calls[c] > 1)
BY OneLess DEF IsOneLess, Without, AllFit

LEMMA OneMoreFits ==
  ASSUME NEW n \in Nat, NEW b, AllFit(b, n), NEW c, Fitting(c, n)
  PROVE  AllFit(b (+) SetToBag({c}), n) /\ IsOneMore(b (+) SetToBag({c}), b, c)
<1>1. IsOneMore(b (+) SetToBag({c}), b, c)
  BY OneMore DEF AllFit
<1>2. QED
  BY <1>1 DEF AllFit, IsOneMore

\* An answer: the request is one that is answered now, or nobody's any more.
LEMMA AnswerMoves ==
  ASSUME NEW n \in Nat, AllFit(calls, n), NEW c \in DOMAIN calls, NEW status, NEW answer,
         Answer(c, status, answer)
  PROVE  LET rest == Without(c)
             d    == [c EXCEPT !.status = status, !.answer = answer]
         IN /\ d.op = c.op /\ d.path = c.path
            /\ IF Matters(d) THEN IsOneMore(calls', rest, d) ELSE calls' = rest /\ c.path = NoPath
<1> DEFINE rest == Without(c)
           d    == [c EXCEPT !.status = status, !.answer = answer]
<1>1. Fitting(c, n) /\ FiniteBag(rest)
  BY WithoutFits DEF AllFit
<1>2. d.op = c.op /\ d.path = c.path
  BY <1>1 DEF Fitting
<1>3. calls' = rest (+) Kept(d)
  BY DEF Answer
<1> HIDE DEF d, rest
<1>4. CASE Matters(d)
  <2>1. calls' = rest (+) SetToBag({d})
    BY <1>3, <1>4 DEF Kept
  <2>2. IsOneMore(calls', rest, d)
    BY <1>1, <2>1, OneMore
  <2>3. QED
    BY <1>2, <1>4, <2>2 DEF d, rest
<1>5. CASE ~Matters(d)
  <2>1. calls' = rest (+) EmptyBag
    BY <1>3, <1>5 DEF Kept
  <2>2. calls' = rest
    BY <1>1, <2>1, NoneMore
  <2>3. c.path = NoPath
    BY <1>2, <1>5 DEF Matters
  <2>4. QED
    BY <1>2, <1>5, <2>2, <2>3 DEF d, rest
<1>6. QED
  BY <1>4, <1>5

LEMMA AnswerFits ==
  ASSUME NEW n \in Nat, AllFit(calls, n), Size(calls) <= MaxCalls,
         NEW m \in Nat, n <= m, NEW c \in DOMAIN calls, NEW status \in Status, NEW answer \in Nat,
         Answer(c, status, answer),
         c.op \in Read => answer \in 0..MaxChanges,
         c.op = "login" /\ status = "ok" => answer \in 1..m
  PROVE  AllFit(calls', m) /\ Size(calls') <= MaxCalls
<1> DEFINE rest == Without(c)
           d    == [c EXCEPT !.status = status, !.answer = answer]
<1>1. Fitting(c, m) /\ AllFit(calls, m)
  BY LaterFits DEF AllFit
<1>2. Fitting(d, m)
  BY <1>1 DEF Fitting
<1>3. AllFit(rest, m) /\ Size(rest) + 1 = Size(calls) /\ Size(rest) \in Nat
  BY <1>1, WithoutFits
<1>4. IF Matters(d) THEN IsOneMore(calls', rest, d) ELSE calls' = rest
  BY AnswerMoves
<1> HIDE DEF d, rest
<1>5. CASE Matters(d)
  <2>1. IsOneMore(calls', rest, d)
    BY <1>4, <1>5
  <2>2. QED
    BY <1>2, <1>3, <2>1 DEF IsOneMore, AllFit
<1>6. CASE ~Matters(d)
  BY <1>3, <1>4, <1>6, Bounds
<1>7. QED
  BY <1>5, <1>6

LEMMA PassedFits ==
  ASSUME NEW n \in Nat, NEW b, AllFit(b, n)
  PROVE  /\ AllFit(Passed(b, Buried), n) /\ Size(Passed(b, Buried)) <= Size(b)
         /\ \A d \in DOMAIN Passed(b, Buried) : d.path = NoPath /\ d.op \in {c.op : c \in DOMAIN b}
         /\ AllFit(Passed(b, Orphan), n) /\ Size(Passed(b, Orphan)) <= Size(b)
         /\ \A d \in DOMAIN Passed(b, Orphan) :
              (d.path = NoPath /\ d.op \in {c.op : c \in DOMAIN b}) \/ (d \in DOMAIN b /\ d.path[1] = "history")
         /\ \A c \in DOMAIN b : c.path[1] = "history" => c \in DOMAIN Passed(b, Orphan)
<1>1. \A k \in Copies(b) : k[1] \in DOMAIN b
  BY CopiesAre
<1>2. ASSUME NEW c, Fitting(c, n)
      PROVE  /\ Fitting(Buried(c), n) /\ Buried(c).path = NoPath /\ Buried(c).op = c.op
             /\ Fitting(Orphan(c), n)
             /\ IF c.path[1] = "history" THEN Orphan(c) = c ELSE Orphan(c) = Buried(c)
  <2>1. NoPath \in Endpoint
    BY DEF NoPath, Endpoint, Subject
  <2>2. QED
    BY <1>2, <2>1 DEF Fitting, Buried, Orphan
<1>3. /\ FiniteBag(Passed(b, Buried)) /\ Size(Passed(b, Buried)) <= Size(b)
      /\ DOMAIN Passed(b, Buried) = {Buried(c) : c \in {c \in DOMAIN b : Matters(Buried(c))}}
  <2> DEFINE f == [c \in DOMAIN b |-> Buried(c)]
             D == {Buried(c) : c \in {c \in DOMAIN b : Matters(Buried(c))}}
  <2>1. \A d : {k \in Copies(b) : Buried(k[1]) = d} = {k \in Copies(b) : f[k[1]] = d}
    BY <1>1
  <2>2. Passed(b, Buried) = [d \in D |-> Cardinality({k \in Copies(b) : Buried(k[1]) = d})]
    BY DEF Passed, Count, BagToSet
  <2>3. D \subseteq {f[c] : c \in DOMAIN b}
    OBVIOUS
  <2> HIDE DEF f, D
  <2>4. Passed(b, Buried) = [d \in D |-> Cardinality({k \in Copies(b) : f[k[1]] = d})]
    BY <2>1, <2>2
  <2>5. QED
    <3>1. FiniteBag(b)
      BY DEF AllFit
    <3>2. /\ FiniteBag(Passed(b, Buried)) /\ Size(Passed(b, Buried)) <= Size(b)
          /\ DOMAIN Passed(b, Buried) = D
      BY <2>3, <2>4, <3>1, PassedOn DEF AreLeft
    <3>3. QED
      BY <3>2 DEF D
<1>4. /\ FiniteBag(Passed(b, Orphan)) /\ Size(Passed(b, Orphan)) <= Size(b)
      /\ DOMAIN Passed(b, Orphan) = {Orphan(c) : c \in {c \in DOMAIN b : Matters(Orphan(c))}}
  <2> DEFINE f == [c \in DOMAIN b |-> Orphan(c)]
             D == {Orphan(c) : c \in {c \in DOMAIN b : Matters(Orphan(c))}}
  <2>1. \A d : {k \in Copies(b) : Orphan(k[1]) = d} = {k \in Copies(b) : f[k[1]] = d}
    BY <1>1
  <2>2. Passed(b, Orphan) = [d \in D |-> Cardinality({k \in Copies(b) : Orphan(k[1]) = d})]
    BY DEF Passed, Count, BagToSet
  <2>3. D \subseteq {f[c] : c \in DOMAIN b}
    OBVIOUS
  <2> HIDE DEF f, D
  <2>4. Passed(b, Orphan) = [d \in D |-> Cardinality({k \in Copies(b) : f[k[1]] = d})]
    BY <2>1, <2>2
  <2>5. QED
    <3>1. FiniteBag(b)
      BY DEF AllFit
    <3>2. /\ FiniteBag(Passed(b, Orphan)) /\ Size(Passed(b, Orphan)) <= Size(b)
          /\ DOMAIN Passed(b, Orphan) = D
      BY <2>3, <2>4, <3>1, PassedOn DEF AreLeft
    <3>3. QED
      BY <3>2 DEF D
<1>5. /\ AllFit(Passed(b, Buried), n)
      /\ \A d \in DOMAIN Passed(b, Buried) : d.path = NoPath /\ d.op \in {c.op : c \in DOMAIN b}
  BY <1>2, <1>3 DEF AllFit
<1>6. /\ AllFit(Passed(b, Orphan), n)
      /\ \A d \in DOMAIN Passed(b, Orphan) :
           (d.path = NoPath /\ d.op \in {c.op : c \in DOMAIN b}) \/ (d \in DOMAIN b /\ d.path[1] = "history")
  BY <1>2, <1>4 DEF AllFit
<1>7. \A c \in DOMAIN b : c.path[1] = "history" => c \in DOMAIN Passed(b, Orphan)
  <2>1. ASSUME NEW c \in DOMAIN b, c.path[1] = "history"
        PROVE  c \in DOMAIN Passed(b, Orphan)
    <3>1. Orphan(c) = c
      BY <2>1 DEF Orphan
    <3>2. c.path # NoPath
      BY <2>1, NoneIsNoHook, HooksAre DEF NoPath
    <3>3. QED
      BY <1>4, <3>1, <3>2 DEF Matters
  <2>2. QED
    BY <2>1
<1>8. QED
  BY <1>3, <1>4, <1>5, <1>6, <1>7
-----------------------------------------------------------------------------
(* The type of the state.                                                   *)

LEMMA StartsAre == DOMAIN HookOf = {"clear", "submit", "install"} /\ HookOf["clear"] = "jobs"
                   /\ HookOf["submit"] = "jobs" /\ HookOf["install"] = "status"
BY DEF HookOf

LEMMA NowPath ==
  ASSUME ScreenInv, NEW h \in Hook
  PROVE  /\ PathNow(h) \in Endpoint
         /\ PathNow(h) = NoPath <=> h = "history" /\ selectedNode = None
         /\ PathNow(h) # NoPath => PathNow(h)[1] = h
BY PathFits DEF ScreenInv, PathNow

LEMMA NowAskable ==
  ASSUME ScreenInv, NEW hooks, hooks \subseteq Hook
  PROVE  Askable([h \in hooks |-> PathNow(h)])
BY NowPath DEF Askable

LEMMA ServerTypes ==
  ASSUME TypeInv, ServerStep
  PROVE  TypeInv'
<1>1. UNCHANGED consoleVars
  BY DEF ServerStep
<1>2. ScreenInv' /\ ViewInv' /\ InsideInv'
  BY <1>1 DEF TypeInv, ScreenInv, ViewInv, InsideInv, consoleVars, screenVars, insideVars
<1>3. ApiInv /\ issued \in Nat /\ AllFit(calls, issued) /\ Size(calls) <= MaxCalls
  BY DEF TypeInv, ApiInv
<1>4. Moved \subseteq 0..MaxChanges
  BY DEF Moved
<1>5. ASSUME NEW c \in DOMAIN calls, ServeLogin(c)
      PROVE  ApiInv'
  <2>1. CASE /\ c.op = "login" /\ issued < MaxSessions
             /\ issued' = issued + 1 /\ sessions' = sessions \union {issued + 1}
             /\ Answer(c, "ok", issued + 1)
    <3>1. AllFit(calls', issued + 1) /\ Size(calls') <= MaxCalls
      BY <1>3, <2>1, AnswerFits DEF Status, Read
    <3>2. issued' \in 0..MaxSessions /\ token \in 0..issued' /\ sessions' \subseteq 1..issued'
      BY <1>3, <2>1, Bounds DEF ApiInv
    <3>3. QED
      BY <1>3, <1>5, <2>1, <3>1, <3>2 DEF ServeLogin, ApiInv
  <2>2. CASE c.op = "guess" /\ Answer(c, "refused", 0) /\ UNCHANGED <<issued, sessions>>
    <3>1. AllFit(calls', issued) /\ Size(calls') <= MaxCalls
      BY <1>3, <2>2, AnswerFits DEF Status, Read
    <3>2. QED
      BY <1>3, <1>5, <2>2, <3>1 DEF ServeLogin, ApiInv
  <2>3. QED
    BY <1>5, <2>1, <2>2 DEF ServeLogin
<1>6. ASSUME NEW c \in DOMAIN calls, NEW status \in Status, NEW answer \in Nat,
             Answer(c, status, answer), answer \in 0..MaxChanges,
             status = "ok" => c.op \notin Login,
             UNCHANGED <<token, sessions, issued>>,
             now' \in 0..MaxChanges, faults' \in 0..MaxFaults
      PROVE  ApiInv'
  <2>1. AllFit(calls', issued) /\ Size(calls') <= MaxCalls
    BY <1>3, <1>6, AnswerFits DEF Login
  <2>2. QED
    BY <1>3, <1>6, <2>1 DEF ApiInv
<1>7. ASSUME NEW c \in DOMAIN calls, ServeRefused(c)
      PROVE  ApiInv'
  BY <1>3, <1>6, <1>7, Bounds DEF ServeRefused, Status, ApiInv
<1>8. ASSUME NEW c \in DOMAIN calls, ServeAdmitted(c)
      PROVE  ApiInv'
  <2>1. now' \in 0..MaxChanges /\ now \in 0..MaxChanges /\ faults' = faults
    BY <1>3, <1>4, <1>8 DEF ServeAdmitted, ApiInv
  <2>2. PICK status \in {"ok", "empty"}, answer \in {0, now} : Answer(c, status, answer)
    BY <1>8 DEF ServeAdmitted
  <2>3. answer \in 0..MaxChanges /\ answer \in Nat /\ status \in Status
    BY <2>1, <2>2, Bounds DEF Status
  <2>4. QED
    BY <1>3, <1>6, <1>8, <2>1, <2>2, <2>3 DEF ServeAdmitted, ApiInv
<1>9. ASSUME NEW c \in DOMAIN calls, Fail(c)
      PROVE  ApiInv'
  <2>1. now' \in 0..MaxChanges
    BY <1>3, <1>4, <1>9 DEF Fail, ApiInv
  <2>2. faults' \in 0..MaxFaults
    <3>1. faults \in 0..MaxFaults /\ faults < MaxFaults /\ faults' = faults + 1
      BY <1>3, <1>9 DEF Fail, ApiInv
    <3>2. QED
      BY <3>1, Bounds
  <2>3. QED
    BY <1>3, <1>6, <1>9, <2>1, <2>2, Bounds DEF Fail, Status
<1>10. ASSUME UNCHANGED <<token, issued, faults, calls>>, sessions' \subseteq sessions,
              now' \in 0..MaxChanges
       PROVE  ApiInv'
  <2>1. AllFit(calls', issued') /\ Size(calls') <= MaxCalls
    BY <1>3, <1>10
  <2>2. QED
    BY <1>3, <1>10, <2>1 DEF ApiInv
<1>11. ASSUME Change
       PROVE  ApiInv'
  <2>1. now \in 0..MaxChanges /\ now < MaxChanges /\ now' = now + 1
    BY <1>3, <1>11 DEF Change, ApiInv
  <2>2. now' \in 0..MaxChanges
    BY <2>1, Bounds
  <2>3. QED
    BY <1>10, <1>11, <2>2 DEF Change
<1>12. ASSUME LoseSessions
       PROVE  ApiInv'
  BY <1>3, <1>10, <1>12 DEF LoseSessions, ApiInv
<1>13. ApiInv'
  BY <1>5, <1>7, <1>8, <1>9, <1>11, <1>12 DEF ServerStep, Serve, BagToSet
<1>14. QED
  BY <1>2, <1>13 DEF TypeInv

\* The browser's side of the API: the token and the requests.
LEMMA ClientTypes ==
  ASSUME ApiInv, UNCHANGED serverVars, token' \in 0..issued, AllFit(calls', issued),
         Size(calls') <= MaxCalls
  PROVE  ApiInv'
BY DEF ApiInv, serverVars

LEMMA CallsTyped ==
  ASSUME ApiInv
  PROVE  /\ issued \in Nat /\ token \in 0..issued /\ AllFit(calls, issued) /\ Size(calls) <= MaxCalls
         /\ AllFit(EmptyBag, issued) /\ Size(EmptyBag) <= MaxCalls
         /\ \A c \in DOMAIN calls : /\ Fitting(c, issued) /\ AllFit(Without(c), issued)
                                   /\ Size(Without(c)) <= MaxCalls /\ Size(Without(c)) + 1 <= MaxCalls
<1>1. issued \in Nat /\ token \in 0..issued /\ AllFit(calls, issued) /\ Size(calls) <= MaxCalls
  BY DEF ApiInv
<1>2. AllFit(EmptyBag, issued) /\ Size(EmptyBag) <= MaxCalls
  BY EmptyIsFinite, Bounds DEF AllFit
<1>3. ASSUME NEW c \in DOMAIN calls
      PROVE  AllFit(Without(c), issued) /\ Size(Without(c)) <= MaxCalls /\ Size(Without(c)) + 1 <= MaxCalls
  BY <1>1, <1>3, WithoutFits, Bounds
<1>4. QED
  BY <1>1, <1>2, <1>3 DEF AllFit

\* A hook that reads again.
LEMMA ReloadingTypes ==
  ASSUME ViewInv, NEW asked, view' = Reloading(view, asked), authenticated' = authenticated,
         authenticated => HooksOf[page'] = HooksOf[page]
  PROVE  ViewInv'
<1>1. DOMAIN view' = DOMAIN view
  BY DEF Reloading
<1>2. ASSUME NEW h \in DOMAIN view
      PROVE  view'[h] \in HookState
  BY <1>2 DEF Reloading, ViewInv, HookState
<1>3. QED
  BY <1>1, <1>2 DEF ViewInv

LEMMA FreshTypes ==
  ASSUME NEW b \in BOOLEAN
  PROVE  Fresh \in HookState /\ [Fresh EXCEPT !.loading = b] \in HookState
BY DEF Fresh, HookState, Data

LEMMA MountedTypes ==
  ASSUME NEW p, Mounted(p)
  PROVE  InsideInv' /\ filter' \in Filter \union {None}
BY DEF Mounted, InsideInv

LEMMA AppearTypes ==
  ASSUME TypeInv, NEW p \in Page, NEW n \in Row \union {None}, NEW t \in 0..issued, NEW rest,
         AllFit(rest, issued), Appear(p, n, t, rest), token' = t, authenticated' = TRUE,
         UNCHANGED serverVars
  PROVE  TypeInv'
<1> DEFINE asked == [h \in HooksOf[p] \union {"history"} |-> Path(h, p, None, n)]
<1>1. HooksOf[p] \union {"history"} \subseteq Hook
  BY PageHooks DEF Hook
<1>2. Askable(asked)
  BY <1>1, PathFits DEF Askable
<1>3. /\ page' = p /\ selectedNode' = n
      /\ Ask(rest, asked, t)
      /\ view' = [h \in DOMAIN asked |-> [Fresh EXCEPT !.loading = asked[h] # NoPath]]
      /\ Mounted(p)
  BY DEF Appear
<1>4. ApiInv'
  <2>1. issued \in Nat /\ ApiInv
    BY CallsTyped DEF TypeInv
  <2>2. AllFit(calls', issued) /\ Size(calls') <= MaxCalls
    BY <1>2, <1>3, <2>1, AskFits
  <2>3. QED
    BY <2>1, <2>2, ClientTypes
<1>5. ScreenInv' /\ InsideInv'
  BY <1>3, MountedTypes DEF ScreenInv
<1>6. ViewInv'
  BY <1>3, FreshTypes DEF ViewInv
<1>7. QED
  BY <1>4, <1>5, <1>6 DEF TypeInv

LEMMA ShowTypes ==
  ASSUME TypeInv, NEW p \in Page, NEW rest, AllFit(rest, issued), Size(rest) <= MaxCalls, Show(p, rest)
  PROVE  TypeInv'
<1> DEFINE asked == [h \in HooksOf[p] |-> Path(h, p, None, selectedNode)]
<1>1. HooksOf[p] \subseteq Hook /\ "history" \notin HooksOf[p]
  BY PageHooks
<1>2. Askable(asked)
  BY <1>1, PathFits DEF Askable, TypeInv, ScreenInv
<1>3. page' = p /\ UNCHANGED <<token, serverVars, authenticated, selectedNode>>
  BY DEF Show
<1>4. /\ issued \in Nat /\ token' \in 0..issued
      /\ token \in 0..issued
  BY <1>3, CallsTyped DEF TypeInv
<1>5. ASSUME AllFit(calls', issued), Size(calls') <= MaxCalls
      PROVE  ApiInv'
  BY <1>3, <1>4, <1>5, ClientTypes DEF TypeInv
<1>6. ASSUME UNCHANGED insideVars
      PROVE  ScreenInv' /\ InsideInv'
  BY <1>3, <1>6 DEF TypeInv, ScreenInv, InsideInv, insideVars
<1>7. CASE /\ p = page \/ ~authenticated
           /\ calls' = rest /\ UNCHANGED <<view, insideVars>>
  <2>1. ViewInv'
    BY <1>3, <1>7 DEF TypeInv, ViewInv
  <2>2. QED
    BY <1>5, <1>6, <1>7, <2>1 DEF TypeInv
<1>8. CASE /\ SameComponent(p, page) /\ Ask(rest, asked, token)
           /\ view' = Reloading(view, asked) /\ UNCHANGED insideVars
  <2>1. HooksOf[page'] = HooksOf[page]
    BY <1>3, <1>8, DataPages DEF SameComponent, TypeInv, ScreenInv
  <2>2. ViewInv'
    BY <1>3, <1>8, <2>1, ReloadingTypes DEF TypeInv
  <2>3. ApiInv'
    BY <1>2, <1>4, <1>5, <1>8, AskFits
  <2>4. QED
    BY <1>6, <1>8, <2>2, <2>3 DEF TypeInv
<1>9. CASE /\ authenticated /\ Ask(Passed(rest, Orphan), asked, token)
           /\ view' = [h \in HooksOf[p] \union {"history"} |->
                         IF h = "history" THEN view[h] ELSE Fresh]
           /\ Mounted(p)
  <2>1. ApiInv'
    BY <1>2, <1>4, <1>5, <1>9, AskFits, PassedFits
  <2>2. ScreenInv' /\ InsideInv'
    BY <1>3, <1>9, MountedTypes DEF ScreenInv, TypeInv
  <2>3. view["history"] \in HookState
    BY <1>9 DEF TypeInv, ViewInv
  <2>4. ViewInv'
    BY <1>3, <1>9, <2>3, FreshTypes DEF ViewInv
  <2>5. QED
    BY <2>1, <2>2, <2>4 DEF TypeInv
<1>10. QED
  BY <1>7, <1>8, <1>9 DEF Show

\* A call that is replaced by the read of what it changed.
LEMMA ThenReloadTypes ==
  ASSUME TypeInv, NEW c \in DOMAIN calls, ThenReload(c), UNCHANGED <<token, serverVars, screenVars>>
  PROVE  ApiInv' /\ ViewInv'
<1>1. /\ issued \in Nat /\ token \in 0..issued /\ Fitting(c, issued)
      /\ AllFit(Without(c), issued) /\ Size(Without(c)) + 1 <= MaxCalls
  BY CallsTyped DEF TypeInv
<1> DEFINE get == Call("get", c.path, token)
<1>2. Fitting(get, issued)
  BY <1>1, CallFits DEF Fitting, Op, Read
<1>3. calls' = Without(c) (+) SetToBag({get})
  BY DEF ThenReload
<1> HIDE DEF get
<1>4. AllFit(calls', issued) /\ IsOneMore(calls', Without(c), get)
  BY <1>1, <1>2, <1>3, OneMoreFits
<1>5. Size(calls') <= MaxCalls
  BY <1>1, <1>4 DEF IsOneMore
<1>6. ApiInv'
  BY <1>1, <1>4, <1>5, ClientTypes DEF TypeInv
<1>7. CASE view' = view
  BY <1>6, <1>7 DEF TypeInv, ViewInv, screenVars
<1>8. CASE \E asked : view' = Reloading(view, asked)
  BY <1>6, <1>8, ReloadingTypes DEF TypeInv, screenVars
<1>9. QED
  BY <1>7, <1>8 DEF ThenReload

LEMMA ReadArrivesTypes ==
  ASSUME TypeInv, NEW c \in DOMAIN calls, ReadArrives(c)
  PROVE  TypeInv'
<1>1. /\ issued \in Nat /\ token \in 0..issued /\ Fitting(c, issued)
      /\ AllFit(Without(c), issued) /\ Size(Without(c)) <= MaxCalls
  BY CallsTyped DEF TypeInv
<1>2. UNCHANGED <<token, serverVars, screenVars, dialogs, form, busy, filter>> /\ calls' = Without(c)
  BY DEF ReadArrives
<1>3. ApiInv'
  BY <1>1, <1>2, ClientTypes DEF TypeInv
<1> DEFINE data == [of |-> c.path[2], at |-> c.answer]
<1>4. data \in Data
  BY <1>1 DEF ReadArrives, Fitting, Read, Endpoint, Data
<1>5. \/ view' = [view EXCEPT ![c.path[1]] = Loaded(@, data)]
      \/ view' = [view EXCEPT ![c.path[1]] = Failed(@)]
  BY DEF ReadArrives
<1> HIDE DEF data
<1>6. \A s \in HookState : Loaded(s, data) \in HookState /\ Failed(s) \in HookState
  BY <1>4 DEF Loaded, Failed, HookState
<1>7. DOMAIN view' = DOMAIN view /\ \A h \in DOMAIN view : view'[h] \in HookState
  BY <1>5, <1>6 DEF TypeInv, ViewInv
<1>8. QED
  BY <1>2, <1>3, <1>7 DEF TypeInv, ScreenInv, ViewInv, InsideInv, screenVars

LEMMA ExpiredTypes ==
  ASSUME TypeInv, NEW c \in DOMAIN calls, Expired(c)
  PROVE  TypeInv'
<1>1. /\ issued \in Nat /\ AllFit(Without(c), issued) /\ Size(Without(c)) <= MaxCalls
      /\ Size(Without(c)) \in Nat /\ MaxCalls \in Nat
  BY CallsTyped, WithoutFits, Bounds DEF TypeInv
<1>2. /\ token' = 0 /\ ~authenticated' /\ authenticated' \in BOOLEAN
      /\ UNCHANGED <<serverVars, page, selectedNode>>
  BY DEF Expired, TokenLeft
<1>3. token' \in 0..issued
  BY <1>1, <1>2
<1>4. CASE authenticated
  <2>1. /\ calls' = Passed(Without(c), Buried) /\ view' = << >> /\ dialogs' = {} /\ busy' = {}
        /\ filter' = None
    BY <1>4 DEF Expired
  <2>2. FiniteBag(Passed(Without(c), Buried)) /\ AllFit(calls', issued) /\ Size(calls') <= Size(Without(c))
    BY <1>1, <2>1, PassedFits DEF AllFit
  <2>3. Size(calls') \in Nat
    BY <2>1, <2>2, FS_CardinalityType DEF FiniteBag, Size
  <2>4. Size(calls') <= MaxCalls
    BY <1>1, <2>2, <2>3
  <2>5. ApiInv'
    BY <1>2, <1>3, <2>2, <2>4, ClientTypes DEF TypeInv
  <2>6. ScreenInv' /\ InsideInv'
    BY <1>2, <2>1 DEF TypeInv, ScreenInv, InsideInv
  <2>7. DOMAIN view' = {}
    BY <2>1
  <2>8. QED
    BY <1>2, <2>5, <2>6, <2>7 DEF TypeInv, ViewInv
<1>5. CASE ~authenticated
  <2>1. /\ calls' = Without(c) /\ busy' \in {{}, busy}
        /\ UNCHANGED <<view, dialogs, form, filter, chart>>
    BY <1>5 DEF Expired
  <2>2. ApiInv'
    BY <1>1, <1>2, <1>3, <2>1, ClientTypes DEF TypeInv
  <2>3. ScreenInv' /\ InsideInv'
    BY <1>2, <2>1 DEF TypeInv, ScreenInv, InsideInv
  <2>4. DOMAIN view' = {}
    BY <1>5, <2>1 DEF TypeInv, ViewInv
  <2>5. QED
    BY <1>2, <2>2, <2>3, <2>4 DEF TypeInv, ViewInv
<1>6. QED
  BY <1>4, <1>5 DEF TypeInv, ScreenInv

LEMMA ArriveTypes ==
  ASSUME TypeInv, NEW c \in DOMAIN calls, Arrive(c)
  PROVE  TypeInv'
<1>1. /\ issued \in Nat /\ token \in 0..issued /\ Fitting(c, issued)
      /\ AllFit(Without(c), issued) /\ Size(Without(c)) <= MaxCalls
      /\ page \in Page /\ selectedNode \in Row \union {None}
  BY CallsTyped DEF TypeInv, ScreenInv
<1>2. CASE LoggedIn(c)
  <2>1. c.answer \in 0..issued
    BY <1>1, <1>2 DEF LoggedIn, Fitting
  <2>2. QED
    BY <1>1, <1>2, <2>1, AppearTypes DEF LoggedIn
<1>3. ASSUME calls' = Without(c), UNCHANGED <<token, serverVars>>
      PROVE  ApiInv'
  BY <1>1, <1>3, ClientTypes DEF TypeInv
<1>4. ASSUME UNCHANGED <<screenVars, filter>>, ApiInv', ViewInv' \/ UNCHANGED view, InsideInv'
      PROVE  TypeInv'
  BY <1>4 DEF TypeInv, ScreenInv, ViewInv, screenVars
<1>5. CASE LoginFailed(c) \/ PreviewArrives(c)
  <2>1. ApiInv'
    BY <1>3, <1>5 DEF LoginFailed, PreviewArrives
  <2>2. InsideInv'
    BY <1>5 DEF LoginFailed, PreviewArrives, TypeInv, InsideInv
  <2>3. QED
    BY <1>4, <1>5, <2>1, <2>2 DEF LoginFailed, PreviewArrives
<1>6. ASSUME calls' = Without(c), UNCHANGED <<token, serverVars, consoleVars>>
      PROVE  TypeInv'
  BY <1>3, <1>4, <1>6 DEF consoleVars, insideVars, TypeInv, InsideInv
<1>7. CASE RemoveArrives(c)
  BY <1>6, <1>7 DEF RemoveArrives
<1>8. CASE SpeedtestArrives(c)
  <2>1. "tests" \in Page
    BY PagesAre
  <2>2. QED
    BY <1>1, <1>6, <1>8, <2>1, ShowTypes DEF SpeedtestArrives
<1>9. CASE SaveArrives(c) \/ StartedArrives(c)
  <2>1. UNCHANGED <<token, serverVars, screenVars, filter>>
    BY <1>9 DEF SaveArrives, StartedArrives
  <2>2. ThenReload(c) \/ (calls' = Without(c) /\ UNCHANGED view)
    BY <1>9 DEF SaveArrives, StartedArrives
  <2>3. ApiInv' /\ (ViewInv' \/ UNCHANGED view)
    BY <1>3, <2>1, <2>2, ThenReloadTypes
  <2>4. dialogs' \subseteq dialogs \union {"form", "token", "preview"} /\ busy' \subseteq busy
    BY <1>9 DEF SaveArrives, StartedArrives, AfterSave
  <2>5. InsideInv'
    BY <2>4 DEF TypeInv, InsideInv
  <2>6. QED
    BY <1>4, <2>1, <2>3, <2>5
<1>10. QED
  BY <1>2, <1>5, <1>7, <1>8, <1>9, ReadArrivesTypes, ExpiredTypes DEF Arrive

LEMMA ReloadTypes ==
  ASSUME TypeInv, NEW hooks, hooks \subseteq Hook, Reload(hooks),
         UNCHANGED <<token, serverVars, screenVars, insideVars>>
  PROVE  TypeInv'
<1> DEFINE asked == [h \in hooks |-> PathNow(h)]
<1>1. Askable(asked)
  BY NowAskable DEF TypeInv
<1>2. Ask(calls, asked, token) /\ view' = Reloading(view, asked)
  BY DEF Reload
<1> HIDE DEF asked
<1>3. issued \in Nat /\ token \in 0..issued /\ AllFit(calls, issued)
  BY CallsTyped DEF TypeInv
<1>4. AllFit(calls', issued) /\ Size(calls') <= MaxCalls
  BY <1>1, <1>2, <1>3, AskFits
<1>5. ApiInv'
  BY <1>3, <1>4, ClientTypes DEF TypeInv
<1>6. ViewInv'
  BY <1>2, ReloadingTypes DEF TypeInv, screenVars
<1>7. QED
  BY <1>5, <1>6 DEF TypeInv, ScreenInv, InsideInv, screenVars, insideVars

\* A hook that is given another endpoint.
LEMMA AskOneTypes ==
  ASSUME TypeInv, NEW h \in Hook, NEW path \in Endpoint, path # NoPath => path[1] = h,
         Ask(calls, Only(h, path), token), view' = Reloading(view, Only(h, path)),
         UNCHANGED <<token, serverVars, authenticated, page>>
  PROVE  ApiInv' /\ ViewInv'
<1>1. Askable(Only(h, path))
  BY DEF Askable, Only
<1>2. issued \in Nat /\ token \in 0..issued /\ AllFit(calls, issued)
  BY CallsTyped DEF TypeInv
<1>3. AllFit(calls', issued) /\ Size(calls') <= MaxCalls
  BY <1>1, <1>2, AskFits
<1>4. ApiInv'
  BY <1>2, <1>3, ClientTypes DEF TypeInv
<1>5. ViewInv'
  BY ReloadingTypes DEF TypeInv
<1>6. QED
  BY <1>4, <1>5

LEMMA SendTypes ==
  ASSUME ApiInv, NEW op \in Op, NEW path \in Endpoint,
         calls' = calls (+) SetToBag({Call(op, path, token)}), Size(calls') <= MaxCalls,
         UNCHANGED <<token, serverVars>>
  PROVE  ApiInv'
<1>1. issued \in Nat /\ token \in 0..issued /\ AllFit(calls, issued)
  BY CallsTyped
<1>2. Fitting(Call(op, path, token), issued)
  BY <1>1, CallFits
<1>3. AllFit(calls', issued)
  BY <1>1, <1>2, OneMoreFits
<1>4. QED
  BY <1>1, <1>3, ClientTypes

LEMMA RequestTypes ==
  ASSUME TypeInv, NEW op \in Op, NEW path \in Endpoint, Request(op, path), UNCHANGED filter, InsideInv'
  PROVE  TypeInv'
<1>1. ApiInv'
  BY SendTypes DEF Request, TypeInv
<1>2. QED
  BY <1>1 DEF Request, TypeInv, ScreenInv, ViewInv, screenVars

LEMMA UserTypes ==
  ASSUME IInv, TypeInv, User \/ Poll
  PROVE  TypeInv'
<1>1. /\ issued \in Nat /\ token \in 0..issued /\ AllFit(calls, issued) /\ Size(calls) <= MaxCalls
      /\ AllFit(EmptyBag, issued) /\ Size(EmptyBag) <= MaxCalls
      /\ page \in Page /\ selectedNode \in Row \union {None} /\ ScreenInv
      /\ HooksOf[page] \subseteq Hook /\ ListOf(page) \in Hook
  BY CallsTyped, PageHooks DEF TypeInv, ScreenInv
<1>2. \A h \in Hook : PathNow(h) \in Endpoint
  BY <1>1, NowPath
<1>3. /\ NoPath \in Endpoint /\ <<"login", None>> \in Endpoint
      /\ {"login", "guess", "save", "remove", "preview", "order", "speedtest", "clear", "submit", "install"}
           \subseteq Op
      /\ {"history", "links", "upstreams", "jobs", "status", "logs"} \subseteq Hook
  BY HooksAre DEF NoPath, Endpoint, Subject, Op, Read, Mutation, Login
<1>4. ASSUME UNCHANGED <<token, serverVars, calls, screenVars, view, filter>>, InsideInv'
      PROVE  TypeInv'
  <2>1. ApiInv'
    BY <1>1, <1>4, ClientTypes DEF TypeInv
  <2>2. QED
    BY <1>4, <2>1 DEF TypeInv, ScreenInv, ViewInv, screenVars
<1>5. ASSUME NEW op \in Login, SubmitLogin(op)
      PROVE  TypeInv'
  <2>1. ApiInv'
    BY <1>3, <1>5, SendTypes DEF SubmitLogin, Login, TypeInv
  <2>2. QED
    BY <1>5, <2>1 DEF SubmitLogin, TypeInv, ScreenInv, ViewInv, InsideInv, screenVars
<1>6. ASSUME NEW p \in Page, Navigate(p)
      PROVE  TypeInv'
  BY <1>1, <1>6, ShowTypes DEF Navigate
<1>7. CASE Refresh
  BY <1>1, <1>7, ReloadTypes DEF Refresh
<1>8. CASE Poll
  <2>1. Polled[page] \subseteq Hook
    BY <1>8, HooksAre DEF Poll, Polled
  <2>2. QED
    BY <1>8, <2>1, ReloadTypes DEF Poll
<1>9. CASE RefreshHistory
  BY <1>3, <1>9, ReloadTypes DEF RefreshHistory
<1>10. CASE ReloadTab
  <2>1. CASE token # 0
    <3>1. "dashboard" \in Page
      BY PagesAre
    <3>2. QED
      BY <1>1, <1>10, <2>1, <3>1, AppearTypes DEF ReloadTab
  <2>2. CASE token = 0
    <3>1. /\ authenticated' = FALSE /\ page' = "dashboard" /\ selectedNode' = None
          /\ calls' = EmptyBag /\ busy' = {} /\ UNCHANGED <<view, dialogs, filter>>
          /\ UNCHANGED <<token, serverVars>>
      BY <1>10, <2>2 DEF ReloadTab
    <3>2. ApiInv'
      BY <1>1, <3>1, ClientTypes DEF TypeInv
    <3>3. DOMAIN view = {}
      BY <2>2 DEF IInv, ConsoleMatchesToken, TypeInv, ViewInv
    <3>4. QED
      BY <3>1, <3>2, <3>3, PagesAre DEF TypeInv, ScreenInv, ViewInv, InsideInv
  <2>3. QED
    BY <2>1, <2>2
<1>11. CASE \/ \E r \in Row \union {None} : OpenForm(r)
            \/ \E d \in dialogs : CloseDialog(d)
  <2>1. dialogs' \subseteq dialogs \union {"form"} /\ busy' = busy
    BY <1>11 DEF OpenForm, CloseDialog
  <2>2. InsideInv'
    BY <2>1 DEF TypeInv, InsideInv
  <2>3. QED
    BY <1>4, <1>11, <2>2 DEF OpenForm, CloseDialog
<1>12. CASE \/ \E i \in 0..SampleLimit : Hover(i)
            \/ MouseLeave
  BY <1>4, <1>12 DEF Hover, MouseLeave, TypeInv, InsideInv
<1>13. CASE SubmitForm
  <2>1. InsideInv' /\ UNCHANGED filter
    BY <1>13 DEF SubmitForm, TypeInv, InsideInv
  <2>2. QED
    BY <1>1, <1>2, <1>3, <1>13, <2>1, RequestTypes DEF SubmitForm
<1>14. CASE Remove \/ Preview \/ Order \/ Speedtest
  <2>1. InsideInv' /\ UNCHANGED filter
    BY <1>14 DEF Remove, Preview, Order, Speedtest, TypeInv, InsideInv, insideVars
  <2>2. QED
    BY <1>1, <1>2, <1>3, <1>14, <2>1, RequestTypes DEF Remove, Preview, Order, Speedtest
<1>15. CASE Upload \/ (\E op \in DOMAIN HookOf : Start(op))
  <2>1. InsideInv' /\ UNCHANGED filter
    BY <1>15, StartsAre DEF Upload, Start, TypeInv, InsideInv
  <2>2. QED
    BY <1>2, <1>3, <1>15, <2>1, RequestTypes, StartsAre DEF Upload, Start
<1>16. ASSUME NEW f \in Filter \union {None}, SetFilter(f)
       PROVE  TypeInv'
  <2>1. <<"logs", f>> \in Endpoint /\ <<"logs", f>>[1] = "logs"
    BY <1>3, <1>16 DEF Endpoint, Subject
  <2>2. ApiInv' /\ ViewInv'
    BY <1>3, <1>16, <2>1, AskOneTypes DEF SetFilter, screenVars
  <2>3. QED
    BY <1>16, <2>2 DEF SetFilter, TypeInv, ScreenInv, InsideInv, screenVars
<1>17. ASSUME NEW n \in Row \union {None}, Select(n)
       PROVE  TypeInv'
  <2>1. /\ Path("history", page, filter, n) \in Endpoint
        /\ Path("history", page, filter, n) # NoPath => Path("history", page, filter, n)[1] = "history"
    BY <1>1, <1>3, PathFits DEF ScreenInv
  <2>2. ApiInv' /\ ViewInv'
    BY <1>3, <1>17, <2>1, AskOneTypes DEF Select
  <2>3. QED
    BY <1>17, <2>2 DEF Select, TypeInv, ScreenInv, InsideInv, insideVars
<1>18. QED
  BY <1>5, <1>6, <1>7, <1>8, <1>9, <1>10, <1>11, <1>12, <1>13, <1>14, <1>15, <1>16, <1>17
     DEF User, OpenHistory, CloseHistory

LEMMA NextTypes == IInv /\ TypeInv /\ [Next]_vars => TypeInv'
<1>1. ASSUME TypeInv, UNCHANGED vars
      PROVE  TypeInv'
  <2>1. ApiInv'
    BY <1>1, CallsTyped, ClientTypes DEF TypeInv, vars
  <2>2. QED
    BY <1>1, <2>1 DEF TypeInv, ScreenInv, ViewInv, InsideInv, vars, consoleVars, screenVars, insideVars
<1>2. QED
  BY <1>1, ServerTypes, ArriveTypes, UserTypes DEF Next, BagToSet

LEMMA InitTypes == Init => TypeInv
<1> SUFFICES ASSUME Init
             PROVE  TypeInv
  OBVIOUS
<1>1. ApiInv
  <2>1. AllFit(calls, issued) /\ Size(calls) <= MaxCalls
    BY EmptyIsFinite, Bounds DEF Init, ApiInit, AllFit
  <2>2. QED
    BY <2>1, Bounds DEF Init, ApiInit, ApiInv
<1>2. ScreenInv /\ InsideInv
  BY PagesAre DEF Init, ScreenInv, InsideInv
<1>3. ViewInv
  <2>1. DOMAIN view = {} /\ ~authenticated
    BY DEF Init
  <2>2. QED
    BY <2>1 DEF ViewInv
<1>4. QED
  BY <1>1, <1>2, <1>3 DEF TypeInv

LEMMA FormAlways == Spec => []FormInv
<1>1. Init => FormInv
  BY BlankForm DEF Init, FormInv, EditedRowIsShown
<1>2. IInv /\ FormInv /\ [Next]_vars => FormInv'
  <2>1. ASSUME FormInv, ServerStep \/ UNCHANGED vars
        PROVE  FormInv'
    BY <2>1, FormUntouched DEF ServerStep, vars, consoleVars, insideVars
  <2>2. QED
    BY <2>1, ArriveKeepsForm, UserKeepsForm DEF Next
<1>3. QED
  BY <1>1, <1>2, InitHolds, NextKeeps, PTL DEF Spec

(* Every variable keeps its type: no more requests are in flight than the   *)
(* bound allows, no token is one the server never handed out, and the hooks *)
(* mounted are those of the page shown, exactly while the console is.       *)
THEOREM ConsoleTypeOK == Spec => []TypeOK
<1>1. TypeInv /\ FormInv => TypeOK
  <2> SUFFICES ASSUME TypeInv, FormInv
               PROVE  TypeOK
    OBVIOUS
  <2>1. ApiTypeOK
    <3>1. token \in 0..MaxSessions
      BY Bounds DEF TypeInv, ApiInv
    <3>2. \A c \in DOMAIN calls : Fitting(c, issued)
      BY DEF TypeInv, ApiInv, AllFit
    <3>3. IsABag(calls) /\ Size(calls) <= MaxCalls
      BY DEF TypeInv, ApiInv, AllFit, FiniteBag
    <3>4. QED
      BY <3>1, <3>2, <3>3 DEF TypeInv, ApiInv, ApiTypeOK, BagToSet, Fitting, Op, Status
  <2>2. QED
    BY <2>1 DEF TypeOK, TypeInv, ScreenInv, ViewInv, InsideInv, HookState, FormInv
<1>2. QED
  BY <1>1, InitTypes, NextTypes, InitHolds, NextKeeps, FormAlways, PTL DEF Spec

-----------------------------------------------------------------------------
(* The tables.  A hook is loading only while a read of its own is in        *)
(* flight; what it shows otherwise was an answer, unless it was asked for   *)
(* nothing.  Both at once are inductive, given the type of the state.       *)

HooksInv == SpinnerIsHonest /\ AnEmptyTableWasAnswered

\* A read of hook h is among the requests of b.
Asks(b, h) == \E c \in DOMAIN b : IsRead(c, h)

LEMMA LiveRead ==
  ASSUME NEW c, NEW h, IsRead(c, h), h \in Hook
  PROVE  c.path # NoPath
BY NoneIsNoHook DEF IsRead, NoPath

LEMMA AskAsks ==
  ASSUME NEW n \in Nat, NEW rest, AllFit(rest, n), NEW asked, Askable(asked), NEW t \in 0..n,
         Ask(rest, asked, t)
  PROVE  /\ \A h : Asks(rest, h) => Asks(calls', h)
         /\ \A h \in DOMAIN asked : asked[h] # NoPath => Asks(calls', h)
<1>1. DOMAIN calls' = DOMAIN rest \union Asked(asked, t)
  BY AskFits
<1>2. ASSUME NEW h \in DOMAIN asked, asked[h] # NoPath
      PROVE  Asks(calls', h)
  <2>1. Call("get", asked[h], t) \in DOMAIN calls'
    BY <1>1, <1>2 DEF Asked
  <2>2. IsRead(Call("get", asked[h], t), h)
    BY <1>2 DEF IsRead, Call, Askable
  <2>3. QED
    BY <2>1, <2>2 DEF Asks
<1>3. QED
  BY <1>1, <1>2 DEF Asks

\* An answer goes to the read it is of.
LEMMA AnswerAsks ==
  ASSUME ApiInv, NEW c \in DOMAIN calls, NEW status, NEW answer, Answer(c, status, answer),
         NEW h \in Hook, Asks(calls, h)
  PROVE  Asks(calls', h)
<1> DEFINE d == [c EXCEPT !.status = status, !.answer = answer]
<1>1. /\ \A e \in DOMAIN calls : e # c => e \in DOMAIN Without(c)
      /\ d.op = c.op /\ d.path = c.path
      /\ IF Matters(d) THEN IsOneMore(calls', Without(c), d) ELSE calls' = Without(c) /\ c.path = NoPath
  BY CallsTyped, WithoutFits, AnswerMoves
<1> HIDE DEF d
<1>2. DOMAIN Without(c) \subseteq DOMAIN calls' /\ (c.path # NoPath => d \in DOMAIN calls')
  BY <1>1 DEF IsOneMore
<1>3. PICK e \in DOMAIN calls : IsRead(e, h)
  BY DEF Asks
<1>4. CASE e # c
  BY <1>1, <1>2, <1>3, <1>4 DEF Asks
<1>5. CASE e = c
  <2>1. c.path # NoPath /\ IsRead(d, h)
    BY <1>1, <1>3, <1>5, LiveRead DEF IsRead
  <2>2. QED
    BY <1>2, <2>1 DEF Asks
<1>6. QED
  BY <1>4, <1>5

LEMMA WithoutAsks ==
  ASSUME ApiInv, NEW c \in DOMAIN calls, NEW h, Asks(calls, h), ~IsRead(c, h)
  PROVE  Asks(Without(c), h)
<1>1. \A e \in DOMAIN calls : e # c => e \in DOMAIN Without(c)
  BY CallsTyped, WithoutFits
<1>2. QED
  BY <1>1 DEF Asks

LEMMA ThenReloadAsks ==
  ASSUME ApiInv, NEW c \in DOMAIN calls, c.op # "get", ThenReload(c)
  PROVE  /\ \A h : Asks(calls, h) => Asks(calls', h)
         /\ Asks(calls', c.path[1])
<1> DEFINE get == Call("get", c.path, token)
<1>1. calls' = Without(c) (+) SetToBag({get})
  BY DEF ThenReload
<1>2. IsRead(get, c.path[1])
  BY DEF IsRead, Call
<1> HIDE DEF get
<1>3. DOMAIN calls' = DOMAIN Without(c) \union {get}
  BY <1>1 DEF (+), SetToBag
<1>4. \A h : Asks(calls, h) => Asks(Without(c), h)
  BY WithoutAsks DEF IsRead
<1>5. QED
  BY <1>2, <1>3, <1>4 DEF Asks

LEMMA SendAsks ==
  ASSUME NEW x, calls' = calls (+) SetToBag({x}), NEW h, Asks(calls, h)
  PROVE  Asks(calls', h)
<1>1. DOMAIN calls' = DOMAIN calls \union {x}
  BY DEF (+), SetToBag
<1>2. QED
  BY <1>1 DEF Asks

\* The hooks stay as they are, and so do their reads.
LEMMA HooksUntouched ==
  ASSUME HooksInv, UNCHANGED <<view, selectedNode>>,
         \A h \in DOMAIN view : Asks(calls, h) => Asks(calls', h)
  PROVE  HooksInv'
BY DEF HooksInv, SpinnerIsHonest, AnEmptyTableWasAnswered, Asks, BagToSet

LEMMA NoHooks ==
  ASSUME DOMAIN view' = {}
  PROVE  HooksInv'
BY DEF HooksInv, SpinnerIsHonest, AnEmptyTableWasAnswered

\* Some hooks read again, each from its endpoint, and the drawer, when its
\* node changes, is one of them.
LEMMA HooksReload ==
  ASSUME HooksInv, ViewInv, NEW asked, view' = Reloading(view, asked),
         \A h \in DOMAIN view : Asks(calls, h) => Asks(calls', h),
         \A h \in DOMAIN asked : asked[h] # NoPath => Asks(calls', h),
         \A h \in DOMAIN asked : asked[h] = NoPath => h = "history" /\ selectedNode' = None,
         "history" \in DOMAIN asked \/ selectedNode' = selectedNode
  PROVE  HooksInv'
<1>1. DOMAIN view' = DOMAIN view
  BY DEF Reloading
<1>2. ASSUME NEW h \in DOMAIN view, h \notin DOMAIN asked
      PROVE  view'[h] = view[h]
  BY <1>2 DEF Reloading
<1>3. ASSUME NEW h \in DOMAIN view, h \in DOMAIN asked
      PROVE  view'[h].loading = (asked[h] # NoPath)
  BY <1>3 DEF Reloading, ViewInv, HookState
<1>4. SpinnerIsHonest'
  <2>1. ASSUME NEW h \in DOMAIN view, view'[h].loading
        PROVE  Asks(calls', h)
    BY <1>2, <1>3, <2>1 DEF HooksInv, SpinnerIsHonest, Asks, BagToSet
  <2>2. QED
    BY <1>1, <2>1 DEF SpinnerIsHonest, Asks, BagToSet
<1>5. AnEmptyTableWasAnswered'
  <2>1. ASSUME NEW h \in DOMAIN view, view'[h].data = Nothing, ~view'[h].loading, ~view'[h].error
        PROVE  h = "history" /\ selectedNode' = None
    <3>1. CASE h \in DOMAIN asked
      BY <1>3, <2>1, <3>1
    <3>2. CASE h \notin DOMAIN asked
      BY <1>2, <2>1, <3>2 DEF HooksInv, AnEmptyTableWasAnswered
    <3>3. QED
      BY <3>1, <3>2
  <2>2. QED
    BY <1>1, <2>1 DEF AnEmptyTableWasAnswered
<1>6. QED
  BY <1>4, <1>5 DEF HooksInv

LEMMA ServerKeepsHooks ==
  ASSUME TypeInv, HooksInv, ServerStep
  PROVE  HooksInv'
<1>1. UNCHANGED <<view, selectedNode>>
  BY DEF ServerStep, consoleVars, screenVars
<1>2. \A h \in DOMAIN view : h \in Hook
  BY PageHooks DEF TypeInv, ScreenInv, ViewInv, Hook
<1>3. ASSUME NEW h \in DOMAIN view, Asks(calls, h)
      PROVE  Asks(calls', h)
  <2>1. ASSUME NEW c \in DOMAIN calls, Serve(c) \/ Fail(c)
        PROVE  \E status, answer : Answer(c, status, answer)
    BY <2>1 DEF Serve, ServeLogin, ServeRefused, ServeAdmitted, Fail
  <2>2. CASE \E c \in DOMAIN calls : Serve(c) \/ Fail(c)
    BY <1>2, <1>3, <2>1, <2>2, AnswerAsks DEF TypeInv
  <2>3. CASE UNCHANGED calls
    BY <1>3, <2>3
  <2>4. QED
    BY <2>2, <2>3 DEF ServerStep, Change, LoseSessions, BagToSet
<1>4. QED
  BY <1>1, <1>3, HooksUntouched

LEMMA AppearHooks ==
  ASSUME NEW p \in Page, NEW n \in Row \union {None}, issued \in Nat, NEW t \in 0..issued, NEW rest,
         AllFit(rest, issued), Appear(p, n, t, rest)
  PROVE  HooksInv'
<1> DEFINE asked == [h \in HooksOf[p] \union {"history"} |-> Path(h, p, None, n)]
<1>1. HooksOf[p] \union {"history"} \subseteq Hook
  BY PageHooks DEF Hook
<1>2. Askable(asked)
  BY <1>1, PathFits DEF Askable
<1>3. /\ selectedNode' = n /\ Ask(rest, asked, t)
      /\ view' = [h \in DOMAIN asked |-> [Fresh EXCEPT !.loading = asked[h] # NoPath]]
  BY DEF Appear
<1>4. \A h \in DOMAIN asked : asked[h] = NoPath => h = "history" /\ n = None
  BY <1>1, PathFits
<1> HIDE DEF asked
<1>5. DOMAIN view' = DOMAIN asked /\ \A h \in DOMAIN asked : view'[h].loading = (asked[h] # NoPath)
  BY <1>3 DEF Fresh
<1>6. \A h \in DOMAIN asked : asked[h] # NoPath => Asks(calls', h)
  BY <1>2, <1>3, AskAsks
<1>7. SpinnerIsHonest'
  BY <1>5, <1>6 DEF SpinnerIsHonest, Asks, BagToSet
<1>8. AnEmptyTableWasAnswered'
  BY <1>3, <1>4, <1>5 DEF AnEmptyTableWasAnswered
<1>9. QED
  BY <1>7, <1>8 DEF HooksInv

LEMMA ShowHooks ==
  ASSUME TypeInv, HooksInv, NEW p \in Page, NEW rest, AllFit(rest, issued), Show(p, rest),
         \A h : Asks(calls, h) => Asks(rest, h)
  PROVE  HooksInv'
<1> DEFINE asked == [h \in HooksOf[p] |-> Path(h, p, None, selectedNode)]
<1>1. HooksOf[p] \subseteq Hook /\ "history" \notin HooksOf[p]
  BY PageHooks
<1>2. /\ Askable(asked) /\ DOMAIN asked = HooksOf[p]
      /\ \A h \in HooksOf[p] : asked[h] # NoPath
  <2>1. \A h \in HooksOf[p] : LET path == Path(h, p, None, selectedNode) IN
          path \in Endpoint /\ path # NoPath /\ path[1] = h
    BY <1>1, PathFits DEF TypeInv, ScreenInv
  <2>2. QED
    BY <1>1, <2>1 DEF Askable
<1>3. page' = p /\ UNCHANGED <<token, serverVars, authenticated, selectedNode>>
  BY DEF Show
<1>4. issued \in Nat /\ token \in 0..issued
  BY CallsTyped DEF TypeInv
<1>5. CASE calls' = rest /\ UNCHANGED view
  BY <1>3, <1>5, HooksUntouched
<1>6. CASE Ask(rest, asked, token) /\ view' = Reloading(view, asked)
  <2>1. /\ \A h : Asks(rest, h) => Asks(calls', h)
        /\ \A h \in DOMAIN asked : asked[h] # NoPath => Asks(calls', h)
    BY <1>2, <1>4, <1>6, AskAsks
  <2> HIDE DEF asked
  <2>2. QED
    BY <1>2, <1>3, <1>6, <2>1, HooksReload DEF TypeInv
<1>7. CASE /\ authenticated /\ Ask(Passed(rest, Orphan), asked, token)
           /\ view' = [h \in HooksOf[p] \union {"history"} |->
                         IF h = "history" THEN view[h] ELSE Fresh]
  <2>1. AllFit(Passed(rest, Orphan), issued)
    BY <1>4, PassedFits
  <2>2. /\ \A h : Asks(Passed(rest, Orphan), h) => Asks(calls', h)
        /\ \A h \in DOMAIN asked : asked[h] # NoPath => Asks(calls', h)
    BY <1>2, <1>4, <1>7, <2>1, AskAsks
  <2>3. Asks(rest, "history") => Asks(Passed(rest, Orphan), "history")
    BY <1>4, PassedFits DEF Asks, IsRead
  <2>4. /\ DOMAIN view' = HooksOf[p] \union {"history"}
        /\ view'["history"] = view["history"] /\ "history" \in DOMAIN view
        /\ \A h \in HooksOf[p] : view'[h] = Fresh
    BY <1>1, <1>7 DEF TypeInv, ViewInv
  <2>5. SpinnerIsHonest'
    <3>1. ASSUME NEW h \in HooksOf[p]
          PROVE  Asks(calls', h)
      BY <1>2, <2>2, <3>1
    <3>2. view["history"].loading => Asks(calls', "history")
      BY <2>2, <2>3, <2>4 DEF HooksInv, SpinnerIsHonest, Asks, BagToSet
    <3>3. QED
      BY <2>4, <3>1, <3>2 DEF SpinnerIsHonest, Asks, BagToSet
  <2>6. AnEmptyTableWasAnswered'
    <3>1. Fresh.loading
      BY DEF Fresh
    <3>2. QED
      BY <1>3, <2>4, <3>1 DEF HooksInv, AnEmptyTableWasAnswered
  <2>7. QED
    BY <2>5, <2>6 DEF HooksInv
<1>8. QED
  BY <1>5, <1>6, <1>7 DEF Show

LEMMA ReadArrivesHooks ==
  ASSUME TypeInv, HooksInv, NEW c \in DOMAIN calls, ReadArrives(c)
  PROVE  HooksInv'
<1>1. Fitting(c, issued) /\ ApiInv
  BY CallsTyped DEF TypeInv
<1> DEFINE data == [of |-> c.path[2], at |-> c.answer]
           k    == c.path[1]
<1>2. calls' = Without(c) /\ selectedNode' = selectedNode
  BY DEF ReadArrives, screenVars
<1>3. \/ view' = [view EXCEPT ![k] = Loaded(@, data)]
      \/ view' = [view EXCEPT ![k] = Failed(@)]
  BY DEF ReadArrives
<1>4. data # Nothing
  <2>1. c.answer # None
    BY <1>1, NoneIsNoHook DEF Fitting
  <2>2. data.at = c.answer /\ Nothing.at = None
    BY DEF Nothing
  <2>3. QED
    BY <2>1, <2>2
<1>5. \A h \in DOMAIN view : h # k /\ Asks(calls, h) => Asks(calls', h)
  BY <1>1, <1>2, WithoutAsks DEF IsRead
<1> HIDE DEF data, k
<1>6. DOMAIN view' = DOMAIN view /\ \A h \in DOMAIN view : h # k => view'[h] = view[h]
  BY <1>3
<1>7. k \in DOMAIN view => /\ ~view'[k].loading
                           /\ view'[k].error \/ view'[k].data # Nothing
  BY <1>3, <1>4 DEF Loaded, Failed, TypeInv, ViewInv, HookState
<1>8. SpinnerIsHonest'
  BY <1>5, <1>6, <1>7 DEF HooksInv, SpinnerIsHonest, Asks, BagToSet
<1>9. AnEmptyTableWasAnswered'
  BY <1>2, <1>6, <1>7 DEF HooksInv, AnEmptyTableWasAnswered
<1>10. QED
  BY <1>8, <1>9 DEF HooksInv

LEMMA ArriveKeepsHooks ==
  ASSUME TypeInv, HooksInv, NEW c \in DOMAIN calls, Arrive(c)
  PROVE  HooksInv'
<1>1. /\ issued \in Nat /\ Fitting(c, issued) /\ AllFit(Without(c), issued) /\ ApiInv
      /\ page \in Page /\ selectedNode \in Row \union {None}
  BY CallsTyped DEF TypeInv, ScreenInv
<1>2. ASSUME c.op # "get"
      PROVE  \A h : Asks(calls, h) => Asks(Without(c), h)
  BY <1>1, <1>2, WithoutAsks DEF IsRead
<1>3. CASE LoggedIn(c)
  <2>1. c.answer \in 0..issued
    BY <1>1, <1>3 DEF LoggedIn, Fitting
  <2>2. QED
    BY <1>1, <1>3, <2>1, AppearHooks DEF LoggedIn
<1>4. ASSUME c.op # "get", calls' = Without(c), UNCHANGED <<screenVars, view>>
      PROVE  HooksInv'
  BY <1>2, <1>4, HooksUntouched DEF screenVars
<1>5. CASE LoginFailed(c) \/ PreviewArrives(c)
  BY <1>4, <1>5 DEF LoginFailed, PreviewArrives, Login
<1>6. CASE Expired(c)
  <2>1. DOMAIN view' = {}
    <3>1. CASE authenticated
      BY <1>6, <3>1 DEF Expired
    <3>2. CASE ~authenticated
      BY <1>6, <3>2 DEF Expired, TypeInv, ViewInv
    <3>3. QED
      BY <3>1, <3>2 DEF TypeInv, ScreenInv
  <2>2. QED
    BY <2>1, NoHooks
<1>7. CASE RemoveArrives(c)
  BY <1>4, <1>7 DEF RemoveArrives, consoleVars
<1>8. CASE SpeedtestArrives(c)
  <2>1. c.op # "get" /\ "tests" \in Page
    BY <1>8, PagesAre DEF SpeedtestArrives
  <2>2. CASE Show("tests", Without(c))
    BY <1>1, <1>2, <2>1, <2>2, ShowHooks
  <2>3. CASE calls' = Without(c) /\ UNCHANGED consoleVars
    BY <1>4, <2>1, <2>3 DEF consoleVars
  <2>4. QED
    BY <1>8, <2>2, <2>3 DEF SpeedtestArrives
<1>9. CASE SaveArrives(c) \/ StartedArrives(c)
  <2>1. c.op # "get" /\ UNCHANGED screenVars
    BY <1>9, StartsAre DEF SaveArrives, StartedArrives
  <2>2. CASE ThenReload(c)
    <3>1. /\ \A h : Asks(calls, h) => Asks(calls', h)
          /\ Asks(calls', c.path[1])
      BY <1>1, <2>1, <2>2, ThenReloadAsks
    <3>2. CASE c.path = NoPath
      BY <2>1, <2>2, <3>1, <3>2, HooksUntouched DEF ThenReload, screenVars
    <3>3. CASE c.path # NoPath
      <4> DEFINE asked == Only(c.path[1], c.path)
      <4>1. DOMAIN asked = {c.path[1]} /\ asked[c.path[1]] = c.path
        BY DEF Only
      <4>2. view' = Reloading(view, asked)
        BY <2>2, <3>3 DEF ThenReload
      <4> HIDE DEF asked
      <4>3. QED
        BY <2>1, <3>1, <3>3, <4>1, <4>2, HooksReload DEF TypeInv, screenVars
    <3>4. QED
      BY <3>2, <3>3
  <2>3. CASE calls' = Without(c) /\ UNCHANGED view
    BY <1>4, <2>1, <2>3
  <2>4. QED
    BY <1>9, <2>2, <2>3 DEF SaveArrives, StartedArrives
<1>10. QED
  BY <1>3, <1>5, <1>6, <1>7, <1>8, <1>9, ReadArrivesHooks DEF Arrive

LEMMA ReloadHooks ==
  ASSUME TypeInv, HooksInv, NEW hooks, hooks \subseteq Hook, Reload(hooks), UNCHANGED selectedNode
  PROVE  HooksInv'
<1> DEFINE asked == [h \in hooks |-> PathNow(h)]
<1>1. Askable(asked)
  BY NowAskable DEF TypeInv
<1>2. Ask(calls, asked, token) /\ view' = Reloading(view, asked)
  BY DEF Reload
<1>3. \A h \in DOMAIN asked : asked[h] = NoPath => h = "history" /\ selectedNode = None
  BY NowPath DEF TypeInv
<1> HIDE DEF asked
<1>4. issued \in Nat /\ token \in 0..issued /\ AllFit(calls, issued)
  BY CallsTyped DEF TypeInv
<1>5. /\ \A h : Asks(calls, h) => Asks(calls', h)
      /\ \A h \in DOMAIN asked : asked[h] # NoPath => Asks(calls', h)
  BY <1>1, <1>2, <1>4, AskAsks
<1>6. QED
  BY <1>2, <1>3, <1>5, HooksReload DEF TypeInv

LEMMA AskOneHooks ==
  ASSUME TypeInv, HooksInv, NEW h \in Hook, NEW path \in Endpoint, path # NoPath => path[1] = h,
         Ask(calls, Only(h, path), token), view' = Reloading(view, Only(h, path)),
         path = NoPath => h = "history" /\ selectedNode' = None,
         h = "history" \/ selectedNode' = selectedNode
  PROVE  HooksInv'
<1> DEFINE asked == Only(h, path)
<1>1. Askable(asked) /\ DOMAIN asked = {h} /\ asked[h] = path
  BY DEF Askable, Only
<1>2. issued \in Nat /\ token \in 0..issued /\ AllFit(calls, issued)
  BY CallsTyped DEF TypeInv
<1> HIDE DEF asked
<1>3. /\ \A k : Asks(calls, k) => Asks(calls', k)
      /\ \A k \in DOMAIN asked : asked[k] # NoPath => Asks(calls', k)
  BY <1>1, <1>2, AskAsks DEF asked
<1>4. QED
  BY <1>1, <1>3, HooksReload DEF TypeInv, asked

LEMMA UserKeepsHooks ==
  ASSUME IInv, TypeInv, HooksInv, User \/ Poll
  PROVE  HooksInv'
<1>1. /\ issued \in Nat /\ token \in 0..issued /\ AllFit(calls, issued) /\ AllFit(EmptyBag, issued)
      /\ page \in Page /\ ScreenInv
      /\ HooksOf[page] \subseteq Hook
      /\ {"history", "logs"} \subseteq Hook
  BY CallsTyped, PageHooks, HooksAre DEF TypeInv, ScreenInv
<1>2. ASSUME NEW x, calls' = calls (+) SetToBag({x}), UNCHANGED <<view, screenVars>>
      PROVE  HooksInv'
  BY <1>2, SendAsks, HooksUntouched DEF screenVars
<1>3. CASE \E op \in Login : SubmitLogin(op)
  BY <1>2, <1>3 DEF SubmitLogin
<1>4. ASSUME NEW p \in Page, Navigate(p)
      PROVE  HooksInv'
  BY <1>1, <1>4, ShowHooks DEF Navigate
<1>5. CASE Refresh
  BY <1>1, <1>5, ReloadHooks DEF Refresh, screenVars
<1>6. CASE Poll
  <2>1. Polled[page] \subseteq Hook
    BY <1>6, HooksAre DEF Poll, Polled
  <2>2. QED
    BY <1>6, <2>1, ReloadHooks DEF Poll, screenVars
<1>7. CASE RefreshHistory
  BY <1>1, <1>7, ReloadHooks DEF RefreshHistory, screenVars
<1>8. CASE ReloadTab
  <2>1. CASE token # 0
    <3>1. "dashboard" \in Page
      BY PagesAre
    <3>2. QED
      BY <1>1, <1>8, <2>1, <3>1, AppearHooks DEF ReloadTab
  <2>2. CASE token = 0
    <3>1. DOMAIN view = {} /\ view' = view
      BY <1>8, <2>2 DEF ReloadTab, IInv, ConsoleMatchesToken, TypeInv, ViewInv
    <3>2. QED
      BY <3>1, NoHooks
  <2>3. QED
    BY <2>1, <2>2
<1>9. ASSUME UNCHANGED <<calls, view, screenVars>>
      PROVE  HooksInv'
  BY <1>9, HooksUntouched DEF screenVars
<1>10. CASE \/ \E r \in Row \union {None} : OpenForm(r)
            \/ \E d \in dialogs : CloseDialog(d)
            \/ \E i \in 0..SampleLimit : Hover(i)
            \/ MouseLeave
  BY <1>9, <1>10 DEF OpenForm, CloseDialog, Hover, MouseLeave
<1>11. CASE SubmitForm \/ Remove \/ Preview \/ Order \/ Speedtest \/ Upload
            \/ (\E op \in DOMAIN HookOf : Start(op))
  <2>1. PICK op, path : Request(op, path)
    BY <1>11 DEF SubmitForm, Remove, Preview, Order, Speedtest, Upload, Start
  <2>2. QED
    BY <1>2, <2>1 DEF Request
<1>12. ASSUME NEW f \in Filter \union {None}, SetFilter(f)
       PROVE  HooksInv'
  <2>1. <<"logs", f>> \in Endpoint /\ <<"logs", f>>[1] = "logs" /\ <<"logs", f>> # NoPath
    BY <1>1, <1>12, NoneIsNoHook DEF Endpoint, Subject, NoPath
  <2>2. QED
    BY <1>1, <1>12, <2>1, AskOneHooks DEF SetFilter, screenVars
<1>13. ASSUME NEW n \in Row \union {None}, Select(n)
       PROVE  HooksInv'
  <2>1. LET path == Path("history", page, filter, n) IN
        /\ path \in Endpoint /\ (path = NoPath <=> n = None)
        /\ path # NoPath => path[1] = "history"
    BY <1>1, PathFits DEF ScreenInv
  <2>2. QED
    BY <1>1, <1>13, <2>1, AskOneHooks DEF Select
<1>14. QED
  BY <1>3, <1>4, <1>5, <1>6, <1>7, <1>8, <1>10, <1>11, <1>12, <1>13 DEF User, OpenHistory, CloseHistory

LEMMA HooksAlways == Spec => []HooksInv
<1>1. Init => HooksInv
  <2>1. Init => DOMAIN view = {}
    BY DEF Init
  <2>2. QED
    BY <2>1 DEF HooksInv, SpinnerIsHonest, AnEmptyTableWasAnswered
<1>2. IInv /\ TypeInv /\ HooksInv /\ [Next]_vars => HooksInv'
  <2>1. ASSUME HooksInv, UNCHANGED vars
        PROVE  HooksInv'
    BY <2>1, HooksUntouched DEF vars, consoleVars, screenVars
  <2>2. QED
    BY <2>1, ServerKeepsHooks, ArriveKeepsHooks, UserKeepsHooks DEF Next, BagToSet
<1>3. QED
  BY <1>1, <1>2, InitTypes, NextTypes, InitHolds, NextKeeps, PTL DEF Spec

(* Whatever order answers come in, whichever of them fail, and whatever     *)
(* pages, filters and nodes the user goes through meanwhile: a table that   *)
(* says it is loading waits for a read of its own.                          *)
THEOREM SpinnersAreHonest == Spec => []SpinnerIsHonest
BY HooksAlways, PTL DEF HooksInv

(* A table that shows nothing, and neither a spinner nor an error, shows    *)
(* what the server answered.                                                *)
THEOREM EmptyTablesWereAnswered == Spec => []AnEmptyTableWasAnswered
BY HooksAlways, PTL DEF HooksInv
-----------------------------------------------------------------------------
(* The buttons.  What FlagsMatchCalls says is not inductive: that a button  *)
(* is blocked because of one request only, also says that such a request    *)
(* blocks its button, that it belongs to the page on the screen, and that   *)
(* nobody is logged in while a login is on its way.                         *)

Flag   == {"login", "save", "clear", "submit", "install"}
Single == Flag \ {"install"}

\* The request of a button that can be pressed once: the forms of DataPage
\* are not blocked.
Waited(flag, c) == Sent(flag, c) /\ c.path[1] # "table"

FlagOf(c) == IF c.op \in Login THEN "login" ELSE c.op

LoginsOutside(b, a) == \A c \in DOMAIN b : c.op \in Login => c.path = <<"login", None>> /\ ~a

\* An order: a request, other than a read, that the screen waits for.
IsOrder(c) == c.op \notin Login /\ c.op # "get" /\ c.path # NoPath

OrdersOfPage(b, a, p) == \A c \in DOMAIN b : IsOrder(c) => a /\ c.path[1] \in HooksOf[p]

BlockedOnce(b, bs) ==
  /\ \A flag \in Single : \A c \in DOMAIN b : Waited(flag, c) => flag \in bs /\ b[c] = 1
  /\ \A flag \in Single : \A c, d \in DOMAIN b : Waited(flag, c) /\ Waited(flag, d) => c = d

BlockedRightly(b, a, p, bs) ==
  /\ a /\ p \in DataPage => bs = {}
  /\ \A flag \in bs : \E c \in DOMAIN b : Sent(flag, c)

\* The requests b and the blocked buttons bs agree, on page p, logged in or not.
Flags(b, a, p, bs) ==
  LoginsOutside(b, a) /\ OrdersOfPage(b, a, p) /\ BlockedOnce(b, bs) /\ BlockedRightly(b, a, p, bs)

FlagInv == Flags(calls, authenticated, page, busy)

Relevant(c) == c.op \in Login \/ IsOrder(c)

\* The logins and the orders of r are those of b.
SameOrders(b, r) ==
  \A c : Relevant(c) => /\ c \in DOMAIN r <=> c \in DOMAIN b
                        /\ c \in DOMAIN b => r[c] = b[c]

LEMMA SentIsRelevant ==
  ASSUME NEW flag \in Flag, NEW c, Sent(flag, c)
  PROVE  Relevant(c) /\ flag = FlagOf(c)
BY DEF Sent, Flag, Relevant, IsOrder, FlagOf, Login

LEMMA LoginPath == <<"login", None>> # NoPath /\ <<"login", None>>[1] # "table"
BY NoneAssumption DEF NoPath

\* Who sent an order is known by it, but on DataPage.
LEMMA RelevantIsSent ==
  ASSUME NEW b, NEW a, LoginsOutside(b, a), NEW c \in DOMAIN b, Relevant(c)
  PROVE  Sent(FlagOf(c), c)
BY LoginPath DEF LoginsOutside, Relevant, IsOrder, Sent, FlagOf, Login

LEMMA SameFlags ==
  ASSUME NEW b, NEW a, NEW p, NEW bs, Flags(b, a, p, bs), bs \subseteq Flag, NEW r, SameOrders(b, r)
  PROVE  Flags(r, a, p, bs)
<1>1. LoginsOutside(r, a)
  BY DEF Flags, LoginsOutside, SameOrders, Relevant
<1>2. OrdersOfPage(r, a, p)
  BY DEF Flags, OrdersOfPage, SameOrders, Relevant
<1>3. \A flag \in Flag : \A c : Sent(flag, c) => Relevant(c)
  BY SentIsRelevant
<1>4. \A flag \in Single : \A c : Waited(flag, c) => Relevant(c)
  BY <1>3 DEF Single, Waited
<1>5. BlockedOnce(r, bs)
  BY <1>4 DEF Flags, BlockedOnce, SameOrders
<1>6. BlockedRightly(r, a, p, bs)
  BY <1>3 DEF Flags, BlockedRightly, SameOrders
<1>7. QED
  BY <1>1, <1>2, <1>5, <1>6 DEF Flags

\* Nothing is blocked and no order is on its way.
LEMMA NoFlags ==
  ASSUME NEW r, \A c \in DOMAIN r : ~Relevant(c), NEW a, NEW p
  PROVE  Flags(r, a, p, {})
<1>1. \A flag \in Single : \A c : Waited(flag, c) => Relevant(c)
  BY SentIsRelevant DEF Single, Waited
<1>2. QED
  BY <1>1 DEF Flags, LoginsOutside, OrdersOfPage, BlockedOnce, BlockedRightly, Relevant

\* Outside the console only a login is on its way.
LEMMA OutsideFlags ==
  ASSUME NEW b, NEW p, NEW bs, Flags(b, FALSE, p, bs), bs \subseteq Flag
  PROVE  bs \subseteq {"login"} /\ \A c \in DOMAIN b : Relevant(c) => c.op \in Login
<1>1. \A c \in DOMAIN b : Relevant(c) => c.op \in Login
  BY DEF Flags, OrdersOfPage, Relevant
<1>2. ASSUME NEW flag \in bs
      PROVE  flag = "login"
  <2>1. PICK c \in DOMAIN b : Sent(flag, c)
    BY DEF Flags, BlockedRightly
  <2>2. Relevant(c) /\ flag = FlagOf(c)
    BY <2>1, SentIsRelevant
  <2>3. QED
    BY <1>1, <2>2 DEF FlagOf
<1>3. QED
  BY <1>1, <1>2

\* The page changes to one with the same hooks, or is not on the screen.
LEMMA PageFlags ==
  ASSUME NEW b, NEW a \in BOOLEAN, NEW p, NEW bs, Flags(b, a, p, bs), NEW q,
         a => HooksOf[q] = HooksOf[p] /\ (q \in DataPage <=> p \in DataPage)
  PROVE  Flags(b, a, q, bs)
BY DEF Flags, OrdersOfPage, BlockedRightly

\* An order is received: its button is free again.
LEMMA ReceivedFlags ==
  ASSUME NEW b, NEW a, NEW p \in Page, NEW bs, Flags(b, a, p, bs), bs \subseteq Flag,
         NEW c \in DOMAIN b, Relevant(c), NEW r, IsOneLess(r, b, c)
  PROVE  Flags(r, a, p, bs \ {FlagOf(c)})
<1>1. /\ DOMAIN r \subseteq DOMAIN b
      /\ \A d \in DOMAIN b : d # c => d \in DOMAIN r /\ r[d] = b[d]
      /\ c \in DOMAIN r <=> b[c] > 1
  BY DEF IsOneLess
<1>2. Sent(FlagOf(c), c)
  BY RelevantIsSent DEF Flags
<1>3. LoginsOutside(r, a) /\ OrdersOfPage(r, a, p)
  BY <1>1 DEF Flags, LoginsOutside, OrdersOfPage
<1>4. ASSUME NEW flag \in Single, NEW e \in DOMAIN r, Waited(flag, e)
      PROVE  e # c /\ flag \in bs \ {FlagOf(c)} /\ r[e] = 1
  <2>1. flag \in bs /\ b[e] = 1 /\ e \in DOMAIN b
    BY <1>1, <1>4 DEF Flags, BlockedOnce
  <2>2. e # c
    BY <1>1, <2>1
  <2>3. flag # FlagOf(c)
    <3>1. CASE c.path[1] = "table"
      <4>1. c.op \notin Login
        BY <3>1, LoginPath DEF Flags, LoginsOutside
      <4>2. a /\ "table" \in HooksOf[p]
        BY <3>1, <4>1 DEF Flags, OrdersOfPage, Relevant
      <4>3. bs = {}
        BY <4>2, DataPages DEF Flags, BlockedRightly
      <4>4. QED
        BY <2>1, <4>3
    <3>2. CASE c.path[1] # "table"
      <4>1. flag = FlagOf(c) => Waited(flag, c)
        BY <1>2, <3>2 DEF Waited
      <4>2. QED
        BY <1>4, <2>1, <2>2, <4>1 DEF Flags, BlockedOnce
    <3>3. QED
      BY <3>1, <3>2
  <2>4. QED
    BY <1>1, <2>1, <2>2, <2>3
<1>5. BlockedOnce(r, bs \ {FlagOf(c)})
  BY <1>1, <1>4 DEF Flags, BlockedOnce
<1>6. BlockedRightly(r, a, p, bs \ {FlagOf(c)})
  <2>1. ASSUME NEW flag \in bs, flag # FlagOf(c)
        PROVE  \E e \in DOMAIN r : Sent(flag, e)
    <3>1. PICK e \in DOMAIN b : Sent(flag, e)
      BY DEF Flags, BlockedRightly
    <3>2. e # c
      BY <2>1, <3>1, SentIsRelevant
    <3>3. QED
      BY <1>1, <3>1, <3>2
  <2>2. QED
    BY <2>1 DEF Flags, BlockedRightly
<1>7. QED
  BY <1>3, <1>5, <1>6 DEF Flags

\* The server answers a request, and the answer takes its place.
LEMMA AnsweredFlags ==
  ASSUME NEW b, NEW a, NEW p, NEW bs, Flags(b, a, p, bs), bs \subseteq Flag,
         NEW c \in DOMAIN b, NEW l, IsOneLess(l, b, c),
         NEW d, d.op = c.op, d.path = c.path, NEW r, IsOneMore(r, l, d)
  PROVE  Flags(r, a, p, bs)
<1>1. /\ DOMAIN l \subseteq DOMAIN b
      /\ \A e \in DOMAIN b : e # c => e \in DOMAIN l /\ l[e] = b[e]
      /\ c \in DOMAIN l <=> b[c] > 1
  BY DEF IsOneLess
<1>2. /\ DOMAIN r = DOMAIN l \union {d}
      /\ \A e \in DOMAIN l : e # d => r[e] = l[e]
      /\ r[d] = IF d \in DOMAIN l THEN l[d] + 1 ELSE 1
  BY DEF IsOneMore
<1>3. LoginsOutside(r, a) /\ OrdersOfPage(r, a, p)
  BY <1>1, <1>2 DEF Flags, LoginsOutside, OrdersOfPage, IsOrder
<1>4. \A flag : (Sent(flag, d) <=> Sent(flag, c)) /\ (Waited(flag, d) <=> Waited(flag, c))
  BY DEF Waited, Sent
<1>5. ASSUME NEW flag \in Single, NEW e \in DOMAIN r, Waited(flag, e)
      PROVE  flag \in bs /\ r[e] = 1
  <2>1. CASE e = d
    <3>1. Waited(flag, c) /\ flag \in bs /\ b[c] = 1
      BY <1>4, <1>5, <2>1 DEF Flags, BlockedOnce
    <3>2. d \notin DOMAIN l
      BY <1>1, <1>4, <3>1 DEF Flags, BlockedOnce
    <3>3. QED
      BY <1>2, <2>1, <3>1, <3>2
  <2>2. CASE e # d
    <3>1. e \in DOMAIN l /\ e \in DOMAIN b /\ r[e] = l[e]
      BY <1>1, <1>2, <2>2
    <3>2. flag \in bs /\ b[e] = 1
      BY <1>5, <3>1 DEF Flags, BlockedOnce
    <3>3. e # c
      BY <1>1, <3>1, <3>2
    <3>4. QED
      BY <1>1, <3>1, <3>2, <3>3
  <2>3. QED
    BY <2>1, <2>2
<1>6. ASSUME NEW flag \in Single, NEW e \in DOMAIN r, NEW f \in DOMAIN r, Waited(flag, e), Waited(flag, f)
      PROVE  e = f
  <2>1. ASSUME NEW x \in DOMAIN r, Waited(flag, x), x # d, Waited(flag, d)
        PROVE  FALSE
    <3>1. x \in DOMAIN l /\ x \in DOMAIN b /\ Waited(flag, c)
      BY <1>1, <1>2, <1>4, <2>1
    <3>2. x = c /\ b[c] = 1
      BY <2>1, <3>1 DEF Flags, BlockedOnce
    <3>3. QED
      BY <1>1, <3>1, <3>2
  <2>2. CASE e = d \/ f = d
    BY <1>6, <2>1, <2>2
  <2>3. CASE e # d /\ f # d
    <3>1. e \in DOMAIN b /\ f \in DOMAIN b
      BY <1>1, <1>2, <2>3
    <3>2. QED
      BY <1>6, <3>1 DEF Flags, BlockedOnce
  <2>4. QED
    BY <2>2, <2>3
<1>7. BlockedOnce(r, bs)
  BY <1>5, <1>6 DEF BlockedOnce
<1>8. BlockedRightly(r, a, p, bs)
  <2>1. ASSUME NEW flag \in bs
        PROVE  \E e \in DOMAIN r : Sent(flag, e)
    <3>1. PICK e \in DOMAIN b : Sent(flag, e)
      BY DEF Flags, BlockedRightly
    <3>2. e \in DOMAIN r \/ (e = c /\ Sent(flag, d))
      BY <1>1, <1>2, <1>4, <3>1
    <3>3. QED
      BY <1>2, <3>1, <3>2
  <2>2. QED
    BY <2>1 DEF Flags, BlockedRightly
<1>9. QED
  BY <1>3, <1>7, <1>8 DEF Flags

\* A login or an order is sent, and blocks the buttons of new.
LEMMA SentFlags ==
  ASSUME NEW b, NEW a, NEW p, NEW bs, Flags(b, a, p, bs), NEW x, NEW r, IsOneMore(r, b, x), NEW new,
         x.op \in Login => x.path = <<"login", None>> /\ ~a,
         IsOrder(x) => a /\ x.path[1] \in HooksOf[p],
         \A flag \in new : Sent(flag, x),
         \A flag \in Single : Waited(flag, x) => flag \in new \ bs,
         a /\ p \in DataPage => new = {}
  PROVE  Flags(r, a, p, bs \union new)
<1>1. /\ DOMAIN r = DOMAIN b \union {x}
      /\ \A e \in DOMAIN b : e # x => r[e] = b[e]
      /\ r[x] = IF x \in DOMAIN b THEN b[x] + 1 ELSE 1
  BY DEF IsOneMore
<1>2. LoginsOutside(r, a) /\ OrdersOfPage(r, a, p)
  BY <1>1 DEF Flags, LoginsOutside, OrdersOfPage
<1>3. ASSUME NEW flag \in Single, Waited(flag, x)
      PROVE  \A e \in DOMAIN b : ~Waited(flag, e)
  BY <1>3 DEF Flags, BlockedOnce
<1>4. ASSUME NEW flag \in Single, NEW e \in DOMAIN r, Waited(flag, e)
      PROVE  flag \in bs \union new /\ r[e] = 1
  BY <1>1, <1>3, <1>4 DEF Flags, BlockedOnce
<1>5. ASSUME NEW flag \in Single, NEW e \in DOMAIN r, NEW f \in DOMAIN r, Waited(flag, e), Waited(flag, f)
      PROVE  e = f
  BY <1>1, <1>3, <1>5 DEF Flags, BlockedOnce
<1>6. BlockedOnce(r, bs \union new)
  BY <1>4, <1>5 DEF BlockedOnce
<1>7. BlockedRightly(r, a, p, bs \union new)
  BY <1>1 DEF Flags, BlockedRightly
<1>8. QED
  BY <1>2, <1>6, <1>7 DEF Flags

\* A login in flight blocks its button.
LEMMA NoneLeft ==
  ASSUME NEW b, NEW p, Flags(b, FALSE, p, {})
  PROVE  \A c \in DOMAIN b : ~Relevant(c)
<1> SUFFICES ASSUME NEW c \in DOMAIN b, Relevant(c)
             PROVE  FALSE
  OBVIOUS
<1>1. c.op \in Login
  BY DEF Flags, OrdersOfPage, Relevant
<1>2. Waited("login", c)
  BY <1>1, LoginPath DEF Flags, LoginsOutside, Waited, Sent
<1>3. "login" \in Single
  BY DEF Single, Flag
<1>4. QED
  BY <1>2, <1>3 DEF Flags, BlockedOnce

LEMMA AskSame ==
  ASSUME NEW n \in Nat, NEW rest, AllFit(rest, n), NEW asked, Askable(asked), NEW t \in 0..n,
         Ask(rest, asked, t)
  PROVE  SameOrders(rest, calls')
<1>1. /\ DOMAIN calls' = DOMAIN rest \union Asked(asked, t)
      /\ \A c \in DOMAIN rest : c \notin Asked(asked, t) => calls'[c] = rest[c]
  BY AskFits
<1>2. \A c \in Asked(asked, t) : ~Relevant(c)
  BY DEF Asked, Call, Relevant, IsOrder, Login
<1>3. QED
  BY <1>1, <1>2 DEF SameOrders

LEMMA OneMoreSame ==
  ASSUME NEW b, NEW x, ~Relevant(x), NEW r, IsOneMore(r, b, x)
  PROVE  SameOrders(b, r)
BY DEF IsOneMore, SameOrders

LEMMA OneLessSame ==
  ASSUME NEW b, NEW c \in DOMAIN b, ~Relevant(c), NEW r, IsOneLess(r, b, c)
  PROVE  SameOrders(b, r)
BY DEF IsOneLess, SameOrders

LEMMA BusyIsFlags ==
  ASSUME TypeInv
  PROVE  busy \subseteq Flag
BY StartsAre DEF TypeInv, InsideInv, Flag

\* The requests as they are, without c and c's button.
LEMMA WithoutFlags ==
  ASSUME TypeInv, FlagInv, NEW c \in DOMAIN calls
  PROVE  Flags(Without(c), authenticated, page, IF Relevant(c) THEN busy \ {FlagOf(c)} ELSE busy)
<1>1. IsOneLess(Without(c), calls, c) /\ page \in Page
  BY CallsTyped, OneLess DEF TypeInv, ScreenInv, Without, AllFit
<1>2. CASE Relevant(c)
  BY <1>1, <1>2, ReceivedFlags, BusyIsFlags DEF FlagInv
<1>3. CASE ~Relevant(c)
  BY <1>1, <1>3, OneLessSame, SameFlags, BusyIsFlags DEF FlagInv
<1>4. QED
  BY <1>2, <1>3

LEMMA ServerKeepsFlags ==
  ASSUME TypeInv, FlagInv, ServerStep
  PROVE  FlagInv'
<1>1. UNCHANGED <<authenticated, page, busy>>
  BY DEF ServerStep, consoleVars, screenVars, insideVars
<1>2. ASSUME NEW c \in DOMAIN calls, NEW status, NEW answer, Answer(c, status, answer)
      PROVE  FlagInv'
  <2> DEFINE d == [c EXCEPT !.status = status, !.answer = answer]
  <2>1. IsOneLess(Without(c), calls, c)
    BY CallsTyped, OneLess DEF TypeInv, Without, AllFit
  <2>2. /\ d.op = c.op /\ d.path = c.path
        /\ IF Matters(d) THEN IsOneMore(calls', Without(c), d) ELSE calls' = Without(c) /\ c.path = NoPath
    BY <1>2, CallsTyped, AnswerMoves DEF TypeInv
  <2> HIDE DEF d
  <2>3. CASE Matters(d)
    BY <1>1, <2>1, <2>2, <2>3, AnsweredFlags, BusyIsFlags DEF FlagInv
  <2>4. CASE ~Matters(d)
    <3>1. ~Relevant(c)
      BY <2>2, <2>4, LoginPath DEF FlagInv, Flags, LoginsOutside, Relevant, IsOrder
    <3>2. QED
      BY <1>1, <2>2, <2>4, <3>1, WithoutFlags DEF FlagInv
  <2>5. QED
    BY <2>3, <2>4
<1>3. CASE UNCHANGED calls
  BY <1>1, <1>3 DEF FlagInv
<1>4. QED
  BY <1>2, <1>3 DEF ServerStep, Serve, ServeLogin, ServeRefused, ServeAdmitted, Fail, Change, LoseSessions,
                    BagToSet

LEMMA AppearFlags ==
  ASSUME NEW p \in Page, NEW n \in Row \union {None}, issued \in Nat, NEW t \in 0..issued, NEW rest,
         AllFit(rest, issued), Appear(p, n, t, rest), \A c \in DOMAIN rest : ~Relevant(c)
  PROVE  FlagInv'
<1> DEFINE asked == [h \in HooksOf[p] \union {"history"} |-> Path(h, p, None, n)]
<1>1. HooksOf[p] \union {"history"} \subseteq Hook
  BY PageHooks DEF Hook
<1>2. Askable(asked)
  BY <1>1, PathFits DEF Askable
<1>3. Ask(rest, asked, t) /\ busy' = {}
  BY DEF Appear, Mounted
<1> HIDE DEF asked
<1>4. SameOrders(rest, calls')
  BY <1>2, <1>3, AskSame
<1>5. \A c \in DOMAIN calls' : ~Relevant(c)
  BY <1>4 DEF SameOrders
<1>6. QED
  BY <1>3, <1>5, NoFlags DEF FlagInv

\* The requests of another component are nobody's: only the drawer's are kept.
LEMMA OrphanFlags ==
  ASSUME NEW n \in Nat, NEW b, AllFit(b, n), NEW p \in Page, NEW bs, Flags(b, TRUE, p, bs)
  PROVE  /\ \A c \in DOMAIN Passed(b, Orphan) : ~Relevant(c)
         /\ \A c \in DOMAIN Passed(b, Buried) : ~Relevant(c)
<1>1. \A c \in DOMAIN b : c.op \notin Login
  BY DEF Flags, LoginsOutside
<1>2. \A c \in DOMAIN b : IsOrder(c) => c.path[1] # "history"
  BY PageHooks DEF Flags, OrdersOfPage
<1>3. QED
  BY <1>1, <1>2, PassedFits DEF Relevant, IsOrder

LEMMA ShowFlags ==
  ASSUME TypeInv, NEW p \in Page, NEW rest, AllFit(rest, issued), Flags(rest, authenticated, page, busy),
         Show(p, rest)
  PROVE  FlagInv'
<1> DEFINE asked == [h \in HooksOf[p] |-> Path(h, p, None, selectedNode)]
<1>1. HooksOf[p] \subseteq Hook /\ page \in Page
  BY PageHooks DEF TypeInv, ScreenInv
<1>2. Askable(asked)
  BY <1>1, PathFits DEF Askable, TypeInv, ScreenInv
<1>3. page' = p /\ authenticated' = authenticated /\ authenticated \in BOOLEAN
  BY DEF Show, TypeInv, ScreenInv
<1>4. issued \in Nat /\ token \in 0..issued
  BY CallsTyped DEF TypeInv
<1>5. CASE /\ p = page \/ ~authenticated
           /\ calls' = rest /\ UNCHANGED insideVars
  BY <1>3, <1>5, PageFlags DEF FlagInv, insideVars
<1>6. CASE /\ SameComponent(p, page) /\ Ask(rest, asked, token) /\ UNCHANGED insideVars
  <2>1. HooksOf[p] = HooksOf[page] /\ p \in DataPage /\ page \in DataPage
    BY <1>1, <1>6, DataPages DEF SameComponent
  <2>2. SameOrders(rest, calls')
    BY <1>2, <1>4, <1>6, AskSame
  <2> HIDE DEF asked
  <2>3. Flags(calls', authenticated, page, busy)
    BY <2>2, SameFlags, BusyIsFlags
  <2>4. QED
    BY <1>3, <1>6, <2>1, <2>3, PageFlags DEF FlagInv, insideVars
<1>7. CASE authenticated /\ Ask(Passed(rest, Orphan), asked, token) /\ Mounted(p)
  <2>1. \A c \in DOMAIN Passed(rest, Orphan) : ~Relevant(c)
    BY <1>1, <1>3, <1>4, <1>7, OrphanFlags
  <2>2. AllFit(Passed(rest, Orphan), issued)
    BY <1>4, PassedFits
  <2>3. SameOrders(Passed(rest, Orphan), calls')
    BY <1>2, <1>4, <1>7, <2>2, AskSame
  <2>4. \A c \in DOMAIN calls' : ~Relevant(c)
    BY <2>1, <2>3 DEF SameOrders
  <2>5. QED
    BY <1>7, <2>4, NoFlags DEF FlagInv, Mounted
<1>8. QED
  BY <1>5, <1>6, <1>7 DEF Show

LEMMA ExpiredFlags ==
  ASSUME TypeInv, FlagInv, NEW c \in DOMAIN calls, Expired(c)
  PROVE  FlagInv'
<1>1. Flags(Without(c), authenticated, page, IF Relevant(c) THEN busy \ {FlagOf(c)} ELSE busy)
  BY WithoutFlags
<1>2. issued \in Nat /\ AllFit(Without(c), issued) /\ page \in Page /\ authenticated \in BOOLEAN
  BY CallsTyped DEF TypeInv, ScreenInv
<1>3. authenticated' = FALSE /\ page' = page
  BY DEF Expired
<1>4. CASE authenticated
  <2>1. calls' = Passed(Without(c), Buried) /\ busy' = {}
    BY <1>4 DEF Expired
  <2>2. \A d \in DOMAIN calls' : ~Relevant(d)
    BY <1>1, <1>2, <1>4, <2>1, OrphanFlags
  <2>3. QED
    BY <2>1, <2>2, NoFlags DEF FlagInv
<1>5. CASE ~authenticated
  <2>1. /\ calls' = Without(c)
        /\ busy' = IF c.op \in Login THEN {} ELSE busy
    BY <1>5 DEF Expired
  <2>2. Flags(calls, FALSE, page, busy)
    BY <1>2, <1>5 DEF FlagInv
  <2>3. busy \subseteq {"login"} /\ (Relevant(c) => c.op \in Login)
    BY <2>2, OutsideFlags, BusyIsFlags
  <2>4. busy' = IF Relevant(c) THEN busy \ {FlagOf(c)} ELSE busy
    BY <2>1, <2>3 DEF Relevant, FlagOf
  <2>5. QED
    BY <1>1, <1>2, <1>3, <1>5, <2>1, <2>4 DEF FlagInv
<1>6. QED
  BY <1>4, <1>5

LEMMA ThenReloadSame ==
  ASSUME TypeInv, NEW c \in DOMAIN calls, ThenReload(c)
  PROVE  SameOrders(Without(c), calls')
<1> DEFINE get == Call("get", c.path, token)
<1>1. AllFit(Without(c), issued)
  BY CallsTyped DEF TypeInv
<1>2. calls' = Without(c) (+) SetToBag({get})
  BY DEF ThenReload
<1>3. ~Relevant(get)
  BY DEF Relevant, IsOrder, Call, Login
<1> HIDE DEF get
<1>4. IsOneMore(calls', Without(c), get)
  BY <1>1, <1>2, OneMore DEF AllFit
<1>5. QED
  BY <1>3, <1>4, OneMoreSame

LEMMA ArriveKeepsFlags ==
  ASSUME TypeInv, FlagInv, NEW c \in DOMAIN calls, Arrive(c)
  PROVE  FlagInv'
<1> DEFINE freed == IF Relevant(c) THEN busy \ {FlagOf(c)} ELSE busy
<1>1. Flags(Without(c), authenticated, page, freed)
  BY WithoutFlags
<1>2. /\ issued \in Nat /\ Fitting(c, issued) /\ AllFit(Without(c), issued)
      /\ page \in Page /\ selectedNode \in Row \union {None} /\ authenticated \in BOOLEAN
      /\ busy \subseteq Flag
  BY CallsTyped, BusyIsFlags DEF TypeInv, ScreenInv
<1>3. ASSUME c.op \in Login
      PROVE  ~authenticated /\ freed = {} /\ Relevant(c)
  <2>1. ~authenticated /\ Relevant(c) /\ FlagOf(c) = "login"
    BY <1>3 DEF FlagInv, Flags, LoginsOutside, Relevant, FlagOf
  <2>2. Flags(calls, FALSE, page, busy)
    BY <1>2, <2>1 DEF FlagInv
  <2>3. busy \subseteq {"login"}
    BY <1>2, <2>2, OutsideFlags
  <2>4. QED
    BY <2>1, <2>3
<1>4. CASE LoggedIn(c)
  <2>1. c.op \in Login /\ c.answer \in 0..issued
    BY <1>2, <1>4 DEF LoggedIn, Fitting, Login
  <2>2. Flags(Without(c), FALSE, page, {})
    BY <1>1, <1>2, <1>3, <2>1
  <2>3. \A d \in DOMAIN Without(c) : ~Relevant(d)
    BY <2>2, NoneLeft
  <2>4. QED
    BY <1>2, <1>4, <2>1, <2>3, AppearFlags DEF LoggedIn
<1>5. ASSUME UNCHANGED <<authenticated, page>>, busy' = freed,
             calls' = Without(c) \/ SameOrders(Without(c), calls')
      PROVE  FlagInv'
  <2>1. freed \subseteq Flag
    BY <1>2
  <2> HIDE DEF freed
  <2>2. QED
    BY <1>1, <1>5, <2>1, SameFlags DEF FlagInv
<1>6. CASE LoginFailed(c)
  BY <1>3, <1>5, <1>6 DEF LoginFailed, screenVars
<1>7. CASE ReadArrives(c)
  BY <1>5, <1>7 DEF ReadArrives, Relevant, IsOrder, Login, screenVars
<1>8. ASSUME c.op \notin Flag \union Login
      PROVE  freed = busy
  BY <1>2, <1>8 DEF FlagOf
<1>9. CASE RemoveArrives(c) \/ PreviewArrives(c)
  <2>1. c.op \notin Flag \union Login
    BY <1>9 DEF RemoveArrives, PreviewArrives, Flag, Login
  <2>2. QED
    BY <1>5, <1>8, <1>9, <2>1 DEF RemoveArrives, PreviewArrives, consoleVars, screenVars, insideVars
<1>10. CASE SpeedtestArrives(c)
  <2>1. freed = busy /\ "tests" \in Page
    BY <1>8, <1>10, PagesAre DEF SpeedtestArrives, Flag, Login
  <2>2. CASE Show("tests", Without(c))
    BY <1>1, <1>2, <2>1, <2>2, ShowFlags
  <2>3. CASE calls' = Without(c) /\ UNCHANGED consoleVars
    BY <1>5, <2>1, <2>3 DEF consoleVars, screenVars, insideVars
  <2>4. QED
    BY <1>10, <2>2, <2>3 DEF SpeedtestArrives
<1>11. CASE SaveArrives(c) \/ StartedArrives(c)
  <2>1. c.op \in {"save", "clear", "submit", "install"} /\ UNCHANGED screenVars
    BY <1>11, StartsAre DEF SaveArrives, StartedArrives
  <2>2. Relevant(c) <=> c.path # NoPath
    BY <2>1 DEF Relevant, IsOrder, Login
  <2>3. busy' = freed
    BY <1>11, <2>1, <2>2 DEF SaveArrives, StartedArrives, FlagOf, Login
  <2>4. calls' = Without(c) \/ SameOrders(Without(c), calls')
    BY <1>11, ThenReloadSame DEF SaveArrives, StartedArrives
  <2>5. QED
    BY <1>5, <2>1, <2>3, <2>4 DEF screenVars
<1>12. QED
  BY <1>4, <1>6, <1>7, <1>9, <1>10, <1>11, ExpiredFlags DEF Arrive

LEMMA ReloadFlags ==
  ASSUME TypeInv, FlagInv, NEW hooks, hooks \subseteq Hook, Reload(hooks),
         UNCHANGED <<authenticated, page, busy>>
  PROVE  FlagInv'
<1>1. Askable([h \in hooks |-> PathNow(h)])
  BY NowAskable DEF TypeInv
<1>2. issued \in Nat /\ token \in 0..issued /\ AllFit(calls, issued)
  BY CallsTyped DEF TypeInv
<1>3. SameOrders(calls, calls')
  BY <1>1, <1>2, AskSame DEF Reload
<1>4. QED
  BY <1>3, SameFlags, BusyIsFlags DEF FlagInv

LEMMA AskOneFlags ==
  ASSUME TypeInv, FlagInv, NEW h \in Hook, NEW path \in Endpoint, path # NoPath => path[1] = h,
         Ask(calls, Only(h, path), token), UNCHANGED <<authenticated, page, busy>>
  PROVE  FlagInv'
<1>1. Askable(Only(h, path))
  BY DEF Askable, Only
<1>2. issued \in Nat /\ token \in 0..issued /\ AllFit(calls, issued)
  BY CallsTyped DEF TypeInv
<1>3. SameOrders(calls, calls')
  BY <1>1, <1>2, AskSame
<1>4. QED
  BY <1>3, SameFlags, BusyIsFlags DEF FlagInv

\* A request of the page on the screen, and the button it blocks, if any.
LEMMA RequestFlags ==
  ASSUME TypeInv, FlagInv, NEW op, op \notin Login, op # "get", NEW path, Request(op, path),
         path # NoPath => authenticated /\ path[1] \in HooksOf[page],
         NEW new, new \subseteq {op} \intersect Flag, busy' = busy \union new,
         new # {} => path # NoPath,
         op \in Single /\ path # NoPath /\ path[1] # "table" => op \in new \ busy,
         authenticated /\ page \in DataPage => new = {}
  PROVE  FlagInv'
<1> DEFINE x == Call(op, path, token)
<1>1. calls' = calls (+) SetToBag({x}) /\ UNCHANGED <<authenticated, page>>
  BY DEF Request, screenVars
<1>2. x.op = op /\ x.path = path
  BY DEF Call
<1> HIDE DEF x
<1>3. IsOneMore(calls', calls, x)
  BY <1>1, CallsTyped, OneMore DEF TypeInv, AllFit
<1>4. /\ x.op \notin Login
      /\ IsOrder(x) => authenticated /\ x.path[1] \in HooksOf[page]
  BY <1>2 DEF IsOrder
<1>5. \A flag \in new : Sent(flag, x)
  BY <1>2 DEF Sent
<1>6. \A flag \in Single : Waited(flag, x) => flag \in new \ busy
  BY <1>2 DEF Waited, Sent
<1>7. Flags(calls', authenticated, page, busy \union new)
  BY <1>3, <1>4, <1>5, <1>6, SentFlags DEF FlagInv
<1>8. QED
  BY <1>1, <1>7 DEF FlagInv

LEMMA LoginFlags ==
  ASSUME TypeInv, FlagInv, NEW op \in Login, SubmitLogin(op)
  PROVE  FlagInv'
<1> DEFINE x == Call(op, <<"login", None>>, token)
<1>1. /\ calls' = calls (+) SetToBag({x}) /\ UNCHANGED <<authenticated, page>>
      /\ ~authenticated /\ "login" \notin busy /\ busy' = {"login"}
  BY DEF SubmitLogin, screenVars
<1>2. x.op = op /\ x.path = <<"login", None>>
  BY DEF Call
<1> HIDE DEF x
<1>3. IsOneMore(calls', calls, x)
  BY <1>1, CallsTyped, OneMore DEF TypeInv, AllFit
<1>4. authenticated = FALSE /\ Flags(calls, FALSE, page, busy)
  BY <1>1 DEF FlagInv, TypeInv, ScreenInv
<1>5. busy = {}
  <2>1. busy \subseteq {"login"}
    BY <1>4, OutsideFlags, BusyIsFlags
  <2>2. QED
    BY <1>1, <2>1
<1>6. Sent("login", x) /\ ~IsOrder(x)
  BY <1>2, LoginPath DEF Sent, IsOrder
<1>7. \A flag \in Single : Waited(flag, x) => flag = "login"
  BY <1>2 DEF Waited, Sent, Single, Flag, Login
<1>8. Flags(calls', FALSE, page, busy \union {"login"})
  BY <1>2, <1>3, <1>4, <1>5, <1>6, <1>7, SentFlags
<1>9. QED
  BY <1>1, <1>4, <1>5, <1>8 DEF FlagInv

LEMMA UserKeepsFlags ==
  ASSUME TypeInv, FlagInv, User \/ Poll
  PROVE  FlagInv'
<1>1. /\ issued \in Nat /\ token \in 0..issued /\ AllFit(calls, issued) /\ AllFit(EmptyBag, issued)
      /\ page \in Page /\ ScreenInv
      /\ HooksOf[page] \subseteq Hook /\ ListOf(page) \in HooksOf[page]
      /\ {"history", "logs", "jobs", "status", "links", "upstreams"} \subseteq Hook
  BY CallsTyped, PageHooks, HooksAre DEF TypeInv, ScreenInv
<1>2. CASE \E op \in Login : SubmitLogin(op)
  BY <1>2, LoginFlags
<1>3. ASSUME NEW p \in Page, Navigate(p)
      PROVE  FlagInv'
  BY <1>1, <1>3, ShowFlags DEF Navigate, FlagInv
<1>4. CASE Refresh
  BY <1>1, <1>4, ReloadFlags DEF Refresh, screenVars, insideVars
<1>5. CASE Poll
  <2>1. Polled[page] \subseteq Hook
    BY <1>5, HooksAre DEF Poll, Polled
  <2>2. QED
    BY <1>5, <2>1, ReloadFlags DEF Poll, screenVars, insideVars
<1>6. CASE RefreshHistory
  BY <1>1, <1>6, ReloadFlags DEF RefreshHistory, screenVars, insideVars
<1>7. CASE ReloadTab
  <2>1. \A c \in DOMAIN EmptyBag : ~Relevant(c)
    BY EmptyIsFinite
  <2>2. CASE token # 0
    <3>1. "dashboard" \in Page
      BY PagesAre
    <3>2. QED
      BY <1>1, <1>7, <2>1, <2>2, <3>1, AppearFlags DEF ReloadTab
  <2>3. CASE token = 0
    BY <1>7, <2>1, <2>3, NoFlags DEF ReloadTab, FlagInv
  <2>4. QED
    BY <2>2, <2>3
<1>8. ASSUME UNCHANGED <<calls, authenticated, page, busy>>
      PROVE  FlagInv'
  BY <1>8 DEF FlagInv
<1>9. CASE \/ \E r \in Row \union {None} : OpenForm(r)
           \/ \E d \in dialogs : CloseDialog(d)
           \/ \E i \in 0..SampleLimit : Hover(i)
           \/ MouseLeave
  BY <1>8, <1>9 DEF OpenForm, CloseDialog, Hover, MouseLeave, screenVars
<1>10. \A h \in HooksOf[page] : PathNow(h) # NoPath => PathNow(h)[1] = h
  BY <1>1, NowPath
<1>11. CASE SubmitForm
  <2> DEFINE new == IF page \in DataPage THEN {} ELSE {"save"}
             path == PathNow(ListOf(page))
  <2>1. authenticated /\ "save" \notin busy /\ Request("save", path) /\ busy' = busy \union new
    BY <1>11 DEF SubmitForm
  <2>2. path # NoPath => path[1] \in HooksOf[page]
    BY <1>1, <1>10
  <2>3. path # NoPath
    <3>1. ListOf(page) # "history" /\ ListOf(page) \in Hook
      BY <1>1, PageHooks
    <3>2. QED
      BY <1>1, <3>1, NowPath
  <2>4. page \in DataPage => path[1] = "table"
    BY <1>1, <2>2, <2>3, DataPages
  <2> HIDE DEF path
  <2>5. QED
    BY <2>1, <2>2, <2>3, <2>4, RequestFlags DEF Flag, Login
<1>12. ASSUME NEW op \in {"remove", "preview", "order", "speedtest"}, NEW path, Request(op, path),
              authenticated, path # NoPath => path[1] \in HooksOf[page], UNCHANGED insideVars
       PROVE  FlagInv'
  <2>1. busy' = busy \union {}
    BY <1>12 DEF insideVars
  <2>2. op \notin Login /\ op # "get" /\ op \notin Single
    BY <1>12 DEF Login, Single, Flag
  <2>3. QED
    BY <1>12, <2>1, <2>2, RequestFlags
<1>13. /\ "links" \in HooksOf["subscriptions"] /\ "upstreams" \in HooksOf["upstreams"]
       /\ "jobs" \in HooksOf["tests"] /\ "status" \in HooksOf["settings"]
       /\ {"tests", "settings"} \intersect DataPage = {}
  BY PagesAre DEF DataPage
<1>14. CASE Remove \/ Preview \/ Order \/ Speedtest
  <2>1. CASE Remove
    BY <1>1, <1>10, <1>12, <2>1 DEF Remove, AtPage
  <2>2. CASE Preview
    BY <1>1, <1>10, <1>12, <1>13, <2>2 DEF Preview, AtPage
  <2>3. CASE Order
    BY <1>12, <2>3 DEF Order, AtPage
  <2>4. CASE Speedtest
    BY <1>1, <1>10, <1>12, <1>13, <2>4 DEF Speedtest, AtPage
  <2>5. QED
    BY <1>14, <2>1, <2>2, <2>3, <2>4
<1>15. ASSUME NEW op \in DOMAIN HookOf, op \in Single => op \notin busy,
              AtPage(IF op = "install" THEN "settings" ELSE "tests"),
              Request(op, PathNow(HookOf[op])), busy' = busy \union {op}
       PROVE  FlagInv'
  <2> DEFINE path == PathNow(HookOf[op])
  <2>1. authenticated /\ page \notin DataPage /\ HookOf[op] \in HooksOf[page]
    BY <1>13, <1>15, StartsAre DEF AtPage
  <2>2. HookOf[op] # "history" /\ HookOf[op] \in Hook
    BY <1>1, <1>15, StartsAre
  <2>3. path # NoPath /\ path[1] \in HooksOf[page]
    BY <1>1, <1>10, <2>1, <2>2, NowPath
  <2>4. op \notin Login /\ op # "get" /\ op \in Flag
    BY <1>15, StartsAre DEF Login, Flag
  <2> HIDE DEF path
  <2>5. Request(op, path)
    BY <1>15 DEF path
  <2>6. QED
    BY <1>15, <2>1, <2>3, <2>4, <2>5, RequestFlags
<1>16. CASE Upload \/ (\E op \in DOMAIN HookOf : Start(op))
  <2>1. CASE Upload
    <3>1. "install" \in DOMAIN HookOf /\ "install" \notin Single /\ HookOf["install"] = "status"
      BY StartsAre DEF Single
    <3>2. QED
      BY <1>15, <2>1, <3>1 DEF Upload
  <2>2. ASSUME NEW op \in DOMAIN HookOf, Start(op)
        PROVE  FlagInv'
    BY <1>15, <2>2 DEF Start
  <2>3. QED
    BY <1>16, <2>1, <2>2
<1>17. ASSUME NEW f \in Filter \union {None}, SetFilter(f)
       PROVE  FlagInv'
  <2>1. <<"logs", f>> \in Endpoint /\ <<"logs", f>>[1] = "logs"
    BY <1>1, <1>17 DEF Endpoint, Subject
  <2>2. QED
    BY <1>1, <1>17, <2>1, AskOneFlags DEF SetFilter, screenVars
<1>18. ASSUME NEW n \in Row \union {None}, Select(n)
       PROVE  FlagInv'
  <2>1. LET path == Path("history", page, filter, n) IN
        path \in Endpoint /\ (path # NoPath => path[1] = "history")
    BY <1>1, PathFits DEF ScreenInv
  <2>2. QED
    BY <1>1, <1>18, <2>1, AskOneFlags DEF Select, insideVars
<1>19. QED
  BY <1>2, <1>3, <1>4, <1>5, <1>6, <1>7, <1>9, <1>11, <1>14, <1>16, <1>17, <1>18
     DEF User, OpenHistory, CloseHistory

LEMMA FlagsAlways == Spec => []FlagInv
<1>1. Init => FlagInv
  <2>1. \A c \in DOMAIN EmptyBag : ~Relevant(c)
    BY EmptyIsFinite
  <2>2. QED
    BY <2>1, NoFlags DEF Init, ApiInit, FlagInv
<1>2. TypeInv /\ FlagInv /\ [Next]_vars => FlagInv'
  <2>1. ASSUME FlagInv, UNCHANGED vars
        PROVE  FlagInv'
    BY <2>1 DEF FlagInv, vars, consoleVars, screenVars, insideVars
  <2>2. QED
    BY <2>1, ServerKeepsFlags, ArriveKeepsFlags, UserKeepsFlags DEF Next, BagToSet
<1>3. QED
  BY <1>1, <1>2, InitTypes, NextTypes, InitHolds, NextKeeps, PTL DEF Spec

\* At most one copy of one request blocks a button.
LEMMA OneRequest ==
  ASSUME FlagInv, NEW flag \in Single
  PROVE  Count(calls, LAMBDA c : Sent(flag, c) /\ c.path[1] # "table") <= 1
<1> DEFINE S == {k \in Copies(calls) : Waited(flag, k[1])}
<1>1. Count(calls, LAMBDA c : Sent(flag, c) /\ c.path[1] # "table") = Cardinality(S)
  BY DEF Count, Waited
<1>2. ASSUME NEW k \in S, NEW l \in S
      PROVE  k = l
  <2>1. PICK c \in DOMAIN calls : \E i \in 1..calls[c] : k = <<c, i>>
    BY CopiesAre
  <2>2. PICK d \in DOMAIN calls : \E i \in 1..calls[d] : l = <<d, i>>
    BY CopiesAre
  <2>3. Waited(flag, c) /\ Waited(flag, d)
    BY <2>1, <2>2
  <2>4. c = d /\ calls[c] = 1
    BY <2>3 DEF FlagInv, Flags, BlockedOnce
  <2>5. QED
    BY <2>1, <2>2, <2>4
<1>3. S = {} \/ \E k : S = {k}
  <2> HIDE DEF S
  <2>1. QED
    BY <1>2
<1>4. Cardinality(S) \in {0, 1}
  BY <1>3, FS_EmptySet, FS_Singleton
<1>5. QED
  BY <1>1, <1>4

(* A button is blocked only by a request it sent and that the screen waits  *)
(* for; whatever pages are left and sessions lost in between, no second one *)
(* is sent.  Only the forms of groups, reports and keys, and uploads, can   *)
(* send more.                                                               *)
THEOREM BlockedButtonsWait == Spec => []FlagsMatchCalls
<1>1. FlagInv => FlagsMatchCalls
  <2>1. {"login", "save", "clear", "submit"} = Single
    BY DEF Single, Flag
  <2>2. QED
    BY <2>1, OneRequest DEF FlagsMatchCalls, FlagInv, Flags, BlockedRightly, BagToSet
<1>2. QED
  BY <1>1, FlagsAlways, PTL

-----------------------------------------------------------------------------
(* The chart.  What ChartFollowsTotals says is inductive once the samples   *)
(* are numbers: the effect appends to both lines at once, drops the oldest  *)
(* only when a line is full, and runs in the render that shows new totals.  *)

Chart == [down : Seq(Nat), up : Seq(Nat), last : Nat \X Nat, hover : {None} \union Nat]

\* The chart of a page that shows this traffic.
Charted(ch, traffic) ==
  /\ ch \in Chart
  /\ Len(ch.up) = Len(ch.down) /\ Len(ch.down) \in 1..SampleLimit
  /\ ch.last = Number(Bytes(traffic))
  /\ ch.hover \in {None} \union 0..(Len(ch.down) - 1)

ChartInv == authenticated /\ page = "runtime" => Charted(chart, view["traffic"].data)

LEMMA SampleBound == SampleLimit \in Nat /\ SampleLimit > 0
BY ConsoleAssumption

LEMMA Pushed ==
  ASSUME NEW s \in Seq(Nat), NEW x \in Nat, Len(s) \in 1..SampleLimit
  PROVE  /\ Push(s, x) \in Seq(Nat)
         /\ Len(Push(s, x)) = IF Len(s) < SampleLimit THEN Len(s) + 1 ELSE SampleLimit
<1> DEFINE t == Append(s, x)
           first == IF Len(t) > SampleLimit THEN Len(t) - SampleLimit + 1 ELSE 1
<1>1. t \in Seq(Nat) /\ Len(t) = Len(s) + 1
  OBVIOUS
<1> HIDE DEF t
<1>2. first \in 1..Len(t)
  BY <1>1, SampleBound
<1>3. Push(s, x) = SubSeq(t, first, Len(t))
  BY DEF Push, t
<1>4. Len(t) - first + 1 = IF Len(s) < SampleLimit THEN Len(s) + 1 ELSE SampleLimit
  <2>1. ASSUME NEW n \in Nat, NEW m \in Nat, NEW l \in Nat, m = n + 1, n <= l, l > 0
        PROVE  m - (IF m > l THEN m - l + 1 ELSE 1) + 1 = IF n < l THEN n + 1 ELSE l
    <3>1. CASE n < l
      BY <2>1, <3>1
    <3>2. CASE n = l
      BY <2>1, <3>2
    <3>3. QED
      BY <2>1, <3>1, <3>2
  <2>2. /\ Len(s) \in Nat /\ Len(t) \in Nat /\ Len(s) <= SampleLimit
    BY <1>1
  <2>3. QED
    BY <1>1, <2>1, <2>2, SampleBound
<1> HIDE DEF first
<1>5. \A i \in first..Len(t) : t[i] \in Nat
  BY <1>1, <1>2
<1>6. SubSeq(t, first, Len(t)) \in Seq(Nat) /\ Len(SubSeq(t, first, Len(t))) = Len(t) - first + 1
  BY <1>1, <1>2, <1>5, SubSeqProperties
<1>7. QED
  BY <1>3, <1>4, <1>6

LEMMA NumberOfBytes ==
  ASSUME NEW data \in Data
  PROVE  Number(Bytes(data)) \in Nat \X Nat
<1>1. CASE data = Nothing
  BY <1>1 DEF Number, Bytes
<1>2. CASE data # Nothing
  <2>1. data.at \in 0..MaxChanges
    BY <1>2 DEF Data
  <2>2. Totals[data.at] \in (Nat \X Nat) \union {NoBytes}
    BY <2>1, ConsoleAssumption
  <2>3. QED
    BY <1>2, <2>2 DEF Number, Bytes
<1>3. QED
  BY <1>1, <1>2

\* The effect, when the page shows other traffic.
LEMMA SampleCharts ==
  ASSUME NEW ch, NEW old, Charted(ch, old), NEW new \in Data
  PROVE  Charted(Sample(ch, Bytes(old), Bytes(new)), new)
<1> DEFINE b == Number(Bytes(new))
<1>1. CASE Bytes(old) = Bytes(new)
  BY <1>1 DEF Sample, Charted
<1>2. CASE Bytes(old) # Bytes(new)
  <2> DEFINE down == Push(ch.down, Gain(ch.last[1], b[1]))
             up   == Push(ch.up, Gain(ch.last[2], b[2]))
  <2>1. Sample(ch, Bytes(old), Bytes(new)) = [ch EXCEPT !.down = down, !.up = up, !.last = b]
    BY <1>2 DEF Sample
  <2>2. b \in Nat \X Nat
    BY NumberOfBytes
  <2> HIDE DEF b
  <2>3. Gain(ch.last[1], b[1]) \in Nat /\ Gain(ch.last[2], b[2]) \in Nat
    BY <2>2 DEF Gain, Charted, Chart
  <2>4. /\ ch.down \in Seq(Nat) /\ ch.up \in Seq(Nat) /\ Len(ch.up) = Len(ch.down)
        /\ Len(ch.down) \in 1..SampleLimit /\ ch.hover \in {None} \union 0..(Len(ch.down) - 1)
    BY DEF Charted, Chart
  <2>5. /\ down \in Seq(Nat) /\ up \in Seq(Nat) /\ Len(up) = Len(down)
        /\ Len(down) = IF Len(ch.down) < SampleLimit THEN Len(ch.down) + 1 ELSE SampleLimit
    BY <2>3, <2>4, Pushed
  <2> HIDE DEF down, up
  <2>6. Len(down) \in 1..SampleLimit /\ Len(ch.down) <= Len(down)
    <3>1. Len(ch.down) \in 1..SampleLimit
      BY <2>4
    <3>2. QED
      BY <2>5, <3>1, SampleBound
  <2>7. ch.hover \in {None} \union 0..(Len(down) - 1)
    BY <2>4, <2>6
  <2> DEFINE next == [ch EXCEPT !.down = down, !.up = up, !.last = b]
  <2>8. /\ next \in Chart
        /\ next.down = down /\ next.up = up /\ next.last = b /\ next.hover = ch.hover
    BY <2>2, <2>5 DEF Charted, Chart
  <2> HIDE DEF next
  <2>9. Charted(next, new)
    BY <2>5, <2>6, <2>7, <2>8 DEF Charted, b
  <2>10. QED
    BY <2>1, <2>9 DEF next
<1>3. QED
  BY <1>1, <1>2

\* The sample nearest to the mouse, i of SampleLimit across, is one of n.
LEMMA Nearest ==
  ASSUME NEW i \in 0..SampleLimit, NEW n \in Nat, n > 0
  PROVE  (2 * i * (n - 1) + SampleLimit) \div (2 * SampleLimit) \in 0..(n - 1)
<1> DEFINE w == 2 * SampleLimit
           x == 2 * i * (n - 1) + SampleLimit
           q == x \div w
<1>1. SampleLimit \in Nat /\ w \in Nat /\ w > 0 /\ n - 1 \in Nat /\ i \in Nat
  BY SampleBound
<1>2. i * (n - 1) \in Nat /\ i * (n - 1) <= SampleLimit * (n - 1)
  BY <1>1
<1>3. 2 * i * (n - 1) = 2 * (i * (n - 1)) /\ w * (n - 1) = 2 * (SampleLimit * (n - 1))
  BY <1>1
<1>4. w * n = w * (n - 1) + w
  BY <1>1
<1>5. x \in Nat /\ x < w * n
  BY <1>1, <1>2, <1>3, <1>4
<1> HIDE DEF x
<1>6. q \in Int /\ w * q <= x /\ x < w * q + w
  BY <1>1, <1>5
<1> HIDE DEF q, w
<1>7. q >= 0
  <2>1. ASSUME q <= -1
        PROVE  FALSE
    <3>1. w * q <= w * (-1)
      BY <1>1, <1>6, <2>1
    <3>2. QED
      BY <1>1, <1>5, <1>6, <3>1
  <2>2. QED
    BY <1>6, <2>1
<1>8. q < n
  <2>1. ASSUME q >= n
        PROVE  FALSE
    <3>1. w * q >= w * n
      BY <1>1, <1>6, <2>1
    <3>2. w * q \in Int /\ w * n \in Int
      BY <1>1, <1>6
    <3>3. QED
      BY <1>5, <1>6, <3>1, <3>2
  <2>2. QED
    BY <1>6, <2>1
<1>9. QED
  BY <1>6, <1>7, <1>8 DEF q, w, x

LEMMA TrafficIsShown ==
  ASSUME ViewInv, authenticated, page = "runtime"
  PROVE  "traffic" \in DOMAIN view /\ "traffic" # "history"
BY PagesAre DEF ViewInv

\* Neither the chart nor the traffic on the page changes.
LEMMA ChartUntouched ==
  ASSUME ChartInv, UNCHANGED <<authenticated, page, chart>>,
         authenticated /\ page = "runtime" => view'["traffic"].data = view["traffic"].data
  PROVE  ChartInv'
BY DEF ChartInv

\* Hooks that read again keep what they show.
LEMMA ChartReloads ==
  ASSUME ViewInv, ChartInv, UNCHANGED <<authenticated, page, chart>>, NEW asked, view' = Reloading(view, asked)
  PROVE  ChartInv'
<1>1. \A h \in DOMAIN view : view'[h].data = view[h].data
  BY DEF ViewInv, HookState, Reloading
<1>2. QED
  BY <1>1, TrafficIsShown, ChartUntouched

\* The chart of a page that has just been opened.
LEMMA MountedCharts ==
  ASSUME page' = "runtime" => chart' = MountedChart /\ view'["traffic"].data = Nothing
  PROVE  ChartInv'
<1>1. MountedChart \in Chart
  <2>1. /\ <<0>> \in Seq(Nat) /\ << >> \in Seq(Nat)
        /\ <<0, 0>> \in Nat \X Nat
    OBVIOUS
  <2>2. NoChart \in Chart
    BY <2>1 DEF NoChart, Chart
  <2>3. QED
    BY <2>1, <2>2 DEF MountedChart, Chart
<1>2. Len(MountedChart.down) = 1 /\ Len(MountedChart.up) = 1
  BY DEF MountedChart, NoChart
<1>3. MountedChart.last = <<0, 0>> /\ MountedChart.hover = None
  BY DEF MountedChart, NoChart
<1>4. Number(Bytes(Nothing)) = <<0, 0>>
  BY DEF Number, Bytes
<1>5. Charted(MountedChart, Nothing)
  BY <1>1, <1>2, <1>3, <1>4, SampleBound DEF Charted
<1>6. QED
  BY <1>5 DEF ChartInv

LEMMA AppearCharts ==
  ASSUME NEW p \in Page, NEW n, NEW t, NEW rest, Appear(p, n, t, rest)
  PROVE  ChartInv'
<1> DEFINE asked == [h \in HooksOf[p] \union {"history"} |-> Path(h, p, None, n)]
<1>1. /\ page' = p
      /\ view' = [h \in DOMAIN asked |-> [Fresh EXCEPT !.loading = asked[h] # NoPath]]
      /\ chart' = IF p = "runtime" THEN MountedChart ELSE NoChart
  BY DEF Appear, Mounted
<1>2. DOMAIN asked = HooksOf[p] \union {"history"}
  OBVIOUS
<1> HIDE DEF asked
<1>3. p = "runtime" => "traffic" \in DOMAIN asked
  BY <1>2, PagesAre
<1>4. \A h \in DOMAIN asked : view'[h].data = Nothing
  BY <1>1 DEF Fresh
<1>5. QED
  BY <1>1, <1>3, <1>4, MountedCharts

LEMMA ShowCharts ==
  ASSUME ScreenInv, ViewInv, ChartInv, NEW p \in Page, NEW rest, Show(p, rest)
  PROVE  ChartInv'
<1>1. page' = p /\ authenticated' = authenticated /\ page \in Page
  BY DEF Show, ScreenInv
<1>2. CASE /\ p = page \/ ~authenticated
           /\ UNCHANGED <<view, insideVars>>
  BY <1>1, <1>2 DEF ChartInv, insideVars
<1>3. CASE SameComponent(p, page)
  BY <1>1, <1>3 DEF SameComponent, DataPage, ChartInv
<1>4. CASE /\ view' = [h \in HooksOf[p] \union {"history"} |->
                         IF h = "history" THEN view[h] ELSE Fresh]
           /\ Mounted(p)
  <2>1. p = "runtime" => view'["traffic"] = Fresh
    BY <1>4, PagesAre
  <2>2. Fresh.data = Nothing
    BY DEF Fresh
  <2>3. QED
    BY <1>1, <1>4, <2>1, <2>2, MountedCharts DEF Mounted
<1>5. QED
  BY <1>2, <1>3, <1>4 DEF Show

LEMMA ReadArrivesCharts ==
  ASSUME TypeInv, ChartInv, NEW c \in DOMAIN calls, ReadArrives(c)
  PROVE  ChartInv'
<1> DEFINE data == [of |-> c.path[2], at |-> c.answer]
           k    == c.path[1]
<1>1. Fitting(c, issued)
  BY CallsTyped DEF TypeInv
<1>2. data \in Data
  BY <1>1 DEF ReadArrives, Fitting, Read, Endpoint, Data
<1>3. UNCHANGED <<authenticated, page>>
  BY DEF ReadArrives, screenVars
<1>4. \/ /\ view' = [view EXCEPT ![k] = Loaded(@, data)]
         /\ chart' = IF k = "traffic" THEN Sample(chart, Bytes(view[k].data), Bytes(data)) ELSE chart
      \/ view' = [view EXCEPT ![k] = Failed(@)] /\ chart' = chart
  BY DEF ReadArrives
<1> HIDE DEF data, k
<1>5. SUFFICES ASSUME authenticated, page = "runtime"
               PROVE  Charted(chart', view'["traffic"].data)
  BY <1>3 DEF ChartInv
<1>6. /\ "traffic" \in DOMAIN view /\ view["traffic"] \in HookState
      /\ Charted(chart, view["traffic"].data)
  BY <1>5, TrafficIsShown DEF ChartInv, TypeInv, ViewInv
<1>7. CASE k = "traffic" /\ view' = [view EXCEPT ![k] = Loaded(@, data)]
           /\ chart' = Sample(chart, Bytes(view[k].data), Bytes(data))
  <2>1. view'["traffic"].data = data
    BY <1>6, <1>7 DEF Loaded, HookState
  <2>2. QED
    BY <1>2, <1>6, <1>7, <2>1, SampleCharts
<1>8. CASE chart' = chart /\ view'["traffic"].data = view["traffic"].data
  BY <1>6, <1>8
<1>9. view' = [view EXCEPT ![k] = Failed(@)] => view'["traffic"].data = view["traffic"].data
  BY <1>6 DEF Failed, HookState
<1>10. k # "traffic" => view'["traffic"] = view["traffic"]
  BY <1>4, <1>6
<1>11. QED
  BY <1>4, <1>7, <1>8, <1>9, <1>10

LEMMA ArriveKeepsChart ==
  ASSUME TypeInv, ChartInv, NEW c \in DOMAIN calls, Arrive(c)
  PROVE  ChartInv'
<1>1. page \in Page /\ "tests" \in Page /\ ScreenInv /\ ViewInv
  BY PagesAre DEF TypeInv, ScreenInv
<1>2. CASE LoggedIn(c)
  BY <1>1, <1>2, AppearCharts DEF LoggedIn
<1>3. CASE Expired(c)
  BY <1>3 DEF Expired, ChartInv
<1>4. ASSUME UNCHANGED <<screenVars, view, chart>>
      PROVE  ChartInv'
  BY <1>4, ChartUntouched DEF screenVars
<1>5. CASE LoginFailed(c) \/ PreviewArrives(c)
  BY <1>4, <1>5 DEF LoginFailed, PreviewArrives
<1>6. CASE RemoveArrives(c)
  BY <1>4, <1>6 DEF RemoveArrives, consoleVars, insideVars
<1>7. CASE SpeedtestArrives(c)
  BY <1>1, <1>4, <1>7, ShowCharts DEF SpeedtestArrives, consoleVars, insideVars
<1>8. CASE SaveArrives(c) \/ StartedArrives(c)
  <2>1. UNCHANGED <<screenVars, chart>> /\ (ThenReload(c) \/ UNCHANGED view)
    BY <1>8 DEF SaveArrives, StartedArrives
  <2>2. view' = view \/ \E asked : view' = Reloading(view, asked)
    BY <2>1 DEF ThenReload
  <2>3. QED
    BY <1>1, <1>4, <2>1, <2>2, ChartReloads DEF screenVars
<1>9. QED
  BY <1>2, <1>3, <1>5, <1>6, <1>7, <1>8, ReadArrivesCharts DEF Arrive

LEMMA HoverCharts ==
  ASSUME ChartInv, NEW i \in 0..SampleLimit, Hover(i)
  PROVE  ChartInv'
<1> DEFINE n  == Len(chart.down)
           at == (2 * i * (n - 1) + SampleLimit) \div (2 * SampleLimit)
<1>1. /\ authenticated /\ page = "runtime" /\ UNCHANGED <<authenticated, page, view>>
      /\ chart' = [chart EXCEPT !.hover = at]
  BY DEF Hover, AtPage, screenVars
<1>2. Charted(chart, view["traffic"].data)
  BY <1>1 DEF ChartInv
<1>3. n \in Nat /\ n > 0
  BY <1>2 DEF Charted
<1>4. at \in 0..(n - 1)
  BY <1>3, Nearest
<1> HIDE DEF at
<1>5. at \in Nat
  BY <1>3, <1>4
<1> HIDE DEF n
<1>6. chart' \in Chart /\ chart'.hover = at
      /\ chart'.down = chart.down /\ chart'.up = chart.up /\ chart'.last = chart.last
  BY <1>1, <1>2, <1>5 DEF Charted, Chart
<1>7. QED
  BY <1>1, <1>2, <1>4, <1>6 DEF Charted, ChartInv, n

LEMMA UserKeepsChart ==
  ASSUME TypeInv, ChartInv, User \/ Poll
  PROVE  ChartInv'
<1>1. page \in Page /\ "dashboard" \in Page /\ ScreenInv /\ ViewInv
  BY PagesAre DEF TypeInv, ScreenInv
<1>2. ASSUME UNCHANGED <<screenVars, view, chart>>
      PROVE  ChartInv'
  BY <1>2, ChartUntouched DEF screenVars
<1>3. CASE \/ \E op \in Login : SubmitLogin(op)
           \/ \E r \in Row \union {None} : OpenForm(r)
           \/ \E d \in dialogs : CloseDialog(d)
  BY <1>2, <1>3 DEF SubmitLogin, OpenForm, CloseDialog
<1>4. CASE SubmitForm \/ Remove \/ Preview \/ Order \/ Speedtest \/ Upload
           \/ (\E op \in DOMAIN HookOf : Start(op))
  <2>1. UNCHANGED chart /\ \E op, path : Request(op, path)
    BY <1>4 DEF SubmitForm, Remove, Preview, Order, Speedtest, Upload, Start, insideVars
  <2>2. QED
    BY <1>2, <2>1 DEF Request
<1>5. ASSUME NEW p \in Page, Navigate(p)
      PROVE  ChartInv'
  BY <1>1, <1>5, ShowCharts DEF Navigate
<1>6. CASE ReloadTab
  <2>1. CASE token # 0
    BY <1>1, <1>6, <2>1, AppearCharts DEF ReloadTab
  <2>2. CASE token = 0
    BY <1>6, <2>2 DEF ReloadTab, ChartInv
  <2>3. QED
    BY <2>1, <2>2
<1>7. ASSUME UNCHANGED <<authenticated, page, chart>>, \E asked : view' = Reloading(view, asked)
      PROVE  ChartInv'
  BY <1>1, <1>7, ChartReloads
<1>8. CASE Refresh \/ Poll \/ RefreshHistory
  <2>1. UNCHANGED <<screenVars, insideVars>> /\ \E hooks : Reload(hooks)
    BY <1>8 DEF Refresh, Poll, RefreshHistory
  <2>2. QED
    BY <1>7, <2>1 DEF Reload, screenVars, insideVars
<1>9. ASSUME NEW f \in Filter \union {None}, SetFilter(f)
      PROVE  ChartInv'
  BY <1>7, <1>9 DEF SetFilter, screenVars
<1>10. ASSUME NEW n \in Row \union {None}, Select(n)
       PROVE  ChartInv'
  BY <1>7, <1>10 DEF Select, insideVars
<1>11. CASE MouseLeave
  <2>1. /\ authenticated /\ page = "runtime" /\ UNCHANGED <<authenticated, page, view>>
        /\ chart' = [chart EXCEPT !.hover = None]
    BY <1>11 DEF MouseLeave, AtPage, screenVars
  <2>2. Charted(chart, view["traffic"].data)
    BY <2>1 DEF ChartInv
  <2>3. /\ chart' \in Chart /\ chart'.hover = None
        /\ chart'.down = chart.down /\ chart'.up = chart.up /\ chart'.last = chart.last
    BY <2>1, <2>2 DEF Charted, Chart
  <2>4. QED
    BY <2>1, <2>2, <2>3 DEF Charted, ChartInv
<1>12. QED
  BY <1>3, <1>4, <1>5, <1>6, <1>8, <1>9, <1>10, <1>11, HoverCharts DEF User, OpenHistory, CloseHistory

LEMMA ChartAlways == Spec => []ChartInv
<1>1. Init => ChartInv
  BY DEF Init, ChartInv
<1>2. TypeInv /\ ChartInv /\ [Next]_vars => ChartInv'
  <2>1. ASSUME ChartInv, ServerStep \/ UNCHANGED vars
        PROVE  ChartInv'
    BY <2>1, ChartUntouched DEF ServerStep, vars, consoleVars, screenVars, insideVars
  <2>2. QED
    BY <2>1, ArriveKeepsChart, UserKeepsChart DEF Next, BagToSet
<1>3. QED
  BY <1>1, <1>2, InitTypes, NextTypes, InitHolds, NextKeeps, PTL DEF Spec

(* The two lines of the chart keep in step and within their limit, the next *)
(* step is measured from the totals shown, and the mouse points at a sample *)
(* that exists, for every limit and whatever the totals do.                 *)
THEOREM ChartIsOfTotals == Spec => []ChartFollowsTotals
<1>1. ChartInv => ChartFollowsTotals
  BY DEF ChartInv, Charted, ChartFollowsTotals
<1>2. QED
  BY <1>1, ChartAlways, PTL
=============================================================================
