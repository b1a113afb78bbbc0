------------------------- MODULE AdminConsoleProofs -------------------------
(***************************************************************************)
(* Proofs about AdminConsole, for any rows, filters and bounds: the screen *)
(* agrees with the token, and the form with the row it edits.              *)
(***************************************************************************)
EXTENDS AdminConsole, TLAPS

\* A request in flight, which opens a session only with a token that is one.
Sound(c) ==
  /\ c = [op |-> c.op, path |-> c.path, token |-> c.token, status |-> c.status, answer |-> c.answer]
  /\ c.op = "login" /\ c.status = "ok" => c.answer # 0

AllSound(bg) == \A c \in DOMAIN bg : Sound(c)

IInv ==
  /\ issued \in Nat
  /\ authenticated \in BOOLEAN
  /\ AllSound(calls)
  /\ ConsoleMatchesToken

-----------------------------------------------------------------------------
(* Bags of sound requests.                                                  *)

LEMMA SumSound ==
  ASSUME NEW a, NEW b, AllSound(a), AllSound(b)
  PROVE  AllSound(a (+) b)
<1>1. DOMAIN (a (+) b) = DOMAIN a \union DOMAIN b
  BY DEF (+)
<1>2. QED
  BY <1>1 DEF AllSound

LEMMA WithoutSound ==
  ASSUME NEW c, AllSound(calls)
  PROVE  AllSound(Without(c))
<1>1. DOMAIN Without(c) \subseteq DOMAIN calls
  BY DEF Without, (-)
<1>2. QED
  BY <1>1 DEF AllSound

LEMMA OneSound ==
  ASSUME NEW c, Sound(c)
  PROVE  AllSound(SetToBag({c})) /\ AllSound(Kept(c))
<1>1. DOMAIN SetToBag({c}) = {c} /\ DOMAIN EmptyBag = {}
  BY DEF SetToBag, EmptyBag
<1>2. QED
  BY <1>1 DEF AllSound, Kept

LEMMA CallSound ==
  ASSUME NEW op, NEW path, NEW t
  PROVE  Sound(Call(op, path, t))
BY DEF Sound, Call

LEMMA ReadsSound ==
  ASSUME NEW asked, NEW t
  PROVE  AllSound(Reads(asked, t))
<1>1. \A c \in DOMAIN Reads(asked, t) : \E h : c = Call("get", asked[h], t)
  BY DEF Reads, SetToBag
<1>2. QED
  BY <1>1, CallSound DEF AllSound

LEMMA AskSound ==
  ASSUME NEW rest, NEW asked, NEW t, AllSound(rest), Ask(rest, asked, t)
  PROVE  AllSound(calls)'
BY ReadsSound, SumSound DEF Ask, AllSound

\* What becomes of a request whose component goes.
LEMMA BuriedSound ==
  ASSUME NEW c, Sound(c)
  PROVE  Sound(Buried(c)) /\ Sound(Orphan(c))
BY DEF Sound, Buried, Orphan

LEMMA PassedSound ==
  ASSUME NEW bg, AllSound(bg)
  PROVE  AllSound(Passed(bg, Buried)) /\ AllSound(Passed(bg, Orphan))
<1>1. \A d \in DOMAIN Passed(bg, Buried) : \E c \in DOMAIN bg : d = Buried(c)
  BY DEF Passed, BagToSet
<1>2. \A d \in DOMAIN Passed(bg, Orphan) : \E c \in DOMAIN bg : d = Orphan(c)
  BY DEF Passed, BagToSet
<1>3. QED
  BY <1>1, <1>2, BuriedSound DEF AllSound

LEMMA AnswerSound ==
  ASSUME IInv, NEW c \in BagToSet(calls), NEW status, NEW answer, Answer(c, status, answer),
         c.op = "login" /\ status = "ok" => answer # 0
  PROVE  AllSound(calls)'
<1> PICK d : d = [c EXCEPT !.status = status, !.answer = answer]
  OBVIOUS
<1>1. Sound(c)
  BY DEF IInv, AllSound, BagToSet
<1>2. Sound(d)
  <2>1. PICK o, p, t, s, a : c = [op |-> o, path |-> p, token |-> t, status |-> s, answer |-> a]
    BY <1>1 DEF Sound
  <2>2. d = [op |-> d.op, path |-> d.path, token |-> d.token, status |-> d.status, answer |-> d.answer]
    BY <2>1
  <2>3. d.op = c.op /\ d.status = status /\ d.answer = answer
    BY <2>1
  <2>4. QED
    BY <2>2, <2>3 DEF Sound
<1>3. AllSound(Without(c)) /\ AllSound(Kept(d))
  BY <1>2, WithoutSound, OneSound DEF IInv
<1>4. calls' = Without(c) (+) Kept(d)
  BY DEF Answer
<1>5. QED
  BY <1>3, <1>4, SumSound DEF AllSound

-----------------------------------------------------------------------------
(* The steps.                                                               *)

LEMMA ServerKeeps ==
  ASSUME IInv, ServerStep
  PROVE  IInv'
<1>1. UNCHANGED <<token, authenticated>>
  BY DEF ServerStep, Serve, ServeLogin, ServeRefused, ServeAdmitted, Fail, Change, LoseSessions,
     consoleVars, screenVars
<1>2. issued' \in Nat
  BY DEF IInv, ServerStep, Serve, ServeLogin, ServeRefused, ServeAdmitted, Fail, Change, LoseSessions
<1>3. AllSound(calls)'
  <2>1. ASSUME NEW c \in BagToSet(calls), ServeLogin(c)
        PROVE  AllSound(calls)'
    <3>1. \/ Answer(c, "ok", issued + 1)
          \/ c.op = "guess" /\ Answer(c, "refused", 0)
      BY <2>1 DEF ServeLogin
    <3>2. QED
      BY <3>1, AnswerSound DEF IInv
  <2>2. ASSUME NEW c \in BagToSet(calls), ServeRefused(c) \/ Fail(c)
        PROVE  AllSound(calls)'
    BY <2>2, AnswerSound DEF ServeRefused, Fail
  <2>3. ASSUME NEW c \in BagToSet(calls), ServeAdmitted(c)
        PROVE  AllSound(calls)'
    BY <2>3, AnswerSound DEF ServeAdmitted, Login
  <2>4. CASE UNCHANGED calls
    BY <2>4 DEF IInv, AllSound
  <2>5. QED
    BY <2>1, <2>2, <2>3, <2>4 DEF ServerStep, Serve, Change, LoseSessions
<1>4. QED
  BY <1>1, <1>2, <1>3 DEF IInv, ConsoleMatchesToken

\* The console appears, with whatever is in flight of what was.
LEMMA AppearSound ==
  ASSUME NEW p, NEW n, NEW t, NEW rest, AllSound(rest), Appear(p, n, t, rest)
  PROVE  AllSound(calls)'
BY AskSound DEF Appear

LEMMA ShowKeeps ==
  ASSUME IInv, NEW p, NEW rest, AllSound(rest), Show(p, rest)
  PROVE  IInv'
<1>1. UNCHANGED <<token, issued, authenticated>>
  BY DEF Show, serverVars
<1>2. AllSound(calls)'
  BY PassedSound, AskSound DEF Show, AllSound
<1>3. QED
  BY <1>1, <1>2 DEF IInv, ConsoleMatchesToken

LEMMA RequestSound ==
  ASSUME IInv, NEW op, NEW path, calls' = calls (+) SetToBag({Call(op, path, token)})
  PROVE  AllSound(calls)'
BY CallSound, OneSound, SumSound DEF IInv, AllSound

\* A step that only sends reads, or requests of the user's.
LEMMA QuietKeeps ==
  ASSUME IInv, UNCHANGED <<token, issued, authenticated>>, AllSound(calls)'
  PROVE  IInv'
BY DEF IInv, ConsoleMatchesToken

LEMMA ArriveKeeps ==
  ASSUME IInv, NEW c \in BagToSet(calls), Arrive(c)
  PROVE  IInv'
<1>1. Sound(c) /\ AllSound(Without(c))
  BY WithoutSound DEF IInv, AllSound, BagToSet
<1>2. CASE LoggedIn(c)
  <2>1. c.op = "login" /\ c.status = "ok" /\ token' = c.answer /\ authenticated' = TRUE /\ issued' = issued
    BY <1>2 DEF LoggedIn, serverVars
  <2>2. AllSound(calls)'
    BY <1>1, <1>2, AppearSound DEF LoggedIn
  <2>3. c.answer # 0
    BY <1>1, <2>1 DEF Sound
  <2>4. QED
    BY <2>1, <2>2, <2>3 DEF IInv, ConsoleMatchesToken
<1>3. CASE Expired(c)
  <2>1. token' = 0 /\ authenticated' = FALSE /\ issued' = issued
    BY <1>3 DEF Expired, TokenLeft, serverVars
  <2>2. AllSound(calls)'
    BY <1>1, <1>3, PassedSound DEF Expired, AllSound
  <2>3. QED
    BY <2>1, <2>2 DEF IInv, ConsoleMatchesToken
<1>4. CASE SpeedtestArrives(c)
  <2>1. CASE Show("tests", Without(c))
    BY <1>1, <2>1, ShowKeeps
  <2>2. CASE calls' = Without(c) /\ UNCHANGED <<token, serverVars, consoleVars>>
    BY <1>1, <2>2, QuietKeeps DEF AllSound, serverVars, consoleVars, screenVars
  <2>3. QED
    BY <1>4, <2>1, <2>2 DEF SpeedtestArrives
<1>5. ASSUME ThenReload(c)
      PROVE  AllSound(calls)'
  BY <1>1, <1>5, CallSound, OneSound, SumSound DEF ThenReload, AllSound
<1>6. ASSUME calls' = Without(c)
      PROVE  AllSound(calls)'
  BY <1>1, <1>6 DEF AllSound
<1>7. CASE LoginFailed(c) \/ ReadArrives(c) \/ SaveArrives(c) \/ RemoveArrives(c)
             \/ PreviewArrives(c) \/ StartedArrives(c)
  <2>1. UNCHANGED <<token, issued, authenticated>>
    BY <1>7 DEF LoginFailed, ReadArrives, SaveArrives, RemoveArrives, PreviewArrives,
       StartedArrives, serverVars, screenVars, consoleVars
  <2>2. ThenReload(c) \/ calls' = Without(c)
    BY <1>7 DEF LoginFailed, ReadArrives, SaveArrives, RemoveArrives, PreviewArrives, StartedArrives
  <2>3. QED
    BY <1>5, <1>6, <2>1, <2>2, QuietKeeps
<1>8. QED
  BY <1>2, <1>3, <1>4, <1>7 DEF Arrive

LEMMA ReloadTabKeeps ==
  ASSUME IInv, ReloadTab
  PROVE  IInv'
<1>1. UNCHANGED <<token, issued>> /\ authenticated' = (token # 0)
  BY DEF ReloadTab, serverVars
<1>2. AllSound(EmptyBag)
  BY DEF AllSound, EmptyBag, SetToBag
<1>3. AllSound(calls)'
  BY <1>2, AppearSound DEF ReloadTab, AllSound
<1>4. QED
  BY <1>1, <1>3 DEF IInv, ConsoleMatchesToken

\* Reading again: what a hook asks for.
LEMMA ReloadSound ==
  ASSUME IInv, NEW hooks, Reload(hooks)
  PROVE  AllSound(calls)'
BY AskSound DEF IInv, Reload

LEMMA UserKeeps ==
  ASSUME IInv, User \/ Poll
  PROVE  IInv'
<1> DEFINE quiet == UNCHANGED <<token, issued, authenticated>>
<1>1. ASSUME NEW op, SubmitLogin(op)
      PROVE  IInv'
  <2>1. quiet /\ calls' = calls (+) SetToBag({Call(op, <<"login", None>>, token)})
    BY <1>1 DEF SubmitLogin, serverVars, screenVars
  <2>2. QED
    BY <2>1, RequestSound, QuietKeeps
<1>2. ASSUME NEW p, Navigate(p)
      PROVE  IInv'
  BY <1>2, ShowKeeps DEF Navigate, IInv
<1>3. ASSUME Refresh \/ Poll \/ RefreshHistory
      PROVE  IInv'
  <2>1. quiet /\ \E hooks : Reload(hooks)
    BY <1>3 DEF Refresh, Poll, RefreshHistory, serverVars, screenVars
  <2>2. QED
    BY <2>1, ReloadSound, QuietKeeps
<1>4. ASSUME NEW op, NEW path, Request(op, path)
      PROVE  IInv'
  <2>1. quiet /\ calls' = calls (+) SetToBag({Call(op, path, token)})
    BY <1>4 DEF Request, serverVars, screenVars
  <2>2. QED
    BY <2>1, RequestSound, QuietKeeps
<1>5. CASE SubmitForm \/ Remove \/ Preview \/ Order \/ Speedtest \/ Upload
             \/ (\E op \in DOMAIN HookOf : Start(op))
  BY <1>4, <1>5 DEF SubmitForm, Remove, Preview, Order, Speedtest, Upload, Start
<1>6. ASSUME NEW f, SetFilter(f)
      PROVE  IInv'
  <2>1. quiet /\ \E asked : Ask(calls, asked, token)
    BY <1>6 DEF SetFilter, serverVars, screenVars
  <2>2. QED
    BY <2>1, AskSound, QuietKeeps DEF IInv
<1>7. ASSUME NEW n, Select(n)
      PROVE  IInv'
  <2>1. quiet /\ \E asked : Ask(calls, asked, token)
    BY <1>7 DEF Select, serverVars
  <2>2. QED
    BY <2>1, AskSound, QuietKeeps DEF IInv
<1>8. CASE (\E n \in Row : OpenHistory(n)) \/ CloseHistory
  BY <1>7, <1>8 DEF OpenHistory, CloseHistory
<1>9. ASSUME UNCHANGED <<token, serverVars, calls, screenVars>>
      PROVE  IInv'
  BY <1>9, QuietKeeps DEF IInv, AllSound, serverVars, screenVars
<1>10. CASE \/ \E r \in Row \union {None} : OpenForm(r)
            \/ \E d \in dialogs : CloseDialog(d)
            \/ \E i \in 0..SampleLimit : Hover(i)
            \/ MouseLeave
  BY <1>9, <1>10 DEF OpenForm, CloseDialog, Hover, MouseLeave
<1>11. QED
  BY <1>1, <1>2, <1>3, <1>5, <1>6, <1>8, <1>10, ReloadTabKeeps DEF User

LEMMA NextKeeps == IInv /\ [Next]_vars => IInv'
<1>1. ASSUME IInv, UNCHANGED vars
      PROVE  IInv'
  BY <1>1, QuietKeeps DEF IInv, AllSound, vars, serverVars, consoleVars, screenVars
<1>2. QED
  BY <1>1, ServerKeeps, ArriveKeeps, UserKeeps DEF Next

LEMMA InitHolds == Init => IInv
<1>1. AllSound(EmptyBag)
  BY DEF AllSound, EmptyBag, SetToBag
<1>2. Init => issued = 0 /\ token = 0 /\ ~authenticated /\ authenticated \in BOOLEAN
               /\ calls = EmptyBag
  BY DEF Init, ApiInit
<1>3. Init => issued \in Nat /\ (authenticated <=> token # 0)
  BY <1>2
<1>4. QED
  BY <1>1, <1>2, <1>3 DEF IInv, ConsoleMatchesToken, AllSound

(* Whatever sessions end, answers overtake each other and tabs are loaded   *)
(* again, the console is shown exactly while the browser holds a token.     *)
THEOREM ConsoleAgreesWithToken == Spec => []ConsoleMatchesToken
<1>1. IInv => ConsoleMatchesToken
  BY DEF IInv
<1>2. QED
  BY <1>1, InitHolds, NextKeeps, PTL DEF Spec

-----------------------------------------------------------------------------
(* The form.  Only the pages with rows to edit have one being edited, and   *)
(* the fields follow it while its dialog is open.                           *)

FormInv ==
  /\ form \in [editing : Row \union {None}, shown : Row \union {None}]
  /\ form.editing # None => authenticated /\ page \in {"upstreams", "nodes"}
  /\ EditedRowIsShown

LEMMA BlankForm ==
  /\ Blank \in [editing : Row \union {None}, shown : Row \union {None}]
  /\ Blank.editing = None
BY DEF Blank

LEMMA FormUntouched ==
  ASSUME FormInv, UNCHANGED <<form, screenVars>>, "form" \in dialogs' => "form" \in dialogs
  PROVE  FormInv'
BY DEF FormInv, EditedRowIsShown, screenVars

LEMMA FormMounted ==
  ASSUME NEW p, Mounted(p)
  PROVE  FormInv'
BY BlankForm DEF Mounted, FormInv, EditedRowIsShown

\* A form nobody edits a row with may be left as it is.
LEMMA FormIdle ==
  ASSUME FormInv, form.editing = None, UNCHANGED <<form, dialogs>>
  PROVE  FormInv'
BY DEF FormInv, EditedRowIsShown

LEMMA ShowKeepsForm ==
  ASSUME FormInv, NEW p, NEW rest, Show(p, rest)
  PROVE  FormInv'
<1>1. page' = p /\ UNCHANGED <<authenticated, selectedNode>>
  BY DEF Show
<1>2. CASE p = page /\ UNCHANGED insideVars
  BY <1>1, <1>2, FormUntouched DEF insideVars, screenVars
<1>3. CASE (~authenticated \/ SameComponent(p, page)) /\ UNCHANGED insideVars
  <2>1. form.editing = None
    BY <1>3 DEF FormInv, SameComponent, DataPage
  <2>2. QED
    BY <1>3, <2>1, FormIdle DEF insideVars
<1>4. CASE Mounted(p)
  BY <1>4, FormMounted
<1>5. QED
  BY <1>2, <1>3, <1>4 DEF Show

LEMMA SaveKeepsForm ==
  ASSUME FormInv, NEW c, SaveArrives(c)
  PROVE  FormInv'
<1>1. UNCHANGED screenVars
  BY DEF SaveArrives
<1>2. CASE UNCHANGED <<dialogs, form>>
  BY <1>1, <1>2, FormUntouched
<1>3. CASE /\ dialogs' = IF c.path = NoPath THEN dialogs ELSE AfterSave(c.path[1])
           /\ form' = IF c.path # NoPath /\ c.path[1] = "nodes" THEN [form EXCEPT !.shown = None] ELSE form
  <2>1. CASE form' = form
    <3>1. "form" \in dialogs' => "form" \in dialogs
      BY <1>3 DEF AfterSave
    <3>2. QED
      BY <1>1, <2>1, <3>1, FormUntouched
  <2>2. CASE c.path # NoPath /\ form' = [form EXCEPT !.shown = None]
    <3>1. "form" \notin dialogs'
      BY <1>3, <2>2 DEF AfterSave
    <3>2. form' \in [editing : Row \union {None}, shown : Row \union {None}]
            /\ form'.editing = form.editing
      BY <2>2 DEF FormInv
    <3>3. QED
      BY <1>1, <3>1, <3>2 DEF FormInv, EditedRowIsShown, screenVars
  <2>3. QED
    BY <1>3, <2>1, <2>2
<1>4. QED
  BY <1>2, <1>3 DEF SaveArrives

LEMMA ArriveKeepsForm ==
  ASSUME FormInv, NEW c, Arrive(c)
  PROVE  FormInv'
<1>1. CASE LoggedIn(c)
  BY <1>1, FormMounted DEF LoggedIn, Appear
<1>2. CASE Expired(c)
  <2>1. authenticated' = FALSE
    BY <1>2 DEF Expired
  <2>2. CASE dialogs' = {} /\ form' = Blank
    BY <2>2, BlankForm DEF FormInv, EditedRowIsShown
  <2>3. CASE ~authenticated /\ UNCHANGED <<dialogs, form>>
    BY <2>3, FormIdle DEF FormInv
  <2>4. QED
    BY <1>2, <2>2, <2>3 DEF Expired
<1>3. CASE SpeedtestArrives(c)
  BY <1>3, ShowKeepsForm, FormUntouched DEF SpeedtestArrives, consoleVars, insideVars
<1>4. CASE PreviewArrives(c)
  <2>1. UNCHANGED <<form, screenVars>> /\ ("form" \in dialogs' => "form" \in dialogs)
    BY <1>4 DEF PreviewArrives
  <2>2. QED
    BY <2>1, FormUntouched
<1>5. CASE LoginFailed(c) \/ ReadArrives(c) \/ RemoveArrives(c) \/ StartedArrives(c)
  BY <1>5, FormUntouched DEF LoginFailed, ReadArrives, RemoveArrives, StartedArrives,
     consoleVars, insideVars
<1>6. QED
  BY <1>1, <1>2, <1>3, <1>4, <1>5, SaveKeepsForm DEF Arrive

LEMMA OpenFormKeepsForm ==
  ASSUME FormInv, NEW r \in Row \union {None}, OpenForm(r)
  PROVE  FormInv'
<1>1. UNCHANGED screenVars /\ authenticated
  BY DEF OpenForm, AtPage
<1>2. CASE page \notin {"upstreams", "nodes"} /\ form' = form
  BY <1>1, <1>2 DEF FormInv, EditedRowIsShown, screenVars
<1>3. CASE form' = [form EXCEPT !.editing = None]
  BY <1>3 DEF FormInv, EditedRowIsShown
<1>4. CASE page \in {"upstreams", "nodes"} /\ form' = [editing |-> r, shown |-> r]
  BY <1>1, <1>4 DEF FormInv, EditedRowIsShown, screenVars
<1>5. QED
  BY <1>2, <1>3, <1>4 DEF OpenForm, FormFor

LEMMA UserKeepsForm ==
  ASSUME IInv, FormInv, User \/ Poll
  PROVE  FormInv'
<1>1. CASE \E p \in Page : Navigate(p)
  BY <1>1, ShowKeepsForm DEF Navigate
<1>2. CASE ReloadTab
  <2>1. CASE token = 0
    <3>1. UNCHANGED <<form, dialogs>> /\ form.editing = None
      BY <1>2, <2>1 DEF ReloadTab, IInv, ConsoleMatchesToken, FormInv
    <3>2. QED
      BY <3>1, FormIdle
  <2>2. CASE token # 0
    BY <1>2, <2>2, FormMounted DEF ReloadTab, Appear
  <2>3. QED
    BY <2>1, <2>2
<1>3. CASE \E d \in dialogs : CloseDialog(d)
  <2>1. UNCHANGED <<form, screenVars>> /\ ("form" \in dialogs' => "form" \in dialogs)
    BY <1>3 DEF CloseDialog
  <2>2. QED
    BY <2>1, FormUntouched
<1>4. CASE \/ \E op \in Login : SubmitLogin(op)
           \/ Refresh \/ Poll \/ SubmitForm \/ Remove \/ Preview \/ Order \/ Speedtest \/ Upload
           \/ \E op \in DOMAIN HookOf : Start(op)
           \/ \E f \in Filter \union {None} : SetFilter(f)
           \/ \E i \in 0..SampleLimit : Hover(i)
           \/ MouseLeave \/ RefreshHistory
  <2>1. UNCHANGED <<form, dialogs, screenVars>>
    BY <1>4 DEF SubmitLogin, Refresh, Poll, SubmitForm, Remove, Preview, Order, Speedtest,
       Upload, Start, SetFilter, Hover, MouseLeave, RefreshHistory, Request, insideVars
  <2>2. QED
    BY <2>1, FormUntouched
<1>5. ASSUME NEW n, Select(n)
      PROVE  FormInv'
  BY <1>5 DEF Select, insideVars, FormInv, EditedRowIsShown
<1>6. QED
  BY <1>1, <1>2, <1>3, <1>4, <1>5, OpenFormKeepsForm DEF User, OpenHistory, CloseHistory

(* A form open to edit a row shows that row, whatever answers come late.    *)
THEOREM EditedRowShown == Spec => []EditedRowIsShown
<1>1. Init => FormInv
  BY BlankForm DEF Init, FormInv, EditedRowIsShown
<1>2. IInv /\ FormInv /\ [Next]_vars => FormInv'
  <2>1. ASSUME FormInv, ServerStep \/ UNCHANGED vars
        PROVE  FormInv'
    BY <2>1, FormUntouched DEF ServerStep, vars, consoleVars, insideVars
  <2>2. QED
    BY <2>1, ArriveKeepsForm, UserKeepsForm DEF Next
<1>3. FormInv => EditedRowIsShown
  BY DEF FormInv
<1>4. QED
  BY <1>1, <1>2, <1>3, InitHolds, NextKeeps, PTL DEF Spec
=============================================================================
