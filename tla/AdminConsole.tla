---------------------------- MODULE AdminConsole ----------------------------
(***************************************************************************)
(* The administration page, web/admin/src/main.tsx: one browser tab, its   *)
(* user, and the requests of module AdminApi between it and the server.    *)
(*                                                                         *)
(* A page is a component with one useApi hook for each endpoint it shows.  *)
(* Opening a page mounts it: its hooks read.  Leaving it unmounts it: the  *)
(* answers still to come change nothing on the screen.  A handler that     *)
(* awaits a request is two actions, the click and the arrival.             *)
(***************************************************************************)
EXTENDS AdminApi, Sequences

CONSTANTS
  Row,           \* rows of a table: nodes, upstreams, links
  Filter,        \* what the log page can be narrowed to; None is everything
  NoBytes,       \* totals of an answer that has none
  Totals,        \* the proxy's <<download, upload>> bytes in each version
  SampleLimit,   \* 30 in the code: samples the chart keeps
  Visited,       \* bound: the pages the user goes to from the menu
  MaxOrphans,    \* bound: requests left behind when going to another page
  MaxReads,      \* bound: reads of one endpoint in flight before another is asked for
  MaxOrders      \* bound: requests other than reads that the user has in flight

ASSUME ConsoleAssumption ==
  /\ {SampleLimit, MaxReads, MaxOrders} \subseteq Nat \ {0} /\ MaxOrphans \in Nat
  /\ None \notin Row \union Filter
  /\ Totals \in [0..MaxChanges -> (Nat \X Nat) \union {NoBytes}]

VARIABLES
  authenticated,  \* App: the console is shown, not the login form
  page,           \* App: the page chosen, kept through a login
  selectedNode,   \* App: the node whose history is open, or None
  view,           \* the hooks mounted, each with its data, loading and error
  dialogs,        \* the dialogs open
  form,           \* the row being edited, and the row whose fields are in the form
  busy,           \* the buttons that show a request of theirs is running
  filter,         \* Logs: what its endpoint asks for
  chart           \* Runtime: samples, last totals, sample under the mouse

screenVars  == <<authenticated, page, selectedNode>>
insideVars  == <<dialogs, form, busy, filter, chart>>
consoleVars == <<screenVars, view, insideVars>>
vars        == <<token, serverVars, calls, consoleVars>>

HooksOf ==
  [dashboard |-> {"summary", "core"}, upstreams |-> {"upstreams"}, nodes |-> {"nodes"},
   subscriptions |-> {"links"}, tests |-> {"jobs", "active", "policy"},
   runtime |-> {"traffic", "runtime"}, logs |-> {"logs"}, settings |-> {"status"},
   groups |-> {"table"}, reports |-> {"table"}, keys |-> {"table"}]

Page      == DOMAIN HooksOf
Hook      == {"history"} \union UNION {HooksOf[p] : p \in Page}
DataPage  == {"groups", "reports", "keys"}    \* one component, told what to show
FormPage  == {"upstreams", "nodes", "subscriptions", "groups", "keys"}
Polled    == [tests |-> {"jobs"}, runtime |-> {"traffic", "runtime"}, logs |-> {"logs"}]
ListOf(p) == CHOOSE h \in HooksOf[p] : TRUE   \* of a page with one hook

ASSUME NoneAssumption == None \notin Hook \union {"login"} \union Nat

Nothing == [of |-> None, at |-> None]         \* the fallback of useApi
Fresh   == [data |-> Nothing, loading |-> TRUE, error |-> FALSE]
Blank   == [editing |-> None, shown |-> None]
NoChart == [down |-> <<>>, up |-> <<>>, last |-> <<0, 0>>, hover |-> None]

\* What useApi is given to ask for: null for the history of no node.
Path(h, p, f, n) ==
  CASE h = "table"   -> <<h, p>>
    [] h = "logs"    -> <<h, f>>
    [] h = "history" -> IF n = None THEN NoPath ELSE <<h, n>>
    [] OTHER         -> <<h, None>>

PathNow(h) == Path(h, page, filter, selectedNode)

-----------------------------------------------------------------------------
(* useApi.                                                                  *)

\* One hook is to ask for this.
Only(h, path) == [k \in {h} |-> path]

\* A reload that does not say it is loading.
ReloadingQuietly(v, asked) ==
  [h \in DOMAIN v |-> IF h \in DOMAIN asked THEN [v[h] EXCEPT !.error = FALSE] ELSE v[h]]

\* reload on the hooks of v that have a path in asked.
Reloading(v, asked) ==
  [h \in DOMAIN v |->
     IF h \in DOMAIN asked
     THEN [v[h] EXCEPT !.error = FALSE, !.loading = asked[h] # NoPath]
     ELSE v[h]]

\* then(setData), catch(setError) and finally, on one hook.
Loaded(hook, data) == [hook EXCEPT !.data = data, !.loading = FALSE]

FailedUnfinished(hook) == [hook EXCEPT !.error = TRUE]

Failed(hook) == [hook EXCEPT !.error = TRUE, !.loading = FALSE]

Reads(asked, t) ==
  SetToBag({Call("get", asked[h], t) : h \in {k \in DOMAIN asked : asked[k] # NoPath}})

\* The requests in flight are those of rest and the reads of asked.
Ask(rest, asked, t) ==
  /\ calls' = rest (+) Reads(asked, t)
  /\ Size(calls') <= MaxCalls

Reload(hooks) ==
  LET asked == [h \in hooks |-> PathNow(h)] IN
  /\ Ask(calls, asked, token)
  /\ view' = Reloading(view, asked)

Count(bg, P(_)) == Cardinality({k \in Copies(bg) : P(k[1])})

IsRead(c, h) == c.op = "get" /\ c.path[1] = h
CanRead(h)   == Count(calls, LAMBDA c : IsRead(c, h)) < MaxReads

\* The calls of bg when the components they belong to are gone: a page's,
\* or everything.  The drawer does not belong to a page.
Buried(c) == [c EXCEPT !.path = NoPath]
Orphan(c) == IF c.path[1] = "history" THEN c ELSE Buried(c)

Passed(bg, F(_)) ==
  [d \in {F(c) : c \in {c \in BagToSet(bg) : Matters(F(c))}} |->
     Count(bg, LAMBDA c : F(c) = d)]

-----------------------------------------------------------------------------
(* The chart of the page Runtime, and its effect on the totals it is shown. *)

Bytes(data)  == IF data = Nothing THEN NoBytes ELSE Totals[data.at]
Number(b)    == IF b = NoBytes THEN <<0, 0>> ELSE b
Push(s, x)   == LET t == Append(s, x) IN
                SubSeq(t, IF Len(t) > SampleLimit THEN Len(t) - SampleLimit + 1 ELSE 1, Len(t))
Gain(x, y)   == IF y > x THEN y - x ELSE 0

\* An effect that depends on the download alone.
SampleDownload(ch, before, after) ==
  LET b == Number(after) IN
  IF Number(before)[1] = b[1] THEN ch
  ELSE [ch EXCEPT !.down = Push(@, Gain(ch.last[1], b[1])),
                  !.up   = Push(@, Gain(ch.last[2], b[2])),
                  !.last = b]

Sample(ch, before, after) ==
  LET b == Number(after) IN
  IF before = after THEN ch
  ELSE [ch EXCEPT !.down = Push(@, Gain(ch.last[1], b[1])),
                  !.up   = Push(@, Gain(ch.last[2], b[2])),
                  !.last = b]

\* The effect's first run finds no totals.
MountedChart == [NoChart EXCEPT !.down = <<0>>, !.up = <<0>>]

-----------------------------------------------------------------------------
(* App: mounting, leaving, logging in, being logged out.                    *)

Mounted(p) ==
  /\ dialogs' = {} /\ form' = Blank /\ busy' = {} /\ filter' = None
  /\ chart' = IF p = "runtime" THEN MountedChart ELSE NoChart

SameComponentAlways(p, q) == TRUE

\* React keeps the component between two pages that are made of the same.
SameComponent(p, q) == {p, q} \subseteq DataPage

\* setPage(p), with the requests of rest in flight.
Show(p, rest) ==
  /\ page' = p
  /\ UNCHANGED <<token, serverVars, authenticated, selectedNode>>
  /\ LET asked == [h \in HooksOf[p] |-> Path(h, p, None, selectedNode)] IN
     \/ /\ p = page \/ ~authenticated
        /\ calls' = rest
        /\ UNCHANGED <<view, insideVars>>
     \/ \* the same component is given another endpoint: it reads, and keeps the rest
        /\ p # page /\ authenticated /\ SameComponent(p, page)
        /\ Ask(rest, asked, token)
        /\ view' = Reloading(view, asked)
        /\ UNCHANGED insideVars
     \/ /\ p # page /\ authenticated /\ ~SameComponent(p, page)
        /\ Ask(Passed(rest, Orphan), asked, token)
        /\ view' = [h \in HooksOf[p] \union {"history"} |->
                      IF h = "history" THEN view[h] ELSE Fresh]
        /\ Mounted(p)

\* The console appears, with page p and the drawer of node n.
Appear(p, n, t, rest) ==
  LET asked == [h \in HooksOf[p] \union {"history"} |-> Path(h, p, None, n)] IN
  /\ page' = p /\ selectedNode' = n
  /\ Ask(rest, asked, t)
  /\ view' = [h \in DOMAIN asked |-> [Fresh EXCEPT !.loading = asked[h] # NoPath]]
  /\ Mounted(p)

Init ==
  /\ ApiInit
  /\ authenticated = FALSE /\ page = "dashboard" /\ selectedNode = None
  /\ view = << >>
  /\ dialogs = {} /\ form = Blank /\ busy = {} /\ filter = None /\ chart = NoChart

\* Login.submit, with the right password or with a wrong one.
SubmitLogin(op) ==
  /\ ~authenticated /\ "login" \notin busy
  /\ busy' = {"login"}
  /\ calls' = calls (+) SetToBag({Call(op, <<"login", None>>, token)})
  /\ Size(calls') <= MaxCalls
  /\ UNCHANGED <<token, serverVars, screenVars, view, dialogs, form, filter, chart>>

LoggedIn(c) ==
  /\ c.op = "login" /\ c.status = "ok"
  /\ token' = c.answer
  /\ authenticated' = TRUE
  /\ Appear(page, selectedNode, c.answer, Without(c))
  /\ UNCHANGED serverVars

LoginFailed(c) ==
  /\ c.op \in Login /\ c.status = "failed"
  /\ calls' = Without(c) /\ busy' = {}
  /\ UNCHANGED <<token, serverVars, screenVars, view, dialogs, form, filter, chart>>

\* Only the token that was refused goes.
TokenLeftIfOther(c) == IF c.token = token THEN 0 ELSE token

\* removeItem takes away whatever token there is by now.
TokenLeft(c) == 0

\* request meets a 401: the token goes, and so does the console.
Expired(c) ==
  /\ c.status = "refused"
  /\ token' = TokenLeft(c)
  /\ authenticated' = FALSE
  /\ IF authenticated
     THEN /\ calls' = Passed(Without(c), Buried)
          /\ view' = << >>
          /\ dialogs' = {} /\ form' = Blank /\ busy' = {} /\ filter' = None
          /\ chart' = NoChart
     ELSE /\ calls' = Without(c)
          /\ busy' = IF c.op \in Login THEN {} ELSE busy
          /\ UNCHANGED <<view, dialogs, form, filter, chart>>
  /\ UNCHANGED <<serverVars, page, selectedNode>>

\* The tab is loaded again: sessionStorage survives, all else is as at first.
ReloadTab ==
  /\ UNCHANGED <<token, serverVars>>
  /\ authenticated' = (token # 0)
  /\ IF token # 0
     THEN Appear("dashboard", None, token, EmptyBag)
     ELSE /\ page' = "dashboard" /\ selectedNode' = None
          /\ calls' = EmptyBag /\ busy' = {}
          /\ UNCHANGED <<view, dialogs, form, filter, chart>>

-----------------------------------------------------------------------------
(* What every page has.  A dialog or the drawer masks the page beneath it.  *)

AtPage(p) == authenticated /\ page = p /\ dialogs = {} /\ selectedNode = None

Navigate(p) ==
  /\ AtPage(page) /\ p # page /\ p \in Visited
  /\ Show(p, calls)
  /\ Count(calls', LAMBDA c : c.path = NoPath) <= MaxOrphans

\* The button that reads again; on the dashboard it leaves one endpoint out.
Refresh ==
  /\ AtPage(page)
  /\ LET hooks == HooksOf[page] \ {"core"} IN
     /\ \A h \in hooks : CanRead(h)
     /\ Reload(hooks)
  /\ UNCHANGED <<token, serverVars, screenVars, insideVars>>

\* Timers that stop once there is something to show, or after a failure.
PollOnce ==
  /\ authenticated /\ page \in DOMAIN Polled
  /\ \A h \in Polled[page] : CanRead(h) /\ view[h].data = Nothing
  /\ Reload(Polled[page])
  /\ UNCHANGED <<token, serverVars, screenVars, insideVars>>

PollUnlessFailed ==
  /\ authenticated /\ page \in DOMAIN Polled
  /\ \A h \in Polled[page] : CanRead(h) /\ ~view[h].error
  /\ Reload(Polled[page])
  /\ UNCHANGED <<token, serverVars, screenVars, insideVars>>

\* The interval timers of the pages Tests, Runtime and Logs.
Poll ==
  /\ authenticated /\ page \in DOMAIN Polled
  /\ \A h \in Polled[page] : CanRead(h)
  /\ Reload(Polled[page])
  /\ UNCHANGED <<token, serverVars, screenVars, insideVars>>

\* An answer to a hook: it takes the answer of whichever request comes in.
ReadArrives(c) ==
  /\ c.op = "get" /\ c.path # NoPath
  /\ LET h    == c.path[1]
         data == [of |-> c.path[2], at |-> c.answer] IN
     \/ /\ c.status = "ok"
        /\ view' = [view EXCEPT ![h] = Loaded(@, data)]
        /\ chart' = IF h = "traffic" THEN Sample(chart, Bytes(view[h].data), Bytes(data))
                                     ELSE chart
     \/ /\ c.status = "failed"
        /\ view' = [view EXCEPT ![h] = Failed(@)]
        /\ UNCHANGED chart
  /\ calls' = Without(c)
  /\ UNCHANGED <<token, serverVars, screenVars, dialogs, form, busy, filter>>

\* A request of the user's other than a read, from the page they are on.
Request(op, path) ==
  /\ Count(calls, LAMBDA c : c.op \in Mutation \union {"preview"}) < MaxOrders
  /\ calls' = calls (+) SetToBag({Call(op, path, token)})
  /\ Size(calls') <= MaxCalls
  /\ UNCHANGED <<token, serverVars, screenVars, view>>

\* After a success a handler calls reload, with the path it saw when clicked,
\* of a component that is still there or of one that is gone.
ThenReload(c) ==
  /\ calls' = Without(c) (+) SetToBag({Call("get", c.path, token)})
  /\ view' = IF c.path = NoPath THEN view
             ELSE Reloading(view, Only(c.path[1], c.path))

HasRows(h) == view[h].data # Nothing

-----------------------------------------------------------------------------
(* Forms: Upstreams, Nodes, Subscriptions and the pages of DataPage.        *)

\* Only Nodes empties the form first: a new upstream keeps the name and the
\* address the form last showed.
FormFor(r) ==
  CASE page \notin {"upstreams", "nodes"} -> form
    [] page = "upstreams" /\ r = None     -> [form EXCEPT !.editing = None]
    [] OTHER                              -> [editing |-> r, shown |-> r]

\* edit(row), and the button of a new row.
OpenForm(r) ==
  /\ AtPage(page) /\ page \in FormPage
  /\ r # None => page \in {"upstreams", "nodes"} /\ HasRows(ListOf(page))
  /\ dialogs' = {"form"}
  /\ form' = FormFor(r)
  /\ UNCHANGED <<token, serverVars, calls, screenVars, view, busy, filter, chart>>

CloseDialog(d) ==
  /\ authenticated /\ d \in dialogs
  /\ dialogs' = dialogs \ {d}
  /\ UNCHANGED <<token, serverVars, calls, screenVars, view, form, busy, filter, chart>>

SubmitFormAgain ==
  /\ authenticated /\ "form" \in dialogs
  /\ busy' = IF page \in DataPage THEN busy ELSE busy \union {"save"}
  /\ Request("save", PathNow(ListOf(page)))
  /\ UNCHANGED <<dialogs, form, filter, chart>>

\* submit: the button is blocked while saving, which DataPage does not do.
SubmitForm ==
  /\ authenticated /\ "form" \in dialogs /\ "save" \notin busy
  /\ busy' = IF page \in DataPage THEN busy ELSE busy \union {"save"}
  /\ Request("save", PathNow(ListOf(page)))
  /\ UNCHANGED <<dialogs, form, filter, chart>>

AfterSaveOpen(h) == dialogs \union (IF h = "links" THEN {"token"} ELSE {})

\* setOpen(false) closes the form that is open by now; the new link's address
\* opens.
AfterSave(h) == (dialogs \ {"form"}) \union (IF h = "links" THEN {"token"} ELSE {})

SaveArrives(c) ==
  /\ c.op = "save" /\ c.status \in {"ok", "failed"}
  /\ LET h == c.path[1] IN
     \/ /\ c.status = "failed"
        /\ calls' = Without(c)
        /\ UNCHANGED <<view, dialogs, form>>
     \/ /\ c.status = "ok"
        /\ ThenReload(c)
        /\ dialogs' = IF c.path = NoPath THEN dialogs ELSE AfterSave(h)
        /\ form' = IF c.path # NoPath /\ h = "nodes" THEN [form EXCEPT !.shown = None] ELSE form
  /\ busy' = IF c.path = NoPath THEN busy ELSE busy \ {"save"}
  /\ UNCHANGED <<token, serverVars, screenVars, filter, chart>>

\* remove(row), confirmed.
Remove ==
  /\ AtPage(page) /\ page \in {"upstreams", "nodes"} /\ HasRows(ListOf(page))
  /\ Request("remove", PathNow(ListOf(page)))
  /\ UNCHANGED insideVars

\* request reads the answer's body: with an empty one it throws, as if refused.
RemoveArrives(c) ==
  /\ c.op = "remove" /\ c.status \in {"empty", "failed"}
  /\ calls' = Without(c)
  /\ UNCHANGED <<token, serverVars, consoleVars>>

\* Subscriptions.loadPreview.
Preview ==
  /\ AtPage("subscriptions") /\ HasRows("links")
  /\ Request("preview", PathNow("links"))
  /\ UNCHANGED insideVars

PreviewArrives(c) ==
  /\ c.op = "preview" /\ c.path # NoPath /\ c.status \in {"ok", "failed"}
  /\ dialogs' = IF c.status = "ok" THEN dialogs \union {"preview"} ELSE dialogs
  /\ calls' = Without(c)
  /\ UNCHANGED <<token, serverVars, screenVars, view, form, busy, filter, chart>>

-----------------------------------------------------------------------------
(* Orders: refreshing a subscription, testing nodes, clearing, installing.  *)

\* Upstreams: refresh.  Nodes: runTest.  The answer only shows a message, so
\* no component waits for it.
Order ==
  /\ AtPage(page) /\ page \in {"upstreams", "nodes"} /\ HasRows(ListOf(page))
  /\ Request("order", NoPath)
  /\ UNCHANGED insideVars

\* Upstreams: a test of all nodes, which leads to the page Tests when accepted.
Speedtest ==
  /\ AtPage("upstreams") /\ HasRows("upstreams")
  /\ Request("speedtest", PathNow("upstreams"))
  /\ UNCHANGED insideVars

SpeedtestArrives(c) ==
  /\ c.op = "speedtest"
  /\ \/ /\ c.status = "ok"
        /\ Show("tests", Without(c))
     \/ /\ c.status = "failed"
        /\ calls' = Without(c)
        /\ UNCHANGED <<token, serverVars, consoleVars>>

\* Tests: clearActiveTasks and submitTest.  Settings: installCore.
HookOf == [clear |-> "jobs", submit |-> "jobs", install |-> "status"]

Start(op) ==
  /\ AtPage(IF op = "install" THEN "settings" ELSE "tests")
  /\ op \notin busy
  /\ op = "submit" => HasRows("active")
  /\ busy' = busy \union {op}
  /\ Request(op, PathNow(HookOf[op]))
  /\ UNCHANGED <<dialogs, form, filter, chart>>

\* Settings: uploadCore, which an installation that runs does not block.
Upload ==
  /\ AtPage("settings")
  /\ busy' = busy \union {"install"}
  /\ Request("install", PathNow("status"))
  /\ UNCHANGED <<dialogs, form, filter, chart>>

StartedArrives(c) ==
  /\ c.op \in DOMAIN HookOf /\ c.status \in {"ok", "failed"}
  /\ \/ c.status = "ok" /\ ThenReload(c)
     \/ c.status = "failed" /\ calls' = Without(c) /\ UNCHANGED view
  /\ busy' = IF c.path = NoPath THEN busy ELSE busy \ {c.op}
  /\ UNCHANGED <<token, serverVars, screenVars, dialogs, form, filter, chart>>

-----------------------------------------------------------------------------
(* Logs, Runtime and NodeHistoryDrawer.                                     *)

\* Another level, service or query: another endpoint.
SetFilter(f) ==
  /\ AtPage("logs") /\ f # filter /\ CanRead("logs")
  /\ filter' = f
  /\ LET asked == Only("logs", <<"logs", f>>) IN
     /\ Ask(calls, asked, token)
     /\ view' = Reloading(view, asked)
  /\ UNCHANGED <<token, serverVars, screenVars, dialogs, form, busy, chart>>

\* The mouse on the chart, i of SampleLimit across, rounded to a sample.
Hover(i) ==
  /\ AtPage("runtime")
  /\ LET count == Len(chart.down) IN
     /\ count > 0
     /\ chart' = [chart EXCEPT !.hover =
                    (2 * i * (count - 1) + SampleLimit) \div (2 * SampleLimit)]
  /\ UNCHANGED <<token, serverVars, calls, screenVars, view, dialogs, form, busy, filter>>

MouseLeave ==
  /\ AtPage("runtime") /\ chart.hover # None
  /\ chart' = [chart EXCEPT !.hover = None]
  /\ UNCHANGED <<token, serverVars, calls, screenVars, view, dialogs, form, busy, filter>>

\* setSelectedNode: the drawer's hook has another path.
Select(n) ==
  /\ selectedNode' = n
  /\ LET asked == Only("history", Path("history", page, filter, n)) IN
     /\ Ask(calls, asked, token)
     /\ view' = Reloading(view, asked)
  /\ UNCHANGED <<token, serverVars, authenticated, page, insideVars>>

OpenHistory(n) == AtPage("nodes") /\ HasRows("nodes") /\ CanRead("history") /\ Select(n)
CloseHistory   == authenticated /\ selectedNode # None /\ Select(None)

RefreshHistory ==
  /\ authenticated /\ selectedNode # None /\ ~view["history"].loading
  /\ CanRead("history")
  /\ Reload({"history"})
  /\ UNCHANGED <<token, serverVars, screenVars, insideVars>>

-----------------------------------------------------------------------------
ServerStep ==
  /\ \/ \E c \in BagToSet(calls) : Serve(c) \/ Fail(c)
     \/ Change
     \/ LoseSessions
  /\ UNCHANGED consoleVars

Arrive(c) ==
  \/ LoggedIn(c) \/ LoginFailed(c) \/ Expired(c)
  \/ ReadArrives(c) \/ SaveArrives(c) \/ RemoveArrives(c) \/ PreviewArrives(c)
  \/ SpeedtestArrives(c) \/ StartedArrives(c)

User ==
  \/ \E op \in Login : SubmitLogin(op)
  \/ \E p \in Page : Navigate(p)
  \/ Refresh \/ ReloadTab
  \/ \E r \in Row \union {None} : OpenForm(r)
  \/ \E d \in dialogs : CloseDialog(d)
  \/ SubmitForm \/ Remove \/ Preview \/ Order \/ Speedtest \/ Upload
  \/ \E op \in DOMAIN HookOf : Start(op)
  \/ \E f \in Filter \union {None} : SetFilter(f)
  \/ \E i \in 0..SampleLimit : Hover(i)
  \/ MouseLeave
  \/ \E n \in Row : OpenHistory(n)
  \/ CloseHistory \/ RefreshHistory

Next == ServerStep \/ (\E c \in BagToSet(calls) : Arrive(c)) \/ User \/ Poll

Spec == Init /\ [][Next]_vars

(* A timer runs while its page is shown, the server answers, the network   *)
(* delivers: of the requests for one polled endpoint, and of all others,    *)
(* some are answered, some come in.  Nothing is assumed about the user, nor *)
(* about the order.                                                         *)
PolledHook == UNION {Polled[p] : p \in DOMAIN Polled}

Served(Mine(_))    == \E c \in BagToSet(calls) : Mine(c) /\ Serve(c) /\ UNCHANGED consoleVars
Delivered(Mine(_)) == \E c \in BagToSet(calls) : Mine(c) /\ Arrive(c)

Fairness ==
  /\ WF_vars(Poll)
  /\ \A h \in PolledHook :
       LET Mine(c) == IsRead(c, h) IN WF_vars(Served(Mine)) /\ WF_vars(Delivered(Mine))
  /\ LET Other(c) == \A h \in PolledHook : ~IsRead(c, h) IN
     WF_vars(Served(Other)) /\ WF_vars(Delivered(Other))

FairSpec == Spec /\ Fairness

-----------------------------------------------------------------------------
(* Every variable has its type, and a component is mounted with the hooks of *)
(* the page shown, exactly while the console is.                            *)
TypeOK ==
  /\ ApiTypeOK
  /\ page \in Page
  /\ selectedNode \in Row \union {None}
  /\ DOMAIN view = IF authenticated THEN HooksOf[page] \union {"history"} ELSE {}
  /\ \A h \in DOMAIN view : view[h].loading \in BOOLEAN /\ view[h].error \in BOOLEAN
  /\ dialogs \subseteq {"form", "token", "preview"}
  /\ form \in [editing : Row \union {None}, shown : Row \union {None}]
  /\ busy \subseteq {"login", "save"} \union DOMAIN HookOf
  /\ filter \in Filter \union {None}

(* The console is on the screen exactly while the browser holds a token,    *)
(* however 401s of earlier sessions' requests, logins and reloads of the    *)
(* tab fall between each other (request, auth.login, App).                  *)
ConsoleMatchesToken == authenticated <=> token # 0

(* A table that shows it is loading waits for a request of its own that is  *)
(* in flight: no order of answers, failures, changed endpoints and closed   *)
(* drawers leaves a spinner that nothing will stop (useApi).                *)
SpinnerIsHonest ==
  \A h \in DOMAIN view : view[h].loading => \E c \in BagToSet(calls) : IsRead(c, h)

(* A hook that shows neither an error nor a spinner shows what the server   *)
(* once answered: an empty table is never an unanswered request.  Several   *)
(* requests of the hook share its three variables (useApi).                 *)
AnEmptyTableWasAnswered ==
  \A h \in DOMAIN view :
    view[h].data = Nothing /\ ~view[h].loading /\ ~view[h].error =>
      h = "history" /\ selectedNode = None

\* A request that blocks a button of the component on the screen.
Sent(flag, c) == c.path # NoPath /\ (c.op = flag \/ (flag = "login" /\ c.op \in Login))

(* A button is blocked only while the request it sent, of the component on  *)
(* the screen, is in flight, and such a button has sent one request at most *)
(* (Login.submit, the submits of forms, clearActiveTasks, submitTest,       *)
(* installCore; an upload can join an installation).                        *)
FlagsMatchCalls ==
  /\ \A flag \in busy : \E c \in BagToSet(calls) : Sent(flag, c)
  /\ \A flag \in {"login", "save", "clear", "submit"} :
       Count(calls, LAMBDA c : Sent(flag, c) /\ c.path[1] # "table") <= 1

(* The form that is open to edit a row shows that row's fields, though the  *)
(* row and the fields are two states, the form outlives its dialog, and the *)
(* answer to an earlier save empties it (Upstreams.edit, Nodes.edit).       *)
EditedRowIsShown ==
  "form" \in dialogs /\ form.editing # None => form.shown = form.editing

(* The chart's two lines have a sample for each other, no more than it keeps, *)
(* the next step is measured from the totals shown, and the mouse is over a *)
(* sample that is there (Runtime's effect, which runs when totals change).  *)
ChartFollowsTotals ==
  authenticated /\ page = "runtime" =>
    /\ Len(chart.up) = Len(chart.down) /\ Len(chart.down) \in 1..SampleLimit
    /\ chart.last = Number(Bytes(view["traffic"].data))
    /\ chart.hover \in {None} \union 0..(Len(chart.down) - 1)

(* A page with a timer, left alone with data that stops changing, ends up   *)
(* showing it, whatever stale answers come in late and whatever requests    *)
(* fail on the way.                                                         *)
PolledViewsConverge ==
  \A p \in DOMAIN Polled, f \in Filter \union {None} :
    <>[](authenticated /\ page = p /\ filter = f) =>
      <>[](\A h \in Polled[p] \intersect DOMAIN view : view[h].data = [of |-> PathNow(h)[2], at |-> now])

(* Who stays on a page with a timer when the session ends is asked to log   *)
(* in again.                                                                *)
LostSessionIsNoticed ==
  \A p \in DOMAIN Polled :
    authenticated /\ page = p /\ token \notin sessions ~> ~(authenticated /\ page = p)
=============================================================================
