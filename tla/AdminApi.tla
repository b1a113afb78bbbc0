------------------------------ MODULE AdminApi ------------------------------
(***************************************************************************)
(* The administration page's client of the HTTP API, web/admin/src/api.ts, *)
(* and what it talks to: the sessions of internal/transport/http/auth.go   *)
(* and, in one number, everything else the server knows.                   *)
(*                                                                         *)
(* A request is sent, answered by the server and received by the page in   *)
(* three steps, and requests overtake each other: fetch promises no order. *)
(* `calls' is the bag of the requests in flight, those the server has yet  *)
(* to answer and those whose answer is on its way.                         *)
(***************************************************************************)
EXTENDS Naturals, FiniteSets, Bags

CONSTANTS
  None,          \* no row, no filter, no token
  MaxCalls,      \* bound: requests in flight (a browser has such a limit too)
  MaxSessions,   \* bound: sessions the server hands out
  MaxChanges,    \* bound: changes of what the server would answer
  MaxFaults      \* bound: requests that fail, in the network or in the server

ASSUME ApiAssumption == {MaxCalls, MaxSessions, MaxChanges, MaxFaults} \subseteq Nat

VARIABLES
  token,     \* sessionStorage["bagualu_admin_token"]; 0 when there is none
  sessions,  \* sessionStore.entries: the tokens the server accepts
  issued,    \* how many it has handed out
  now,       \* the version of the server's data
  faults,    \* how many requests have failed
  calls      \* the requests in flight

serverVars == <<sessions, issued, now, faults>>

(* An endpoint and its subject: <<"history", n>>, <<"logs", filter>>.  A    *)
(* call whose component is gone has no path: nobody takes its answer.       *)
NoPath == <<None, None>>

Mutation == {"save", "remove", "order", "speedtest", "clear", "submit", "install"}
Login    == {"login", "guess"}     \* with the right password, with a wrong one
Read     == {"get", "preview"}

\* request reads the token when it is called, not when the answer comes.
Call(op, path, t) ==
  [op |-> op, path |-> path, token |-> t, status |-> "pending", answer |-> 0]

\* The requests of a bag one by one: one that is in flight twice is two.
Copies(bg) == UNION {{c} \X (1..bg[c]) : c \in DOMAIN bg}
Size(bg)   == Cardinality(Copies(bg))

Without(c) == calls (-) SetToBag({c})

\* What is still to come of a call nobody waits for: a 401, or a handler that
\* goes on after a success.  Other such calls are left out of the bag.
GoesOn == Mutation \ {"remove", "order"}

Matters(c) ==
  \/ c.path # NoPath
  \/ c.status \in {"pending", "refused"}
  \/ c.status = "ok" /\ c.op \in GoesOn

Kept(c) == IF Matters(c) THEN SetToBag({c}) ELSE EmptyBag

ApiTypeOK ==
  /\ token \in 0..MaxSessions
  /\ issued \in 0..MaxSessions
  /\ sessions \subseteq 1..issued
  /\ now \in 0..MaxChanges
  /\ faults \in 0..MaxFaults
  /\ IsABag(calls) /\ Size(calls) <= MaxCalls
  /\ \A c \in BagToSet(calls) :
       /\ c.op \in Read \union Mutation \union Login
       /\ c.token \in 0..issued
       /\ c.status \in {"pending", "ok", "empty", "refused", "failed"}
       /\ c.answer \in Nat

ApiInit ==
  /\ token = 0 /\ sessions = {} /\ issued = 0 /\ now = 0 /\ faults = 0
  /\ calls = EmptyBag

-----------------------------------------------------------------------------
(* The server.                                                              *)

Answer(c, status, answer) ==
  calls' = Without(c) (+) Kept([c EXCEPT !.status = status, !.answer = answer])

\* A mutation is seen in later answers, unless it left things as they were.
Moved == {now, now + 1} \intersect 0..MaxChanges

\* authLogin: a right password opens a session, a wrong one is a 401.
ServeLogin(c) ==
  /\ c.op \in Login /\ c.status = "pending"
  /\ \/ /\ c.op = "login" /\ issued < MaxSessions
        /\ issued' = issued + 1
        /\ sessions' = sessions \union {issued + 1}
        /\ Answer(c, "ok", issued + 1)
     \/ /\ c.op = "guess"
        /\ Answer(c, "refused", 0)
        /\ UNCHANGED <<issued, sessions>>
  /\ UNCHANGED <<token, now, faults>>

\* adminRequired: only a live session gets past it.
ServeRefused(c) ==
  /\ c.op \notin Login /\ c.status = "pending"
  /\ c.token \notin sessions
  /\ Answer(c, "refused", 0)
  /\ UNCHANGED <<token, sessions, issued, now, faults>>

\* A read is answered with the data of this moment.  The server's DELETE
\* handlers answer 204 and no body, all others send JSON.
ServeAdmitted(c) ==
  /\ c.op \notin Login /\ c.status = "pending"
  /\ c.token \in sessions
  /\ IF c.op \in Mutation THEN now' \in Moved ELSE now' = now
  /\ Answer(c, IF c.op = "remove" THEN "empty" ELSE "ok", IF c.op \in Read THEN now ELSE 0)
  /\ UNCHANGED <<token, sessions, issued, faults>>

\* The network or the server fails; what was asked may have been done.
Fail(c) ==
  /\ c.status = "pending" /\ faults < MaxFaults
  /\ faults' = faults + 1
  /\ IF c.op \in Mutation THEN now' \in Moved ELSE now' = now
  /\ Answer(c, "failed", 0)
  /\ UNCHANGED <<token, sessions, issued>>

Serve(c) == ServeLogin(c) \/ ServeRefused(c) \/ ServeAdmitted(c)

\* Somebody or something else changes what the server knows.
Change ==
  /\ now < MaxChanges
  /\ now' = now + 1
  /\ UNCHANGED <<token, sessions, issued, faults, calls>>

\* Sessions live in memory for a day: they expire, or a restart drops them.
LoseSessions ==
  /\ sessions # {}
  /\ sessions' \in (SUBSET sessions) \ {sessions}
  /\ UNCHANGED <<token, issued, now, faults, calls>>
=============================================================================
