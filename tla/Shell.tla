-------------------------------- MODULE Shell --------------------------------
(***************************************************************************)
(* Signing in and out of the web UI: the tabs of one browser (layout,      *)
(* Login, Nav, lib/state.svelte.ts), the one cookie they share, and the    *)
(* sessions of the API (internal/api/auth.go, ops_auth.go,                 *)
(* internal/store/sessions.go). A tab asks who it is once, when it is      *)
(* loaded or has signed in, and shows that until it signs out: what        *)
(* another tab does to the cookie meanwhile it does not learn.             *)
(*                                                                         *)
(* A request carries the cookie of the moment it is sent; the cookie its   *)
(* answer sets is stored when the answer comes.                            *)
(***************************************************************************)
EXTENDS Naturals

CONSTANTS
  Tabs,
  Users,
  WithCode,     \* the users with a second factor
  Nobody,
  MaxSessions,  \* bound: sessions ever made
  MaxCalls,     \* bound: requests on their way at a time
  MaxEvents     \* bound: requests or answers lost, sessions that expire, loads of a tab

ASSUME UsersAssumption == Nobody \notin Users /\ WithCode \subseteq Users
ASSUME LimitsAssumption == MaxSessions \in Nat /\ MaxCalls \in Nat \ {0} /\ MaxEvents \in Nat

NoCookie == 0
Ids == 1..MaxSessions
Slots == 1..MaxCalls

VARIABLES
  jar,      \* the cookie mp_session: a session's id or NoCookie
  made,     \* sessions made so far
  live,     \* sessions the server honours
  owner,    \* owner[i]: whose session i is
  me,       \* me[t]: auth.me of tab t
  loading,  \* loading[t]: auth.loading
  needCode, busy,   \* of tab t's sign-in form
  calls,    \* requests and answers on their way
  events,
  (* history *)
  mine,     \* mine[t]: the session tab t was last told of
  out,      \* out[t]: tab t shows the sign-in form because it signed out
  crossed   \* crossed[t]: since t last asked, an answer to another tab or to an older
            \* sign-out has come, or one was lost

tabs == <<me, loading, needCode, busy>>
sessions == <<made, live, owner>>
history == <<mine, out, crossed>>
vars == <<jar, made, live, owner, me, loading, needCode, busy, calls, events, mine, out, crossed>>

(* `session`, `user` are what an answer brings. *)
Requests == [slot : Slots, tab : Tabs, op : {"me", "login", "logout"},
             user : Users \cup {Nobody}, code : BOOLEAN, sent : Ids \cup {NoCookie},
             answer : {"none", "ok", "totp_required", "refused"}, session : Ids \cup {NoCookie}]

TypeOK ==
  /\ made \in 0..MaxSessions /\ jar \in 0..made /\ live \subseteq 1..made
  /\ owner \in [Ids -> Users \cup {Nobody}]
  /\ me \in [Tabs -> Users \cup {Nobody}]
  /\ loading \in [Tabs -> BOOLEAN] /\ needCode \in [Tabs -> BOOLEAN] /\ busy \in [Tabs -> BOOLEAN]
  /\ calls \subseteq Requests
  /\ events \in 0..MaxEvents
  /\ mine \in [Tabs -> Ids \cup {NoCookie}]
  /\ out \in [Tabs -> BOOLEAN] /\ crossed \in [Tabs -> BOOLEAN]
  /\ \A t \in Tabs : me[t] # Nobody => ~loading[t] /\ ~busy[t]

Init ==
  /\ jar = NoCookie /\ made = 0 /\ live = {} /\ owner = [i \in Ids |-> Nobody]
  /\ me = [t \in Tabs |-> Nobody] /\ loading = [t \in Tabs |-> FALSE]
  /\ needCode = [t \in Tabs |-> FALSE] /\ busy = [t \in Tabs |-> FALSE]
  /\ calls = {} /\ events = 0
  /\ mine = [t \in Tabs |-> NoCookie] /\ out = [t \in Tabs |-> FALSE]
  /\ crossed = [t \in Tabs |-> FALSE]

(* The cookie names a session that is honoured. *)
Authenticated(cookie) == cookie \in live

(* The slot a new request takes.                                           *)
Free(cs, n) == (\A c \in cs : c.slot # n) /\ \A m \in 1..(n - 1) : \E c \in cs : c.slot = m
Request(n, t, o, u, code, cookie) ==
  [slot |-> n, tab |-> t, op |-> o, user |-> u, code |-> code, sent |-> cookie,
   answer |-> "none", session |-> NoCookie]
Replace(c, d) == calls' = (calls \ {c}) \cup {d}
-----------------------------------------------------------------------------
(* The person *)

(* A tab is opened or loaded again: what it waited for goes with it.       *)
Load(t) ==
  LET rest == {c \in calls : c.tab # t}
      lost == \E c \in calls : c.tab = t /\ c.op # "me"
  IN \E n \in Slots :
       /\ Free(rest, n) /\ events < MaxEvents /\ events' = events + 1
       /\ calls' = rest \cup {Request(n, t, "me", Nobody, FALSE, jar)}
       /\ me' = [me EXCEPT ![t] = Nobody] /\ loading' = [loading EXCEPT ![t] = TRUE]
       /\ needCode' = [needCode EXCEPT ![t] = FALSE] /\ busy' = [busy EXCEPT ![t] = FALSE]
       /\ mine' = [mine EXCEPT ![t] = NoCookie] /\ out' = [out EXCEPT ![t] = FALSE]
       /\ crossed' = [s \in Tabs |-> IF s = t THEN FALSE ELSE crossed[s] \/ lost]
       /\ UNCHANGED <<jar, sessions>>

(* Login's form; the field of the code is there once it was asked for.     *)
Submit(t, u) ==
  /\ me[t] = Nobody /\ ~loading[t] /\ ~busy[t]
  /\ busy' = [busy EXCEPT ![t] = TRUE]
  /\ \E n \in Slots, code \in {FALSE, needCode[t]} :
       Free(calls, n) /\ calls' = calls \cup {Request(n, t, "login", u, code, NoCookie)}
  /\ UNCHANGED <<jar, sessions, me, loading, needCode, events, history>>

(* Nothing keeps "sign out" from being clicked again while it is on its way. *)
Logout(t) ==
  /\ me[t] # Nobody
  /\ \E n \in Slots :
       Free(calls, n) /\ calls' = calls \cup {Request(n, t, "logout", Nobody, FALSE, jar)}
  /\ UNCHANGED <<jar, sessions, tabs, events, history>>
-----------------------------------------------------------------------------
(* The API *)

ServeMe(c) ==
  /\ c.op = "me" /\ c.answer = "none"
  /\ Replace(c, IF Authenticated(c.sent)
                THEN [c EXCEPT !.answer = "ok", !.user = owner[c.sent], !.session = c.sent]
                ELSE [c EXCEPT !.answer = "refused"])
  /\ UNCHANGED <<jar, sessions, tabs, events, history>>

(* Too many attempts, a wrong name, password or code, an account that is   *)
(* not active.                                                             *)
RefuseLogin(c) ==
  /\ c.op = "login" /\ c.answer = "none"
  /\ Replace(c, [c EXCEPT !.user = Nobody, !.code = FALSE,
                          !.answer = IF c.user \in WithCode /\ ~c.code
                                     THEN "totp_required" ELSE "refused"])
  /\ UNCHANGED <<jar, sessions, tabs, events, history>>

(* A new session; the one the request came with, if any, stays.            *)
ServeLogin(c) ==
  /\ c.op = "login" /\ c.answer = "none" /\ made < MaxSessions
  /\ c.user \in WithCode => c.code
  /\ made' = made + 1 /\ live' = live \cup {made'}
  /\ owner' = [owner EXCEPT ![made'] = c.user]
  /\ Replace(c, [c EXCEPT !.answer = "ok", !.session = made', !.user = Nobody, !.code = FALSE])
  /\ UNCHANGED <<jar, tabs, events, history>>

(* Wrong: the cookie is taken back, the session is not deleted.            *)
LogoutOfCookie(c) ==
  /\ c.op = "logout" /\ c.answer = "none"
  /\ Replace(c, [c EXCEPT !.answer = IF Authenticated(c.sent) THEN "ok" ELSE "refused"])
  /\ UNCHANGED <<jar, sessions, tabs, events, history>>

(* The session of the request's cookie is deleted; without one it is 401.  *)
ServeLogout(c) ==
  /\ c.op = "logout" /\ c.answer = "none"
  /\ live' = live \ {c.sent}
  /\ Replace(c, [c EXCEPT !.answer = IF Authenticated(c.sent) THEN "ok" ELSE "refused"])
  /\ UNCHANGED <<jar, made, owner, tabs, events, history>>

(* Seven days are over, or the account was suspended or removed.           *)
Expire(i) ==
  /\ i \in live /\ live' = live \ {i}
  /\ events < MaxEvents /\ events' = events + 1
  /\ UNCHANGED <<jar, made, owner, tabs, calls, history>>
-----------------------------------------------------------------------------
(* The answers *)

(* An answer to a sign-out; `crossed`: of another tab, or of an older one. *)
TakeCookie(c) ==
  /\ jar' = IF c.answer = "ok" THEN NoCookie ELSE jar
  /\ crossed' = [t \in Tabs |-> crossed[t] \/ t # c.tab \/ jar # c.sent]

(* Wrong: without `finally`.                                               *)
MeStillLoading(c) ==
  /\ c.op = "me" /\ c.answer # "none" /\ calls' = calls \ {c}
  /\ me' = [me EXCEPT ![c.tab] = IF c.answer = "ok" THEN c.user ELSE Nobody]
  /\ busy' = [busy EXCEPT ![c.tab] = FALSE]
  /\ mine' = [mine EXCEPT ![c.tab] = c.session] /\ out' = [out EXCEPT ![c.tab] = FALSE]
  /\ UNCHANGED <<jar, sessions, loading, needCode, events, crossed>>

(* loadMe of the layout, and of Login after its sign-in, whose form is     *)
(* gone then: the next one starts anew.                                    *)
MeArrives(c) ==
  /\ c.op = "me" /\ c.answer # "none" /\ calls' = calls \ {c}
  /\ me' = [me EXCEPT ![c.tab] = IF c.answer = "ok" THEN c.user ELSE Nobody]
  /\ loading' = [loading EXCEPT ![c.tab] = FALSE] /\ busy' = [busy EXCEPT ![c.tab] = FALSE]
  /\ needCode' = [needCode EXCEPT ![c.tab] = @ /\ c.answer # "ok"]
  /\ mine' = [mine EXCEPT ![c.tab] = c.session] /\ out' = [out EXCEPT ![c.tab] = FALSE]
  /\ UNCHANGED <<jar, sessions, events, crossed>>

(* Login.submit goes on with loadMe.                                       *)
LoginArrives(c) ==
  /\ c.op = "login" /\ c.answer = "ok"
  /\ jar' = c.session
  /\ crossed' = [s \in Tabs |-> s # c.tab]
  /\ out' = [out EXCEPT ![c.tab] = FALSE]
  /\ Replace(c, Request(c.slot, c.tab, "me", Nobody, FALSE, c.session))
  /\ UNCHANGED <<sessions, tabs, events, mine>>

LoginRefused(c) ==
  /\ c.op = "login" /\ c.answer \in {"totp_required", "refused"} /\ calls' = calls \ {c}
  /\ busy' = [busy EXCEPT ![c.tab] = FALSE]
  /\ needCode' = [needCode EXCEPT ![c.tab] = @ \/ c.answer = "totp_required"]
  /\ UNCHANGED <<jar, sessions, me, loading, events, history>>

SignedOut(c) ==
  /\ me' = [me EXCEPT ![c.tab] = Nobody]
  /\ out' = [out EXCEPT ![c.tab] = TRUE]

(* Wrong: the tab goes on as it was.                                       *)
LogoutArrivesQuietly(c) ==
  /\ c.op = "logout" /\ c.answer # "none" /\ calls' = calls \ {c}
  /\ TakeCookie(c)
  /\ UNCHANGED <<sessions, tabs, events, mine, out>>

(* logout: whatever the answer, the tab shows the sign-in form.            *)
LogoutArrives(c) ==
  /\ c.op = "logout" /\ c.answer # "none" /\ calls' = calls \ {c}
  /\ TakeCookie(c) /\ SignedOut(c)
  /\ UNCHANGED <<sessions, loading, needCode, busy, events, mine>>

(* A request or its answer is lost: the tab sees fetch fail.               *)
Lose(c) ==
  /\ events < MaxEvents /\ events' = events + 1
  /\ calls' = calls \ {c}
  /\ crossed' = [t \in Tabs |-> crossed[t] \/ c.op # "me"]
  /\ \/ /\ c.op = "me" /\ me' = [me EXCEPT ![c.tab] = Nobody]
        /\ loading' = [loading EXCEPT ![c.tab] = FALSE] /\ busy' = [busy EXCEPT ![c.tab] = FALSE]
        /\ UNCHANGED out
     \/ c.op = "login" /\ busy' = [busy EXCEPT ![c.tab] = FALSE] /\ UNCHANGED <<me, loading, out>>
     \/ c.op = "logout" /\ SignedOut(c) /\ UNCHANGED <<loading, busy>>
  /\ UNCHANGED <<jar, sessions, needCode, mine>>

Serve(c) == ServeMe(c) \/ RefuseLogin(c) \/ ServeLogin(c) \/ ServeLogout(c)
Arrive(c) == MeArrives(c) \/ LoginArrives(c) \/ LoginRefused(c) \/ LogoutArrives(c)

Next ==
  \/ \E t \in Tabs : Load(t) \/ Logout(t) \/ \E u \in Users : Submit(t, u)
  \/ \E c \in calls : Serve(c) \/ Arrive(c) \/ Lose(c)
  \/ \E i \in Ids : Expire(i)

Spec == Init /\ [][Next]_vars

(* The API answers and the answer comes, or the browser sees it fail.      *)
FairSpec ==
  /\ Spec
  /\ \A t \in Tabs : WF_vars(\E c \in calls : c.tab = t /\ (Serve(c) \/ Arrive(c)))
-----------------------------------------------------------------------------
(* The account a tab shows is the one its requests act as, unless another  *)
(* tab signed in or out since it asked: a tab that shows an account never  *)
(* lost the cookie, or got another one, by what it did itself.             *)
ShownIsActing ==
  \A t \in Tabs : me[t] # Nobody /\ ~crossed[t] => jar # NoCookie /\ owner[jar] = me[t]

(* A tab that signed out has ended the session it showed, and the browser  *)
(* holds none, unless another tab's cookie was sent in its place, a second *)
(* click on "sign out" was answered after the next sign-in, or a request   *)
(* was lost.                                                               *)
SignedOutIsOut == \A t \in Tabs : out[t] /\ ~crossed[t] => mine[t] \notin live /\ jar \notin live

(* The screen does not wait for ever, nor does the sign-in form, however   *)
(* the requests end.                                                       *)
Waiting(t) == loading[t] \/ busy[t]
ScreenComes == \A t \in Tabs : Waiting(t) ~> ~Waiting(t)
=============================================================================
