---------------------------- MODULE ShellProofs ----------------------------
(***************************************************************************)
(* Proofs about Shell, for any number of tabs, accounts, sessions and      *)
(* requests on their way.                                                  *)
(***************************************************************************)
EXTENDS Shell, TLAPS

USE UsersAssumption, LimitsAssumption
    DEF tabs, sessions, history, NoCookie, Ids, Replace, TakeCookie, SignedOut

(* Requests by which a tab learns who it is, or becomes somebody.          *)
Asks(c) == c.op \in {"me", "login"}
Granted(c) == c.op = "login" /\ c.answer = "ok"

CallType(c, limit) ==
  /\ c \in Requests
  /\ c.sent \in 0..limit /\ c.session \in 0..limit
  /\ c.op = "login" /\ c.answer = "none" => c.user \in Users
  /\ Granted(c) => c.session # NoCookie

(* What the answer to auth.me says is true of the cookie it came with.     *)
Truthful(c, whose) ==
  /\ c.op = "me" /\ c.answer = "ok" => c.sent # NoCookie /\ c.session = c.sent /\ c.user = whose[c.sent]
  /\ c.op = "me" /\ c.answer # "ok" => c.session = NoCookie

Typed ==
  /\ made \in 0..MaxSessions /\ jar \in 0..made /\ live \subseteq 1..made
  /\ owner \in [Ids -> Users \cup {Nobody}]
  /\ \A i \in 1..made : owner[i] \in Users
  /\ me \in [Tabs -> Users \cup {Nobody}]
  /\ loading \in [Tabs -> BOOLEAN] /\ needCode \in [Tabs -> BOOLEAN] /\ busy \in [Tabs -> BOOLEAN]
  /\ events \in 0..MaxEvents
  /\ mine \in [Tabs -> 0..made]
  /\ out \in [Tabs -> BOOLEAN] /\ crossed \in [Tabs -> BOOLEAN]
  /\ \A c \in calls : CallType(c, made) /\ Truthful(c, owner)

(* A tab asks one thing at a time, while it waits and shows no account.    *)
AsksOnce ==
  /\ \A t \in Tabs : me[t] # Nobody => ~loading[t] /\ ~busy[t]
  /\ \A c \in calls : Asks(c) => Waiting(c.tab)
  /\ \A c, d \in calls : Asks(c) /\ Asks(d) /\ c.tab = d.tab => c = d

(* A tab that waits has a request on its way whose answer, or whose loss,  *)
(* ends the waiting.                                                       *)
WaitsForOne == \A t \in Tabs : Waiting(t) => \E c \in calls : c.tab = t /\ Asks(c)
(* The form signs in only after the tab was told who it is.                *)
LoginsAreBusy == \A c \in calls : c.op = "login" => ~loading[c.tab]

(* A session whose cookie has not come yet is in nobody's hands.           *)
Fresh(c) ==
  /\ jar # c.session
  /\ \A d \in calls : /\ d.sent # c.session
                      /\ Granted(d) /\ d.session = c.session => d = c
FreshLogins == \A c \in calls : Granted(c) => Fresh(c)

(* A sign-out that was served has ended its session.                       *)
Ended == \A c \in calls : c.op = "logout" /\ c.answer # "none" => c.sent \notin live

(* A tab nobody crossed asks about, or was told of, the cookie there is.   *)
Told ==
  /\ \A c \in calls : c.op = "me" /\ ~crossed[c.tab] => c.sent = jar
  /\ \A t \in Tabs : me[t] # Nobody /\ ~crossed[t] =>
       mine[t] = jar /\ jar # NoCookie /\ owner[jar] = me[t]

(* Its older sign-outs are not about the cookie it asks about, ...         *)
OldSignOuts ==
  \A c, d \in calls : /\ c.op = "me" /\ d.op = "logout" /\ c.tab = d.tab /\ ~crossed[c.tab]
                      => d.sent # jar
(* ... and one that is about the cookie there is, is about its session.    *)
SignOutsOfMine ==
  \A c \in calls : c.op = "logout" /\ ~crossed[c.tab] /\ c.sent = jar
                   => mine[c.tab] = jar \/ mine[c.tab] \notin live

Inv ==
  /\ Typed /\ AsksOnce /\ FreshLogins /\ Ended /\ Told /\ OldSignOuts /\ SignOutsOfMine
  /\ SignedOutIsOut

-----------------------------------------------------------------------------
(* What the API does to a request *)

(* The request after it was served.                                        *)
ServedAs(c, d) ==
  /\ calls' = (calls \ {c}) \cup {d}
  /\ d.op = c.op /\ d.tab = c.tab /\ d.sent = c.sent
  /\ CallType(d, made')
  /\ c.answer = "none" /\ d.answer # "none"
  /\ d.op = "me" /\ d.answer = "ok" => d.sent # NoCookie /\ d.session = d.sent /\ d.user = owner[d.sent]
  /\ d.op = "me" /\ d.answer # "ok" => d.session = NoCookie
  /\ Granted(d) => made' = made + 1 /\ d.session = made'
  /\ d.op = "logout" => d.sent \notin live'
  /\ UNCHANGED <<jar, tabs, events, history>>
  /\ \/ made' = made /\ live' \subseteq live /\ owner' = owner
     \/ /\ Granted(d) /\ live' = live \cup {made'} /\ made < MaxSessions
        /\ owner' = [owner EXCEPT ![made'] = c.user] /\ c.user \in Users

LEMMA ServeMeAs ==
  ASSUME Typed, NEW c \in calls, ServeMe(c)
  PROVE  \E d : ServedAs(c, d)
<1>1. CallType(c, made) /\ Truthful(c, owner)  BY DEF Typed
<1>2. /\ c \in Requests /\ c.op = "me" /\ c.answer = "none" /\ c.session = NoCookie
      /\ c.sent \in 0..made
  BY <1>1 DEF ServeMe, CallType, Truthful
<1>3. made \in 0..MaxSessions /\ live \subseteq 1..made /\ owner \in [Ids -> Users \cup {Nobody}]
  BY DEF Typed
<1>4. UNCHANGED <<jar, made, live, owner, tabs, events, history>>
  BY DEF ServeMe
<1>5. CASE c.sent \in live
  <2> DEFINE d == [c EXCEPT !.answer = "ok", !.user = owner[c.sent], !.session = c.sent]
  <2>0. Authenticated(c.sent)  BY <1>5 DEF Authenticated
  <2>1. calls' = (calls \ {c}) \cup {d}  BY <2>0, Zenon DEF ServeMe
  <2>2. c.sent \in Ids /\ c.sent # NoCookie
    <3>1. made \in Nat /\ made <= MaxSessions  BY <1>3
    <3>2. c.sent \in 1..made  BY <1>3, <1>5
    <3> QED  BY <3>1, <3>2
  <2>3. owner[c.sent] \in Users \cup {Nobody}  BY <1>3, <2>2
  <2>4. d \in Requests  BY <1>2, <2>2, <2>3 DEF Requests
  <2>5. /\ d.op = "me" /\ d.tab = c.tab /\ d.sent = c.sent /\ d.answer = "ok"
        /\ d.session = c.sent /\ d.user = owner[c.sent]
    BY <1>2 DEF Requests
  <2>6. CallType(d, made)  BY <1>2, <2>4, <2>5 DEF CallType, Granted
  <2>7. ServedAs(c, d)  BY <1>2, <1>4, <2>1, <2>2, <2>5, <2>6 DEF ServedAs, Granted
  <2> QED  BY <2>7
<1>6. CASE c.sent \notin live
  <2> DEFINE d == [c EXCEPT !.answer = "refused"]
  <2>0. ~Authenticated(c.sent)  BY <1>6 DEF Authenticated
  <2>1. calls' = (calls \ {c}) \cup {d}  BY <2>0, Zenon DEF ServeMe
  <2>2. d \in Requests  BY <1>2 DEF Requests
  <2>3. d.op = "me" /\ d.tab = c.tab /\ d.sent = c.sent /\ d.answer = "refused" /\ d.session = NoCookie
    BY <1>2 DEF Requests
  <2>4. CallType(d, made)  BY <1>2, <1>3, <2>2, <2>3 DEF CallType, Granted
  <2>5. ServedAs(c, d)  BY <1>2, <1>4, <2>1, <2>3, <2>4 DEF ServedAs, Granted
  <2> QED  BY <2>5
<1> QED  BY <1>5, <1>6

LEMMA RefuseLoginAs ==
  ASSUME Typed, NEW c \in calls, RefuseLogin(c)
  PROVE  \E d : ServedAs(c, d)
<1>1. CallType(c, made)  BY DEF Typed
<1>2. /\ c \in Requests /\ c.op = "login" /\ c.answer = "none"
      /\ c.sent \in 0..made /\ c.session \in 0..made
  BY <1>1 DEF RefuseLogin, CallType
<1>3. PICK a \in {"totp_required", "refused"} :
        calls' = (calls \ {c}) \cup {[c EXCEPT !.user = Nobody, !.code = FALSE, !.answer = a]}
  BY DEF RefuseLogin
<1> DEFINE d == [c EXCEPT !.user = Nobody, !.code = FALSE, !.answer = a]
<1>4. d \in Requests  BY <1>2 DEF Requests
<1>5. d.op = "login" /\ d.tab = c.tab /\ d.sent = c.sent /\ d.answer = a /\ d.session = c.session
  BY <1>2 DEF Requests
<1>6. CallType(d, made)  BY <1>2, <1>4, <1>5 DEF CallType, Granted
<1>7. UNCHANGED <<jar, made, live, owner, tabs, events, history>>  BY DEF RefuseLogin
<1>8. ServedAs(c, d)  BY <1>2, <1>3, <1>5, <1>6, <1>7 DEF ServedAs, Granted
<1> QED  BY <1>8

LEMMA ServeLoginAs ==
  ASSUME Typed, NEW c \in calls, ServeLogin(c)
  PROVE  \E d : ServedAs(c, d)
<1>1. CallType(c, made)  BY DEF Typed
<1>2. /\ c \in Requests /\ c.op = "login" /\ c.answer = "none" /\ c.user \in Users
      /\ c.sent \in 0..made
  BY <1>1 DEF ServeLogin, CallType
<1>3. made \in 0..MaxSessions /\ made < MaxSessions /\ made' = made + 1
  BY DEF Typed, ServeLogin
<1>4. made' \in Ids /\ made' # NoCookie /\ made' \in 0..made' /\ c.sent \in 0..made'  BY <1>2, <1>3
<1> DEFINE d == [c EXCEPT !.answer = "ok", !.session = made', !.user = Nobody, !.code = FALSE]
<1>5. calls' = (calls \ {c}) \cup {d}  BY DEF ServeLogin
<1>6. d \in Requests  BY <1>2, <1>4 DEF Requests
<1>7. d.op = "login" /\ d.tab = c.tab /\ d.sent = c.sent /\ d.answer = "ok" /\ d.session = made'
  BY <1>2 DEF Requests
<1>8. CallType(d, made')  BY <1>4, <1>6, <1>7 DEF CallType, Granted
<1>9. /\ UNCHANGED <<jar, tabs, events, history>>
      /\ live' = live \cup {made'} /\ owner' = [owner EXCEPT ![made'] = c.user]
  BY DEF ServeLogin
<1>10. ServedAs(c, d)  BY <1>2, <1>3, <1>5, <1>7, <1>8, <1>9 DEF ServedAs, Granted
<1> QED  BY <1>10

LEMMA ServeLogoutAs ==
  ASSUME Typed, NEW c \in calls, ServeLogout(c)
  PROVE  \E d : ServedAs(c, d)
<1>1. CallType(c, made)  BY DEF Typed
<1>2. /\ c \in Requests /\ c.op = "logout" /\ c.answer = "none"
      /\ c.sent \in 0..made /\ c.session \in 0..made
  BY <1>1 DEF ServeLogout, CallType
<1>3. PICK a \in {"ok", "refused"} : calls' = (calls \ {c}) \cup {[c EXCEPT !.answer = a]}
  BY DEF ServeLogout
<1> DEFINE d == [c EXCEPT !.answer = a]
<1>4. d \in Requests  BY <1>2 DEF Requests
<1>5. d.op = "logout" /\ d.tab = c.tab /\ d.sent = c.sent /\ d.answer = a /\ d.session = c.session
  BY <1>2 DEF Requests
<1>6. CallType(d, made)  BY <1>2, <1>4, <1>5 DEF CallType, Granted
<1>7. live' = live \ {c.sent} /\ UNCHANGED <<jar, made, owner, tabs, events, history>>
  BY DEF ServeLogout
<1>8. ServedAs(c, d)  BY <1>2, <1>3, <1>5, <1>6, <1>7 DEF ServedAs, Granted
<1> QED  BY <1>8

LEMMA Served ==
  ASSUME Typed, NEW c \in calls, Serve(c)
  PROVE  \E d : ServedAs(c, d)
BY ServeMeAs, RefuseLoginAs, ServeLoginAs, ServeLogoutAs DEF Serve
-----------------------------------------------------------------------------
(* What the steps of a tab do *)

(* Nothing of tab s changes, except that it may have been crossed.         *)
Untouched(s) ==
  /\ me'[s] = me[s] /\ loading'[s] = loading[s] /\ busy'[s] = busy[s]
  /\ mine'[s] = mine[s] /\ out'[s] = out[s]
  /\ ~crossed'[s] => ~crossed[s]

(* A request as a tab sends it.                                            *)
Sent(r, t, o, cookie) ==
  /\ r \in Requests /\ r.op = o /\ r.tab = t /\ r.sent = cookie
  /\ r.answer = "none" /\ r.session = NoCookie

LEMMA IsSent ==
  ASSUME NEW n \in Slots, NEW t \in Tabs, NEW o \in {"me", "login", "logout"},
         NEW u \in Users \cup {Nobody}, NEW code \in BOOLEAN, NEW cookie \in Ids \cup {NoCookie}
  PROVE  Sent(Request(n, t, o, u, code, cookie), t, o, cookie)
BY DEF Sent, Request, Requests

LEMMA SentIsTyped ==
  ASSUME NEW m \in 0..MaxSessions, NEW r, NEW t, NEW o, NEW cookie \in 0..m, NEW whose, Sent(r, t, o, cookie),
         o = "login" => r.user \in Users
  PROVE  CallType(r, m) /\ Truthful(r, whose)
BY DEF Sent, CallType, Truthful, Granted

LEMMA JarIsCookie == ASSUME Typed PROVE jar \in Ids \cup {NoCookie} /\ \A i \in 0..made : i \in Ids \cup {NoCookie}
<1>1. made \in Nat /\ made <= MaxSessions /\ jar \in 0..made  BY DEF Typed
<1> QED  BY <1>1

LoadDone(t, r) ==
  /\ Sent(r, t, "me", jar)
  /\ calls' = {c \in calls : c.tab # t} \cup {r}
  /\ me'[t] = Nobody /\ loading'[t] /\ ~out'[t]
  /\ \A s \in Tabs \ {t} : Untouched(s)
  /\ UNCHANGED <<jar, sessions>>

LEMMA LoadDoes ==
  ASSUME Typed, NEW t \in Tabs, Load(t)
  PROVE  \E r : LoadDone(t, r)
<1> DEFINE rest == {c \in calls : c.tab # t}
<1>1. PICK n \in Slots : calls' = rest \cup {Request(n, t, "me", Nobody, FALSE, jar)}
  BY DEF Load
<1> DEFINE r == Request(n, t, "me", Nobody, FALSE, jar)
<1>2. Sent(r, t, "me", jar)  BY IsSent, JarIsCookie
<1>3. /\ me' = [me EXCEPT ![t] = Nobody] /\ loading' = [loading EXCEPT ![t] = TRUE]
      /\ busy' = [busy EXCEPT ![t] = FALSE]
      /\ mine' = [mine EXCEPT ![t] = NoCookie] /\ out' = [out EXCEPT ![t] = FALSE]
      /\ UNCHANGED <<jar, sessions>>
  BY DEF Load
<1> DEFINE lost == \E c \in calls : c.tab = t /\ c.op # "me"
<1>4. crossed' = [s \in Tabs |-> IF s = t THEN FALSE ELSE crossed[s] \/ lost]
  BY Zenon DEF Load
<1>5. \A s \in Tabs \ {t} : ~crossed'[s] => ~crossed[s]  BY <1>4, Zenon
<1>6. me'[t] = Nobody /\ loading'[t] /\ ~out'[t]
  BY <1>3 DEF Typed
<1>7. \A s \in Tabs \ {t} : Untouched(s)
  BY <1>3, <1>5 DEF Untouched, Typed
<1>8. LoadDone(t, r)  BY <1>1, <1>2, <1>3, <1>6, <1>7 DEF LoadDone
<1> QED  BY <1>8

SubmitDone(t, r) ==
  /\ me[t] = Nobody /\ ~loading[t] /\ ~busy[t]
  /\ Sent(r, t, "login", NoCookie) /\ r.user \in Users
  /\ calls' = calls \cup {r}
  /\ busy'[t] /\ busy' \in [Tabs -> BOOLEAN]
  /\ \A s \in Tabs \ {t} : Untouched(s)
  /\ UNCHANGED <<jar, sessions, me, loading, needCode, events, history>>

LEMMA SubmitDoes ==
  ASSUME Typed, NEW t \in Tabs, NEW u \in Users, Submit(t, u)
  PROVE  \E r : SubmitDone(t, r)
<1>1. needCode[t] \in BOOLEAN  BY DEF Typed
<1>2. PICK n \in Slots, code \in {FALSE, needCode[t]} :
        calls' = calls \cup {Request(n, t, "login", u, code, NoCookie)}
  BY DEF Submit
<1> DEFINE r == Request(n, t, "login", u, code, NoCookie)
<1>3. code \in BOOLEAN  BY <1>1, <1>2
<1>4. Sent(r, t, "login", NoCookie)  BY <1>3, IsSent
<1>5. r.user = u  BY DEF Request
<1>6. /\ me[t] = Nobody /\ ~loading[t] /\ ~busy[t] /\ busy' = [busy EXCEPT ![t] = TRUE]
      /\ UNCHANGED <<jar, sessions, me, loading, needCode, events, history>>
  BY DEF Submit
<1>7. busy'[t] /\ busy' \in [Tabs -> BOOLEAN]  BY <1>6 DEF Typed
<1>8. \A s \in Tabs \ {t} : Untouched(s)  BY <1>6 DEF Untouched, Typed
<1>9. SubmitDone(t, r)  BY <1>2, <1>4, <1>5, <1>6, <1>7, <1>8 DEF SubmitDone
<1> QED  BY <1>9

LogoutDone(t, r) ==
  /\ me[t] # Nobody
  /\ Sent(r, t, "logout", jar)
  /\ calls' = calls \cup {r}
  /\ UNCHANGED <<jar, sessions, tabs, events, history>>

LEMMA LogoutDoes ==
  ASSUME Typed, NEW t \in Tabs, Logout(t)
  PROVE  \E r : LogoutDone(t, r)
<1>1. PICK n \in Slots : calls' = calls \cup {Request(n, t, "logout", Nobody, FALSE, jar)}
  BY DEF Logout
<1> DEFINE r == Request(n, t, "logout", Nobody, FALSE, jar)
<1>2. Sent(r, t, "logout", jar)  BY IsSent, JarIsCookie
<1>3. me[t] # Nobody /\ UNCHANGED <<jar, sessions, tabs, events, history>>  BY DEF Logout
<1>4. LogoutDone(t, r)  BY <1>1, <1>2, <1>3 DEF LogoutDone
<1> QED  BY <1>4

MeArrived(c) ==
  /\ c.op = "me" /\ calls' = calls \ {c}
  /\ me'[c.tab] # Nobody => c.answer = "ok" /\ me'[c.tab] = c.user
  /\ ~loading'[c.tab] /\ ~busy'[c.tab] /\ mine'[c.tab] = c.session /\ ~out'[c.tab]
  /\ \A s \in Tabs \ {c.tab} : Untouched(s)
  /\ UNCHANGED <<jar, sessions, crossed>>

LEMMA MeArrivesDoes ==
  ASSUME Typed, NEW c \in calls, c.tab \in Tabs, MeArrives(c)
  PROVE  MeArrived(c)
<1>1. /\ c.op = "me" /\ calls' = calls \ {c}
      /\ me' = [me EXCEPT ![c.tab] = IF c.answer = "ok" THEN c.user ELSE Nobody]
      /\ loading' = [loading EXCEPT ![c.tab] = FALSE] /\ busy' = [busy EXCEPT ![c.tab] = FALSE]
      /\ mine' = [mine EXCEPT ![c.tab] = c.session] /\ out' = [out EXCEPT ![c.tab] = FALSE]
      /\ UNCHANGED <<jar, sessions, crossed>>
  BY DEF MeArrives
<1>2. me'[c.tab] # Nobody => c.answer = "ok" /\ me'[c.tab] = c.user  BY <1>1 DEF Typed
<1>3. ~loading'[c.tab] /\ ~busy'[c.tab] /\ mine'[c.tab] = c.session /\ ~out'[c.tab]
  BY <1>1 DEF Typed
<1>4. \A s \in Tabs \ {c.tab} : Untouched(s)  BY <1>1 DEF Untouched, Typed
<1> QED  BY <1>1, <1>2, <1>3, <1>4 DEF MeArrived

LoginArrived(c, r) ==
  /\ Granted(c) /\ jar' = c.session
  /\ Sent(r, c.tab, "me", c.session) /\ calls' = (calls \ {c}) \cup {r}
  /\ \A s \in Tabs : ~crossed'[s] => s = c.tab
  /\ ~out'[c.tab] /\ out' \in [Tabs -> BOOLEAN] /\ crossed' \in [Tabs -> BOOLEAN]
  /\ UNCHANGED <<sessions, tabs, events, mine>>

LEMMA LoginArrivesDoes ==
  ASSUME Typed, NEW c \in calls, c \in Requests, LoginArrives(c)
  PROVE  \E r : LoginArrived(c, r)
<1>1. /\ Granted(c) /\ jar' = c.session
      /\ calls' = (calls \ {c}) \cup {Request(c.slot, c.tab, "me", Nobody, FALSE, c.session)}
      /\ crossed' = [s \in Tabs |-> s # c.tab] /\ out' = [out EXCEPT ![c.tab] = FALSE]
      /\ UNCHANGED <<sessions, tabs, events, mine>>
  BY DEF LoginArrives, Granted
<1> DEFINE r == Request(c.slot, c.tab, "me", Nobody, FALSE, c.session)
<1>2. c.slot \in Slots /\ c.tab \in Tabs /\ c.session \in Ids \cup {NoCookie}  BY DEF Requests
<1>3. Sent(r, c.tab, "me", c.session)  BY <1>2, IsSent
<1>4. \A s \in Tabs : ~crossed'[s] => s = c.tab  BY <1>1, Zenon
<1>5. ~out'[c.tab] /\ out' \in [Tabs -> BOOLEAN]  BY <1>1, <1>2 DEF Typed
<1>6. crossed' \in [Tabs -> BOOLEAN]  BY <1>1
<1>7. LoginArrived(c, r)  BY <1>1, <1>3, <1>4, <1>5, <1>6 DEF LoginArrived
<1> QED  BY <1>7

LoginWasRefused(c) ==
  /\ c.op = "login" /\ calls' = calls \ {c}
  /\ busy' \in [Tabs -> BOOLEAN] /\ needCode' \in [Tabs -> BOOLEAN]
  /\ ~busy'[c.tab]
  /\ \A s \in Tabs \ {c.tab} : busy'[s] = busy[s]
  /\ UNCHANGED <<jar, sessions, me, loading, events, history>>

LEMMA LoginRefusedDoes ==
  ASSUME Typed, NEW c \in calls, c.tab \in Tabs, LoginRefused(c)
  PROVE  LoginWasRefused(c)
<1>1. /\ c.op = "login" /\ calls' = calls \ {c} /\ busy' = [busy EXCEPT ![c.tab] = FALSE]
      /\ UNCHANGED <<jar, sessions, me, loading, events, history>>
  BY DEF LoginRefused
<1>2. needCode' \in [Tabs -> BOOLEAN]
  <2>1. needCode' = [needCode EXCEPT ![c.tab] = needCode[c.tab] \/ c.answer = "totp_required"]
    BY DEF LoginRefused
  <2>2. (needCode[c.tab] \/ c.answer = "totp_required") \in BOOLEAN  OBVIOUS
  <2>3. needCode \in [Tabs -> BOOLEAN]  BY DEF Typed
  <2> QED  BY <2>1, <2>2, <2>3, Zenon
<1>3. busy' \in [Tabs -> BOOLEAN] /\ ~busy'[c.tab] /\ \A s \in Tabs \ {c.tab} : busy'[s] = busy[s]
  BY <1>1 DEF Typed
<1> QED  BY <1>1, <1>2, <1>3 DEF LoginWasRefused

LogoutArrived(c) ==
  /\ c.op = "logout" /\ c.answer # "none" /\ calls' = calls \ {c}
  /\ jar' \in {jar, NoCookie}
  /\ \A s \in Tabs : ~crossed'[s] => s = c.tab /\ jar = c.sent /\ ~crossed[s]
  /\ crossed' \in [Tabs -> BOOLEAN]
  /\ me' \in [Tabs -> Users \cup {Nobody}] /\ out' \in [Tabs -> BOOLEAN]
  /\ me'[c.tab] = Nobody /\ \A s \in Tabs \ {c.tab} : me'[s] = me[s]
  /\ UNCHANGED <<sessions, loading, needCode, busy, events, mine>>

LEMMA LogoutArrivesDoes ==
  ASSUME Typed, NEW c \in calls, c.tab \in Tabs, LogoutArrives(c)
  PROVE  LogoutArrived(c)
<1>1. /\ c.op = "logout" /\ c.answer # "none" /\ calls' = calls \ {c}
      /\ jar' = IF c.answer = "ok" THEN NoCookie ELSE jar
      /\ crossed' = [t \in Tabs |-> crossed[t] \/ t # c.tab \/ jar # c.sent]
      /\ me' = [me EXCEPT ![c.tab] = Nobody] /\ out' = [out EXCEPT ![c.tab] = TRUE]
      /\ UNCHANGED <<sessions, loading, needCode, busy, events, mine>>
  BY DEF LogoutArrives
<1>2. jar' \in {jar, NoCookie}  BY <1>1
<1>3. \A s \in Tabs : ~crossed'[s] => s = c.tab /\ jar = c.sent /\ ~crossed[s]  BY <1>1, Zenon
<1>4. crossed' \in [Tabs -> BOOLEAN]  BY <1>1, Zenon
<1>5. /\ me' \in [Tabs -> Users \cup {Nobody}] /\ out' \in [Tabs -> BOOLEAN]
      /\ me'[c.tab] = Nobody /\ \A s \in Tabs \ {c.tab} : me'[s] = me[s]
  BY <1>1 DEF Typed
<1> QED  BY <1>1, <1>2, <1>3, <1>4, <1>5 DEF LogoutArrived

Lost(c) ==
  /\ calls' = calls \ {c}
  /\ \A s \in Tabs : ~crossed'[s] => ~crossed[s] /\ c.op = "me"
  /\ c.op = "me" => me'[c.tab] = Nobody /\ out' = out
  /\ c.op = "logout" => me'[c.tab] = Nobody /\ UNCHANGED <<loading, busy>>
  /\ c.op = "login" => UNCHANGED <<me, loading>> /\ ~busy'[c.tab]
  /\ \A s \in Tabs \ {c.tab} : Untouched(s)
  /\ UNCHANGED <<jar, sessions, needCode, mine>>

LostTypes ==
  /\ me' \in [Tabs -> Users \cup {Nobody}] /\ out' \in [Tabs -> BOOLEAN]
  /\ loading' \in [Tabs -> BOOLEAN] /\ busy' \in [Tabs -> BOOLEAN]
  /\ crossed' \in [Tabs -> BOOLEAN] /\ events' \in 0..MaxEvents

LEMMA LoseDoes ==
  ASSUME Typed, NEW c \in calls, c \in Requests, Lose(c)
  PROVE  Lost(c) /\ LostTypes
<1>0. c.tab \in Tabs /\ c.op \in {"me", "login", "logout"}  BY DEF Requests
<1>1. /\ calls' = calls \ {c} /\ events' \in 0..MaxEvents
      /\ crossed' = [t \in Tabs |-> crossed[t] \/ c.op # "me"]
      /\ UNCHANGED <<jar, sessions, needCode, mine>>
  BY DEF Lose, Typed
<1>2. \A s \in Tabs : ~crossed'[s] => ~crossed[s] /\ c.op = "me"  BY <1>1, Zenon
<1>3. crossed' \in [Tabs -> BOOLEAN]  BY <1>1, Zenon
<1>4. CASE c.op = "me"
  <2>1. /\ me' = [me EXCEPT ![c.tab] = Nobody] /\ loading' = [loading EXCEPT ![c.tab] = FALSE]
        /\ busy' = [busy EXCEPT ![c.tab] = FALSE] /\ out' = out
    BY <1>4 DEF Lose
  <2>2. me'[c.tab] = Nobody  BY <1>0, <2>1 DEF Typed
  <2>3. \A s \in Tabs \ {c.tab} : Untouched(s)  BY <1>1, <1>2, <2>1 DEF Untouched, Typed
  <2>4. LostTypes  BY <1>1, <1>3, <2>1 DEF LostTypes, Typed
  <2> QED  BY <1>1, <1>2, <1>4, <2>1, <2>2, <2>3, <2>4 DEF Lost
<1>5. CASE c.op = "login"
  <2>1. busy' = [busy EXCEPT ![c.tab] = FALSE] /\ UNCHANGED <<me, loading, out>>
    BY <1>5 DEF Lose
  <2>2. ~busy'[c.tab]  BY <1>0, <2>1 DEF Typed
  <2>3. \A s \in Tabs \ {c.tab} : Untouched(s)  BY <1>1, <1>2, <2>1 DEF Untouched, Typed
  <2>4. LostTypes  BY <1>1, <1>3, <2>1 DEF LostTypes, Typed
  <2> QED  BY <1>1, <1>2, <1>5, <2>1, <2>2, <2>3, <2>4 DEF Lost
<1>6. CASE c.op = "logout"
  <2>1. /\ me' = [me EXCEPT ![c.tab] = Nobody] /\ out' = [out EXCEPT ![c.tab] = TRUE]
        /\ UNCHANGED <<loading, busy>>
    BY <1>6 DEF Lose
  <2>2. me'[c.tab] = Nobody  BY <1>0, <2>1 DEF Typed
  <2>3. \A s \in Tabs \ {c.tab} : Untouched(s)  BY <1>1, <1>2, <2>1 DEF Untouched, Typed
  <2>4. LostTypes  BY <1>1, <1>3, <2>1 DEF LostTypes, Typed
  <2> QED  BY <1>1, <1>2, <1>6, <2>1, <2>2, <2>3, <2>4 DEF Lost
<1> QED  BY <1>0, <1>4, <1>5, <1>6
-----------------------------------------------------------------------------
(* The steps and the parts of the invariant *)

LEMMA CallsTyped ==
  ASSUME Typed, NEW c \in calls
  PROVE  /\ CallType(c, made) /\ Truthful(c, owner)
         /\ c \in Requests /\ c.tab \in Tabs /\ c.op \in {"me", "login", "logout"}
         /\ c.sent \in 0..made /\ c.session \in 0..made
<1>1. CallType(c, made) /\ Truthful(c, owner)  BY DEF Typed
<1>2. c \in Requests  BY <1>1 DEF CallType
<1>3. c.tab \in Tabs /\ c.op \in {"me", "login", "logout"}  BY <1>2 DEF Requests
<1> QED  BY <1>1, <1>2, <1>3 DEF CallType

LEMMA TypedSteps ==
  ASSUME Typed, [Next]_vars
  PROVE  Typed'
<1>0. /\ made \in 0..MaxSessions /\ jar \in 0..made /\ live \subseteq 1..made
      /\ owner \in [Ids -> Users \cup {Nobody}]
      /\ \A i \in 1..made : owner[i] \in Users
      /\ me \in [Tabs -> Users \cup {Nobody}]
      /\ loading \in [Tabs -> BOOLEAN] /\ needCode \in [Tabs -> BOOLEAN] /\ busy \in [Tabs -> BOOLEAN]
      /\ events \in 0..MaxEvents
      /\ mine \in [Tabs -> 0..made]
      /\ out \in [Tabs -> BOOLEAN] /\ crossed \in [Tabs -> BOOLEAN]
      /\ \A c \in calls : CallType(c, made) /\ Truthful(c, owner)
  BY DEF Typed
<1>1. ASSUME NEW t \in Tabs, Load(t) PROVE Typed'
  <2>1. PICK r : LoadDone(t, r)  BY <1>1, LoadDoes
  <2>2. CallType(r, made) /\ Truthful(r, owner)  BY <1>0, <2>1, SentIsTyped DEF LoadDone
  <2>3. \A c \in calls' : CallType(c, made) /\ Truthful(c, owner)  BY <1>0, <2>1, <2>2 DEF LoadDone
  <2>4. /\ me' \in [Tabs -> Users \cup {Nobody}]
        /\ loading' \in [Tabs -> BOOLEAN] /\ needCode' \in [Tabs -> BOOLEAN] /\ busy' \in [Tabs -> BOOLEAN]
        /\ events' \in 0..MaxEvents /\ out' \in [Tabs -> BOOLEAN]
    BY <1>0, <1>1 DEF Load
  <2>5. mine' \in [Tabs -> 0..made]
    <3>1. mine' = [mine EXCEPT ![t] = NoCookie] /\ NoCookie \in 0..made  BY <1>0, <1>1 DEF Load
    <3> QED  BY <1>0, <3>1
  <2>6. crossed' \in [Tabs -> BOOLEAN]
    <3> DEFINE lost == \E c \in calls : c.tab = t /\ c.op # "me"
    <3>1. crossed' = [s \in Tabs |-> IF s = t THEN FALSE ELSE crossed[s] \/ lost]
      BY <1>1, Zenon DEF Load
    <3>2. \A s \in Tabs : (IF s = t THEN FALSE ELSE crossed[s] \/ lost) \in BOOLEAN  OBVIOUS
    <3> QED  BY <3>1, <3>2, Zenon
  <2>7. UNCHANGED <<jar, made, live, owner>>  BY <2>1 DEF LoadDone
  <2> QED  BY <1>0, <2>3, <2>4, <2>5, <2>6, <2>7 DEF Typed
<1>2. ASSUME NEW t \in Tabs, NEW u \in Users, Submit(t, u) PROVE Typed'
  <2>1. PICK r : SubmitDone(t, r)  BY <1>0, <1>2, SubmitDoes
  <2>2. NoCookie \in 0..made  BY <1>0
  <2>3. CallType(r, made) /\ Truthful(r, owner)  BY <1>0, <2>1, <2>2, SentIsTyped DEF SubmitDone
  <2>4. \A c \in calls' : CallType(c, made) /\ Truthful(c, owner)  BY <1>0, <2>1, <2>3 DEF SubmitDone
  <2>5. UNCHANGED <<jar, sessions, me, loading, needCode, events, history>> /\ busy' \in [Tabs -> BOOLEAN]
    BY <2>1 DEF SubmitDone
  <2> QED  BY <1>0, <2>4, <2>5 DEF Typed
<1>3. ASSUME NEW t \in Tabs, Logout(t) PROVE Typed'
  <2>1. PICK r : LogoutDone(t, r)  BY <1>3, LogoutDoes
  <2>2. CallType(r, made) /\ Truthful(r, owner)  BY <1>0, <2>1, SentIsTyped DEF LogoutDone
  <2>3. \A c \in calls' : CallType(c, made) /\ Truthful(c, owner)  BY <1>0, <2>1, <2>2 DEF LogoutDone
  <2>4. UNCHANGED <<jar, sessions, tabs, events, history>>  BY <2>1 DEF LogoutDone
  <2> QED  BY <1>0, <2>3, <2>4 DEF Typed
<1>4. ASSUME NEW c \in calls, Serve(c) PROVE Typed'
  <2>1. PICK d : ServedAs(c, d)  BY <1>4, Served
  <2>2. CASE made' = made /\ live' \subseteq live /\ owner' = owner
    <3>1. Truthful(d, owner) /\ CallType(d, made)  BY <2>1, <2>2 DEF ServedAs, Truthful
    <3>2. \A x \in calls' : CallType(x, made) /\ Truthful(x, owner)  BY <1>0, <2>1, <3>1 DEF ServedAs
    <3>3. UNCHANGED <<jar, tabs, events, history>>  BY <2>1 DEF ServedAs
    <3> QED  BY <1>0, <2>2, <3>2, <3>3 DEF Typed
  <2>3. CASE /\ Granted(d) /\ live' = live \cup {made'} /\ made < MaxSessions
             /\ owner' = [owner EXCEPT ![made'] = c.user] /\ c.user \in Users
    <3>1. made' = made + 1 /\ made \in Nat /\ made' \in 0..MaxSessions /\ made' \in Ids
      BY <1>0, <2>1, <2>3 DEF ServedAs
    <3>2. \A i \in 1..made : owner'[i] = owner[i]  BY <1>0, <2>3, <3>1
    <3>3. owner'[made'] = c.user  BY <1>0, <2>3, <3>1
    <3>4. \A i \in 1..made' : owner'[i] \in Users
      <4>1. \A i \in 1..made' : i \in 1..made \/ i = made'  BY <3>1
      <4> QED  BY <1>0, <2>3, <3>2, <3>3, <4>1
    <3>5. CallType(d, made') /\ Truthful(d, owner')  BY <2>1, <2>3 DEF ServedAs, Truthful, Granted
    <3>6. ASSUME NEW x \in calls PROVE CallType(x, made') /\ Truthful(x, owner')
      <4>1. CallType(x, made) /\ Truthful(x, owner)  BY <1>0
      <4>2. CallType(x, made')  BY <3>1, <4>1 DEF CallType
      <4>3. x.op = "me" /\ x.answer = "ok" => x.sent \in 1..made
        BY <3>1, <4>1 DEF CallType, Truthful
      <4>4. Truthful(x, owner')  BY <3>2, <4>1, <4>3 DEF Truthful
      <4> QED  BY <4>2, <4>4
    <3>7. \A x \in calls' : CallType(x, made') /\ Truthful(x, owner')
      BY <2>1, <3>5, <3>6 DEF ServedAs
    <3>8. UNCHANGED <<jar, tabs, events, history>>  BY <2>1 DEF ServedAs
    <3>9. live' \subseteq 1..made' /\ jar' \in 0..made'
      <4>1. 1..made \subseteq 1..made' /\ 0..made \subseteq 0..made' /\ made' \in 1..made'
        BY <3>1
      <4>2. live \subseteq 1..made /\ jar \in 0..made /\ jar' = jar  BY <1>0, <3>8
      <4> QED  BY <2>3, <4>1, <4>2
    <3>10. mine' \in [Tabs -> 0..made']
      <4>1. 0..made \subseteq 0..made'  BY <3>1
      <4> QED  BY <1>0, <3>8, <4>1
    <3>11. owner' \in [Ids -> Users \cup {Nobody}]  BY <1>0, <2>3
    <3> QED  BY <1>0, <3>1, <3>4, <3>7, <3>8, <3>9, <3>10, <3>11 DEF Typed
  <2> QED  BY <2>1, <2>2, <2>3 DEF ServedAs
<1>5. ASSUME NEW i \in Ids, Expire(i) PROVE Typed'
  <2>1. live' \subseteq live /\ events' \in 0..MaxEvents /\ UNCHANGED <<jar, made, owner, tabs, calls, history>>
    BY <1>0, <1>5 DEF Expire
  <2> QED  BY <1>0, <2>1 DEF Typed
<1>6. ASSUME NEW c \in calls, MeArrives(c) PROVE Typed'
  <2>1. /\ c.session \in 0..made /\ (c.answer = "ok" => c.user \in Users \cup {Nobody})
    BY CallsTyped DEF Requests
  <2>2. /\ me' \in [Tabs -> Users \cup {Nobody}]
        /\ loading' \in [Tabs -> BOOLEAN] /\ busy' \in [Tabs -> BOOLEAN] /\ out' \in [Tabs -> BOOLEAN]
        /\ mine' \in [Tabs -> 0..made]
    BY <1>0, <1>6, <2>1 DEF MeArrives
  <2>3. UNCHANGED <<jar, sessions, events, crossed>> /\ calls' = calls \ {c}  BY <1>6 DEF MeArrives
  <2>4. needCode' \in [Tabs -> BOOLEAN]
    <3>1. needCode' = [needCode EXCEPT ![c.tab] = needCode[c.tab] /\ c.answer # "ok"]
      BY <1>6 DEF MeArrives
    <3>2. (needCode[c.tab] /\ c.answer # "ok") \in BOOLEAN  OBVIOUS
    <3> QED  BY <1>0, <3>1, <3>2, Zenon
  <2> QED  BY <1>0, <2>2, <2>3, <2>4 DEF Typed
<1>7. ASSUME NEW c \in calls, LoginArrives(c) PROVE Typed'
  <2>1. c \in Requests /\ c.session \in 0..made  BY CallsTyped
  <2>2. PICK r : LoginArrived(c, r)  BY <1>7, <2>1, LoginArrivesDoes
  <2>3. CallType(r, made) /\ Truthful(r, owner)
    <3>1. Sent(r, c.tab, "me", c.session)  BY <2>2 DEF LoginArrived
    <3>2. made \in 0..MaxSessions /\ "me" # "login"  BY <1>0
    <3> QED  BY <2>1, <3>1, <3>2, SentIsTyped
  <2>4. \A x \in calls' : CallType(x, made) /\ Truthful(x, owner)  BY <1>0, <2>2, <2>3 DEF LoginArrived
  <2>5. /\ jar' \in 0..made /\ out' \in [Tabs -> BOOLEAN] /\ crossed' \in [Tabs -> BOOLEAN]
        /\ UNCHANGED <<sessions, tabs, events, mine>>
    BY <2>1, <2>2 DEF LoginArrived
  <2> QED  BY <1>0, <2>4, <2>5 DEF Typed
<1>8. ASSUME NEW c \in calls, LoginRefused(c) PROVE Typed'
  <2>1. LoginWasRefused(c)  BY <1>8, CallsTyped, LoginRefusedDoes
  <2> QED  BY <1>0, <2>1 DEF LoginWasRefused, Typed
<1>9. ASSUME NEW c \in calls, LogoutArrives(c) PROVE Typed'
  <2>1. LogoutArrived(c)  BY <1>9, CallsTyped, LogoutArrivesDoes
  <2>2. jar' \in 0..made  BY <1>0, <2>1 DEF LogoutArrived
  <2> QED  BY <1>0, <2>1, <2>2 DEF LogoutArrived, Typed
<1>10. ASSUME NEW c \in calls, Lose(c) PROVE Typed'
  <2>1. Lost(c) /\ LostTypes  BY <1>10, CallsTyped, LoseDoes
  <2> QED  BY <1>0, <2>1 DEF Lost, LostTypes, Typed
<1>11. CASE UNCHANGED vars
  BY <1>0, <1>11 DEF vars, Typed
<1> QED
  BY <1>1, <1>2, <1>3, <1>4, <1>5, <1>6, <1>7, <1>8, <1>9, <1>10, <1>11 DEF Next, Serve, Arrive

LEMMA AsksOnceSteps ==
  ASSUME Typed, AsksOnce, [Next]_vars
  PROVE  AsksOnce'
<1>0. /\ \A t \in Tabs : me[t] # Nobody => ~loading[t] /\ ~busy[t]
      /\ \A c \in calls : Asks(c) => loading[c.tab] \/ busy[c.tab]
      /\ \A c, d \in calls : Asks(c) /\ Asks(d) /\ c.tab = d.tab => c = d
      /\ \A c \in calls : c.tab \in Tabs
  BY CallsTyped DEF AsksOnce, Waiting
<1>1. ASSUME NEW t \in Tabs, Load(t) PROVE AsksOnce'
  <2>1. PICK r : LoadDone(t, r)  BY <1>1, LoadDoes
  <2>2. \A s \in Tabs : me'[s] # Nobody => ~loading'[s] /\ ~busy'[s]
    BY <1>0, <2>1 DEF LoadDone, Untouched
  <2>3. \A c \in calls' : Asks(c) => loading'[c.tab] \/ busy'[c.tab]
    BY <1>0, <2>1 DEF LoadDone, Untouched, Sent
  <2>4. \A c, d \in calls' : Asks(c) /\ Asks(d) /\ c.tab = d.tab => c = d
    BY <1>0, <2>1 DEF LoadDone, Sent
  <2> QED  BY <2>2, <2>3, <2>4 DEF AsksOnce, Waiting
<1>2. ASSUME NEW t \in Tabs, NEW u \in Users, Submit(t, u) PROVE AsksOnce'
  <2>1. PICK r : SubmitDone(t, r)  BY <1>2, SubmitDoes
  <2>2. \A s \in Tabs : me'[s] # Nobody => ~loading'[s] /\ ~busy'[s]
    BY <1>0, <2>1 DEF SubmitDone, Untouched
  <2>3. \A c \in calls' : Asks(c) => loading'[c.tab] \/ busy'[c.tab]
    BY <1>0, <2>1 DEF SubmitDone, Untouched, Sent
  <2>4. \A c \in calls : Asks(c) => c.tab # t
    BY <1>0, <2>1 DEF SubmitDone
  <2>5. \A c, d \in calls' : Asks(c) /\ Asks(d) /\ c.tab = d.tab => c = d
    BY <1>0, <2>1, <2>4 DEF SubmitDone, Sent
  <2> QED  BY <2>2, <2>3, <2>5 DEF AsksOnce, Waiting
<1>3. ASSUME NEW t \in Tabs, Logout(t) PROVE AsksOnce'
  <2>1. PICK r : LogoutDone(t, r)  BY <1>3, LogoutDoes
  <2>2. ~Asks(r)  BY <2>1 DEF LogoutDone, Sent, Asks
  <2>3. calls' = calls \cup {r} /\ UNCHANGED tabs  BY <2>1 DEF LogoutDone
  <2> QED  BY <1>0, <2>2, <2>3 DEF AsksOnce, Waiting
<1>4. ASSUME NEW c \in calls, Serve(c) PROVE AsksOnce'
  <2>1. PICK d : ServedAs(c, d)  BY <1>4, Served
  <2>2. calls' = (calls \ {c}) \cup {d} /\ d.tab = c.tab /\ (Asks(d) <=> Asks(c)) /\ UNCHANGED tabs
    BY <2>1 DEF ServedAs, Asks
  <2>3. \A x, y \in calls' : Asks(x) /\ Asks(y) /\ x.tab = y.tab => x = y
    BY <1>0, <2>2
  <2> QED  BY <1>0, <2>2, <2>3 DEF AsksOnce, Waiting
<1>5. ASSUME UNCHANGED <<me, loading, busy, calls>> PROVE AsksOnce'
  BY <1>0, <1>5 DEF AsksOnce, Waiting
<1>6. ASSUME NEW c \in calls, MeArrives(c) PROVE AsksOnce'
  <2>1. MeArrived(c)  BY <1>0, <1>6, MeArrivesDoes
  <2>2. \A s \in Tabs : me'[s] # Nobody => ~loading'[s] /\ ~busy'[s]
    BY <1>0, <2>1 DEF MeArrived, Untouched
  <2>3. \A x \in calls' : Asks(x) => x.tab # c.tab
    BY <1>0, <2>1 DEF MeArrived, Asks
  <2>4. \A x \in calls' : Asks(x) => loading'[x.tab] \/ busy'[x.tab]
    BY <1>0, <2>1, <2>3 DEF MeArrived, Untouched
  <2>5. \A x, y \in calls' : Asks(x) /\ Asks(y) /\ x.tab = y.tab => x = y
    BY <1>0, <2>1 DEF MeArrived
  <2> QED  BY <2>2, <2>4, <2>5 DEF AsksOnce, Waiting
<1>7. ASSUME NEW c \in calls, LoginArrives(c) PROVE AsksOnce'
  <2>1. PICK r : LoginArrived(c, r)  BY <1>7, CallsTyped, LoginArrivesDoes
  <2>2. /\ calls' = (calls \ {c}) \cup {r} /\ r.tab = c.tab /\ Asks(r) /\ Asks(c)
        /\ UNCHANGED tabs
    BY <2>1 DEF LoginArrived, Sent, Asks, Granted
  <2>3. \A x, y \in calls' : Asks(x) /\ Asks(y) /\ x.tab = y.tab => x = y
    BY <1>0, <2>2
  <2> QED  BY <1>0, <2>2, <2>3 DEF AsksOnce, Waiting
<1>8. ASSUME NEW c \in calls, LoginRefused(c) PROVE AsksOnce'
  <2>1. LoginWasRefused(c)  BY <1>0, <1>8, LoginRefusedDoes
  <2>2. \A s \in Tabs : me'[s] # Nobody => ~loading'[s] /\ ~busy'[s]
    BY <1>0, <2>1 DEF LoginWasRefused
  <2>3. \A x \in calls' : Asks(x) => x.tab # c.tab
    BY <1>0, <2>1 DEF LoginWasRefused, Asks
  <2>4. \A x \in calls' : Asks(x) => loading'[x.tab] \/ busy'[x.tab]
    BY <1>0, <2>1, <2>3 DEF LoginWasRefused
  <2>5. \A x, y \in calls' : Asks(x) /\ Asks(y) /\ x.tab = y.tab => x = y
    BY <1>0, <2>1 DEF LoginWasRefused
  <2> QED  BY <2>2, <2>4, <2>5 DEF AsksOnce, Waiting
<1>9. ASSUME NEW c \in calls, LogoutArrives(c) PROVE AsksOnce'
  <2>1. LogoutArrived(c)  BY <1>0, <1>9, LogoutArrivesDoes
  <2>2. \A s \in Tabs : me'[s] # Nobody => ~loading'[s] /\ ~busy'[s]
    BY <1>0, <2>1 DEF LogoutArrived
  <2>3. calls' \subseteq calls /\ loading' = loading /\ busy' = busy  BY <2>1 DEF LogoutArrived
  <2> QED  BY <1>0, <2>2, <2>3 DEF AsksOnce, Waiting
<1>10. ASSUME NEW c \in calls, Lose(c) PROVE AsksOnce'
  <2>1. Lost(c)  BY <1>10, CallsTyped, LoseDoes
  <2>2. c.op \in {"me", "login", "logout"} /\ calls' = calls \ {c}  BY <2>1, CallsTyped DEF Lost
  <2>3. ASSUME NEW s \in Tabs, me'[s] # Nobody PROVE ~loading'[s] /\ ~busy'[s]
    <3>1. CASE s # c.tab  BY <1>0, <2>1, <2>3, <3>1 DEF Lost, Untouched
    <3>2. CASE s = c.tab
      <4>1. c.op = "login" /\ UNCHANGED <<me, loading>> /\ ~busy'[s]  BY <2>1, <2>2, <2>3, <3>2 DEF Lost
      <4> QED  BY <1>0, <2>3, <4>1
    <3> QED  BY <3>1, <3>2
  <2>4. ASSUME NEW x \in calls', Asks(x) PROVE loading'[x.tab] \/ busy'[x.tab]
    <3>1. x \in calls /\ x # c  BY <2>2
    <3>2. loading[x.tab] \/ busy[x.tab]  BY <1>0, <2>4, <3>1
    <3>3. CASE x.tab # c.tab  BY <1>0, <2>1, <3>1, <3>2, <3>3 DEF Lost, Untouched
    <3>4. CASE x.tab = c.tab
      <4>1. ~Asks(c)  BY <1>0, <2>4, <3>1, <3>4
      <4>2. c.op = "logout"  BY <2>2, <4>1 DEF Asks
      <4> QED  BY <2>1, <3>2, <4>2 DEF Lost
    <3> QED  BY <3>3, <3>4
  <2> QED  BY <1>0, <2>2, <2>3, <2>4 DEF AsksOnce, Waiting
<1> QED
  BY <1>1, <1>2, <1>3, <1>4, <1>5, <1>6, <1>7, <1>8, <1>9, <1>10
  DEF Next, Arrive, Expire, vars
LEMMA FreshLoginsSteps ==
  ASSUME Typed, FreshLogins, [Next]_vars
  PROVE  FreshLogins'
<1>0. /\ \A x \in calls : Granted(x) =>
           /\ jar # x.session
           /\ \A d \in calls : d.sent # x.session /\ (Granted(d) /\ d.session = x.session => d = x)
      /\ \A x \in calls : Granted(x) => x.session # NoCookie
      /\ \A x \in calls : x.sent \in 0..made /\ x.session \in 0..made
      /\ made \in Nat /\ jar \in 0..made
  BY CallsTyped DEF FreshLogins, Fresh, CallType, Typed
<1>1. ASSUME NEW r, calls' \subseteq calls \cup {r}, ~Granted(r), UNCHANGED jar, r.sent \in {jar, NoCookie}
      PROVE  FreshLogins'
  BY <1>0, <1>1 DEF FreshLogins, Fresh
<1>2. ASSUME calls' \subseteq calls, jar' \in {jar, NoCookie} PROVE FreshLogins'
  BY <1>0, <1>2 DEF FreshLogins, Fresh
<1>3. ASSUME NEW t \in Tabs, Load(t) PROVE FreshLogins'
  <2>1. PICK r : LoadDone(t, r)  BY <1>3, LoadDoes
  <2>2. calls' \subseteq calls \cup {r} /\ ~Granted(r) /\ UNCHANGED jar /\ r.sent = jar
    BY <2>1 DEF LoadDone, Sent, Granted
  <2> QED  BY <1>1, <2>2
<1>4. ASSUME NEW t \in Tabs, NEW u \in Users, Submit(t, u) PROVE FreshLogins'
  <2>1. PICK r : SubmitDone(t, r)  BY <1>4, SubmitDoes
  <2>2. calls' \subseteq calls \cup {r} /\ ~Granted(r) /\ UNCHANGED jar /\ r.sent = NoCookie
    BY <2>1 DEF SubmitDone, Sent, Granted
  <2> QED  BY <1>1, <2>2
<1>5. ASSUME NEW t \in Tabs, Logout(t) PROVE FreshLogins'
  <2>1. PICK r : LogoutDone(t, r)  BY <1>5, LogoutDoes
  <2>2. calls' \subseteq calls \cup {r} /\ ~Granted(r) /\ UNCHANGED jar /\ r.sent = jar
    BY <2>1 DEF LogoutDone, Sent, Granted
  <2> QED  BY <1>1, <2>2
<1>6. ASSUME NEW c \in calls, Serve(c) PROVE FreshLogins'
  <2>1. PICK d : ServedAs(c, d)  BY <1>6, Served
  <2>2. /\ calls' = (calls \ {c}) \cup {d} /\ d.sent = c.sent /\ UNCHANGED jar
        /\ Granted(d) => d.session = made + 1
    BY <2>1 DEF ServedAs
  <2>3. made + 1 \notin 0..made  BY <1>0
  <2>4. ASSUME NEW x \in calls', Granted(x)
        PROVE  jar # x.session /\ \A y \in calls' : y.sent # x.session
    <3>1. CASE x = d  BY <1>0, <2>2, <2>3, <2>4, <3>1
    <3>2. CASE x # d  BY <1>0, <2>2, <2>4, <3>2
    <3> QED  BY <3>1, <3>2
  <2>5. ASSUME NEW x \in calls', Granted(x), NEW y \in calls', Granted(y), y.session = x.session
        PROVE  y = x
    <3>1. CASE x = d /\ y # d  BY <1>0, <2>2, <2>3, <2>5, <3>1
    <3>2. CASE x # d /\ y = d  BY <1>0, <2>2, <2>3, <2>5, <3>2
    <3>3. CASE x # d /\ y # d  BY <1>0, <2>2, <2>5, <3>3
    <3> QED  BY <3>1, <3>2, <3>3
  <2> QED  BY <2>2, <2>4, <2>5 DEF FreshLogins, Fresh
<1>7. ASSUME NEW c \in calls, MeArrives(c) \/ LoginRefused(c) PROVE FreshLogins'
  <2>1. calls' \subseteq calls /\ jar' = jar  BY <1>7 DEF MeArrives, LoginRefused
  <2> QED  BY <1>2, <2>1
<1>8. ASSUME NEW c \in calls, LoginArrives(c) PROVE FreshLogins'
  <2>1. PICK r : LoginArrived(c, r)  BY <1>8, CallsTyped, LoginArrivesDoes
  <2>2. /\ calls' = (calls \ {c}) \cup {r} /\ ~Granted(r) /\ r.sent = c.session
        /\ jar' = c.session /\ Granted(c)
    BY <2>1 DEF LoginArrived, Sent, Granted
  <2>3. \A x \in calls' : Granted(x) => x.session # c.session  BY <1>0, <2>2
  <2> QED  BY <1>0, <2>2, <2>3 DEF FreshLogins, Fresh
<1>9. ASSUME NEW c \in calls, LogoutArrives(c) PROVE FreshLogins'
  <2>1. LogoutArrived(c)  BY <1>9, CallsTyped, LogoutArrivesDoes
  <2> QED  BY <1>2, <2>1 DEF LogoutArrived
<1>10. ASSUME NEW c \in calls, Lose(c) PROVE FreshLogins'
  <2>1. Lost(c)  BY <1>10, CallsTyped, LoseDoes
  <2> QED  BY <1>2, <2>1 DEF Lost
<1>11. CASE UNCHANGED <<jar, calls>>
  BY <1>2, <1>11
<1> QED
  BY <1>3, <1>4, <1>5, <1>6, <1>7, <1>8, <1>9, <1>10, <1>11 DEF Next, Arrive, Expire, vars

LEMMA EndedSteps ==
  ASSUME Typed, Ended, [Next]_vars
  PROVE  Ended'
<1>0. /\ \A x \in calls : x.op = "logout" /\ x.answer # "none" => x.sent \notin live
      /\ \A x \in calls : x.sent \in 0..made
      /\ made \in Nat
  BY CallsTyped DEF Ended, Typed
<1>1. ASSUME NEW r, calls' \subseteq calls \cup {r}, r.op = "logout" => r.answer = "none", live' \subseteq live
      PROVE  Ended'
  BY <1>0, <1>1 DEF Ended
<1>2. ASSUME calls' \subseteq calls, live' \subseteq live PROVE Ended'
  BY <1>0, <1>2 DEF Ended
<1>3. ASSUME NEW t \in Tabs, Load(t) PROVE Ended'
  <2>1. PICK r : LoadDone(t, r)  BY <1>3, LoadDoes
  <2> QED  BY <1>1, <2>1 DEF LoadDone, Sent
<1>4. ASSUME NEW t \in Tabs, NEW u \in Users, Submit(t, u) PROVE Ended'
  <2>1. PICK r : SubmitDone(t, r)  BY <1>4, SubmitDoes
  <2> QED  BY <1>1, <2>1 DEF SubmitDone, Sent
<1>5. ASSUME NEW t \in Tabs, Logout(t) PROVE Ended'
  <2>1. PICK r : LogoutDone(t, r)  BY <1>5, LogoutDoes
  <2> QED  BY <1>1, <2>1 DEF LogoutDone, Sent
<1>6. ASSUME NEW c \in calls, Serve(c) PROVE Ended'
  <2>1. PICK d : ServedAs(c, d)  BY <1>6, Served
  <2>2. /\ calls' = (calls \ {c}) \cup {d} /\ (d.op = "logout" => d.sent \notin live')
        /\ live' \subseteq live \cup {made + 1}
    BY <2>1 DEF ServedAs
  <2>3. \A x \in calls : x.sent # made + 1  BY <1>0
  <2> QED  BY <1>0, <2>2, <2>3 DEF Ended
<1>7. ASSUME NEW c \in calls, MeArrives(c) \/ LoginRefused(c) PROVE Ended'
  <2>1. calls' \subseteq calls /\ live' = live  BY <1>7 DEF MeArrives, LoginRefused
  <2> QED  BY <1>2, <2>1
<1>8. ASSUME NEW c \in calls, LoginArrives(c) PROVE Ended'
  <2>1. PICK r : LoginArrived(c, r)  BY <1>8, CallsTyped, LoginArrivesDoes
  <2> QED  BY <1>1, <2>1 DEF LoginArrived, Sent
<1>9. ASSUME NEW c \in calls, LogoutArrives(c) PROVE Ended'
  <2>1. LogoutArrived(c)  BY <1>9, CallsTyped, LogoutArrivesDoes
  <2> QED  BY <1>2, <2>1 DEF LogoutArrived
<1>10. ASSUME NEW c \in calls, Lose(c) PROVE Ended'
  <2>1. Lost(c)  BY <1>10, CallsTyped, LoseDoes
  <2> QED  BY <1>2, <2>1 DEF Lost
<1>11. ASSUME NEW i \in Ids, Expire(i) PROVE Ended'
  <2>1. calls' \subseteq calls /\ live' \subseteq live  BY <1>11 DEF Expire
  <2> QED  BY <1>2, <2>1
<1>12. CASE UNCHANGED <<live, calls>>
  BY <1>2, <1>12
<1> QED
  BY <1>3, <1>4, <1>5, <1>6, <1>7, <1>8, <1>9, <1>10, <1>11, <1>12 DEF Next, Arrive, vars

LEMMA ToldSteps ==
  ASSUME Typed, AsksOnce, OldSignOuts, Told, [Next]_vars
  PROVE  Told'
<1>0. /\ \A x \in calls : x.op = "me" /\ ~crossed[x.tab] => x.sent = jar
      /\ \A t \in Tabs : me[t] # Nobody /\ ~crossed[t] => mine[t] = jar /\ jar # NoCookie /\ owner[jar] = me[t]
      /\ \A x, y \in calls : Asks(x) /\ Asks(y) /\ x.tab = y.tab => x = y
      /\ \A x \in calls : Asks(x) => me[x.tab] = Nobody
      /\ \A x \in calls : x.tab \in Tabs
      /\ jar \in 0..made /\ made \in Nat
  BY CallsTyped DEF Told, AsksOnce, Waiting, Typed
<1>1. ASSUME NEW t \in Tabs, Load(t) PROVE Told'
  <2>1. PICK r : LoadDone(t, r)  BY <1>1, LoadDoes
  <2>2. \A x \in calls' : x.op = "me" /\ ~crossed'[x.tab] => x.sent = jar'
    BY <1>0, <2>1 DEF LoadDone, Sent, Untouched
  <2>3. \A s \in Tabs : me'[s] # Nobody /\ ~crossed'[s] => mine'[s] = jar' /\ jar' # NoCookie /\ owner'[jar'] = me'[s]
    BY <1>0, <2>1 DEF LoadDone, Untouched
  <2> QED  BY <2>2, <2>3 DEF Told
<1>2. ASSUME NEW t \in Tabs, NEW u \in Users, Submit(t, u) PROVE Told'
  <2>1. PICK r : SubmitDone(t, r)  BY <1>2, SubmitDoes
  <2> QED  BY <1>0, <2>1 DEF SubmitDone, Sent, Told
<1>3. ASSUME NEW t \in Tabs, Logout(t) PROVE Told'
  <2>1. PICK r : LogoutDone(t, r)  BY <1>3, LogoutDoes
  <2> QED  BY <1>0, <2>1 DEF LogoutDone, Sent, Told
<1>4. ASSUME NEW c \in calls, Serve(c) PROVE Told'
  <2>1. PICK d : ServedAs(c, d)  BY <1>4, Served
  <2>2. /\ calls' = (calls \ {c}) \cup {d} /\ d.op = c.op /\ d.tab = c.tab /\ d.sent = c.sent
        /\ UNCHANGED <<jar, tabs, events, history>>
    BY <2>1 DEF ServedAs
  <2>3. owner'[jar] = owner[jar] \/ jar = NoCookie
    <3>1. CASE owner' = owner  BY <3>1
    <3>2. CASE made' = made + 1 /\ owner' = [owner EXCEPT ![made'] = c.user]
      <4>1. jar # made'  BY <1>0, <3>2
      <4>2. jar \in Ids \cup {NoCookie} /\ owner \in [Ids -> Users \cup {Nobody}]
        BY JarIsCookie DEF Typed
      <4> QED  BY <3>2, <4>1, <4>2
    <3> QED  BY <2>1, <3>1, <3>2 DEF ServedAs
  <2> QED  BY <1>0, <2>2, <2>3 DEF Told
<1>5. ASSUME UNCHANGED <<jar, owner, me, mine, crossed, calls>> PROVE Told'
  BY <1>0, <1>5 DEF Told
<1>6. ASSUME NEW c \in calls, MeArrives(c) PROVE Told'
  <2>1. MeArrived(c)  BY <1>0, <1>6, MeArrivesDoes
  <2>2. Truthful(c, owner)  BY CallsTyped
  <2>3. \A s \in Tabs : me'[s] # Nobody /\ ~crossed'[s] => mine'[s] = jar' /\ jar' # NoCookie /\ owner'[jar'] = me'[s]
    BY <1>0, <2>1, <2>2 DEF MeArrived, Truthful, Untouched
  <2>4. \A x \in calls' : x.op = "me" /\ ~crossed'[x.tab] => x.sent = jar'
    BY <1>0, <2>1 DEF MeArrived
  <2> QED  BY <2>3, <2>4 DEF Told
<1>7. ASSUME NEW c \in calls, LoginArrives(c) PROVE Told'
  <2>1. PICK r : LoginArrived(c, r)  BY <1>7, CallsTyped, LoginArrivesDoes
  <2>2. /\ calls' = (calls \ {c}) \cup {r} /\ r.sent = c.session /\ jar' = c.session
        /\ \A s \in Tabs : ~crossed'[s] => s = c.tab
        /\ me' = me /\ Asks(c)
    BY <2>1 DEF LoginArrived, Sent, Granted, Asks
  <2>3. \A x \in calls' : x.op = "me" /\ ~crossed'[x.tab] => x.sent = jar'
    <3> SUFFICES ASSUME NEW x \in calls \ {c}, x.op = "me", ~crossed'[x.tab] PROVE FALSE
      BY <2>2
    <3>1. x.tab = c.tab /\ Asks(x)  BY <1>0, <2>2 DEF Asks
    <3> QED  BY <1>0, <2>2, <3>1
  <2>4. \A s \in Tabs : ~crossed'[s] => me'[s] = Nobody  BY <1>0, <2>2
  <2> QED  BY <2>3, <2>4 DEF Told
<1>8. ASSUME NEW c \in calls, LoginRefused(c) PROVE Told'
  <2>1. LoginWasRefused(c)  BY <1>0, <1>8, LoginRefusedDoes
  <2> QED  BY <1>0, <2>1 DEF LoginWasRefused, Told
<1>9. ASSUME NEW c \in calls, LogoutArrives(c) PROVE Told'
  <2>1. LogoutArrived(c)  BY <1>0, <1>9, LogoutArrivesDoes
  <2>2. \A x \in calls' : ~(x.op = "me" /\ ~crossed'[x.tab])
    <3> SUFFICES ASSUME NEW x \in calls, x.op = "me", ~crossed'[x.tab] PROVE FALSE
      BY <2>1 DEF LogoutArrived
    <3>1. x.tab = c.tab /\ c.sent = jar /\ ~crossed[x.tab] /\ c.op = "logout"
      BY <1>0, <2>1 DEF LogoutArrived
    <3> QED  BY <3>1 DEF OldSignOuts
  <2>3. \A s \in Tabs : ~crossed'[s] => me'[s] = Nobody  BY <2>1 DEF LogoutArrived
  <2> QED  BY <2>2, <2>3 DEF Told
<1>10. ASSUME NEW c \in calls, Lose(c) PROVE Told'
  <2>1. Lost(c)  BY <1>10, CallsTyped, LoseDoes
  <2>2. \A x \in calls' : x.op = "me" /\ ~crossed'[x.tab] => x.sent = jar'
    BY <1>0, <2>1 DEF Lost
  <2>3. \A s \in Tabs : me'[s] # Nobody /\ ~crossed'[s] => mine'[s] = jar' /\ jar' # NoCookie /\ owner'[jar'] = me'[s]
    BY <1>0, <2>1 DEF Lost, Untouched
  <2> QED  BY <2>2, <2>3 DEF Told
<1> QED
  BY <1>1, <1>2, <1>3, <1>4, <1>5, <1>6, <1>7, <1>8, <1>9, <1>10 DEF Next, Arrive, Expire, vars

LEMMA OldSignOutsSteps ==
  ASSUME Typed, AsksOnce, FreshLogins, OldSignOuts, [Next]_vars
  PROVE  OldSignOuts'
<1>0. /\ \A x, y \in calls : x.op = "me" /\ y.op = "logout" /\ x.tab = y.tab /\ ~crossed[x.tab] => y.sent # jar
      /\ \A x \in calls : x.op = "me" => me[x.tab] = Nobody
      /\ \A x \in calls : x.tab \in Tabs
  BY CallsTyped DEF OldSignOuts, AsksOnce, Asks, Waiting
<1>1. ASSUME calls' \subseteq calls, jar' = jar, \A s \in Tabs : ~crossed'[s] => ~crossed[s] PROVE OldSignOuts'
  BY <1>0, <1>1 DEF OldSignOuts
<1>2. ASSUME NEW t \in Tabs, Load(t) PROVE OldSignOuts'
  <2>1. PICK r : LoadDone(t, r)  BY <1>2, LoadDoes
  <2>2. /\ calls' = {c \in calls : c.tab # t} \cup {r} /\ r.op = "me" /\ r.tab = t /\ jar' = jar
        /\ \A s \in Tabs \ {t} : ~crossed'[s] => ~crossed[s]
    BY <2>1 DEF LoadDone, Sent, Untouched
  <2> QED  BY <1>0, <2>2 DEF OldSignOuts
<1>3. ASSUME NEW t \in Tabs, NEW u \in Users, Submit(t, u) PROVE OldSignOuts'
  <2>1. PICK r : SubmitDone(t, r)  BY <1>3, SubmitDoes
  <2>2. calls' = calls \cup {r} /\ r.op = "login" /\ UNCHANGED <<jar, crossed>>
    BY <2>1 DEF SubmitDone, Sent
  <2> QED  BY <1>0, <2>2 DEF OldSignOuts
<1>4. ASSUME NEW t \in Tabs, Logout(t) PROVE OldSignOuts'
  <2>1. PICK r : LogoutDone(t, r)  BY <1>4, LogoutDoes
  <2>2. /\ calls' = calls \cup {r} /\ r.op = "logout" /\ r.tab = t /\ UNCHANGED <<jar, crossed>>
        /\ me[t] # Nobody
    BY <2>1 DEF LogoutDone, Sent
  <2>3. \A x \in calls : x.op = "me" => x.tab # t  BY <1>0, <2>2
  <2> QED  BY <1>0, <2>2, <2>3 DEF OldSignOuts
<1>5. ASSUME NEW c \in calls, Serve(c) PROVE OldSignOuts'
  <2>1. PICK d : ServedAs(c, d)  BY <1>5, Served
  <2>2. /\ calls' = (calls \ {c}) \cup {d} /\ d.op = c.op /\ d.tab = c.tab /\ d.sent = c.sent
        /\ UNCHANGED <<jar, crossed>>
    BY <2>1 DEF ServedAs
  <2> QED  BY <1>0, <2>2 DEF OldSignOuts
<1>6. ASSUME NEW c \in calls, MeArrives(c) \/ LoginRefused(c) PROVE OldSignOuts'
  <2>1. calls' \subseteq calls /\ UNCHANGED <<jar, crossed>>  BY <1>6 DEF MeArrives, LoginRefused
  <2> QED  BY <1>1, <2>1
<1>7. ASSUME NEW c \in calls, LoginArrives(c) PROVE OldSignOuts'
  <2>1. PICK r : LoginArrived(c, r)  BY <1>7, CallsTyped, LoginArrivesDoes
  <2>2. calls' = (calls \ {c}) \cup {r} /\ r.op = "me" /\ jar' = c.session /\ Granted(c)
    BY <2>1 DEF LoginArrived, Sent
  <2>3. \A x \in calls : x.sent # c.session  BY <2>2 DEF FreshLogins, Fresh
  <2> QED  BY <2>2, <2>3 DEF OldSignOuts
<1>8. ASSUME NEW c \in calls, LogoutArrives(c) PROVE OldSignOuts'
  <2>1. LogoutArrived(c)  BY <1>0, <1>8, LogoutArrivesDoes
  <2>2. \A x \in calls' : ~(x.op = "me" /\ ~crossed'[x.tab])
    <3> SUFFICES ASSUME NEW x \in calls, x.op = "me", ~crossed'[x.tab] PROVE FALSE
      BY <2>1 DEF LogoutArrived
    <3>1. x.tab = c.tab /\ c.sent = jar /\ ~crossed[x.tab] /\ c.op = "logout"
      BY <1>0, <2>1 DEF LogoutArrived
    <3> QED  BY <1>0, <3>1
  <2> QED  BY <2>2 DEF OldSignOuts
<1>9. ASSUME NEW c \in calls, Lose(c) PROVE OldSignOuts'
  <2>1. Lost(c)  BY <1>9, CallsTyped, LoseDoes
  <2> QED  BY <1>1, <2>1 DEF Lost
<1>10. CASE UNCHANGED <<jar, calls, crossed>>
  BY <1>1, <1>10
<1> QED
  BY <1>2, <1>3, <1>4, <1>5, <1>6, <1>7, <1>8, <1>9, <1>10 DEF Next, Arrive, Expire, vars, history

LEMMA SignOutsOfMineSteps ==
  ASSUME Typed, FreshLogins, Ended, Told, OldSignOuts, SignOutsOfMine, [Next]_vars
  PROVE  SignOutsOfMine'
<1>0. /\ \A x \in calls : x.op = "logout" /\ ~crossed[x.tab] /\ x.sent = jar
                          => mine[x.tab] = jar \/ mine[x.tab] \notin live
      /\ \A x \in calls : x.tab \in Tabs
      /\ \A t \in Tabs : mine[t] \in 0..made
      /\ made \in Nat
  BY CallsTyped DEF SignOutsOfMine, Typed
<1>1. ASSUME calls' \subseteq calls, live' \subseteq live, UNCHANGED <<jar, mine>>,
             \A s \in Tabs : ~crossed'[s] => ~crossed[s]
      PROVE  SignOutsOfMine'
  BY <1>0, <1>1 DEF SignOutsOfMine
<1>2. ASSUME NEW t \in Tabs, Load(t) PROVE SignOutsOfMine'
  <2>1. PICK r : LoadDone(t, r)  BY <1>2, LoadDoes
  <2>2. /\ calls' = {c \in calls : c.tab # t} \cup {r} /\ r.op = "me" /\ jar' = jar /\ live' = live
        /\ \A s \in Tabs \ {t} : (~crossed'[s] => ~crossed[s]) /\ mine'[s] = mine[s]
    BY <2>1 DEF LoadDone, Sent, Untouched
  <2> QED  BY <1>0, <2>2 DEF SignOutsOfMine
<1>3. ASSUME NEW t \in Tabs, NEW u \in Users, Submit(t, u) PROVE SignOutsOfMine'
  <2>1. PICK r : SubmitDone(t, r)  BY <1>3, SubmitDoes
  <2>2. calls' = calls \cup {r} /\ r.op = "login" /\ UNCHANGED <<jar, live, crossed, mine>>
    BY <2>1 DEF SubmitDone, Sent
  <2> QED  BY <1>0, <2>2 DEF SignOutsOfMine
<1>4. ASSUME NEW t \in Tabs, Logout(t) PROVE SignOutsOfMine'
  <2>1. PICK r : LogoutDone(t, r)  BY <1>4, LogoutDoes
  <2>2. /\ calls' = calls \cup {r} /\ r.op = "logout" /\ r.tab = t /\ me[t] # Nobody
        /\ UNCHANGED <<jar, live, crossed, mine>>
    BY <2>1 DEF LogoutDone, Sent
  <2>3. ~crossed[t] => mine[t] = jar  BY <2>2 DEF Told
  <2> QED  BY <1>0, <2>2, <2>3 DEF SignOutsOfMine
<1>5. ASSUME NEW c \in calls, Serve(c) PROVE SignOutsOfMine'
  <2>1. PICK d : ServedAs(c, d)  BY <1>5, Served
  <2>2. /\ calls' = (calls \ {c}) \cup {d} /\ d.op = c.op /\ d.tab = c.tab /\ d.sent = c.sent
        /\ UNCHANGED <<jar, crossed, mine>> /\ live' \subseteq live \cup {made + 1}
    BY <2>1 DEF ServedAs
  <2>3. \A t \in Tabs : mine[t] # made + 1  BY <1>0
  <2> QED  BY <1>0, <2>2, <2>3 DEF SignOutsOfMine
<1>6. ASSUME NEW c \in calls, MeArrives(c) PROVE SignOutsOfMine'
  <2>1. MeArrived(c)  BY <1>0, <1>6, MeArrivesDoes
  <2>2. \A x \in calls : x.op = "logout" /\ ~crossed[x.tab] /\ x.sent = jar => x.tab # c.tab
    BY <2>1 DEF OldSignOuts, MeArrived
  <2>3. /\ calls' = calls \ {c} /\ UNCHANGED <<jar, live, crossed>>
        /\ \A s \in Tabs \ {c.tab} : mine'[s] = mine[s]
    BY <2>1 DEF MeArrived, Untouched
  <2> QED  BY <1>0, <2>2, <2>3 DEF SignOutsOfMine
<1>7. ASSUME NEW c \in calls, LoginArrives(c) PROVE SignOutsOfMine'
  <2>1. PICK r : LoginArrived(c, r)  BY <1>7, CallsTyped, LoginArrivesDoes
  <2>2. calls' = (calls \ {c}) \cup {r} /\ r.op = "me" /\ jar' = c.session /\ Granted(c)
    BY <2>1 DEF LoginArrived, Sent
  <2>3. \A x \in calls : x.sent # c.session  BY <2>2 DEF FreshLogins, Fresh
  <2> QED  BY <2>2, <2>3 DEF SignOutsOfMine
<1>8. ASSUME NEW c \in calls, LoginRefused(c) PROVE SignOutsOfMine'
  <2>1. LoginWasRefused(c)  BY <1>0, <1>8, LoginRefusedDoes
  <2> QED  BY <1>1, <2>1 DEF LoginWasRefused
<1>9. ASSUME NEW c \in calls, LogoutArrives(c) PROVE SignOutsOfMine'
  <2>1. LogoutArrived(c)  BY <1>0, <1>9, LogoutArrivesDoes
  <2>2. ASSUME NEW s \in Tabs, ~crossed'[s] PROVE mine[s] \notin live
    <3>1. s = c.tab /\ jar = c.sent /\ ~crossed[s] /\ c.op = "logout" /\ c.answer # "none"
      BY <2>1, <2>2 DEF LogoutArrived
    <3>2. c.sent \notin live  BY <3>1 DEF Ended
    <3> QED  BY <1>0, <3>1, <3>2
  <2>3. calls' \subseteq calls /\ UNCHANGED <<mine, live>>  BY <2>1 DEF LogoutArrived
  <2> QED  BY <1>0, <2>2, <2>3 DEF SignOutsOfMine
<1>10. ASSUME NEW c \in calls, Lose(c) PROVE SignOutsOfMine'
  <2>1. Lost(c)  BY <1>10, CallsTyped, LoseDoes
  <2> QED  BY <1>1, <2>1 DEF Lost
<1>11. ASSUME NEW i \in Ids, Expire(i) PROVE SignOutsOfMine'
  <2>1. calls' \subseteq calls /\ live' \subseteq live /\ UNCHANGED <<jar, mine, crossed>>
    BY <1>11 DEF Expire
  <2> QED  BY <1>1, <2>1
<1>12. CASE UNCHANGED <<jar, live, calls, mine, crossed>>
  BY <1>1, <1>12
<1> QED
  BY <1>2, <1>3, <1>4, <1>5, <1>6, <1>7, <1>8, <1>9, <1>10, <1>11, <1>12 DEF Next, Arrive, vars

LEMMA SignedOutSteps ==
  ASSUME Typed, Ended, SignOutsOfMine, SignedOutIsOut, [Next]_vars
  PROVE  SignedOutIsOut'
<1>0. /\ \A t \in Tabs : out[t] /\ ~crossed[t] => mine[t] \notin live /\ jar \notin live
      /\ \A x \in calls : x.tab \in Tabs
      /\ \A t \in Tabs : mine[t] \in 0..made
      /\ made \in Nat /\ jar \in 0..made /\ NoCookie \notin live
  BY CallsTyped DEF SignedOutIsOut, Typed
<1>1. ASSUME live' \subseteq live \cup {made + 1}, UNCHANGED jar,
             \A s \in Tabs : out'[s] /\ ~crossed'[s] => out[s] /\ ~crossed[s] /\ mine'[s] = mine[s]
      PROVE  SignedOutIsOut'
  <2>1. jar # made + 1 /\ \A t \in Tabs : mine[t] # made + 1  BY <1>0
  <2> QED  BY <1>0, <1>1, <2>1 DEF SignedOutIsOut
<1>2. ASSUME NEW t \in Tabs, Load(t) PROVE SignedOutIsOut'
  <2>1. PICK r : LoadDone(t, r)  BY <1>2, LoadDoes
  <2>2. \A s \in Tabs : out'[s] /\ ~crossed'[s] => out[s] /\ ~crossed[s] /\ mine'[s] = mine[s]
    BY <2>1 DEF LoadDone, Untouched
  <2> QED  BY <1>1, <2>1, <2>2 DEF LoadDone
<1>3. ASSUME NEW c \in calls, Serve(c) PROVE SignedOutIsOut'
  <2>1. PICK d : ServedAs(c, d)  BY <1>3, Served
  <2>2. live' \subseteq live \cup {made + 1} /\ UNCHANGED <<jar, out, crossed, mine>>
    BY <2>1 DEF ServedAs
  <2> QED  BY <1>1, <2>2
<1>4. ASSUME live' \subseteq live, UNCHANGED <<jar, history>> PROVE SignedOutIsOut'
  BY <1>1, <1>4
<1>5. ASSUME NEW t \in Tabs, (\E u \in Users : Submit(t, u)) \/ Logout(t) PROVE SignedOutIsOut'
  <2>1. UNCHANGED <<jar, live, history>>  BY <1>5 DEF Submit, Logout
  <2> QED  BY <1>4, <2>1
<1>6. ASSUME NEW c \in calls, MeArrives(c) PROVE SignedOutIsOut'
  <2>1. MeArrived(c)  BY <1>0, <1>6, MeArrivesDoes
  <2>2. \A s \in Tabs : out'[s] /\ ~crossed'[s] => out[s] /\ ~crossed[s] /\ mine'[s] = mine[s]
    BY <2>1 DEF MeArrived, Untouched
  <2> QED  BY <1>1, <2>1, <2>2 DEF MeArrived
<1>7. ASSUME NEW c \in calls, LoginArrives(c) PROVE SignedOutIsOut'
  <2>1. PICK r : LoginArrived(c, r)  BY <1>7, CallsTyped, LoginArrivesDoes
  <2> QED  BY <2>1 DEF LoginArrived, SignedOutIsOut
<1>8. ASSUME NEW c \in calls, LoginRefused(c) PROVE SignedOutIsOut'
  <2>1. LoginWasRefused(c)  BY <1>0, <1>8, LoginRefusedDoes
  <2> QED  BY <1>4, <2>1 DEF LoginWasRefused
<1>9. ASSUME NEW c \in calls, LogoutArrives(c) PROVE SignedOutIsOut'
  <2>1. LogoutArrived(c)  BY <1>0, <1>9, LogoutArrivesDoes
  <2>2. ASSUME NEW s \in Tabs, ~crossed'[s] PROVE mine[s] \notin live /\ jar \notin live
    <3>1. s = c.tab /\ jar = c.sent /\ ~crossed[s] /\ c.op = "logout" /\ c.answer # "none"
      BY <2>1, <2>2 DEF LogoutArrived
    <3>2. c.sent \notin live  BY <3>1 DEF Ended
    <3>3. mine[s] = jar \/ mine[s] \notin live  BY <3>1 DEF SignOutsOfMine
    <3> QED  BY <3>1, <3>2, <3>3
  <2>3. jar' \in {jar, NoCookie} /\ UNCHANGED <<mine, live>>  BY <2>1 DEF LogoutArrived
  <2> QED  BY <1>0, <2>2, <2>3 DEF SignedOutIsOut
<1>10. ASSUME NEW c \in calls, Lose(c) PROVE SignedOutIsOut'
  <2>1. Lost(c)  BY <1>10, CallsTyped, LoseDoes
  <2>2. \A s \in Tabs : out'[s] /\ ~crossed'[s] => out[s] /\ ~crossed[s] /\ mine'[s] = mine[s]
    BY <2>1 DEF Lost
  <2> QED  BY <1>1, <2>1, <2>2 DEF Lost
<1>11. ASSUME NEW i \in Ids, Expire(i) PROVE SignedOutIsOut'
  <2>1. live' \subseteq live /\ UNCHANGED <<jar, history>>  BY <1>11 DEF Expire
  <2> QED  BY <1>4, <2>1
<1>12. CASE UNCHANGED vars
  BY <1>4, <1>12 DEF vars
<1> QED
  BY <1>2, <1>3, <1>5, <1>6, <1>7, <1>8, <1>9, <1>10, <1>11, <1>12 DEF Next, Arrive

(* What tab s waits for is not touched, unless it asks for something.      *)
LEMMA StillWaits ==
  ASSUME WaitsForOne, NEW s \in Tabs, Waiting(s)', loading'[s] = loading[s], busy'[s] = busy[s],
         \A x \in calls : x.tab = s /\ Asks(x) => \E y \in calls' : y.tab = s /\ Asks(y)
  PROVE  \E y \in calls' : y.tab = s /\ Asks(y)
BY DEF WaitsForOne, Waiting

LEMMA WaitsSteps ==
  ASSUME Typed, AsksOnce, WaitsForOne, LoginsAreBusy, [Next]_vars
  PROVE  WaitsForOne' /\ LoginsAreBusy'
<1>0. /\ \A x \in calls : x.tab \in Tabs
      /\ \A x \in calls : x.op = "login" => ~loading[x.tab]
  BY CallsTyped DEF LoginsAreBusy
<1>1. ASSUME calls \subseteq calls', UNCHANGED <<loading, busy>>,
             \A x \in calls' \ calls : x.op # "login"
      PROVE  WaitsForOne' /\ LoginsAreBusy'
  BY <1>0, <1>1 DEF WaitsForOne, LoginsAreBusy, Waiting
<1>2. ASSUME NEW t \in Tabs, Load(t) PROVE WaitsForOne' /\ LoginsAreBusy'
  <2>1. PICK r : LoadDone(t, r)  BY <1>2, LoadDoes
  <2>2. /\ calls' = {c \in calls : c.tab # t} \cup {r} /\ r.op = "me" /\ r.tab = t
        /\ \A s \in Tabs \ {t} : loading'[s] = loading[s] /\ busy'[s] = busy[s]
    BY <2>1 DEF LoadDone, Sent, Untouched
  <2>3. \A s \in Tabs : Waiting(s)' => \E y \in calls' : y.tab = s /\ Asks(y)
    BY <2>2, StillWaits DEF Asks
  <2>4. \A x \in calls' : x.op = "login" => ~loading'[x.tab]  BY <1>0, <2>2
  <2> QED  BY <2>3, <2>4 DEF WaitsForOne, LoginsAreBusy, Asks
<1>3. ASSUME NEW t \in Tabs, NEW u \in Users, Submit(t, u) PROVE WaitsForOne' /\ LoginsAreBusy'
  <2>1. PICK r : SubmitDone(t, r)  BY <1>3, SubmitDoes
  <2>2. /\ calls' = calls \cup {r} /\ r.op = "login" /\ r.tab = t
        /\ ~loading[t] /\ loading' = loading
        /\ \A s \in Tabs \ {t} : busy'[s] = busy[s]
    BY <2>1 DEF SubmitDone, Sent, Untouched
  <2>3. \A s \in Tabs : Waiting(s)' => \E y \in calls' : y.tab = s /\ Asks(y)
    BY <2>2, StillWaits DEF Asks
  <2>4. \A x \in calls' : x.op = "login" => ~loading'[x.tab]  BY <1>0, <2>2
  <2> QED  BY <2>3, <2>4 DEF WaitsForOne, LoginsAreBusy, Asks
<1>4. ASSUME NEW t \in Tabs, Logout(t) PROVE WaitsForOne' /\ LoginsAreBusy'
  <2>1. PICK r : LogoutDone(t, r)  BY <1>4, LogoutDoes
  <2> QED  BY <1>1, <2>1 DEF LogoutDone, Sent
<1>5. ASSUME NEW c \in calls, Serve(c) PROVE WaitsForOne' /\ LoginsAreBusy'
  <2>1. PICK d : ServedAs(c, d)  BY <1>5, Served
  <2>2. /\ calls' = (calls \ {c}) \cup {d} /\ d.op = c.op /\ d.tab = c.tab
        /\ UNCHANGED <<loading, busy>>
    BY <2>1 DEF ServedAs
  <2> QED  BY <1>0, <2>2 DEF WaitsForOne, LoginsAreBusy, Waiting, Asks
<1>6. ASSUME NEW c \in calls, calls' = calls \ {c}, ~loading'[c.tab], ~busy'[c.tab],
             \A s \in Tabs \ {c.tab} : loading'[s] = loading[s] /\ busy'[s] = busy[s]
      PROVE  WaitsForOne' /\ LoginsAreBusy'
  <2>1. \A s \in Tabs : Waiting(s)' => \E y \in calls' : y.tab = s /\ Asks(y)
    BY <1>0, <1>6, StillWaits DEF Waiting
  <2>2. \A x \in calls' : x.op = "login" => ~loading'[x.tab]  BY <1>0, <1>6
  <2> QED  BY <2>1, <2>2 DEF WaitsForOne, LoginsAreBusy, Asks
<1>7. ASSUME NEW c \in calls, calls' = calls \ {c}, c.op = "logout", UNCHANGED <<loading, busy>>
      PROVE  WaitsForOne' /\ LoginsAreBusy'
  BY <1>0, <1>7 DEF WaitsForOne, LoginsAreBusy, Waiting, Asks
<1>8. ASSUME NEW c \in calls, MeArrives(c) PROVE WaitsForOne' /\ LoginsAreBusy'
  <2>1. MeArrived(c)  BY <1>0, <1>8, MeArrivesDoes
  <2> QED  BY <1>6, <2>1 DEF MeArrived, Untouched
<1>9. ASSUME NEW c \in calls, LoginArrives(c) PROVE WaitsForOne' /\ LoginsAreBusy'
  <2>1. PICK r : LoginArrived(c, r)  BY <1>9, CallsTyped, LoginArrivesDoes
  <2>2. /\ calls' = (calls \ {c}) \cup {r} /\ r.op = "me" /\ r.tab = c.tab
        /\ UNCHANGED <<loading, busy>>
    BY <2>1 DEF LoginArrived, Sent
  <2> QED  BY <1>0, <2>2 DEF WaitsForOne, LoginsAreBusy, Waiting, Asks
<1>10. ASSUME NEW c \in calls, LoginRefused(c) PROVE WaitsForOne' /\ LoginsAreBusy'
  <2>1. LoginWasRefused(c)  BY <1>0, <1>10, LoginRefusedDoes
  <2> QED  BY <1>0, <1>6, <2>1 DEF LoginWasRefused
<1>11. ASSUME NEW c \in calls, LogoutArrives(c) PROVE WaitsForOne' /\ LoginsAreBusy'
  <2>1. LogoutArrived(c)  BY <1>0, <1>11, LogoutArrivesDoes
  <2> QED  BY <1>7, <2>1 DEF LogoutArrived
<1>12. ASSUME NEW c \in calls, Lose(c) PROVE WaitsForOne' /\ LoginsAreBusy'
  <2>1. Lost(c) /\ c.tab \in Tabs /\ c.op \in {"me", "login", "logout"}
    BY <1>12, CallsTyped, LoseDoes
  <2>2. /\ calls' = calls \ {c}
        /\ \A s \in Tabs \ {c.tab} : loading'[s] = loading[s] /\ busy'[s] = busy[s]
    BY <2>1 DEF Lost, Untouched
  <2>3. CASE c.op = "me"
    <3>1. loading' = [loading EXCEPT ![c.tab] = FALSE] /\ busy' = [busy EXCEPT ![c.tab] = FALSE]
      BY <1>12, <2>3 DEF Lose
    <3>2. ~loading'[c.tab] /\ ~busy'[c.tab]  BY <2>1, <3>1 DEF Typed
    <3> QED  BY <1>6, <2>2, <3>2
  <2>4. CASE c.op = "login"
    <3>1. ~loading'[c.tab] /\ ~busy'[c.tab]  BY <1>0, <2>1, <2>4 DEF Lost
    <3> QED  BY <1>6, <2>2, <3>1
  <2>5. CASE c.op = "logout"
    BY <1>7, <2>1, <2>2, <2>5 DEF Lost
  <2> QED  BY <2>1, <2>3, <2>4, <2>5
<1>13. ASSUME NEW i \in Ids, Expire(i) PROVE WaitsForOne' /\ LoginsAreBusy'
  <2>1. UNCHANGED <<calls, loading, busy>>  BY <1>13 DEF Expire
  <2> QED  BY <1>1, <2>1
<1>14. CASE UNCHANGED vars
  BY <1>1, <1>14 DEF vars
<1> QED
  BY <1>2, <1>3, <1>4, <1>5, <1>8, <1>9, <1>10, <1>11, <1>12, <1>13, <1>14 DEF Next, Arrive

-----------------------------------------------------------------------------
(* The theorems *)

LEMMA InitInv == ASSUME Init PROVE Inv
<1>1. calls = {} /\ \A t \in Tabs : me[t] = Nobody /\ ~out[t]  BY DEF Init
<1>2. Typed
  <2>1. /\ made \in 0..MaxSessions /\ jar \in 0..made /\ live \subseteq 1..made
        /\ owner \in [Ids -> Users \cup {Nobody}]
        /\ \A i \in 1..made : owner[i] \in Users
    BY DEF Init
  <2>2. /\ me \in [Tabs -> Users \cup {Nobody}]
        /\ loading \in [Tabs -> BOOLEAN] /\ needCode \in [Tabs -> BOOLEAN] /\ busy \in [Tabs -> BOOLEAN]
        /\ events \in 0..MaxEvents
    BY DEF Init
  <2>3. mine \in [Tabs -> 0..made] /\ out \in [Tabs -> BOOLEAN] /\ crossed \in [Tabs -> BOOLEAN]
    BY DEF Init
  <2> QED  BY <1>1, <2>1, <2>2, <2>3 DEF Typed
<1>3. AsksOnce /\ FreshLogins /\ Ended /\ Told /\ OldSignOuts /\ SignOutsOfMine /\ SignedOutIsOut
  BY <1>1 DEF AsksOnce, FreshLogins, Ended, Told, OldSignOuts, SignOutsOfMine, SignedOutIsOut
<1> QED  BY <1>2, <1>3 DEF Inv

LEMMA InvHolds == Spec => []Inv
<1>1. Init => Inv  BY InitInv
<1>2. Inv /\ [Next]_vars => Inv'
  BY TypedSteps, AsksOnceSteps, FreshLoginsSteps, EndedSteps, ToldSteps, OldSignOutsSteps,
     SignOutsOfMineSteps, SignedOutSteps
  DEF Inv
<1> QED  BY <1>1, <1>2, PTL DEF Spec

(* Every variable keeps its type; a tab that shows an account waits for    *)
(* nothing.                                                                *)
THEOREM TypeCorrect == Spec => []TypeOK
<1>1. Inv => TypeOK
  <2> SUFFICES ASSUME Inv PROVE TypeOK
    OBVIOUS
  <2>1. Typed /\ AsksOnce  BY DEF Inv
  <2>2. calls \subseteq Requests  BY <2>1, CallsTyped
  <2>3. mine \in [Tabs -> Ids \cup {NoCookie}]  BY <2>1, JarIsCookie DEF Typed
  <2> QED  BY <2>1, <2>2, <2>3 DEF Typed, AsksOnce, TypeOK
<1> QED  BY <1>1, InvHolds, PTL

(* The account a tab shows is the one its requests act as, however the     *)
(* requests of all tabs are served, answered or lost, unless another tab   *)
(* or a late answer came in between.                                       *)
THEOREM ShownActs == Spec => []ShownIsActing
<1>1. Inv => ShownIsActing  BY DEF Inv, Told, ShownIsActing
<1> QED  BY <1>1, InvHolds, PTL

(* Signing out ends the session the tab showed and leaves the browser      *)
(* without one that is honoured, with the same exceptions.                 *)
THEOREM SignOutEnds == Spec => []SignedOutIsOut
<1>1. Inv => SignedOutIsOut  BY DEF Inv
<1> QED  BY <1>1, InvHolds, PTL

(* A tab that waits, loading or with its form sent, always has a request   *)
(* on its way that ends the waiting: no answer, refusal or loss leaves it  *)
(* waiting for nothing, and no second sign-in is on its way behind it.     *)
THEOREM WaitsEnd == Spec => [](WaitsForOne /\ AsksOnce)
<1>1. Init => WaitsForOne /\ LoginsAreBusy
  BY DEF Init, WaitsForOne, LoginsAreBusy, Waiting
<1>2. Inv /\ WaitsForOne /\ LoginsAreBusy /\ [Next]_vars => WaitsForOne' /\ LoginsAreBusy'
  BY WaitsSteps DEF Inv
<1>3. Inv => AsksOnce  BY DEF Inv
<1> QED  BY <1>1, <1>2, <1>3, InvHolds, PTL DEF Spec
============================================================================
