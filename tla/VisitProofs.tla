----------------------------- MODULE VisitProofs -----------------------------
(***************************************************************************)
(* Proofs about Visit, for any set of headers, of any length, and any      *)
(* number of visits, demos and requests.                                   *)
(***************************************************************************)
EXTENDS Visit, WellFoundedInduction, TLAPS

USE HeadersAssumption, LimitsAssumption DEF site, demo

-----------------------------------------------------------------------------
(* The language a header prefers *)

LEMMA SmallestIndex == ASSUME NEW S, S \subseteq Nat, S # {} PROVE \E i \in S : \A j \in S : i <= j
<1>1. PICK i \in S : \A j \in S : <<j, i>> \notin OpToRel(<, Nat)
  BY NatLessThanWellFounded, WFMin
<1>2. ASSUME NEW j \in S PROVE i <= j
  <2>1. ~(j < i)  BY <1>1 DEF OpToRel
  <2> QED  BY <2>1
<1> QED  BY <1>2

(* A header that names a language prefers one of those it names.           *)
LEMMA PreferredIsNamed ==
  ASSUME NEW h \in Headers, Named(h) # {}
  PROVE  Preferred(h) \in Named(h) /\ h[Preferred(h)] \in Tags
<1>1. h \in Seq(Tags)  OBVIOUS
<1>2. /\ Named(h) \subseteq Nat
      /\ \A i \in Named(h) : h[i] \in Tags /\ h[i].q \in {1, 2}
  <2>1. Len(h) \in Nat /\ \A i \in 1..Len(h) : h[i] \in Tags  BY <1>1
  <2>2. ASSUME NEW i \in Named(h) PROVE i \in Nat /\ h[i] \in Tags /\ h[i].q \in {1, 2}
    <3>1. i \in 1..Len(h) /\ h[i].q > 0  BY DEF Named
    <3>2. i \in Nat  BY <2>1, <3>1
    <3>3. h[i] \in Tags  BY <2>1, <3>1
    <3>4. h[i].q \in 0..2  BY <3>3 DEF Tags
    <3>5. h[i].q \in {1, 2}  BY <3>1, <3>4
    <3> QED  BY <3>2, <3>3, <3>5
  <2> QED  BY <2>2
<1> DEFINE Best == {i \in Named(h) : h[i].q = 2}
<1>3. \E i \in Named(h) : \A j \in Named(h) \ {i} :
        h[i].q > h[j].q \/ (h[i].q = h[j].q /\ i < j)
  <2>1. CASE Best # {}
    <3>1. PICK i \in Best : \A j \in Best : i <= j  BY <1>2, <2>1, SmallestIndex
    <3>2. ASSUME NEW j \in Named(h) \ {i} PROVE h[i].q > h[j].q \/ (h[i].q = h[j].q /\ i < j)
      <4>0. i \in Nat /\ j \in Nat /\ h[i].q = 2 /\ h[j].q \in {1, 2} /\ i # j  BY <1>2
      <4>1. CASE j \in Best
        <5>1. i <= j /\ h[j].q = 2  BY <3>1, <4>1
        <5> QED  BY <4>0, <5>1
      <4>2. CASE j \notin Best
        <5>1. h[j].q = 1  BY <4>0, <4>2
        <5> QED  BY <4>0, <5>1
      <4> QED  BY <4>1, <4>2
    <3> QED  BY <3>2
  <2>2. CASE Best = {}
    <3>1. PICK i \in Named(h) : \A j \in Named(h) : i <= j  BY <1>2, SmallestIndex
    <3>2. \A j \in Named(h) : h[j].q = 1  BY <1>2, <2>2
    <3>3. ASSUME NEW j \in Named(h) \ {i} PROVE h[i].q = h[j].q /\ i < j
      <4>1. i \in Nat /\ j \in Nat /\ i # j /\ i <= j  BY <1>2, <3>1
      <4> QED  BY <3>2, <4>1
    <3> QED  BY <3>3
  <2> QED  BY <2>1, <2>2
<1>4. Preferred(h) \in Named(h)  BY <1>3 DEF Preferred
<1> QED  BY <1>2, <1>4

LEMMA LanguageTypes ==
  /\ \A tag : langOf(tag) \in Languages
  /\ \A h : browserLang(h) \in Languages \cup {"null"}
  /\ "null" \notin Languages /\ "no" \notin Languages
BY DEF langOf, browserLang, Languages

(* The three rules agree on every header.                                  *)
LEMMA RulesAgree ==
  ASSUME NEW h \in Headers
  PROVE  /\ demoLang(h) = detectLocale(navigatorFirst(h))
         /\ Named(h) # {} => browserLang(h) = detectLocale(navigatorFirst(h))
<1>1. CASE Named(h) = {}
  <2>1. navigatorFirst(h) = <<>>  BY <1>1 DEF navigatorFirst
  <2>2. demoLang(h) = "en"  BY <1>1 DEF demoLang
  <2>3. detectLocale(<<>>) = "en"  BY DEF detectLocale
  <2> QED  BY <1>1, <2>1, <2>2, <2>3
<1>2. CASE Named(h) # {}
  <2>1. Preferred(h) \in Named(h)  BY <1>2, PreferredIsNamed
  <2> DEFINE tag == h[Preferred(h)]
  <2>2. navigatorFirst(h) = <<tag>>  BY <1>2 DEF navigatorFirst
  <2>3. <<tag>> # <<>> /\ <<tag>>[1] = tag  OBVIOUS
  <2>4. detectLocale(<<tag>>) = langOf(tag)  BY <2>3 DEF detectLocale, langOf
  <2>5. demoLang(h) = langOf(tag)  BY <2>1 DEF demoLang, langOf
  <2>6. browserLang(h) = langOf(tag)  BY <1>2 DEF browserLang
  <2> QED  BY <2>2, <2>4, <2>5, <2>6
<1> QED  BY <1>1, <1>2

-----------------------------------------------------------------------------
(* The demo *)

(* An answer of the demo fits its request.                                 *)
Fits(c) ==
  /\ c.op = "start" => c.answer \in {"none", "often", "busy", "redirect"}
  /\ c.op \in {"page", "ended", "busy"} =>
       c.answer \in {"none", "landing", "panel", "ended", "busy", "redirect"}

(* What a request names and what it is given are demos that were made.     *)
CallFits(c, limit) == c \in Requests /\ c.on \in 0..limit /\ c.gives \in 0..limit /\ Fits(c)

DemoType ==
  /\ made \in 0..MaxDemos /\ running \subseteq 1..made /\ session \in 0..made
  /\ view \in Views /\ revived \in 0..MaxRevived
  /\ \A c \in calls : CallFits(c, made)

SiteType ==
  /\ header \in Headers /\ bot \in BOOLEAN /\ keeps \in BOOLEAN
  /\ lang \in Languages \cup {"no"} /\ chosen \in Languages \cup {"no"}
  /\ nav \in Addresses \cup {Nowhere} /\ shown \in Addresses \cup {Nowhere}
  /\ visits \in 0..MaxVisits

(* What the browser has been told so far of the language: a choice that is *)
(* on its way in an address is the last one, and one that has arrived is   *)
(* in the cookie.                                                          *)
Settling ==
  /\ nav # Nowhere => shown = Nowhere
  /\ nav # Nowhere /\ nav.choose # "no" => nav.choose = chosen /\ nav.form # "index"
  /\ (nav = Nowhere \/ nav.choose = "no") /\ keeps /\ chosen # "no" => lang = chosen
  /\ shown # Nowhere /\ shown.form = "page" =>
       /\ shown.choose = "no"
       /\ preferred \in {"null", shown.lang}

Inv == SiteType /\ DemoType /\ Settling
LEMMA FitsAnswered ==
  ASSUME NEW m \in 0..MaxDemos, NEW c, CallFits(c, m), NEW a \in Answers, NEW d \in 0..m,
         c.op = "start" => a \in {"none", "often", "busy", "redirect"},
         c.op \in {"page", "ended", "busy"} =>
           a \in {"none", "landing", "panel", "ended", "busy", "redirect"}
  PROVE  CallFits([c EXCEPT !.answer = a, !.gives = d], m)
<1> DEFINE r == [c EXCEPT !.answer = a, !.gives = d]
<1>1. d \in Demos \cup {NoDemo}  BY DEF Demos, NoDemo
<1>2. c \in Requests  BY DEF CallFits
<1>3. r \in Requests /\ r.on = c.on /\ r.op = c.op /\ r.answer = a /\ r.gives = d
  BY <1>1, <1>2 DEF Requests
<1>4. c.on \in 0..m  BY DEF CallFits
<1> QED  BY <1>3, <1>4 DEF CallFits, Fits

LEMMA FitsNew ==
  ASSUME NEW m \in 0..MaxDemos, NEW n \in 1..MaxCalls, NEW o \in Operations, NEW on \in 0..m
  PROVE  CallFits([slot |-> n, op |-> o, on |-> on, answer |-> "none", gives |-> NoDemo], m)
<1>1. on \in Demos \cup {NoDemo} /\ NoDemo \in Demos \cup {NoDemo} /\ NoDemo \in 0..m
  BY DEF Demos, NoDemo
<1>2. "none" \in Answers  BY DEF Answers
<1> QED  BY <1>1, <1>2 DEF CallFits, Requests, Fits

LEMMA FitsMore ==
  ASSUME NEW m \in Nat, NEW c, CallFits(c, m)
  PROVE  CallFits(c, m + 1)
<1>1. c.on \in 0..m + 1 /\ c.gives \in 0..m + 1  BY DEF CallFits
<1> QED  BY <1>1 DEF CallFits

LEMMA CallKeeps ==
  ASSUME DemoType, NEW o \in Operations, Call(o)
  PROVE  \A c \in calls' : CallFits(c, made)
<1>1. PICK n \in 1..MaxCalls :
        calls' = calls \cup {[slot |-> n, op |-> o, on |-> session, answer |-> "none", gives |-> NoDemo]}
  BY DEF Call
<1>2. made \in 0..MaxDemos /\ session \in 0..made  BY DEF DemoType
<1>3. CallFits([slot |-> n, op |-> o, on |-> session, answer |-> "none", gives |-> NoDemo], made)
  BY <1>2, FitsNew
<1> QED  BY <1>1, <1>3 DEF DemoType

LEMMA AnswerKeeps ==
  ASSUME DemoType, NEW c \in calls, NEW a \in Answers, NEW d \in 0..made, Answer(c, a, d),
         c.op = "start" => a \in {"none", "often", "busy", "redirect"},
         c.op \in {"page", "ended", "busy"} =>
           a \in {"none", "landing", "panel", "ended", "busy", "redirect"}
  PROVE  \A r \in calls' : CallFits(r, made)
<1>1. made \in 0..MaxDemos /\ \A r \in calls : CallFits(r, made)  BY DEF DemoType
<1>2. CallFits([c EXCEPT !.answer = a, !.gives = d], made)  BY <1>1, FitsAnswered
<1> QED  BY <1>1, <1>2 DEF Answer

LEMMA ServeKeeps ==
  ASSUME DemoType, NEW c \in calls, Serve(c)
  PROVE  DemoType'
<1>0. /\ made \in 0..MaxDemos /\ running \subseteq 1..made /\ session \in 0..made
      /\ view \in Views /\ revived \in 0..MaxRevived
      /\ \A r \in calls : CallFits(r, made)
      /\ NoDemo \in 0..made
  BY DEF DemoType, NoDemo
<1>1. CASE ServeStart(c)
  <2>1. CASE \E a \in {"often", "busy"} : Answer(c, a, NoDemo) /\ UNCHANGED <<made, running>>
    <3>1. PICK a \in {"often", "busy"} : Answer(c, a, NoDemo) /\ UNCHANGED <<made, running>>
      BY <2>1
    <3>2. a \in Answers /\ c.op = "start"  BY <1>1 DEF Answers, Notices, ServeStart
    <3>3. \A r \in calls' : CallFits(r, made)  BY <1>0, <3>1, <3>2, AnswerKeeps
    <3> QED  BY <1>0, <1>1, <3>1, <3>3 DEF ServeStart, DemoType
  <2>2. CASE /\ made < MaxDemos /\ made' = made + 1 /\ running' = running \cup {made'}
             /\ Answer(c, "redirect", made')
    <3>1. made' \in 0..MaxDemos /\ made' \in 0..made' /\ made \in Nat  BY <1>0, <2>2
    <3>2. \A r \in calls : CallFits(r, made')  BY <1>0, <2>2, <3>1, FitsMore
    <3>3. CallFits([c EXCEPT !.answer = "redirect", !.gives = made'], made')
      <4>1. c.op = "start" /\ "redirect" \in Answers  BY <1>1 DEF ServeStart, Answers
      <4>2. CallFits(c, made')  BY <3>2
      <4> QED  BY <3>1, <4>1, <4>2, FitsAnswered
    <3>4. \A r \in calls' : CallFits(r, made')  BY <2>2, <3>2, <3>3 DEF Answer
    <3>5. running' \subseteq 1..made' /\ session \in 0..made'  BY <1>0, <2>2
    <3> QED  BY <1>0, <1>1, <3>1, <3>4, <3>5 DEF ServeStart, DemoType
  <2> QED  BY <1>1, <2>1, <2>2 DEF ServeStart
<1>2. CASE ServeEnd(c)
  <2>1. c.op = "end" /\ "redirect" \in Answers /\ Answer(c, "redirect", NoDemo)
    BY <1>2 DEF ServeEnd, Answers
  <2>2. \A r \in calls' : CallFits(r, made)  BY <1>0, <2>1, AnswerKeeps
  <2>3. running' \subseteq 1..made  BY <1>0, <1>2 DEF ServeEnd
  <2> QED  BY <1>0, <1>2, <2>2, <2>3 DEF ServeEnd, DemoType
<1>3. CASE ServeNoSession(c)
  <2> DEFINE a == CASE c.op = "page" -> "landing" [] c.op = "api" -> "401" [] OTHER -> c.op
  <2>1. Answer(c, a, NoDemo) /\ c.op \notin {"start", "end"}  BY <1>3 DEF ServeNoSession
  <2>2. c.op \in {"page", "api", "ended", "busy"}
    BY <1>0, <2>1 DEF CallFits, Requests, Operations, Notices
  <2>3. a \in Answers /\ (c.op # "api" => a \in {"landing", "ended", "busy"})
    BY <2>2 DEF Answers, Notices
  <2> HIDE DEF a
  <2>4. \A r \in calls' : CallFits(r, made)  BY <1>0, <2>1, <2>2, <2>3, AnswerKeeps
  <2> QED  BY <1>0, <1>3, <2>4 DEF ServeNoSession, DemoType
<1>4. CASE Fetch(c)
  <2>1. /\ "panel" \in Answers /\ Answer(c, "panel", NoDemo)
        /\ c.op \notin {"start", "end"} /\ c.on # NoDemo
    BY <1>4 DEF Fetch, Answers
  <2>2. \A r \in calls' : CallFits(r, made)  BY <1>0, <2>1, AnswerKeeps
  <2>3. c.on \in 1..made  BY <1>0, <2>1 DEF CallFits, NoDemo
  <2>4. running' \subseteq 1..made  BY <1>0, <1>4, <2>3 DEF Fetch
  <2>5. revived' \in 0..MaxRevived  BY <1>0, <1>4 DEF Fetch
  <2> QED  BY <1>0, <1>4, <2>2, <2>4, <2>5 DEF Fetch, DemoType
<1>5. CASE FetchFails(c)
  <2>1. "redirect" \in Answers /\ Answer(c, "redirect", NoDemo) /\ c.op \notin {"start", "end"}
    BY <1>5 DEF FetchFails, Answers
  <2>2. \A r \in calls' : CallFits(r, made)  BY <1>0, <2>1, AnswerKeeps
  <2> QED  BY <1>0, <1>5, <2>2 DEF FetchFails, DemoType
<1> QED  BY <1>1, <1>2, <1>3, <1>4, <1>5 DEF Serve

LEMMA FollowKeeps ==
  ASSUME DemoType, NEW c \in calls, NEW o \in Operations \ {"start"},
         session' \in 0..made, Follow(c, o)
  PROVE  \A r \in calls' : CallFits(r, made)
<1> DEFINE r == [c EXCEPT !.op = o, !.on = session', !.answer = "none", !.gives = NoDemo]
<1>1. made \in 0..MaxDemos /\ \A x \in calls : CallFits(x, made)  BY DEF DemoType
<1>2. session' \in Demos \cup {NoDemo} /\ NoDemo \in 0..made  BY <1>1 DEF Demos, NoDemo
<1>3. r \in Requests /\ r.on = session' /\ r.gives = NoDemo /\ r.op = o /\ r.answer = "none"
  BY <1>1, <1>2 DEF CallFits, Requests, Answers
<1>4. CallFits(r, made)  BY <1>2, <1>3 DEF CallFits, Fits
<1>5. calls' = (calls \ {c}) \cup {r}  BY DEF Follow
<1> QED  BY <1>1, <1>4, <1>5

LEMMA ArriveKeeps ==
  ASSUME DemoType, NEW c \in calls, Arrive(c)
  PROVE  DemoType'
<1>0. /\ made \in 0..MaxDemos /\ running \subseteq 1..made /\ session \in 0..made
      /\ view \in Views /\ revived \in 0..MaxRevived
      /\ \A r \in calls : CallFits(r, made)
      /\ NoDemo \in 0..made
  BY DEF DemoType, NoDemo
<1>00. c \in Requests /\ c.gives \in 0..made /\ Fits(c)  BY <1>0 DEF CallFits
<1>1. CASE StartArrives(c)
  <2>1. CASE c.answer = "redirect"
    <3>1. session' \in 0..made /\ Follow(c, "page")  BY <1>0, <1>00, <1>1, <2>1 DEF StartArrives
    <3>2. \A r \in calls' : CallFits(r, made)  BY <3>1, FollowKeeps DEF Operations
    <3> QED  BY <1>0, <1>1, <2>1, <3>1, <3>2 DEF StartArrives, DemoType
  <2>2. CASE c.answer # "redirect"
    <3>1. calls' = calls \ {c} /\ view' = c.answer /\ UNCHANGED <<session, running, made, revived>>
      BY <1>1, <2>2 DEF StartArrives
    <3>2. view' \in Views  BY <1>00, <1>1, <2>2, <3>1 DEF StartArrives, Fits, Views
    <3> QED  BY <1>0, <3>1, <3>2 DEF DemoType
  <2> QED  BY <2>1, <2>2
<1>2. CASE EndArrives(c)
  <2>1. session' \in 0..made /\ Follow(c, "ended")  BY <1>0, <1>2 DEF EndArrives
  <2>2. \A r \in calls' : CallFits(r, made)  BY <2>1, FollowKeeps DEF Operations, Notices
  <2> QED  BY <1>0, <1>2, <2>1, <2>2 DEF EndArrives, DemoType
<1>3. CASE PageArrives(c)
  <2>1. CASE c.answer = "redirect"
    <3>1. session' \in 0..made /\ Follow(c, "busy")  BY <1>0, <1>3, <2>1 DEF PageArrives
    <3>2. \A r \in calls' : CallFits(r, made)  BY <3>1, FollowKeeps DEF Operations, Notices
    <3> QED  BY <1>0, <1>3, <2>1, <3>1, <3>2 DEF PageArrives, DemoType
  <2>2. CASE c.answer # "redirect"
    <3>1. calls' = calls \ {c} /\ view' = c.answer /\ UNCHANGED <<session, running, made, revived>>
      BY <1>3, <2>2 DEF PageArrives
    <3>2. view' \in Views  BY <1>00, <1>3, <2>2, <3>1 DEF PageArrives, Notices, Fits, Views
    <3> QED  BY <1>0, <3>1, <3>2 DEF DemoType
  <2> QED  BY <2>1, <2>2
<1>4. CASE ApiArrives(c)
  <2>1. /\ calls' = calls \ {c} /\ session' \in {NoDemo, session}
        /\ UNCHANGED <<view, running, made, revived>>
    BY <1>4 DEF ApiArrives
  <2> QED  BY <1>0, <2>1 DEF DemoType
<1> QED  BY <1>1, <1>2, <1>3, <1>4 DEF Arrive

LEMMA DemoSteps ==
  ASSUME DemoType, [Next]_vars
  PROVE  DemoType'
<1>0. /\ made \in 0..MaxDemos /\ running \subseteq 1..made /\ session \in 0..made
      /\ view \in Views /\ revived \in 0..MaxRevived
      /\ \A c \in calls : CallFits(c, made)
      /\ NoDemo \in 0..made
  BY DEF DemoType, NoDemo
<1>1. CASE UNCHANGED demo
  BY <1>0, <1>1 DEF DemoType
<1>2. CASE Worker \/ \E a \in Addresses : Open(a)
  <2>1. UNCHANGED demo
    BY <1>2 DEF Worker, RedirectCanonical, RedirectChosen, RedirectPreferred, Show, Open
  <2> QED  BY <1>1, <2>1
<1>3. CASE OpenDemo
  <2>1. Call("page") /\ "page" \in Operations  BY <1>3 DEF OpenDemo, Operations
  <2>2. \A c \in calls' : CallFits(c, made)  BY <2>1, CallKeeps
  <2> QED  BY <1>0, <1>3, <2>2 DEF OpenDemo, DemoType
<1>4. ASSUME NEW o \in {"start", "end", "api"}, Press(o) PROVE DemoType'
  <2>1. Call(o) /\ o \in Operations  BY <1>4 DEF Press, Operations
  <2>2. \A c \in calls' : CallFits(c, made)  BY <2>1, CallKeeps
  <2> QED  BY <1>0, <1>4, <2>2 DEF Press, DemoType
<1>5. ASSUME NEW c \in calls, Serve(c) \/ Arrive(c) PROVE DemoType'
  BY <1>5, ServeKeeps, ArriveKeeps
<1>6. ASSUME NEW d \in Demos, Sleep(d) \/ expire(d) PROVE DemoType'
  BY <1>0, <1>6 DEF Sleep, expire, DemoType
<1>7. CASE CookieExpires
  BY <1>0, <1>7 DEF CookieExpires, DemoType
<1>8. CASE UNCHANGED vars
  <2>1. UNCHANGED demo  BY <1>8 DEF vars
  <2> QED  BY <1>1, <2>1
<1> QED
  BY <1>2, <1>3, <1>4, <1>5, <1>6, <1>7, <1>8 DEF Next

-----------------------------------------------------------------------------
(* The site *)

LEMMA OnSite ==
  /\ \A a \in Addresses : /\ a # Nowhere
                          /\ a.lang \in Languages /\ a.form \in Forms
                          /\ a.choose \in Languages \cup {"no"}
                          /\ [a EXCEPT !.form = "page"] \in Addresses
  /\ \A a \in Addresses, l \in Languages : /\ [a EXCEPT !.lang = l] \in Addresses
                                           /\ [a EXCEPT !.lang = l, !.choose = "no"] \in Addresses
<1>1. ASSUME NEW a \in Addresses
      PROVE  /\ a # Nowhere
             /\ a.lang \in Languages /\ a.form \in Forms
             /\ a.choose \in Languages \cup {"no"}
             /\ [a EXCEPT !.form = "page"] \in Addresses
  <2>1. a.lang \in Languages /\ a.form \in Forms /\ a.choose \in Languages \cup {"no"}
    BY DEF Addresses
  <2>2. a.choose # Nowhere.choose  BY <2>1 DEF Nowhere, Languages
  <2>3. [a EXCEPT !.form = "page"] \in Addresses  BY DEF Addresses, Forms
  <2> QED  BY <2>1, <2>2, <2>3
<1>2. ASSUME NEW a \in Addresses, NEW l \in Languages
      PROVE  /\ [a EXCEPT !.lang = l] \in Addresses
             /\ [a EXCEPT !.lang = l, !.choose = "no"] \in Addresses
  BY DEF Addresses
<1> QED  BY <1>1, <1>2

LEMMA PreferredType ==
  ASSUME SiteType PROVE preferred \in Languages \cup {"null"}
BY LanguageTypes DEF preferred, SiteType

LEMMA SiteSteps ==
  ASSUME SiteType, Settling, [Next]_vars
  PROVE  SiteType' /\ Settling'
<1>0. /\ header \in Headers /\ bot \in BOOLEAN /\ keeps \in BOOLEAN
      /\ lang \in Languages \cup {"no"} /\ chosen \in Languages \cup {"no"}
      /\ nav \in Addresses \cup {Nowhere} /\ shown \in Addresses \cup {Nowhere}
      /\ visits \in 0..MaxVisits
      /\ nav # Nowhere => nav \in Addresses /\ shown = Nowhere
  BY DEF SiteType, Settling
<1>1. CASE UNCHANGED <<header, bot, keeps, site>>
  BY <1>1 DEF SiteType, Settling, preferred
<1>2. ASSUME NEW a \in Addresses, Open(a) PROVE SiteType' /\ Settling'
  <2>1. /\ nav = Nowhere /\ nav' = a /\ shown' = Nowhere /\ UNCHANGED <<header, bot, keeps, lang>>
        /\ chosen' = IF a.choose = "no" THEN chosen ELSE a.choose
        /\ visits' \in 0..MaxVisits
        /\ a.choose # "no" => a.form # "index"
    BY <1>0, <1>2 DEF Open
  <2>2. a # Nowhere /\ a.choose \in Languages \cup {"no"}  BY OnSite
  <2>3. SiteType'  BY <1>0, <2>1, <2>2 DEF SiteType
  <2>4. (nav' = Nowhere \/ nav'.choose = "no") /\ keeps' /\ chosen' # "no" => lang' = chosen'
    BY <2>1, <2>2 DEF Settling
  <2>5. nav' # Nowhere /\ nav'.choose # "no" => nav'.choose = chosen' /\ nav'.form # "index"
    BY <2>1
  <2> QED  BY <2>1, <2>3, <2>4, <2>5 DEF Settling
<1>3. CASE RedirectCanonical
  <2> DEFINE to == [nav EXCEPT !.form = "page"]
  <2>1. /\ nav # Nowhere /\ nav' = to
        /\ UNCHANGED <<header, bot, keeps, lang, chosen, visits, shown>>
    BY <1>3 DEF RedirectCanonical, Redirect
  <2>2. to \in Addresses /\ to # Nowhere  BY <1>0, <2>1, OnSite
  <2>3. to.choose = nav.choose /\ to.form = "page"  BY <1>0, <2>1 DEF Addresses
  <2>4. SiteType'  BY <1>0, <2>1, <2>2 DEF SiteType
  <2>5. nav' # Nowhere /\ nav'.choose # "no" => nav'.choose = chosen' /\ nav'.form # "index"
    BY <2>1, <2>3 DEF Settling
  <2>6. (nav' = Nowhere \/ nav'.choose = "no") /\ keeps' /\ chosen' # "no" => lang' = chosen'
    BY <2>1, <2>2, <2>3 DEF Settling
  <2>7. shown' = Nowhere  BY <1>0, <2>1
  <2> QED  BY <2>4, <2>5, <2>6, <2>7 DEF Settling
<1>4. CASE RedirectChosen
  <2> DEFINE to == [[nav EXCEPT !.lang = nav.choose] EXCEPT !.choose = "no"]
  <2>1. /\ nav # Nowhere /\ nav' = to /\ nav.choose # "no"
        /\ lang' = IF keeps THEN nav.choose ELSE lang
        /\ UNCHANGED <<header, bot, keeps, chosen, visits, shown>>
    BY <1>4 DEF RedirectChosen, Redirect, counterpart
  <2>2. nav.choose \in Languages  BY <1>0, <2>1, OnSite
  <2>3. to \in Addresses /\ to # Nowhere
    <3>1. to = [nav EXCEPT !.lang = nav.choose, !.choose = "no"]  OBVIOUS
    <3> QED  BY <1>0, <2>1, <2>2, <3>1, OnSite
  <2>4. to.choose = "no"  BY <1>0, <2>1 DEF Addresses
  <2>5. SiteType'  BY <1>0, <2>1, <2>2, <2>3 DEF SiteType
  <2>6. keeps' => lang' = chosen'  BY <2>1 DEF Settling
  <2>7. shown' = Nowhere  BY <1>0, <2>1
  <2> QED  BY <2>1, <2>4, <2>5, <2>6, <2>7 DEF Settling
<1>5. CASE RedirectPreferred
  <2> DEFINE to == [nav EXCEPT !.lang = preferred]
  <2>1. /\ nav # Nowhere /\ nav' = to /\ nav.choose = "no" /\ preferred # "null"
        /\ UNCHANGED <<header, bot, keeps, lang, chosen, visits, shown>>
    BY <1>5 DEF RedirectPreferred, Redirect, counterpart
  <2>2. preferred \in Languages  BY <2>1, PreferredType
  <2>3. to \in Addresses /\ to # Nowhere  BY <1>0, <2>1, <2>2, OnSite
  <2>4. to.choose = "no"  BY <1>0, <2>1 DEF Addresses
  <2>5. SiteType'  BY <1>0, <2>1, <2>3 DEF SiteType
  <2>6. keeps' /\ chosen' # "no" => lang' = chosen'  BY <2>1 DEF Settling
  <2>7. shown' = Nowhere  BY <1>0, <2>1
  <2> QED  BY <2>1, <2>4, <2>5, <2>6, <2>7 DEF Settling
<1>6. CASE Show
  <2>1. /\ nav # Nowhere /\ shown' = nav /\ nav' = Nowhere
        /\ nav.form # "index" => nav.choose = "no" /\ preferred \in {"null", nav.lang}
        /\ UNCHANGED <<header, bot, keeps, lang, chosen, visits>>
    BY <1>6 DEF Show, IsPage
  <2>2. nav.choose = "no"  BY <2>1 DEF Settling
  <2>3. SiteType'  BY <1>0, <2>1 DEF SiteType
  <2>4. keeps' /\ chosen' # "no" => lang' = chosen'  BY <2>1, <2>2 DEF Settling
  <2>5. preferred' = preferred  BY <2>1 DEF preferred
  <2>6. shown'.form = "page" => shown'.choose = "no" /\ preferred' \in {"null", shown'.lang}
    BY <2>1, <2>2, <2>5
  <2> QED  BY <2>1, <2>3, <2>4, <2>6 DEF Settling
<1>7. CASE \/ OpenDemo \/ CookieExpires
           \/ \E o \in {"start", "end", "api"} : Press(o)
           \/ \E c \in calls : Arrive(c)
           \/ \E d \in Demos : Sleep(d) \/ expire(d)
  <2>1. UNCHANGED <<header, bot, keeps, site>>
    BY <1>7 DEF OpenDemo, CookieExpires, Press, Arrive, StartArrives, EndArrives, PageArrives,
         ApiArrives, Sleep, expire
  <2> QED  BY <1>1, <2>1
<1>8. ASSUME NEW c \in calls, Serve(c) PROVE SiteType' /\ Settling'
  <2>1. UNCHANGED <<header, bot, keeps, site>>
    BY <1>8 DEF Serve, ServeStart, ServeEnd, ServeNoSession, Fetch, FetchFails
  <2> QED  BY <1>1, <2>1
<1>9. CASE UNCHANGED vars
  <2>1. UNCHANGED <<header, bot, keeps, site>>  BY <1>9 DEF vars
  <2> QED  BY <1>1, <2>1
<1> QED
  BY <1>2, <1>3, <1>4, <1>5, <1>6, <1>7, <1>8, <1>9 DEF Next, Worker

-----------------------------------------------------------------------------
(* The theorems *)

LEMMA InitInv == ASSUME Init PROVE Inv
<1>1. SiteType  BY DEF Init, SiteType
<1>2. DemoType  BY DEF Init, DemoType, NoDemo, Views
<1>3. Settling  BY DEF Init, Settling
<1> QED  BY <1>1, <1>2, <1>3 DEF Inv

LEMMA InvHolds == Spec => []Inv
<1>1. Init => Inv  BY InitInv
<1>2. Inv /\ [Next]_vars => Inv'
  BY DemoSteps, SiteSteps DEF Inv
<1> QED  BY <1>1, <1>2, PTL DEF Spec

LEMMA InvIsTyped == Inv => TypeOK
<1> SUFFICES ASSUME Inv PROVE TypeOK
  OBVIOUS
<1>1. calls \subseteq Requests  BY DEF Inv, DemoType, CallFits
<1> QED  BY <1>1 DEF Inv, SiteType, DemoType, TypeOK

LEMMA InvSettles == Inv => LanguageSettles
<1> SUFFICES ASSUME Inv PROVE LanguageSettles
  OBVIOUS
<1>1. SiteType /\ Settling  BY DEF Inv
<1>2. header \in Headers  BY <1>1 DEF SiteType
<1>3. ASSUME shown # Nowhere, shown.form = "page", keeps, chosen # "no"
      PROVE  shown.lang = chosen
  <2>1. nav = Nowhere /\ lang = chosen /\ preferred \in {"null", shown.lang}
    BY <1>1, <1>3 DEF Settling
  <2>2. preferred = chosen /\ chosen \in Languages  BY <1>1, <1>3, <2>1 DEF preferred, SiteType
  <2> QED  BY <2>1, <2>2, LanguageTypes
<1>4. ASSUME shown # Nowhere, shown.form = "page", lang = "no", ~bot, Named(header) # {}
      PROVE  shown.lang = detectLocale(navigatorFirst(header))
  <2>1. preferred \in {"null", shown.lang} /\ preferred = browserLang(header)
    BY <1>1, <1>4 DEF Settling, preferred
  <2>2. browserLang(header) = langOf(header[Preferred(header)])  BY <1>4 DEF browserLang
  <2>3. browserLang(header) # "null"  BY <2>2, LanguageTypes
  <2>4. browserLang(header) = detectLocale(navigatorFirst(header))  BY <1>2, <1>4, RulesAgree
  <2> QED  BY <2>1, <2>3, <2>4
<1>5. demoLang(header) = detectLocale(navigatorFirst(header))  BY <1>2, RulesAgree
<1> QED  BY <1>3, <1>4, <1>5 DEF LanguageSettles

(* Every variable of the site's and the demo's visitors keeps its type: no *)
(* request names a demo that was not made.                                 *)
THEOREM TypeCorrect == Spec => []TypeOK
BY InvHolds, InvIsTyped, PTL

(* The site's worker comes to rest on a page in the language chosen last,  *)
(* or in the one the panel's web UI would start in, and the demo's rule of *)
(* languages agrees: for lists of languages of any length.                 *)
THEOREM ShownLanguageIsRight == Spec => []LanguageSettles
BY InvHolds, InvSettles, PTL
-----------------------------------------------------------------------------
(* Redirects come to an end: the measure behind PageComes.                 *)

(* How many redirects the address being fetched can still have: one for    *)
(* ?lang= and, as a browser may not keep the cookie, one for the language  *)
(* it prefers; and one for the address the page has.                       *)
Ahead ==
  (IF nav.choose # "no" THEN 2 ELSE IF preferred \notin {"null", nav.lang} THEN 1 ELSE 0)
  + (IF nav.form # "page" THEN 1 ELSE 0)

(* An address that is fetched is redirected at most three times: every     *)
(* redirect leaves fewer to come, and nothing else, of the site or of the  *)
(* demo, makes more of them. The worker and the browser's cookie cannot    *)
(* send a visitor round in a circle.                                       *)
Descends ==
  /\ nav # Nowhere => Ahead \in 0..3
  /\ nav # Nowhere /\ nav' # Nowhere => UNCHANGED <<nav, Ahead>> \/ Ahead' < Ahead
RedirectsDescend == [][Descends]_vars

LEMMA RedirectsLower ==
  ASSUME SiteType, nav # Nowhere, RedirectCanonical \/ RedirectChosen \/ RedirectPreferred
  PROVE  Ahead' < Ahead
<1>0. /\ nav \in Addresses /\ UNCHANGED <<header, bot>>
      /\ keeps \in BOOLEAN /\ lang \in Languages \cup {"no"}
  BY DEF SiteType, RedirectCanonical, RedirectChosen, RedirectPreferred
<1> DEFINE Tongue == IF nav.choose # "no" THEN 2
                     ELSE IF preferred \notin {"null", nav.lang} THEN 1 ELSE 0
           Form == IF nav.form # "page" THEN 1 ELSE 0
<1>1. Ahead = Tongue + Form  BY DEF Ahead
<1>2. Ahead' = Tongue' + Form'  BY DEF Ahead
<1>3. Tongue \in {0, 1, 2} /\ Form \in {0, 1} /\ Tongue' \in {0, 1, 2} /\ Form' \in {0, 1}  OBVIOUS
<1>4. CASE RedirectCanonical
  <2>1. nav' = [nav EXCEPT !.form = "page"] /\ lang' = lang /\ nav.form # "page"
    BY <1>4 DEF RedirectCanonical, Redirect, Canonical
  <2>2. nav'.form = "page" /\ nav'.lang = nav.lang /\ nav'.choose = nav.choose
    BY <1>0, <2>1 DEF Addresses
  <2>3. preferred' = preferred  BY <1>0, <2>1 DEF preferred
  <2>4. Tongue' = Tongue /\ Form' = 0 /\ Form = 1  BY <2>1, <2>2, <2>3
  <2> QED  BY <1>1, <1>2, <1>3, <2>4
<1>5. CASE RedirectChosen
  <2>1. /\ nav' = [[nav EXCEPT !.lang = nav.choose] EXCEPT !.choose = "no"]
        /\ nav.choose # "no"
    BY <1>5 DEF RedirectChosen, Redirect, counterpart
  <2>2. nav'.choose = "no" /\ nav'.form = nav.form  BY <1>0, <2>1 DEF Addresses
  <2>3. Tongue' \in {0, 1} /\ Tongue = 2 /\ Form' = Form  BY <2>1, <2>2
  <2> QED  BY <1>1, <1>2, <1>3, <2>3
<1>6. CASE RedirectPreferred
  <2>1. /\ nav' = [nav EXCEPT !.lang = preferred] /\ lang' = lang
        /\ nav.choose = "no" /\ preferred \notin {"null", nav.lang}
    BY <1>6 DEF RedirectPreferred, Redirect, counterpart
  <2>2. nav'.lang = preferred /\ nav'.form = nav.form /\ nav'.choose = "no"
    BY <1>0, <2>1 DEF Addresses
  <2>3. preferred' = preferred  BY <1>0, <2>1 DEF preferred
  <2>4. Tongue = 1 /\ Tongue' = 0 /\ Form' = Form  BY <2>1, <2>2, <2>3
  <2> QED  BY <1>1, <1>2, <1>3, <2>4
<1> QED  BY <1>4, <1>5, <1>6

LEMMA RestKeepsAhead == ASSUME UNCHANGED <<header, bot, keeps, site>> PROVE UNCHANGED <<nav, Ahead>>
BY DEF Ahead, preferred

LEMMA NextDescends == ASSUME SiteType, [Next]_vars PROVE Descends
<1>1. nav # Nowhere => Ahead \in 0..3  BY DEF Ahead
<1> SUFFICES ASSUME nav # Nowhere, nav' # Nowhere
             PROVE  UNCHANGED <<nav, Ahead>> \/ Ahead' < Ahead
  BY <1>1 DEF Descends
<1>2. ASSUME NEW a \in Addresses, Open(a) PROVE FALSE  BY <1>2 DEF Open
<1>3. CASE Worker
  <2>1. ~Show  BY DEF Show
  <2> QED  BY <1>3, <2>1, RedirectsLower DEF Worker
<1>4. CASE \/ OpenDemo \/ CookieExpires
           \/ \E o \in {"start", "end", "api"} : Press(o)
           \/ \E c \in calls : Arrive(c)
           \/ \E d \in Demos : Sleep(d) \/ expire(d)
  <2>1. UNCHANGED <<header, bot, keeps, site>>
    BY <1>4 DEF OpenDemo, CookieExpires, Press, Arrive, StartArrives, EndArrives, PageArrives,
         ApiArrives, Sleep, expire
  <2> QED  BY <2>1, RestKeepsAhead
<1>5. ASSUME NEW c \in calls, Serve(c) PROVE UNCHANGED <<nav, Ahead>>
  <2>1. UNCHANGED <<header, bot, keeps, site>>
    BY <1>5 DEF Serve, ServeStart, ServeEnd, ServeNoSession, Fetch, FetchFails
  <2> QED  BY <2>1, RestKeepsAhead
<1>6. CASE UNCHANGED vars
  <2>1. UNCHANGED <<header, bot, keeps, site>>  BY <1>6 DEF vars
  <2> QED  BY <2>1, RestKeepsAhead
<1> QED  BY <1>2, <1>3, <1>4, <1>5, <1>6 DEF Next

(* The site's redirects end after three at most, whatever the browser      *)
(* sends, keeps or refuses and whichever pages were built: no loop between *)
(* the cookie, ?lang= and the languages of the browser.                    *)
THEOREM RedirectsEnd == Spec => RedirectsDescend
<1>1. Inv /\ [Next]_vars => [Descends]_vars  BY NextDescends DEF Inv
<1> QED  BY <1>1, InvHolds, PTL DEF Spec, RedirectsDescend
=============================================================================
