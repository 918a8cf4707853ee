-------------------------------- MODULE Visit --------------------------------
(***************************************************************************)
(* A visitor of monopanel.app and of the live demo, with one browser: the  *)
(* worker that chooses the language of a page of the site                  *)
(* (site/src/worker.js), the worker that gives each visitor a panel in a   *)
(* container (demo/src/worker.js), and the language the panel's web UI     *)
(* starts in (web/src/lib/i18n). The browser follows redirects, keeps      *)
(* cookies or not, and has several requests of the demo on their way. The  *)
(* two workers share nothing but the browser: a visit is to one of them.   *)
(*                                                                         *)
(* A language of the browser is reduced to what the three rules look at:   *)
(* its primary tag (of the CIS or not, "ro"), its region (Moldova or not). *)
(***************************************************************************)
EXTENDS Naturals, Sequences

CONSTANTS
  Headers,    \* the values of Accept-Language a browser may send
  MaxVisits,  \* bound: addresses of the site the visitor opens
  MaxDemos,   \* bound: demos started
  MaxCalls,   \* bound: requests of the demo on their way at a time
  MaxRevived  \* bound: containers started again by a late request

Languages == {"ru", "en"}
Tags == [primary : {"cis", "ro", "other", "any"}, region : {"md", "none"}, q : 0..2]

ASSUME HeadersAssumption == Headers \subseteq Seq(Tags)
ASSUME LimitsAssumption ==
  MaxVisits \in Nat /\ MaxDemos \in Nat /\ MaxCalls \in Nat /\ MaxRevived \in Nat

-----------------------------------------------------------------------------
(* The rule of the languages, as each of the three parts has it *)

(* Wrong: Moldova is forgotten.                                            *)
langOfPrimary(tag) == IF tag.primary = "cis" THEN "ru" ELSE "en"

langOf(tag) == IF tag.primary = "cis" \/ (tag.primary = "ro" /\ tag.region = "md") THEN "ru" ELSE "en"

(* The languages named, by q and then by their place; "*" and q=0 are not. *)
Named(header) == {i \in 1..Len(header) : header[i].primary # "any" /\ header[i].q > 0}
Preferred(header) ==
  CHOOSE i \in Named(header) : \A j \in Named(header) \ {i} :
    header[i].q > header[j].q \/ (header[i].q = header[j].q /\ i < j)

(* The site's: null when none is named.                                    *)
browserLang(header) == IF Named(header) = {} THEN "null" ELSE langOf(header[Preferred(header)])

(* The demo's, with a list of its own. *)
demoLang(header) ==
  IF \E i \in Named(header) : /\ i = Preferred(header)
                             /\ \/ header[i].primary = "cis"
                                \/ header[i].primary = "ro" /\ header[i].region = "md"
  THEN "ru" ELSE "en"

(* navigator.languages of a browser that sends this header: the languages  *)
(* it prefers, the first one first; detectLocale looks at that one.        *)
navigatorFirst(header) == IF Named(header) = {} THEN <<>> ELSE <<header[Preferred(header)]>>
detectLocale(list) ==
  IF /\ list # <<>>
     /\ list[1].primary = "cis" \/ (list[1].primary = "ro" /\ list[1].region = "md")
  THEN "ru" ELSE "en"
-----------------------------------------------------------------------------
Demos == 1..MaxDemos
NoDemo == 0
Forms == {"page", "bare", "index"}  \* /x/, /x, /x/index.html


(* `built`: the languages in which site/build.mjs made the page, or none.  *)
(* A text without a translation is built in one language, with a warning.  *)
Addresses == [lang : Languages, form : Forms, built : SUBSET Languages, choose : Languages \cup {"no"}]
Nowhere == [lang |-> "ru", form |-> "page", built |-> {}, choose |-> "none"]
Views == {"away", "landing", "ended", "busy", "often", "panel"}
Notices == {"ended", "busy"}                 \* /?ended, /?busy
Operations == {"start", "end", "page", "api"} \cup Notices
Answers == {"none", "redirect", "often", "landing", "panel", "401"} \cup Notices

VARIABLES
  header, bot, keeps,   \* of the browser: its languages, a robot's, it keeps cookies
  lang,      \* the site's cookie, or "no"
  chosen,    \* history: what the visitor chose last, or "no"
  nav,       \* the address of the site being fetched, or Nowhere
  shown,     \* the address shown, or Nowhere
  visits,
  session,   \* the demo's cookie mp_demo: a demo or NoDemo
  running,   \* containers that run
  calls,     \* requests of the demo on their way
  view,      \* what the demo's tabs show, "away" in a visit to the site
  made,      \* demos started
  revived

site == <<lang, chosen, nav, shown, visits>>
demo == <<session, running, calls, view, made, revived>>
vars == <<header, bot, keeps, lang, chosen, nav, shown, visits,
          session, running, calls, view, made, revived>>

Requests == [slot : 1..MaxCalls, op : Operations, on : Demos \cup {NoDemo},
             answer : Answers, gives : Demos \cup {NoDemo}]

TypeOK ==
  /\ header \in Headers /\ bot \in BOOLEAN /\ keeps \in BOOLEAN
  /\ lang \in Languages \cup {"no"} /\ chosen \in Languages \cup {"no"}
  /\ nav \in Addresses \cup {Nowhere} /\ shown \in Addresses \cup {Nowhere}
  /\ visits \in 0..MaxVisits
  /\ made \in 0..MaxDemos /\ running \subseteq 1..made /\ session \in 0..made
  /\ calls \subseteq Requests /\ view \in Views
  /\ revived \in 0..MaxRevived

Init ==
  /\ header \in Headers /\ bot \in BOOLEAN /\ keeps \in BOOLEAN
  /\ lang = "no" /\ chosen = "no" /\ nav = Nowhere /\ shown = Nowhere /\ visits = 0
  /\ session = NoDemo /\ running = {} /\ calls = {} /\ made = 0
  /\ view \in {"away", "landing"} /\ (bot => view = "away")
  /\ revived = 0
-----------------------------------------------------------------------------
(* The site *)

(* A link, a bookmark or the switch of the languages, whose links name the *)
(* page of the language they choose.                                       *)
Open(a) ==
  /\ view = "away" /\ nav = Nowhere /\ visits < MaxVisits /\ visits' = visits + 1
  /\ a.choose = "no" \/ (a.lang = a.choose /\ a.form # "index")
  /\ nav' = a /\ shown' = Nowhere
  /\ chosen' = IF a.choose = "no" THEN chosen ELSE a.choose
  /\ UNCHANGED <<header, bot, keeps, lang, demo>>

(* Wrong: the prefix is only ever put on.                                  *)
counterpartPrefixed(a, l) == IF l = "en" THEN [a EXCEPT !.lang = l] ELSE a

(* The same page in the other language.                                    *)
counterpart(a, l) == [a EXCEPT !.lang = l]

preferred == IF lang # "no" THEN lang ELSE IF bot THEN "null" ELSE browserLang(header)

Redirect(a) == nav' = a /\ UNCHANGED shown

(* The canonical address of a page that exists, with its query.            *)
Canonical == nav.form # "page" /\ nav.lang \in nav.built
(* An address with an extension is not taken for a page.                   *)
IsPage == nav.form # "index"

RedirectCanonical ==
  /\ nav # Nowhere /\ Canonical
  /\ Redirect([nav EXCEPT !.form = "page"])
  /\ UNCHANGED <<header, bot, keeps, lang, chosen, visits, demo>>

(* ?lang= is remembered in the cookie and taken off the address.           *)
RedirectChosen ==
  /\ nav # Nowhere /\ ~Canonical /\ IsPage /\ nav.choose # "no"
  /\ lang' = IF keeps THEN nav.choose ELSE lang
  /\ Redirect([counterpart(nav, nav.choose) EXCEPT !.choose = "no"])
  /\ UNCHANGED <<header, bot, keeps, chosen, visits, demo>>

(* Wrong: a visitor without a preference is redirected as well.            *)
RedirectEveryone ==
  /\ nav # Nowhere /\ ~Canonical /\ IsPage /\ nav.choose = "no"
  /\ preferred # nav.lang
  /\ Redirect(counterpart(nav, preferred))
  /\ UNCHANGED <<header, bot, keeps, lang, chosen, visits, demo>>

(* The language of the cookie or the browser, when there is one.           *)
RedirectPreferred ==
  /\ nav # Nowhere /\ ~Canonical /\ IsPage /\ nav.choose = "no"
  /\ preferred \notin {"null", nav.lang}
  /\ Redirect(counterpart(nav, preferred))
  /\ UNCHANGED <<header, bot, keeps, lang, chosen, visits, demo>>

Show ==
  /\ nav # Nowhere /\ ~Canonical
  /\ IsPage => nav.choose = "no" /\ preferred \in {"null", nav.lang}
  /\ shown' = nav /\ nav' = Nowhere
  /\ UNCHANGED <<header, bot, keeps, lang, chosen, visits, demo>>
-----------------------------------------------------------------------------
(* The demo: the visitor *)

Call(o) ==
  \E n \in 1..MaxCalls :
    /\ \A c \in calls : c.slot # n
    /\ calls' = calls \cup {[slot |-> n, op |-> o, on |-> session, answer |-> "none", gives |-> NoDemo]}

(* The page of the demo is opened or loaded again, by a link or a person.  *)
OpenDemo ==
  /\ view # "away" /\ Call("page")
  /\ UNCHANGED <<header, bot, keeps, site, session, running, view, made, revived>>

(* The button of the landing page; the link of the banner; the panel's UI. *)
Press(o) ==
  /\ o = "start" => view \in {"landing", "ended", "busy", "often"}
  /\ o \in {"end", "api"} => view = "panel"
  /\ Call(o)
  /\ UNCHANGED <<header, bot, keeps, site, session, running, view, made, revived>>
-----------------------------------------------------------------------------
(* The demo: the worker *)

Answer(c, a, d) ==
  calls' = (calls \ {c}) \cup {[c EXCEPT !.answer = a, !.gives = d]}

(* POST /start: too often from this address, no container to be had, or a  *)
(* new one, whatever demo the request came with.                           *)
ServeStart(c) ==
  /\ c.op = "start" /\ c.answer = "none"
  /\ \/ \E a \in {"often", "busy"} : Answer(c, a, NoDemo) /\ UNCHANGED <<made, running>>
     \/ /\ made < MaxDemos /\ made' = made + 1 /\ running' = running \cup {made'}
        /\ Answer(c, "redirect", made')
  /\ UNCHANGED <<header, bot, keeps, site, session, view, revived>>

(* /end: the container is destroyed, or that fails and it is left alone.   *)
ServeEnd(c) ==
  /\ c.op = "end" /\ c.answer = "none"
  /\ running' \in {running, running \ {c.on}}
  /\ Answer(c, "redirect", NoDemo)
  /\ UNCHANGED <<header, bot, keeps, site, session, view, made, revived>>

(* Without a session: the landing page, with the notice that the address   *)
(* asks for, or 401 for the API.                                           *)
ServeNoSession(c) ==
  /\ c.op \notin {"start", "end"} /\ c.answer = "none" /\ c.on = NoDemo
  /\ Answer(c, CASE c.op = "page" -> "landing" [] c.op = "api" -> "401" [] OTHER -> c.op, NoDemo)
  /\ UNCHANGED <<header, bot, keeps, site, session, running, view, made, revived>>

(* The container answers; one that sleeps or was destroyed is started      *)
(* again, also by a request that is older than its end.                    *)
Fetch(c) ==
  /\ c.op \notin {"start", "end"} /\ c.answer = "none" /\ c.on # NoDemo
  /\ IF c.on \in running THEN UNCHANGED revived ELSE revived < MaxRevived /\ revived' = revived + 1
  /\ running' = running \cup {c.on}
  /\ Answer(c, "panel", NoDemo)
  /\ UNCHANGED <<header, bot, keeps, site, session, view, made>>

FetchFails(c) ==
  /\ c.op \notin {"start", "end"} /\ c.answer = "none" /\ c.on # NoDemo
  /\ Answer(c, "redirect", NoDemo)
  /\ UNCHANGED <<header, bot, keeps, site, session, running, view, made, revived>>

(* Wrong: only a container that somebody's cookie names falls asleep.      *)
SleepNamed(d) ==
  /\ d \in running /\ d = session /\ \A c \in calls : d \notin {c.on, c.gives}
  /\ running' = running \ {d}
  /\ UNCHANGED <<header, bot, keeps, site, session, calls, view, made, revived>>

(* sleepAfter: five minutes without a request.                             *)
Sleep(d) ==
  /\ d \in running /\ \A c \in calls : d \notin {c.on, c.gives}
  /\ running' = running \ {d}
  /\ UNCHANGED <<header, bot, keeps, site, session, calls, view, made, revived>>

(* expire: fifteen minutes after it was started, whatever is going on.     *)
expire(d) ==
  /\ d \in running /\ running' = running \ {d}
  /\ UNCHANGED <<header, bot, keeps, site, session, calls, view, made, revived>>

(* Max-Age of the cookie. *)
CookieExpires ==
  /\ session # NoDemo /\ session' = NoDemo
  /\ UNCHANGED <<header, bot, keeps, site, running, calls, view, made, revived>>
-----------------------------------------------------------------------------
(* The demo: the answers. A redirect sets or drops the cookie and is       *)
(* followed by a request of its own, with the cookie as it is by then.     *)

Follow(c, o) ==
  calls' = (calls \ {c}) \cup
    {[c EXCEPT !.op = o, !.on = session', !.answer = "none", !.gives = NoDemo]}

StartArrives(c) ==
  /\ c.op = "start" /\ c.answer # "none"
  /\ IF c.answer = "redirect"
     THEN session' = (IF keeps THEN c.gives ELSE session) /\ Follow(c, "page") /\ UNCHANGED view
     ELSE calls' = calls \ {c} /\ view' = c.answer /\ UNCHANGED session
  /\ UNCHANGED <<header, bot, keeps, site, running, made, revived>>

EndArrives(c) ==
  /\ c.op = "end" /\ c.answer # "none"
  /\ session' = NoDemo /\ Follow(c, "ended")
  /\ UNCHANGED <<header, bot, keeps, site, running, view, made, revived>>

(* A page. One that failed drops the cookie, whichever demo it names by    *)
(* then, and is redirected to the landing page.                            *)
PageArrives(c) ==
  /\ c.op \in {"page"} \cup Notices /\ c.answer # "none"
  /\ IF c.answer = "redirect"
     THEN session' = NoDemo /\ Follow(c, "busy") /\ UNCHANGED view
     ELSE calls' = calls \ {c} /\ view' = c.answer /\ UNCHANGED session
  /\ UNCHANGED <<header, bot, keeps, site, running, made, revived>>

(* A call of the panel's UI: a failure drops the cookie as well; the page  *)
(* fetch() is redirected to is shown to nobody.                            *)
ApiArrives(c) ==
  /\ c.op = "api" /\ c.answer # "none" /\ calls' = calls \ {c}
  /\ session' = IF c.answer = "redirect" THEN NoDemo ELSE session
  /\ UNCHANGED <<header, bot, keeps, site, running, view, made, revived>>

Serve(c) == ServeStart(c) \/ ServeEnd(c) \/ ServeNoSession(c) \/ Fetch(c) \/ FetchFails(c)
Arrive(c) == StartArrives(c) \/ EndArrives(c) \/ PageArrives(c) \/ ApiArrives(c)
Worker == RedirectCanonical \/ RedirectChosen \/ RedirectPreferred \/ Show

Next ==
  \/ \E a \in Addresses : Open(a)
  \/ Worker
  \/ OpenDemo \/ \E o \in {"start", "end", "api"} : Press(o)
  \/ \E c \in calls : Serve(c) \/ Arrive(c)
  \/ \E d \in Demos : Sleep(d) \/ expire(d)
  \/ CookieExpires

Spec == Init /\ [][Next]_vars

(* The browser follows redirects, requests are answered, and the platform  *)
(* lets idle containers sleep.                                             *)
FairSpec ==
  /\ Spec /\ WF_vars(Worker)
  /\ \A n \in 1..MaxCalls : WF_vars(\E c \in calls : c.slot = n /\ (Serve(c) \/ Arrive(c)))
  /\ \A d \in Demos : WF_vars(Sleep(d))
-----------------------------------------------------------------------------
(* A visitor sees the site in the language chosen last, if the browser     *)
(* keeps cookies, and else in the one the panel's web UI and the demo      *)
(* would start in (detect.ts: the rules are the same); robots and          *)
(* browsers that name no language get the page they asked for.             *)
LanguageSettles ==
  /\ shown # Nowhere /\ shown.form = "page" =>
       /\ keeps /\ chosen # "no" => shown.lang = chosen
       /\ lang = "no" /\ ~bot /\ Named(header) # {} => shown.lang = detectLocale(navigatorFirst(header))
  /\ demoLang(header) = detectLocale(navigatorFirst(header))

(* Redirects come to an end: every address shows a page.                   *)
PageComes == nav # Nowhere ~> nav = Nowhere

(* A container no cookie names any more stops: the demo of a visitor who   *)
(* has gone, whose start was answered too late or who keeps no cookies,    *)
(* and the one a late request started again after its end.                 *)
OrphanStops == \A d \in Demos : d \in running /\ session # d ~> d \notin running \/ session = d
=============================================================================
