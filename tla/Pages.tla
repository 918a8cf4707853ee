-------------------------------- MODULE Pages --------------------------------
(***************************************************************************)
(* The pages of the web UI (web/src/routes/**/+page.svelte) in one browser *)
(* tab: what a person starts on a page, which window asks first, what the  *)
(* request is about when it is sent, and what its answer does to what is   *)
(* on the page THEN. Windows cover the page, so rows, forms and panels are *)
(* reached only while none is open; Escape, the cross and the backdrop     *)
(* close one at any time, also while its request is on its way.            *)
(*                                                                         *)
(* A page is a record of its operations by how they are written; an        *)
(* operation is named after its function. A subject is what a row, a panel *)
(* or a window is about. Which operations a visit uses is chosen at the    *)
(* start: all pages, and every MaxOps operations of each.                  *)
(***************************************************************************)
EXTENDS FiniteSets, Naturals

CONSTANTS
  Subjects,   \* accounts, domains, mailboxes, certificates ...
  None,
  MaxOps,     \* bound: operations a visit uses
  MaxCalls    \* bound: requests on their way at a time

ASSUME NoneAssumption == None \notin Subjects
ASSUME BoundAssumption == MaxOps \in Nat /\ MaxCalls \in Nat \ {0}

(* asks: Confirm's `run`, with what the row gave it. asksNow: Confirm's    *)
(* `run` that reads the page's panel when it runs. raises: asks that do    *)
(* not catch a failure. own: windows of the page. ownNow: those that read  *)
(* the panel when they run. shuts: whose success closes the page's window. *)
(* forms: forms of the page; refilled: those that load() writes; shown:    *)
(* those that the answer which opens the panel writes. wipes: whose        *)
(* success empties or writes which form. spent: who empties which form     *)
(* when it is sent, not when it succeeds; that form is off meanwhile.      *)
(* buttons: sent at once. once: groups of which nothing is offered while   *)
(* one of them is on its way. panel, choice: the page has a panel, a list  *)
(* under a choice.                                                         *)
Plain == [asks |-> {}, asksNow |-> {}, raises |-> {}, own |-> {}, ownNow |-> {},
          shuts |-> {}, forms |-> {}, refilled |-> {}, shown |-> {}, wipes |-> {}, spent |-> {},
          buttons |-> {}, once |-> {}, panel |-> FALSE, choice |-> FALSE]
Emptied(fs) == {<<f, f>> : f \in fs}

mail == [Plain EXCEPT
  !.asks = {"newPassword", "toggleBox", "toggleSendOnly", "toggleLenient", "rotateDKIM"},
  !.own = {"remove"}, !.shuts = {"remove"},
  !.forms = {"doInstall", "saveSettings", "addDomain", "addBox", "addAlias", "installWebmail"},
  !.refilled = {"saveSettings"}, !.wipes = Emptied({"addDomain", "addBox", "addAlias"})]

users == [Plain EXCEPT
  !.asks = {"askShell", "askStatus"}, !.asksNow = {"rmCron", "appAction", "askValkey"},
  !.own = {"delete", "setPassword"}, !.shuts = {"delete", "setPassword"},
  !.forms = {"create", "addCron", "saveCron", "addShare", "addApp", "vkPut"},
  !.shown = {"vkPut"}, !.wipes = Emptied({"create", "addCron", "saveCron", "addShare", "addApp"}),
  !.buttons = {"toggleCron", "entryShare", "rmShare", "vkRestart", "appStart"},
  !.panel = TRUE]

sites == [Plain EXCEPT
  !.asks = {"apply", "suspend"}, !.own = {"delete"}, !.shuts = {"apply", "suspend", "delete"},
  !.forms = {"create"}, !.wipes = Emptied({"create"})]

site == [Plain EXCEPT
  !.own = {"issueTLS"}, !.shuts = {"issueTLS"},
  !.forms = {"save", "savePHP", "saveNginx", "installCMS"}, !.refilled = {"save", "savePHP"},
  !.wipes = Emptied({"saveNginx"}) \cup {<<"issueTLS", "save">>},
  !.once = {{"saveNginx"}, {"installCMS"}}, !.choice = TRUE]

php == [Plain EXCEPT
  !.asks = {"remove", "setExtOff"}, !.buttons = {"install", "setExtOn", "resetGlobal"},
  !.forms = {"saveGlobal"}, !.wipes = {<<"saveGlobal", "saveGlobal">>, <<"resetGlobal", "saveGlobal">>},
  !.once = {{"setExtOn", "setExtOff"}, {"saveGlobal", "resetGlobal"}}]

ssl == [Plain EXCEPT
  !.asks = {"selfSigned", "renew"}, !.raises = {"selfSigned", "renew"},
  !.own = {"issueSite", "importSite", "remove"}, !.shuts = {"issueSite", "importSite", "remove"},
  !.forms = {"issuePanel", "importPanel", "addProvider"},
  !.wipes = Emptied({"importPanel", "addProvider"})]

settings == [Plain EXCEPT
  !.asks = {"setPermissive", "applyUpdate", "revoke", "rmHook"}, !.raises = {"revoke", "rmHook"},
  !.forms = {"saveUpdate", "enableTotp", "addHook", "saveRealIP"},
  !.refilled = {"saveUpdate", "saveRealIP"},
  !.wipes = Emptied({"saveUpdate", "enableTotp", "addHook", "saveRealIP"}) \cup {<<"checkUpdate", "saveUpdate">>},
  !.buttons = {"startTotp", "disableTotp", "createToken", "checkUpdate", "setEnforcing"},
  !.once = {{"checkUpdate", "applyUpdate"}}]

databases == [Plain EXCEPT
  !.asks = {"passwd", "saveCfg", "resetCfg"}, !.own = {"drop"}, !.shuts = {"drop"},
  !.forms = {"create", "saveCfg"}, !.buttons = {"installEngine"},
  !.wipes = Emptied({"create", "saveCfg"}) \cup {<<"resetCfg", "saveCfg">>},
  !.once = {{"saveCfg", "resetCfg"}}]

stack == [Plain EXCEPT
  !.asks = {"install", "remove"}, !.raises = {"remove"},
  !.forms = {"saveMem"}, !.refilled = {"saveMem"}]

firewall == [Plain EXCEPT
  !.asks = {"disable", "rm", "unban"}, !.buttons = {"apply", "enable", "untrust", "installF2b"},
  !.forms = {"addRule", "ban", "trust"},
  !.wipes = Emptied({"addRule", "ban", "trust"}) \cup {<<"unban", "ban">>, <<"untrust", "trust">>}]

backups == [Plain EXCEPT
  !.own = {"restore"}, !.ownNow = {"restore"}, !.panel = TRUE, !.forms = {"create", "start"}]

dashboard == [Plain EXCEPT !.buttons = {"fixSites", "enforce"}, !.once = {{"fixSites", "enforce"}},
  !.choice = TRUE]
audit == [Plain EXCEPT !.choice = TRUE]

(* A command of mp, typed or picked, while none is running; both empty the *)
(* line.                                                                   *)
console == [Plain EXCEPT !.forms = {"run"}, !.buttons = {"quick"},
  !.once = {{"run", "quick"}}, !.spent = {<<"run", "run">>, <<"quick", "run">>}]

Routes == {mail, users, sites, site, php, ssl, settings, databases, stack, firewall,
           backups, dashboard, audit, console}
Operations(p) == p.asks \cup p.asksNow \cup p.own \cup p.forms \cup p.buttons
-----------------------------------------------------------------------------
VARIABLES
  page, ops,  \* the page and the operations of it this visit uses
  ask,        \* Confirm's window, or None: its operation and subject
  busy,       \* Confirm waits for its `run`
  own,        \* the page's own window, or None
  panel,      \* the subject of the panel that is open, or None
  opening,    \* panels on their way
  form,       \* the form that holds what was typed, or None
  calls,      \* requests on their way
  loading,    \* load() waits for the server
  choice, lists, list,  \* the choice, the lists on their way, what the shown one is of
  (* history *)
  strays      \* operations sent for something the window had not named

windows == <<ask, own>>
lists_ == <<choice, lists, list>>
vars == <<page, ops, ask, busy, own, panel, opening, form, calls, loading,
          choice, lists, list, strays>>

(* The windows of mail's page delete domains, mailboxes and aliases.       *)
Kinds == {"domain", "box", "alias", "row"}
Window(o, k, s) == [op |-> o, kind |-> k, on |-> s]
Windows == [op : ops, kind : Kinds, on : Subjects] \cup {None}
Calls == [op : ops, kind : Kinds, on : Subjects \cup {None}, by : {"ask", "own", "page"}]

Free == ask = None /\ own = None
Room == Cardinality(calls) < MaxCalls

TypeOK ==
  /\ page \in Routes /\ ops \subseteq Operations(page)
  /\ ask \in Windows /\ own \in Windows /\ busy \in BOOLEAN
  /\ panel \in Subjects \cup {None} /\ opening \subseteq Subjects
  /\ form \in (ops \cap page.forms) \cup {None}
  /\ calls \subseteq Calls /\ loading \in BOOLEAN
  /\ choice \in Subjects /\ list \in Subjects /\ lists \subseteq Subjects
  /\ strays \subseteq ops

Init ==
  /\ page \in Routes
  /\ ops \in SUBSET Operations(page)
  /\ Cardinality(ops) = MaxOps \/ (Cardinality(ops) < MaxOps /\ ops = Operations(page))
  /\ ask = None /\ own = None /\ busy = FALSE
  /\ panel = None /\ opening = {} /\ form = None /\ calls = {} /\ loading = TRUE
  /\ choice \in Subjects /\ list = choice /\ lists = {}
  /\ strays = {}
-----------------------------------------------------------------------------
(* A request is sent in the name of a window, for what it is about now.    *)
Idle(o) == \A g \in page.once : o \in g => \A c \in calls : c.op \notin g
Send(o, k, s, by) == calls' = calls \cup {[op |-> o, kind |-> k, on |-> s, by |-> by]}

(* Wrong: the button is there without a panel.                             *)
AskWithoutPanel(o, s) ==
  /\ Free /\ o \in page.asks \cup page.asksNow
  /\ ask' = Window(o, "row", IF o \in page.asksNow THEN panel ELSE s)
  /\ UNCHANGED <<page, ops, busy, own, panel, opening, form, calls, loading, lists_, strays>>

(* A button that asks: the row is captured, or the panel's login is named. *)
Ask(o, s) ==
  /\ Free /\ o \in page.asks \cup page.asksNow /\ Idle(o)
  /\ o \in page.asksNow => s = panel
  /\ ask' = Window(o, "row", s)
  /\ UNCHANGED <<page, ops, busy, own, panel, opening, form, calls, loading, lists_, strays>>

(* Confirm.go, up to its await. A `run` that finds no panel returns.       *)
Aim == IF ask.op \in page.asksNow THEN panel ELSE ask.on

go ==
  /\ ask # None /\ ~busy /\ Room
  /\ IF Aim = None
     THEN ask' = None /\ UNCHANGED <<busy, calls, strays>>
     ELSE /\ busy' = TRUE /\ UNCHANGED ask
          /\ Send(ask.op, "row", Aim, "ask")
          /\ strays' = IF Aim # ask.on THEN strays \cup {ask.op} ELSE strays
  /\ UNCHANGED <<page, ops, own, panel, opening, form, loading, lists_>>

(* Escape, the cross, the backdrop; "cancel" is off while busy.            *)
CloseAsk ==
  /\ ask # None /\ ask' = None
  /\ UNCHANGED <<page, ops, busy, own, panel, opening, form, calls, loading, lists_, strays>>

OpenOwn(o, k, s) ==
  /\ Free /\ o \in page.own
  /\ IF page = mail THEN k # "row" ELSE k = "row"
  /\ o \in page.ownNow => s = panel
  /\ own' = Window(o, k, s)
  /\ UNCHANGED <<page, ops, ask, busy, panel, opening, form, calls, loading, lists_, strays>>

(* Its button; nothing keeps it from being pressed again. A restore has    *)
(* closed its window by then.                                              *)
Press ==
  /\ own # None /\ Room
  /\ LET now == own.op \in page.ownNow
         aim == IF now THEN panel ELSE own.on
     IN /\ IF aim = None THEN UNCHANGED calls ELSE Send(own.op, own.kind, aim, "own")
        /\ strays' = IF aim \notin {None, own.on} THEN strays \cup {own.op} ELSE strays
        /\ own' = IF now /\ aim # None THEN None ELSE own
  /\ UNCHANGED <<page, ops, ask, busy, panel, opening, form, loading, lists_>>

CloseOwn ==
  /\ own # None /\ own' = None
  /\ UNCHANGED <<page, ops, ask, busy, panel, opening, form, calls, loading, lists_, strays>>
-----------------------------------------------------------------------------
Type(f) ==
  /\ Free /\ form = None /\ f \in page.forms /\ form' = f
  /\ <<f, f>> \in page.spent => Idle(f)
  /\ UNCHANGED <<page, ops, windows, busy, panel, opening, calls, loading, lists_, strays>>

Spent(o) == IF <<o, form>> \in page.spent THEN None ELSE form

(* A form that asks first is sent by its window.                           *)
Submit(f) ==
  /\ Free /\ Room /\ f \in page.forms \ page.asks /\ Idle(f)
  /\ Send(f, "row", None, "page")
  /\ form' = Spent(f)
  /\ UNCHANGED <<page, ops, windows, busy, panel, opening, loading, lists_, strays>>

Click(b) ==
  /\ Free /\ Room /\ b \in page.buttons /\ Idle(b)
  /\ Send(b, "row", None, "page") /\ form' = Spent(b)
  /\ UNCHANGED <<page, ops, windows, busy, panel, opening, loading, lists_, strays>>

(* openPanel, showSnaps: the panel changes when the answer is there. Of    *)
(* the panels of an account only one writes a form.                        *)
openPanel(s) ==
  /\ Free /\ page.panel /\ opening' = opening \cup {s}
  /\ UNCHANGED <<page, ops, windows, busy, panel, form, calls, loading, lists_, strays>>

PanelAnswered(s) ==
  /\ s \in opening /\ opening' = opening \ {s}
  /\ \/ /\ panel' = s
        /\ form' \in {form, IF form \in page.shown THEN None ELSE form}
     \/ UNCHANGED <<panel, form>>        \* it failed: a toast
  /\ UNCHANGED <<page, ops, windows, busy, calls, loading, lists_, strays>>

ClosePanel ==
  /\ Free /\ panel # None /\ panel' = None
  /\ UNCHANGED <<page, ops, windows, busy, opening, form, calls, loading, lists_, strays>>
-----------------------------------------------------------------------------
(* What an answer leaves of the form and of the page's window; most of     *)
(* them list the page again, or the panel if it is open.                   *)
Refresh ==
  /\ loading' \in {loading, TRUE}
  /\ opening' \in {opening, IF page.panel /\ panel # None THEN opening \cup {panel} ELSE opening}

Wiped(o) == IF <<o, form>> \in page.wipes THEN None ELSE form

(* Confirm.go after its await: ask = null, whichever it is now; a failure  *)
(* that `run` did not catch skips that, and `finally` is done either way.  *)
AskFailed(c) ==
  /\ c.by = "ask" /\ calls' = calls \ {c} /\ busy' = FALSE
  /\ ask' = IF c.op \in page.raises THEN ask ELSE None
  /\ UNCHANGED <<page, ops, own, panel, opening, form, loading, lists_, strays>>

AskAnswered(c) ==
  /\ c.by = "ask" /\ calls' = calls \ {c} /\ busy' = FALSE /\ ask' = None
  /\ own' = IF c.op \in page.shuts THEN None ELSE own
  /\ form' = Wiped(c.op) /\ Refresh
  /\ UNCHANGED <<page, ops, panel, lists_, strays>>

(* mail's remove() reads its window again before each of its three tests.  *)
Later(k) == CASE k = "domain" -> {"box", "alias"} [] k = "box" -> {"alias"} [] OTHER -> {}
Again(c) == page = mail /\ own # None /\ own.kind \in Later(c.kind)

(* Wrong: it goes on with whatever window is open.                         *)
OwnAnsweredOn(c) ==
  /\ c.by = "own"
  /\ IF own # None
     THEN /\ calls' = (calls \ {c}) \cup {[op |-> own.op, kind |-> own.kind, on |-> own.on, by |-> "own"]}
          /\ strays' = strays \cup {own.op} /\ UNCHANGED <<own, loading, opening>>
     ELSE calls' = calls \ {c} /\ UNCHANGED <<own, strays, opening, loading>>
  /\ UNCHANGED <<page, ops, ask, busy, panel, form, lists_>>

OwnAnswered(c) ==
  /\ c.by = "own"
  /\ IF Again(c)
     THEN /\ calls' = (calls \ {c}) \cup {[op |-> own.op, kind |-> own.kind, on |-> own.on, by |-> "own"]}
          /\ strays' = strays \cup {own.op}
          /\ UNCHANGED <<own, form, loading, opening>>
     ELSE /\ calls' = calls \ {c} /\ UNCHANGED strays
          /\ own' = IF c.op \in page.shuts THEN None ELSE own
          /\ form' = Wiped(c.op) /\ Refresh
  /\ UNCHANGED <<page, ops, ask, busy, panel, lists_>>

(* setPassword closes its window after a failure as well.                  *)
OwnFailed(c) ==
  /\ c.by = "own" /\ calls' = calls \ {c}
  /\ own' = IF c.op = "setPassword" THEN None ELSE own
  /\ UNCHANGED <<page, ops, ask, busy, panel, opening, form, loading, lists_, strays>>

PageAnswered(c) ==
  /\ c.by = "page" /\ calls' = calls \ {c}
  /\ form' = Wiped(c.op) /\ Refresh
  /\ UNCHANGED <<page, ops, windows, busy, panel, lists_, strays>>

PageFailed(c) ==
  /\ c.by = "page" /\ calls' = calls \ {c}
  /\ UNCHANGED <<page, ops, windows, busy, panel, opening, form, loading, lists_, strays>>

(* Wrong: every form is written from the answer.                           *)
LoadedAll ==
  /\ loading /\ loading' = FALSE /\ form' = None
  /\ UNCHANGED <<page, ops, windows, busy, panel, opening, calls, lists_, strays>>

(* load() has its answers: the forms that show what the server has are     *)
(* written again, typed in or not.                                         *)
Loaded ==
  /\ loading /\ loading' = FALSE
  /\ form' = IF form \in page.refilled THEN None ELSE form
  /\ UNCHANGED <<page, ops, windows, busy, panel, opening, calls, lists_, strays>>

(* A job the page shows has finished (JobStream).                          *)
Finished ==
  /\ ~loading /\ loading' = TRUE
  /\ UNCHANGED <<page, ops, windows, busy, panel, opening, form, calls, lists_, strays>>
-----------------------------------------------------------------------------
(* The filter of the audit, the range of the metrics, the log of a site.   *)
Choose(s) ==
  /\ Free /\ page.choice /\ s # choice /\ choice' = s
  /\ lists' = lists \cup {s}
  /\ UNCHANGED <<page, ops, windows, busy, panel, opening, form, calls, loading, list, strays>>

(* Wrong: the timer asks for the list that is shown.                       *)
PollShown ==
  /\ page.choice /\ list \notin lists /\ lists' = lists \cup {list}
  /\ UNCHANGED <<page, ops, windows, busy, panel, opening, form, calls, loading, choice, list, strays>>

(* The audit asks again every 10 seconds; the others on the person's hand. *)
Poll ==
  /\ page.choice /\ choice \notin lists /\ lists' = lists \cup {choice}
  /\ UNCHANGED <<page, ops, windows, busy, panel, opening, form, calls, loading, choice, list, strays>>

ListAnswered(s) ==
  /\ s \in lists /\ lists' = lists \ {s} /\ list' = s
  /\ UNCHANGED <<page, ops, windows, busy, panel, opening, form, calls, loading, choice, strays>>

Person == \/ \E o \in ops, s \in Subjects : Ask(o, s) \/ \E k \in Kinds : OpenOwn(o, k, s)
          \/ go \/ CloseAsk \/ Press \/ CloseOwn \/ ClosePanel
          \/ \E o \in ops : Type(o) \/ Submit(o) \/ Click(o)
          \/ \E s \in Subjects : openPanel(s) \/ Choose(s)

Answered == \E c \in calls : \/ AskAnswered(c) \/ AskFailed(c) \/ OwnAnswered(c) \/ OwnFailed(c)
                             \/ PageAnswered(c) \/ PageFailed(c)

Next == \/ Person \/ Answered \/ Loaded \/ Finished \/ Poll
        \/ \E s \in Subjects : PanelAnswered(s) \/ ListAnswered(s)

Spec == Init /\ [][Next]_vars

Polling == page = audit /\ Poll

(* Lists come, and setInterval runs.                                       *)
FairSpec ==
  /\ Spec /\ WF_vars(Polling)
  /\ \A s \in Subjects : WF_vars(ListAnswered(s))
-----------------------------------------------------------------------------
(* What a window named is what its request is about, except for the        *)
(* operations that read the page again when they run.                      *)
StraysAreRereads == strays \subseteq page.asksNow \cup page.ownNow \cup (IF page = mail THEN {"remove"} ELSE {})

(* What was typed into a form of a page is taken from it only by           *)
(*   - the success of the form's own request, which takes also what was    *)
(*     typed while it was on its way (in the console: when it is sent);    *)
(*   - load(), the forms that show what the server has;                    *)
(*   - the panel of an account that shows its Valkey, the memory form;     *)
(*   - the success of another operation, where two functions write one     *)
(*     form: these six (unban empties the form of ban, and so on).         *)
(* Nothing else takes it: no failure, no other answer, no list, panel or   *)
(* window. What is typed into a window goes with the window.               *)
Reloaded == {"saveSettings", "save", "savePHP", "saveUpdate", "saveRealIP", "saveMem"}
Overwrites == {<<"unban", "ban">>, <<"untrust", "trust">>, <<"resetGlobal", "saveGlobal">>,
               <<"resetCfg", "saveCfg">>, <<"checkUpdate", "saveUpdate">>, <<"issueTLS", "save">>}
TypedIsKept ==
  [][form # None /\ form' = None =>
       \/ \E c \in calls \ calls' : c.op = form \/ <<c.op, form>> \in Overwrites
       \/ form = "run" /\ \E c \in calls' \ calls : c.op \in {"run", "quick"}
       \/ form \in Reloaded /\ loading /\ ~loading'
       \/ form = "vkPut" /\ opening' # opening]_vars

(* Once a person has settled on a choice, the page that polls shows the    *)
(* list of that choice for good, although answers to older choices may     *)
(* still come after it.                                                    *)
PollingHeals ==
  \A s \in Subjects : <>[](page = audit /\ choice = s) => <>[](list = s)
=============================================================================
