----------------------------- MODULE PagesProofs -----------------------------
(***************************************************************************)
(* Proofs about Pages, for any subjects, any operations of a page in use   *)
(* and any number of requests on their way.                                *)
(***************************************************************************)
EXTENDS Pages, TLAPS

USE NoneAssumption, BoundAssumption DEF windows, lists_

-----------------------------------------------------------------------------
(* Types, part by part. *)

VisitType == page \in Routes /\ ops \subseteq Operations(page)
WindowType == ask \in Windows /\ own \in Windows /\ busy \in BOOLEAN
CallType == calls \subseteq Calls /\ loading \in BOOLEAN
FormType == form \in (ops \cap page.forms) \cup {None}
PanelType == panel \in Subjects \cup {None} /\ opening \subseteq Subjects
ListType == choice \in Subjects /\ list \in Subjects /\ lists \subseteq Subjects
StrayType == strays \subseteq ops

(* The page's own window is one of its own operations.                     *)
OwnIsOwn == own # None => own.op \in page.own

Types == /\ VisitType /\ WindowType /\ CallType /\ FormType
         /\ PanelType /\ ListType /\ StrayType /\ OwnIsOwn

LEMMA TypeParts == Types => TypeOK
BY DEF Types, VisitType, WindowType, CallType, FormType, PanelType, ListType, StrayType, TypeOK

LEMMA WindowTypes ==
  /\ \A o \in ops, k \in Kinds, s \in Subjects : Window(o, k, s) \in Windows
  /\ None \in Windows /\ "row" \in Kinds
  /\ \A w \in Windows : w # None => w.op \in ops /\ w.kind \in Kinds /\ w.on \in Subjects
BY DEF Window, Windows, Kinds

LEMMA SendTypes ==
  ASSUME CallType, NEW o \in ops, NEW k \in Kinds, NEW s \in Subjects \cup {None},
         NEW by \in {"ask", "own", "page"}, Send(o, k, s, by), UNCHANGED ops
  PROVE  calls' \subseteq Calls'
BY DEF CallType, Calls, Send

LEMMA AnswerTypes ==
  ASSUME CallType, NEW c, calls' = calls \ {c}, UNCHANGED ops
  PROVE  calls' \subseteq Calls'
BY DEF CallType, Calls

-----------------------------------------------------------------------------
LEMMA AskingType ==
  ASSUME Types, \/ \E o \in ops, s \in Subjects : Ask(o, s) \/ \E k \in Kinds : OpenOwn(o, k, s)
                \/ go \/ CloseAsk \/ Press \/ CloseOwn \/ ClosePanel
  PROVE  Types'
<1> USE DEF Types
<1>1. ASSUME NEW o \in ops, NEW s \in Subjects, Ask(o, s) PROVE Types'
  <2>1. ask' \in Windows  BY <1>1, WindowTypes DEF Ask
  <2> QED
    BY <1>1, <2>1 DEF Ask, VisitType, WindowType, CallType, FormType, PanelType, ListType,
         StrayType, OwnIsOwn, Windows, Calls
<1>2. ASSUME NEW o \in ops, NEW s \in Subjects, NEW k \in Kinds, OpenOwn(o, k, s) PROVE Types'
  <2>1. own' \in Windows /\ own'.op = o /\ o \in page.own  BY <1>2, WindowTypes DEF OpenOwn, Window
  <2> QED
    BY <1>2, <2>1 DEF OpenOwn, VisitType, WindowType, CallType, FormType, PanelType, ListType,
         StrayType, OwnIsOwn, Windows, Calls
<1>3. CASE go
  <2>1. ask \in Windows /\ ask # None  BY <1>3 DEF go, WindowType
  <2>2. ask.op \in ops /\ ask.on \in Subjects /\ Aim \in Subjects \cup {None}
    BY <2>1, WindowTypes DEF Aim, PanelType
  <2>3. UNCHANGED <<page, ops, own, panel, opening, form, loading, lists_>>  BY <1>3 DEF go
  <2>4. ask' \in Windows /\ busy' \in BOOLEAN /\ strays' \subseteq ops
    BY <1>3, <2>1, <2>2, WindowTypes DEF go, WindowType, StrayType
  <2>5. calls' \subseteq Calls'
    <3>1. CASE UNCHANGED calls  BY <2>3, <3>1 DEF CallType, Calls
    <3>2. CASE Send(ask.op, "row", Aim, "ask")  BY <2>2, <2>3, <3>2, SendTypes, WindowTypes
    <3> QED  BY <1>3, <3>1, <3>2 DEF go
  <2> QED
    BY <2>3, <2>4, <2>5 DEF VisitType, WindowType, CallType, FormType, PanelType, ListType,
         StrayType, OwnIsOwn, Windows
<1>4. CASE CloseAsk
  BY <1>4, WindowTypes DEF CloseAsk, VisitType, WindowType, CallType, FormType, PanelType,
       ListType, StrayType, OwnIsOwn, Windows, Calls
<1>5. CASE Press
  <2>1. own \in Windows /\ own # None  BY <1>5 DEF Press, WindowType
  <2>2. own.op \in ops /\ own.on \in Subjects /\ own.kind \in Kinds  BY <2>1, WindowTypes
  <2>3. UNCHANGED <<page, ops, ask, busy, panel, opening, form, loading, lists_>>  BY <1>5 DEF Press
  <2>4. own' \in {own, None} /\ strays' \subseteq ops
    BY <1>5, <2>2 DEF Press, StrayType
  <2>5. calls' \subseteq Calls'
    <3>1. CASE UNCHANGED calls  BY <2>3, <3>1 DEF CallType, Calls
    <3>2. ASSUME NEW a \in Subjects \cup {None}, Send(own.op, own.kind, a, "own") PROVE calls' \subseteq Calls'
      BY <2>2, <2>3, <3>2, SendTypes
    <3>3. UNCHANGED calls \/ \E a \in Subjects \cup {None} : Send(own.op, own.kind, a, "own")
      BY <1>5, <2>2 DEF Press, PanelType
    <3> QED  BY <3>1, <3>2, <3>3
  <2> QED
    BY <2>3, <2>4, <2>5, WindowTypes DEF VisitType, WindowType, CallType, FormType, PanelType,
         ListType, StrayType, OwnIsOwn, Windows
<1>6. CASE CloseOwn
  BY <1>6, WindowTypes DEF CloseOwn, VisitType, WindowType, CallType, FormType, PanelType,
       ListType, StrayType, OwnIsOwn, Windows, Calls
<1>7. CASE ClosePanel
  BY <1>7, WindowTypes DEF ClosePanel, VisitType, WindowType, CallType, FormType, PanelType,
       ListType, StrayType, OwnIsOwn, Windows, Calls
<1> QED  BY <1>1, <1>2, <1>3, <1>4, <1>5, <1>6, <1>7

LEMMA FormingType ==
  ASSUME Types, \/ \E o \in ops : Type(o) \/ Submit(o) \/ Click(o)
                \/ \E s \in Subjects : openPanel(s) \/ Choose(s) \/ PanelAnswered(s)
                       \/ ListAnswered(s)
                \/ Loaded \/ Finished \/ Poll
  PROVE  Types'
<1> USE DEF Types, VisitType, WindowType, CallType, FormType, PanelType, ListType, StrayType,
     OwnIsOwn
<1>1. ASSUME NEW o \in ops, Type(o) PROVE Types'
  BY <1>1 DEF Type, Windows, Calls
<1>2. ASSUME NEW o \in ops, Submit(o) \/ Click(o) PROVE Types'
  <2>1. /\ Send(o, "row", None, "page") /\ form' \in {form, None}
        /\ UNCHANGED <<page, ops, windows, busy, panel, opening, loading, lists_, strays>>
    BY <1>2 DEF Submit, Click, Spent
  <2>2. calls' \subseteq Calls'  BY <2>1, SendTypes, WindowTypes
  <2> QED  BY <2>1, <2>2 DEF Windows
<1>3. ASSUME NEW s \in Subjects, openPanel(s) \/ PanelAnswered(s) PROVE Types'
  BY <1>3 DEF openPanel, PanelAnswered, Windows, Calls
<1>4. ASSUME NEW s \in Subjects, Choose(s) \/ ListAnswered(s) PROVE Types'
  BY <1>4 DEF Choose, ListAnswered, Windows, Calls
<1>5. CASE Loaded  BY <1>5 DEF Loaded, Windows, Calls
<1>6. CASE Finished  BY <1>6 DEF Finished, Windows, Calls
<1>7. CASE Poll  BY <1>7 DEF Poll, Windows, Calls
<1> QED  BY <1>1, <1>2, <1>3, <1>4, <1>5, <1>6, <1>7

LEMMA AnsweredType ==
  ASSUME Types, NEW c \in calls,
         \/ AskAnswered(c) \/ AskFailed(c) \/ OwnAnswered(c) \/ OwnFailed(c)
         \/ PageAnswered(c) \/ PageFailed(c)
  PROVE  Types'
<1> USE DEF Types, VisitType, WindowType, CallType, FormType, PanelType, ListType, StrayType,
     OwnIsOwn
<1>1. UNCHANGED <<page, ops, panel, lists_>>
  BY DEF AskAnswered, AskFailed, OwnAnswered, OwnFailed, PageAnswered, PageFailed
<1>2. ask' \in {ask, None} /\ own' \in {own, None} /\ busy' \in BOOLEAN
  BY DEF AskAnswered, AskFailed, OwnAnswered, OwnFailed, PageAnswered, PageFailed
<1>3. form' \in {form, None} /\ loading' \in BOOLEAN /\ opening' \subseteq Subjects
  BY DEF AskAnswered, AskFailed, OwnAnswered, OwnFailed, PageAnswered, PageFailed, Refresh, Wiped
<1>4. calls' \subseteq Calls' /\ strays' \subseteq ops
  <2>1. CASE calls' = calls \ {c} /\ strays' = strays  BY <1>1, <2>1, AnswerTypes
  <2>2. CASE OwnAnswered(c) /\ Again(c)
    <3>1. own \in Windows /\ own # None  BY <2>2 DEF Again
    <3>2. own.op \in ops /\ own.on \in Subjects /\ own.kind \in Kinds  BY <3>1, WindowTypes
    <3>3. [op |-> own.op, kind |-> own.kind, on |-> own.on, by |-> "own"] \in Calls
      BY <3>2 DEF Calls
    <3>4. strays' = strays \cup {own.op}  BY <2>2 DEF OwnAnswered
    <3>5. calls' = (calls \ {c}) \cup {[op |-> own.op, kind |-> own.kind, on |-> own.on, by |-> "own"]}
      BY <2>2 DEF OwnAnswered
    <3>6. Calls' = Calls  BY <1>1 DEF Calls
    <3> QED  BY <3>2, <3>3, <3>4, <3>5, <3>6
  <2> QED
    BY <2>1, <2>2 DEF AskAnswered, AskFailed, OwnAnswered, OwnFailed, PageAnswered, PageFailed
<1> QED  BY <1>1, <1>2, <1>3, <1>4, WindowTypes DEF Windows

LEMMA TypesInductive == Spec => []Types
<1>1. Init => Types
  BY WindowTypes DEF Init, Types, VisitType, WindowType, CallType, FormType, PanelType, ListType,
     StrayType, OwnIsOwn
<1>2. Types /\ [Next]_vars => Types'
  <2>1. ASSUME Types, UNCHANGED vars PROVE Types'
    BY <2>1 DEF vars, Types, VisitType, WindowType, CallType, FormType, PanelType, ListType,
       StrayType, OwnIsOwn, Windows, Calls
  <2> QED  BY <2>1, AskingType, FormingType, AnsweredType DEF Next, Person, Answered
<1> QED  BY <1>1, <1>2, PTL DEF Spec

(* Every step of every page keeps the types.                               *)
THEOREM TypeCorrect == Spec => []TypeOK
BY TypesInductive, TypeParts, PTL

-----------------------------------------------------------------------------
LEMMA MailRemoves == mail.own = {"remove"}
BY DEF mail, Plain

(* A request that is not about what its window named is one of the few     *)
(* operations that read the page again, on every page.                     *)
THEOREM RequestsAreNamed == Spec => []StraysAreRereads
<1>1. Init => StraysAreRereads  BY DEF Init, StraysAreRereads
<1>2. Types /\ StraysAreRereads /\ [Next]_vars => StraysAreRereads'
  <2> SUFFICES ASSUME Types, StraysAreRereads, [Next]_vars PROVE StraysAreRereads'  OBVIOUS
  <2> USE DEF StraysAreRereads
  <2>1. page' = page
    BY DEF Next, Person, Answered, Ask, OpenOwn, go, CloseAsk, Press, CloseOwn, ClosePanel, Type,
       Submit, Click, openPanel, Choose, AskAnswered, AskFailed, OwnAnswered, OwnFailed,
       PageAnswered, PageFailed, Loaded, Finished, Poll, PanelAnswered, ListAnswered, vars
  <2>2. CASE strays' = strays  BY <2>1, <2>2
  <2>3. CASE go
    <3>1. Aim # ask.on => ask.op \in page.asksNow  BY DEF Aim
    <3>2. strays' \subseteq strays \cup {ask.op} /\ (Aim = ask.on => strays' = strays)
      BY <2>3 DEF go
    <3> QED  BY <2>1, <3>1, <3>2
  <2>4. CASE Press
    <3>1. strays' = strays \/ (own.op \in page.ownNow /\ strays' = strays \cup {own.op})
      BY <2>4 DEF Press
    <3> QED  BY <2>1, <3>1
  <2>5. ASSUME NEW c \in calls, OwnAnswered(c) PROVE StraysAreRereads'
    <3>1. CASE Again(c)
      <4>1. page = mail /\ own.op \in page.own  BY <3>1 DEF Again, Types, OwnIsOwn
      <4>2. own.op = "remove"  BY <4>1, MailRemoves
      <4>3. strays' = strays \cup {own.op}  BY <2>5, <3>1 DEF OwnAnswered
      <4> QED  BY <2>1, <4>1, <4>2, <4>3
    <3>2. CASE ~Again(c)  BY <2>1, <2>5, <3>2 DEF OwnAnswered
    <3> QED  BY <3>1, <3>2
  <2>6. \/ strays' = strays \/ go \/ Press \/ \E c \in calls : OwnAnswered(c)
    BY DEF Next, Person, Answered, Ask, OpenOwn, CloseAsk, CloseOwn, ClosePanel, Type,
       Submit, Click, openPanel, Choose, AskAnswered, AskFailed, OwnFailed,
       PageAnswered, PageFailed, Loaded, Finished, Poll, PanelAnswered, ListAnswered, vars
  <2> QED  BY <2>2, <2>3, <2>4, <2>5, <2>6
<1> QED  BY <1>1, <1>2, TypesInductive, PTL DEF Spec

-----------------------------------------------------------------------------
(* The lists of TypedIsKept against the records of the pages. *)

(* What is emptied when it is sent is off while it is on its way.          *)
LEMMA SpentIsOnce ==
  \A p \in Routes : \A o, f : <<o, f>> \in p.spent =>
    f = "run" /\ o \in {"run", "quick"} /\ {"run", "quick"} \in p.once
<1>1. \A o, f : <<o, f>> \in console.spent =>
        f = "run" /\ o \in {"run", "quick"} /\ {"run", "quick"} \in console.once
  BY DEF console, Plain
<1>2. \A p \in Routes \ {console} : p.spent = {}
  <2>1. mail.spent = {} /\ users.spent = {} /\ sites.spent = {}  BY DEF mail, users, sites, Plain
  <2>2. site.spent = {} /\ php.spent = {} /\ ssl.spent = {}  BY DEF site, php, ssl, Plain
  <2>3. settings.spent = {} /\ databases.spent = {} /\ stack.spent = {}
    BY DEF settings, databases, stack, Plain
  <2>4. firewall.spent = {} /\ backups.spent = {} /\ dashboard.spent = {} /\ audit.spent = {}
    BY DEF firewall, backups, dashboard, audit, Plain
  <2> QED  BY <2>1, <2>2, <2>3, <2>4 DEF Routes
<1> QED  BY <1>1, <1>2

(* Of a page, what its load() and its panel write.                         *)
WritesOf(p) == p.refilled \subseteq Reloaded /\ p.shown \subseteq {"vkPut"}

LEMMA WritesAreListed == \A p \in Routes : WritesOf(p)
<1>1. WritesOf(mail) /\ WritesOf(users) /\ WritesOf(sites)
  BY DEF mail, users, sites, Plain, WritesOf, Reloaded
<1>2. WritesOf(site) /\ WritesOf(php) /\ WritesOf(ssl)
  BY DEF site, php, ssl, Plain, WritesOf, Reloaded
<1>3. WritesOf(settings) /\ WritesOf(databases) /\ WritesOf(stack)
  BY DEF settings, databases, stack, Plain, WritesOf, Reloaded
<1>4. WritesOf(firewall) /\ WritesOf(backups) /\ WritesOf(dashboard)
  BY DEF firewall, backups, dashboard, Plain, WritesOf, Reloaded
<1>5. WritesOf(audit) /\ WritesOf(console)
  BY DEF audit, console, Plain, WritesOf, Reloaded
<1> QED  BY <1>1, <1>2, <1>3, <1>4, <1>5 DEF Routes

(* Of a page, the successes that write a form other than their own.        *)
OthersOf(p) == \A o, f : <<o, f>> \in p.wipes => o = f \/ <<o, f>> \in Overwrites

LEMMA WipesAreListed == \A p \in Routes : OthersOf(p)
<1>1. OthersOf(mail) /\ OthersOf(users) /\ OthersOf(sites)
  BY DEF mail, users, sites, Plain, Emptied, OthersOf
<1>2. OthersOf(site)  BY DEF site, Plain, Emptied, OthersOf, Overwrites
<1>3. OthersOf(php)  BY DEF php, Plain, Emptied, OthersOf, Overwrites
<1>4. OthersOf(ssl)  BY DEF ssl, Plain, Emptied, OthersOf
<1>5. OthersOf(settings)  BY DEF settings, Plain, Emptied, OthersOf, Overwrites
<1>6. OthersOf(databases)  BY DEF databases, Plain, Emptied, OthersOf, Overwrites
<1>7. OthersOf(firewall)  BY DEF firewall, Plain, Emptied, OthersOf, Overwrites
<1>8. OthersOf(stack) /\ OthersOf(backups) /\ OthersOf(dashboard) /\ OthersOf(audit) /\ OthersOf(console)
  BY DEF stack, backups, dashboard, audit, console, Plain, Emptied, OthersOf
<1> QED  BY <1>1, <1>2, <1>3, <1>4, <1>5, <1>6, <1>7, <1>8 DEF Routes

Kept == form # None /\ form' = None =>
          \/ \E c \in calls \ calls' : c.op = form \/ <<c.op, form>> \in Overwrites
          \/ form = "run" /\ \E c \in calls' \ calls : c.op \in {"run", "quick"}
          \/ form \in Reloaded /\ loading /\ ~loading'
          \/ form = "vkPut" /\ opening' # opening

(* On every page, with any operations in use and any number of requests on *)
(* their way, a form loses what was typed only to its own success, to      *)
(* load(), to the Valkey panel's answer, or to one of the six operations   *)
(* that write another operation's form.                                    *)
THEOREM TypedStays == Spec => TypedIsKept
<1>1. Types /\ [Next]_vars => Kept
  <2> SUFFICES ASSUME Types, [Next]_vars, form # None, form' = None PROVE Kept  BY DEF Kept
  <2>1. ASSUME NEW o \in ops, Submit(o) \/ Click(o) PROVE Kept
    <3>1. <<o, form>> \in page.spent  BY <2>1 DEF Submit, Click, Spent
    <3>2. form = "run" /\ o \in {"run", "quick"} /\ {"run", "quick"} \in page.once
      BY <3>1, SpentIsOnce DEF Types, VisitType
    <3>3. \A c \in calls : c.op \notin {"run", "quick"}
      BY <2>1, <3>2 DEF Submit, Click, Idle
    <3> DEFINE c == [op |-> o, kind |-> "row", on |-> None, by |-> "page"]
    <3>4. c \in calls' /\ c.op = o  BY <2>1 DEF Submit, Click, Send
    <3>5. c \notin calls  BY <3>2, <3>3, <3>4
    <3> QED  BY <3>2, <3>4, <3>5 DEF Kept
  <2>2. ASSUME NEW c \in calls, AskAnswered(c) \/ OwnAnswered(c) \/ PageAnswered(c) PROVE Kept
    <3>1. <<c.op, form>> \in page.wipes
      BY <2>2 DEF AskAnswered, OwnAnswered, PageAnswered, Wiped
    <3>2. c \in calls \ calls'  BY <2>2 DEF AskAnswered, OwnAnswered, PageAnswered
    <3>3. OthersOf(page)  BY WipesAreListed DEF Types, VisitType
    <3> QED  BY <3>1, <3>2, <3>3 DEF Kept, OthersOf
  <2>3. CASE Loaded
    <3>1. WritesOf(page)  BY WritesAreListed DEF Types, VisitType
    <3> QED  BY <2>3, <3>1 DEF Loaded, Kept, WritesOf
  <2>4. ASSUME NEW s \in Subjects, PanelAnswered(s) PROVE Kept
    <3>1. WritesOf(page)  BY WritesAreListed DEF Types, VisitType
    <3>2. form \in page.shown /\ opening' # opening  BY <2>4 DEF PanelAnswered
    <3> QED  BY <3>1, <3>2 DEF Kept, WritesOf
  <2>5. \/ \E o \in ops : Submit(o) \/ Click(o)
        \/ \E c \in calls : AskAnswered(c) \/ OwnAnswered(c) \/ PageAnswered(c)
        \/ Loaded
        \/ \E s \in Subjects : PanelAnswered(s)
    BY DEF Next, Person, Answered, Ask, OpenOwn, go, CloseAsk, Press, CloseOwn, ClosePanel, Type,
       openPanel, Choose, AskFailed, OwnFailed, PageFailed, Finished, Poll, ListAnswered, vars
  <2> QED  BY <2>1, <2>2, <2>3, <2>4, <2>5
<1> QED  BY <1>1, TypesInductive, PTL DEF Spec, TypedIsKept, Kept

-----------------------------------------------------------------------------
(* Nothing is sent twice that is to be sent once at a time. *)

Confirmed == {c \in calls : c.by = "ask"}

(* Confirm waits exactly while the request of a window is on its way, and  *)
(* never for two, although its window can be closed and another one opened *)
(* meanwhile. Of the operations a page offers one at a time at most one is *)
(* on its way: also when a window asked first, which the window's button   *)
(* does not look at.                                                       *)
SentOnce ==
  /\ busy <=> Confirmed # {}
  /\ \A c, d \in Confirmed : c = d
  /\ \A g \in page.once : \A c, d \in calls : c.op \in g /\ d.op \in g => c = d
  /\ ask # None /\ ~busy => Idle(ask.op)

(* What else is on its way in a window's group was sent by a window.       *)
Alone ==
  /\ busy <=> Confirmed # {}
  /\ \A c, d \in Confirmed : c = d
  /\ \A g \in page.once : \A c, d \in calls : c.op \in g /\ d.op \in g => c = d
  /\ ask # None => \A g \in page.once : ask.op \in g => \A c \in calls : c.op \in g => c.by = "ask"

LEMMA AloneIsOnce == ASSUME Alone PROVE SentOnce
BY DEF Alone, SentOnce, Confirmed, Idle

(* The windows of the pages themselves ask about none of these operations. *)
LEMMA OwnNotOnce == \A p \in Routes : \A g \in p.once : g \cap p.own = {}
<1>1. \A p \in {mail, users, sites} : p.once = {}  BY DEF mail, users, sites, Plain
<1>2. \A p \in {ssl, stack, firewall, backups, audit} : p.once = {}
  BY DEF ssl, stack, firewall, backups, audit, Plain
<1>3. php.own = {} /\ settings.own = {} /\ dashboard.own = {} /\ console.own = {}
  BY DEF php, settings, dashboard, console, Plain
<1>4. databases.own = {"drop"} /\ databases.once = {{"saveCfg", "resetCfg"}}
  BY DEF databases, Plain
<1>5. site.own = {"issueTLS"} /\ site.once = {{"saveNginx"}, {"installCMS"}}  BY DEF site, Plain
<1> QED  BY <1>1, <1>2, <1>3, <1>4, <1>5 DEF Routes

LEMMA SentAlone ==
  ASSUME Types, Alone, NEW o \in ops, NEW k, NEW s, NEW by \in {"ask", "page"},
         Send(o, k, s, by), Idle(o), UNCHANGED <<page, ask>>,
         by = "ask" => ~busy /\ busy' = TRUE,
         by = "page" => ask = None /\ busy' = busy
  PROVE  Alone'
<1> DEFINE new == [op |-> o, kind |-> k, on |-> s, by |-> by]
<1>1. calls' = calls \cup {new} /\ new.op = o /\ new.by = by  BY DEF Send
<1>2. \A g \in page.once : o \in g => \A c \in calls : c.op \notin g  BY DEF Idle
<1>3. \A g \in page.once : \A c, d \in calls' : c.op \in g /\ d.op \in g => c = d
  BY <1>1, <1>2 DEF Alone
<1>4. CASE by = "ask"
  <2>1. Confirmed = {}  BY <1>4 DEF Alone
  <2>2. Confirmed' = {new}  BY <1>1, <1>4, <2>1 DEF Confirmed
  <2>3. ask # None => \A g \in page.once : ask.op \in g => \A c \in calls' : c.op \in g => c.by = "ask"
    BY <1>1, <1>4 DEF Alone
  <2> QED  BY <1>3, <1>4, <2>2, <2>3 DEF Alone
<1>5. CASE by = "page"
  <2>1. Confirmed' = Confirmed  BY <1>1, <1>5 DEF Confirmed
  <2> QED  BY <1>3, <1>5, <2>1 DEF Alone
<1> QED  BY <1>4, <1>5

(* A window's own request, which may also be sent again.                   *)
LEMMA OwnAlone ==
  ASSUME Types, Alone, NEW rest \in SUBSET calls, NEW c, c.by = "own", c.op \in page.own,
         calls' = rest \cup {c}, Confirmed \subseteq rest, UNCHANGED <<page, ask, busy>>
  PROVE  Alone'
<1>1. Confirmed' = Confirmed  BY DEF Confirmed
<1>2. \A g \in page.once : c.op \notin g  BY OwnNotOnce DEF Types, VisitType
<1>3. \A g \in page.once : \A d \in calls' : d.op \in g => d \in calls  BY <1>2
<1> QED  BY <1>1, <1>3 DEF Alone

LEMMA GoneAlone ==
  ASSUME Types, Alone, NEW c \in calls, calls' = calls \ {c}, UNCHANGED page, ask' \in {ask, None},
         c.by = "ask" => busy' = FALSE,
         c.by # "ask" => busy' = busy
  PROVE  Alone'
<1>1. \A g \in page.once : \A d, e \in calls' : d.op \in g /\ e.op \in g => d = e  BY DEF Alone
<1>2. ask' # None => \A g \in page.once : ask'.op \in g => \A d \in calls' : d.op \in g => d.by = "ask"
  BY DEF Alone
<1>3. CASE c.by = "ask"
  <2>1. Confirmed' = {}  BY <1>3 DEF Alone, Confirmed
  <2> QED  BY <1>1, <1>2, <1>3, <2>1 DEF Alone
<1>4. CASE c.by # "ask"
  <2>1. Confirmed' = Confirmed  BY <1>4 DEF Confirmed
  <2> QED  BY <1>1, <1>2, <1>4, <2>1 DEF Alone
<1> QED  BY <1>3, <1>4

LEMMA SameAlone ==
  ASSUME Alone, UNCHANGED <<page, calls, busy>>, ask' \in {ask, None}
  PROVE  Alone'
<1>1. Confirmed' = Confirmed  BY DEF Confirmed
<1>2. ask' # None => ask' = ask  OBVIOUS
<1> QED  BY <1>1, <1>2 DEF Alone

LEMMA NextAlone == ASSUME Types, Alone, [Next]_vars PROVE Alone'
<1>1. CASE go
  <2>1. CASE Aim = None
    <3>1. UNCHANGED <<page, calls, busy>> /\ ask' = None  BY <1>1, <2>1 DEF go
    <3> QED  BY <3>1, SameAlone
  <2>2. CASE Aim # None
    <3>1. /\ ask # None /\ ~busy /\ busy' = TRUE /\ UNCHANGED <<page, ask>>
          /\ Send(ask.op, "row", Aim, "ask")
      BY <1>1, <2>2 DEF go
    <3>2. ask.op \in ops  BY <3>1, WindowTypes DEF Types, WindowType
    <3>3. Idle(ask.op)  BY <3>1, AloneIsOnce DEF SentOnce
    <3> QED  BY <3>1, <3>2, <3>3, SentAlone
  <2> QED  BY <2>1, <2>2
<1>2. ASSUME NEW o \in ops, Submit(o) \/ Click(o) PROVE Alone'
  <2>1. /\ ask = None /\ Idle(o) /\ Send(o, "row", None, "page") /\ UNCHANGED <<page, ask, busy>>
    BY <1>2 DEF Submit, Click, Free
  <2> QED  BY <2>1, SentAlone
<1>3. CASE Press
  <2>1. own # None /\ UNCHANGED <<page, ask, busy>> /\ own.op \in page.own
    BY <1>3 DEF Press, Types, OwnIsOwn
  <2>2. CASE UNCHANGED calls  BY <2>1, <2>2, SameAlone
  <2>3. CASE ~UNCHANGED calls
    <3>1. PICK s : Send(own.op, own.kind, s, "own")  BY <1>3, <2>3 DEF Press
    <3> DEFINE c == [op |-> own.op, kind |-> own.kind, on |-> s, by |-> "own"]
    <3>2. calls' = calls \cup {c} /\ c.by = "own" /\ c.op \in page.own  BY <2>1, <3>1 DEF Send
    <3>3. calls \in SUBSET calls /\ Confirmed \subseteq calls  BY DEF Confirmed
    <3> QED  BY <2>1, <3>2, <3>3, OwnAlone
  <2> QED  BY <2>2, <2>3
<1>4. ASSUME NEW o \in ops, NEW s \in Subjects, Ask(o, s) PROVE Alone'
  <2>1. UNCHANGED <<page, calls, busy>> /\ ask'.op = o /\ Idle(o)  BY <1>4 DEF Ask, Window
  <2>2. Confirmed' = Confirmed  BY <2>1 DEF Confirmed
  <2>3. \A g \in page.once : ask'.op \in g => \A c \in calls' : c.op \in g => c.by = "ask"
    BY <2>1 DEF Idle
  <2> QED  BY <2>1, <2>2, <2>3 DEF Alone
<1>5. ASSUME NEW c \in calls, OwnAnswered(c), Again(c) PROVE Alone'
  <2>1. /\ own # None /\ c.by = "own" /\ own.op \in page.own /\ UNCHANGED <<page, ask, busy>>
        /\ calls' = (calls \ {c}) \cup {[op |-> own.op, kind |-> own.kind, on |-> own.on, by |-> "own"]}
    BY <1>5 DEF OwnAnswered, Again, Types, OwnIsOwn
  <2> DEFINE d == [op |-> own.op, kind |-> own.kind, on |-> own.on, by |-> "own"]
  <2>2. d.by = "own" /\ d.op \in page.own  BY <2>1
  <2>3. Confirmed \subseteq calls \ {c}  BY <2>1 DEF Confirmed
  <2> QED  BY <2>1, <2>2, <2>3, OwnAlone
<1>6. ASSUME NEW c \in calls,
             \/ AskAnswered(c) \/ AskFailed(c) \/ OwnFailed(c) \/ PageAnswered(c) \/ PageFailed(c)
             \/ OwnAnswered(c) /\ ~Again(c)
      PROVE  Alone'
  <2>1. calls' = calls \ {c} /\ UNCHANGED page /\ ask' \in {ask, None}
    BY <1>6 DEF AskAnswered, AskFailed, OwnFailed, PageAnswered, PageFailed, OwnAnswered
  <2>2. (c.by = "ask" => busy' = FALSE) /\ (c.by # "ask" => busy' = busy)
    BY <1>6 DEF AskAnswered, AskFailed, OwnFailed, PageAnswered, PageFailed, OwnAnswered
  <2> QED  BY <2>1, <2>2, GoneAlone
<1>7. CASE \/ CloseAsk \/ CloseOwn \/ ClosePanel \/ Loaded \/ Finished \/ Poll
           \/ \E o \in ops : Type(o) \/ \E s \in Subjects, k \in Kinds : OpenOwn(o, k, s)
           \/ \E s \in Subjects : openPanel(s) \/ Choose(s) \/ PanelAnswered(s) \/ ListAnswered(s)
           \/ UNCHANGED vars
  <2>1. UNCHANGED <<page, calls, busy>> /\ ask' \in {ask, None}
    BY <1>7 DEF CloseAsk, CloseOwn, ClosePanel, Loaded, Finished, Poll, Type, OpenOwn, openPanel,
                Choose, PanelAnswered, ListAnswered, vars
  <2> QED  BY <2>1, SameAlone
<1> QED
  BY <1>1, <1>2, <1>3, <1>4, <1>5, <1>6, <1>7 DEF Next, Person, Answered

(* No operation is sent while it, or another one of its group, is on its   *)
(* way, and Confirm is free again when its request is answered, whatever   *)
(* window is open by then: on every page, for any operations in use.       *)
THEOREM OneAtATime == Spec => []SentOnce
<1>1. Init => Alone  BY DEF Init, Alone, Confirmed
<1>2. Types /\ Alone /\ [Next]_vars => Alone'  BY NextAlone
<1>3. Alone => SentOnce  BY AloneIsOnce
<1> QED  BY <1>1, <1>2, <1>3, TypesInductive, PTL DEF Spec
=============================================================================
