----------------------------- MODULE FileManager -----------------------------
(***************************************************************************)
(* The file manager of the web UI (web/src/lib/components/                 *)
(* FileManager.svelte) in one browser tab. JavaScript runs a handler up to *)
(* its next await without interruption; what comes after an await runs     *)
(* when the answer is there, in any order, and reads the component's       *)
(* state AS IT IS THEN. No request is cancelled or numbered. So a request  *)
(* is an element of what is on its way, and its answer is an action of its *)
(* own.                                                                    *)
(*                                                                         *)
(* The server is external: sites, SSH and other clients change the same    *)
(* files, so a listing is any set of names, a file reads as any text, and  *)
(* any request may fail. An entry is a name, the directories one can go to *)
(* are the same everywhere. An open window takes the mouse, not Ctrl+S.    *)
(***************************************************************************)
EXTENDS FiniteSets, Naturals

CONSTANTS
  Dirs,      \* directories one can go to
  Names,     \* names of files
  Texts,     \* texts a file may have; the empty one is like any other
  None,      \* no file, no request
  MaxReads,  \* bound: files on their way to the editor at a time
  MaxOps     \* bound: operations on their way at a time

ASSUME NoneAssumption == None \notin Names \cup Texts \cup Dirs \cup (Dirs \X Names)
ASSUME BoundAssumption == MaxReads \in Nat \ {0} /\ MaxOps \in Nat

Paths == Dirs \X Names

VARIABLES
  cwd, entries, selected,
  editing, text, original,
  saving,    \* save(): None, the PUT on its way, or the listing it waits for
  loads,     \* listings on their way, by directory
  reads,     \* files on their way to the editor, by path
  op,        \* how many calls of op() and upload() wait for the server
  ask,       \* the window that asks, and what it asks about
  script,    \* Monaco's loader: "none", "loading", "ready"
  mount,     \* mountEditor waits for it
  editor,    \* "none", "monaco", or "plain" once Monaco has failed
  (* history: what it is about is read by no action *)
  from,      \* the file the open text was read from
  stored,    \* the text the server last gave or took for it
  slips      \* answers that came when their question was no longer asked

listing == <<cwd, entries, selected>>
file == <<editing, text, original, from, stored>>
monaco == <<script, mount, editor>>
vars == <<cwd, entries, selected, editing, text, original, saving, loads, reads,
          op, ask, script, mount, editor, from, stored, slips>>

NoAsk == [kind |-> "none"]
Thens == [to : {"stay"}] \cup [to : {"dir"}, dir : Dirs] \cup [to : {"file"}, name : Names]
Asks == {NoAsk} \cup [kind : {"leave"}, then : Thens] \cup [kind : {"remove"}, names : SUBSET Names]
          \cup [kind : {"prompt"}] \cup [kind : {"rename"}, name : Names]

dirty == editing # None /\ text # original
Unsaved == editing # None /\ text # stored
Free == ask = NoAsk

TypeOK ==
  /\ cwd \in Dirs /\ loads \subseteq Dirs
  /\ entries \subseteq Names /\ selected \subseteq Names
  /\ editing \in Names \cup {None}
  /\ text \in Texts \cup {None} /\ original \in Texts \cup {None} /\ stored \in Texts \cup {None}
  /\ saving \in {None} \cup [put : Paths, body : Texts] \cup [list : Dirs]
  /\ reads \subseteq Paths /\ from \in Paths \cup {None}
  /\ op \in 0..MaxOps /\ ask \in Asks
  /\ script \in {"none", "loading", "ready"} /\ mount \in BOOLEAN
  /\ editor \in {"none", "monaco", "plain"}
  /\ slips \subseteq {"astray", "typedOver"}
-----------------------------------------------------------------------------
(* What a mounted manager starts from: `start`, and a listing on its way.  *)
Fresh(d) ==
  /\ cwd = d /\ entries = {} /\ selected = {} /\ loads = {d}
  /\ editing = None /\ text = None /\ original = None /\ from = None /\ stored = None
  /\ saving = None /\ reads = {} /\ op = 0 /\ ask = NoAsk
  /\ mount = FALSE /\ editor = "none" /\ slips = {}

Init == script = "none" /\ \E d \in Dirs : Fresh(d)

(* The page of files mounts another manager when another account is chosen *)
(* ({#key user}), and any navigation does when the reader comes back. What *)
(* is on its way answers to nobody; the loader is the page's and stays.    *)
Remount(d) ==
  /\ cwd' = d /\ entries' = {} /\ selected' = {} /\ loads' = {d}
  /\ editing' = None /\ text' = None /\ original' = None /\ from' = None /\ stored' = None
  /\ saving' = None /\ reads' = {} /\ op' = 0 /\ ask' = NoAsk
  /\ mount' = FALSE /\ editor' = "none" /\ slips' = {}
  /\ UNCHANGED script
-----------------------------------------------------------------------------
(* load(): the selection goes at once, the entries when the answer comes,  *)
(* also when another directory is the open one by then.                    *)
load(d) == selected' = {} /\ loads' = loads \cup {d}

ListingAnswered(d) ==
  /\ d \in loads /\ loads' = loads \ {d}
  /\ entries' \in SUBSET Names          \* {} also when it failed
  /\ saving' = IF saving = [list |-> d] THEN None ELSE saving
  /\ UNCHANGED <<cwd, selected, file, reads, op, ask, monaco, slips>>

toggle(n) ==
  /\ Free /\ n \in entries
  /\ selected' = IF n \in selected THEN selected \ {n} ELSE selected \cup {n}
  /\ UNCHANGED <<cwd, entries, file, saving, loads, reads, op, ask, monaco, slips>>

deselect ==
  /\ Free /\ selected # {} /\ selected' = {}
  /\ UNCHANGED <<cwd, entries, file, saving, loads, reads, op, ask, monaco, slips>>

Refresh ==
  /\ Free /\ load(cwd)
  /\ UNCHANGED <<cwd, entries, file, saving, reads, op, ask, monaco, slips>>
-----------------------------------------------------------------------------
(* The editor goes; a Monaco that has failed stays failed.                 *)
closeEditor ==
  /\ editing' = None /\ text' = None /\ original' = None /\ from' = None /\ stored' = None
  /\ editor' = IF editor = "monaco" THEN "none" ELSE editor
  /\ slips' = {}

Kept == UNCHANGED <<editing, text, original, from, stored, editor, slips>>

(* `then` of leaveEditor, once the editor is closed. Going where one is    *)
(* changes nothing; a new cwd lists itself (the $effect).                  *)
Then(then) ==
  \/ then.to = "stay" /\ UNCHANGED <<cwd, selected, loads, reads>>
  \/ /\ then.to = "dir" /\ cwd' = then.dir /\ UNCHANGED reads
     /\ IF then.dir # cwd THEN load(then.dir) ELSE UNCHANGED <<selected, loads>>
  \/ /\ then.to = "file" /\ reads' = reads \cup {<<cwd, then.name>>}
     /\ UNCHANGED <<cwd, selected, loads>>

(* Wrong: unsaved text is not asked about.                                 *)
leaveEditorUnasked(then) ==
  /\ closeEditor /\ Then(then)
  /\ UNCHANGED <<ask, entries, saving, op, script, mount>>

leaveEditor(then) ==
  /\ IF dirty
     THEN /\ ask' = [kind |-> "leave", then |-> then]
          /\ Kept /\ UNCHANGED <<cwd, selected, loads, reads>>
     ELSE /\ closeEditor /\ Then(then) /\ UNCHANGED ask
  /\ UNCHANGED <<entries, saving, op, script, mount>>

(* Wrong: the open file stays open.                                        *)
goAround(d) ==
  /\ Free /\ Kept /\ Then([to |-> "dir", dir |-> d])
  /\ UNCHANGED <<entries, saving, op, ask, script, mount>>

go(d) == Free /\ leaveEditor([to |-> "dir", dir |-> d])
CloseFile == Free /\ editing # None /\ leaveEditor([to |-> "stay"])

(* A name that is not text, or too large, only makes a toast (not modelled)*)
open(n) ==
  /\ Free /\ n \in entries /\ Cardinality(reads) < MaxReads
  /\ leaveEditor([to |-> "file", name |-> n])

(* loadMonaco: one loader for the page; a failed one is tried again.       *)
loadMonaco == script' = IF script = "none" THEN "loading" ELSE script

(* Wrong: the name is kept as a path.                                      *)
OpenedByPath(p) == editing' = p /\ from' = p

Opened(p) == editing' = p[2] /\ from' = p

(* The file is there: it becomes the open one, under the cwd of NOW.       *)
FileAnswered(p) ==
  /\ p \in reads /\ reads' = reads \ {p}
  /\ \E body \in Texts : text' = body /\ original' = body /\ stored' = body
  /\ Opened(p)
  /\ slips' = IF p[1] # cwd THEN {"astray"} ELSE {}
  /\ \/ editor = "plain" /\ UNCHANGED monaco
     \/ editor # "plain" /\ script = "ready" /\ editor' = "monaco" /\ UNCHANGED <<script, mount>>
     \/ editor # "plain" /\ script # "ready" /\ loadMonaco /\ mount' = TRUE /\ UNCHANGED editor
  /\ UNCHANGED <<listing, saving, loads, op, ask>>

(* It cannot be read, or is not text: a toast.                             *)
FileFailed(p) ==
  /\ p \in reads /\ reads' = reads \ {p}
  /\ UNCHANGED <<listing, file, saving, loads, op, ask, monaco, slips>>

Type ==
  /\ Free /\ editing # None /\ editor # "none"
  /\ text' \in Texts \ {text}
  /\ UNCHANGED <<listing, editing, original, from, stored, saving, loads, reads, op, ask, monaco, slips>>

(* Escape in the plain field asks like the button does, but the same key   *)
(* then reaches the window's listener of the dialog, which closes it.      *)
EscapeField ==
  /\ Free /\ editing # None /\ editor = "plain" /\ ~dirty
  /\ leaveEditor([to |-> "stay"])
-----------------------------------------------------------------------------
(* The button or Ctrl+S. The path is made of the cwd of now.               *)
save ==
  /\ editing # None /\ saving = None
  /\ saving' = [put |-> <<cwd, editing>>, body |-> text]
  /\ UNCHANGED <<listing, file, loads, reads, op, ask, monaco, slips>>

Putting == saving # None /\ "put" \in DOMAIN saving

(* The PUT is done: the text of NOW counts as the saved one.               *)
SaveAnswered ==
  /\ Putting
  /\ original' = text
  /\ stored' = IF from = saving.put THEN saving.body ELSE stored
  /\ slips' = IF editing # None /\ text # stored' THEN slips \cup {"typedOver"} ELSE slips
  /\ saving' = [list |-> cwd]
  /\ load(cwd)
  /\ UNCHANGED <<cwd, entries, editing, text, from, reads, op, ask, monaco>>

(* Wrong: a failed save counts as one.                                     *)
SaveFailedCounted ==
  /\ Putting /\ saving' = None /\ original' = text
  /\ UNCHANGED <<listing, editing, text, from, stored, loads, reads, op, ask, monaco, slips>>

(* It failed, whether or not the server wrote the file.                    *)
SaveFailed ==
  /\ Putting /\ saving' = None
  /\ UNCHANGED <<listing, file, loads, reads, op, ask, monaco, slips>>
-----------------------------------------------------------------------------
(* Windows that ask first. mkdir, touch, chmod and extract change only the *)
(* server; rename and remove may close the editor as well.                 *)
askWindow(w) == Free /\ ask' = w
NoChange == UNCHANGED <<listing, file, saving, loads, reads, op, monaco, slips>>

request == askWindow([kind |-> "prompt"]) /\ NoChange
rename(n) == n \in entries /\ askWindow([kind |-> "rename", name |-> n]) /\ NoChange
remove(ns) == ns # {} /\ (ns = selected \/ \E n \in entries : ns = {n})
              /\ askWindow([kind |-> "remove", names |-> ns]) /\ NoChange

(* An upload sends its files one after the other, each into the directory  *)
(* open at that moment: of this the model keeps only that it is going on.  *)
upload ==
  /\ Free /\ op < MaxOps /\ op' = op + 1
  /\ UNCHANGED <<listing, file, saving, loads, reads, ask, monaco, slips>>

Cancel == ~Free /\ ask' = NoAsk /\ NoChange

(* "Yes" to leave: the editor closes and what was to follow follows.       *)
Leave ==
  /\ ask.kind = "leave" /\ ask' = NoAsk
  /\ closeEditor /\ Then(ask.then)
  /\ UNCHANGED <<entries, saving, op, script, mount>>

(* "Yes" to the others: the operation is sent, for the names asked about.  *)
Concerned == \/ ask.kind = "remove" /\ editing \in ask.names
             \/ ask.kind = "rename" /\ editing = ask.name

Submit ==
  /\ ask.kind \in {"prompt", "rename", "remove"} /\ ask' = NoAsk
  /\ op < MaxOps /\ op' = op + 1
  /\ IF Concerned THEN closeEditor ELSE Kept
  /\ UNCHANGED <<listing, saving, loads, reads, script, mount>>

(* The answer, or an upload's last one: a listing follows, unless op() was *)
(* told of a failure.                                                      *)
OpAnswered ==
  /\ op > 0 /\ op' = op - 1
  /\ (load(cwd) \/ UNCHANGED <<selected, loads>>)
  /\ UNCHANGED <<cwd, entries, file, saving, reads, ask, monaco, slips>>
-----------------------------------------------------------------------------
Preload ==
  /\ script = "none" /\ editor # "plain" /\ loadMonaco
  /\ UNCHANGED <<listing, file, saving, loads, reads, op, ask, mount, editor, slips>>

(* The loader is there: who waited for it makes the editor of the text of  *)
(* now. The box of a file closed meanwhile is gone, which counts as a      *)
(* failure of Monaco.                                                      *)
MonacoLoaded ==
  /\ script = "loading" /\ script' = "ready" /\ mount' = FALSE
  /\ editor' = IF ~mount THEN editor ELSE IF editing # None THEN "monaco" ELSE "plain"
  /\ UNCHANGED <<listing, file, saving, loads, reads, op, ask, slips>>

(* Wrong: who waited for the loader keeps waiting.                         *)
MonacoFailedOnly ==
  /\ script = "loading" /\ script' = "none" /\ mount' = FALSE
  /\ UNCHANGED <<editor, listing, file, saving, loads, reads, op, ask, slips>>

(* monacoPromise is dropped; who waited falls back to the plain field.     *)
MonacoFailed ==
  /\ script = "loading" /\ script' = "none" /\ mount' = FALSE
  /\ editor' = IF mount THEN "plain" ELSE editor
  /\ UNCHANGED <<listing, file, saving, loads, reads, op, ask, slips>>

Person == \/ \E d \in Dirs : go(d) \/ Remount(d)
          \/ \E n \in Names : toggle(n) \/ open(n) \/ rename(n)
          \/ \E ns \in SUBSET Names : remove(ns)
          \/ deselect \/ Refresh \/ CloseFile \/ EscapeField \/ Type \/ save
          \/ request \/ upload \/ Cancel \/ Leave \/ Submit

Answer == \/ \E d \in Dirs : ListingAnswered(d)
          \/ \E p \in Paths : FileAnswered(p) \/ FileFailed(p)
          \/ SaveAnswered \/ SaveFailed \/ OpAnswered
          \/ MonacoLoaded \/ MonacoFailed

Next == Person \/ Preload \/ Answer

Spec == Init /\ [][Next]_vars

(* The browser answers every request, if only with an error.               *)
Answers == /\ WF_vars(MonacoLoaded \/ MonacoFailed)
           /\ WF_vars(SaveAnswered \/ SaveFailed)
           /\ \A d \in Dirs : WF_vars(ListingAnswered(d))
FairSpec == Spec /\ Answers
-----------------------------------------------------------------------------
(* The open file is the one its path says, so that saving writes where it  *)
(* was read; only the answer of a read that outlived a change of directory *)
(* breaks it.                                                              *)
EditorKeepsPlace == editing # None => from = <<cwd, editing>> \/ "astray" \in slips

(* An editor that shows no "unsaved" tag shows what the server has; only   *)
(* typing while a save is on its way breaks it.                            *)
CleanMeansStored == editing # None /\ ~dirty => text = stored \/ "typedOver" \in slips

(* An edit is thrown away by the answer to a window that concerns the file,*)
(* by a file that was asked for earlier and comes late, or with the page.  *)
Loss == Unsaved /\ (from' # from \/ (text' # text /\ reads' # reads))
LossIsAsked ==
  [][Loss => \/ ask.kind = "leave"
             \/ Concerned
             \/ "typedOver" \in slips
             \/ \E p \in reads \ reads' : from' = p
             \/ \E d \in Dirs : Remount(d)]_vars

(* If Monaco cannot be loaded a plain field remains: an open file gets an  *)
(* editor, or is closed.                                                   *)
EditorComes == (editing # None) ~> (editing = None \/ editor # "none")

=============================================================================
