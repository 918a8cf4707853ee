-------------------------- MODULE FileManagerProofs --------------------------
(***************************************************************************)
(* Proofs about FileManager, for any directories, names and texts and any  *)
(* number of files on their way.                                           *)
(***************************************************************************)
EXTENDS FileManager, TLAPS

USE NoneAssumption, BoundAssumption DEF Paths, listing, file, monaco

-----------------------------------------------------------------------------
(* Types, part by part. *)

ListingType ==
  /\ cwd \in Dirs /\ loads \subseteq Dirs
  /\ entries \subseteq Names /\ selected \subseteq Names

FileType ==
  /\ editing \in Names \cup {None} /\ from \in Paths \cup {None}
  /\ text \in Texts \cup {None} /\ original \in Texts \cup {None} /\ stored \in Texts \cup {None}
  /\ editing # None => text \in Texts

CallType ==
  /\ saving \in {None} \cup [put : Paths, body : Texts] \cup [list : Dirs]
  /\ reads \subseteq Paths /\ op \in 0..MaxOps /\ ask \in Asks

EditorType ==
  /\ script \in {"none", "loading", "ready"} /\ mount \in BOOLEAN
  /\ editor \in {"none", "monaco", "plain"}
  /\ slips \subseteq {"astray", "typedOver"}

Types == ListingType /\ FileType /\ CallType /\ EditorType

LEMMA TypeParts == Types => TypeOK
BY DEF Types, TypeOK, ListingType, FileType, CallType, EditorType

LEMMA AskTypes ==
  /\ NoAsk \in Asks /\ [kind |-> "prompt"] \in Asks
  /\ \A then \in Thens : [kind |-> "leave", then |-> then] \in Asks
  /\ \A ns \in SUBSET Names : [kind |-> "remove", names |-> ns] \in Asks
  /\ \A n \in Names : [kind |-> "rename", name |-> n] \in Asks
BY DEF Asks, NoAsk

LEMMA ThenTypes ==
  /\ [to |-> "stay"] \in Thens
  /\ \A d \in Dirs : [to |-> "dir", dir |-> d] \in Thens
  /\ \A n \in Names : [to |-> "file", name |-> n] \in Thens
BY DEF Thens

LEMMA ThenType ==
  ASSUME Types, NEW then \in Thens, Then(then), UNCHANGED entries
  PROVE  ListingType' /\ reads' \subseteq Paths
<1>1. CASE then.to = "stay"
  BY <1>1 DEF Then, Types, ListingType, CallType
<1>2. CASE then.to = "dir"
  <2>1. then.dir \in Dirs  BY <1>2 DEF Thens
  <2> QED  BY <1>2, <2>1 DEF Then, load, Types, ListingType, CallType
<1>3. CASE then.to = "file"
  <2>1. then.name \in Names  BY <1>3 DEF Thens
  <2> QED  BY <1>3, <2>1 DEF Then, Types, ListingType, CallType
<1> QED  BY <1>1, <1>2, <1>3 DEF Thens

LEMMA CloseType ==
  ASSUME Types, closeEditor, UNCHANGED <<script, mount>>
  PROVE  FileType' /\ EditorType'
BY DEF closeEditor, Types, FileType, EditorType

LEMMA LeaveType ==
  ASSUME Types, NEW then \in Thens, leaveEditor(then)
  PROVE  Types'
<1> USE DEF Types
<1>1. CASE dirty
  <2>1. ask' \in Asks  BY <1>1, AskTypes DEF leaveEditor
  <2> QED  BY <1>1, <2>1 DEF leaveEditor, Kept, ListingType, FileType, CallType, EditorType
<1>2. CASE ~dirty
  <2>1. closeEditor /\ Then(then) /\ UNCHANGED <<entries, saving, op, script, mount, ask>>
    BY <1>2 DEF leaveEditor
  <2>2. ListingType' /\ reads' \subseteq Paths  BY <2>1, ThenType
  <2>3. FileType' /\ EditorType'  BY <2>1, CloseType
  <2> QED  BY <2>1, <2>2, <2>3 DEF CallType
<1> QED  BY <1>1, <1>2

(* Steps that leave the kind of a value alone. *)
LEMMA QuietType ==
  ASSUME Types,
         \/ \E n \in Names : toggle(n)
         \/ deselect \/ Refresh \/ Type \/ save \/ upload \/ Cancel \/ OpAnswered
         \/ Preload \/ MonacoLoaded \/ MonacoFailed
  PROVE  Types'
<1> USE DEF Types, ListingType, FileType, CallType, EditorType, load, loadMonaco, NoChange
<1>1. CASE \E n \in Names : toggle(n)  BY <1>1 DEF toggle
<1>2. CASE deselect \/ Refresh  BY <1>2 DEF deselect, Refresh
<1>3. CASE Type  BY <1>3 DEF Type
<1>4. CASE save
  <2>1. <<cwd, editing>> \in Paths /\ text \in Texts  BY <1>4 DEF save
  <2>2. saving' \in [put : Paths, body : Texts]  BY <1>4, <2>1 DEF save
  <2> QED  BY <1>4, <2>2 DEF save
<1>5. CASE upload \/ OpAnswered
  <2>1. op' \in 0..MaxOps  BY <1>5 DEF upload, OpAnswered
  <2>2. UNCHANGED <<cwd, entries, file, saving, reads, ask, monaco, slips>>
    BY <1>5 DEF upload, OpAnswered
  <2>3. selected' \subseteq Names /\ loads' \subseteq Dirs  BY <1>5 DEF upload, OpAnswered
  <2> QED  BY ONLY Types, <2>1, <2>2, <2>3
           DEF Types, ListingType, FileType, CallType, EditorType, file, monaco, Paths
<1>6. CASE Cancel  BY <1>6, AskTypes DEF Cancel
<1>7. CASE Preload \/ MonacoLoaded \/ MonacoFailed
  BY <1>7 DEF Preload, MonacoLoaded, MonacoFailed
<1> QED  BY <1>1, <1>2, <1>3, <1>4, <1>5, <1>6, <1>7

(* Answers to requests. *)
LEMMA AnswerType ==
  ASSUME Types,
         \/ \E d \in Dirs : ListingAnswered(d)
         \/ \E p \in Paths : FileAnswered(p) \/ FileFailed(p)
         \/ SaveAnswered \/ SaveFailed
  PROVE  Types'
<1> USE DEF Types, ListingType, FileType, CallType, EditorType
<1>1. CASE \E d \in Dirs : ListingAnswered(d)  BY <1>1 DEF ListingAnswered
<1>2. CASE \E p \in Paths : FileAnswered(p)
  <2>1. PICK p \in Paths : FileAnswered(p)  BY <1>2
  <2>2. FileType'  BY <2>1 DEF FileAnswered, Opened
  <2>3. EditorType'  BY <2>1 DEF FileAnswered, loadMonaco
  <2> QED  BY <2>1, <2>2, <2>3 DEF FileAnswered
<1>3. CASE \E p \in Paths : FileFailed(p)  BY <1>3 DEF FileFailed
<1>4. CASE SaveAnswered
  <2>1. saving \in [put : Paths, body : Texts] \/ saving \in [list : Dirs]
    BY <1>4 DEF SaveAnswered, Putting
  <2>2. saving.body \in Texts  BY <1>4, <2>1 DEF SaveAnswered, Putting
  <2>3. saving' \in [list : Dirs]  BY <1>4 DEF SaveAnswered
  <2> QED  BY <1>4, <2>2, <2>3 DEF SaveAnswered, load
<1>5. CASE SaveFailed  BY <1>5 DEF SaveFailed
<1> QED  BY <1>1, <1>2, <1>3, <1>4, <1>5

(* Windows, and what follows their answer. *)
LEMMA WindowType ==
  ASSUME Types,
         \/ request \/ Leave \/ Submit
         \/ \E n \in Names : rename(n)
         \/ \E ns \in SUBSET Names : remove(ns)
  PROVE  Types'
<1> USE DEF Types
<1>1. CASE request
  BY <1>1, AskTypes DEF request, askWindow, NoChange, ListingType, FileType, CallType, EditorType
<1>2. CASE \E n \in Names : rename(n)
  BY <1>2, AskTypes DEF rename, askWindow, NoChange, ListingType, FileType, CallType, EditorType
<1>3. CASE \E ns \in SUBSET Names : remove(ns)
  BY <1>3, AskTypes DEF remove, askWindow, NoChange, ListingType, FileType, CallType, EditorType
<1>4. CASE Leave
  <2>1. ask.then \in Thens  BY <1>4 DEF Leave, CallType, Asks, NoAsk
  <2>2. ListingType' /\ reads' \subseteq Paths  BY <1>4, <2>1, ThenType DEF Leave
  <2>3. FileType' /\ EditorType'  BY <1>4, CloseType DEF Leave
  <2> QED  BY <1>4, <2>2, <2>3, AskTypes DEF Leave, CallType
<1>5. CASE Submit
  <2>1. FileType' /\ EditorType'
    <3>1. CASE Concerned  BY <1>5, <3>1, CloseType DEF Submit
    <3>2. CASE ~Concerned  BY <1>5, <3>2 DEF Submit, Kept, FileType, EditorType
    <3> QED  BY <3>1, <3>2
  <2>2. op' \in 0..MaxOps  BY <1>5 DEF Submit, CallType
  <2>3. ListingType'  BY <1>5 DEF Submit, ListingType
  <2>4. CallType'  BY <1>5, <2>2, AskTypes DEF Submit, CallType
  <2> QED  BY <2>1, <2>3, <2>4
<1> QED  BY <1>1, <1>2, <1>3, <1>4, <1>5

LEMMA TypesInductive == Init /\ [][Next]_vars => []Types
<1>1. Init => Types
  <2> SUFFICES ASSUME Init PROVE Types  OBVIOUS
  <2>1. PICK d \in Dirs : Fresh(d)  BY DEF Init
  <2>2. 0 \in 0..MaxOps  OBVIOUS
  <2>3. CallType  BY <2>1, <2>2, AskTypes DEF Fresh, CallType
  <2>4. ListingType /\ FileType /\ EditorType
    BY <2>1 DEF Init, Fresh, ListingType, FileType, EditorType
  <2> QED  BY <2>3, <2>4 DEF Types
<1>2. Types /\ [Next]_vars => Types'
  <2> SUFFICES ASSUME Types, [Next]_vars PROVE Types'  OBVIOUS
  <2>1. CASE \E d \in Dirs : Remount(d)
    <3>1. 0 \in 0..MaxOps  OBVIOUS
    <3>2. CallType'  BY <2>1, <3>1, AskTypes DEF Remount, CallType
    <3>3. ListingType' /\ FileType' /\ EditorType'
      BY <2>1 DEF Remount, Types, ListingType, FileType, EditorType
    <3> QED  BY <3>2, <3>3 DEF Types
  <2>2. CASE \E d \in Dirs : go(d)  BY <2>2, LeaveType, ThenTypes DEF go
  <2>3. CASE CloseFile \/ EscapeField  BY <2>3, LeaveType, ThenTypes DEF CloseFile, EscapeField
  <2>4. CASE \E n \in Names : open(n)  BY <2>4, LeaveType, ThenTypes DEF open
  <2>5. CASE UNCHANGED vars
    BY <2>5 DEF vars, Types, ListingType, FileType, CallType, EditorType
  <2> QED
    BY <2>1, <2>2, <2>3, <2>4, <2>5, QuietType, AnswerType, WindowType DEF Next, Person, Answer
<1> QED  BY <1>1, <1>2, PTL

(* Every step keeps the types, for any directories, names and texts.       *)
THEOREM TypeCorrect == Spec => []TypeOK
BY TypesInductive, TypeParts, PTL DEF Spec

-----------------------------------------------------------------------------
(* What the open file is, and what is known of it.                         *)

(* CleanMeansStored says nothing of a text that is being edited, and typing*)
(* may bring it back to `original`: what holds at every step is that       *)
(* `original` is what the server has.                                      *)
OriginalStored == editing # None => original = stored \/ "typedOver" \in slips

Places == EditorKeepsPlace /\ OriginalStored

LEMMA Closing == ASSUME closeEditor PROVE Places'
BY DEF closeEditor, Places, EditorKeepsPlace, OriginalStored

LEMMA Leaving ==
  ASSUME Places, NEW then \in Thens, leaveEditor(then)
  PROVE  Places'
<1>1. CASE dirty
  BY <1>1 DEF leaveEditor, Kept, Places, EditorKeepsPlace, OriginalStored
<1>2. CASE ~dirty  BY <1>2, Closing DEF leaveEditor
<1> QED  BY <1>1, <1>2

LEMMA PlacesInductive == Types /\ Places /\ [Next]_vars => Places'
<1> SUFFICES ASSUME Types, Places, [Next]_vars PROVE Places'  OBVIOUS
<1> USE DEF Places, EditorKeepsPlace, OriginalStored
<1>1. CASE \E d \in Dirs : Remount(d)  BY <1>1 DEF Remount
<1>2. CASE (\E d \in Dirs : go(d)) \/ CloseFile \/ EscapeField \/ \E n \in Names : open(n)
  BY <1>2, Leaving, ThenTypes DEF go, CloseFile, EscapeField, open
<1>3. CASE \E n \in Names : toggle(n)  BY <1>3 DEF toggle
<1>4. CASE deselect \/ Refresh \/ upload \/ OpAnswered
  BY <1>4 DEF deselect, Refresh, upload, OpAnswered, load
<1>5. CASE Type  BY <1>5 DEF Type
<1>6. CASE save \/ SaveFailed  BY <1>6 DEF save, SaveFailed
<1>7. CASE SaveAnswered
  <2>1. "typedOver" \in slips => "typedOver" \in slips'  BY <1>7 DEF SaveAnswered
  <2>2. OriginalStored'  BY <1>7, <2>1 DEF SaveAnswered
  <2> QED  BY <1>7, <2>2 DEF SaveAnswered, load
<1>8. CASE request \/ Cancel \/ (\E n \in Names : rename(n)) \/ \E ns \in SUBSET Names : remove(ns)
  BY <1>8 DEF request, Cancel, rename, remove, askWindow, NoChange
<1>9. CASE Leave
  BY <1>9, Closing DEF Leave
<1>10. CASE Submit
  <2>1. CASE Concerned  BY <1>10, <2>1, Closing DEF Submit
  <2>2. CASE ~Concerned  BY <1>10, <2>2 DEF Submit, Kept
  <2> QED  BY <2>1, <2>2
<1>11. CASE Preload \/ MonacoLoaded \/ MonacoFailed
  BY <1>11 DEF Preload, MonacoLoaded, MonacoFailed
<1>12. CASE \E d \in Dirs : ListingAnswered(d)
  <2>1. PICK d \in Dirs : ListingAnswered(d)  BY <1>12
  <2>2. slips' \cap {"astray", "typedOver"} = slips \cap {"astray", "typedOver"}
    BY <2>1 DEF ListingAnswered, Types, EditorType
  <2>3. EditorKeepsPlace' /\ OriginalStored'  BY <2>1, <2>2 DEF ListingAnswered
  <2> QED  BY <2>3
<1>13. CASE \E p \in Paths : FileAnswered(p)
  <2>1. PICK p \in Paths : FileAnswered(p)  BY <1>13
  <2>2. p = <<p[1], p[2]>>  OBVIOUS
  <2>3. EditorKeepsPlace'  BY <2>1, <2>2 DEF FileAnswered, Opened
  <2>4. OriginalStored'  BY <2>1 DEF FileAnswered, Opened
  <2> QED  BY <2>3, <2>4
<1>14. CASE \E p \in Paths : FileFailed(p)  BY <1>14 DEF FileFailed
<1>15. CASE UNCHANGED vars  BY <1>15 DEF vars
<1> QED
  BY <1>1, <1>2, <1>3, <1>4, <1>5, <1>6, <1>7, <1>8, <1>9, <1>10, <1>11, <1>12, <1>13, <1>14, <1>15
  DEF Next, Person, Answer

LEMMA PlacesHold == Init /\ [][Next]_vars => [](Types /\ Places)
<1>1. Init => Places
  BY DEF Init, Fresh, Places, EditorKeepsPlace, OriginalStored
<1>2. Types /\ Places /\ [Next]_vars => Places'  BY PlacesInductive
<1> QED  BY <1>1, <1>2, TypesInductive, PTL

(* The open file is the one its path says, but for an answer that came     *)
(* after its directory was left.                                           *)
THEOREM SavesWhereRead == Spec => []EditorKeepsPlace
<1>1. Places => EditorKeepsPlace  BY DEF Places
<1> QED  BY <1>1, PlacesHold, PTL DEF Spec

(* An editor that shows no "unsaved" tag shows what the server has, but    *)
(* for what was typed while a save was on its way.                         *)
THEOREM NoTagIsStored == Spec => []CleanMeansStored
<1>1. Places => CleanMeansStored
  BY DEF Places, OriginalStored, CleanMeansStored, dirty
<1> QED  BY <1>1, PlacesHold, PTL DEF Spec

-----------------------------------------------------------------------------
(* When a step throws an edit away. *)

Allowed == \/ ask.kind = "leave" \/ Concerned \/ "typedOver" \in slips
           \/ \E p \in reads \ reads' : from' = p
           \/ \E d \in Dirs : Remount(d)

LEMMA DirtyStays ==
  ASSUME dirty, NEW then \in Thens, leaveEditor(then)
  PROVE  UNCHANGED <<from, text, reads>>
BY DEF leaveEditor, Kept

LEMMA LossAllowed == Types /\ Places /\ [Next]_vars => [Loss => Allowed]_vars
<1> SUFFICES ASSUME Types, Places, Next, Loss PROVE Allowed
  BY DEF vars
<1>1. from' # from \/ reads' # reads  BY DEF Loss
<1>2. CASE "typedOver" \in slips  BY <1>2 DEF Allowed
<1>3. CASE "typedOver" \notin slips
  <2>1. dirty  BY <1>3 DEF Places, OriginalStored, Loss, Unsaved, dirty
  <2>2. CASE (\E d \in Dirs : go(d)) \/ CloseFile \/ EscapeField \/ \E n \in Names : open(n)
    <3>1. UNCHANGED <<from, text, reads>>
      BY <2>1, <2>2, DirtyStays, ThenTypes DEF go, CloseFile, EscapeField, open
    <3> QED  BY <1>1, <3>1
  <2>3. CASE \E d \in Dirs : Remount(d)  BY <2>3 DEF Allowed
  <2>4. CASE Leave  BY <2>4 DEF Leave, Allowed
  <2>5. CASE Submit
    <3>1. CASE Concerned  BY <3>1 DEF Allowed
    <3>2. CASE ~Concerned  BY <1>1, <2>5, <3>2 DEF Submit, Kept
    <3> QED  BY <3>1, <3>2
  <2>6. CASE \E p \in Paths : FileAnswered(p)
    <3>1. PICK p \in Paths : FileAnswered(p)  BY <2>6
    <3>2. p \in reads \ reads' /\ from' = p  BY <3>1 DEF FileAnswered, Opened
    <3> QED  BY <3>2 DEF Allowed
  <2>7. CASE \E p \in Paths : FileFailed(p)  BY <2>7 DEF FileFailed, Loss
  <2>8. CASE \/ (\E n \in Names : toggle(n) \/ rename(n))
             \/ (\E ns \in SUBSET Names : remove(ns))
             \/ deselect \/ Refresh \/ Type \/ save \/ request \/ upload \/ Cancel
    BY <1>1, <2>8 DEF toggle, rename, remove, deselect, Refresh, Type, save, request, upload,
       Cancel, askWindow, NoChange
  <2>9. CASE \/ (\E d \in Dirs : ListingAnswered(d)) \/ SaveAnswered \/ SaveFailed \/ OpAnswered
             \/ MonacoLoaded \/ MonacoFailed \/ Preload
    BY <1>1, <2>9 DEF ListingAnswered, SaveAnswered, SaveFailed, OpAnswered, MonacoLoaded,
       MonacoFailed, Preload
  <2> QED
    BY <2>2, <2>3, <2>4, <2>5, <2>6, <2>7, <2>8, <2>9 DEF Next, Person, Answer
<1> QED  BY <1>2, <1>3

(* An edit is only thrown away by the answer to a window that concerns the *)
(* file, by a file asked for earlier that comes late, or with the page.    *)
THEOREM EditsAreKept == Spec => LossIsAsked
<1>1. Types /\ Places /\ [Next]_vars => [Loss => Allowed]_vars  BY LossAllowed
<1>2. Spec => [][Loss => Allowed]_vars  BY <1>1, PlacesHold, PTL DEF Spec
<1>3. (Loss => Allowed) <=>
        (Loss => \/ ask.kind = "leave" \/ Concerned \/ "typedOver" \in slips
                 \/ \E p \in reads \ reads' : from' = p
                 \/ \E d \in Dirs : Remount(d))
  BY DEF Allowed
<1> QED  BY <1>2, <1>3, PTL DEF LossIsAsked

-----------------------------------------------------------------------------
(* What waits, waits for an answer that is on its way: the safety half of  *)
(* EditorComes, and the same for the button that saves.                    *)

(* An open file without an editor waits for Monaco, whose loader is on its *)
(* way; a save that is not over waits for its PUT or for a listing that    *)
(* was asked for, also when another answer came first or the reader went   *)
(* to another directory meanwhile.                                         *)
NothingHangs ==
  /\ editing # None /\ editor = "none" => mount
  /\ mount => script = "loading"
  /\ saving # None => Putting \/ \E d \in loads : saving = [list |-> d]

LEMMA ClosedWaits ==
  ASSUME Types, NothingHangs, closeEditor, UNCHANGED <<script, mount, saving>>, loads \subseteq loads'
  PROVE  NothingHangs'
BY DEF closeEditor, NothingHangs, Putting

LEMMA ThenLoads == ASSUME NEW then, Then(then) PROVE loads \subseteq loads'
BY DEF Then, load

LEMMA LeftWaits ==
  ASSUME Types, NothingHangs, NEW then \in Thens, leaveEditor(then)
  PROVE  NothingHangs'
<1>1. CASE dirty  BY <1>1 DEF leaveEditor, Kept, NothingHangs, Putting
<1>2. CASE ~dirty
  <2>1. closeEditor /\ Then(then) /\ UNCHANGED <<script, mount, saving>>
    BY <1>2 DEF leaveEditor
  <2> QED  BY <2>1, ThenLoads, ClosedWaits
<1> QED  BY <1>1, <1>2

LEMMA NextHangs == Types /\ NothingHangs /\ [Next]_vars => NothingHangs'
<1> SUFFICES ASSUME Types, NothingHangs, [Next]_vars PROVE NothingHangs'  OBVIOUS
<1>1. CASE \E d \in Dirs : Remount(d)  BY <1>1 DEF Remount, NothingHangs
<1>2. CASE (\E d \in Dirs : go(d)) \/ CloseFile \/ EscapeField \/ \E n \in Names : open(n)
  BY <1>2, LeftWaits, ThenTypes DEF go, CloseFile, EscapeField, open
<1>3. CASE \/ \E n \in Names : toggle(n) \/ rename(n)
           \/ \E ns \in SUBSET Names : remove(ns)
           \/ deselect \/ Refresh \/ Type \/ request \/ upload \/ Cancel \/ OpAnswered
           \/ \E p \in Paths : FileFailed(p)
           \/ UNCHANGED vars
  <2>1. UNCHANGED <<editing, editor, mount, script, saving>> /\ loads \subseteq loads'
    BY <1>3 DEF toggle, rename, remove, deselect, Refresh, Type, request, upload, Cancel,
                OpAnswered, FileFailed, askWindow, NoChange, load, vars
  <2> QED  BY <2>1 DEF NothingHangs, Putting
<1>4. CASE save
  <2>1. /\ UNCHANGED <<editing, editor, mount, script>>
        /\ saving' = [put |-> <<cwd, editing>>, body |-> text]
    BY <1>4 DEF save
  <2>2. "put" \in DOMAIN saving'  BY <2>1
  <2> QED  BY <2>1, <2>2 DEF NothingHangs, Putting
<1>5. CASE SaveAnswered
  <2>1. UNCHANGED <<editing, editor, mount, script>> /\ saving' = [list |-> cwd] /\ cwd \in loads'
    BY <1>5 DEF SaveAnswered, load
  <2> QED  BY <2>1 DEF NothingHangs
<1>6. CASE SaveFailed  BY <1>6 DEF SaveFailed, NothingHangs
<1>7. CASE Leave
  <2>1. closeEditor /\ Then(ask.then) /\ UNCHANGED <<script, mount, saving>>  BY <1>7 DEF Leave
  <2> QED  BY <2>1, ThenLoads, ClosedWaits
<1>8. CASE Submit
  <2>1. CASE Concerned  BY <1>8, <2>1, ClosedWaits DEF Submit
  <2>2. CASE ~Concerned  BY <1>8, <2>2 DEF Submit, Kept, NothingHangs, Putting
  <2> QED  BY <2>1, <2>2
<1>9. CASE Preload
  <2>1. UNCHANGED <<editing, editor, mount, saving, loads>> /\ script' = "loading"
    BY <1>9 DEF Preload, loadMonaco
  <2> QED  BY <2>1 DEF NothingHangs, Putting
<1>10. CASE MonacoLoaded \/ MonacoFailed
  <2>1. /\ UNCHANGED <<editing, saving, loads>> /\ mount' = FALSE
        /\ mount => editor' # "none" \/ editing = None
        /\ ~mount => editor' = editor
    BY <1>10 DEF MonacoLoaded, MonacoFailed, Types, EditorType
  <2> QED  BY <2>1 DEF NothingHangs, Putting
<1>11. CASE \E d \in Dirs : ListingAnswered(d)
  <2>1. PICK d \in Dirs : ListingAnswered(d)  BY <1>11
  <2>2. /\ UNCHANGED <<editing, editor, mount, script>> /\ loads' = loads \ {d}
        /\ saving' = IF saving = [list |-> d] THEN None ELSE saving
    BY <2>1 DEF ListingAnswered
  <2> QED  BY <2>2 DEF NothingHangs, Putting
<1>12. CASE \E p \in Paths : FileAnswered(p)
  <2>1. PICK p \in Paths : FileAnswered(p)  BY <1>12
  <2>2. UNCHANGED <<saving, loads>>  BY <2>1 DEF FileAnswered
  <2>3. (editor' # "none" \/ mount') /\ (mount' => script' = "loading")
    <3>1. mount => script = "loading"  BY DEF NothingHangs
    <3>2. CASE editor = "plain" /\ UNCHANGED <<script, mount, editor>>  BY <3>1, <3>2
    <3>3. CASE script = "ready" /\ editor' = "monaco" /\ UNCHANGED <<script, mount>>  BY <3>1, <3>3
    <3>4. CASE script # "ready" /\ loadMonaco /\ mount' = TRUE
      BY <3>4 DEF loadMonaco, Types, EditorType
    <3> QED  BY <2>1, <3>2, <3>3, <3>4 DEF FileAnswered
  <2> QED  BY <2>2, <2>3 DEF NothingHangs, Putting
<1> QED
  BY <1>1, <1>2, <1>3, <1>4, <1>5, <1>6, <1>7, <1>8, <1>9, <1>10, <1>11, <1>12
  DEF Next, Person, Answer

(* No file stays open without an editor and no save stays busy because the *)
(* answer it waits for was answered to somebody else, was never asked for  *)
(* or came before it was waited for.                                       *)
THEOREM NobodyWaitsInVain == Spec => []NothingHangs
<1>1. Init => NothingHangs  BY DEF Init, Fresh, NothingHangs
<1> QED  BY <1>1, NextHangs, TypesInductive, PTL DEF Spec
=============================================================================
