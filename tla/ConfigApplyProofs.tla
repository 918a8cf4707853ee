--------------------------- MODULE ConfigApplyProofs ---------------------------
(***************************************************************************)
(* Proofs about ConfigApply for any requests, files and versions, and any  *)
(* number of kills and failed restores.                                    *)
(***************************************************************************)
EXTENDS ConfigApply, TLAPS

USE VersionsAssumption, OwnsAssumption, LimitsAssumption

-----------------------------------------------------------------------------
(* The inductive invariant *)

Wants(r, f) == want[r][f] # Keep

(* What is still to be written, and what was saved, belongs to the request;*)
(* a file that is still to be written has no entry.                        *)
EntriesWanted ==
  \A r \in Requests, f \in Files :
    /\ f \in todo[r] => Wants(r, f) /\ saved[r][f] = Keep
    /\ saved[r][f] # Keep => Wants(r, f)
    /\ Wants(r, f) => f \in Owns[r]
    /\ pc[r] = "idle" => saved[r][f] = Keep

OneAtATime ==
  Serial => \A r, q \in Requests : pc[r] \in Active /\ pc[q] \in Active => r = q

Base == TypeOK /\ EntriesWanted /\ OneAtATime

(* Until a request has decided, each of its files holds what it held at    *)
(* the beginning, or the entry remembers it.                               *)
CanGoBack ==
  faults = 0 => \A r \in Requests : pc[r] \in {"write", "rollback"} =>
    \A f \in Files : Wants(r, f) =>
      IF saved[r][f] = Keep THEN disk[f] = before[r][f] ELSE saved[r][f] = before[r][f]

(* No file has two writers: callers one at a time, or files of their own.  *)
NoSharing == Serial \/ \A r, q \in Requests : r # q => Owns[r] \cap Owns[q] = {}

-----------------------------------------------------------------------------
(* The steps of a request that change only where it is, and the daemon. *)
MoveOnly(r) ==
  \/ WriteFails(r) \/ Validate(r) \/ ValidatorFails(r)
  \/ NoReload(r) \/ Reload(r) \/ ReloadFails(r) \/ RolledBack(r)

LEMMA MoveFrame ==
  ASSUME TypeOK, NEW r \in Requests, MoveOnly(r)
  PROVE  /\ pc[r] \in Active
         /\ \E p \in Phases \ {"idle", "write"} : pc' = [pc EXCEPT ![r] = p]
         /\ UNCHANGED <<disk, want, force, before, todo, saved, crashes, faults>>
  BY DEF MoveOnly, WriteFails, Validate, ValidatorFails, NoReload, Reload, ReloadFails,
         RolledBack, request, limits, Phases, Active

(* What the daemon holds of a file afterwards is what it held, or what the *)
(* disk holds.                                                             *)
LEMMA MoveLoads ==
  ASSUME TypeOK, NEW r \in Requests, MoveOnly(r)
  PROVE  /\ loaded' \in [Files -> Contents]
         /\ \A f \in Files : loaded'[f] \in {loaded[f], disk[f]}
<1>1. CASE ReloadFails(r)  BY <1>1 DEF ReloadFails, TypeOK
<1>2. CASE ~ReloadFails(r)
  BY <1>2 DEF MoveOnly, WriteFails, Validate, ValidatorFails, NoReload, Reload, RolledBack, TypeOK
<1> QED  BY <1>1, <1>2

LEMMA InitBase == Init => Base
<1> SUFFICES ASSUME Init PROVE Base  OBVIOUS
<1>1. TypeOK  BY DEF Init, TypeOK, Contents, Entries, Phases, Active, NoEntries
<1>2. EntriesWanted  BY DEF Init, EntriesWanted, Wants, NoEntries
<1>3. OneAtATime  BY DEF Init, OneAtATime, Active
<1> QED  BY <1>1, <1>2, <1>3 DEF Base

LEMMA BeginBase == ASSUME Base, NEW r \in Requests, Begin(r) PROVE Base'
<1> PICK w \in [Files -> Versions \cup {Keep}] :
      /\ \A f \in Files : w[f] # Keep => f \in Owns[r]
      /\ want' = [want EXCEPT ![r] = w]
      /\ todo' = [todo EXCEPT ![r] = {f \in Files : w[f] # Keep}]
  BY DEF Begin
<1> USE DEF Base
<1>1. want' \in [Requests -> [Files -> Versions \cup {Keep}]]  BY DEF TypeOK
<1>2. todo' \in [Requests -> SUBSET Files]  BY DEF TypeOK
<1>3. force' \in [Requests -> {"yes", "no"}]  BY DEF Begin, TypeOK
<1>4. before' \in [Requests -> [Files -> Contents]]  BY DEF Begin, TypeOK
<1>5. pc' \in [Requests -> Phases]  BY DEF Begin, TypeOK, Phases, Active
<1>6. TypeOK'  BY <1>1, <1>2, <1>3, <1>4, <1>5 DEF Begin, TypeOK, limits
<1>7. EntriesWanted'  BY DEF Begin, TypeOK, EntriesWanted, Wants
<1>8. OneAtATime'  BY DEF Begin, TypeOK, OneAtATime, Active
<1> QED  BY <1>6, <1>7, <1>8

LEMMA MoveBase == ASSUME Base, NEW r \in Requests, MoveOnly(r) PROVE Base'
<1> USE MoveFrame DEF Base
<1>1. TypeOK'
  <2>1. UNCHANGED <<disk, want, force, before, todo, saved, crashes, faults>>  OBVIOUS
  <2>2. pc' \in [Requests -> Phases]  BY DEF TypeOK
  <2>3. loaded' \in [Files -> Contents]  BY MoveLoads
  <2> QED  BY ONLY TypeOK, <2>1, <2>2, <2>3 DEF TypeOK
<1>2. EntriesWanted'  BY DEF TypeOK, EntriesWanted, Wants, Phases
<1>3. OneAtATime'  BY DEF TypeOK, OneAtATime
<1> QED  BY <1>1, <1>2, <1>3

LEMMA WriteBase ==
  ASSUME Base, NEW r \in Requests, NEW f \in Files, Write(r, f) PROVE Base'
<1> USE DEF Base, Write
<1>1. want[r][f] \in Versions  BY DEF TypeOK, EntriesWanted, Wants
<1>2. disk' \in [Files -> Contents]  BY <1>1 DEF TypeOK, Contents
<1>3. saved' \in [Requests -> [Files -> Entries]]
  BY DEF TypeOK, Contents, Entries
<1>4. todo' \in [Requests -> SUBSET Files]  BY DEF TypeOK
<1>5. TypeOK'  BY <1>2, <1>3, <1>4 DEF TypeOK, request, limits
<1>6. EntriesWanted'
  <2> SUFFICES ASSUME NEW q \in Requests, NEW g \in Files
               PROVE  /\ g \in todo'[q] => Wants(q, g) /\ saved'[q][g] = Keep
                      /\ saved'[q][g] # Keep => Wants(q, g)
                      /\ Wants(q, g) => g \in Owns[q]
                      /\ pc[q] = "idle" => saved'[q][g] = Keep
    BY DEF EntriesWanted, Wants, request
  <2>1. q # r \/ g # f => saved'[q][g] = saved[q][g]  BY DEF TypeOK
  <2>2. g \in todo'[q] => g \in todo[q] /\ (q # r \/ g # f)  BY DEF TypeOK
  <2>3. Wants(r, f)  BY DEF EntriesWanted
  <2> QED  BY <2>1, <2>2, <2>3 DEF EntriesWanted
<1>7. OneAtATime'  BY DEF OneAtATime
<1> QED  BY <1>5, <1>6, <1>7

LEMMA RestoreBase ==
  ASSUME Base, NEW r \in Requests, NEW f \in Files, Restore(r, f) PROVE Base'
<1> USE DEF Base, Restore
<1>1. saved[r][f] \in Contents  BY DEF TypeOK, Entries
<1>2. disk' \in [Files -> Contents]  BY <1>1 DEF TypeOK
<1>3. saved' \in [Requests -> [Files -> Entries]]  BY DEF TypeOK, Entries
<1>4. faults' \in 0..MaxFaults  BY DEF TypeOK
<1>5. TypeOK'  BY <1>2, <1>3, <1>4 DEF TypeOK, request
<1>6. EntriesWanted'  BY DEF TypeOK, EntriesWanted, Wants, request
<1>7. OneAtATime'  BY DEF OneAtATime
<1> QED  BY <1>5, <1>6, <1>7

LEMMA CrashBase == ASSUME Base, Crash PROVE Base'
<1> USE DEF Base, Crash, request
<1>1. pc' \in [Requests -> Phases]  BY DEF TypeOK, Phases
<1>2. TypeOK'  BY <1>1 DEF TypeOK
<1>3. EntriesWanted'  BY DEF TypeOK, EntriesWanted, Wants
<1>4. OneAtATime'  BY DEF TypeOK, OneAtATime, Active
<1> QED  BY <1>2, <1>3, <1>4

LEMMA NextCases ==
  ASSUME [Next]_vars
  PROVE  \/ \E r \in Requests : Begin(r) \/ MoveOnly(r)
         \/ \E r \in Requests, f \in Files : Write(r, f) \/ Restore(r, f)
         \/ Crash
         \/ UNCHANGED vars
  BY DEF Next, Step, MoveOnly

LEMMA NextBase == ASSUME Base, [Next]_vars PROVE Base'
<1>1. CASE UNCHANGED vars
  BY <1>1 DEF vars, Base, TypeOK, EntriesWanted, OneAtATime, Wants
<1> QED
  BY <1>1, NextCases, BeginBase, MoveBase, WriteBase, RestoreBase, CrashBase

(* Type correctness: the disk and every request's bookkeeping stay in      *)
(* their domains; in particular no file is ever "restored" to no content.  *)
THEOREM TypeCorrect == Spec => []TypeOK
<1>1. Base /\ [Next]_vars => Base'  BY NextBase
<1>2. Base => TypeOK  BY DEF Base
<1> QED  BY <1>1, <1>2, InitBase, PTL DEF Spec

-----------------------------------------------------------------------------
(* A refused set leaves no trace when no file has two writers. *)

LEMMA OneWriter ==
  ASSUME NoSharing, Base, NEW r \in Requests, NEW q \in Requests, NEW f \in Files,
         pc[r] \in Active, pc[q] \in Active, Wants(r, f), Wants(q, f)
  PROVE  r = q
  BY DEF NoSharing, Base, OneAtATime, EntriesWanted

LEMMA NextCanGoBack ==
  ASSUME NoSharing, Base, CanGoBack, [Next]_vars PROVE CanGoBack'
<1> SUFFICES ASSUME faults' = 0, NEW q \in Requests, pc'[q] \in {"write", "rollback"},
                    NEW g \in Files, Wants(q, g)'
             PROVE  IF saved'[q][g] = Keep THEN disk'[g] = before'[q][g]
                                           ELSE saved'[q][g] = before'[q][g]
  BY DEF CanGoBack
<1> USE DEF Base
<1>1. ASSUME NEW r \in Requests, Begin(r)
      PROVE  IF saved'[q][g] = Keep THEN disk'[g] = before'[q][g]
                                    ELSE saved'[q][g] = before'[q][g]
  BY <1>1 DEF Begin, limits, TypeOK, CanGoBack, EntriesWanted, Wants
<1>2. ASSUME NEW r \in Requests, MoveOnly(r)
      PROVE  IF saved'[q][g] = Keep THEN disk'[g] = before'[q][g]
                                    ELSE saved'[q][g] = before'[q][g]
  <2>1. pc[q] \in {"write", "rollback"}
    BY <1>2 DEF MoveOnly, WriteFails, Validate, ValidatorFails, NoReload, Reload,
                ReloadFails, RolledBack, TypeOK
  <2> QED  BY <1>2, <2>1, MoveFrame DEF CanGoBack, Wants
<1>3. ASSUME NEW r \in Requests, NEW f \in Files, Write(r, f)
      PROVE  IF saved'[q][g] = Keep THEN disk'[g] = before'[q][g]
                                    ELSE saved'[q][g] = before'[q][g]
  <2>1. UNCHANGED <<pc, want, before, faults>>  BY <1>3 DEF Write, request, limits
  <2>2. Wants(r, f) /\ saved[r][f] = Keep /\ pc[r] = "write"
    BY <1>3 DEF Write, EntriesWanted
  <2>3. CASE g # f
    BY <1>3, <2>1, <2>3 DEF Write, TypeOK, CanGoBack, Wants
  <2>4. CASE g = f
    <3>1. q = r  BY <2>1, <2>2, <2>4, OneWriter DEF Active, Wants
    <3>2. disk[f] = before[r][f]  BY <2>1, <2>2, <2>4, <3>1 DEF CanGoBack
    <3>3. disk[f] # Keep  BY DEF TypeOK, Contents
    <3> QED  BY <1>3, <2>1, <2>4, <3>1, <3>2, <3>3 DEF Write, TypeOK
  <2> QED  BY <2>3, <2>4
<1>4. ASSUME NEW r \in Requests, NEW f \in Files, Restore(r, f)
      PROVE  IF saved'[q][g] = Keep THEN disk'[g] = before'[q][g]
                                    ELSE saved'[q][g] = before'[q][g]
  <2>1. UNCHANGED <<pc, want, before>>  BY <1>4 DEF Restore, request
  <2>2. Wants(r, f) /\ saved[r][f] # Keep /\ pc[r] = "rollback"
    BY <1>4 DEF Restore, EntriesWanted
  <2>3. faults = 0 /\ disk' = [disk EXCEPT ![f] = saved[r][f]]
    BY <1>4 DEF Restore, TypeOK
  <2>4. CASE g # f
    BY <1>4, <2>1, <2>3, <2>4 DEF Restore, TypeOK, CanGoBack, Wants
  <2>5. CASE g = f
    <3>1. q = r  BY <2>1, <2>2, <2>5, OneWriter DEF Active, Wants
    <3>2. saved[r][f] = before[r][f]  BY <2>1, <2>2, <2>3, <2>5, <3>1 DEF CanGoBack
    <3> QED  BY <1>4, <2>1, <2>3, <2>5, <3>1, <3>2 DEF Restore, TypeOK
  <2> QED  BY <2>4, <2>5
<1>5. CASE Crash
  BY <1>5 DEF Crash, request, TypeOK, CanGoBack, Wants
<1>6. CASE UNCHANGED vars
  BY <1>6 DEF vars, CanGoBack, Wants
<1> QED  BY <1>1, <1>2, <1>3, <1>4, <1>5, <1>6, NextCases

LEMMA FailedWentBack ==
  ASSUME Base, CanGoBack, [Next]_vars,
         NEW r \in Requests, pc[r] # "failed", pc'[r] = "failed", faults = 0,
         NEW f \in Files, want[r][f] # Keep
  PROVE  disk'[f] = before[r][f]
<1> USE DEF Base
<1>1. RolledBack(r)
  BY NextCases DEF Begin, MoveOnly, WriteFails, Validate, ValidatorFails, NoReload, Reload,
                   ReloadFails, RolledBack, Write, Restore, Crash, vars, TypeOK
<1> QED  BY <1>1 DEF RolledBack, NoEntries, CanGoBack, Wants

THEOREM RefusedLeavesNoTrace == NoSharing => (Spec => AllOrNothing)
<1> SUFFICES ASSUME NoSharing PROVE Spec => AllOrNothing  OBVIOUS
<1>1. Init => Base /\ CanGoBack
  BY InitBase DEF Init, CanGoBack
<1>2. Base /\ CanGoBack /\ [Next]_vars => (Base /\ CanGoBack)'
  BY NextBase, NextCanGoBack
<1>3. Base /\ CanGoBack /\ [Next]_vars =>
        [\A r \in Requests :
           pc[r] # "failed" /\ pc'[r] = "failed" /\ faults = 0 =>
             \A f \in Files : want[r][f] # Keep => disk'[f] = before[r][f]]_vars
  BY FailedWentBack
<1> QED  BY <1>1, <1>2, <1>3, PTL DEF Spec, AllOrNothing
-----------------------------------------------------------------------------
(* At rest the disk is valid when no file has two writers. *)

(* A broken file is one that a request in progress has put there and can   *)
(* take back; what it would put back is not broken.                        *)
BrokenIsOwned ==
  crashes = 0 /\ faults = 0 =>
    /\ \A f \in Files : disk[f] \in Broken =>
         \E r \in Requests : pc[r] \in {"write", "rollback"} /\ saved[r][f] # Keep
    /\ \A r \in Requests, f \in Files :
         pc[r] \in {"write", "rollback"} => saved[r][f] \notin Broken

LEMMA InitOwned == Init => BrokenIsOwned
  BY DEF Init, BrokenIsOwned, NoEntries, Contents

(* What a request finds in a file it has not written yet.                  *)
LEMMA FoundWhole ==
  ASSUME NoSharing, Base, BrokenIsOwned, crashes = 0, faults = 0,
         NEW r \in Requests, NEW f \in Files, pc[r] = "write", f \in todo[r]
  PROVE  disk[f] \notin Broken
<1> SUFFICES ASSUME disk[f] \in Broken PROVE FALSE  OBVIOUS
<1>1. PICK q \in Requests : pc[q] \in {"write", "rollback"} /\ saved[q][f] # Keep
  BY DEF BrokenIsOwned
<1>2. Wants(r, f) /\ saved[r][f] = Keep /\ Wants(q, f)
  BY <1>1 DEF Base, EntriesWanted
<1>3. r = q  BY <1>1, <1>2, OneWriter DEF Active
<1> QED  BY <1>1, <1>2, <1>3

LEMMA NextOwned ==
  ASSUME NoSharing, Base, BrokenIsOwned, [Next]_vars PROVE BrokenIsOwned'
<1> SUFFICES ASSUME crashes' = 0, faults' = 0
             PROVE  /\ \A f \in Files : disk'[f] \in Broken =>
                         \E r \in Requests : pc'[r] \in {"write", "rollback"} /\ saved'[r][f] # Keep
                    /\ \A r \in Requests, f \in Files :
                         pc'[r] \in {"write", "rollback"} => saved'[r][f] \notin Broken
  BY DEF BrokenIsOwned
<1> USE DEF Base
<1>1. ASSUME NEW r \in Requests, Begin(r) PROVE BrokenIsOwned'
  <2>1. UNCHANGED <<disk, saved, crashes, faults>> /\ pc[r] = "idle"
    BY <1>1 DEF Begin, limits
  <2>2. \A q \in Requests : pc'[q] = IF q = r THEN "write" ELSE pc[q]
    BY <1>1 DEF Begin, TypeOK
  <2>3. \A f \in Files : saved[r][f] = Keep  BY <2>1 DEF EntriesWanted
  <2>4. Keep \notin Broken  OBVIOUS
  <2> QED  BY <2>1, <2>2, <2>3, <2>4 DEF BrokenIsOwned
<1>2. ASSUME NEW r \in Requests, MoveOnly(r) PROVE BrokenIsOwned'
  <2>1. UNCHANGED <<disk, saved, crashes, faults>> /\ crashes = 0 /\ faults = 0
    BY <1>2, MoveFrame
  <2>2. \A q \in Requests : q # r => pc'[q] = pc[q]
    BY <1>2, MoveFrame DEF TypeOK
  <2>3. pc'[r] \in {"write", "rollback"} => pc[r] \in {"write", "rollback"}
    BY <1>2 DEF MoveOnly, WriteFails, Validate, ValidatorFails, NoReload, Reload,
                ReloadFails, RolledBack, TypeOK
  <2>4. CASE Valid(disk)  BY <2>1, <2>2, <2>3, <2>4 DEF BrokenIsOwned, Valid
  <2>5. CASE saved[r] = NoEntries
    <3>1. \A f \in Files : saved[r][f] = Keep  BY <2>5 DEF NoEntries
    <3> QED  BY <2>1, <2>2, <2>3, <3>1 DEF BrokenIsOwned
  <2>6. CASE pc'[r] = "rollback"
    <3>1. pc[r] \in {"write", "rollback"}  BY <2>3, <2>6
    <3> QED  BY <2>1, <2>2, <2>6, <3>1 DEF BrokenIsOwned
  <2>7. CASE pc[r] = "reload"  BY <2>1, <2>2, <2>3, <2>7 DEF BrokenIsOwned
  <2>8. Valid(disk) \/ saved[r] = NoEntries \/ pc'[r] = "rollback" \/ pc[r] = "reload"
    BY <1>2 DEF MoveOnly, WriteFails, Validate, ValidatorFails, NoReload, Reload,
                ReloadFails, RolledBack, TypeOK
  <2> QED  BY <2>4, <2>5, <2>6, <2>7, <2>8
<1>3. ASSUME NEW r \in Requests, NEW f \in Files, Write(r, f) PROVE BrokenIsOwned'
  <2>1. UNCHANGED <<pc, crashes, faults>> /\ pc[r] = "write" /\ f \in todo[r]
        /\ crashes = 0 /\ faults = 0
    BY <1>3 DEF Write, limits
  <2>2. disk[f] \notin Broken /\ disk[f] # Keep
    BY <2>1, FoundWhole DEF TypeOK, Contents
  <2>3. \A g \in Files : g # f => disk'[g] = disk[g]  BY <1>3 DEF Write, TypeOK
  <2>4. disk'[f] = want[r][f]  BY <1>3 DEF Write, TypeOK
  <2>5. \A q \in Requests, g \in Files : q # r \/ g # f => saved'[q][g] = saved[q][g]
    BY <1>3 DEF Write, TypeOK
  <2>6. saved'[r][f] = IF disk[f] = want[r][f] THEN Keep ELSE disk[f]
    BY <1>3 DEF Write, TypeOK
  <2>7. saved[r][f] = Keep  BY <2>1 DEF EntriesWanted
  <2>8. \A g \in Files : disk'[g] \in Broken =>
          \E q \in Requests : pc'[q] \in {"write", "rollback"} /\ saved'[q][g] # Keep
    <3> SUFFICES ASSUME NEW g \in Files, disk'[g] \in Broken
                 PROVE  \E q \in Requests : pc'[q] \in {"write", "rollback"} /\ saved'[q][g] # Keep
      OBVIOUS
    <3>1. CASE g = f  BY <2>1, <2>2, <2>4, <2>6, <3>1
    <3>2. CASE g # f
      <4>1. PICK q \in Requests : pc[q] \in {"write", "rollback"} /\ saved[q][g] # Keep
        BY <2>1, <2>3, <3>2 DEF BrokenIsOwned
      <4> QED  BY <2>1, <2>5, <3>2, <4>1
    <3> QED  BY <3>1, <3>2
  <2>9. \A q \in Requests, g \in Files :
          pc'[q] \in {"write", "rollback"} => saved'[q][g] \notin Broken
    BY <2>1, <2>2, <2>5, <2>6 DEF BrokenIsOwned
  <2> QED  BY <2>8, <2>9 DEF BrokenIsOwned
<1>4. ASSUME NEW r \in Requests, NEW f \in Files, Restore(r, f) PROVE BrokenIsOwned'
  <2>1. /\ UNCHANGED <<pc, crashes>> /\ pc[r] = "rollback"
        /\ crashes = 0 /\ faults = 0 /\ disk' = [disk EXCEPT ![f] = saved[r][f]]
    BY <1>4 DEF Restore, TypeOK
  <2>2. saved[r][f] \notin Broken  BY <2>1 DEF BrokenIsOwned
  <2>3. \A g \in Files : disk'[g] = IF g = f THEN saved[r][f] ELSE disk[g]
    BY <2>1 DEF TypeOK
  <2>4. \A q \in Requests, g \in Files :
          saved'[q][g] = IF q = r /\ g = f THEN Keep ELSE saved[q][g]
    BY <1>4 DEF Restore, TypeOK
  <2>5. \A g \in Files : disk'[g] \in Broken =>
          \E q \in Requests : pc'[q] \in {"write", "rollback"} /\ saved'[q][g] # Keep
    BY <2>1, <2>2, <2>3, <2>4 DEF BrokenIsOwned
  <2>6. \A q \in Requests, g \in Files :
          pc'[q] \in {"write", "rollback"} => saved'[q][g] \notin Broken
    BY <2>1, <2>4 DEF BrokenIsOwned
  <2> QED  BY <2>5, <2>6 DEF BrokenIsOwned
<1>5. CASE Crash  BY <1>5 DEF Crash, TypeOK
<1>6. CASE UNCHANGED vars  BY <1>6 DEF vars, BrokenIsOwned
<1> QED  BY <1>1, <1>2, <1>3, <1>4, <1>5, <1>6, NextCases DEF BrokenIsOwned

(* With no request in flight the disk passes the validators, unless the    *)
(* agent was killed or a restore failed.                                   *)
THEOREM DiskRestsValid == NoSharing => (Spec => []RestIsValid)
<1> SUFFICES ASSUME NoSharing PROVE Spec => []RestIsValid  OBVIOUS
<1>1. Init => Base /\ BrokenIsOwned  BY InitBase, InitOwned
<1>2. Base /\ BrokenIsOwned /\ [Next]_vars => (Base /\ BrokenIsOwned)'
  BY NextBase, NextOwned
<1>3. BrokenIsOwned => RestIsValid
  BY DEF BrokenIsOwned, RestIsValid, Valid, Active
<1> QED  BY <1>1, <1>2, <1>3, PTL DEF Spec

-----------------------------------------------------------------------------
(* Success is live when no file has two writers. *)

(* Each file of a request is still to be written, or as it asked for.      *)
WrittenStays ==
  \A r \in Requests :
    /\ pc[r] = "reload" => todo[r] = {}
    /\ pc[r] \in {"write", "reload"} =>
         \A f \in Files : Wants(r, f) => f \in todo[r] \/ disk[f] = want[r][f]

LEMMA NextWritten ==
  ASSUME NoSharing, Base, WrittenStays, [Next]_vars PROVE WrittenStays'
<1> USE DEF Base
<1>1. ASSUME NEW r \in Requests, Begin(r) PROVE WrittenStays'
  <2>1. UNCHANGED disk /\ pc'[r] = "write"  BY <1>1 DEF Begin, TypeOK
  <2>2. \A q \in Requests : q # r => /\ pc'[q] = pc[q] /\ todo'[q] = todo[q]
                                     /\ want'[q] = want[q]
    BY <1>1 DEF Begin, TypeOK
  <2>3. \A f \in Files : Wants(r, f)' => f \in todo'[r]
    BY <1>1 DEF Begin, TypeOK, Wants
  <2> QED  BY <2>1, <2>2, <2>3 DEF WrittenStays, Wants
<1>2. ASSUME NEW r \in Requests, MoveOnly(r) PROVE WrittenStays'
  <2>1. UNCHANGED <<disk, want, todo>>  BY <1>2, MoveFrame
  <2>2. \A q \in Requests : q # r => pc'[q] = pc[q]  BY <1>2, MoveFrame DEF TypeOK
  <2>3. pc'[r] # "write" /\ (pc'[r] = "reload" => pc[r] = "write" /\ todo[r] = {})
    BY <1>2 DEF MoveOnly, WriteFails, Validate, ValidatorFails, NoReload, Reload,
                ReloadFails, RolledBack, TypeOK
  <2> QED  BY <2>1, <2>2, <2>3 DEF WrittenStays, Wants
<1>3. ASSUME NEW r \in Requests, NEW f \in Files, Write(r, f) \/ Restore(r, f)
      PROVE  WrittenStays'
  <2>1. UNCHANGED <<pc, want>> /\ Wants(r, f) /\ pc[r] \in {"write", "rollback"}
    BY <1>3 DEF Write, Restore, request, EntriesWanted
  <2>2. \A g \in Files : g # f => disk'[g] = disk[g]
    BY <1>3 DEF Write, Restore, TypeOK
  <2>3. \A q \in Requests : q # r => todo'[q] = todo[q]
    BY <1>3 DEF Write, Restore, TypeOK
  <2>4. pc[r] = "write" => disk'[f] = want[r][f] /\ todo'[r] = todo[r] \ {f}
    BY <1>3 DEF Write, Restore, TypeOK
  <2>5. \A q \in Requests : q # r /\ pc[q] \in {"write", "reload"} => ~Wants(q, f)
    BY <2>1, OneWriter DEF Active
  <2> QED  BY <2>1, <2>2, <2>3, <2>4, <2>5 DEF WrittenStays, Wants
<1>4. CASE Crash
  BY <1>4 DEF Crash, request, TypeOK, WrittenStays, Wants, Active
<1>5. CASE UNCHANGED vars  BY <1>5 DEF vars, WrittenStays, Wants
<1> QED  BY <1>1, <1>2, <1>3, <1>4, <1>5, NextCases

LEMMA OkIsLoaded ==
  ASSUME Base, WrittenStays, [Next]_vars,
         NEW r \in Requests, pc[r] # "ok", pc'[r] = "ok", MustReload(r),
         NEW f \in Files, want[r][f] # Keep
  PROVE  disk'[f] = want[r][f] /\ loaded'[f] = want[r][f]
<1> USE DEF Base
<1>1. Reload(r)
  BY NextCases DEF Begin, MoveOnly, WriteFails, Validate, ValidatorFails, NoReload, Reload,
                   ReloadFails, RolledBack, Write, Restore, Crash, vars, TypeOK, MustReload
<1> QED  BY <1>1 DEF Reload, WrittenStays, Wants

(* A request that is answered with success and had something to write, or  *)
(* was forced, has its files on the disk and in the daemon.                *)
THEOREM OkIsLive == NoSharing => (Spec => SuccessIsLive)
<1> SUFFICES ASSUME NoSharing PROVE Spec => SuccessIsLive  OBVIOUS
<1>1. Init => Base /\ WrittenStays
  BY InitBase DEF Init, WrittenStays
<1>2. Base /\ WrittenStays /\ [Next]_vars => (Base /\ WrittenStays)'
  BY NextBase, NextWritten
<1>3. Base /\ WrittenStays /\ [Next]_vars =>
        [\A r \in Requests :
           pc[r] # "ok" /\ pc'[r] = "ok" /\ MustReload(r) =>
             \A f \in Files : want[r][f] # Keep =>
               disk'[f] = want[r][f] /\ loaded'[f] = want[r][f]]_vars
  BY OkIsLoaded
<1> QED  BY <1>1, <1>2, <1>3, PTL DEF Spec, SuccessIsLive

-----------------------------------------------------------------------------
(* What a reload takes in when no file has two writers. *)

(* An accepted set has no broken file, whatever the others do meanwhile.   *)
AcceptedWhole ==
  \A r \in Requests : pc[r] = "reload" => \A f \in Files : want[r][f] \notin Broken

LEMMA NextAccepted ==
  ASSUME Base, WrittenStays, AcceptedWhole, [Next]_vars PROVE AcceptedWhole'
<1> USE DEF Base
<1>1. ASSUME NEW r \in Requests, Begin(r) PROVE AcceptedWhole'
  BY <1>1 DEF Begin, TypeOK, AcceptedWhole
<1>2. ASSUME NEW r \in Requests, MoveOnly(r) PROVE AcceptedWhole'
  <2>1. UNCHANGED want /\ \A q \in Requests : q # r => pc'[q] = pc[q]
    BY <1>2, MoveFrame DEF TypeOK
  <2>2. ASSUME pc'[r] = "reload", NEW f \in Files PROVE want[r][f] \notin Broken
    <3>1. pc[r] = "write" /\ todo[r] = {} /\ Valid(disk)
      BY <1>2, <2>2 DEF MoveOnly, WriteFails, Validate, ValidatorFails, NoReload, Reload,
                        ReloadFails, RolledBack, TypeOK
    <3>2. want[r][f] # Keep => disk[f] = want[r][f]  BY <3>1 DEF WrittenStays, Wants
    <3>3. Keep \notin Broken  OBVIOUS
    <3> QED  BY <3>1, <3>2, <3>3 DEF Valid
  <2> QED  BY <2>1, <2>2 DEF AcceptedWhole
<1>3. ASSUME NEW r \in Requests, NEW f \in Files, Write(r, f) \/ Restore(r, f)
      PROVE  AcceptedWhole'
  BY <1>3 DEF Write, Restore, request, AcceptedWhole
<1>4. CASE Crash  BY <1>4 DEF Crash, request, TypeOK, AcceptedWhole, Active
<1>5. CASE UNCHANGED vars  BY <1>5 DEF vars, AcceptedWhole
<1> QED  BY <1>1, <1>2, <1>3, <1>4, <1>5, NextCases

LEMMA TakenInIsAnothers ==
  ASSUME Base, WrittenStays, AcceptedWhole, BrokenIsOwned, [Next]_vars,
         NEW r \in Requests, NEW f \in Files,
         pc[r] = "reload", pc'[r] \in {"ok", "applied"},
         loaded'[f] # loaded[f], loaded'[f] \in Broken
  PROVE  /\ want[r][f] = Keep
         /\ crashes + faults = 0 => \E q \in Requests : Holds(q, f)
<1> USE DEF Base
<1>1. MoveOnly(r)
  <2>1. CASE \E q \in Requests : MoveOnly(q)
    BY <2>1, MoveFrame DEF TypeOK
  <2> QED
    BY <2>1, NextCases DEF Begin, Write, Restore, Crash, vars, TypeOK
<1>2. disk[f] \in Broken  BY <1>1, MoveLoads
<1>3. want[r][f] # Keep => disk[f] = want[r][f]  BY DEF WrittenStays, Wants
<1>4. want[r][f] = Keep  BY <1>2, <1>3 DEF AcceptedWhole
<1>5. ASSUME crashes + faults = 0 PROVE \E q \in Requests : Holds(q, f)
  <2>1. crashes = 0 /\ faults = 0  BY <1>5 DEF TypeOK
  <2> QED  BY <1>2, <2>1 DEF BrokenIsOwned, Holds, Undecided
<1> QED  BY <1>4, <1>5

(* "A broken config never reaches a reload" is true of the caller's own    *)
(* files, with any number of kills and failed restores; and of the others' *)
(* except those of a request that runs beside it and has not decided yet.  *)
THEOREM BrokenLoadedIsAnothers == NoSharing => (Spec => BrokenIsAnothers)
<1> SUFFICES ASSUME NoSharing PROVE Spec => BrokenIsAnothers  OBVIOUS
<1> DEFINE Inv == Base /\ WrittenStays /\ AcceptedWhole /\ BrokenIsOwned
<1>1. Init => Inv
  BY InitBase, InitOwned DEF Init, WrittenStays, AcceptedWhole
<1>2. Inv /\ [Next]_vars => Inv'
  BY NextBase, NextWritten, NextAccepted, NextOwned
<1>3. Inv /\ [Next]_vars =>
        [\A r \in Requests, f \in Files :
           /\ pc[r] = "reload" /\ pc'[r] \in {"ok", "applied"}
           /\ loaded'[f] # loaded[f] /\ loaded'[f] \in Broken
           => /\ want[r][f] = Keep
              /\ crashes + faults = 0 => \E q \in Requests : Holds(q, f)]_vars
  BY TakenInIsAnothers
<1> QED  BY <1>1, <1>2, <1>3, PTL DEF Spec, BrokenIsAnothers

-----------------------------------------------------------------------------
(* The code implements ConfigSets when no file has two writers: what a     *)
(* request has saved and would put back counts as still there, so that the *)
(* files change when the request is accepted and not when they are         *)
(* written.                                                                *)

(* A file that some request holds is as that request has saved it.         *)
LEMMA Held ==
  ASSUME NoSharing, Base, NEW r \in Requests, NEW f \in Files, Holds(r, f)
  PROVE  DecidedFiles[f] = saved[r][f]
<1>1. Holder(f) \in Requests /\ Holds(Holder(f), f)  BY DEF Holder
<1>2. Holder(f) = r
  BY <1>1, OneWriter DEF Holds, Undecided, Active, Base, EntriesWanted
<1> QED  BY <1>1, <1>2 DEF DecidedFiles

LEMMA HeldNext ==
  ASSUME NoSharing, Base', NEW r \in Requests, NEW f \in Files, Holds(r, f)'
  PROVE  DecidedFiles'[f] = saved'[r][f]
<1>1. Holder(f)' \in Requests /\ Holds(Holder(f), f)'  BY DEF Holder
<1>2. Holder(f)' = r
  <2>1. ASSUME NEW q \in Requests, Holds(q, f)' PROVE q = r
    BY <2>1 DEF NoSharing, Base, OneAtATime, EntriesWanted, Holds, Undecided, Active, Wants
  <2>2. PICK q \in Requests : q = Holder(f)' /\ Holds(q, f)'  BY <1>1 DEF Holds
  <2> QED  BY <2>1, <2>2
<1> QED  BY <1>1, <1>2 DEF DecidedFiles

LEMMA Free ==
  ASSUME NEW f \in Files, \A q \in Requests : ~Holds(q, f)
  PROVE  DecidedFiles[f] = disk[f]
  BY DEF DecidedFiles

LEMMA FreeNext ==
  ASSUME NEW f \in Files, \A q \in Requests : ~Holds(q, f)'
  PROVE  DecidedFiles'[f] = disk'[f]
  BY DEF DecidedFiles

(* A file nobody touches stays as decided. *)
LEMMA Untouched ==
  ASSUME NoSharing, Base, Base', NEW f \in Files, disk'[f] = disk[f],
         \A q \in Requests : /\ Holds(q, f)' <=> Holds(q, f)
                             /\ saved'[q][f] = saved[q][f]
  PROVE  DecidedFiles'[f] = DecidedFiles[f]
<1>1. CASE \E q \in Requests : Holds(q, f)
  <2>1. PICK q \in Requests : Holds(q, f)  BY <1>1
  <2> QED  BY <2>1, Held, HeldNext
<1>2. CASE \A q \in Requests : ~Holds(q, f)  BY <1>2, Free, FreeNext
<1> QED  BY <1>1, <1>2

(* Of a file one request wants, while it is open, nobody else has an entry.*)
LEMMA OnlyHolder ==
  ASSUME NoSharing, Base, NEW r \in Requests, NEW f \in Files,
         pc[r] \in Active, Wants(r, f), NEW q \in Requests, Holds(q, f)
  PROVE  q = r
  BY OneWriter DEF Holds, Undecided, Active, Base, EntriesWanted

(* An entry remembers a file that the request has changed, to what it asks *)
(* for.                                                                    *)
EntriesTell ==
  \A r \in Requests, f \in Files :
    Holds(r, f) => disk[f] = want[r][f] /\ saved[r][f] # want[r][f]

LEMMA NextTell ==
  ASSUME NoSharing, Base, EntriesTell, [Next]_vars PROVE EntriesTell'
<1> USE DEF Base, Undecided
<1>1. ASSUME NEW r \in Requests, Begin(r) PROVE EntriesTell'
  <2>1. \A f \in Files : saved[r][f] = Keep  BY <1>1 DEF Begin, EntriesWanted
  <2> QED  BY <1>1, <2>1 DEF Begin, TypeOK, EntriesTell, Holds
<1>2. ASSUME NEW r \in Requests, MoveOnly(r) PROVE EntriesTell'
  <2>1. pc'[r] \in Undecided => pc[r] \in Undecided
    BY <1>2 DEF MoveOnly, WriteFails, Validate, ValidatorFails, NoReload, Reload,
                ReloadFails, RolledBack, TypeOK
  <2> QED  BY <1>2, <2>1, MoveFrame DEF TypeOK, EntriesTell, Holds
<1>3. ASSUME NEW r \in Requests, NEW f \in Files, Write(r, f) \/ Restore(r, f)
      PROVE  EntriesTell'
  <2>1. UNCHANGED <<pc, want>> /\ Wants(r, f) /\ pc[r] \in Undecided
    BY <1>3 DEF Write, Restore, request, EntriesWanted
  <2>2. \A g \in Files : g # f => disk'[g] = disk[g]
    BY <1>3 DEF Write, Restore, TypeOK
  <2>3. \A q \in Requests, g \in Files : q # r \/ g # f => saved'[q][g] = saved[q][g]
    BY <1>3 DEF Write, Restore, TypeOK
  <2>4. saved'[r][f] # Keep => disk'[f] = want[r][f] /\ saved'[r][f] # want[r][f]
    BY <1>3 DEF Write, Restore, TypeOK
  <2>5. \A q \in Requests : q # r => ~Holds(q, f)
    BY <2>1, OneWriter DEF Active, Holds, EntriesWanted
  <2> QED  BY <2>1, <2>2, <2>3, <2>4, <2>5 DEF EntriesTell, Holds
<1>4. CASE Crash
  BY <1>4 DEF Crash, request, TypeOK, EntriesTell, Holds
<1>5. CASE UNCHANGED vars  BY <1>5 DEF vars, EntriesTell, Holds
<1> QED  BY <1>1, <1>2, <1>3, <1>4, <1>5, NextCases

LEMMA SetsInit == Init => Sets!Init
<1> SUFFICES ASSUME Init PROVE Sets!Init  OBVIOUS
<1>1. Base  BY InitBase
<1>2. DecidedFiles = disk  BY <1>1 DEF Init, DecidedFiles, Holds, Undecided, Base, TypeOK
<1> QED  BY <1>1, <1>2 DEF Init, Sets!Init, StatusOf, NoEntries, Contents, Sets!Contents

StatusesNow == [q \in Requests |-> StatusOf(pc[q])]
OwedNow == {q \in Requests : pc[q] = "reload" /\ MustReload(q)}
ForcedNow == {q \in Requests : force[q] = "yes"}

(* A request that moves to p moves to StatusOf(p). *)
LEMMA Moves ==
  ASSUME Base, NEW r \in Requests, NEW p, pc' = [pc EXCEPT ![r] = p]
  PROVE  StatusesNow' = [StatusesNow EXCEPT ![r] = StatusOf(p)]
  BY DEF Base, TypeOK, StatusesNow

LEMMA OverIs ==
  ASSUME NEW e, NEW d, NEW w, NEW S, e = [f \in Files |-> e[f]],
         \A f \in Files : e[f] = IF f \in S /\ w[f] # Keep THEN w[f] ELSE d[f]
  PROVE  e = Sets!Over(d, w, S)
  BY DEF Sets!Over

LEMMA DecidedNext == DecidedFiles' = [f \in Files |-> DecidedFiles'[f]]
  BY DEF DecidedFiles

(* A step that only moves one request leaves the files as decided. *)
LEMMA FilesStay ==
  ASSUME NoSharing, Base, Base', NEW r \in Requests, UNCHANGED <<disk, saved>>,
         \A q \in Requests : q # r => pc'[q] = pc[q],
         (\A f \in Files : saved[r][f] = Keep) \/ (pc[r] \in Undecided <=> pc'[r] \in Undecided)
  PROVE  UNCHANGED DecidedFiles
<1>1. \A f \in Files : DecidedFiles'[f] = DecidedFiles[f]
  BY Untouched DEF Holds
<1> QED  BY <1>1 DEF DecidedFiles

LEMMA BeginAsks ==
  ASSUME NoSharing, Base, Base', NEW r \in Requests, Begin(r) PROVE Sets!Ask(r)
<1> USE DEF Begin
<1>1. \A q \in Requests : q # r => pc'[q] = pc[q]  BY DEF Base, TypeOK
<1>2. UNCHANGED DecidedFiles
  <2>1. \A f \in Files : saved[r][f] = Keep  BY DEF Base, EntriesWanted
  <2> QED  BY <1>1, <2>1, FilesStay
<1>3. StatusesNow' = [StatusesNow EXCEPT ![r] = "asked"]  BY Moves DEF StatusOf
<1>4. StatusesNow[r] = "idle"  BY DEF StatusesNow, StatusOf
<1>5. UNCHANGED OwedNow
  <2>1. pc[r] = "idle" /\ pc'[r] = "write"  BY DEF Base, TypeOK
  <2>2. \A q \in Requests : q # r => (MustReload(q)' <=> MustReload(q))
    BY DEF MustReload, Base, TypeOK
  <2> QED  BY <1>1, <2>1, <2>2 DEF OwedNow
<1>6. ForcedNow' \in {ForcedNow \cup {r}, ForcedNow \ {r}}
  BY DEF ForcedNow, Base, TypeOK
<1>7. UNCHANGED <<loaded, crashes, faults>>  BY DEF limits
<1>8. \E w \in [Files -> Versions \cup {Keep}] :
        /\ \A f \in Files : w[f] # Keep => f \in Owns[r]
        /\ want' = [want EXCEPT ![r] = w]
  OBVIOUS
<1> QED
  BY <1>2, <1>3, <1>4, <1>5, <1>6, <1>7, <1>8
  DEF Sets!Ask, Sets!Become, StatusesNow, OwedNow, ForcedNow

(* Of a request that moves nothing else changes. *)
LEMMA MoveKeeps ==
  ASSUME Base, NEW r \in Requests, MoveOnly(r)
  PROVE  /\ UNCHANGED <<want, ForcedNow, crashes, faults>>
         /\ \A q \in Requests : q # r => pc'[q] = pc[q]
         /\ OwedNow' = IF pc'[r] = "reload" /\ MustReload(r) THEN OwedNow \cup {r}
                                                             ELSE OwedNow \ {r}
<1>1. /\ UNCHANGED <<disk, want, force, before, todo, saved, crashes, faults>>
      /\ \A q \in Requests : q # r => pc'[q] = pc[q]
  BY MoveFrame DEF Base, TypeOK
<1>2. \A q \in Requests : MustReload(q)' <=> MustReload(q)  BY <1>1 DEF MustReload
<1> QED  BY <1>1, <1>2 DEF ForcedNow, OwedNow

(* What holds a file is one that tries to change it. *)
LEMMA HolderTries ==
  ASSUME Base, NEW q \in Requests, NEW f \in Files, Holds(q, f)
  PROVE  Sets!Tries(q, f)
  BY DEF Sets!Tries, StatusOf, Holds, Undecided, Base, EntriesWanted, Wants

(* The disk has of a file what was decided, or what is being tried. *)
LEMMA DiskIsTried ==
  ASSUME Base, EntriesTell, NEW f \in Files
  PROVE  disk[f] \in {DecidedFiles[f]} \cup Sets!Trying(f)
<1>1. CASE \E q \in Requests : Holds(q, f)
  <2>1. PICK q \in Requests : Holds(q, f)  BY <1>1
  <2>2. disk[f] = want[q][f]  BY <2>1 DEF EntriesTell
  <2> QED  BY <2>1, <2>2, HolderTries DEF Sets!Trying
<1>2. CASE \A q \in Requests : ~Holds(q, f)  BY <1>2, Free
<1> QED  BY <1>1, <1>2

LEMMA ValidateAccepts ==
  ASSUME NoSharing, Base, Base', EntriesTell, WrittenStays,
         NEW r \in Requests, Validate(r), Valid(disk)
  PROVE  Sets!Accept(r)
<1> USE DEF Validate
<1>1. pc[r] = "write" /\ pc'[r] = "reload"  BY DEF Base, TypeOK
<1>2. \A q \in Requests : q # r => pc'[q] = pc[q]  BY DEF Base, TypeOK
<1>3. \A f \in Files : want[r][f] # Keep => disk[f] = want[r][f]
  BY DEF WrittenStays, Wants
<1>4. ASSUME NEW f \in Files, want[r][f] = Keep PROVE DecidedFiles'[f] = DecidedFiles[f]
  <2>1. saved[r][f] = Keep  BY <1>4 DEF Base, EntriesWanted, Wants
  <2>2. \A q \in Requests : Holds(q, f)' <=> Holds(q, f)  BY <1>2, <2>1 DEF Holds
  <2> QED  BY <2>2, Untouched
<1>5. ASSUME NEW f \in Files, want[r][f] # Keep
      PROVE  /\ DecidedFiles'[f] = want[r][f]
             /\ DecidedFiles[f] = IF saved[r][f] # Keep THEN saved[r][f] ELSE disk[f]
             /\ saved[r][f] # Keep => saved[r][f] # want[r][f]
  <2>1. \A q \in Requests : Holds(q, f) => q = r
    BY <1>1, <1>5, OnlyHolder DEF Active, Wants
  <2>2. \A q \in Requests : ~Holds(q, f)'
    BY <1>1, <1>2, <2>1 DEF Holds, Undecided
  <2>3. DecidedFiles'[f] = want[r][f]  BY <1>3, <1>5, <2>2, FreeNext
  <2>4. CASE saved[r][f] # Keep
    <3>1. Holds(r, f)  BY <1>1, <2>4 DEF Holds, Undecided
    <3> QED  BY <2>3, <2>4, <3>1, Held DEF EntriesTell
  <2>5. CASE saved[r][f] = Keep
    <3>1. \A q \in Requests : ~Holds(q, f)  BY <2>1, <2>5 DEF Holds
    <3> QED  BY <2>3, <2>5, <3>1, Free
  <2> QED  BY <2>4, <2>5
<1>6. DecidedFiles' = Sets!Over(DecidedFiles, want[r], Files)
  BY <1>4, <1>5 DEF DecidedFiles, Sets!Over
<1>7. DecidedFiles' # DecidedFiles <=> saved[r] # NoEntries
  <2>1. saved[r] # NoEntries <=> \E f \in Files : saved[r][f] # Keep
    BY DEF Base, TypeOK, NoEntries
  <2>2. DecidedFiles' # DecidedFiles <=> \E f \in Files : DecidedFiles'[f] # DecidedFiles[f]
    BY DEF DecidedFiles
  <2>3. \A f \in Files : want[r][f] = Keep => saved[r][f] = Keep
    BY DEF Base, EntriesWanted, Wants
  <2>4. \A f \in Files : saved[r][f] # Keep <=> DecidedFiles'[f] # DecidedFiles[f]
    BY <1>3, <1>4, <1>5, <2>3
  <2> QED  BY <2>1, <2>2, <2>4
<1>8. OwedNow' = IF DecidedFiles' # DecidedFiles \/ r \in ForcedNow THEN OwedNow \cup {r}
                                                                    ELSE OwedNow
  <2>1. r \notin OwedNow  BY DEF OwedNow
  <2>2. MustReload(r) <=> (DecidedFiles' # DecidedFiles \/ r \in ForcedNow)
    BY <1>7 DEF MustReload, ForcedNow
  <2> QED  BY <1>1, <2>1, <2>2, MoveKeeps DEF MoveOnly
<1>9. ASSUME NEW f \in Files, DecidedFiles'[f] \in Broken
      PROVE  \E q \in Requests \ {r} : Sets!Tries(q, f)
  <2>1. disk[f] \notin Broken  BY DEF Valid
  <2>2. want[r][f] = Keep  BY <1>3, <1>5, <1>9, <2>1
  <2>3. PICK q \in Requests : Holds(q, f)  BY <1>4, <1>9, <2>1, <2>2, Free
  <2>4. q # r  BY <2>2, <2>3 DEF Holds, Base, EntriesWanted, Wants
  <2> QED  BY <2>3, <2>4, HolderTries
<1>10. StatusesNow' = [StatusesNow EXCEPT ![r] = "accepted"]
  BY Moves DEF StatusOf
<1>11. StatusesNow[r] = "asked"  BY DEF StatusesNow, StatusOf
<1>12. UNCHANGED <<loaded, want, ForcedNow, crashes, faults>>  BY MoveKeeps DEF MoveOnly
<1> QED
  BY <1>6, <1>8, <1>9, <1>10, <1>11, <1>12
  DEF Sets!Accept, Sets!Become, StatusesNow, OwedNow, ForcedNow

LEMMA MoveMaps ==
  ASSUME NoSharing, Base, Base', EntriesTell, WrittenStays, NEW r \in Requests, MoveOnly(r)
  PROVE  Sets!Accept(r) \/ Sets!Reject(r) \/ Sets!Refuse(r) \/ Sets!Load(r)
         \/ Sets!NoLoad(r) \/ Sets!LoadFails(r)
<1>1. UNCHANGED <<disk, saved>> /\ \A q \in Requests : q # r => pc'[q] = pc[q]
  BY MoveFrame DEF Base, TypeOK
<1>2. UNCHANGED <<want, ForcedNow, crashes, faults>>  BY MoveKeeps
<1>3. CASE Validate(r) /\ Valid(disk)  BY <1>3, ValidateAccepts
<1>4. CASE (Validate(r) /\ ~Valid(disk)) \/ WriteFails(r) \/ ValidatorFails(r)
  <2>1. /\ pc[r] = "write" /\ pc' = [pc EXCEPT ![r] = "rollback"] /\ UNCHANGED loaded
    BY <1>4 DEF Validate, WriteFails, ValidatorFails
  <2>2. pc'[r] = "rollback"  BY <2>1 DEF Base, TypeOK
  <2>3. UNCHANGED DecidedFiles  BY <1>1, <2>1, <2>2, FilesStay DEF Undecided
  <2>4. UNCHANGED OwedNow  BY <2>1, <2>2, MoveKeeps DEF OwedNow
  <2>5. StatusesNow' = [StatusesNow EXCEPT ![r] = "rejected"] /\ StatusesNow[r] = "asked"
    BY <2>1, Moves DEF StatusOf, StatusesNow
  <2> QED  BY <1>2, <2>1, <2>3, <2>4, <2>5
           DEF Sets!Reject, Sets!Become, StatusesNow, OwedNow, ForcedNow
<1>5. CASE RolledBack(r)
  <2> USE <1>5 DEF RolledBack
  <2>1. pc'[r] = "failed" /\ \A f \in Files : saved[r][f] = Keep
    BY DEF Base, TypeOK, NoEntries
  <2>2. UNCHANGED DecidedFiles  BY <1>1, <2>1, FilesStay
  <2>3. UNCHANGED OwedNow  BY <2>1, MoveKeeps DEF OwedNow
  <2>4. StatusesNow' = [StatusesNow EXCEPT ![r] = "refused"] /\ StatusesNow[r] = "rejected"
    BY Moves DEF StatusOf, StatusesNow
  <2> QED  BY <1>2, <2>2, <2>3, <2>4
           DEF Sets!Refuse, Sets!Become, StatusesNow, OwedNow, ForcedNow
<1>6. CASE Reload(r) \/ ReloadFails(r) \/ NoReload(r)
  <2>1. pc[r] = "reload"  BY <1>6 DEF Reload, ReloadFails, NoReload
  <2>2. pc'[r] \in {"ok", "applied"}
    BY <1>6 DEF Reload, ReloadFails, NoReload, Base, TypeOK
  <2>3. UNCHANGED DecidedFiles  BY <1>1, <2>1, <2>2, FilesStay DEF Undecided
  <2>4. OwedNow' = OwedNow \ {r}  BY <2>2, MoveKeeps
  <2>5. StatusesNow[r] = "accepted"  BY <2>1 DEF StatusesNow, StatusOf
  <2>6. \A f \in Files : disk[f] \in {DecidedFiles[f]} \cup Sets!Trying(f)  BY DiskIsTried
  <2>7. loaded' \in [Files -> Sets!Contents]
    BY MoveLoads DEF Base, Contents, Sets!Contents
  <2>8. CASE Reload(r)
    <3>1. StatusesNow' = [StatusesNow EXCEPT ![r] = "ok"]
      BY <2>8, Moves DEF Reload, StatusOf
    <3>2. r \in OwedNow /\ loaded' = disk  BY <2>8 DEF Reload, OwedNow
    <3>3. \A f \in Files : want[r][f] # Keep => loaded'[f] = want[r][f]
      BY <2>1, <3>2 DEF WrittenStays, Wants
    <3>4. \A f \in Files : loaded'[f] \in {DecidedFiles[f]} \cup Sets!Trying(f)
      BY <2>6, <3>2
    <3> QED  BY <1>2, <2>3, <2>4, <2>5, <2>7, <3>1, <3>2, <3>3, <3>4
             DEF Sets!Load, Sets!Become, StatusesNow, OwedNow, ForcedNow
  <2>9. CASE ReloadFails(r)
    <3>1. StatusesNow' = [StatusesNow EXCEPT ![r] = "applied"]
      BY <2>9, Moves DEF ReloadFails, StatusOf
    <3>2. r \in OwedNow  BY <2>9 DEF ReloadFails, OwedNow
    <3>3. \A f \in Files : loaded'[f] \in {loaded[f], DecidedFiles[f]} \cup Sets!Trying(f)
      BY <2>6, MoveLoads DEF Base
    <3> QED  BY <1>2, <2>3, <2>4, <2>5, <2>7, <3>1, <3>2, <3>3
             DEF Sets!LoadFails, Sets!Become, StatusesNow, OwedNow, ForcedNow
  <2>10. CASE NoReload(r)
    <3>1. StatusesNow' = [StatusesNow EXCEPT ![r] = "ok"]
      BY <2>10, Moves DEF NoReload, StatusOf
    <3>2. r \notin OwedNow /\ UNCHANGED loaded
      BY <2>10 DEF NoReload, OwedNow, MustReload
    <3>3. UNCHANGED OwedNow  BY <2>4, <3>2
    <3> QED  BY <1>2, <2>3, <2>5, <3>1, <3>2, <3>3
             DEF Sets!NoLoad, Sets!Become, StatusesNow, OwedNow, ForcedNow
  <2> QED  BY <1>6, <2>8, <2>9, <2>10
<1> QED  BY <1>3, <1>4, <1>5, <1>6 DEF MoveOnly

(* Writing a file decides nothing. *)
LEMMA WriteMaps ==
  ASSUME NoSharing, Base, Base', NEW r \in Requests, NEW f \in Files, Write(r, f)
  PROVE  UNCHANGED Sets!vars
<1> USE DEF Write
<1>1. UNCHANGED <<pc, want, force, loaded, crashes, faults>>  BY DEF request, limits
<1>2. \A g \in Files : g # f => DecidedFiles'[g] = DecidedFiles[g]
  <2>1. \A g \in Files : g # f => disk'[g] = disk[g]  BY DEF Base, TypeOK
  <2>2. \A q \in Requests, g \in Files : g # f => saved'[q][g] = saved[q][g]
    BY DEF Base, TypeOK
  <2> QED  BY <1>1, <2>1, <2>2, Untouched DEF Holds
<1>3. DecidedFiles'[f] = DecidedFiles[f]
  <2>1. saved[r][f] = Keep /\ Wants(r, f)  BY DEF Base, EntriesWanted
  <2>2. \A q \in Requests : ~Holds(q, f)  BY <2>1, OnlyHolder DEF Active, Holds
  <2>3. DecidedFiles[f] = disk[f]  BY <2>2, Free
  <2>4. /\ disk'[f] = want[r][f]
        /\ saved'[r][f] = IF disk[f] = want[r][f] THEN Keep ELSE disk[f]
        /\ \A q \in Requests : q # r => saved'[q][f] = saved[q][f]
    BY DEF Base, TypeOK
  <2>5. CASE disk[f] = want[r][f]
    <3>1. \A q \in Requests : ~Holds(q, f)'  BY <1>1, <2>2, <2>4, <2>5 DEF Holds
    <3> QED  BY <2>3, <2>4, <2>5, <3>1, FreeNext
  <2>6. CASE disk[f] # want[r][f]
    <3>1. disk[f] # Keep  BY DEF Base, TypeOK, Contents
    <3>2. Holds(r, f)'  BY <1>1, <2>4, <2>6, <3>1 DEF Holds, Undecided
    <3> QED  BY <2>3, <2>4, <2>6, <3>2, HeldNext
  <2> QED  BY <2>5, <2>6
<1>4. UNCHANGED DecidedFiles  BY <1>2, <1>3 DEF DecidedFiles
<1>5. UNCHANGED OwedNow
  <2>1. pc[r] # "reload" /\ \A q \in Requests : q # r => saved'[q] = saved[q]
    BY DEF Base, TypeOK
  <2> QED  BY <1>1, <2>1 DEF OwedNow, MustReload
<1> QED  BY <1>1, <1>4, <1>5 DEF Sets!vars, OwedNow

(* Putting a file back decides nothing; leaving it does. *)
LEMMA RestoreMaps ==
  ASSUME NoSharing, Base, Base', EntriesTell,
         NEW r \in Requests, NEW f \in Files, Restore(r, f)
  PROVE  UNCHANGED Sets!vars \/ Sets!Leave(r, f)
<1> USE DEF Restore
<1>1. UNCHANGED <<pc, want, force, loaded, crashes>>  BY DEF request
<1>2. \A g \in Files : g # f => DecidedFiles'[g] = DecidedFiles[g]
  BY <1>1, Untouched DEF Holds, Base, TypeOK
<1>3. Holds(r, f) /\ Wants(r, f)
  BY DEF Holds, Undecided, Base, EntriesWanted
<1>4. DecidedFiles[f] = saved[r][f]  BY <1>3, Held
<1>5. DecidedFiles'[f] = disk'[f]
  <2>1. \A q \in Requests : Holds(q, f) => q = r  BY <1>3, OnlyHolder DEF Active
  <2>2. saved'[r][f] = Keep /\ \A q \in Requests : q # r => saved'[q][f] = saved[q][f]
    BY DEF Base, TypeOK
  <2>3. \A q \in Requests : ~Holds(q, f)'  BY <1>1, <2>1, <2>2 DEF Holds
  <2> QED  BY <2>3, FreeNext
<1>6. UNCHANGED OwedNow
  <2>1. pc[r] # "reload" /\ \A q \in Requests : q # r => saved'[q] = saved[q]
    BY DEF Base, TypeOK
  <2> QED  BY <1>1, <2>1 DEF OwedNow, MustReload
<1>7. CASE disk' = [disk EXCEPT ![f] = saved[r][f]] /\ UNCHANGED faults
  <2>1. disk'[f] = saved[r][f]  BY <1>7 DEF Base, TypeOK
  <2>2. UNCHANGED DecidedFiles  BY <1>2, <1>4, <1>5, <2>1 DEF DecidedFiles
  <2> QED  BY <1>1, <1>6, <1>7, <2>2 DEF Sets!vars, OwedNow
<1>8. CASE faults' = faults + 1 /\ UNCHANGED disk
  <2>1. want[r][f] # Keep /\ disk[f] = want[r][f]
    BY <1>3 DEF Wants, EntriesTell
  <2>2. \A g \in Files :
          DecidedFiles'[g] = IF g \in {f} /\ want[r][g] # Keep THEN want[r][g] ELSE DecidedFiles[g]
    BY <1>2, <1>5, <1>8, <2>1
  <2>3. DecidedFiles' = Sets!Over(DecidedFiles, want[r], {f})
    BY <2>2, DecidedNext, OverIs
  <2>4. StatusesNow[r] = "rejected"  BY DEF StatusesNow, StatusOf
  <2>5. (crashes + faults)' = (crashes + faults) + 1
    BY <1>1, <1>8 DEF Base, TypeOK
  <2> QED  BY <1>1, <1>6, <2>1, <2>3, <2>4, <2>5
           DEF Sets!Leave, StatusesNow, OwedNow
<1> QED  BY <1>7, <1>8

(* What the agent leaves behind when it dies is part of the sets in hand. *)
LEMMA CrashMaps ==
  ASSUME Base, Base', EntriesTell, Crash PROVE Sets!Die
<1> USE DEF Crash
<1>1. UNCHANGED <<disk, loaded, want, force, saved>> /\ (crashes + faults)' = (crashes + faults) + 1
  BY DEF request, Base, TypeOK
<1>2. \A q \in Requests : pc'[q] \notin Active
  BY DEF Active, Base, TypeOK
<1>3. OwedNow' = {}  BY <1>2 DEF OwedNow, Active
<1>4. StatusesNow' = [q \in Requests |-> IF StatusesNow[q] \in Sets!Open THEN "killed"
                                                                       ELSE StatusesNow[q]]
  <2>1. \A q \in Requests : StatusOf(pc'[q]) = IF StatusOf(pc[q]) \in Sets!Open
                                                 THEN "killed" ELSE StatusOf(pc[q])
    BY DEF Base, TypeOK, Phases, Active, StatusOf, Sets!Open
  <2> QED  BY <2>1 DEF StatusesNow
<1>5. \A f \in Files : DecidedFiles'[f] = disk[f]
  BY <1>1, <1>2 DEF DecidedFiles, Holds, Undecided, Active
<1>6. \A f \in Files : DecidedFiles'[f] \in {DecidedFiles[f]} \cup Sets!Trying(f)
  BY <1>5, DiskIsTried
<1>7. DecidedFiles' \in [Files -> Sets!Contents]
  BY <1>5, DecidedNext DEF Base, TypeOK, Contents, Sets!Contents
<1> QED  BY <1>1, <1>3, <1>4, <1>6, <1>7 DEF Sets!Die, StatusesNow, OwedNow

LEMMA SetsStep ==
  ASSUME NoSharing, Base, Base', EntriesTell, WrittenStays, [Next]_vars
  PROVE  [Sets!Next]_(Sets!vars)
<1>1. ASSUME NEW r \in Requests, Begin(r) PROVE Sets!Next
  BY <1>1, BeginAsks DEF Sets!Next
<1>2. ASSUME NEW r \in Requests, MoveOnly(r) PROVE Sets!Next
  BY <1>2, MoveMaps DEF Sets!Next
<1>3. ASSUME NEW r \in Requests, NEW f \in Files, Write(r, f) PROVE UNCHANGED Sets!vars
  BY <1>3, WriteMaps
<1>4. ASSUME NEW r \in Requests, NEW f \in Files, Restore(r, f)
      PROVE  [Sets!Next]_(Sets!vars)
  BY <1>4, RestoreMaps DEF Sets!Next
<1>5. CASE Crash  BY <1>5, CrashMaps DEF Sets!Next
<1>6. CASE UNCHANGED vars
  <2>1. UNCHANGED <<DecidedFiles, OwedNow, StatusesNow, ForcedNow, crashes + faults>>
    BY <1>6 DEF vars, DecidedFiles, Holder, Holds, OwedNow, MustReload, StatusesNow, ForcedNow
  <2> QED  BY <1>6, <2>1 DEF vars, Sets!vars, OwedNow, StatusesNow, ForcedNow
<1> QED  BY <1>1, <1>2, <1>3, <1>4, <1>5, <1>6, NextCases

(* Requests may overlap file by file: as long as no two of them name the   *)
(* same file the files change as ConfigSets says, a set at once, with any  *)
(* number of kills and failed restores.                                    *)
THEOREM SetsAtOnce == NoSharing => (Spec => ImplementsSets)
<1> SUFFICES ASSUME NoSharing PROVE Spec => ImplementsSets  OBVIOUS
<1>1. Init => Base /\ EntriesTell /\ WrittenStays
  BY InitBase DEF Init, EntriesTell, Holds, Undecided, WrittenStays
<1>2. Base /\ EntriesTell /\ WrittenStays /\ [Next]_vars
        => (Base /\ EntriesTell /\ WrittenStays)'
  BY NextBase, NextTell, NextWritten
<1>3. Base /\ Base' /\ EntriesTell /\ WrittenStays /\ [Next]_vars
        => [Sets!Next]_(Sets!vars)
  BY SetsStep
<1> QED  BY <1>1, <1>2, <1>3, SetsInit, PTL DEF Spec, ImplementsSets, Sets!Spec
=============================================================================
