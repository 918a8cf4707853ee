------------------------------ MODULE ConfigApply ------------------------------
(***************************************************************************)
(* The agent's /v1/config/apply (applyConfigSet and fileTx of              *)
(* internal/agent/ops_config.go): write a set of files one by one keeping  *)
(* what they held, run the validators over the whole configuration of the  *)
(* daemon, put everything back if one fails, otherwise make the daemon     *)
(* load the files. The agent serves every request in a goroutine of its    *)
(* own and takes no lock here, so requests interleave file by file; Serial *)
(* says whether its callers happen to send one at a time.                  *)
(*                                                                         *)
(* One configuration stands for those of nginx, Apache and the php-fpm     *)
(* masters. A file's text, mode and owner are one version, and a version   *)
(* is broken or not: a validator accepts the configuration when none of    *)
(* its files is broken. A daemon is running, with what it has loaded.      *)
(* The copies in confhistory are left out: nothing reads them.             *)
(***************************************************************************)
EXTENDS Naturals

CONSTANTS Requests,    \* calls of ApplyConfigSet
          Files,       \* the files of the daemon's configuration
          Versions,    \* what a request can put into a file
          Broken,      \* the versions a validator rejects
          Absent,      \* the file does not exist
          Keep,        \* "not part of the request", "nothing saved"
          Owns,        \* Owns[r]: the files request r may name
          Serial,      \* the callers send one request at a time
          MaxCrashes,  \* bound: kills of the agent
          MaxFaults    \* bound: files that rollback fails to restore

ASSUME VersionsAssumption ==
  /\ Broken \subseteq Versions
  /\ Absent \notin Versions /\ Keep \notin Versions /\ Absent # Keep
ASSUME OwnsAssumption == Owns \in [Requests -> SUBSET Files]
ASSUME LimitsAssumption ==
  Serial \in BOOLEAN /\ MaxCrashes \in Nat /\ MaxFaults \in Nat

VARIABLES
  disk,     \* disk[f]: what the file holds
  loaded,   \* loaded[f]: what the daemon was last told to load
  pc,       \* pc[r]: where request r is
  want,     \* want[r][f]: the version request r asks for, or Keep
  force,    \* force[r]: reload even if nothing changed
  todo,     \* todo[r]: files not yet written
  saved,    \* saved[r][f]: the entry of fileTx, or Keep
  before,   \* history: the disk when r began
  crashes, faults

vars == <<disk, loaded, pc, want, force, todo, saved, before, crashes, faults>>

request == <<want, force, before>>
limits == <<crashes, faults>>

Contents == Versions \cup {Absent}
Entries == Contents \cup {Keep}

Active == {"write", "reload", "rollback"}

(* ok: answered with success; applied: answered with an error although the *)
(* files stay; failed: rolled back; killed: the agent died meanwhile.      *)
Phases == {"idle", "ok", "applied", "failed", "killed"} \cup Active

NoEntries == [f \in Files |-> Keep]

(* The validators' verdict. *)
Valid(d) == \A f \in Files : d[f] \notin Broken

Init ==
  /\ disk \in [Files -> Contents \ Broken]
  /\ loaded = disk
  /\ pc = [r \in Requests |-> "idle"]
  /\ want = [r \in Requests |-> NoEntries]
  /\ force = [r \in Requests |-> "no"]
  /\ todo = [r \in Requests |-> {}]
  /\ saved = [r \in Requests |-> NoEntries]
  /\ before = [r \in Requests |-> disk]
  /\ crashes = 0
  /\ faults = 0

-----------------------------------------------------------------------------
(* A request arrives and passes the checks of its paths and validators. *)
Begin(r) ==
  /\ pc[r] = "idle"
  /\ Serial => \A q \in Requests : pc[q] \notin Active
  /\ \E w \in [Files -> Versions \cup {Keep}] :
       /\ \A f \in Files : w[f] # Keep => f \in Owns[r]
       /\ want' = [want EXCEPT ![r] = w]
       /\ todo' = [todo EXCEPT ![r] = {f \in Files : w[f] # Keep}]
  /\ \E b \in {"yes", "no"} : force' = [force EXCEPT ![r] = b]
  /\ before' = [before EXCEPT ![r] = disk]
  /\ pc' = [pc EXCEPT ![r] = "write"]
  /\ UNCHANGED <<disk, loaded, saved, limits>>

(* Wrong: no entry for a file that did not exist. *)
WriteNewUnsaved(r, f) ==
  /\ pc[r] = "write" /\ f \in todo[r]
  /\ todo' = [todo EXCEPT ![r] = @ \ {f}]
  /\ disk' = [disk EXCEPT ![f] = want[r][f]]
  /\ saved' = [saved EXCEPT ![r][f] =
                 IF disk[f] \in {want[r][f], Absent} THEN Keep ELSE disk[f]]
  /\ UNCHANGED <<loaded, pc, request, limits>>

(* fileTx.write: a file that already is as asked for is left alone and     *)
(* gets no entry. The replacement itself is a rename.                      *)
Write(r, f) ==
  /\ pc[r] = "write" /\ f \in todo[r]
  /\ todo' = [todo EXCEPT ![r] = @ \ {f}]
  /\ disk' = [disk EXCEPT ![f] = want[r][f]]
  /\ saved' = [saved EXCEPT ![r][f] = IF disk[f] = want[r][f] THEN Keep ELSE disk[f]]
  /\ UNCHANGED <<loaded, pc, request, limits>>

(* fileTx.write returns an error: a symlink, an unknown owner, no space.   *)
WriteFails(r) ==
  /\ pc[r] = "write" /\ todo[r] # {}
  /\ pc' = [pc EXCEPT ![r] = "rollback"]
  /\ UNCHANGED <<disk, loaded, request, todo, saved, limits>>

(* Wrong: only the files of the request are looked at. *)
ValidateOwnFiles(r) ==
  /\ pc[r] = "write" /\ todo[r] = {}
  /\ pc' = [pc EXCEPT ![r] =
              IF \A f \in Files : want[r][f] \notin Broken THEN "reload" ELSE "rollback"]
  /\ UNCHANGED <<disk, loaded, request, todo, saved, limits>>

(* Wrong: a forced request is not held up by the validators. *)
ValidateUnlessForced(r) ==
  /\ pc[r] = "write" /\ todo[r] = {}
  /\ pc' = [pc EXCEPT ![r] =
              IF Valid(disk) \/ force[r] = "yes" THEN "reload" ELSE "rollback"]
  /\ UNCHANGED <<disk, loaded, request, todo, saved, limits>>

(* The validators look at the whole configuration, not only at this set.   *)
Validate(r) ==
  /\ pc[r] = "write" /\ todo[r] = {}
  /\ pc' = [pc EXCEPT ![r] = IF Valid(disk) THEN "reload" ELSE "rollback"]
  /\ UNCHANGED <<disk, loaded, request, todo, saved, limits>>

(* A validator fails for another reason: killed with the caller's          *)
(* connection, out of memory.                                              *)
ValidatorFails(r) ==
  /\ pc[r] = "write" /\ todo[r] = {}
  /\ pc' = [pc EXCEPT ![r] = "rollback"]
  /\ UNCHANGED <<disk, loaded, request, todo, saved, limits>>

(* Wrong: only a forced request reloads. *)
NoReloadUnforced(r) ==
  /\ pc[r] = "reload" /\ force[r] = "no"
  /\ pc' = [pc EXCEPT ![r] = "ok"]
  /\ UNCHANGED <<disk, loaded, request, todo, saved, limits>>

(* Nothing was written and Force is not set: answered without a reload.    *)
NoReload(r) ==
  /\ pc[r] = "reload" /\ saved[r] = NoEntries /\ force[r] = "no"
  /\ pc' = [pc EXCEPT ![r] = "ok"]
  /\ UNCHANGED <<disk, loaded, request, todo, saved, limits>>

MustReload(r) == saved[r] # NoEntries \/ force[r] = "yes"

(* The daemon is told to load what is on the disk now. *)
Reload(r) ==
  /\ pc[r] = "reload" /\ MustReload(r)
  /\ loaded' = disk
  /\ pc' = [pc EXCEPT ![r] = "ok"]
  /\ UNCHANGED <<disk, request, todo, saved, limits>>

(* systemd does not answer or a unit's job fails. The files stay; the      *)
(* units before it, and perhaps it too, have loaded theirs.                *)
ReloadFails(r) ==
  /\ pc[r] = "reload" /\ MustReload(r)
  /\ \E S \in SUBSET Files :
       loaded' = [f \in Files |-> IF f \in S THEN disk[f] ELSE loaded[f]]
  /\ pc' = [pc EXCEPT ![r] = "applied"]
  /\ UNCHANGED <<disk, request, todo, saved, limits>>

(* Wrong: also the files that got no entry are put back. *)
RestoreUnsaved(r, f) ==
  /\ pc[r] = "rollback" /\ want[r][f] # Keep
  /\ disk' = [disk EXCEPT ![f] = saved[r][f]]
  /\ UNCHANGED <<loaded, pc, request, todo, saved, limits>>

(* fileTx.rollback, one entry; its errors are ignored. *)
Restore(r, f) ==
  /\ pc[r] = "rollback" /\ saved[r][f] # Keep
  /\ saved' = [saved EXCEPT ![r][f] = Keep]
  /\ \/ /\ disk' = [disk EXCEPT ![f] = saved[r][f]]
        /\ UNCHANGED faults
     \/ /\ faults < MaxFaults
        /\ faults' = faults + 1
        /\ UNCHANGED disk
  /\ UNCHANGED <<loaded, pc, request, todo, crashes>>

(* Wrong: answered before the entries are put back. *)
RolledBackEarly(r) ==
  /\ pc[r] = "rollback"
  /\ pc' = [pc EXCEPT ![r] = "failed"]
  /\ UNCHANGED <<disk, loaded, request, todo, saved, limits>>

RolledBack(r) ==
  /\ pc[r] = "rollback" /\ saved[r] = NoEntries
  /\ pc' = [pc EXCEPT ![r] = "failed"]
  /\ UNCHANGED <<disk, loaded, request, todo, saved, limits>>

(* The agent is killed: the files stay as they are. *)
Crash ==
  /\ crashes < MaxCrashes
  /\ crashes' = crashes + 1
  /\ pc' = [r \in Requests |-> IF pc[r] \in Active THEN "killed" ELSE pc[r]]
  /\ UNCHANGED <<disk, loaded, request, todo, saved, faults>>

-----------------------------------------------------------------------------
Step(r) ==
  \/ \E f \in Files : Write(r, f) \/ Restore(r, f)
  \/ WriteFails(r) \/ Validate(r) \/ ValidatorFails(r)
  \/ NoReload(r) \/ Reload(r) \/ ReloadFails(r) \/ RolledBack(r)

Next == \/ \E r \in Requests : Begin(r) \/ Step(r)
        \/ Crash

Spec == Init /\ [][Next]_vars

-----------------------------------------------------------------------------
(* Properties *)

(* Type invariant. *)
TypeOK ==
  /\ disk \in [Files -> Contents] /\ loaded \in [Files -> Contents]
  /\ pc \in [Requests -> Phases]
  /\ want \in [Requests -> [Files -> Versions \cup {Keep}]]
  /\ force \in [Requests -> {"yes", "no"}]
  /\ todo \in [Requests -> SUBSET Files]
  /\ saved \in [Requests -> [Files -> Entries]]
  /\ before \in [Requests -> [Files -> Contents]]
  /\ crashes \in 0..MaxCrashes /\ faults \in 0..MaxFaults

(* "A broken config never reaches a reload" (docs/en/01-architecture.md,   *)
(* A4): whatever was killed or could not be restored before.               *)
LoadedValid == Valid(loaded)

(* A set that was refused leaves no trace: each of its files holds what it *)
(* held when the request began, unless a restore failed.                   *)
AllOrNothing ==
  [][\A r \in Requests :
       pc[r] # "failed" /\ pc'[r] = "failed" /\ faults = 0 =>
         \A f \in Files : want[r][f] # Keep => disk'[f] = before[r][f]]_vars

(* A request answered with success whose files changed, or that was        *)
(* forced, has its files both on the disk and in the daemon.               *)
SuccessIsLive ==
  [][\A r \in Requests :
       pc[r] # "ok" /\ pc'[r] = "ok" /\ MustReload(r) =>
         \A f \in Files : want[r][f] # Keep =>
           disk'[f] = want[r][f] /\ loaded'[f] = want[r][f]]_vars

(* With no request in flight the files on the disk pass the validators, so *)
(* the daemon also survives a reboot; only a kill or a failed restore can  *)
(* leave a broken file behind.                                             *)
RestIsValid ==
  (\A r \in Requests : pc[r] \notin Active) /\ crashes = 0 /\ faults = 0 => Valid(disk)

(* A broken file that a reload takes in is never the caller's own: it was  *)
(* accepted, and nobody else writes it. It is the file of another request  *)
(* that has not decided yet and would put it back (no lock covers the      *)
(* validators and the reload, ops_config.go:68-83); only a kill or a       *)
(* failed restore can leave one that nobody would put back.                *)
Undecided == {"write", "rollback"}
Holds(r, f) == pc[r] \in Undecided /\ saved[r][f] # Keep
BrokenIsAnothers ==
  [][\A r \in Requests, f \in Files :
       /\ pc[r] = "reload" /\ pc'[r] \in {"ok", "applied"}
       /\ loaded'[f] # loaded[f] /\ loaded'[f] \in Broken
       => /\ want[r][f] = Keep
          /\ crashes + faults = 0 => \E q \in Requests : Holds(q, f)]_vars

(* A file as decided: what a request in progress has saved of it and would *)
(* put back, otherwise what it holds.                                      *)
Holder(f) == CHOOSE r \in Requests : Holds(r, f)
DecidedFiles ==
  [f \in Files |-> IF \E r \in Requests : Holds(r, f) THEN saved[Holder(f)][f] ELSE disk[f]]

StatusOf(p) == CASE p = "write" -> "asked"     [] p = "reload" -> "accepted"
                 [] p = "rollback" -> "rejected" [] p = "failed" -> "refused"
                 [] OTHER -> p

Sets == INSTANCE ConfigSets WITH
  files <- DecidedFiles,
  live <- loaded,
  status <- [r \in Requests |-> StatusOf(pc[r])],
  set <- want,
  forced <- {r \in Requests : force[r] = "yes"},
  owed <- {r \in Requests : pc[r] = "reload" /\ MustReload(r)},
  torn <- crashes + faults

(* Where no two requests that overlap name the same file, the files change *)
(* as ConfigSets says: a set as a whole or not at all, never to something  *)
(* broken, and success means that the daemon has loaded what changed,      *)
(* although the code writes, saves and puts back file by file.             *)
ImplementsSets == Sets!Spec
=============================================================================
