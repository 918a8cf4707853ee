----------------------------- MODULE SiteLifecycle -----------------------------
(***************************************************************************)
(* One site, from its creation to its removal (internal/api/ops_sites.go,  *)
(* internal/store/sites.go): requests read the row, check the change and   *)
(* write the WHOLE row back, then enqueue a job; the jobs site.apply and   *)
(* site.delete read the row again, work on the host for seconds or minutes *)
(* and write the row they read, again as a whole. Jobs run as the queue of *)
(* module SerialQueue promises, which JobQueue implements.                 *)
(*                                                                         *)
(* A site's settings are one value of Confs; of them only the PHP branch   *)
(* matters here. On the host there are the files of nginx and php-fpm. A   *)
(* reload only tells a daemon: systemd answers once the signal is sent,    *)
(* and the daemon loads the files later, as they are then. A pool listens  *)
(* on a socket whose path does not depend on the branch, so one master     *)
(* holds it, and the next one must wait until that one has let it go.      *)
(***************************************************************************)
EXTENDS Naturals

CONSTANTS
  Clients,     \* requests in flight at a time: users, tokens, the certificate job
  Confs,       \* the settings a site can have
  Branches,    \* the PHP branches
  Branch,      \* Branch[c]: the PHP branch of settings c
  DomainKey,   \* the lock key "site:<domain>"
  IdKey,       \* the lock key "site:<id>", which only the webmail job uses
  UserKey,     \* the lock key "user:<login>" of the owner's removal
  NoKey,       \* the empty lock key
  Outside,     \* callers outside "site:<domain>": "webmail", "owner"
  MaxJobs,     \* bound: jobs of this site ever enqueued
  MaxRestarts, \* bound: restarts of the API process
  MaxFaults    \* bound: calls that fail (SQL, the agent, a template)

LockKeys == {DomainKey, IdKey, UserKey}

ASSUME KeysAssumption ==
  /\ DomainKey # IdKey /\ DomainKey # UserKey /\ IdKey # UserKey
  /\ NoKey \notin LockKeys
ASSUME ConfsAssumption == Confs # {} /\ Branch \in [Confs -> Branches]
ASSUME HostAssumption == "none" \notin Confs \cup Branches /\ "stub" \notin Confs
ASSUME CallersAssumption == Outside \subseteq {"webmail", "owner"}
ASSUME LimitsAssumption ==
  MaxJobs \in Nat /\ MaxRestarts \in Nat /\ MaxFaults \in Nat

Ids == 1..MaxJobs

VARIABLES
  row,       \* the row of table sites: [conf, status]
  vhost,     \* nginx's file: made from settings, "stub" (the 503 page) or "none"
  file,      \* the branch whose pool directory holds the pool's file, or "none"
  nginx,     \* "current", or "stale": its file has changed since it loaded it,
             \* or "told": and it has been told to reload
  pool,      \* the branch whose running master holds the socket, or "none"
  told,      \* the masters told to reload that have not done so yet
  refused,   \* history: masters that last found the socket of their pool taken
  pc,        \* pc[r]: "idle", "loaded", "saved"
  op,        \* op[r]: the job that request r is about to enqueue
  copy,      \* copy[r]: the row as request r read it
  state, key, accepted,   \* the queue, see SerialQueue
  kind,      \* kind[j]: "apply", "delete" or "removeOwner"
  stage,     \* stage[j]: how far the handler of j is
  read,      \* read[j]: the row as the handler of j read it
  unit,      \* unit[j]: the branch whose master j has yet to tell, or "none"
  untold,    \* history: masters whose pool's file went and that nobody told
  restarts, faults,
  slip       \* history: 1 once a write was lost between two that belong together

host == <<vhost, file, nginx, pool, told, refused>>
requests == <<pc, op, copy>>
queue == <<state, key, accepted>>
jobs == <<kind, stage, read, unit, untold>>
limits == <<restarts, faults, slip>>
vars == <<row, vhost, file, nginx, pool, told, refused, pc, op, copy, state, key,
          accepted, kind, stage, read, unit, untold, restarts, faults, slip>>

Queue == INSTANCE SerialQueue WITH Keys <- LockKeys

(* "new" and "gone": there is no row, not yet or not any more. *)
Statuses == {"pending", "active", "suspended", "error", "deleting", "new", "gone"}
Rows == [conf : Confs, status : Statuses]
Blank == [conf |-> CHOOSE c \in Confs : TRUE, status |-> "new"]
Exists == row.status \notin {"new", "gone"}

Ops == {"change", "apply", "suspend", "unsuspend", "delete", "certify"}
Kinds == {"apply", "delete", "removeOwner"}
Stages == {"start", "loaded", "evicting", "evicted", "written", "applied",
           "unlinked", "removed", "saved"}

Init ==
  /\ row = Blank
  /\ vhost = "none" /\ file = "none" /\ nginx = "current"
  /\ pool = "none" /\ told = {} /\ refused = {}
  /\ pc = [r \in Clients |-> "idle"]
  /\ op = [r \in Clients |-> "apply"]
  /\ copy = [r \in Clients |-> Blank]
  /\ Queue!Init
  /\ kind = [j \in Ids |-> "apply"]
  /\ stage = [j \in Ids |-> "start"]
  /\ read = [j \in Ids |-> Blank]
  /\ unit = [j \in Ids |-> "none"] /\ untold = {}
  /\ restarts = 0 /\ faults = 0 /\ slip = 0

-----------------------------------------------------------------------------
(* Requests *)

(* POST /sites: the row is inserted; a second insert is refused (409).     *)
Create(r) ==
  /\ pc[r] = "idle" /\ row.status = "new"
  /\ \E c \in Confs : row' = [conf |-> c, status |-> "pending"]
  /\ pc' = [pc EXCEPT ![r] = "saved"]
  /\ op' = [op EXCEPT ![r] = "apply"]
  /\ UNCHANGED <<host, copy, queue, jobs, limits>>

(* The handler reads the row. *)
Load(r) ==
  /\ pc[r] = "idle" /\ Exists
  /\ copy' = [copy EXCEPT ![r] = row]
  /\ pc' = [pc EXCEPT ![r] = "loaded"]
  /\ UNCHANGED <<row, host, op, queue, jobs, limits>>

(* The status a request gives the row it has read. *)
NewStatus(o, old) ==
  CASE o = "suspend" -> "suspended"
    [] o = "unsuspend" -> "pending"
    [] o = "delete" -> "deleting"
    [] o = "certify" -> old
    [] OTHER -> IF old = "error" THEN "pending" ELSE old

(* UpdateSite: every mutable field, from the copy. A certificate that was  *)
(* issued goes to the sites it covers the same way, except those that are  *)
(* being deleted.                                                          *)
Save(r) ==
  /\ pc[r] = "loaded" /\ Exists
  /\ \E o \in Ops, c \in Confs :
       /\ o # "change" => c = copy[r].conf
       /\ o = "certify" => copy[r].status # "deleting"
       /\ row' = [conf |-> c, status |-> NewStatus(o, copy[r].status)]
       /\ op' = [op EXCEPT ![r] = IF o = "delete" THEN "delete" ELSE "apply"]
  /\ pc' = [pc EXCEPT ![r] = "saved"]
  /\ copy' = [copy EXCEPT ![r] = Blank]
  /\ UNCHANGED <<host, queue, jobs, limits>>

(* The change is not valid, or UpdateSite found no row: nothing happens.   *)
Refuse(r) ==
  /\ pc[r] = "loaded"
  /\ pc' = [pc EXCEPT ![r] = "idle"]
  /\ copy' = [copy EXCEPT ![r] = Blank]
  /\ UNCHANGED <<row, host, op, queue, jobs, limits>>

EnqueueAs(what, k) ==
  /\ Queue!Accept(k)
  /\ kind' = [kind EXCEPT ![accepted + 1] = what]
  /\ UNCHANGED <<stage, read, unit, untold>>

(* Wrong: the key is made of the id. *)
SubmitById(r) ==
  /\ pc[r] = "saved"
  /\ EnqueueAs(op[r], IdKey)
  /\ pc' = [pc EXCEPT ![r] = "idle"]
  /\ op' = [op EXCEPT ![r] = "apply"]
  /\ UNCHANGED <<row, host, copy, limits>>

(* The job that carries the change out. *)
Submit(r) ==
  /\ pc[r] = "saved"
  /\ EnqueueAs(op[r], DomainKey)
  /\ pc' = [pc EXCEPT ![r] = "idle"]
  /\ op' = [op EXCEPT ![r] = "apply"]
  /\ UNCHANGED <<row, host, copy, limits>>

(* Enqueue fails: the row is changed and no job will carry it out.         *)
SubmitFails(r) ==
  /\ pc[r] = "saved" /\ faults < MaxFaults
  /\ faults' = faults + 1 /\ slip' = 1
  /\ pc' = [pc EXCEPT ![r] = "idle"]
  /\ op' = [op EXCEPT ![r] = "apply"]
  /\ UNCHANGED <<row, host, copy, queue, jobs, restarts>>

(* Jobs enqueued without a change of the row: the panel-wide PHP settings  *)
(* and shared folders re-apply the sites they concern.                     *)
Reapply ==
  /\ row.status # "new"
  /\ EnqueueAs("apply", DomainKey)
  /\ UNCHANGED <<row, host, requests, limits>>

(* The webmail job applies the site it installed itself into, under a key  *)
(* made of the site's id.                                                  *)
ApplyWebmail ==
  /\ "webmail" \in Outside /\ row.status # "new"
  /\ EnqueueAs("apply", IdKey)
  /\ UNCHANGED <<row, host, requests, limits>>

(* DELETE /users/{login} of the site's owner. *)
RemoveOwner ==
  /\ "owner" \in Outside
  /\ EnqueueAs("removeOwner", UserKey)
  /\ UNCHANGED <<row, host, requests, limits>>

-----------------------------------------------------------------------------
(* Jobs *)

At(j, s) == state[j] = "active" /\ stage[j] = s

Reach(j, s) == stage' = [stage EXCEPT ![j] = s] /\ UNCHANGED <<kind, read, unit, untold, queue>>

(* The master that the handler has yet to tell. *)
Due(j) == {unit[j]} \ {"none"}

(* The handler returns, with or without an error; a master it has not told *)
(* by then stays untold.                                                   *)
Return(j) ==
  /\ Queue!End(j)
  /\ stage' = [stage EXCEPT ![j] = "start"]
  /\ read' = [read EXCEPT ![j] = Blank]
  /\ unit' = [unit EXCEPT ![j] = "none"]
  /\ untold' = untold \cup Due(j)
  /\ UNCHANGED kind

Begin(j) ==
  /\ Queue!Begin(j)
  /\ UNCHANGED <<row, host, requests, jobs, limits>>

Fetch(j) ==
  /\ At(j, "start") /\ Exists
  /\ read' = [read EXCEPT ![j] = row]
  /\ stage' = [stage EXCEPT ![j] = "loaded"]
  /\ UNCHANGED <<row, host, requests, queue, kind, unit, untold, limits>>

FetchNothing(j) ==
  /\ At(j, "start") /\ ~Exists
  /\ Return(j)
  /\ UNCHANGED <<row, host, requests, limits>>

Stub(j) == read[j].status = "suspended"
Wanted(j) == Branch[read[j].conf]

(* Wrong: the status of a job. *)
JobFailedRow(j) ==
  IF Exists /\ kind[j] # "removeOwner" THEN [row EXCEPT !.status = "failed"] ELSE row

(* siteFail: SetSiteStatus; the owner's removal does not call it. *)
FailedRow(j) ==
  IF Exists /\ kind[j] # "removeOwner" THEN [row EXCEPT !.status = "error"] ELSE row

(* An error that siteFail records: no PHP branch, the agent refuses to     *)
(* remove a file, the old branch's master is not told, a validator rejects *)
(* the new files and they are put back, the site's own files stay.         *)
SiteFail(j) ==
  /\ \E s \in {"loaded", "evicting", "evicted", "removed"} : At(j, s)
  /\ faults < MaxFaults
  /\ faults' = faults + 1
  /\ Return(j)
  /\ row' = FailedRow(j)
  /\ UNCHANGED <<host, requests, restarts, slip>>

(* An error that nothing records in the row: a template that does not      *)
(* render, an SQL error.                                                   *)
Abandon(j) ==
  /\ faults < MaxFaults
  /\ faults' = faults + 1 /\ slip' = 1
  /\ Return(j)
  /\ UNCHANGED <<row, host, requests, restarts>>

(* Wrong: the other branch's master is not told. *)
EvictSilently(j) ==
  /\ At(j, "loaded") /\ kind[j] = "apply"
  /\ file' = IF Stub(j) \/ file # Wanted(j) THEN "none" ELSE file
  /\ untold' = IF Stub(j) THEN untold \cup ({file} \cap {Wanted(j)}) ELSE untold
  /\ stage' = [stage EXCEPT ![j] = "evicted"]
  /\ UNCHANGED <<row, vhost, nginx, pool, told, refused, requests, queue, kind, read, unit, limits>>

(* site.apply first removes the pool's file of another branch, whose       *)
(* master it then tells; of a suspended site also the branch's own, whose  *)
(* master is not told.                                                     *)
Evict(j) ==
  /\ At(j, "loaded") /\ kind[j] = "apply"
  /\ file' = IF Stub(j) \/ file # Wanted(j) THEN "none" ELSE file
  /\ unit' = [unit EXCEPT ![j] = IF file # Wanted(j) THEN file ELSE "none"]
  /\ untold' = IF Stub(j) THEN untold \cup ({file} \cap {Wanted(j)}) ELSE untold
  /\ stage' = [stage EXCEPT ![j] = IF file \in {"none", Wanted(j)} THEN "evicted"
                                                                ELSE "evicting"]
  /\ UNCHANGED <<row, vhost, nginx, pool, told, refused, requests, queue, kind, read, limits>>

(* A handler has told the master it had to tell. *)
TellUnit(j, s) ==
  /\ unit' = [unit EXCEPT ![j] = "none"]
  /\ stage' = [stage EXCEPT ![j] = s]
  /\ UNCHANGED <<kind, read, untold, queue>>

(* The other branch's master is told to let the socket go. *)
Release(j) ==
  /\ At(j, "evicting")
  /\ told' = told \cup Due(j)
  /\ TellUnit(j, "evicted")
  /\ UNCHANGED <<row, vhost, file, nginx, pool, refused, requests, limits>>

(* What a change of its file makes of nginx, and what a reload does. *)
Outdated == IF vhost' # vhost /\ nginx = "current" THEN "stale" ELSE nginx
Notified == IF nginx = "stale" THEN "told" ELSE nginx

(* ApplyConfigSet writes the 503 page, or the site and its pool. *)
WriteFiles(j) ==
  /\ At(j, "evicted") /\ kind[j] = "apply"
  /\ vhost' = IF Stub(j) THEN "stub" ELSE read[j].conf
  /\ file' = IF Stub(j) THEN file ELSE Wanted(j)
  /\ nginx' = Outdated
  /\ Reach(j, "written")
  /\ UNCHANGED <<row, pool, told, refused, requests, limits>>

(* The masters that site.apply reloads: the branch's, with its pool. *)
Reloaded(j) == IF Stub(j) THEN {} ELSE {Wanted(j)}

(* nginx and the branch's master are told. The handler then waits for the  *)
(* socket's path and for an answer of nginx, but only so long, and goes on *)
(* with a warning; the path exists also while another master holds it.     *)
ReloadServices(j) ==
  /\ At(j, "written")
  /\ nginx' = Notified /\ told' = told \cup Reloaded(j)
  /\ Reach(j, "applied")
  /\ UNCHANGED <<row, vhost, file, pool, refused, requests, limits>>

(* systemd does not answer, or a unit's job fails; the units before it are *)
(* told, and the files stay.                                               *)
ReloadFails(j) ==
  /\ At(j, "written")
  /\ faults < MaxFaults
  /\ faults' = faults + 1
  /\ \/ UNCHANGED <<nginx, told>>
     \/ nginx' = Notified /\ \E S \in SUBSET Reloaded(j) : told' = told \cup S
  /\ Return(j)
  /\ row' = FailedRow(j)
  /\ UNCHANGED <<vhost, file, pool, refused, requests, restarts, slip>>

(* Wrong: the status stays as it was read. *)
SaveReadRow(j) ==
  /\ At(j, "applied") /\ Exists
  /\ row' = read[j]
  /\ Reach(j, "saved")
  /\ UNCHANGED <<host, requests, limits>>

(* The end of site.apply: the row as it was READ, with its new status. *)
SaveApplied(j) ==
  /\ At(j, "applied") /\ Exists
  /\ row' = [read[j] EXCEPT !.status = IF Stub(j) THEN "suspended" ELSE "active"]
  /\ Reach(j, "saved")
  /\ UNCHANGED <<host, requests, limits>>

(* removeSiteConfig, of site.delete and of user.delete: the files go; the  *)
(* services reload only if there was a file to remove.                     *)
Unlink(j) ==
  /\ At(j, "loaded") /\ kind[j] # "apply"
  /\ vhost' = "none" /\ file' = "none"
  /\ nginx' = Outdated
  /\ unit' = [unit EXCEPT ![j] = file]
  /\ stage' = [stage EXCEPT ![j] = IF vhost = "none" /\ file = "none" THEN "removed"
                                                                      ELSE "unlinked"]
  /\ UNCHANGED <<row, pool, told, refused, requests, queue, kind, read, untold, limits>>

(* nginx and the masters of all branches are told. *)
ReloadUnlinked(j) ==
  /\ At(j, "unlinked")
  /\ nginx' = Notified /\ told' = told \cup Branches
  /\ TellUnit(j, "removed")
  /\ UNCHANGED <<row, vhost, file, pool, refused, requests, limits>>

(* The validator or a unit fails after the files were removed; the units   *)
(* before it are told.                                                     *)
ReloadUnlinkedFails(j) ==
  /\ At(j, "unlinked")
  /\ faults < MaxFaults
  /\ faults' = faults + 1
  /\ \/ UNCHANGED <<nginx, told>>
     \/ nginx' = Notified /\ \E S \in SUBSET Branches : told' = told \cup S
  /\ Return(j)
  /\ row' = FailedRow(j)
  /\ UNCHANGED <<vhost, file, pool, refused, requests, restarts, slip>>

(* Wrong: only a row that still says so is deleted. *)
DeleteIfDeleting(j) ==
  /\ At(j, "removed") /\ Exists
  /\ row' = IF row.status = "deleting" THEN [row EXCEPT !.status = "gone"] ELSE row
  /\ Reach(j, "saved")
  /\ UNCHANGED <<host, requests, limits>>

DeleteSite(j) ==
  /\ At(j, "removed") /\ Exists
  /\ row' = [row EXCEPT !.status = "gone"]
  /\ Reach(j, "saved")
  /\ UNCHANGED <<host, requests, limits>>

(* The row vanished meanwhile: UpdateSite and DeleteSite return an error.  *)
RowVanished(j) ==
  /\ At(j, "applied") \/ At(j, "removed")
  /\ ~Exists
  /\ Return(j)
  /\ UNCHANGED <<row, host, requests, limits>>

Finish(j) ==
  /\ At(j, "saved")
  /\ Return(j)
  /\ UNCHANGED <<row, host, requests, limits>>

-----------------------------------------------------------------------------
(* The daemons: they reload when told, also by the jobs of other sites,    *)
(* and load the files as they are then.                                    *)

NginxLoads ==
  /\ nginx # "current"
  /\ nginx' = "current"
  /\ UNCHANGED <<row, vhost, file, pool, told, refused, requests, queue, jobs, limits>>

MasterActs(b) ==
  /\ told' = told \ {b} /\ untold' = untold \ {b}
  /\ UNCHANGED <<row, vhost, file, nginx, requests, queue, kind, stage, read, unit, limits>>

(* The master finds the pool's file among its own, and listens. *)
MasterOpens(b) ==
  /\ file = b /\ pool \in {"none", b}
  /\ pool' = b /\ refused' = refused \ {b}
  /\ MasterActs(b)

(* It finds the file, and the socket held by another master. *)
MasterIsRefused(b) ==
  /\ file = b /\ pool \notin {"none", b}
  /\ refused' = refused \cup {b} /\ UNCHANGED pool
  /\ MasterActs(b)

(* It finds no file and lets the socket go, if it held it. *)
MasterCloses(b) ==
  /\ file # b
  /\ pool' = IF pool = b THEN "none" ELSE pool
  /\ refused' = refused \ {b}
  /\ MasterActs(b)

MasterLoads(b) == MasterOpens(b) \/ MasterIsRefused(b) \/ MasterCloses(b)

-----------------------------------------------------------------------------
(* The API process stops and starts: requests are cut off, jobs that were  *)
(* running run again from the beginning.                                   *)
Restart ==
  /\ restarts < MaxRestarts
  /\ restarts' = restarts + 1
  /\ slip' = IF \E r \in Clients : pc[r] = "saved" THEN 1 ELSE slip
  /\ pc' = [r \in Clients |-> "idle"]
  /\ op' = [r \in Clients |-> "apply"]
  /\ copy' = [r \in Clients |-> Blank]
  /\ Queue!Recover
  /\ stage' = [j \in Ids |-> "start"]
  /\ read' = [j \in Ids |-> Blank]
  /\ unit' = [j \in Ids |-> "none"]
  /\ untold' = untold \cup UNION {Due(j) : j \in Ids}
  /\ UNCHANGED <<row, host, kind, faults>>

-----------------------------------------------------------------------------
JobStep(j) ==
  \/ Begin(j) \/ Fetch(j) \/ FetchNothing(j) \/ SiteFail(j) \/ Abandon(j)
  \/ Evict(j) \/ Release(j) \/ WriteFiles(j) \/ ReloadServices(j) \/ ReloadFails(j)
  \/ SaveApplied(j) \/ Unlink(j) \/ ReloadUnlinked(j) \/ ReloadUnlinkedFails(j)
  \/ DeleteSite(j) \/ RowVanished(j) \/ Finish(j)

Answer(r) == Save(r) \/ Refuse(r) \/ Submit(r) \/ SubmitFails(r)

Next ==
  \/ \E r \in Clients : Create(r) \/ Load(r) \/ Answer(r)
  \/ Reapply \/ ApplyWebmail \/ RemoveOwner
  \/ \E j \in Ids : JobStep(j)
  \/ NginxLoads \/ \E b \in Branches : MasterLoads(b)
  \/ Restart

Spec == Init /\ [][Next]_vars

(* A request is answered, and a job that may run is run to its end (shown  *)
(* of the queue by JobQueue!Progress).                                     *)
Fairness == /\ \A r \in Clients : WF_vars(Answer(r))
            /\ \A j \in Ids : WF_vars(JobStep(j))

FairSpec == Spec /\ Fairness

-----------------------------------------------------------------------------
(* Properties *)

(* Type invariant. *)
TypeOK ==
  /\ row \in Rows
  /\ vhost \in Confs \cup {"stub", "none"} /\ file \in Branches \cup {"none"}
  /\ nginx \in {"current", "stale", "told"} /\ pool \in Branches \cup {"none"}
  /\ told \subseteq Branches /\ refused \subseteq Branches /\ untold \subseteq Branches
  /\ pc \in [Clients -> {"idle", "loaded", "saved"}]
  /\ op \in [Clients -> {"apply", "delete"}] /\ copy \in [Clients -> Rows]
  /\ state \in [Ids -> Queue!States]
  /\ key \in [Ids -> LockKeys \cup {NoKey}] /\ accepted \in 0..MaxJobs
  /\ kind \in [Ids -> Kinds] /\ stage \in [Ids -> Stages] /\ read \in [Ids -> Rows]
  /\ unit \in [Ids -> Branches \cup {"none"}]
  /\ restarts \in 0..MaxRestarts /\ faults \in 0..MaxFaults /\ slip \in {0, 1}

(* Of a site that does not exist no file is left on the host, whatever     *)
(* jobs were still waiting when it was deleted and however often they were *)
(* cut off: a job that finds no row must not bring the site back.          *)
GoneHasNoFiles == ~Exists => vhost = "none" /\ file = "none"

Quiet == /\ \A r \in Clients : pc[r] = "idle"
         /\ \A j \in Ids : state[j] \in {"none", "ended"}

(* Once requests and jobs have come to rest, the files on the host are     *)
(* what the row says ("The panel is the source of truth",                  *)
(* docs/en/01-architecture.md): those of an active site's settings, or the *)
(* 503 page and no pool of a suspended one; nginx serves them or has been  *)
(* told to; and the branch's master listens, has been told to, or tried    *)
(* and found the socket taken, which the code does not notice. No site is  *)
(* left "pending" or "deleting", except after a lost write.                *)
RestMatches ==
  Quiet /\ slip = 0 =>
    /\ row.status \notin {"pending", "deleting"}
    /\ row.status = "active" =>
         /\ vhost = row.conf /\ file = Branch[row.conf]
         /\ pool = file \/ file \in told \cup refused
    /\ row.status = "suspended" => vhost = "stub" /\ file = "none"
    /\ row.status \in {"active", "suspended"} => nginx # "stale"

(* A master whose pool's file was taken away does not keep the socket: it  *)
(* has been told, or a job is about to tell it (the comment at             *)
(* ops_sites.go:905: the old branch's socket is to be let go before the    *)
(* new one tries to take it). The exceptions are in untold: a suspended    *)
(* site's own master, and a job that failed or was cut off before it told. *)
HolderIsTold ==
  pool \notin {file, "none"} => pool \in told \cup untold \cup {unit[j] : j \in Ids}

(* A site whose removal was accepted goes, or shows an error, also when an *)
(* older job marks it active again meanwhile.                              *)
DeleteEnds ==
  \A j \in Ids :
    kind[j] = "delete" /\ state[j] = "waiting" ~> row.status \in {"gone", "error"} \/ slip = 1

-----------------------------------------------------------------------------
(* What the repository says and the code does not do *)

(* A change of settings that was saved is what the job builds the site     *)
(* from (docs/en/01-architecture.md, the apply pipeline): the job itself   *)
(* does not change them.                                                   *)
JobsKeepSettings ==
  [][\A j \in Ids : stage[j] = "applied" /\ stage'[j] = "saved" => row'.conf = row.conf]_vars
=============================================================================
