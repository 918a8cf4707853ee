-------------------------- MODULE SiteLifecycleProofs --------------------------
(***************************************************************************)
(* Proofs about SiteLifecycle, for any number of clients, settings, PHP    *)
(* branches, jobs, restarts and failing calls.                             *)
(***************************************************************************)
EXTENDS SiteLifecycle, TLAPS

USE KeysAssumption, ConfsAssumption, HostAssumption, LimitsAssumption
USE DEF Ids, LockKeys, Due, TellUnit, MasterLoads, MasterOpens, MasterIsRefused, MasterCloses,
     MasterActs

-----------------------------------------------------------------------------
(* Types, part by part: the row and the requests, the host, the jobs.      *)

RowType ==
  /\ row \in Rows
  /\ pc \in [Clients -> {"idle", "loaded", "saved"}]
  /\ op \in [Clients -> {"apply", "delete"}] /\ copy \in [Clients -> Rows]

HostType ==
  /\ vhost \in Confs \cup {"stub", "none"} /\ file \in Branches \cup {"none"}
  /\ nginx \in {"current", "stale", "told"} /\ pool \in Branches \cup {"none"}
  /\ told \subseteq Branches /\ refused \subseteq Branches

QueueType ==
  /\ state \in [Ids -> Queue!States]
  /\ key \in [Ids -> LockKeys \cup {NoKey}] /\ accepted \in 0..MaxJobs
  /\ kind \in [Ids -> Kinds] /\ stage \in [Ids -> Stages]

JobType ==
  /\ read \in [Ids -> Rows] /\ unit \in [Ids -> Branches \cup {"none"}]
  /\ untold \subseteq Branches

LimitType ==
  restarts \in 0..MaxRestarts /\ faults \in 0..MaxFaults /\ slip \in {0, 1}

Types == RowType /\ HostType /\ QueueType /\ JobType /\ LimitType

LEMMA TypeParts == Types <=> TypeOK
BY DEF Types, TypeOK, RowType, HostType, QueueType, JobType, LimitType

LEMMA BlankType == Blank \in Rows
<1>1. (CHOOSE c \in Confs : TRUE) \in Confs  BY Zenon
<1> QED  BY <1>1 DEF Blank, Rows, Statuses

(* What a request enqueues is a job. *)
LEMMA OpIsKind == ASSUME Types PROVE \A r \in Clients : op[r] \in Kinds \ {"removeOwner"}
BY DEF Types, RowType, Kinds

(* What a job's return and a new job do to the queue and the job's locals. *)
LEMMA ReturnType ==
  ASSUME QueueType, JobType, NEW j \in Ids, Return(j)
  PROVE  QueueType' /\ JobType'
<1>1. QueueType'
  BY DEF QueueType, Return, Queue!End, Queue!States, Stages
<1>2. JobType'  BY BlankType DEF JobType, Return
<1> QED  BY <1>1, <1>2

LEMMA AcceptType ==
  ASSUME QueueType, NEW what \in Kinds, NEW k \in LockKeys, EnqueueAs(what, k)
  PROVE  QueueType'
BY DEF QueueType, EnqueueAs, Queue!Accept, Queue!States

LEMMA ReachType ==
  ASSUME QueueType, NEW j \in Ids, NEW s \in Stages, Reach(j, s)
  PROVE  QueueType'
BY DEF QueueType, Reach, queue

LEMMA FailedRowType ==
  ASSUME NEW j, row \in Rows
  PROVE  FailedRow(j) \in Rows
BY DEF FailedRow, Rows, Statuses

LEMMA RequestType ==
  ASSUME Types, NEW r \in Clients, Create(r) \/ Load(r) \/ Answer(r)
  PROVE  Types'
<1> USE DEF Types
<1>1. CASE Create(r)
  <2>1. RowType'  BY <1>1 DEF Create, RowType, Rows, Statuses
  <2> QED  BY <1>1, <2>1 DEF Create, HostType, QueueType, JobType, LimitType, host, queue, jobs,
       limits
<1>2. CASE Load(r)
  <2>1. RowType'  BY <1>2 DEF Load, RowType
  <2> QED  BY <1>2, <2>1 DEF Load, HostType, QueueType, JobType, LimitType, host, queue, jobs,
       limits
<1>3. CASE Save(r)
  <2>1. PICK o \in Ops, c \in Confs :
          /\ row' = [conf |-> c, status |-> NewStatus(o, copy[r].status)]
          /\ op' = [op EXCEPT ![r] = IF o = "delete" THEN "delete" ELSE "apply"]
    BY <1>3 DEF Save
  <2>2. copy[r].status \in Statuses  BY DEF RowType, Rows
  <2>3. NewStatus(o, copy[r].status) \in Statuses  BY <2>2 DEF NewStatus, Statuses
  <2>4. row' \in Rows  BY <2>1, <2>3 DEF Rows
  <2>5. RowType'  BY <1>3, <2>1, <2>4, BlankType DEF Save, RowType
  <2> QED  BY <1>3, <2>5 DEF Save, HostType, QueueType, JobType, LimitType, host, queue, jobs,
       limits
<1>4. CASE Refuse(r)
  <2>1. RowType'  BY <1>4, BlankType DEF Refuse, RowType
  <2> QED  BY <1>4, <2>1 DEF Refuse, HostType, QueueType, JobType, LimitType, host, queue, jobs,
       limits
<1>5. CASE Submit(r)
  <2>1. RowType'  BY <1>5 DEF Submit, RowType
  <2>2. QueueType'  BY <1>5, AcceptType, OpIsKind DEF Submit
  <2> QED  BY <1>5, <2>1, <2>2 DEF Submit, EnqueueAs, HostType, JobType, LimitType, host, limits
<1>6. CASE SubmitFails(r)
  <2>1. RowType'  BY <1>6 DEF SubmitFails, RowType
  <2>2. LimitType'  BY <1>6 DEF SubmitFails, LimitType
  <2> QED  BY <1>6, <2>1, <2>2 DEF SubmitFails, HostType, QueueType, JobType, host, queue, jobs
<1> QED  BY <1>1, <1>2, <1>3, <1>4, <1>5, <1>6 DEF Answer

LEMMA OutsideType ==
  ASSUME Types, Reapply \/ ApplyWebmail \/ RemoveOwner
  PROVE  Types'
<1> USE DEF Types, Kinds
<1>1. QueueType'  BY AcceptType DEF Reapply, ApplyWebmail, RemoveOwner
<1> QED  BY <1>1 DEF Reapply, ApplyWebmail, RemoveOwner, EnqueueAs, RowType, HostType, JobType,
                    LimitType, host, requests, limits

(* Steps after which the handler has returned. *)
LEMMA ReturningType ==
  ASSUME Types, NEW j \in Ids,
         FetchNothing(j) \/ SiteFail(j) \/ Abandon(j) \/ ReloadFails(j)
                \/ ReloadUnlinkedFails(j) \/ RowVanished(j) \/ Finish(j)
  PROVE  Types'
<1> USE DEF Types
<1>1. Return(j)
  BY DEF FetchNothing, SiteFail, Abandon, ReloadFails, ReloadUnlinkedFails, RowVanished, Finish
<1>2. QueueType' /\ JobType'  BY <1>1, ReturnType
<1>3. row' = row \/ row' = FailedRow(j)
  BY DEF FetchNothing, SiteFail, Abandon, ReloadFails, ReloadUnlinkedFails, RowVanished, Finish
<1>4. row' \in Rows  BY <1>3, FailedRowType DEF RowType
<1>5. UNCHANGED requests
  BY DEF FetchNothing, SiteFail, Abandon, ReloadFails, ReloadUnlinkedFails, RowVanished, Finish
<1>6. RowType'  BY <1>4, <1>5 DEF RowType, requests
<1>7. HostType'
  <2>1. CASE ReloadFails(j)
    <3>1. Reloaded(j) \subseteq Branches  BY DEF Reloaded, Wanted, JobType, Rows
    <3> QED  BY <2>1, <3>1 DEF ReloadFails, HostType, Notified
  <2>2. CASE ReloadUnlinkedFails(j)  BY <2>2 DEF ReloadUnlinkedFails, HostType, Notified
  <2>3. CASE UNCHANGED host  BY <2>3 DEF HostType, host
  <2> QED  BY <2>1, <2>2, <2>3 DEF FetchNothing, SiteFail, Abandon, RowVanished, Finish
<1>8. LimitType'
  BY DEF FetchNothing, SiteFail, Abandon, ReloadFails, ReloadUnlinkedFails, RowVanished, Finish,
       LimitType, limits
<1> QED  BY <1>2, <1>6, <1>7, <1>8

LEMMA WorkingType ==
  ASSUME Types, NEW j \in Ids,
         Begin(j) \/ Fetch(j) \/ Evict(j) \/ Release(j) \/ WriteFiles(j) \/ ReloadServices(j)
           \/ SaveApplied(j) \/ Unlink(j) \/ ReloadUnlinked(j) \/ DeleteSite(j)
  PROVE  Types'
<1> USE DEF Types
<1>1. Wanted(j) \in Branches  BY DEF Wanted, JobType, Rows
<1>2. CASE Begin(j)
  <2>1. QueueType'  BY <1>2 DEF Begin, Queue!Begin, Queue!States, QueueType, jobs
  <2> QED  BY <1>2, <2>1 DEF Begin, RowType, HostType, JobType, LimitType, host, requests, jobs,
       limits
<1>3. CASE Fetch(j)
  <2>1. QueueType' /\ JobType'  BY <1>3 DEF Fetch, QueueType, JobType, RowType, Stages, queue
  <2> QED  BY <1>3, <2>1 DEF Fetch, RowType, HostType, LimitType, host, requests, limits
<1>4. CASE Evict(j)
  <2>1. HostType'  BY <1>4 DEF Evict, HostType
  <2>2. QueueType'  BY <1>4 DEF Evict, QueueType, Stages, queue
  <2>3. JobType'  BY <1>1, <1>4 DEF Evict, JobType, HostType
  <2> QED  BY <1>4, <2>1, <2>2, <2>3 DEF Evict, RowType, LimitType, requests, limits
<1>5. CASE Release(j)
  <2>1. QueueType'  BY <1>5 DEF Release, QueueType, Stages, queue
  <2>2. HostType' /\ JobType'  BY <1>5 DEF Release, HostType, JobType
  <2> QED  BY <1>5, <2>1, <2>2 DEF Release, RowType, LimitType, requests, limits
<1>6. CASE WriteFiles(j)
  <2>1. QueueType'  BY <1>6, ReachType DEF WriteFiles, Stages
  <2>2. read[j].conf \in Confs  BY DEF JobType, Rows
  <2>3. HostType'  BY <1>1, <1>6, <2>2 DEF WriteFiles, HostType, Outdated
  <2> QED  BY <1>6, <2>1, <2>3 DEF WriteFiles, Reach, RowType, JobType, LimitType, requests, limits
<1>7. CASE ReloadServices(j)
  <2>1. QueueType'  BY <1>7, ReachType DEF ReloadServices, Stages
  <2>2. HostType'  BY <1>1, <1>7 DEF ReloadServices, HostType, Notified, Reloaded
  <2> QED  BY <1>7, <2>1, <2>2 DEF ReloadServices, Reach, RowType, JobType, LimitType, requests,
       limits
<1>8. CASE SaveApplied(j)
  <2>1. QueueType'  BY <1>8, ReachType DEF SaveApplied, Stages
  <2>2. row' \in Rows  BY <1>8 DEF SaveApplied, JobType, Rows, Statuses
  <2> QED  BY <1>8, <2>1, <2>2 DEF SaveApplied, Reach, RowType, HostType, JobType, LimitType,
       host, requests, limits
<1>9. CASE Unlink(j)
  <2>1. QueueType'  BY <1>9 DEF Unlink, QueueType, Stages, queue
  <2>2. HostType' /\ JobType'  BY <1>9 DEF Unlink, HostType, JobType, Outdated
  <2> QED  BY <1>9, <2>1, <2>2 DEF Unlink, RowType, LimitType, requests, limits
<1>10. CASE ReloadUnlinked(j)
  <2>1. QueueType'  BY <1>10 DEF ReloadUnlinked, QueueType, Stages, queue
  <2>2. HostType' /\ JobType'  BY <1>10 DEF ReloadUnlinked, HostType, JobType, Notified
  <2> QED  BY <1>10, <2>1, <2>2 DEF ReloadUnlinked, RowType, LimitType, requests, limits
<1>11. CASE DeleteSite(j)
  <2>1. QueueType'  BY <1>11, ReachType DEF DeleteSite, Stages
  <2>2. row' \in Rows  BY <1>11 DEF DeleteSite, RowType, Rows, Statuses
  <2> QED  BY <1>11, <2>1, <2>2 DEF DeleteSite, Reach, RowType, HostType, JobType, LimitType,
       host, requests, limits
<1> QED  BY <1>2, <1>3, <1>4, <1>5, <1>6, <1>7, <1>8, <1>9, <1>10, <1>11

LEMMA OthersType ==
  ASSUME Types, NginxLoads \/ (\E b \in Branches : MasterLoads(b)) \/ Restart
  PROVE  Types'
<1> USE DEF Types
<1>1. CASE NginxLoads
  BY <1>1 DEF NginxLoads, RowType, HostType, QueueType, JobType, LimitType, requests, queue,
       jobs, limits
<1>2. CASE \E b \in Branches : MasterLoads(b)
  BY <1>2 DEF MasterLoads, RowType, HostType, QueueType, JobType, LimitType, requests, queue,
       jobs, limits
<1>3. CASE Restart
  <2>1. RowType'  BY <1>3, BlankType DEF Restart, RowType
  <2>2. QueueType'  BY <1>3 DEF Restart, Queue!Recover, Queue!Ids, Queue!States, QueueType, Stages
  <2>3. JobType'  BY <1>3, BlankType DEF Restart, JobType
  <2>4. LimitType'  BY <1>3 DEF Restart, LimitType
  <2> QED  BY <1>3, <2>1, <2>2, <2>3, <2>4 DEF Restart, HostType, host
<1> QED  BY <1>1, <1>2, <1>3

LEMMA InitType == Init => Types
<1> SUFFICES ASSUME Init PROVE Types  OBVIOUS
<1> USE BlankType DEF Init
<1>1. RowType  BY DEF RowType
<1>2. HostType  BY DEF HostType
<1>3. QueueType  BY DEF QueueType, Queue!Init, Queue!Ids, Queue!States, Kinds, Stages
<1>4. JobType /\ LimitType  BY DEF JobType, LimitType
<1> QED  BY <1>1, <1>2, <1>3, <1>4 DEF Types

LEMMA StepType == Types /\ [Next]_vars => Types'
<1> SUFFICES ASSUME Types, [Next]_vars PROVE Types'  OBVIOUS
<1>1. CASE \E r \in Clients : Create(r) \/ Load(r) \/ Answer(r)  BY <1>1, RequestType
<1>2. CASE Reapply \/ ApplyWebmail \/ RemoveOwner  BY <1>2, OutsideType
<1>3. CASE \E j \in Ids : JobStep(j)  BY <1>3, ReturningType, WorkingType DEF JobStep
<1>4. CASE NginxLoads \/ (\E b \in Branches : MasterLoads(b)) \/ Restart
  BY <1>4, OthersType
<1>5. CASE UNCHANGED vars
  BY <1>5 DEF vars, Types, RowType, HostType, QueueType, JobType, LimitType
<1> QED  BY <1>1, <1>2, <1>3, <1>4, <1>5 DEF Next

(* The type invariant. *)
THEOREM TypeCorrect == Spec => []TypeOK
<1>1. Spec => []Types  BY InitType, StepType, PTL DEF Spec
<1> QED  BY <1>1, TypeParts, PTL

-----------------------------------------------------------------------------
(* Of a site that does not exist no file is left on the host. Alone the    *)
(* property is not inductive: it rests on the queue running the site's     *)
(* jobs one at a time (Serial), so that between a job's reading of the row *)
(* and its last write nobody else deletes the row or writes a file         *)
(* (InHand, Removing), and on requests saving only rows they have read.    *)

Keyed == \A j \in Ids : state[j] # "none" => key[j] = DomainKey
Fresh == \A j \in Ids : j > accepted => state[j] = "none"
Resting == \A j \in Ids : state[j] # "active" => stage[j] = "start"
OneActive == \A i, j \in Ids : state[i] = "active" /\ state[j] = "active" => i = j

Serial == Keyed /\ Fresh /\ Resting /\ OneActive

InHand ==
  \A j \in Ids :
    state[j] = "active" /\ stage[j] \notin {"start", "saved"} => Exists

Removing ==
  \A j \in Ids : At(j, "unlinked") \/ At(j, "removed") => vhost = "none" /\ file = "none"

LoadedLive == \A r \in Clients : pc[r] = "loaded" => copy[r].status \notin {"new", "gone"}

HostInv == InHand /\ Removing /\ LoadedLive /\ GoneHasNoFiles

(* Any step of the queue keeps Serial, given what the step does to stage.  *)
LEMMA AcceptSerial ==
  ASSUME Types, Serial, NEW what \in Kinds, EnqueueAs(what, DomainKey)
  PROVE  Serial'
<1> USE DEF Types, QueueType, Serial, EnqueueAs, Queue!Accept
<1>1. accepted + 1 \in Ids /\ state[accepted + 1] = "none"
  BY LimitsAssumption DEF Fresh
<1>2. Keyed'  BY DEF Keyed
<1>3. Fresh'  BY DEF Fresh
<1>4. Resting'  BY <1>1 DEF Resting
<1>5. OneActive'  BY DEF OneActive
<1> QED  BY <1>2, <1>3, <1>4, <1>5

LEMMA ReturnSerial ==
  ASSUME Types, Serial, NEW j \in Ids, Return(j)
  PROVE  Serial'
<1> USE DEF Types, QueueType, Serial, Return, Queue!End
<1>1. Keyed'  BY DEF Keyed
<1>2. Fresh'  BY DEF Fresh
<1>3. Resting'  BY DEF Resting
<1>4. OneActive'  BY DEF OneActive
<1> QED  BY <1>1, <1>2, <1>3, <1>4

LEMMA ReachSerial ==
  ASSUME Types, Serial, NEW j \in Ids, state[j] = "active", NEW s,
         stage' = [stage EXCEPT ![j] = s], UNCHANGED queue
  PROVE  Serial'
BY DEF Types, QueueType, Serial, Keyed, Fresh, Resting, OneActive, queue

LEMMA IdleSerial ==
  ASSUME Serial, UNCHANGED queue, UNCHANGED stage
  PROVE  Serial'
BY DEF Serial, Keyed, Fresh, Resting, OneActive, queue

LEMMA BeginSerial ==
  ASSUME Types, Serial, NEW j \in Ids, Begin(j)
  PROVE  Serial'
<1> USE DEF Types, QueueType, Serial, Begin, Queue!Begin, jobs
<1>1. \A i \in Ids : state[i] # "active"
  BY KeysAssumption DEF Keyed, Queue!SameKey, Queue!Ids
<1>2. Keyed' /\ Fresh' /\ Resting'  BY DEF Keyed, Fresh, Resting
<1>3. OneActive'  BY <1>1 DEF OneActive
<1> QED  BY <1>2, <1>3

LEMMA RestartSerial ==
  ASSUME Types, Serial, Restart
  PROVE  Serial'
<1> USE DEF Types, QueueType, Serial, Restart, Queue!Recover, Queue!Ids
<1>1. Keyed' /\ Fresh' /\ Resting'  BY DEF Keyed, Fresh, Resting
<1>2. OneActive'  BY DEF OneActive
<1> QED  BY <1>1, <1>2

LEMMA StepSerial ==
  ASSUME Types, Serial, Outside = {}, [Next]_vars
  PROVE  Serial'
<1>1. CASE Reapply  BY <1>1, AcceptSerial DEF Reapply, Kinds
<1>2. CASE ApplyWebmail \/ RemoveOwner  BY <1>2 DEF ApplyWebmail, RemoveOwner
<1>3. CASE \E r \in Clients : Submit(r)
  <2>1. PICK what \in Kinds : EnqueueAs(what, DomainKey)  BY <1>3, OpIsKind DEF Submit
  <2> QED  BY <2>1, AcceptSerial
<1>4. CASE \E r \in Clients : Create(r) \/ Load(r) \/ Save(r) \/ Refuse(r) \/ SubmitFails(r)
  BY <1>4, IdleSerial DEF Create, Load, Save, Refuse, SubmitFails, jobs
<1>5. CASE \E j \in Ids : JobStep(j)
  <2> SUFFICES ASSUME NEW j \in Ids, JobStep(j) PROVE Serial'  BY <1>5
  <2>1. CASE Begin(j)  BY <2>1, BeginSerial
  <2>2. CASE Return(j)  BY <2>2, ReturnSerial
  <2>3. CASE /\ Fetch(j) \/ Evict(j) \/ Release(j) \/ WriteFiles(j) \/ ReloadServices(j)
                \/ SaveApplied(j) \/ Unlink(j) \/ ReloadUnlinked(j) \/ DeleteSite(j)
    BY <2>3, ReachSerial DEF At, Reach, Fetch, Evict, Release, WriteFiles, ReloadServices,
          SaveApplied, Unlink, ReloadUnlinked, DeleteSite
  <2> QED
    BY <2>1, <2>2, <2>3 DEF JobStep, FetchNothing, SiteFail, Abandon, ReloadFails,
         ReloadUnlinkedFails,
          RowVanished, Finish
<1>6. CASE NginxLoads \/ \E b \in Branches : MasterLoads(b)
  BY <1>6, IdleSerial DEF NginxLoads, MasterLoads, jobs
<1>7. CASE Restart  BY <1>7, RestartSerial
<1>8. CASE UNCHANGED vars  BY <1>8, IdleSerial DEF vars, queue
<1> QED  BY <1>1, <1>2, <1>3, <1>4, <1>5, <1>6, <1>7, <1>8 DEF Next, Answer

(* Only DeleteSite takes a row away. *)
LEMMA RowStays ==
  ASSUME Types, LoadedLive, [Next]_vars, Exists, \A j \in Ids : ~DeleteSite(j)
  PROVE  Exists'
<1> USE DEF Exists
<1>1. CASE \E r \in Clients : Save(r)
  <2>1. PICK r \in Clients : Save(r)  BY <1>1
  <2>2. PICK o \in Ops, c \in Confs :
          row' = [conf |-> c, status |-> NewStatus(o, copy[r].status)]
    BY <2>1 DEF Save
  <2>3. copy[r].status \notin {"new", "gone"}  BY <2>1 DEF Save, LoadedLive
  <2>4. NewStatus(o, copy[r].status) \notin {"new", "gone"}  BY <2>3 DEF NewStatus
  <2> QED  BY <2>2, <2>4
<1>2. CASE \E r \in Clients : Create(r) \/ Load(r) \/ Refuse(r) \/ Submit(r) \/ SubmitFails(r)
  BY <1>2 DEF Create, Load, Refuse, Submit, SubmitFails
<1>3. CASE Reapply \/ ApplyWebmail \/ RemoveOwner  BY <1>3 DEF Reapply, ApplyWebmail, RemoveOwner
<1>4. CASE \E j \in Ids : JobStep(j)
  <2> SUFFICES ASSUME NEW j \in Ids, JobStep(j) PROVE Exists'  BY <1>4
  <2>1. CASE row' = FailedRow(j)
    <3>1. row \in Rows  BY DEF Types, RowType
    <3> QED  BY <2>1, <3>1 DEF FailedRow, Rows
  <2>2. CASE SaveApplied(j)
    <3>1. read[j] \in Rows  BY DEF Types, JobType
    <3> QED  BY <2>2, <3>1 DEF SaveApplied, Rows
  <2>3. CASE row' = row  BY <2>3
  <2> QED
    BY <2>1, <2>2, <2>3 DEF JobStep, Begin, Fetch, FetchNothing, SiteFail, Abandon, Evict,
       Release, WriteFiles, ReloadServices, ReloadFails, ReloadUnlinkedFails, Unlink, ReloadUnlinked, RowVanished, Finish
<1>5. CASE NginxLoads \/ (\E b \in Branches : MasterLoads(b)) \/ Restart
  BY <1>5 DEF NginxLoads, MasterLoads, Restart
<1>6. CASE UNCHANGED vars  BY <1>6 DEF vars
<1> QED  BY <1>1, <1>2, <1>3, <1>4, <1>5, <1>6 DEF Next, Answer

(* A handler is past its reading of the row only if it was before, or has  *)
(* just read it.                                                           *)
LEMMA HandFromHand ==
  ASSUME Types, Serial, Outside = {}, [Next]_vars, NEW i \in Ids, ~Fetch(i),
         state'[i] = "active", stage'[i] \notin {"start", "saved"}
  PROVE  state[i] = "active" /\ stage[i] \notin {"start", "saved"}
<1> USE DEF Types, QueueType
<1>1. CASE UNCHANGED <<queue, stage>>  BY <1>1 DEF queue
<1>2. CASE \E what \in Kinds, k \in LockKeys : EnqueueAs(what, k)
  BY <1>2 DEF EnqueueAs, Queue!Accept
<1>3. CASE \E j \in Ids : Begin(j)
  BY <1>3 DEF Begin, Queue!Begin, jobs, Serial, Resting
<1>4. CASE \E j \in Ids : Return(j)
  BY <1>4 DEF Return, Queue!End
<1>5. CASE \E j \in Ids : state[j] = "active" /\ stage[j] \notin {"start", "saved"}
                          /\ UNCHANGED queue /\ \E s : stage' = [stage EXCEPT ![j] = s]
  BY <1>5 DEF queue
<1>6. CASE \E j \in Ids : Fetch(j)
  BY <1>6 DEF Fetch, queue
<1>7. CASE Restart  BY <1>7 DEF Restart, Queue!Recover, Queue!Ids
<1>8. CASE \E r \in Clients : Create(r) \/ Load(r) \/ Answer(r)
  BY <1>1, <1>2, <1>8, OpIsKind
  DEF Answer, Create, Load, Save, Refuse, Submit, SubmitFails, jobs
<1>9. CASE Reapply \/ ApplyWebmail \/ RemoveOwner
  BY <1>2, <1>9 DEF Reapply, ApplyWebmail, RemoveOwner, Kinds
<1>10. CASE \E j \in Ids : JobStep(j)
  <2> SUFFICES ASSUME NEW j \in Ids, JobStep(j)
               PROVE  state[i] = "active" /\ stage[i] \notin {"start", "saved"}
    BY <1>10
  <2>1. CASE FetchNothing(j) \/ SiteFail(j) \/ Abandon(j) \/ ReloadFails(j)
         \/ ReloadUnlinkedFails(j) \/ RowVanished(j) \/ Finish(j)
    BY <1>4, <2>1 DEF FetchNothing, SiteFail, Abandon, ReloadFails, ReloadUnlinkedFails,
         RowVanished, Finish
  <2>2. CASE Evict(j) \/ Release(j) \/ WriteFiles(j) \/ ReloadServices(j) \/ SaveApplied(j)
             \/ Unlink(j) \/ ReloadUnlinked(j) \/ DeleteSite(j)
    BY <1>5, <2>2 DEF At, Reach, Evict, Release, WriteFiles, ReloadServices, SaveApplied,
       Unlink, ReloadUnlinked, DeleteSite
  <2> QED  BY <1>3, <1>6, <2>1, <2>2 DEF JobStep
<1>11. CASE NginxLoads \/ \E b \in Branches : MasterLoads(b)
  BY <1>1, <1>11 DEF NginxLoads, MasterLoads, jobs
<1>12. CASE UNCHANGED vars  BY <1>1, <1>12 DEF vars, queue
<1> QED  BY <1>7, <1>8, <1>9, <1>10, <1>11, <1>12 DEF Next

LEMMA StepInHand ==
  ASSUME Types, Serial, HostInv, Outside = {}, [Next]_vars
  PROVE  InHand'
<1> SUFFICES ASSUME NEW i \in Ids, state'[i] = "active", stage'[i] \notin {"start", "saved"}
             PROVE  Exists'
  BY DEF InHand
<1>1. CASE Fetch(i)  BY <1>1 DEF Fetch, Exists
<1>2. CASE ~Fetch(i)
  <2>1. state[i] = "active" /\ stage[i] \notin {"start", "saved"}  BY <1>2, HandFromHand
  <2>2. Exists  BY <2>1 DEF HostInv, InHand
  <2>3. \A j \in Ids : ~DeleteSite(j)
    <3> SUFFICES ASSUME NEW j \in Ids, DeleteSite(j) PROVE FALSE  OBVIOUS
    <3>1. i = j  BY <2>1 DEF DeleteSite, At, Serial, OneActive
    <3>2. stage'[j] = "saved"  BY DEF DeleteSite, Reach, Types, QueueType
    <3> QED  BY <3>1, <3>2
  <2> QED  BY <2>2, <2>3, RowStays DEF HostInv
<1> QED  BY <1>1, <1>2

(* Who writes the files: a job at its work, never one that removes them. *)
LEMMA FilesChange ==
  ASSUME [Next]_vars
  PROVE  \/ UNCHANGED <<vhost, file>>
         \/ vhost' = "none" /\ file' = "none"
         \/ \E j \in Ids : Evict(j) \/ WriteFiles(j)
<1>1. CASE \E r \in Clients : Create(r) \/ Load(r) \/ Answer(r)
  BY <1>1 DEF Answer, Create, Load, Save, Refuse, Submit, SubmitFails, host
<1>2. CASE Reapply \/ ApplyWebmail \/ RemoveOwner
  BY <1>2 DEF Reapply, ApplyWebmail, RemoveOwner, host
<1>3. CASE \E j \in Ids : JobStep(j)
  BY <1>3 DEF JobStep, Begin, Fetch, FetchNothing, SiteFail, Abandon, Release, ReloadServices,
     ReloadFails, ReloadUnlinkedFails, SaveApplied, Unlink, ReloadUnlinked, DeleteSite, RowVanished, Finish, host
<1>4. CASE NginxLoads \/ (\E b \in Branches : MasterLoads(b)) \/ Restart
  BY <1>4 DEF NginxLoads, MasterLoads, Restart, host
<1>5. CASE UNCHANGED vars  BY <1>5 DEF vars
<1> QED  BY <1>1, <1>2, <1>3, <1>4, <1>5 DEF Next

(* A removing job gets there by removing. *)
LEMMA RemovalFromRemoval ==
  ASSUME Types, Serial, Outside = {}, [Next]_vars, NEW i \in Ids,
         state'[i] = "active", stage'[i] \in {"unlinked", "removed"}
  PROVE  Unlink(i) \/ At(i, "unlinked") \/ At(i, "removed")
<1> USE DEF Types, QueueType, At
<1>1. CASE UNCHANGED <<queue, stage>>  BY <1>1 DEF queue
<1>2. CASE \E what \in Kinds, k \in LockKeys : EnqueueAs(what, k)
  BY <1>2 DEF EnqueueAs, Queue!Accept
<1>3. CASE \E j \in Ids : Begin(j)
  BY <1>3 DEF Begin, Queue!Begin, jobs, Serial, Resting
<1>4. CASE \E j \in Ids : Return(j)
  BY <1>4 DEF Return, Queue!End
<1>5. CASE Restart  BY <1>5 DEF Restart, Queue!Recover, Queue!Ids
<1>6. CASE \E r \in Clients : Create(r) \/ Load(r) \/ Answer(r)
  BY <1>1, <1>2, <1>6, OpIsKind
  DEF Answer, Create, Load, Save, Refuse, Submit, SubmitFails, jobs
<1>7. CASE Reapply \/ ApplyWebmail \/ RemoveOwner
  BY <1>2, <1>7 DEF Reapply, ApplyWebmail, RemoveOwner, Kinds
<1>8. CASE \E j \in Ids : JobStep(j)
  <2> SUFFICES ASSUME NEW j \in Ids, JobStep(j)
               PROVE  Unlink(i) \/ At(i, "unlinked") \/ At(i, "removed")
    BY <1>8
  <2>1. CASE FetchNothing(j) \/ SiteFail(j) \/ Abandon(j) \/ ReloadFails(j)
         \/ ReloadUnlinkedFails(j) \/ RowVanished(j) \/ Finish(j)
    BY <1>4, <2>1 DEF FetchNothing, SiteFail, Abandon, ReloadFails, ReloadUnlinkedFails,
         RowVanished, Finish
  <2>2. CASE Fetch(j) \/ Evict(j) \/ Release(j) \/ WriteFiles(j) \/ ReloadServices(j)
             \/ SaveApplied(j) \/ DeleteSite(j)
    BY <2>2 DEF Reach, Fetch, Evict, Release, WriteFiles, ReloadServices, SaveApplied,
       DeleteSite, queue
  <2>3. CASE Unlink(j)  BY <2>3 DEF Unlink, Reach, queue
  <2>4. CASE ReloadUnlinked(j)  BY <2>4 DEF ReloadUnlinked, Reach, queue
  <2> QED  BY <1>3, <2>1, <2>2, <2>3, <2>4 DEF JobStep
<1>9. CASE NginxLoads \/ \E b \in Branches : MasterLoads(b)
  BY <1>1, <1>9 DEF NginxLoads, MasterLoads, jobs
<1>10. CASE UNCHANGED vars  BY <1>1, <1>10 DEF vars, queue
<1> QED  BY <1>5, <1>6, <1>7, <1>8, <1>9, <1>10 DEF Next

LEMMA StepRemoving ==
  ASSUME Types, Serial, HostInv, Outside = {}, [Next]_vars
  PROVE  Removing'
<1> SUFFICES ASSUME NEW i \in Ids, state'[i] = "active", stage'[i] \in {"unlinked", "removed"}
             PROVE  vhost' = "none" /\ file' = "none"
  BY DEF Removing, At
<1>1. CASE Unlink(i)  BY <1>1 DEF Unlink
<1>2. CASE At(i, "unlinked") \/ At(i, "removed")
  <2>1. vhost = "none" /\ file = "none"  BY <1>2 DEF HostInv, Removing
  <2>2. \A j \in Ids : ~Evict(j) /\ ~WriteFiles(j)
    BY <1>2 DEF Evict, WriteFiles, At, Serial, OneActive
  <2> QED  BY <2>1, <2>2, FilesChange
<1> QED  BY <1>1, <1>2, RemovalFromRemoval

LEMMA StepGone ==
  ASSUME Types, Serial, HostInv, Outside = {}, [Next]_vars
  PROVE  GoneHasNoFiles'
<1> SUFFICES ASSUME ~Exists' PROVE vhost' = "none" /\ file' = "none"  BY DEF GoneHasNoFiles
<1>1. CASE \E j \in Ids : DeleteSite(j)
  BY <1>1 DEF DeleteSite, host, HostInv, Removing
<1>2. CASE \A j \in Ids : ~DeleteSite(j)
  <2>1. ~Exists  BY <1>2, RowStays DEF HostInv
  <2>2. vhost = "none" /\ file = "none"  BY <2>1 DEF HostInv, GoneHasNoFiles
  <2>3. \A j \in Ids : ~Evict(j) /\ ~WriteFiles(j)
    BY <2>1 DEF Evict, WriteFiles, At, HostInv, InHand
  <2> QED  BY <2>2, <2>3, FilesChange
<1> QED  BY <1>1, <1>2

LEMMA StepLoadedLive ==
  ASSUME Types, LoadedLive, [Next]_vars
  PROVE  LoadedLive'
<1> USE DEF LoadedLive, Types, RowType
<1>1. CASE \E r \in Clients : Load(r)  BY <1>1 DEF Load, Exists
<1>2. CASE \E r \in Clients : Create(r) \/ Answer(r)
  BY <1>2 DEF Answer, Create, Save, Refuse, Submit, SubmitFails
<1>3. CASE UNCHANGED requests  BY <1>3 DEF requests
<1>4. CASE Reapply \/ ApplyWebmail \/ RemoveOwner
  BY <1>3, <1>4 DEF Reapply, ApplyWebmail, RemoveOwner
<1>5. CASE \E j \in Ids : JobStep(j)
  BY <1>3, <1>5 DEF JobStep, Begin, Fetch, FetchNothing, SiteFail, Abandon, Evict, Release,
     WriteFiles, ReloadServices, ReloadFails, ReloadUnlinkedFails, SaveApplied, Unlink, ReloadUnlinked, DeleteSite,
     RowVanished, Finish
<1>6. CASE NginxLoads \/ \E b \in Branches : MasterLoads(b)
  BY <1>3, <1>6 DEF NginxLoads, MasterLoads
<1>7. CASE Restart  BY <1>7 DEF Restart
<1>8. CASE UNCHANGED vars  BY <1>3, <1>8 DEF vars, requests
<1> QED  BY <1>1, <1>2, <1>4, <1>5, <1>6, <1>7, <1>8 DEF Next

IInv == Types /\ Serial /\ HostInv

LEMMA InitIInv == Init => IInv
<1> SUFFICES ASSUME Init PROVE IInv  OBVIOUS
<1>1. Serial
  BY DEF Init, Queue!Init, Queue!Ids, Serial, Keyed, Fresh, Resting, OneActive
<1>2. HostInv
  BY DEF Init, Queue!Init, Queue!Ids, HostInv, InHand, Removing, At, LoadedLive, GoneHasNoFiles
<1> QED  BY <1>1, <1>2, InitType DEF IInv

LEMMA StepIInv == Outside = {} /\ IInv /\ [Next]_vars => IInv'
BY StepType, StepSerial, StepInHand, StepRemoving, StepLoadedLive, StepGone DEF IInv, HostInv

(* Where every job of the site is queued under "site:<domain>", a site     *)
(* that is gone has no file on the host: no waiting, repeated or cut-off   *)
(* job brings it back. (The run SiteOutside shows what the two callers     *)
(* outside that key do to it.)                                             *)
THEOREM GoneStaysGone == Outside = {} => (Spec => []GoneHasNoFiles)
<1> SUFFICES ASSUME Outside = {} PROVE Spec => []GoneHasNoFiles  OBVIOUS
<1>1. Init => IInv  BY InitIInv
<1>2. IInv /\ [Next]_vars => IInv'  BY StepIInv
<1>3. IInv => GoneHasNoFiles  BY DEF IInv, HostInv
<1> QED  BY <1>1, <1>2, <1>3, PTL DEF Spec

-----------------------------------------------------------------------------
(* What the host is like once requests and jobs have come to rest. A row   *)
(* that the host does not match is one that somebody still has work for    *)
(* (Owed): each request that writes the row enqueues a job, and a job ends *)
(* with the row it has made true, with "error", or with a row that is      *)
(* gone. That job's files are those of the row it read and the daemons     *)
(* have been told of them (Carried), since the site's jobs run one at a    *)
(* time.                                                                   *)

Written(r) == IF r.status = "suspended" THEN vhost = "stub" /\ file = "none"
                                        ELSE vhost = r.conf /\ file = Branch[r.conf]
Served(r) == /\ Written(r) /\ nginx # "stale"
             /\ r.status # "suspended" => pool = file \/ file \in told \cup refused

NoOwner == \A j \in Ids : kind[j] # "removeOwner"

Carried ==
  \A j \in Ids :
    /\ (At(j, "evicting") \/ At(j, "evicted")) /\ Stub(j) => file = "none"
    /\ At(j, "written") => Written(read[j])
    /\ At(j, "applied") => Served(read[j])

Working(j) == state[j] = "waiting" \/ (state[j] = "active" /\ stage[j] # "saved")
Owed == (\E r \in Clients : pc[r] = "saved") \/ \E j \in Ids : Working(j)

Matches == /\ row.status \notin {"pending", "deleting"}
           /\ row.status \in {"active", "suspended"} => Served(row)

Settled == slip = 0 /\ ~Owed => Matches

RestInv == NoOwner /\ Carried /\ Settled

LEMMA StepNoOwner ==
  ASSUME Types, NoOwner, Outside = {}, [Next]_vars
  PROVE  NoOwner'
<1> USE DEF NoOwner
<1>1. CASE UNCHANGED kind  BY <1>1
<1>2. CASE \E what \in Kinds \ {"removeOwner"}, k \in LockKeys : EnqueueAs(what, k)
  BY <1>2 DEF EnqueueAs, Types, QueueType
<1>3. CASE \E r \in Clients : Create(r) \/ Load(r) \/ Answer(r)
  BY <1>1, <1>2, <1>3, OpIsKind
  DEF Answer, Create, Load, Save, Refuse, Submit, SubmitFails, jobs
<1>4. CASE Reapply \/ ApplyWebmail \/ RemoveOwner
  BY <1>2, <1>4 DEF Reapply, ApplyWebmail, RemoveOwner, Kinds
<1>5. CASE \E j \in Ids : JobStep(j)
  BY <1>1, <1>5 DEF JobStep, Begin, Fetch, FetchNothing, SiteFail, Abandon, Evict, Release,
     WriteFiles, ReloadServices, ReloadFails, ReloadUnlinkedFails, SaveApplied, Unlink, ReloadUnlinked, DeleteSite,
     RowVanished, Finish, Reach, Return, jobs
<1>6. CASE NginxLoads \/ (\E b \in Branches : MasterLoads(b)) \/ Restart
  BY <1>1, <1>6 DEF NginxLoads, MasterLoads, Restart, jobs
<1>7. CASE UNCHANGED vars  BY <1>1, <1>7 DEF vars
<1> QED  BY <1>3, <1>4, <1>5, <1>6, <1>7 DEF Next

(* The daemons load what is there: a branch's master that finds its file   *)
(* listens from then on, or was refused.                                   *)
LEMMA OthersKeepServed ==
  ASSUME Types, NEW r \in Rows, Served(r),
         NginxLoads \/ \E b \in Branches : MasterLoads(b)
  PROVE  Served(r)'
BY DEF NginxLoads, MasterLoads, Served, Written, Rows

LEMMA OthersKeepWritten ==
  ASSUME NEW r, Written(r), NginxLoads \/ \E b \in Branches : MasterLoads(b)
  PROVE  Written(r)'
BY DEF NginxLoads, MasterLoads, Written

(* A step that leaves the host, the stages and what was read alone.        *)
LEMMA IdleCarried ==
  ASSUME Types, Serial, Carried, UNCHANGED <<host, stage, read>>,
         \A j \in Ids : state'[j] = "active" /\ state[j] # "active" => stage[j] = "start"
  PROVE  Carried'
BY DEF Carried, At, Written, Served, Stub, host

(* A returning handler is the only one there is.                           *)
LEMMA ReturnCarried ==
  ASSUME Types, Serial, NEW j \in Ids, Return(j)
  PROVE  Carried'
<1> SUFFICES ASSUME NEW i \in Ids, NEW s, At(i, s)' PROVE FALSE  BY DEF Carried
<1>1. i # j  BY DEF At, Return, Queue!End, Types, QueueType
<1>2. state[i] = "active"  BY <1>1 DEF At, Return, Queue!End, Types, QueueType
<1>3. state[j] = "active"  BY DEF Return, Queue!End
<1> QED  BY <1>1, <1>2, <1>3 DEF Serial, OneActive

(* A step of the one handler at work.                                      *)
LEMMA OneCarried ==
  ASSUME Types, Serial, NEW j \in Ids, state[j] = "active", UNCHANGED queue,
         /\ (At(j, "evicting") \/ At(j, "evicted"))' /\ Stub(j)' => file' = "none"
         /\ At(j, "written")' => Written(read[j])'
         /\ At(j, "applied")' => Served(read[j])'
  PROVE  Carried'
<1>1. \A i \in Ids : state'[i] = "active" => i = j  BY DEF Serial, OneActive, queue
<1> QED  BY <1>1 DEF Carried, At

LEMMA WorkCarried ==
  ASSUME Types, Serial, Carried, NEW j \in Ids,
         Fetch(j) \/ Evict(j) \/ Release(j) \/ WriteFiles(j) \/ ReloadServices(j)
           \/ SaveApplied(j) \/ Unlink(j) \/ ReloadUnlinked(j) \/ DeleteSite(j)
  PROVE  Carried'
<1> USE DEF Types, QueueType, JobType, At
<1>1. CASE Fetch(j)  BY <1>1, OneCarried DEF Fetch
<1>2. CASE Evict(j)  BY <1>2, OneCarried DEF Evict, Stub
<1>3. CASE Release(j)
  <2>1. Stub(j) => file = "none"  BY <1>3 DEF Release, Carried
  <2> QED  BY <1>3, <2>1, OneCarried DEF Release, Reach, Stub
<1>4. CASE WriteFiles(j)
  <2>1. Stub(j) => file = "none"  BY <1>4 DEF WriteFiles, Carried
  <2>2. Written(read[j])'  BY <1>4, <2>1 DEF WriteFiles, Reach, Written, Stub, Wanted
  <2> QED  BY <1>4, <2>2, OneCarried DEF WriteFiles, Reach
<1>5. CASE ReloadServices(j)
  <2>1. Written(read[j])  BY <1>5 DEF ReloadServices, Carried
  <2>2. Served(read[j])'
    BY <1>5, <2>1 DEF ReloadServices, Reach, Written, Served, Stub, Wanted, Notified, Reloaded
  <2> QED  BY <1>5, <2>2, OneCarried DEF ReloadServices, Reach
<1>6. CASE SaveApplied(j)  BY <1>6, OneCarried DEF SaveApplied, Reach
<1>7. CASE Unlink(j)  BY <1>7, OneCarried DEF Unlink, Reach
<1>8. CASE ReloadUnlinked(j)  BY <1>8, OneCarried DEF ReloadUnlinked, Reach
<1>9. CASE DeleteSite(j)  BY <1>9, OneCarried DEF DeleteSite, Reach
<1> QED  BY <1>1, <1>2, <1>3, <1>4, <1>5, <1>6, <1>7, <1>8, <1>9

LEMMA StepCarried ==
  ASSUME Types, Serial, Carried, [Next]_vars
  PROVE  Carried'
<1> USE DEF Types, QueueType
<1>1. CASE UNCHANGED <<host, stage, read, state>>  BY <1>1, IdleCarried
<1>2. CASE \E what \in Kinds, k \in LockKeys : EnqueueAs(what, k) /\ UNCHANGED host
  BY <1>2, IdleCarried DEF EnqueueAs, Queue!Accept
<1>3. CASE \E r \in Clients : Create(r) \/ Load(r) \/ Answer(r)
  BY <1>1, <1>2, <1>3, OpIsKind
  DEF Answer, Create, Load, Save, Refuse, Submit, SubmitFails, queue, jobs
<1>4. CASE Reapply \/ ApplyWebmail \/ RemoveOwner
  BY <1>2, <1>4 DEF Reapply, ApplyWebmail, RemoveOwner, Kinds
<1>5. CASE \E j \in Ids : Begin(j)
  BY <1>5, IdleCarried DEF Begin, Queue!Begin, jobs, Serial, Resting
<1>6. CASE \E j \in Ids : FetchNothing(j) \/ SiteFail(j) \/ Abandon(j) \/ ReloadFails(j)
       \/ ReloadUnlinkedFails(j)
                          \/ RowVanished(j) \/ Finish(j)
  BY <1>6, ReturnCarried DEF FetchNothing, SiteFail, Abandon, ReloadFails, ReloadUnlinkedFails,
       RowVanished, Finish
<1>7. CASE NginxLoads \/ \E b \in Branches : MasterLoads(b)
  <2> SUFFICES ASSUME NEW j \in Ids
               PROVE  /\ (At(j, "evicting") \/ At(j, "evicted"))' /\ Stub(j)' => file' = "none"
                      /\ At(j, "written")' => Written(read[j])'
                      /\ At(j, "applied")' => Served(read[j])'
    BY DEF Carried
  <2>1. UNCHANGED <<file, stage, state, read>>
    BY <1>7 DEF NginxLoads, MasterLoads, jobs, queue
  <2>2. read[j] \in Rows  BY DEF JobType
  <2>3. At(j, "written") => Written(read[j])'
    BY <1>7, <2>1, OthersKeepWritten DEF Carried, Written
  <2>4. At(j, "applied") => Served(read[j])'
    BY <1>7, <2>1, <2>2, OthersKeepServed DEF Carried, Written, Served
  <2> QED  BY <2>1, <2>3, <2>4 DEF Carried, At, Stub
<1>8. CASE Restart  BY <1>8 DEF Restart, Carried, At
<1>9. CASE UNCHANGED vars  BY <1>1, <1>9 DEF vars, host
<1> QED  BY <1>3, <1>4, <1>5, <1>6, <1>7, <1>8, <1>9, WorkCarried DEF Next, JobStep

(* Who still has work to do, after a step.                                 *)
LEMMA RequestSettled ==
  ASSUME Types, Settled, NEW r \in Clients, Create(r) \/ Load(r) \/ Answer(r)
  PROVE  Settled'
<1> USE DEF Types, RowType, QueueType, Settled
<1>1. CASE Create(r) \/ Save(r)
  BY <1>1 DEF Create, Save, Owed
<1>2. CASE Load(r) \/ Refuse(r)
  <2>1. Owed => Owed'
    BY <1>2 DEF Load, Refuse, Owed, Working, queue, jobs
  <2>2. Matches => Matches'
    BY <1>2 DEF Load, Refuse, Matches, Served, Written, host
  <2> QED  BY <1>2, <2>1, <2>2 DEF Load, Refuse, limits
<1>3. CASE Submit(r)
  <2>1. accepted + 1 \in Ids /\ state'[accepted + 1] = "waiting"
    BY <1>3 DEF Submit, EnqueueAs, Queue!Accept
  <2> QED  BY <2>1 DEF Owed, Working
<1>4. CASE SubmitFails(r)  BY <1>4 DEF SubmitFails
<1> QED  BY <1>1, <1>2, <1>3, <1>4 DEF Answer

LEMMA JobSettled ==
  ASSUME Types, Serial, RestInv, NEW j \in Ids, JobStep(j)
  PROVE  Settled'
<1> USE DEF Types, RowType, QueueType, RestInv, At
<1>1. CASE Begin(j)
  BY <1>1 DEF Begin, Queue!Begin, jobs, Serial, Resting, Settled, Owed, Working
<1>2. CASE Fetch(j) \/ Evict(j) \/ Release(j) \/ WriteFiles(j) \/ ReloadServices(j)
           \/ Unlink(j) \/ ReloadUnlinked(j)
  <2>1. state'[j] = "active" /\ stage'[j] # "saved"
    BY <1>2 DEF Fetch, Evict, Release, WriteFiles, ReloadServices, Unlink, ReloadUnlinked,
       Reach, queue
  <2> QED  BY <2>1 DEF Settled, Owed, Working
<1>3. CASE FetchNothing(j) \/ RowVanished(j)
  BY <1>3 DEF FetchNothing, RowVanished, Exists, Settled, Matches
<1>4. CASE SiteFail(j) \/ ReloadFails(j) \/ ReloadUnlinkedFails(j)
  <2>1. row' = FailedRow(j)  BY <1>4 DEF SiteFail, ReloadFails, ReloadUnlinkedFails
  <2>2. row'.status \in {"error", "new", "gone"}
    BY <2>1 DEF FailedRow, NoOwner, Exists, Rows
  <2> QED  BY <2>2 DEF Settled, Matches
<1>5. CASE Abandon(j)  BY <1>5 DEF Abandon, Settled
<1>6. CASE SaveApplied(j)
  <2>1. Served(read[j]) /\ read[j] \in Rows  BY <1>6 DEF SaveApplied, Carried, JobType
  <2>2. Served(row)'
    BY <1>6, <2>1 DEF SaveApplied, Reach, Served, Written, Stub, Rows, host
  <2>3. row'.status \in {"active", "suspended"}  BY <1>6, <2>1 DEF SaveApplied, Rows
  <2> QED  BY <2>2, <2>3 DEF Settled, Matches
<1>7. CASE DeleteSite(j)
  <2>1. row'.status = "gone"  BY <1>7 DEF DeleteSite, Rows
  <2> QED  BY <2>1 DEF Settled, Matches
<1>8. CASE Finish(j)
  <2>1. Owed => Owed'
    BY <1>8 DEF Finish, Return, Queue!End, requests, Owed, Working
  <2>2. Matches => Matches'  BY <1>8 DEF Finish, Matches, Served, Written, host
  <2> QED  BY <1>8, <2>1, <2>2 DEF Finish, limits, Settled
<1> QED  BY <1>1, <1>2, <1>3, <1>4, <1>5, <1>6, <1>7, <1>8 DEF JobStep

LEMMA OthersSettled ==
  ASSUME Types, Settled, NginxLoads \/ \E b \in Branches : MasterLoads(b)
  PROVE  Settled'
<1>1. UNCHANGED <<row, slip>> /\ (Owed' <=> Owed)
  BY DEF NginxLoads, MasterLoads, requests, queue, jobs, limits, Owed, Working
<1>2. Served(row) => Served(row)'
  BY <1>1, OthersKeepServed DEF Types, RowType, Served, Written
<1> QED  BY <1>1, <1>2 DEF Settled, Matches

LEMMA RestartSettled ==
  ASSUME Types, Serial, Settled, Restart
  PROVE  Settled'
<1> USE DEF Types, QueueType, Restart, Queue!Recover, Queue!Ids
<1>1. CASE \E r \in Clients : pc[r] = "saved"  BY <1>1 DEF Settled
<1>2. CASE \E j \in Ids : state[j] \in {"waiting", "active"}
  <2>1. PICK j \in Ids : state[j] \in {"waiting", "active"}  BY <1>2
  <2>2. state'[j] = "waiting"  BY <2>1
  <2> QED  BY <2>2 DEF Settled, Owed, Working
<1>3. CASE /\ \A r \in Clients : pc[r] # "saved"
           /\ \A j \in Ids : state[j] \notin {"waiting", "active"}
  BY <1>3 DEF Settled, Owed, Working, Matches, Served, Written, host
<1> QED  BY <1>1, <1>2, <1>3

LEMMA StepSettled ==
  ASSUME Types, Serial, RestInv, Outside = {}, [Next]_vars
  PROVE  Settled'
<1>1. CASE Reapply
  <2>1. accepted + 1 \in Ids /\ state'[accepted + 1] = "waiting"
    BY <1>1 DEF Reapply, EnqueueAs, Queue!Accept, Types, QueueType
  <2> QED  BY <2>1 DEF Settled, Owed, Working
<1>2. CASE ApplyWebmail \/ RemoveOwner  BY <1>2 DEF ApplyWebmail, RemoveOwner
<1>3. CASE UNCHANGED vars
  BY <1>3 DEF vars, RestInv, Settled, Owed, Working, Matches, Served, Written
<1> QED
  BY <1>1, <1>2, <1>3, RequestSettled, JobSettled, OthersSettled, RestartSettled DEF Next, RestInv

LEMMA InitRest == Init => RestInv
BY DEF Init, Queue!Init, Queue!Ids, RestInv, NoOwner, Carried, At, Settled, Matches, Blank

(* Where every job of the site is queued under "site:<domain>", the files  *)
(* on the host are what the row says once requests and jobs have come to   *)
(* rest, and the daemons serve them, have been told to, or found the socket*)
(* taken; no site is left "pending" or "deleting": for any number of       *)
(* overlapping requests, jobs, restarts and failures, unless a write was   *)
(* lost.                                                                   *)
THEOREM RestIsTrue == Outside = {} => (Spec => []RestMatches)
<1> SUFFICES ASSUME Outside = {} PROVE Spec => []RestMatches  OBVIOUS
<1> DEFINE Inv == IInv /\ RestInv
<1>1. Init => Inv  BY InitIInv, InitRest
<1>2. Inv /\ [Next]_vars => Inv'
  BY StepIInv, StepNoOwner, StepCarried, StepSettled DEF IInv, RestInv
<1>3. Inv => RestMatches
  <2> SUFFICES ASSUME Inv, Quiet, slip = 0 PROVE RestMatches  BY DEF RestMatches
  <2>1. ~Owed  BY DEF Quiet, Owed, Working
  <2>2. Matches  BY <2>1 DEF RestInv, Settled
  <2> QED  BY <2>2 DEF RestMatches, Matches, Served, Written
<1> QED  BY <1>1, <1>2, <1>3, PTL DEF Spec

-----------------------------------------------------------------------------
(* A row that a site.apply marks "active" or "suspended" has its files on  *)
(* the host at that moment: since the handler wrote them, which may be     *)
(* minutes ago, no job put others there or took them away. What the        *)
(* daemons serve by then it does not say.                                  *)

MarkedHasFiles ==
  [][\A j \in Ids : At(j, "applied") /\ stage'[j] = "saved" => Written(row)']_vars

LEMMA AppliedIsWritten ==
  ASSUME Types, Serial, Carried, [Next]_vars, NEW j \in Ids,
         At(j, "applied"), stage'[j] = "saved"
  PROVE  Written(row)'
<1> USE DEF Types, QueueType, At
<1>1. CASE SaveApplied(j)
  <2>1. Written(read[j]) /\ read[j] \in Rows  BY DEF Carried, Served, JobType
  <2> QED  BY <1>1, <2>1 DEF SaveApplied, Reach, Written, Stub, Rows, host
<1>2. CASE \E i \in Ids : JobStep(i) /\ ~SaveApplied(j)
  <2> SUFFICES ASSUME NEW i \in Ids, JobStep(i), ~SaveApplied(j) PROVE FALSE  BY <1>2
  <2>1. CASE Begin(i)  BY <2>1 DEF Begin, jobs
  <2>2. CASE Return(i)  BY <2>2 DEF Return, Queue!End, Serial, OneActive
  <2>3. CASE Fetch(i) \/ Evict(i) \/ Release(i) \/ WriteFiles(i) \/ ReloadServices(i)
             \/ Unlink(i) \/ ReloadUnlinked(i) \/ DeleteSite(i) \/ SaveApplied(i)
    <3>1. i = j
      BY <2>3 DEF Fetch, Evict, Release, WriteFiles, ReloadServices, Unlink, ReloadUnlinked,
                  DeleteSite, SaveApplied, Serial, OneActive
    <3> QED
      BY <2>3, <3>1 DEF Fetch, Evict, Release, WriteFiles, ReloadServices, Unlink,
                        ReloadUnlinked, DeleteSite
  <2> QED
    BY <2>1, <2>2, <2>3 DEF JobStep, FetchNothing, SiteFail, Abandon, ReloadFails,
         ReloadUnlinkedFails,
          RowVanished, Finish
<1>3. CASE UNCHANGED stage  BY <1>3
<1>4. CASE \E r \in Clients : Create(r) \/ Load(r) \/ Answer(r)
  BY <1>3, <1>4 DEF Answer, Create, Load, Save, Refuse, Submit, SubmitFails, jobs, EnqueueAs
<1>5. CASE Reapply \/ ApplyWebmail \/ RemoveOwner
  BY <1>3, <1>5 DEF Reapply, ApplyWebmail, RemoveOwner, EnqueueAs
<1>6. CASE NginxLoads \/ \E b \in Branches : MasterLoads(b)
  BY <1>3, <1>6 DEF NginxLoads, MasterLoads, jobs
<1>7. CASE Restart  BY <1>7 DEF Restart
<1>8. CASE UNCHANGED vars  BY <1>3, <1>8 DEF vars
<1> QED  BY <1>1, <1>2, <1>4, <1>5, <1>6, <1>7, <1>8 DEF Next

(* Also when requests, failures and restarts come in between and whether   *)
(* or not a write was lost before.                                         *)
THEOREM MarkedAreWritten == Outside = {} => (Spec => MarkedHasFiles)
<1> SUFFICES ASSUME Outside = {} PROVE Spec => MarkedHasFiles  OBVIOUS
<1>1. Init => IInv /\ Carried  BY InitIInv, InitRest DEF RestInv
<1>2. IInv /\ Carried /\ [Next]_vars => (IInv /\ Carried)'
  BY StepIInv, StepCarried DEF IInv
<1>3. IInv /\ Carried /\ [Next]_vars =>
        [\A j \in Ids : At(j, "applied") /\ stage'[j] = "saved" => Written(row)']_vars
  BY AppliedIsWritten DEF IInv
<1> QED  BY <1>1, <1>2, <1>3, PTL DEF Spec, MarkedHasFiles

-----------------------------------------------------------------------------
(* Who is to let the socket go. A job has a master to tell only between    *)
(* taking the pool's file away and telling it, and writes a new file only  *)
(* where it left none of another branch (Cleared), since the site's jobs   *)
(* run one at a time.                                                      *)

Cleared ==
  \A j \in Ids :
    /\ unit[j] # "none" => At(j, "evicting") \/ At(j, "unlinked")
    /\ At(j, "evicting") \/ At(j, "evicted") => file \in {"none", Wanted(j)}

HolderInv == Cleared /\ HolderIsTold

LEMMA IdleHolder ==
  ASSUME Types, HolderInv, Serial, UNCHANGED <<file, pool, told, untold, unit, stage, read>>,
         \A j \in Ids : state'[j] = "active" /\ state[j] # "active" => stage[j] = "start",
         \A j \in Ids : state[j] = "active" => state'[j] = "active"
  PROVE  HolderInv'
BY DEF HolderInv, Cleared, HolderIsTold, At, Wanted

LEMMA ReturnHolder ==
  ASSUME Types, HolderInv, Serial, NEW j \in Ids, Return(j),
         UNCHANGED <<file, pool>>, told \subseteq told'
  PROVE  HolderInv'
<1> USE DEF Types, QueueType, JobType, Return, Queue!End
<1>1. \A i \in Ids : state'[i] # "active"  BY DEF Serial, OneActive
<1>2. \A i \in Ids : unit'[i] = "none"
  BY DEF HolderInv, Cleared, At, Serial, OneActive
<1>3. Cleared'  BY <1>1, <1>2 DEF Cleared, At
<1>4. \A i \in Ids : unit[i] # "none" => i = j
  BY DEF HolderInv, Cleared, At, Serial, OneActive
<1>5. HolderIsTold'  BY <1>4 DEF HolderInv, HolderIsTold
<1> QED  BY <1>3, <1>5 DEF HolderInv

(* A step of the one handler at work. *)
LEMMA WorkHolder ==
  ASSUME Types, HolderInv, Serial, NEW j \in Ids,
         Fetch(j) \/ Evict(j) \/ Release(j) \/ WriteFiles(j) \/ ReloadServices(j)
           \/ SaveApplied(j) \/ Unlink(j) \/ ReloadUnlinked(j) \/ DeleteSite(j)
  PROVE  HolderInv'
<1> USE DEF Types, QueueType, JobType, HostType, HolderInv, At, Reach, queue, host
<1>1. /\ state[j] = "active" /\ UNCHANGED state
      /\ \A i \in Ids : state[i] = "active" => i = j
  BY DEF Fetch, Evict, Release, WriteFiles, ReloadServices, SaveApplied, Unlink, ReloadUnlinked,
         DeleteSite, Serial, OneActive
<1>2. \A i \in Ids : unit[i] # "none" => i = j /\ stage[j] \in {"evicting", "unlinked"}
  BY <1>1 DEF Cleared
<1>3. CASE Fetch(j)
  <2>1. Cleared'  BY <1>1, <1>2, <1>3 DEF Fetch, Cleared
  <2> QED  BY <1>3, <2>1 DEF Fetch, HolderIsTold
<1>4. CASE Evict(j)
  <2>1. Cleared'  BY <1>1, <1>2, <1>4 DEF Evict, Cleared, Wanted
  <2>2. \A i \in Ids : unit[i] = "none"  BY <1>2, <1>4 DEF Evict
  <2>3. HolderIsTold'  BY <1>4, <2>2 DEF Evict, HolderIsTold
  <2> QED  BY <2>1, <2>3
<1>5. CASE Release(j)
  <2>1. Cleared'  BY <1>1, <1>2, <1>5 DEF Release, Cleared, Wanted
  <2>2. HolderIsTold'  BY <1>2, <1>5 DEF Release, HolderIsTold
  <2> QED  BY <2>1, <2>2
<1>6. CASE WriteFiles(j)
  <2>1. Cleared'  BY <1>1, <1>2, <1>6 DEF WriteFiles, Cleared
  <2>2. file' = file \/ file = "none"  BY <1>6 DEF WriteFiles, Cleared
  <2>3. HolderIsTold'  BY <1>6, <2>2 DEF WriteFiles, HolderIsTold
  <2> QED  BY <2>1, <2>3
<1>7. CASE ReloadServices(j)
  <2>1. Cleared'  BY <1>1, <1>2, <1>7 DEF ReloadServices, Cleared
  <2> QED  BY <1>7, <2>1 DEF ReloadServices, HolderIsTold
<1>8. CASE SaveApplied(j) \/ DeleteSite(j)
  <2>1. Cleared'  BY <1>1, <1>2, <1>8 DEF SaveApplied, DeleteSite, Cleared
  <2> QED  BY <1>8, <2>1 DEF SaveApplied, DeleteSite, HolderIsTold
<1>9. CASE Unlink(j)
  <2>1. Cleared'  BY <1>1, <1>2, <1>9 DEF Unlink, Cleared
  <2>2. \A i \in Ids : unit[i] = "none"  BY <1>2, <1>9 DEF Unlink
  <2>3. HolderIsTold'  BY <1>9, <2>2 DEF Unlink, HolderIsTold
  <2> QED  BY <2>1, <2>3
<1>10. CASE ReloadUnlinked(j)
  <2>1. Cleared'  BY <1>1, <1>2, <1>10 DEF ReloadUnlinked, Cleared
  <2> QED  BY <1>10, <2>1 DEF ReloadUnlinked, HolderIsTold
<1> QED  BY <1>3, <1>4, <1>5, <1>6, <1>7, <1>8, <1>9, <1>10

LEMMA MasterHolder ==
  ASSUME Types, HolderInv, NginxLoads \/ \E b \in Branches : MasterLoads(b)
  PROVE  HolderInv'
<1>1. Cleared'
  BY DEF NginxLoads, HolderInv, Cleared, At, Wanted, jobs, queue
<1>2. HolderIsTold'
  BY DEF NginxLoads, HolderInv, HolderIsTold, Types, HostType, jobs
<1> QED  BY <1>1, <1>2 DEF HolderInv

LEMMA RestartHolder ==
  ASSUME Types, HolderInv, Restart
  PROVE  HolderInv'
<1> USE DEF Types, QueueType, JobType, Restart, Queue!Recover, Queue!Ids
<1>1. Cleared'  BY DEF Cleared, At
<1>2. HolderIsTold'  BY DEF HolderInv, HolderIsTold, host
<1> QED  BY <1>1, <1>2 DEF HolderInv

LEMMA StepHolder ==
  ASSUME Types, Serial, HolderInv, [Next]_vars
  PROVE  HolderInv'
<1> USE DEF Types, QueueType
<1>1. CASE UNCHANGED <<host, jobs, state>>  BY <1>1, IdleHolder DEF host, jobs
<1>2. CASE \E what \in Kinds, k \in LockKeys : EnqueueAs(what, k) /\ UNCHANGED host
  <2>1. \A j \in Ids : state[j] = "active" => state'[j] = "active"
    BY <1>2 DEF EnqueueAs, Queue!Accept, Serial, Fresh
  <2> QED  BY <1>2, <2>1, IdleHolder DEF EnqueueAs, Queue!Accept, host
<1>3. CASE \E r \in Clients : Create(r) \/ Load(r) \/ Answer(r)
  BY <1>1, <1>2, <1>3, OpIsKind
  DEF Answer, Create, Load, Save, Refuse, Submit, SubmitFails, queue
<1>4. CASE Reapply \/ ApplyWebmail \/ RemoveOwner
  BY <1>2, <1>4 DEF Reapply, ApplyWebmail, RemoveOwner, Kinds
<1>5. CASE \E j \in Ids : Begin(j)
  BY <1>5, IdleHolder DEF Begin, Queue!Begin, host, jobs, Serial, Resting
<1>6. CASE \E j \in Ids : FetchNothing(j) \/ SiteFail(j) \/ Abandon(j) \/ ReloadFails(j)
                          \/ ReloadUnlinkedFails(j) \/ RowVanished(j) \/ Finish(j)
  <2>1. PICK j \in Ids : FetchNothing(j) \/ SiteFail(j) \/ Abandon(j) \/ ReloadFails(j)
                          \/ ReloadUnlinkedFails(j) \/ RowVanished(j) \/ Finish(j)
    BY <1>6
  <2>2. Return(j) /\ UNCHANGED <<file, pool>> /\ told \subseteq told'
    BY <2>1 DEF FetchNothing, SiteFail, Abandon, ReloadFails, ReloadUnlinkedFails, RowVanished,
                Finish, host
  <2> QED  BY <2>2, ReturnHolder
<1>7. CASE UNCHANGED vars  BY <1>1, <1>7 DEF vars, host, jobs
<1> QED
  BY <1>3, <1>4, <1>5, <1>6, <1>7, WorkHolder, MasterHolder, RestartHolder DEF Next, JobStep

(* Where every job of the site is queued under "site:<domain>", a master   *)
(* whose pool's file was taken away has been told to let the socket go, or *)
(* will be, save in the cases the code leaves out.                         *)
THEOREM HoldersAreTold == Outside = {} => (Spec => []HolderIsTold)
<1> SUFFICES ASSUME Outside = {} PROVE Spec => []HolderIsTold  OBVIOUS
<1>1. Init => IInv /\ HolderInv
  BY InitIInv DEF Init, HolderInv, Cleared, HolderIsTold, At, Queue!Init, Queue!Ids
<1>2. IInv /\ HolderInv /\ [Next]_vars => (IInv /\ HolderInv)'
  BY StepIInv, StepHolder DEF IInv
<1>3. HolderInv => HolderIsTold  BY DEF HolderInv
<1> QED  BY <1>1, <1>2, <1>3, PTL DEF Spec

-----------------------------------------------------------------------------
(* The site's jobs run as SerialQueue promises, whoever enqueues them:     *)
(* with JobQueueProofs!Implements this joins the two models.               *)
LEMMA QueueStep == ASSUME Types, [Next]_vars PROVE [Queue!Next]_(Queue!vars)
<1> USE DEF Queue!Next, Queue!vars
<1>1. CASE UNCHANGED queue  BY <1>1 DEF queue
<1>2. CASE \E what \in Kinds, k \in LockKeys : EnqueueAs(what, k)
  BY <1>2 DEF EnqueueAs
<1>3. CASE \E j \in Ids : Return(j)  BY <1>3 DEF Return, Queue!Ids
<1>4. CASE \E r \in Clients : Create(r) \/ Load(r) \/ Answer(r)
  BY <1>1, <1>2, <1>4, OpIsKind
  DEF Answer, Create, Load, Save, Refuse, Submit, SubmitFails
<1>5. CASE Reapply \/ ApplyWebmail \/ RemoveOwner
  BY <1>2, <1>5 DEF Reapply, ApplyWebmail, RemoveOwner, Kinds
<1>6. CASE \E j \in Ids : JobStep(j)
  <2> SUFFICES ASSUME NEW j \in Ids, JobStep(j) PROVE [Queue!Next]_(Queue!vars)  BY <1>6
  <2>1. CASE Begin(j)  BY <2>1 DEF Begin, Queue!Ids
  <2>2. CASE Return(j)  BY <1>3, <2>2
  <2>3. CASE UNCHANGED queue  BY <1>1, <2>3
  <2> QED
    BY <2>1, <2>2, <2>3 DEF JobStep, Fetch, FetchNothing, SiteFail, Abandon, Evict, Release,
       WriteFiles, ReloadServices, ReloadFails, ReloadUnlinkedFails, SaveApplied, Unlink, ReloadUnlinked, DeleteSite,
       RowVanished, Finish, Reach
<1>7. CASE NginxLoads \/ \E b \in Branches : MasterLoads(b)
  BY <1>1, <1>7 DEF NginxLoads, MasterLoads
<1>8. CASE Restart  BY <1>8 DEF Restart
<1>9. CASE UNCHANGED vars  BY <1>1, <1>9 DEF vars, queue
<1> QED  BY <1>4, <1>5, <1>6, <1>7, <1>8, <1>9 DEF Next

(* Every step of a request, a job or a restart is one of the abstract      *)
(* queue for the site's jobs, or leaves the queue unchanged.               *)
THEOREM JobsAreQueued == Spec => Queue!Spec
<1>1. Init => Queue!Init  BY DEF Init
<1>2. Types /\ [Next]_vars => [Queue!Next]_(Queue!vars)  BY QueueStep
<1> QED  BY <1>1, <1>2, InitType, StepType, PTL DEF Spec, Queue!Spec

-----------------------------------------------------------------------------
(* A removal that was run to its end, by whichever path, leaves no row, or *)
(* one that shows an error; whoever else enqueues jobs for the site.       *)

RemovalConcludes ==
  [][\A j \in Ids :
       kind[j] = "delete" /\ state[j] = "active" /\ state'[j] = "ended" =>
         row'.status \in {"gone", "error"} \/ slip' = 1]_vars

Bookkept == Fresh /\ Resting

(* A removal is at the stages of its own handler, and has found the row    *)
(* deleted once it has deleted it.                                         *)
RemovalStages ==
  \A j \in Ids : kind[j] = "delete" =>
    /\ stage[j] \in {"start", "loaded", "unlinked", "removed", "saved"}
    /\ stage[j] = "saved" => row.status = "gone"

(* Only a site that was there is removed. *)
RemovalOfSomething ==
  (\E r \in Clients : pc[r] # "idle") \/ (\E j \in Ids : kind[j] = "delete")
    => row.status # "new"

RemovalInv == Types /\ LoadedLive /\ Bookkept /\ RemovalStages /\ RemovalOfSomething

(* A row that is gone is not written any more, and none becomes new again. *)
LEMMA RowIsOld ==
  ASSUME Types, LoadedLive, [Next]_vars
  PROVE  /\ row.status = "gone" => row'.status = "gone"
         /\ row.status # "new" => row'.status # "new"
<1> USE DEF Exists
<1>1. CASE \E r \in Clients : Save(r)
  <2>1. PICK r \in Clients : Save(r)  BY <1>1
  <2>2. PICK o \in Ops, c \in Confs :
          row' = [conf |-> c, status |-> NewStatus(o, copy[r].status)]
    BY <2>1 DEF Save
  <2>3. copy[r].status \notin {"new", "gone"}  BY <2>1 DEF Save, LoadedLive
  <2>4. NewStatus(o, copy[r].status) # "new"  BY <2>3 DEF NewStatus
  <2> QED  BY <2>1, <2>2, <2>4 DEF Save
<1>2. CASE \E r \in Clients : Create(r)  BY <1>2 DEF Create
<1>3. CASE \E r \in Clients : Load(r) \/ Refuse(r) \/ Submit(r) \/ SubmitFails(r)
  BY <1>3 DEF Load, Refuse, Submit, SubmitFails
<1>4. CASE Reapply \/ ApplyWebmail \/ RemoveOwner  BY <1>4 DEF Reapply, ApplyWebmail, RemoveOwner
<1>5. CASE \E j \in Ids : JobStep(j)
  <2> SUFFICES ASSUME NEW j \in Ids, JobStep(j)
               PROVE  /\ row.status = "gone" => row'.status = "gone"
                      /\ row.status # "new" => row'.status # "new"
    BY <1>5
  <2>1. CASE row' = FailedRow(j)
    <3>1. row \in Rows  BY DEF Types, RowType
    <3> QED  BY <2>1, <3>1 DEF FailedRow, Rows
  <2>2. CASE SaveApplied(j)
    <3>1. read[j] \in Rows  BY DEF Types, JobType
    <3> QED  BY <2>2, <3>1 DEF SaveApplied, Rows
  <2>3. CASE DeleteSite(j)
    <3>1. row \in Rows  BY DEF Types, RowType
    <3> QED  BY <2>3, <3>1 DEF DeleteSite, Rows
  <2>4. CASE row' = row  BY <2>4
  <2> QED
    BY <2>1, <2>2, <2>3, <2>4 DEF JobStep, Begin, Fetch, FetchNothing, SiteFail, Abandon, Evict,
       Release, WriteFiles, ReloadServices, ReloadFails, ReloadUnlinkedFails, Unlink, ReloadUnlinked, RowVanished, Finish
<1>6. CASE NginxLoads \/ (\E b \in Branches : MasterLoads(b)) \/ Restart
  BY <1>6 DEF NginxLoads, MasterLoads, Restart
<1>7. CASE UNCHANGED vars  BY <1>7 DEF vars
<1> QED  BY <1>1, <1>2, <1>3, <1>4, <1>5, <1>6, <1>7 DEF Next, Answer

(* A handler that is at work and goes on. *)
Advance(j) ==
  Fetch(j) \/ Evict(j) \/ Release(j) \/ WriteFiles(j) \/ ReloadServices(j)
    \/ SaveApplied(j) \/ Unlink(j) \/ ReloadUnlinked(j) \/ DeleteSite(j)

(* What a step does to the jobs, whoever takes it. *)
LEMMA JobFrame ==
  ASSUME Types, [Next]_vars
  PROVE  \/ UNCHANGED <<queue, stage, kind>>
         \/ \E what \in Kinds, k \in LockKeys :
              /\ EnqueueAs(what, k)
              /\ what = "delete" => \E r \in Clients : pc[r] # "idle"
         \/ \E j \in Ids : Begin(j) \/ Advance(j)
         \/ \E j \in Ids : Return(j)
         \/ Restart
<1>1. CASE \E r \in Clients : Create(r) \/ Load(r) \/ Answer(r)
  BY <1>1, OpIsKind DEF Answer, Create, Load, Save, Refuse, Submit, SubmitFails, jobs, LockKeys
<1>2. CASE Reapply \/ ApplyWebmail \/ RemoveOwner
  BY <1>2 DEF Reapply, ApplyWebmail, RemoveOwner, Kinds
<1>3. CASE \E j \in Ids : JobStep(j)
  BY <1>3 DEF JobStep, Advance, FetchNothing, SiteFail, Abandon, ReloadFails,
       ReloadUnlinkedFails, RowVanished, Finish
<1>4. CASE NginxLoads \/ \E b \in Branches : MasterLoads(b)
  BY <1>4 DEF NginxLoads, MasterLoads, jobs
<1>5. CASE UNCHANGED vars  BY <1>5 DEF vars, queue
<1> QED  BY <1>1, <1>2, <1>3, <1>4, <1>5 DEF Next

(* A request in progress is about a site that was there. *)
LEMMA StepAsked ==
  ASSUME RemovalInv, [Next]_vars, NEW q \in Clients, pc'[q] # "idle"
  PROVE  row'.status # "new"
<1>1. row.status # "new" => row'.status # "new"  BY RowIsOld DEF RemovalInv
<1>2. CASE \E r \in Clients : pc[r] # "idle"
  BY <1>1, <1>2 DEF RemovalInv, RemovalOfSomething
<1>3. CASE UNCHANGED pc  BY <1>2, <1>3
<1>4. CASE \E r \in Clients : Create(r)  BY <1>4 DEF Create
<1>5. CASE \E r \in Clients : Load(r)  BY <1>1, <1>5 DEF Load, Exists
<1>6. CASE \E r \in Clients : Answer(r)
  BY <1>2, <1>6 DEF Answer, Save, Refuse, Submit, SubmitFails
<1>7. CASE Reapply \/ ApplyWebmail \/ RemoveOwner
  BY <1>3, <1>7 DEF Reapply, ApplyWebmail, RemoveOwner, requests
<1>8. CASE \E j \in Ids : JobStep(j)
  BY <1>3, <1>8 DEF JobStep, Begin, Fetch, FetchNothing, SiteFail, Abandon, Evict, Release,
     WriteFiles, ReloadServices, ReloadFails, ReloadUnlinkedFails, SaveApplied, Unlink, ReloadUnlinked, DeleteSite,
     RowVanished, Finish, requests
<1>9. CASE NginxLoads \/ \E b \in Branches : MasterLoads(b)
  BY <1>3, <1>9 DEF NginxLoads, MasterLoads, requests
<1>10. CASE Restart  BY <1>10 DEF Restart
<1>11. CASE UNCHANGED vars  BY <1>3, <1>11 DEF vars
<1> QED  BY <1>4, <1>5, <1>6, <1>7, <1>8, <1>9, <1>10, <1>11 DEF Next

LEMMA StepRemoval == ASSUME RemovalInv, [Next]_vars PROVE RemovalInv'
<1> USE DEF RemovalInv
<1>1. Types' /\ LoadedLive'  BY StepType, StepLoadedLive
<1>2. /\ row.status = "gone" => row'.status = "gone"
      /\ row.status # "new" => row'.status # "new"
  BY RowIsOld
<1>3. (\E r \in Clients : pc'[r] # "idle") => row'.status # "new"  BY StepAsked
<1> USE DEF Types, QueueType
<1>4. CASE UNCHANGED <<queue, stage, kind>>
  <2>1. Bookkept'  BY <1>4 DEF Bookkept, Fresh, Resting, queue
  <2>2. RemovalStages'  BY <1>2, <1>4 DEF RemovalStages
  <2>3. RemovalOfSomething'  BY <1>2, <1>3, <1>4 DEF RemovalOfSomething
  <2> QED  BY <1>1, <2>1, <2>2, <2>3
<1>5. CASE \E what \in Kinds, k \in LockKeys :
             /\ EnqueueAs(what, k)
             /\ what = "delete" => \E r \in Clients : pc[r] # "idle"
  <2>1. PICK what \in Kinds, k \in LockKeys :
          /\ EnqueueAs(what, k)
          /\ what = "delete" => \E r \in Clients : pc[r] # "idle"
    BY <1>5
  <2> USE <2>1 DEF EnqueueAs, Queue!Accept
  <2>2. accepted + 1 \in Ids /\ state[accepted + 1] = "none" /\ stage[accepted + 1] = "start"
    BY DEF Bookkept, Fresh, Resting
  <2>3. Bookkept'  BY <2>2 DEF Bookkept, Fresh, Resting
  <2>4. RemovalStages'  BY <1>2, <2>2 DEF RemovalStages
  <2>5. RemovalOfSomething'  BY <1>2, <1>3, <2>2 DEF RemovalOfSomething
  <2> QED  BY <1>1, <2>3, <2>4, <2>5
<1>6. CASE \E j \in Ids : Begin(j)
  <2>1. PICK j \in Ids : Begin(j)  BY <1>6
  <2> USE <2>1 DEF Begin, Queue!Begin, jobs
  <2>2. Bookkept'  BY DEF Bookkept, Fresh, Resting
  <2>3. RemovalStages'  BY <1>2 DEF RemovalStages
  <2>4. RemovalOfSomething'  BY <1>2, <1>3 DEF RemovalOfSomething
  <2> QED  BY <1>1, <2>2, <2>3, <2>4
<1>7. CASE \E j \in Ids : Advance(j)
  <2>1. PICK j \in Ids : Advance(j)  BY <1>7
  <2>2. UNCHANGED <<state, key, accepted, kind>> /\ state[j] = "active"
    BY <2>1 DEF Advance, Fetch, Evict, Release, WriteFiles, ReloadServices, SaveApplied, Unlink,
                ReloadUnlinked, DeleteSite, Reach, queue, At
  <2>3. \E s \in Stages : stage' = [stage EXCEPT ![j] = s]
    BY <2>1 DEF Advance, Fetch, Evict, Release, WriteFiles, ReloadServices, SaveApplied, Unlink,
                ReloadUnlinked, DeleteSite, Reach, Stages
  <2>4. Bookkept'  BY <2>2, <2>3 DEF Bookkept, Fresh, Resting
  <2>5. kind[j] = "delete" =>
          /\ stage'[j] \in {"start", "loaded", "unlinked", "removed", "saved"}
          /\ stage'[j] = "saved" => row'.status = "gone"
    <3>1. row \in Rows  BY DEF RowType
    <3> QED
      BY <2>1, <3>1 DEF Advance, Fetch, Evict, Release, WriteFiles, ReloadServices, SaveApplied,
         Unlink, ReloadUnlinked, DeleteSite, Reach, At, RemovalStages, Rows
  <2>6. RemovalStages'  BY <1>2, <2>2, <2>3, <2>5 DEF RemovalStages
  <2>7. RemovalOfSomething'  BY <1>2, <1>3, <2>2 DEF RemovalOfSomething
  <2> QED  BY <1>1, <2>4, <2>6, <2>7
<1>8. CASE \E j \in Ids : Return(j)
  <2>1. PICK j \in Ids : Return(j)  BY <1>8
  <2> USE <2>1 DEF Return, Queue!End
  <2>2. Bookkept'  BY DEF Bookkept, Fresh, Resting
  <2>3. RemovalStages'  BY <1>2 DEF RemovalStages
  <2>4. RemovalOfSomething'  BY <1>2, <1>3 DEF RemovalOfSomething
  <2> QED  BY <1>1, <2>2, <2>3, <2>4
<1>9. CASE Restart
  <2> USE <1>9 DEF Restart, Queue!Recover, Queue!Ids
  <2>1. Bookkept'  BY DEF Bookkept, Fresh, Resting
  <2>2. RemovalStages'  BY DEF RemovalStages
  <2>3. RemovalOfSomething'  BY <1>2, <1>3 DEF RemovalOfSomething
  <2> QED  BY <1>1, <2>1, <2>2, <2>3
<1> QED  BY <1>4, <1>5, <1>6, <1>7, <1>8, <1>9, JobFrame

LEMMA RemovalEnds ==
  ASSUME RemovalInv, [Next]_vars, NEW j \in Ids,
         kind[j] = "delete", state[j] = "active", state'[j] = "ended"
  PROVE  row'.status \in {"gone", "error"} \/ slip' = 1
<1> USE DEF RemovalInv, Types, QueueType
<1>1. \E i \in Ids : JobStep(i)
  <2>1. CASE \E r \in Clients : Create(r) \/ Load(r) \/ Answer(r)
    BY <2>1 DEF Answer, Create, Load, Save, Refuse, Submit, SubmitFails, EnqueueAs,
                Queue!Accept, queue
  <2>2. CASE Reapply \/ ApplyWebmail \/ RemoveOwner
    BY <2>2 DEF Reapply, ApplyWebmail, RemoveOwner, EnqueueAs, Queue!Accept
  <2>3. CASE NginxLoads \/ \E b \in Branches : MasterLoads(b)
    BY <2>3 DEF NginxLoads, MasterLoads, queue
  <2>4. CASE Restart  BY <2>4 DEF Restart, Queue!Recover, Queue!Ids
  <2>5. CASE UNCHANGED vars  BY <2>5 DEF vars
  <2> QED  BY <2>1, <2>2, <2>3, <2>4, <2>5 DEF Next
<1>2. PICK i \in Ids : JobStep(i)  BY <1>1
<1>3. FetchNothing(i) \/ SiteFail(i) \/ Abandon(i) \/ ReloadFails(i) \/ ReloadUnlinkedFails(i)
       \/ RowVanished(i) \/ Finish(i)
  BY <1>2 DEF JobStep, Begin, Queue!Begin, Fetch, Evict, Release, WriteFiles, ReloadServices,
     SaveApplied, Unlink, ReloadUnlinked, DeleteSite, Reach, queue
<1>4. i = j
  BY <1>3 DEF FetchNothing, SiteFail, Abandon, ReloadFails, ReloadUnlinkedFails, RowVanished,
       Finish, Return, Queue!End
<1>5. row \in Rows /\ row.status # "new"  BY DEF RowType, RemovalOfSomething
<1>6. CASE FetchNothing(j) \/ RowVanished(j)
  BY <1>5, <1>6 DEF FetchNothing, RowVanished, Exists
<1>7. CASE SiteFail(j) \/ ReloadUnlinkedFails(j)
  BY <1>5, <1>7 DEF SiteFail, ReloadUnlinkedFails, FailedRow, Exists, Rows
<1>8. CASE Abandon(j)  BY <1>8 DEF Abandon
<1>9. CASE ReloadFails(j)  BY <1>9 DEF ReloadFails, At, RemovalStages
<1>10. CASE Finish(j)  BY <1>10 DEF Finish, At, RemovalStages
<1> QED  BY <1>3, <1>4, <1>6, <1>7, <1>8, <1>9, <1>10

(* Through failures, restarts and jobs of other keys: a removal that is    *)
(* over never leaves a row that looks healthy, unless a write was lost.    *)
THEOREM RemovalsConclude == Spec => RemovalConcludes
<1>1. Init => RemovalInv
  BY InitType DEF Init, Queue!Init, Queue!Ids, RemovalInv, LoadedLive, Bookkept, Fresh, Resting,
                  RemovalStages, RemovalOfSomething
<1>2. RemovalInv /\ [Next]_vars => RemovalInv'  BY StepRemoval
<1>3. RemovalInv /\ [Next]_vars =>
        [\A j \in Ids :
           kind[j] = "delete" /\ state[j] = "active" /\ state'[j] = "ended" =>
             row'.status \in {"gone", "error"} \/ slip' = 1]_vars
  BY RemovalEnds
<1> QED  BY <1>1, <1>2, <1>3, PTL DEF Spec, RemovalConcludes
-----------------------------------------------------------------------------
(* A row on its way to another state has somebody who takes it there: a    *)
(* request that has written it and not yet enqueued its job, or a job of   *)
(* the site that has not come to its last write; whoever else enqueues     *)
(* jobs for the site. The owner's removal does not count: when it fails it *)
(* leaves the row as it found it.                                          *)

Acts(j) == kind[j] # "removeOwner" /\ Working(j)
TransitIsOwed ==
  slip = 0 /\ row.status \in {"pending", "deleting"} =>
    (\E r \in Clients : pc[r] = "saved") \/ \E j \in Ids : Acts(j)

LEMMA RequestActs ==
  ASSUME Types, TransitIsOwed, NEW r \in Clients, Create(r) \/ Load(r) \/ Answer(r)
  PROVE  TransitIsOwed'
<1> USE DEF Types, RowType, QueueType, TransitIsOwed
<1>1. CASE Create(r) \/ Save(r)  BY <1>1 DEF Create, Save
<1>2. CASE Load(r) \/ Refuse(r)
  <2>1. UNCHANGED <<row, slip, kind, state, stage>>
    BY <1>2 DEF Load, Refuse, queue, jobs, limits
  <2>2. \A q \in Clients : pc[q] = "saved" => pc'[q] = "saved"  BY <1>2 DEF Load, Refuse
  <2> QED  BY <2>1, <2>2 DEF Acts, Working
<1>3. CASE Submit(r)
  <2>1. accepted + 1 \in Ids /\ state'[accepted + 1] = "waiting" /\ kind'[accepted + 1] # "removeOwner"
    BY <1>3 DEF Submit, EnqueueAs, Queue!Accept
  <2> QED  BY <2>1 DEF Acts, Working
<1>4. CASE SubmitFails(r)  BY <1>4 DEF SubmitFails
<1> QED  BY <1>1, <1>2, <1>3, <1>4 DEF Answer

(* A job more takes no work from the others. *)
LEMMA MoreActs ==
  ASSUME Types, Fresh, TransitIsOwed, Reapply \/ ApplyWebmail \/ RemoveOwner
  PROVE  TransitIsOwed'
<1> USE DEF Types, QueueType
<1>1. PICK what \in Kinds, k \in LockKeys : EnqueueAs(what, k)
  BY DEF Reapply, ApplyWebmail, RemoveOwner, Kinds
<1>2. UNCHANGED <<row, slip, pc>>
  BY DEF Reapply, ApplyWebmail, RemoveOwner, requests, limits
<1>3. ASSUME NEW j \in Ids, Acts(j) PROVE Acts(j)'
  <2>1. j # accepted + 1  BY <1>3 DEF Acts, Working, Fresh
  <2> QED  BY <1>1, <1>3, <2>1 DEF EnqueueAs, Queue!Accept, Acts, Working
<1> QED  BY <1>2, <1>3 DEF TransitIsOwed

LEMMA JobActs ==
  ASSUME Types, Resting, TransitIsOwed, NEW j \in Ids, JobStep(j)
  PROVE  TransitIsOwed'
<1> USE DEF Types, RowType, QueueType, At
<1>1. ASSUME UNCHANGED <<row, slip, pc>>, \A i \in Ids : Acts(i) => Acts(i)' PROVE TransitIsOwed'
  BY <1>1 DEF TransitIsOwed
<1>2. ASSUME row'.status \notin {"pending", "deleting"} PROVE TransitIsOwed'
  BY <1>2 DEF TransitIsOwed
<1>3. CASE Begin(j)
  <2>1. \A i \in Ids : Acts(i) => Acts(i)'
    BY <1>3 DEF Begin, Queue!Begin, jobs, Resting, Acts, Working
  <2> QED  BY <1>1, <1>3, <2>1 DEF Begin, requests, limits
<1>4. CASE Fetch(j) \/ Evict(j) \/ Release(j) \/ WriteFiles(j) \/ ReloadServices(j)
           \/ Unlink(j) \/ ReloadUnlinked(j)
  <2>1. UNCHANGED <<row, slip, pc, kind, state>>
    BY <1>4 DEF Fetch, Evict, Release, WriteFiles, ReloadServices, Unlink, ReloadUnlinked,
       Reach, requests, queue, limits
  <2>2. stage'[j] # "saved" /\ \A i \in Ids : i # j => stage'[i] = stage[i]
    BY <1>4 DEF Fetch, Evict, Release, WriteFiles, ReloadServices, Unlink, ReloadUnlinked, Reach
  <2>3. \A i \in Ids : Acts(i) => Acts(i)'  BY <2>1, <2>2 DEF Acts, Working
  <2> QED  BY <1>1, <2>1, <2>3
<1>5. CASE FetchNothing(j) \/ RowVanished(j)
  BY <1>2, <1>5 DEF FetchNothing, RowVanished, Exists
<1>6. CASE SiteFail(j) \/ ReloadFails(j) \/ ReloadUnlinkedFails(j)
  <2>1. row' = FailedRow(j) /\ Return(j) /\ UNCHANGED <<slip, pc>>
    BY <1>6 DEF SiteFail, ReloadFails, ReloadUnlinkedFails, requests
  <2>2. CASE kind[j] = "removeOwner"
    <3>1. row' = row  BY <2>1, <2>2 DEF FailedRow
    <3>2. \A i \in Ids : Acts(i) => Acts(i)'
      BY <2>1, <2>2 DEF Return, Queue!End, Acts, Working
    <3> QED  BY <1>1, <2>1, <3>1, <3>2
  <2>3. CASE kind[j] # "removeOwner"
    <3>1. row'.status \in {"error", "new", "gone"}  BY <2>1, <2>3 DEF FailedRow, Exists, Rows
    <3> QED  BY <1>2, <3>1
  <2> QED  BY <2>2, <2>3
<1>7. CASE Abandon(j)  BY <1>7 DEF Abandon, TransitIsOwed
<1>8. CASE SaveApplied(j)
  <2>1. read[j] \in Rows  BY DEF JobType
  <2>2. row'.status \in {"active", "suspended"}  BY <1>8, <2>1 DEF SaveApplied, Rows
  <2> QED  BY <1>2, <2>2
<1>9. CASE DeleteSite(j)
  <2>1. row'.status = "gone"  BY <1>9 DEF DeleteSite, Rows
  <2> QED  BY <1>2, <2>1
<1>10. CASE Finish(j)
  <2>1. \A i \in Ids : Acts(i) => Acts(i)'
    BY <1>10 DEF Finish, Return, Queue!End, Acts, Working
  <2> QED  BY <1>1, <1>10, <2>1 DEF Finish, requests, limits
<1> QED
  BY <1>3, <1>4, <1>5, <1>6, <1>7, <1>8, <1>9, <1>10 DEF JobStep

LEMMA RestartActs ==
  ASSUME Types, TransitIsOwed, Restart
  PROVE  TransitIsOwed'
<1> USE DEF Types, QueueType, Restart, Queue!Recover, Queue!Ids
<1>1. CASE \E r \in Clients : pc[r] = "saved"  BY <1>1 DEF TransitIsOwed
<1>2. CASE \E j \in Ids : Acts(j)
  <2>1. PICK j \in Ids : Acts(j)  BY <1>2
  <2>2. state'[j] = "waiting" /\ kind'[j] # "removeOwner"  BY <2>1 DEF Acts, Working
  <2> QED  BY <2>2 DEF TransitIsOwed, Acts, Working
<1>3. CASE (\A r \in Clients : pc[r] # "saved") /\ \A j \in Ids : ~Acts(j)
  BY <1>3 DEF TransitIsOwed
<1> QED  BY <1>1, <1>2, <1>3

LEMMA StepActs ==
  ASSUME RemovalInv, TransitIsOwed, [Next]_vars
  PROVE  TransitIsOwed'
<1>0. Types /\ Fresh /\ Resting  BY DEF RemovalInv, Bookkept
<1>1. ASSUME UNCHANGED <<row, slip, pc, kind, state, stage>> PROVE TransitIsOwed'
  BY <1>1 DEF TransitIsOwed, Acts, Working
<1>2. CASE NginxLoads \/ \E b \in Branches : MasterLoads(b)
  <2>1. UNCHANGED <<row, slip, pc, kind, state, stage>>
    BY <1>2 DEF NginxLoads, MasterLoads, requests, queue, jobs, limits
  <2> QED  BY <1>1, <2>1
<1>3. CASE UNCHANGED vars  BY <1>1, <1>3 DEF vars
<1> QED  BY <1>0, <1>2, <1>3, RequestActs, MoreActs, JobActs, RestartActs DEF Next

(* No site is left "pending" or "deleting" with nobody at work for it, for *)
(* any overlapping requests, jobs under other keys, restarts and failures, *)
(* unless a write was lost. With JobQueueProofs!NeverStuck it says why an  *)
(* accepted removal ends.                                                  *)
THEOREM NotLeftHalfway == Spec => []TransitIsOwed
<1>1. Init => RemovalInv /\ TransitIsOwed
  BY InitType DEF Init, Queue!Init, Queue!Ids, RemovalInv, LoadedLive, Bookkept, Fresh, Resting,
                  RemovalStages, RemovalOfSomething, TransitIsOwed, Blank
<1>2. RemovalInv /\ TransitIsOwed /\ [Next]_vars => RemovalInv' /\ TransitIsOwed'
  BY StepRemoval, StepActs
<1> QED  BY <1>1, <1>2, PTL DEF Spec
=============================================================================
