------------------------------- MODULE JobQueue -------------------------------
(***************************************************************************)
(* The job runner of the API process (internal/jobs/runner.go) over the    *)
(* jobs table (internal/store/jobs.go): callers insert queued rows, a pool *)
(* of workers claims the oldest row whose lock key is free, runs its       *)
(* handler and writes the outcome back. The process stops in order         *)
(* (SIGTERM cancels the context), is killed, or loses its HTTP listener;   *)
(* the next start puts rows left "running" back in the queue.              *)
(*                                                                         *)
(* Each SQL statement is one atomic step, and between any two of them the  *)
(* other workers, the callers and a crash may step in. Rows are never      *)
(* deleted, so row ids are 1, 2, ... in the order of the inserts. Progress *)
(* and log lines of a job are left out; its events are another component.  *)
(***************************************************************************)
EXTENDS Naturals

CONSTANTS Workers,    \* the worker goroutines (cfg.Jobs.Workers of them)
          Keys,       \* the non-empty lock keys
          NoKey,      \* the empty lock key
          MaxJobs,    \* bound: rows ever inserted
          MaxStarts,  \* bound: starts of the API process
          MaxFaults   \* bound: SQL statements that fail (disk full, busy)

ASSUME BoundsAssumption == MaxJobs \in Nat /\ MaxStarts \in Nat /\ MaxFaults \in Nat
ASSUME NoKeyAssumption == NoKey \notin Keys

Ids == 1..MaxJobs
NoJob == 0

VARIABLES
  status,   \* status[j]: column jobs.status; "none" until the row exists
  lockKey,  \* lockKey[j]: column jobs.lock_key
  last,     \* the highest row id
  proc,     \* the API process: "down", "up", "deaf" (Run returned an error
            \* but the workers go on), "stopping" (context cancelled)
  phase,    \* phase[w]: where worker w is, see Phases
  job,      \* job[w]: the row worker w is running, or NoJob
  wake,     \* tokens in the wake channel (capacity 1)
  starts,   \* how often the process was started
  faults,   \* how many SQL statements failed
  verdict,  \* history: how the last run of j's handler returned
  cut,      \* history: jobs whose success was not written down, because the
            \* process died or the write failed
  lost      \* history: running rows no worker will finish before a restart

vars == <<status, lockKey, last, proc, phase, job, wake, starts, faults,
          verdict, cut, lost>>

queueVars == <<status, lockKey, last>>
procVars == <<proc, starts>>
history == <<verdict, cut, lost>>

Statuses == {"none", "queued", "running", "done", "failed"}
Terminal == {"done", "failed"}

(* off: no goroutine; claim: about to call ClaimJob; park: in the select;  *)
(* exec: the handler runs; ok, err: the handler has returned.              *)
Phases == {"off", "claim", "park", "exec", "ok", "err"}
Procs == {"down", "up", "deaf", "stopping"}
Verdicts == {"none", "ok", "own", "cut"}

Init ==
  /\ status = [j \in Ids |-> "none"]
  /\ lockKey = [j \in Ids |-> NoKey]
  /\ last = 0
  /\ proc = "down"
  /\ phase = [w \in Workers |-> "off"]
  /\ job = [w \in Workers |-> NoJob]
  /\ wake = 0
  /\ starts = 0
  /\ faults = 0
  /\ verdict = [j \in Ids |-> "none"]
  /\ cut = {}
  /\ lost = {}

-----------------------------------------------------------------------------
(* The jobs table *)

SameKey(i, j) == lockKey[i] = lockKey[j] /\ lockKey[j] # NoKey

(* Wrong: the lock keys of running rows are not looked at. *)
RunnableIgnoringLocks(j) == status[j] = "queued"

(* Wrong: a failed row keeps its lock key. *)
RunnableAfterSuccess(j) ==
  /\ status[j] = "queued"
  /\ \A r \in Ids : ~(status[r] \in {"running", "failed"} /\ SameKey(r, j))

(* The row of the inner SELECT of ClaimJob: queued, and no running row     *)
(* holds its lock key.                                                     *)
Runnable(j) ==
  /\ status[j] = "queued"
  /\ \A r \in Ids : ~(status[r] = "running" /\ SameKey(r, j))

(* Wrong: no ORDER BY. *)
AnyRunnable(j) == Runnable(j)

(* ORDER BY id LIMIT 1 *)
Oldest(j) == Runnable(j) /\ \A i \in Ids : Runnable(i) => j <= i

(* Wrong: stale rows stay as they are; failed rows are queued as well. *)
RequeueNothing == status
RequeueFailedToo ==
  [j \in Ids |-> IF status[j] \in {"running", "failed"} THEN "queued" ELSE status[j]]

RequeueStaleJobs == [j \in Ids |-> IF status[j] = "running" THEN "queued" ELSE status[j]]

(* Wrong: the status nothing in the code reads back. *)
FinishCancelled(j, s) == [status EXCEPT ![j] = "cancelled"]

FinishJob(j, s) == [status EXCEPT ![j] = s]

-----------------------------------------------------------------------------
(* Callers *)

(* Enqueue of a job without an idempotency key, from a request or from     *)
(* inside a handler: insert the row, put a token in the wake channel if    *)
(* there is room. Requests are served while the process is up, and those   *)
(* in flight are finished while it stops.                                  *)
Enqueue(k) ==
  /\ \/ proc \in {"up", "stopping"}
     \/ \E w \in Workers : phase[w] = "exec"
  /\ last < MaxJobs
  /\ last' = last + 1
  /\ status' = [status EXCEPT ![last + 1] = "queued"]
  /\ lockKey' = [lockKey EXCEPT ![last + 1] = k]
  /\ wake' = 1
  /\ UNCHANGED <<procVars, phase, job, faults, history>>

-----------------------------------------------------------------------------
(* Workers *)

(* ClaimJob found a row: one UPDATE ... RETURNING. *)
Claim(w) ==
  /\ phase[w] = "claim" /\ proc \in {"up", "deaf"}
  /\ \E j \in Ids :
       /\ Oldest(j)
       /\ status' = [status EXCEPT ![j] = "running"]
       /\ job' = [job EXCEPT ![w] = j]
  /\ phase' = [phase EXCEPT ![w] = "exec"]
  /\ UNCHANGED <<lockKey, last, procVars, wake, faults, history>>

(* ClaimJob found nothing to run. *)
ClaimNothing(w) ==
  /\ phase[w] = "claim" /\ proc \in {"up", "deaf"}
  /\ ~ \E j \in Ids : Runnable(j)
  /\ phase' = [phase EXCEPT ![w] = "park"]
  /\ UNCHANGED <<queueVars, procVars, job, wake, faults, history>>

(* ClaimJob failed: logged, then treated as nothing to run. *)
ClaimFails(w) ==
  /\ phase[w] = "claim" /\ proc \in {"up", "deaf"}
  /\ faults < MaxFaults
  /\ faults' = faults + 1
  /\ phase' = [phase EXCEPT ![w] = "park"]
  /\ UNCHANGED <<queueVars, procVars, job, wake, history>>

(* With the context cancelled ClaimJob returns its error and the worker    *)
(* exits. A cancellation that arrives after the UPDATE took effect and     *)
(* before its row was read leaves the row "running" without a worker.      *)
ClaimCancelled(w) ==
  /\ phase[w] = "claim" /\ proc = "stopping"
  /\ \/ UNCHANGED <<status, lost>>
     \/ \E j \in Ids :
          /\ Oldest(j)
          /\ status' = [status EXCEPT ![j] = "running"]
          /\ lost' = lost \cup {j}
  /\ phase' = [phase EXCEPT ![w] = "off"]
  /\ UNCHANGED <<lockKey, last, procVars, job, wake, faults, verdict, cut>>

(* The select of the worker loop: a token from the wake channel or the one *)
(* second tick sends it back to ClaimJob, a cancelled context ends it.     *)
WakeUp(w) ==
  /\ phase[w] = "park" /\ wake = 1
  /\ wake' = 0
  /\ phase' = [phase EXCEPT ![w] = "claim"]
  /\ UNCHANGED <<queueVars, procVars, job, faults, history>>

Tick(w) ==
  /\ phase[w] = "park"
  /\ phase' = [phase EXCEPT ![w] = "claim"]
  /\ UNCHANGED <<queueVars, procVars, job, wake, faults, history>>

Leave(w) ==
  /\ phase[w] = "park" /\ proc = "stopping"
  /\ phase' = [phase EXCEPT ![w] = "off"]
  /\ UNCHANGED <<queueVars, procVars, job, wake, faults, history>>

(* The handler returns nil. It may do so even though its context was       *)
(* cancelled.                                                              *)
HandlerOk(w) ==
  /\ phase[w] = "exec"
  /\ phase' = [phase EXCEPT ![w] = "ok"]
  /\ verdict' = [verdict EXCEPT ![job[w]] = "ok"]
  /\ UNCHANGED <<queueVars, procVars, job, wake, faults, cut, lost>>

(* The handler returns an error, panics, runs into the timeout of an hour  *)
(* or does not exist ("own"), or gives up because the context was          *)
(* cancelled ("cut").                                                      *)
HandlerErr(w) ==
  /\ phase[w] = "exec"
  /\ phase' = [phase EXCEPT ![w] = "err"]
  /\ \E why \in {"own"} \cup (IF proc = "stopping" THEN {"cut"} ELSE {}) :
       verdict' = [verdict EXCEPT ![job[w]] = why]
  /\ UNCHANGED <<queueVars, procVars, job, wake, faults, cut, lost>>

(* The end of run: the outcome is written with a context of its own, so a  *)
(* shutdown does not keep it from being written. *)
Done(w) ==
  /\ phase[w] = "ok"
  /\ status' = FinishJob(job[w], "done")
  /\ phase' = [phase EXCEPT ![w] = "claim"]
  /\ job' = [job EXCEPT ![w] = NoJob]
  /\ UNCHANGED <<lockKey, last, procVars, wake, faults, history>>

(* Wrong: the context is not looked at before the failure is written. *)
FailedAnyway(w) ==
  /\ phase[w] = "err"
  /\ status' = FinishJob(job[w], "failed")
  /\ phase' = [phase EXCEPT ![w] = "claim"]
  /\ job' = [job EXCEPT ![w] = NoJob]
  /\ UNCHANGED <<lockKey, last, procVars, wake, faults, history>>

Failed(w) ==
  /\ phase[w] = "err" /\ proc # "stopping"
  /\ status' = FinishJob(job[w], "failed")
  /\ phase' = [phase EXCEPT ![w] = "claim"]
  /\ job' = [job EXCEPT ![w] = NoJob]
  /\ UNCHANGED <<lockKey, last, procVars, wake, faults, history>>

(* Wrong: a handler that succeeded during the shutdown counts as cut off. *)
InterruptedEvenIfOk(w) ==
  /\ phase[w] \in {"ok", "err"} /\ proc = "stopping"
  /\ lost' = lost \cup {job[w]}
  /\ phase' = [phase EXCEPT ![w] = "claim"]
  /\ job' = [job EXCEPT ![w] = NoJob]
  /\ UNCHANGED <<queueVars, procVars, wake, faults, verdict, cut>>

(* An error while the context is cancelled: the row stays "running". *)
Interrupted(w) ==
  /\ phase[w] = "err" /\ proc = "stopping"
  /\ lost' = lost \cup {job[w]}
  /\ phase' = [phase EXCEPT ![w] = "claim"]
  /\ job' = [job EXCEPT ![w] = NoJob]
  /\ UNCHANGED <<queueVars, procVars, wake, faults, verdict, cut>>

(* FinishJob fails and run discards its error: the row stays "running".    *)
FinishLost(w) ==
  /\ \/ phase[w] = "ok"
     \/ phase[w] = "err" /\ proc # "stopping"
  /\ faults < MaxFaults
  /\ faults' = faults + 1
  /\ lost' = lost \cup {job[w]}
  /\ cut' = IF phase[w] = "ok" THEN cut \cup {job[w]} ELSE cut
  /\ phase' = [phase EXCEPT ![w] = "claim"]
  /\ job' = [job EXCEPT ![w] = NoJob]
  /\ UNCHANGED <<queueVars, procVars, wake, verdict>>

-----------------------------------------------------------------------------
(* The process *)

(* Start: put stale rows back (an error there is ignored), then spawn the  *)
(* workers; the API begins to serve afterwards.                            *)
Start ==
  /\ proc = "down" /\ starts < MaxStarts
  /\ starts' = starts + 1
  /\ proc' = "up"
  /\ phase' = [w \in Workers |-> "claim"]
  /\ \/ /\ status' = RequeueStaleJobs
        /\ lost' = {}
        /\ UNCHANGED faults
     \/ /\ faults < MaxFaults
        /\ faults' = faults + 1
        /\ lost' = {j \in Ids : status[j] = "running"}
        /\ UNCHANGED status
  /\ UNCHANGED <<lockKey, last, job, wake, verdict, cut>>

(* SIGTERM cancels the context of the process. *)
Cancel ==
  /\ proc \in {"up", "deaf"} /\ starts < MaxStarts
  /\ proc' = "stopping"
  /\ UNCHANGED <<queueVars, starts, phase, job, wake, faults, history>>

(* A listener fails: Run returns the error, but the context the workers    *)
(* watch is not cancelled, so the process stays in Wait.                   *)
ServeFails ==
  /\ proc = "up"
  /\ proc' = "deaf"
  /\ UNCHANGED <<queueVars, starts, phase, job, wake, faults, history>>

(* Wait returns when every worker has left. *)
Exit ==
  /\ proc = "stopping" /\ \A w \in Workers : phase[w] = "off"
  /\ proc' = "down"
  /\ wake' = 0
  /\ UNCHANGED <<queueVars, starts, phase, job, faults, history>>

(* The process is killed: only the table survives. *)
Crash ==
  /\ proc # "down" /\ starts < MaxStarts
  /\ proc' = "down"
  /\ phase' = [w \in Workers |-> "off"]
  /\ job' = [w \in Workers |-> NoJob]
  /\ wake' = 0
  /\ cut' = cut \cup {j \in Ids : \E w \in Workers : job[w] = j /\ phase[w] = "ok"}
  /\ lost' = {j \in Ids : status[j] = "running"}
  /\ UNCHANGED <<queueVars, starts, faults, verdict>>

-----------------------------------------------------------------------------
WorkerStep(w) ==
  \/ Claim(w) \/ ClaimNothing(w) \/ ClaimFails(w) \/ ClaimCancelled(w)
  \/ WakeUp(w) \/ Tick(w) \/ Leave(w)
  \/ HandlerOk(w) \/ HandlerErr(w)
  \/ Done(w) \/ Failed(w) \/ Interrupted(w) \/ FinishLost(w)

Next ==
  \/ \E k \in Keys \cup {NoKey} : Enqueue(k)
  \/ \E w \in Workers : WorkerStep(w)
  \/ Start \/ Cancel \/ ServeFails \/ Exit \/ Crash

Spec == Init /\ [][Next]_vars

(* A worker goroutine keeps running, its ticker fires, a handler returns   *)
(* (it has a timeout), and systemd starts the process again.               *)
Fairness ==
  /\ \A w \in Workers : WF_vars(WorkerStep(w))
  /\ WF_vars(Start) /\ WF_vars(Exit)

FairSpec == Spec /\ Fairness

-----------------------------------------------------------------------------
(* Properties *)

(* Type invariant. *)
TypeOK ==
  /\ status \in [Ids -> Statuses]
  /\ lockKey \in [Ids -> Keys \cup {NoKey}]
  /\ last \in 0..MaxJobs
  /\ proc \in Procs
  /\ phase \in [Workers -> Phases]
  /\ job \in [Workers -> Ids \cup {NoJob}]
  /\ wake \in {0, 1}
  /\ starts \in 0..MaxStarts
  /\ faults \in 0..MaxFaults
  /\ verdict \in [Ids -> Verdicts]
  /\ cut \subseteq Ids
  /\ lost \subseteq Ids

Busy(w) == phase[w] \in {"exec", "ok", "err"}

(* "Jobs with the same lock_key run strictly one after another": no two    *)
(* workers are inside run with the same row or with rows of one lock key,  *)
(* whatever restarts, kills and failed writes came before.                 *)
LockExclusion ==
  \A v, w \in Workers :
    v # w /\ Busy(v) /\ Busy(w) => job[v] # job[w] /\ ~SameKey(job[v], job[w])

(* Jobs of one lock key take effect in the order they were accepted: a row *)
(* that has left the queue finds every earlier row of its key finished,    *)
(* also when an interrupted row went back to the queue.                    *)
KeyOrder ==
  \A i, j \in Ids :
    i < j /\ SameKey(i, j) /\ status[j] \in {"running"} \cup Terminal => status[i] \in Terminal

(* A "running" row does not hold its lock key for nobody: while the panel  *)
(* serves and no SQL statement has failed, some worker is running it.      *)
RunningIsExecuted ==
  proc = "up" /\ faults = 0 =>
    \A j \in Ids : status[j] = "running" => \E w \in Workers : job[w] = j

(* The verdict in the table is the handler's own: "done" only after the    *)
(* last run succeeded, "failed" never because the panel was stopping.      *)
VerdictTrue ==
  \A j \in Ids : /\ status[j] = "done" => verdict[j] = "ok"
                 /\ status[j] = "failed" => verdict[j] = "own"

(* A job whose handler succeeded is not run again by an orderly restart:   *)
(* only a kill or a failed write between the success and its record can    *)
(* repeat it.                                                              *)
NoNeedlessRepeat ==
  \A w \in Workers : phase[w] = "exec" /\ verdict[job[w]] = "ok" => job[w] \in cut

(* The promise of the abstract queue. *)
Queue == INSTANCE SerialQueue WITH
  state <- [j \in Ids |-> CASE status[j] = "none" -> "none"
                          [] status[j] = "queued" -> "waiting"
                          [] status[j] = "running" -> "active"
                          [] OTHER -> "ended"],
  key <- lockKey,
  accepted <- last

ImplementsQueue == Queue!Spec

(* Every queued job ends, unless an earlier write of its own or of a job   *)
(* with its lock key was lost and the key stays held until a restart.      *)
Progress ==
  \A j \in Ids :
    (status[j] = "queued") ~>
      (status[j] \in Terminal \/ \E i \in lost : i = j \/ SameKey(i, j))
=============================================================================
