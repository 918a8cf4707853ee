---------------------------- MODULE JobQueueProofs ----------------------------
(***************************************************************************)
(* Proofs about JobQueue, for any number of workers, keys, jobs, starts    *)
(* and failing statements: the invariants the runs check on small          *)
(* instances, and that the runner implements SerialQueue.                  *)
(***************************************************************************)
EXTENDS JobQueue, TLAPS

-----------------------------------------------------------------------------
(* The inductive invariant *)

(* Ids are handed out in order: a row exists up to last and not beyond.    *)
RowsUpToLast == \A j \in Ids : status[j] = "none" <=> j > last

(* A busy worker has a row of its own, and that row is "running".          *)
BusyOwnsRow ==
  \A w \in Workers : /\ Busy(w) <=> job[w] # NoJob
                     /\ Busy(w) => status[job[w]] = "running"

NoSharedRow ==
  \A v, w \in Workers : v # w /\ Busy(v) /\ Busy(w) => job[v] # job[w]

DownIsIdle == proc = "down" => \A w \in Workers : phase[w] = "off"

(* A "running" row is in the hands of a worker or known to be orphaned,    *)
(* and while nothing stops the process only a failed statement orphans.    *)
RunningIsHeld ==
  \A j \in Ids : status[j] = "running" => j \in lost \/ \E w \in Workers : job[w] = j

OrphansHaveCause ==
  proc \in {"up", "deaf"} /\ faults = 0 => lost = {}

(* What a returned handler has left behind. *)
ReturnRecorded ==
  \A w \in Workers : /\ phase[w] = "ok" => verdict[job[w]] = "ok"
                     /\ phase[w] = "err" /\ proc # "stopping" => verdict[job[w]] = "own"

(* An unfinished row whose handler succeeded is about to be recorded, or   *)
(* its record was cut off.                                                 *)
SuccessAccounted ==
  \A j \in Ids : verdict[j] = "ok" /\ status[j] \notin Terminal =>
    j \in cut \/ \E w \in Workers : job[w] = j /\ phase[w] = "ok"

Base == TypeOK /\ RowsUpToLast /\ BusyOwnsRow /\ NoSharedRow /\ DownIsIdle

USE BoundsAssumption, NoKeyAssumption DEF Ids, NoJob

-----------------------------------------------------------------------------
(* The basic part: types, and who holds which row. *)

LEMMA InitBase == Init => Base
<1> SUFFICES ASSUME Init PROVE Base  OBVIOUS
<1> USE DEF Init
<1>1. TypeOK  BY DEF TypeOK, Statuses, Phases, Procs, Verdicts
<1>2. RowsUpToLast  BY DEF RowsUpToLast
<1>3. BusyOwnsRow /\ NoSharedRow  BY DEF BusyOwnsRow, NoSharedRow, Busy
<1>4. DownIsIdle  BY DEF DownIsIdle
<1> QED  BY <1>1, <1>2, <1>3, <1>4 DEF Base

LEMMA EnqueueBase ==
  ASSUME Base, NEW k \in Keys \cup {NoKey}, Enqueue(k) PROVE Base'
<1> USE DEF Base, Enqueue, procVars, history
<1>1. TypeOK'  BY DEF TypeOK, Statuses
<1>2. RowsUpToLast'  BY DEF TypeOK, RowsUpToLast
<1>3. BusyOwnsRow' /\ NoSharedRow'
  BY DEF TypeOK, RowsUpToLast, BusyOwnsRow, NoSharedRow, Busy
<1>4. DownIsIdle'  BY DEF DownIsIdle
<1> QED  BY <1>1, <1>2, <1>3, <1>4

LEMMA ClaimBase ==
  ASSUME Base, NEW w \in Workers, Claim(w) PROVE Base'
<1> PICK j \in Ids : /\ Oldest(j)
                     /\ status' = [status EXCEPT ![j] = "running"]
                     /\ job' = [job EXCEPT ![w] = j]
  BY DEF Claim
<1>1. status[j] = "queued"  BY DEF Oldest, Runnable
<1>2. TypeOK'  BY DEF Base, Claim, procVars, history, TypeOK, Statuses, Phases
<1>3. RowsUpToLast'
  BY <1>1 DEF Base, Claim, TypeOK, RowsUpToLast
<1>4. BusyOwnsRow' /\ NoSharedRow'
  BY <1>1 DEF Base, Claim, TypeOK, BusyOwnsRow, NoSharedRow, Busy
<1>5. DownIsIdle'  BY DEF Base, Claim, procVars, DownIsIdle
<1> QED  BY <1>2, <1>3, <1>4, <1>5 DEF Base

(* The steps of a worker that only move it between claim, park and off. *)
LEMMA IdleBase ==
  ASSUME Base, NEW w \in Workers,
         ClaimNothing(w) \/ ClaimFails(w) \/ WakeUp(w) \/ Tick(w) \/ Leave(w)
  PROVE  Base'
<1> USE DEF Base, ClaimNothing, ClaimFails, WakeUp, Tick, Leave, queueVars, procVars, history
<1>p. phase' \in [Workers -> Phases]  BY DEF TypeOK, Phases
<1>f. faults' \in 0..MaxFaults  BY DEF TypeOK
<1>w. wake' \in {0, 1}  BY DEF TypeOK
<1>1. TypeOK'  BY <1>p, <1>f, <1>w DEF TypeOK
<1>2. RowsUpToLast'  BY DEF RowsUpToLast
<1>3. BusyOwnsRow' /\ NoSharedRow'
  BY DEF TypeOK, BusyOwnsRow, NoSharedRow, Busy
<1>4. DownIsIdle'  BY DEF DownIsIdle, TypeOK
<1> QED  BY <1>1, <1>2, <1>3, <1>4

LEMMA ClaimCancelledBase ==
  ASSUME Base, NEW w \in Workers, ClaimCancelled(w) PROVE Base'
<1> USE DEF Base, ClaimCancelled, procVars
<1>1. TypeOK'  BY DEF TypeOK, Phases, Statuses
<1>2. RowsUpToLast'  BY DEF TypeOK, RowsUpToLast, Oldest, Runnable
<1>3. BusyOwnsRow' /\ NoSharedRow'
  BY DEF TypeOK, BusyOwnsRow, NoSharedRow, Busy, Oldest, Runnable
<1>4. DownIsIdle'  BY DEF DownIsIdle
<1> QED  BY <1>1, <1>2, <1>3, <1>4

LEMMA HandlerBase ==
  ASSUME Base, NEW w \in Workers, HandlerOk(w) \/ HandlerErr(w) PROVE Base'
<1> USE DEF Base, HandlerOk, HandlerErr, queueVars, procVars
<1>1. job[w] \in Ids  BY DEF TypeOK, BusyOwnsRow, Busy
<1>2. TypeOK'  BY <1>1 DEF TypeOK, Phases, Verdicts
<1>3. RowsUpToLast'  BY DEF RowsUpToLast
<1>4. BusyOwnsRow' /\ NoSharedRow'
  BY DEF TypeOK, BusyOwnsRow, NoSharedRow, Busy
<1>5. DownIsIdle'  BY DEF DownIsIdle
<1> QED  BY <1>2, <1>3, <1>4, <1>5

LEMMA ReturnBase ==
  ASSUME Base, NEW w \in Workers,
         Done(w) \/ Failed(w) \/ Interrupted(w) \/ FinishLost(w)
  PROVE  Base'
<1> USE DEF Base, Done, Failed, Interrupted, FinishLost, FinishJob, queueVars, procVars, history
<1>1. job[w] \in Ids /\ status[job[w]] = "running"  BY DEF TypeOK, BusyOwnsRow, Busy
<1>a. /\ phase' = [phase EXCEPT ![w] = "claim"]
      /\ job' = [job EXCEPT ![w] = NoJob]
      /\ UNCHANGED <<lockKey, last, proc, starts, wake, verdict>>
  OBVIOUS
<1>b. \/ status' = status
      \/ \E s \in Terminal : status' = [status EXCEPT ![job[w]] = s]
  BY DEF Terminal
<1>c. lost' \subseteq Ids /\ cut' \subseteq Ids  BY <1>1 DEF TypeOK
<1>f. faults' \in 0..MaxFaults  BY DEF TypeOK
<1> HIDE DEF Done, Failed, Interrupted, FinishLost
<1>d. status' \in [Ids -> Statuses]  BY <1>1, <1>b DEF TypeOK, Terminal, Statuses
<1>2. TypeOK'  BY <1>a, <1>c, <1>d, <1>f DEF TypeOK, Phases
<1>3. RowsUpToLast'  BY <1>1, <1>a, <1>b DEF TypeOK, RowsUpToLast, Terminal
<1>4. BusyOwnsRow' /\ NoSharedRow'
  BY <1>1, <1>a, <1>b DEF TypeOK, BusyOwnsRow, NoSharedRow, Busy, Terminal
<1>5. DownIsIdle'
  <2>1. phase[w] # "off"  BY DEF Done, Failed, Interrupted, FinishLost
  <2> QED  BY <2>1, <1>a DEF DownIsIdle, TypeOK
<1> QED  BY <1>2, <1>3, <1>4, <1>5

LEMMA ProcessBase ==
  ASSUME Base, Start \/ Cancel \/ ServeFails \/ Exit \/ Crash PROVE Base'
<1>1. CASE Start
  <2>1. \A w \in Workers : phase[w] = "off" /\ job[w] = NoJob
    BY <1>1 DEF Start, Base, DownIsIdle, BusyOwnsRow, Busy, TypeOK
  <2>2. TypeOK'  BY <1>1 DEF Start, RequeueStaleJobs, Base, TypeOK, Statuses, Phases, Procs
  <2>3. RowsUpToLast'  BY <1>1 DEF Start, RequeueStaleJobs, Base, TypeOK, RowsUpToLast
  <2>4. BusyOwnsRow' /\ NoSharedRow'
    BY <1>1, <2>1 DEF Start, Base, TypeOK, BusyOwnsRow, NoSharedRow, Busy
  <2>5. DownIsIdle'  BY <1>1 DEF Start, DownIsIdle
  <2> QED  BY <2>2, <2>3, <2>4, <2>5 DEF Base
<1>2. CASE Cancel \/ ServeFails \/ Exit
  <2> USE DEF Cancel, ServeFails, Exit, queueVars, history, Base
  <2>1. TypeOK'  BY <1>2 DEF TypeOK, Procs
  <2>2. RowsUpToLast'  BY <1>2 DEF RowsUpToLast
  <2>3. BusyOwnsRow' /\ NoSharedRow'
    BY <1>2 DEF BusyOwnsRow, NoSharedRow, Busy
  <2>4. DownIsIdle'  BY <1>2 DEF DownIsIdle
  <2> QED  BY <2>1, <2>2, <2>3, <2>4
<1>3. CASE Crash
  <2> USE <1>3 DEF Crash, queueVars, Base
  <2>a. cut' \subseteq Ids  BY DEF TypeOK
  <2>b. lost' \subseteq Ids  OBVIOUS
  <2>c. phase' \in [Workers -> Phases] /\ job' \in [Workers -> Ids \cup {NoJob}]  BY DEF Phases
  <2>2. TypeOK'  BY <2>a, <2>b, <2>c DEF TypeOK, Procs
  <2>3. RowsUpToLast'  BY DEF RowsUpToLast
  <2>4. BusyOwnsRow' /\ NoSharedRow'
    BY DEF TypeOK, BusyOwnsRow, NoSharedRow, Busy
  <2>5. DownIsIdle'  BY DEF DownIsIdle
  <2> QED  BY <2>2, <2>3, <2>4, <2>5
<1> QED  BY <1>1, <1>2, <1>3

LEMMA StutterBase == ASSUME Base, UNCHANGED vars PROVE Base'
  BY DEF vars, Base, TypeOK, RowsUpToLast, BusyOwnsRow, NoSharedRow, DownIsIdle, Busy

LEMMA NextBase == ASSUME Base, [Next]_vars PROVE Base'
<1>1. ASSUME NEW w \in Workers, WorkerStep(w) PROVE Base'
  BY <1>1, ClaimBase, IdleBase, ClaimCancelledBase, HandlerBase, ReturnBase DEF WorkerStep
<1> QED  BY <1>1, EnqueueBase, ProcessBase, StutterBase DEF Next

(* Type correctness: every column and every worker's local state stays in  *)
(* its domain.                                                             *)
THEOREM TypeCorrect == Spec => []TypeOK
<1>1. Init => Base  BY InitBase
<1>2. Base /\ [Next]_vars => Base'  BY NextBase
<1>3. Base => TypeOK  BY DEF Base
<1> QED  BY <1>1, <1>2, <1>3, PTL DEF Spec

-----------------------------------------------------------------------------
(* What a step does to the table, which is all the order of the jobs and   *)
(* the abstract queue depend on.                                           *)

RowInserted(k) ==
  /\ last < MaxJobs
  /\ last' = last + 1
  /\ status' = [status EXCEPT ![last + 1] = "queued"]
  /\ lockKey' = [lockKey EXCEPT ![last + 1] = k]

RowClaimed(j) ==
  /\ Oldest(j)
  /\ status' = [status EXCEPT ![j] = "running"]
  /\ UNCHANGED <<lockKey, last>>

RowFinished(j) ==
  /\ status[j] = "running"
  /\ \E s \in Terminal : status' = [status EXCEPT ![j] = s]
  /\ UNCHANGED <<lockKey, last>>

RowsRequeued ==
  /\ status' = RequeueStaleJobs
  /\ UNCHANGED <<lockKey, last>>

LEMMA TableStep ==
  ASSUME Base, [Next]_vars
  PROVE  \/ \E k \in Keys \cup {NoKey} : RowInserted(k)
         \/ \E j \in Ids : RowClaimed(j) \/ RowFinished(j)
         \/ RowsRequeued
         \/ UNCHANGED queueVars
<1>1. ASSUME NEW k \in Keys \cup {NoKey}, Enqueue(k) PROVE RowInserted(k)
  BY <1>1 DEF Enqueue, RowInserted
<1>2. ASSUME NEW w \in Workers, Claim(w) \/ ClaimCancelled(w)
      PROVE  (\E j \in Ids : RowClaimed(j)) \/ UNCHANGED queueVars
  BY <1>2 DEF Claim, ClaimCancelled, RowClaimed, queueVars
<1>3. ASSUME NEW w \in Workers, Done(w) \/ Failed(w)
      PROVE  \E j \in Ids : RowFinished(j)
  <2>1. job[w] \in Ids /\ status[job[w]] = "running"
    BY <1>3 DEF Base, TypeOK, BusyOwnsRow, Busy, Done, Failed
  <2>2. RowFinished(job[w])
    BY <1>3, <2>1 DEF Done, Failed, RowFinished, FinishJob, Terminal
  <2> QED  BY <2>1, <2>2
<1>4. ASSUME NEW w \in Workers,
             \/ ClaimNothing(w) \/ ClaimFails(w) \/ WakeUp(w) \/ Tick(w) \/ Leave(w)
             \/ HandlerOk(w) \/ HandlerErr(w) \/ Interrupted(w) \/ FinishLost(w)
      PROVE  UNCHANGED queueVars
  BY <1>4 DEF ClaimNothing, ClaimFails, WakeUp, Tick, Leave, HandlerOk, HandlerErr,
              Interrupted, FinishLost
<1>5. ASSUME Start PROVE RowsRequeued \/ UNCHANGED queueVars
  BY <1>5 DEF Start, RowsRequeued, queueVars
<1>6. ASSUME Cancel \/ ServeFails \/ Exit \/ Crash PROVE UNCHANGED queueVars
  BY <1>6 DEF Cancel, ServeFails, Exit, Crash
<1>7. ASSUME UNCHANGED vars PROVE UNCHANGED queueVars
  BY <1>7 DEF vars, queueVars
<1> QED  BY <1>1, <1>2, <1>3, <1>4, <1>5, <1>6, <1>7 DEF Next, WorkerStep

(* The row ClaimJob takes has no unfinished row of its key before it. *)
LEMMA ClaimedIsFirst ==
  ASSUME Base, KeyOrder, NEW j \in Ids, Oldest(j), NEW i \in Ids, i < j, SameKey(i, j)
  PROVE  status[i] \in Terminal
<1>1. status[i] \in {"queued", "running"} \cup Terminal
  BY DEF Base, TypeOK, Statuses, Terminal, RowsUpToLast, Oldest, Runnable
<1>2. status[i] # "running"  BY DEF Oldest, Runnable
<1>3. status[i] # "queued"
  BY DEF Oldest, Runnable, SameKey
<1> QED  BY <1>1, <1>2, <1>3

LEMMA NextKeyOrder == ASSUME Base, KeyOrder, [Next]_vars PROVE KeyOrder'
<1> SUFFICES ASSUME NEW i \in Ids, NEW j \in Ids, i < j, SameKey(i, j)',
                    status'[j] \in {"running"} \cup Terminal
             PROVE  status'[i] \in Terminal
  BY DEF KeyOrder
<1> USE DEF SameKey, Terminal
<1>1. CASE \E k \in Keys \cup {NoKey} : RowInserted(k)
  BY <1>1 DEF RowInserted, KeyOrder, Base, TypeOK, RowsUpToLast
<1>2. CASE \E c \in Ids : RowClaimed(c)
  <2> PICK c \in Ids : RowClaimed(c)  BY <1>2
  <2>1. SameKey(i, j)  BY DEF RowClaimed
  <2>2. status[i] \in Terminal
    BY <2>1, ClaimedIsFirst DEF RowClaimed, KeyOrder, Base, TypeOK
  <2> QED  BY <2>2 DEF RowClaimed, Oldest, Runnable, Base, TypeOK
<1>3. CASE \E c \in Ids : RowFinished(c)
  BY <1>3 DEF RowFinished, KeyOrder, Base, TypeOK
<1>4. CASE RowsRequeued
  BY <1>4 DEF RowsRequeued, RequeueStaleJobs, KeyOrder, Base, TypeOK
<1>5. CASE UNCHANGED queueVars
  BY <1>5 DEF queueVars, KeyOrder
<1> QED  BY <1>1, <1>2, <1>3, <1>4, <1>5, TableStep

-----------------------------------------------------------------------------
(* "Jobs with the same lock_key run strictly one after another": the core  *)
(* promise of the runner, for any number of workers and restarts.          *)

LEMMA Exclusive == ASSUME Base, KeyOrder PROVE LockExclusion
<1> SUFFICES ASSUME NEW v \in Workers, NEW w \in Workers, v # w, Busy(v), Busy(w)
             PROVE  job[v] # job[w] /\ ~SameKey(job[v], job[w])
  BY DEF LockExclusion
<1>1. /\ job[v] \in Ids /\ job[w] \in Ids /\ job[v] # job[w]
      /\ status[job[v]] = "running" /\ status[job[w]] = "running"
  BY DEF Base, TypeOK, BusyOwnsRow, NoSharedRow
<1>2. ~SameKey(job[v], job[w])
  BY <1>1 DEF KeyOrder, SameKey, Terminal
<1> QED  BY <1>1, <1>2

THEOREM LocksExclude == Spec => []LockExclusion
<1>1. Init => Base /\ KeyOrder
  BY InitBase DEF Init, KeyOrder, SameKey
<1>2. Base /\ KeyOrder /\ [Next]_vars => (Base /\ KeyOrder)'
  BY NextBase, NextKeyOrder
<1>3. Base /\ KeyOrder => LockExclusion  BY Exclusive
<1> QED  BY <1>1, <1>2, <1>3, PTL DEF Spec

(* Rows of one lock key finish in the order they were accepted. *)
THEOREM KeysInOrder == Spec => []KeyOrder
<1>1. Init => Base /\ KeyOrder
  BY InitBase DEF Init, KeyOrder, SameKey
<1>2. Base /\ KeyOrder /\ [Next]_vars => (Base /\ KeyOrder)'
  BY NextBase, NextKeyOrder
<1> QED  BY <1>1, <1>2, PTL DEF Spec

-----------------------------------------------------------------------------
(* The runner implements the abstract queue: every step is a step of       *)
(* SerialQueue or leaves the mapped state alone.                           *)

Abs(t) == CASE t = "none" -> "none"
            [] t = "queued" -> "waiting"
            [] t = "running" -> "active"
            [] OTHER -> "ended"

LEMMA QueueInit == Init => Queue!Init
  BY DEF Init, Queue!Init, Queue!Ids

LEMMA QueueStep == ASSUME Base, KeyOrder, [Next]_vars PROVE [Queue!Next]_(Queue!vars)
<1> DEFINE st == [j \in Ids |-> Abs(status[j])]
<1> USE DEF Queue!Ids, Queue!SameKey, SameKey
<1>1. ASSUME NEW k \in Keys \cup {NoKey}, RowInserted(k) PROVE Queue!Accept(k)
  BY <1>1 DEF RowInserted, Queue!Accept, Base, TypeOK
<1>2. ASSUME NEW c \in Ids, RowClaimed(c) PROVE Queue!Begin(c)
  <2> USE <1>2 DEF RowClaimed
  <2>1. status[c] = "queued"  BY DEF Oldest, Runnable
  <2>2. \A i \in Ids : i < c /\ SameKey(i, c) => status[i] \in Terminal
    BY ClaimedIsFirst
  <2>3. \A i \in Ids : SameKey(i, c) => status[i] # "running"
    BY DEF Oldest, Runnable
  <2> QED  BY <2>1, <2>2, <2>3 DEF Queue!Begin, Base, TypeOK, Terminal, Statuses
<1>3. ASSUME NEW c \in Ids, RowFinished(c) PROVE Queue!End(c)
  BY <1>3 DEF RowFinished, Queue!End, Base, TypeOK, Terminal
<1>4. ASSUME RowsRequeued PROVE Queue!Recover
  BY <1>4 DEF RowsRequeued, RequeueStaleJobs, Queue!Recover, Base, TypeOK, Statuses
<1>5. ASSUME UNCHANGED queueVars PROVE UNCHANGED Queue!vars
  BY <1>5 DEF queueVars, Queue!vars
<1> QED  BY <1>1, <1>2, <1>3, <1>4, <1>5, TableStep DEF Queue!Next

THEOREM Implements == Spec => ImplementsQueue
<1>1. Init => Base /\ KeyOrder
  BY InitBase DEF Init, KeyOrder, SameKey
<1>2. Base /\ KeyOrder /\ [Next]_vars => (Base /\ KeyOrder)'
  BY NextBase, NextKeyOrder
<1>3. Base /\ KeyOrder /\ [Next]_vars => [Queue!Next]_(Queue!vars)
  BY QueueStep
<1> QED  BY <1>1, <1>2, <1>3, QueueInit, PTL DEF Spec, ImplementsQueue, Queue!Spec

-----------------------------------------------------------------------------
(* No row is "running" for nobody. *)

Held == RunningIsHeld /\ OrphansHaveCause

LEMMA NextHeld == ASSUME Base, Held, [Next]_vars PROVE Held'
<1> USE DEF Held, Base
<1>1. ASSUME NEW k \in Keys \cup {NoKey}, Enqueue(k) PROVE Held'
  BY <1>1 DEF Enqueue, procVars, history, RunningIsHeld, OrphansHaveCause, TypeOK
<1>2. ASSUME NEW w \in Workers, Claim(w) PROVE Held'
  <2>1. job[w] = NoJob  BY <1>2 DEF Claim, BusyOwnsRow, Busy
  <2>2. RunningIsHeld'  BY <1>2, <2>1 DEF Claim, history, RunningIsHeld, TypeOK
  <2> QED  BY <1>2, <2>2 DEF Claim, procVars, history, OrphansHaveCause
<1>3. ASSUME NEW w \in Workers, ClaimCancelled(w) PROVE Held'
  BY <1>3 DEF ClaimCancelled, procVars, RunningIsHeld, OrphansHaveCause, TypeOK
<1>4. ASSUME NEW w \in Workers,
             \/ ClaimNothing(w) \/ ClaimFails(w) \/ WakeUp(w) \/ Tick(w) \/ Leave(w)
             \/ HandlerOk(w) \/ HandlerErr(w)
      PROVE  Held'
  <2> USE <1>4 DEF ClaimNothing, ClaimFails, WakeUp, Tick, Leave, HandlerOk, HandlerErr,
                   queueVars, procVars, history
  <2>1. RunningIsHeld'  BY DEF RunningIsHeld
  <2>2. faults' = 0 => faults = 0  BY DEF TypeOK
  <2>3. UNCHANGED <<proc, lost>>  OBVIOUS
  <2>4. OrphansHaveCause'  BY <2>2, <2>3 DEF OrphansHaveCause
  <2> QED  BY <2>1, <2>4
<1>5. ASSUME NEW w \in Workers, Done(w) \/ Failed(w) PROVE Held'
  <2> USE <1>5 DEF Done, Failed, FinishJob, Terminal, procVars, history
  <2>1. job[w] \in Ids  BY DEF TypeOK, BusyOwnsRow, Busy
  <2>2. RunningIsHeld'  BY <2>1 DEF RunningIsHeld, TypeOK
  <2>3. OrphansHaveCause'  BY DEF OrphansHaveCause
  <2> QED  BY <2>2, <2>3
<1>6. ASSUME NEW w \in Workers, Interrupted(w) \/ FinishLost(w) PROVE Held'
  <2> USE <1>6 DEF Interrupted, FinishLost, queueVars, procVars
  <2>1. RunningIsHeld'  BY DEF RunningIsHeld, TypeOK
  <2>2. OrphansHaveCause'  BY DEF OrphansHaveCause, TypeOK
  <2> QED  BY <2>1, <2>2
<1>7. ASSUME Start PROVE Held'
  <2> USE <1>7 DEF Start, RequeueStaleJobs
  <2>1. RunningIsHeld'
    <3>1. CASE status' = RequeueStaleJobs  BY <3>1 DEF RunningIsHeld, TypeOK
    <3>2. CASE lost' = {j \in Ids : status[j] = "running"} /\ UNCHANGED status
      BY <3>2 DEF RunningIsHeld
    <3> QED  BY <3>1, <3>2
  <2>2. OrphansHaveCause'  BY DEF OrphansHaveCause, TypeOK
  <2> QED  BY <2>1, <2>2
<1>8. ASSUME Cancel \/ ServeFails \/ Exit PROVE Held'
  BY <1>8 DEF Cancel, ServeFails, Exit, queueVars, history, RunningIsHeld, OrphansHaveCause
<1>9. ASSUME Crash PROVE Held'
  BY <1>9 DEF Crash, queueVars, RunningIsHeld, OrphansHaveCause
<1>10. ASSUME UNCHANGED vars PROVE Held'
  BY <1>10 DEF vars, RunningIsHeld, OrphansHaveCause
<1> QED
  BY <1>1, <1>2, <1>3, <1>4, <1>5, <1>6, <1>7, <1>8, <1>9, <1>10 DEF Next, WorkerStep

(* A lock key is never held by a row nobody runs while the panel serves    *)
(* and the database accepts its writes.                                    *)
THEOREM NoOrphans == Spec => []RunningIsExecuted
<1>1. Init => Base /\ Held
  BY InitBase DEF Init, Held, RunningIsHeld, OrphansHaveCause
<1>2. Base /\ Held /\ [Next]_vars => (Base /\ Held)'
  BY NextBase, NextHeld
<1>3. Held => RunningIsExecuted
  BY DEF Held, RunningIsHeld, OrphansHaveCause, RunningIsExecuted
<1> QED  BY <1>1, <1>2, <1>3, PTL DEF Spec

-----------------------------------------------------------------------------
(* Nothing stands still: the safety half of Progress. *)

(* While the context of the process is not cancelled, also after its       *)
(* listener has failed, no worker has left, and a queued row is one a      *)
(* worker may claim, or its lock key is held by a row that a worker is     *)
(* inside run with or that is known to be orphaned until the next start.   *)
QueueMoves ==
  proc \in {"up", "deaf"} =>
    /\ \A w \in Workers : phase[w] # "off"
    /\ \A j \in Ids : status[j] = "queued" =>
         \/ Runnable(j)
         \/ \E r \in Ids : /\ status[r] = "running" /\ SameKey(r, j)
                           /\ \/ r \in lost
                              \/ \E w \in Workers : Busy(w) /\ job[w] = r

WorkersStay == proc \in {"up", "deaf"} => \A w \in Workers : phase[w] # "off"

LEMMA NextWorkersStay == ASSUME Base, WorkersStay, [Next]_vars PROVE WorkersStay'
<1> USE DEF Base, TypeOK, WorkersStay, queueVars, procVars, history
<1>1. ASSUME NEW k \in Keys \cup {NoKey}, Enqueue(k) PROVE WorkersStay'
  BY <1>1 DEF Enqueue
<1>2. ASSUME NEW w \in Workers, Claim(w) \/ ClaimNothing(w) \/ ClaimFails(w) PROVE WorkersStay'
  BY <1>2 DEF Claim, ClaimNothing, ClaimFails
<1>3. ASSUME NEW w \in Workers, ClaimCancelled(w) \/ Leave(w) PROVE WorkersStay'
  BY <1>3 DEF ClaimCancelled, Leave
<1>4. ASSUME NEW w \in Workers, WakeUp(w) \/ Tick(w) \/ HandlerOk(w) \/ HandlerErr(w)
      PROVE  WorkersStay'
  BY <1>4 DEF WakeUp, Tick, HandlerOk, HandlerErr
<1>5. ASSUME NEW w \in Workers, Done(w) \/ Failed(w) \/ Interrupted(w) \/ FinishLost(w)
      PROVE  WorkersStay'
  BY <1>5 DEF Done, Failed, Interrupted, FinishLost
<1>6. ASSUME Start PROVE WorkersStay'  BY <1>6 DEF Start
<1>7. ASSUME Cancel \/ ServeFails \/ Exit PROVE WorkersStay'
  BY <1>7 DEF Cancel, ServeFails, Exit
<1>8. ASSUME Crash PROVE WorkersStay'  BY <1>8 DEF Crash
<1>9. ASSUME UNCHANGED vars PROVE WorkersStay'  BY <1>9 DEF vars
<1> QED
  BY <1>1, <1>2, <1>3, <1>4, <1>5, <1>6, <1>7, <1>8, <1>9 DEF Next, WorkerStep

LEMMA HeldMoves == ASSUME Base, Held, WorkersStay PROVE QueueMoves
<1> SUFFICES ASSUME proc \in {"up", "deaf"}, NEW j \in Ids, status[j] = "queued", ~Runnable(j)
             PROVE  \E r \in Ids : /\ status[r] = "running" /\ SameKey(r, j)
                                   /\ r \in lost \/ \E w \in Workers : Busy(w) /\ job[w] = r
  BY DEF QueueMoves, WorkersStay
<1>1. PICK r \in Ids : status[r] = "running" /\ SameKey(r, j)  BY DEF Runnable
<1>2. r \in lost \/ \E w \in Workers : job[w] = r  BY <1>1 DEF Held, RunningIsHeld
<1>3. \A w \in Workers : job[w] = r => Busy(w)  BY DEF Base, BusyOwnsRow
<1> QED  BY <1>1, <1>2, <1>3

(* While the runner is up a job that waits can be claimed or waits for one *)
(* that is being run, unless the end of that one could not be written: a   *)
(* row is never put off for a lock key that nobody will give back.         *)
THEOREM NeverStuck == Spec => []QueueMoves
<1>1. Init => Base /\ Held /\ WorkersStay
  BY InitBase DEF Init, Held, RunningIsHeld, OrphansHaveCause, WorkersStay
<1>2. Base /\ Held /\ WorkersStay /\ [Next]_vars => (Base /\ Held /\ WorkersStay)'
  BY NextBase, NextHeld, NextWorkersStay
<1>3. Base /\ Held /\ WorkersStay => QueueMoves  BY HeldMoves
<1> QED  BY <1>1, <1>2, <1>3, PTL DEF Spec

-----------------------------------------------------------------------------
(* The recorded outcomes. *)

Outcomes == ReturnRecorded /\ VerdictTrue /\ SuccessAccounted

LEMMA NextOutcomes == ASSUME Base, Outcomes, [Next]_vars PROVE Outcomes'
<1> USE DEF Outcomes, Base
<1>1. ASSUME NEW k \in Keys \cup {NoKey}, Enqueue(k) PROVE Outcomes'
  <2> USE <1>1 DEF Enqueue, procVars, history
  <2>1. ReturnRecorded'  BY DEF ReturnRecorded
  <2>2. VerdictTrue'  BY DEF VerdictTrue, TypeOK
  <2>3. SuccessAccounted'
    BY DEF SuccessAccounted, TypeOK, RowsUpToLast, Terminal
  <2> QED  BY <2>1, <2>2, <2>3
<1>2. ASSUME NEW w \in Workers, Claim(w) PROVE Outcomes'
  <2> PICK c \in Ids : Oldest(c) /\ status' = [status EXCEPT ![c] = "running"]
                                 /\ job' = [job EXCEPT ![w] = c]
    BY <1>2 DEF Claim
  <2> USE <1>2 DEF Claim, procVars, history
  <2>0. job[w] = NoJob /\ status[c] = "queued"
    BY DEF BusyOwnsRow, Busy, Oldest, Runnable
  <2>1. ReturnRecorded'  BY DEF ReturnRecorded, TypeOK
  <2>2. VerdictTrue'  BY DEF VerdictTrue, TypeOK
  <2>3. SuccessAccounted'  BY <2>0 DEF SuccessAccounted, TypeOK, Terminal
  <2> QED  BY <2>1, <2>2, <2>3
<1>3. ASSUME NEW w \in Workers, ClaimCancelled(w) PROVE Outcomes'
  <2> USE <1>3 DEF ClaimCancelled, procVars, Oldest, Runnable
  <2>1. ReturnRecorded'  BY DEF ReturnRecorded, TypeOK
  <2>2. VerdictTrue'  BY DEF VerdictTrue, TypeOK
  <2>3. SuccessAccounted'  BY DEF SuccessAccounted, TypeOK, Terminal
  <2> QED  BY <2>1, <2>2, <2>3
<1>4. ASSUME NEW w \in Workers,
             ClaimNothing(w) \/ ClaimFails(w) \/ WakeUp(w) \/ Tick(w) \/ Leave(w)
      PROVE  Outcomes'
  <2> USE <1>4 DEF ClaimNothing, ClaimFails, WakeUp, Tick, Leave, queueVars, procVars, history
  <2>1. ReturnRecorded'  BY DEF ReturnRecorded, TypeOK
  <2>2. VerdictTrue'  BY DEF VerdictTrue
  <2>3. SuccessAccounted'  BY DEF SuccessAccounted, TypeOK
  <2> QED  BY <2>1, <2>2, <2>3
<1>5. ASSUME NEW w \in Workers, HandlerOk(w) \/ HandlerErr(w) PROVE Outcomes'
  <2>0. /\ job[w] \in Ids /\ status[job[w]] = "running" /\ phase[w] = "exec"
        /\ \A v \in Workers : v # w /\ Busy(v) => job[v] # job[w]
    BY <1>5 DEF HandlerOk, HandlerErr, TypeOK, BusyOwnsRow, NoSharedRow, Busy
  <2>1. ReturnRecorded'
    <3> SUFFICES ASSUME NEW v \in Workers
                 PROVE  /\ phase'[v] = "ok" => verdict'[job[v]] = "ok"
                        /\ phase'[v] = "err" /\ proc # "stopping" => verdict'[job[v]] = "own"
      BY <1>5 DEF HandlerOk, HandlerErr, procVars, ReturnRecorded
    <3>1. CASE v = w
      BY <1>5, <2>0, <3>1 DEF HandlerOk, HandlerErr, TypeOK
    <3>2. CASE v # w
      <4>1. phase'[v] = phase[v]  BY <1>5, <3>2 DEF HandlerOk, HandlerErr, TypeOK
      <4>2. Busy(v) => verdict'[job[v]] = verdict[job[v]]
        BY <1>5, <2>0, <3>2 DEF HandlerOk, HandlerErr, TypeOK, BusyOwnsRow
      <4> QED  BY <4>1, <4>2 DEF ReturnRecorded, Busy
    <3> QED  BY <3>1, <3>2
  <2>2. VerdictTrue'
    BY <1>5, <2>0 DEF HandlerOk, HandlerErr, queueVars, procVars, VerdictTrue, TypeOK
  <2>3. SuccessAccounted'
    BY <1>5, <2>0 DEF HandlerOk, HandlerErr, queueVars, procVars, SuccessAccounted, TypeOK
  <2> QED  BY <2>1, <2>2, <2>3
<1>6. ASSUME NEW w \in Workers,
             Done(w) \/ Failed(w) \/ Interrupted(w) \/ FinishLost(w)
      PROVE  Outcomes'
  <2>0. /\ job[w] \in Ids /\ status[job[w]] = "running"
        /\ \A v \in Workers : v # w /\ Busy(v) => job[v] # job[w]
    BY <1>6 DEF Done, Failed, Interrupted, FinishLost, TypeOK, BusyOwnsRow, NoSharedRow, Busy
  <2>1. ReturnRecorded'
    BY <1>6, <2>0 DEF Done, Failed, Interrupted, FinishLost, queueVars, procVars, history,
                      ReturnRecorded, TypeOK
  <2>2. VerdictTrue'
    BY <1>6, <2>0 DEF Done, Failed, Interrupted, FinishLost, FinishJob, queueVars, procVars,
                      history, VerdictTrue, ReturnRecorded, TypeOK
  <2>3. SuccessAccounted'
    <3>1. UNCHANGED verdict /\ cut \subseteq cut'
      BY <1>6 DEF Done, Failed, Interrupted, FinishLost, history
    <3>2. \A j \in Ids : status'[j] \notin Terminal => status[j] \notin Terminal
      BY <1>6, <2>0 DEF Done, Failed, Interrupted, FinishLost, FinishJob, queueVars, TypeOK,
                        Terminal
    <3>3. \A v \in Workers : v # w => phase'[v] = phase[v] /\ job'[v] = job[v]
      BY <1>6 DEF Done, Failed, Interrupted, FinishLost, TypeOK
    <3>4. phase[w] = "ok" => job[w] \in cut' \/ status'[job[w]] \in Terminal
      BY <1>6, <2>0 DEF Done, Failed, Interrupted, FinishLost, FinishJob, TypeOK, Terminal
    <3> QED  BY <3>1, <3>2, <3>3, <3>4 DEF SuccessAccounted
  <2> QED  BY <2>1, <2>2, <2>3
<1>7. ASSUME Start PROVE Outcomes'
  <2> USE <1>7 DEF Start, RequeueStaleJobs
  <2>0. \A w \in Workers : phase[w] = "off"  BY DEF DownIsIdle
  <2>1. ReturnRecorded'  BY DEF ReturnRecorded
  <2>2. VerdictTrue'  BY DEF VerdictTrue, TypeOK
  <2>3. SuccessAccounted'  BY <2>0 DEF SuccessAccounted, TypeOK, Terminal
  <2> QED  BY <2>1, <2>2, <2>3
<1>8. ASSUME Cancel \/ ServeFails \/ Exit PROVE Outcomes'
  BY <1>8 DEF Cancel, ServeFails, Exit, queueVars, history,
              ReturnRecorded, VerdictTrue, SuccessAccounted
<1>9. ASSUME Crash PROVE Outcomes'
  <2> USE <1>9 DEF Crash, queueVars
  <2>1. ReturnRecorded'  BY DEF ReturnRecorded
  <2>2. VerdictTrue'  BY DEF VerdictTrue
  <2>3. SuccessAccounted'  BY DEF SuccessAccounted
  <2> QED  BY <2>1, <2>2, <2>3
<1>10. ASSUME UNCHANGED vars PROVE Outcomes'
  BY <1>10 DEF vars, ReturnRecorded, VerdictTrue, SuccessAccounted
<1> QED
  BY <1>1, <1>2, <1>3, <1>4, <1>5, <1>6, <1>7, <1>8, <1>9, <1>10 DEF Next, WorkerStep

LEMMA OutcomesInvariant == Spec => [](Base /\ Outcomes)
<1>1. Init => Base /\ Outcomes
  BY InitBase DEF Init, Outcomes, ReturnRecorded, VerdictTrue, SuccessAccounted
<1>2. Base /\ Outcomes /\ [Next]_vars => (Base /\ Outcomes)'
  BY NextBase, NextOutcomes
<1> QED  BY <1>1, <1>2, PTL DEF Spec

(* The status of a finished row is the verdict of its handler; a shutdown  *)
(* never turns into a recorded failure.                                    *)
THEOREM VerdictsHold == Spec => []VerdictTrue
<1>1. Base /\ Outcomes => VerdictTrue  BY DEF Outcomes
<1> QED  BY <1>1, OutcomesInvariant, PTL

(* A handler that succeeded runs again only when its record was cut off.   *)
THEOREM NoRepeat == Spec => []NoNeedlessRepeat
<1>1. Base /\ Outcomes => NoNeedlessRepeat
  <2> SUFFICES ASSUME Base, Outcomes, NEW w \in Workers,
                      phase[w] = "exec", verdict[job[w]] = "ok"
               PROVE  job[w] \in cut
    BY DEF NoNeedlessRepeat
  <2>1. job[w] \in Ids /\ status[job[w]] = "running"
    BY DEF Base, TypeOK, BusyOwnsRow, Busy
  <2>2. \A v \in Workers : phase[v] = "ok" => job[v] # job[w]
    BY DEF Base, NoSharedRow, Busy
  <2> QED  BY <2>1, <2>2 DEF Outcomes, SuccessAccounted, Terminal
<1> QED  BY <1>1, OutcomesInvariant, PTL
=============================================================================
