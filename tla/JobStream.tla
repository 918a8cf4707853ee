------------------------------ MODULE JobStream ------------------------------
(***************************************************************************)
(* How a browser learns what becomes of a job. The runner writes the row   *)
(* and then publishes the event (jobs/runner.go); the broker puts it into  *)
(* the channel of every subscriber and drops it where the channel is full; *)
(* the SSE handler (api/ops_jobs.go) subscribes, sends the row as it reads *)
(* it then, and passes the events on; EventSource connects again whenever  *)
(* the stream ends and the page has not closed it (web/src/lib/api.ts);    *)
(* JobLog.svelte shows the job its page names.                             *)
(*                                                                         *)
(* A progress event is like a log line and not told from it; that a line   *)
(* could not be appended to the log is left out. What the handler sends,   *)
(* TCP brings in order or not at all: sending and receiving are one step.  *)
(***************************************************************************)
EXTENDS Naturals, Sequences

CONSTANTS
  Jobs, None,
  Buffer,      \* capacity of a subscriber's channel (512)
  MaxLines,    \* bound: log lines of a job
  MaxFaults    \* bound: broken connections and restarts of the API

ASSUME BoundAssumption == Buffer \in Nat \ {0} /\ MaxLines \in Nat /\ MaxFaults \in Nat

VARIABLES
  row,      \* status of the job's row
  log,      \* lines in the row's log
  unsent,   \* what the runner has written and not published yet
  unsaved,  \* the end of a job that could not be written: "no", "now", "past" (a restart)
  conn,     \* the stream of a job: "closed", "down", "subscribed", "read", "live"
  chan,     \* the events in its channel
  snap,     \* the row as the handler has read it
  job,      \* the job the page shows
  status, lines,  \* what JobLog shows
  faults,
  (* history *)
  dropped,  \* kinds of events the channel of this stream dropped
  refused   \* the handler could not read the row and said "failed"

server == <<row, log, unsent, unsaved>>
shown == <<job, status, lines>>
vars == <<row, log, unsent, unsaved, conn, chan, snap, job, status, lines, faults, dropped, refused>>

Final == {"done", "failed"}
Statuses == {"queued", "running"} \cup Final
Events == [type : Final] \cup [type : {"log"}, line : 1..MaxLines]
ASSUME NoneAssumption == None \notin Jobs \cup Events

(* Wrong: the row is read before the handler subscribes. *)
OnlineOnceRead(j) == conn[j] = "live"

(* The stream is up, from subscribing on.                                  *)
Online(j) == conn[j] \in {"subscribed", "read", "live"}

TypeOK ==
  /\ row \in [Jobs -> Statuses \cup {"none"}]
  /\ log \in [Jobs -> 0..MaxLines]
  /\ unsent \in [Jobs -> Events \cup {None}]
  /\ unsaved \in [Jobs -> {"no", "now", "past"}]
  /\ conn \in [Jobs -> {"closed", "down", "subscribed", "read", "live"}]
  /\ chan \in [Jobs -> Seq(Events)] /\ \A j \in Jobs : Len(chan[j]) <= Buffer
  /\ snap \in [status : Statuses \cup {"none"}, log : 0..MaxLines]
  /\ job \in Jobs \cup {None}
  /\ status \in Statuses /\ lines \subseteq 1..MaxLines
  /\ faults \in 0..MaxFaults
  /\ dropped \in [Jobs -> SUBSET (Final \cup {"log"})] /\ refused \in BOOLEAN

Init ==
  /\ row = [j \in Jobs |-> "none"] /\ log = [j \in Jobs |-> 0]
  /\ unsent = [j \in Jobs |-> None] /\ unsaved = [j \in Jobs |-> "no"]
  /\ conn = [j \in Jobs |-> "closed"] /\ chan = [j \in Jobs |-> <<>>]
  /\ snap = [status |-> "none", log |-> 0]
  /\ job = None /\ status = "running" /\ lines = {}
  /\ faults = 0 /\ dropped = [j \in Jobs |-> {}] /\ refused = FALSE
-----------------------------------------------------------------------------
(* The runner: every write is followed by its event, before the next one.  *)
Quiet(j) == unsent[j] = None
Works(j) == row[j] = "running" /\ unsaved[j] # "now" /\ Quiet(j)

Enqueue(j) ==
  /\ row[j] = "none" /\ row' = [row EXCEPT ![j] = "queued"]
  /\ UNCHANGED <<snap, log, unsent, unsaved, conn, chan, shown, faults, dropped, refused>>

Start(j) ==
  /\ row[j] = "queued" /\ row' = [row EXCEPT ![j] = "running"]
  /\ UNCHANGED <<snap, log, unsent, unsaved, conn, chan, shown, faults, dropped, refused>>

logLine(j) ==
  /\ Works(j) /\ log[j] < MaxLines
  /\ log' = [log EXCEPT ![j] = @ + 1]
  /\ unsent' = [unsent EXCEPT ![j] = [type |-> "log", line |-> log'[j]]]
  /\ UNCHANGED <<snap, row, unsaved, conn, chan, shown, faults, dropped, refused>>

(* The event is published also when the end could not be written; then the *)
(* row stays running until the API starts again.                           *)
FinishJob(j, s) ==
  /\ Works(j)
  /\ \/ row' = [row EXCEPT ![j] = s] /\ UNCHANGED <<unsaved, faults>>
     \/ /\ faults < MaxFaults /\ faults' = faults + 1
        /\ unsaved' = [unsaved EXCEPT ![j] = "now"] /\ UNCHANGED row
  /\ unsent' = [unsent EXCEPT ![j] = [type |-> s]]
  /\ UNCHANGED <<snap, log, conn, chan, shown, dropped, refused>>

(* Wrong: the channel is taken to have room. *)
PublishAlways(j) ==
  /\ ~Quiet(j) /\ unsent' = [unsent EXCEPT ![j] = None]
  /\ chan' = IF Online(j) THEN [chan EXCEPT ![j] = Append(@, unsent[j])] ELSE chan
  /\ UNCHANGED <<snap, row, log, unsaved, conn, shown, faults, dropped, refused>>

(* An event for which the channel has no room is dropped, not waited for.  *)
Publish(j) ==
  /\ ~Quiet(j) /\ unsent' = [unsent EXCEPT ![j] = None]
  /\ LET room == Len(chan[j]) < Buffer
     IN /\ chan' = IF Online(j) /\ room THEN [chan EXCEPT ![j] = Append(@, unsent[j])] ELSE chan
        /\ dropped' = [dropped EXCEPT ![j] = IF Online(j) /\ ~room THEN @ \cup {unsent[j].type} ELSE @]
  /\ UNCHANGED <<snap, row, log, unsaved, conn, shown, faults, refused>>
-----------------------------------------------------------------------------
Hangup(j) == conn' = [conn EXCEPT ![j] = "down"] /\ chan' = [chan EXCEPT ![j] = <<>>]
Close(j) == conn' = [conn EXCEPT ![j] = "closed"] /\ chan' = [chan EXCEPT ![j] = <<>>]

(* EventSource connects: the handler subscribes before it reads the row.   *)
Subscribe(j) ==
  /\ conn[j] = "down" /\ conn' = [conn EXCEPT ![j] = "subscribed"]
  /\ dropped' = [dropped EXCEPT ![j] = {}]
  /\ UNCHANGED <<snap, server, chan, shown, faults, refused>>

ReadRow(j) ==
  /\ conn[j] = "subscribed" /\ row[j] # "none"
  /\ conn' = [conn EXCEPT ![j] = "read"]
  /\ snap' = [status |-> row[j], log |-> log[j]]
  /\ UNCHANGED <<server, chan, shown, faults, dropped, refused>>

(* The row is sent as it was read; the stream of a finished job ends with  *)
(* it, and the browser, which closes only on "done" and "failed", connects *)
(* again.                                                                  *)
Snapshot(j) ==
  /\ conn[j] = "read"
  /\ status' = snap.status /\ lines' = 1..snap.log
  /\ IF snap.status \in Final THEN Hangup(j)
     ELSE conn' = [conn EXCEPT ![j] = "live"] /\ UNCHANGED chan
  /\ UNCHANGED <<server, snap, job, faults, dropped, refused>>

(* The row cannot be read, or its job may not be seen: "failed" is sent.   *)
Refuse(j) ==
  /\ conn[j] = "subscribed" /\ faults < MaxFaults /\ faults' = faults + 1
  /\ status' = "failed" /\ refused' = TRUE /\ Close(j)
  /\ UNCHANGED <<snap, server, job, lines, dropped>>

(* The next event of the channel reaches the page.                         *)
Deliver(j) ==
  /\ conn[j] = "live" /\ chan[j] # <<>>
  /\ LET e == Head(chan[j]) IN
       IF e.type \in Final
       THEN status' = e.type /\ Close(j) /\ UNCHANGED lines
       ELSE /\ lines' = lines \cup {e.line} /\ chan' = [chan EXCEPT ![j] = Tail(@)]
            /\ UNCHANGED <<status, conn>>
  /\ UNCHANGED <<snap, server, job, faults, dropped, refused>>

Break(j) ==
  /\ Online(j) /\ faults < MaxFaults /\ faults' = faults + 1 /\ Hangup(j)
  /\ UNCHANGED <<snap, server, shown, dropped, refused>>

(* The API stops and starts: running jobs go back to the queue (JobQueue), *)
(* what was not published never is, and every stream breaks.               *)
Restart ==
  /\ faults < MaxFaults /\ faults' = faults + 1
  /\ row' = [j \in Jobs |-> IF row[j] = "running" THEN "queued" ELSE row[j]]
  /\ unsaved' = [j \in Jobs |-> IF unsaved[j] = "now" THEN "past" ELSE unsaved[j]]
  /\ unsent' = [j \in Jobs |-> None] /\ chan' = [j \in Jobs |-> <<>>]
  /\ conn' = [j \in Jobs |-> IF Online(j) THEN "down" ELSE conn[j]]
  /\ UNCHANGED <<snap, log, shown, dropped, refused>>
-----------------------------------------------------------------------------
(* Wrong: the effect returns nothing, so the old stream stays open.        *)
ShowAnother(j) ==
  /\ j # job /\ (j \in Jobs => row[j] # "none")
  /\ job' = j /\ status' = "running" /\ lines' = {} /\ refused' = FALSE
  /\ conn' = [k \in Jobs |-> IF k = j THEN "down" ELSE conn[k]]
  /\ UNCHANGED <<snap, server, chan, faults, dropped>>

(* The page names another job, or none: JobLog's effect closes the stream  *)
(* it had and opens one for it.                                            *)
Show(j) ==
  /\ j # job /\ (j \in Jobs => row[j] # "none")
  /\ job' = j /\ status' = "running" /\ lines' = {} /\ refused' = FALSE
  /\ conn' = [k \in Jobs |-> IF k = j THEN "down" ELSE "closed"]
  /\ chan' = [k \in Jobs |-> <<>>]
  /\ UNCHANGED <<snap, server, faults, dropped>>

Runner == \E j \in Jobs : Enqueue(j) \/ Start(j) \/ logLine(j) \/ Publish(j)
                          \/ \E s \in Final : FinishJob(j, s)
Stream(j) == Subscribe(j) \/ ReadRow(j) \/ Snapshot(j) \/ Deliver(j)

Next == \/ Runner \/ Restart
        \/ \E j \in Jobs : Stream(j) \/ Refuse(j) \/ Break(j)
        \/ \E j \in Jobs \cup {None} : Show(j)

Spec == Init /\ [][Next]_vars

(* The API answers and the browser connects again; a job may run for ever. *)
FairSpec == Spec /\ \A j \in Jobs : WF_vars(Stream(j)) /\ WF_vars(Publish(j))
-----------------------------------------------------------------------------
(* A job shown as finished is one that has finished so, in its row and not *)
(* only in the events, unless its row could not be read or its end could   *)
(* not be written.                                                         *)
ShownFinishIsTrue ==
  job # None /\ status \in Final =>
    row[job] = status \/ (status = "failed" /\ refused) \/ unsaved[job] # "no"

(* Nothing of the log is missing from the page when its stream is up and   *)
(* everything written is published and passed on, but for what a full      *)
(* channel dropped.                                                        *)
LinesComplete ==
  \A j \in Jobs : conn[j] = "live" /\ chan[j] = <<>> /\ Quiet(j) /\ dropped[j] = {}
                    => lines = 1..log[j]

(* That a job has ended is shown in the end, wherever the end falls between*)
(* subscribing, reading and connecting again, unless the channel dropped it*)
FinishIsSeen ==
  \A j \in Jobs : (job = j /\ row[j] \in Final)
                    ~> (job # j \/ status \in Final \/ dropped[j] \cap Final # {})
=============================================================================
