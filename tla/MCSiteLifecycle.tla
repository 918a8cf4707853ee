--------------------------- MODULE MCSiteLifecycle ---------------------------
(* Small instances of SiteLifecycle for TLC. *)
EXTENDS SiteLifecycle, TLC

CONSTANTS c1, c2, b1, b2

(* Each of the two settings has a PHP branch of its own. *)
BranchOf == [c \in Confs |-> IF c = c1 THEN b1 ELSE b2]

Symmetry == Permutations(Clients)

(* Bounds the search of SiteLife.cfg: requests overlap while nothing has   *)
(* failed, or with one job less; a failure or a restart among all the jobs *)
(* comes with requests one at a time, and both with one job less.          *)
OneAtATime == \A q, r \in Clients : pc[q] # "idle" /\ pc[r] # "idle" => q = r
Within ==
  \/ OneAtATime /\ (restarts + faults < 2 \/ accepted < MaxJobs)
  \/ restarts = 0 /\ (faults = 0 \/ accepted < MaxJobs)

(* A daemon that was told to reload takes its time while requests come one *)
(* at a time, nothing has failed and a job is left; otherwise it reloads   *)
(* before the next step of the panel. (The proofs know no such order.)     *)
Lagging == OneAtATime /\ restarts + faults = 0 /\ accepted < MaxJobs
DaemonsFirst ==
  \/ Lagging
  \/ nginx # "told" /\ told = {}
  \/ UNCHANGED <<row, requests, queue, stage>>
=============================================================================
