----------------------------- MODULE SerialQueue -----------------------------
(***************************************************************************)
(* What the job runner promises its callers, without workers, processes or *)
(* restarts: jobs are numbered in the order they were accepted; a job with *)
(* a lock key begins only when every earlier job with that key has ended   *)
(* for good ("Jobs with the same lock_key run strictly one after another", *)
(* docs/en/01-architecture.md); a job that was cut off waits again and     *)
(* keeps its place; a job that has ended never runs again.                 *)
(***************************************************************************)
EXTENDS Naturals

CONSTANTS Keys,      \* the lock keys ("site:example.com", "php", "mail", ...)
          NoKey,     \* the empty lock key: the job is not serialised
          MaxJobs    \* how many jobs are ever accepted

Ids == 1..MaxJobs

VARIABLES state,     \* state[j]: where the job is in its life
          key,       \* key[j]: its lock key
          accepted   \* the number of jobs accepted so far

vars == <<state, key, accepted>>

States == {"none", "waiting", "active", "ended"}

SameKey(i, j) == key[i] = key[j] /\ key[j] # NoKey

Init == /\ state = [j \in Ids |-> "none"]
        /\ key = [j \in Ids |-> NoKey]
        /\ accepted = 0

(* A caller hands over a job; it takes the next number. *)
Accept(k) ==
  /\ accepted < MaxJobs
  /\ accepted' = accepted + 1
  /\ state' = [state EXCEPT ![accepted + 1] = "waiting"]
  /\ key' = [key EXCEPT ![accepted + 1] = k]

(* Job j begins: every earlier job of its key has ended. *)
Begin(j) ==
  /\ state[j] = "waiting"
  /\ \A i \in Ids : i < j /\ SameKey(i, j) => state[i] = "ended"
  /\ \A i \in Ids : SameKey(i, j) => state[i] # "active"
  /\ state' = [state EXCEPT ![j] = "active"]
  /\ UNCHANGED <<key, accepted>>

(* Job j ends, done or failed. *)
End(j) ==
  /\ state[j] = "active"
  /\ state' = [state EXCEPT ![j] = "ended"]
  /\ UNCHANGED <<key, accepted>>

(* Whatever was active waits again: the panel came back after a stop. *)
Recover ==
  /\ state' = [j \in Ids |-> IF state[j] = "active" THEN "waiting" ELSE state[j]]
  /\ UNCHANGED <<key, accepted>>

Next == \/ \E k \in Keys \cup {NoKey} : Accept(k)
        \/ \E j \in Ids : Begin(j) \/ End(j)
        \/ Recover

Spec == Init /\ [][Next]_vars
=============================================================================
