------------------------------ MODULE ConfigSets ------------------------------
(***************************************************************************)
(* What /v1/config/apply promises callers that may overlap but share no    *)
(* file, without the steps between: the files of a set change all at once  *)
(* or not at all, a set that would leave a broken file is refused, and the *)
(* daemon loads what was decided or the caller is told that it did not. Of *)
(* a set that is not decided yet the daemon may take files in, when it     *)
(* reloads for another caller. Only the death of the agent, or a file that *)
(* cannot be put back, leaves part of a set behind; each of these counts   *)
(* in torn.                                                                *)
(***************************************************************************)
EXTENDS Naturals

CONSTANTS Requests, Files, Versions, Broken, Absent, Keep, Owns  \* see ConfigApply

VARIABLES files,   \* files[f]: what the file holds by the decisions made so far
          live,    \* live[f]: what the daemon has loaded of it
          status,  \* status[r]: where the request is in its life
          set,     \* set[r][f]: the version request r asks for, or Keep
          forced,  \* the requests that want a reload whatever they change
          owed,    \* the accepted requests the daemon is still to be told of
          torn     \* how often part of a set was left behind

vars == <<files, live, status, set, forced, owed, torn>>

Open == {"asked", "accepted", "rejected"}

Contents == Versions \cup {Absent}

(* Who tries to change f, undecided yet, and to what. *)
Tries(q, f) == status[q] \in {"asked", "rejected"} /\ set[q][f] # Keep
Trying(f) == {set[q][f] : q \in {p \in Requests : Tries(p, f)}}

(* d with the files of S as w asks for. *)
Over(d, w, S) == [f \in Files |-> IF f \in S /\ w[f] # Keep THEN w[f] ELSE d[f]]

Init ==
  /\ files \in [Files -> Contents \ Broken]
  /\ live = files
  /\ status = [r \in Requests |-> "idle"]
  /\ set = [r \in Requests |-> [f \in Files |-> Keep]]
  /\ forced = {} /\ owed = {} /\ torn = 0

Become(r, s) == status' = [status EXCEPT ![r] = s]

(* A caller asks. *)
Ask(r) ==
  /\ status[r] = "idle"
  /\ \E w \in [Files -> Versions \cup {Keep}] :
       /\ \A f \in Files : w[f] # Keep => f \in Owns[r]
       /\ set' = [set EXCEPT ![r] = w]
  /\ forced' \in {forced \cup {r}, forced \ {r}}
  /\ Become(r, "asked")
  /\ UNCHANGED <<files, live, owed, torn>>

(* The whole set takes effect, and leaves no broken file but those that    *)
(* another caller is about to replace.                                     *)
Accept(r) ==
  /\ status[r] = "asked"
  /\ files' = Over(files, set[r], Files)
  /\ \A f \in Files : files'[f] \in Broken => \E q \in Requests \ {r} : Tries(q, f)
  /\ owed' = IF files' # files \/ r \in forced THEN owed \cup {r} ELSE owed
  /\ Become(r, "accepted")
  /\ UNCHANGED <<live, set, forced, torn>>

(* None of it takes effect. *)
Reject(r) ==
  /\ status[r] = "asked"
  /\ Become(r, "rejected")
  /\ UNCHANGED <<files, live, set, forced, owed, torn>>

(* A file of a rejected set cannot be put back. *)
Leave(r, f) ==
  /\ status[r] = "rejected" /\ set[r][f] # Keep
  /\ files' = Over(files, set[r], {f})
  /\ torn' = torn + 1
  /\ UNCHANGED <<live, status, set, forced, owed>>

Refuse(r) ==
  /\ status[r] = "rejected"
  /\ Become(r, "refused")
  /\ UNCHANGED <<files, live, set, forced, owed, torn>>

(* Success: the daemon has loaded the files as they were decided, the      *)
(* caller's all the same; or nothing had changed.                          *)
Load(r) ==
  /\ status[r] = "accepted" /\ r \in owed
  /\ live' \in [Files -> Contents]
  /\ \A f \in Files : live'[f] \in {files[f]} \cup Trying(f)
  /\ \A f \in Files : set[r][f] # Keep => live'[f] = set[r][f]
  /\ owed' = owed \ {r}
  /\ Become(r, "ok")
  /\ UNCHANGED <<files, set, forced, torn>>

NoLoad(r) ==
  /\ status[r] = "accepted" /\ r \notin owed
  /\ Become(r, "ok")
  /\ UNCHANGED <<files, live, set, forced, owed, torn>>

(* The caller is told that the files stay but were not, or not all, loaded.*)
LoadFails(r) ==
  /\ status[r] = "accepted" /\ r \in owed
  /\ live' \in [Files -> Contents]
  /\ \A f \in Files : live'[f] \in {live[f], files[f]} \cup Trying(f)
  /\ owed' = owed \ {r}
  /\ Become(r, "applied")
  /\ UNCHANGED <<files, set, forced, torn>>

(* The agent dies: of sets not yet accepted any part may be left behind.   *)
Die ==
  /\ files' \in [Files -> Contents]
  /\ \A f \in Files : files'[f] \in {files[f]} \cup Trying(f)
  /\ status' = [r \in Requests |-> IF status[r] \in Open THEN "killed" ELSE status[r]]
  /\ owed' = {}
  /\ torn' = torn + 1
  /\ UNCHANGED <<live, set, forced>>

Next ==
  \/ \E r \in Requests :
       \/ Ask(r) \/ Accept(r) \/ Reject(r) \/ Refuse(r)
       \/ Load(r) \/ NoLoad(r) \/ LoadFails(r)
       \/ \E f \in Files : Leave(r, f)
  \/ Die

Spec == Init /\ [][Next]_vars
=============================================================================
