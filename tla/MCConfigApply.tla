----------------------------- MODULE MCConfigApply -----------------------------
(* Small instances of ConfigApply for TLC. *)
EXTENDS ConfigApply, TLC

CONSTANTS r1, r2, f1, f2, f3

(* Callers one after the other, over the same files. *)
OwnsAll == [r \in Requests |-> Files]

(* Callers that overlap, each with files of its own. *)
OwnsApart == [r \in Requests |-> IF r = r1 THEN {f1, f2} ELSE {f3}]

(* Requests in a sequence are interchangeable, and so are files; of those  *)
(* with files of their own only the files of one are.                      *)
SerialSymmetry == Permutations(Requests) \cup Permutations(Files)
OverlapSymmetry == Permutations({f1, f2})
=============================================================================
