------------------------------ MODULE MCJobQueue ------------------------------
(* Small instances of JobQueue for TLC. *)
EXTENDS JobQueue, TLC

(* Workers are interchangeable, and so are lock keys. *)
Symmetry == Permutations(Workers) \cup Permutations(Keys)
=============================================================================
