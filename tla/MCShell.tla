------------------------------- MODULE MCShell -------------------------------
(* Two tabs, two accounts of which one has a second factor. *)
EXTENDS Shell
CONSTANTS u1, u2
OneWithCode == {u2}
=============================================================================
