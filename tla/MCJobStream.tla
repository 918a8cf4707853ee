----------------------------- MODULE MCJobStream -----------------------------
(* Two jobs, so that a page can change from one to the other.              *)
EXTENDS JobStream
=============================================================================
