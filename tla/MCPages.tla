------------------------------- MODULE MCPages -------------------------------
(* Two subjects, two operations of a page at a time.                       *)
EXTENDS Pages
=============================================================================
