------------------------------- MODULE MCVisit -------------------------------
(* The headers that the rules of the languages could tell apart. *)
EXTENDS Visit

Tag(p, r, n) == [primary |-> p, region |-> r, q |-> n]
SomeHeaders == {
  <<>>,
  <<Tag("other", "none", 1), Tag("cis", "none", 2)>>,
  <<Tag("ro", "md", 2), Tag("other", "none", 1)>>,
  <<Tag("any", "none", 2), Tag("ro", "none", 2)>>}
=============================================================================
