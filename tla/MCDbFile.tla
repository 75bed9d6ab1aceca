------------------------------ MODULE MCDbFile ------------------------------
(* DbFile on small instances. *)
EXTENDS DbFile

CONSTANTS p1, p2, p3

\* The more is up the longer is the text.
MCSize == [v \in SUBSET Procs |-> 1 + Cardinality(v)]
=============================================================================
