------------------------------ MODULE MCSession ------------------------------
(* Session on small instances. *)
EXTENDS Session

CONSTANTS s1, s2, x1, x2
=============================================================================
