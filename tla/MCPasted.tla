------------------------------ MODULE MCPasted ------------------------------
(* Pasted on a small instance. *)
EXTENDS Pasted

CONSTANTS w1, w2, host, t1, t2

=============================================================================
