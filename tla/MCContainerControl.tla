------------------------- MODULE MCContainerControl -------------------------
(* ContainerControl on small instances: two launchers, two sessions. *)
EXTENDS ContainerControl

CONSTANTS a1, a2, s1, s2
=============================================================================
