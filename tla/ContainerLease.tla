--------------------------- MODULE ContainerLease ---------------------------
(***************************************************************************)
(* What ContainerRunning and libertine-launch promise their users          *)
(* (python/libertine/Libertine.py): whoever is inside finds the container  *)
(* running, however many come and go, and it is switched off only when     *)
(* nobody is inside.  While that cannot be promised the container may be   *)
(* taken from those inside.                                                *)
(***************************************************************************)
CONSTANT Clients

VARIABLES
  inside,   \* the clients that use the container
  on,       \* the container runs
  sure      \* input: nothing but the clients has a hold on the container

Init == inside = {} /\ on = FALSE

Enter(c) == c \notin inside /\ inside' = inside \cup {c} /\ on' = TRUE

Leave == (\E gone \in SUBSET inside : inside' = inside \ gone) /\ UNCHANGED on

SwitchOn == ~on /\ on' = TRUE /\ UNCHANGED inside

SwitchOff == inside = {} /\ on /\ on' = FALSE /\ UNCHANGED inside

TakeAway == ~sure /\ inside' = {}

Next == (\E c \in Clients : Enter(c)) \/ Leave \/ SwitchOn \/ SwitchOff \/ TakeAway

Spec == Init /\ [][Next]_<<inside, on>>
=============================================================================
