-------------------------- MODULE ContainerControl --------------------------
(***************************************************************************)
(* Who may start and stop one lxc or lxd container.  libertined counts the *)
(* operations in progress (ContainerControlClient of the service); whoever *)
(* takes the count to zero stops the container, and while it does so the   *)
(* count is -1 and everybody else is refused.                              *)
(*                                                                         *)
(*   an app       libertine-launch: start_application, the running app is  *)
(*                recorded in the database, finish_application             *)
(*   a session    ContainerRunning: start_container ... stop_container, in *)
(*                libertine-container-manager or in a task thread          *)
(*   the service  may be restarted: it counts the recorded apps again      *)
(*   an operator  libertine-container-manager restart                      *)
(*                                                                         *)
(* A client comes once.  A client outside the service asks several times   *)
(* before it takes no for an answer.                                       *)
(***************************************************************************)
EXTENDS Integers, FiniteSets

CONSTANTS
  Apps,           \* launchers of an application
  Sessions,       \* users of ContainerRunning
  Threads,        \* the sessions that are task threads of the service
  Backend,        \* the type of the container, "lxc" or "lxd"
  RestStates,     \* what the container may be when it is not used: "stopped", "frozen"
  StartFails,     \* TRUE: the command that starts a container may fail
  StopFails,      \* TRUE: the command that stops a container may fail
  MaxRestarts,    \* bound: how often the service is restarted
  ManualRestart   \* TRUE: the operator restarts the container once

Clients == Apps \cup Sessions

ASSUME ClientsAssumption ==
  IsFiniteSet(Apps) /\ IsFiniteSet(Sessions) /\ Apps \cap Sessions = {} /\ Threads \subseteq Sessions
ASSUME BackendAssumption == Backend \in {"lxc", "lxd"}
ASSUME RestAssumption == RestStates \subseteq {"stopped", "frozen"}
ASSUME FailuresAssumption == {StartFails, StopFails, ManualRestart} \subseteq BOOLEAN
ASSUME MaxRestartsAssumption == MaxRestarts \in Nat

VARIABLES
  operations,   \* ContainerControlClient._operations of the container
  invalid,      \* ContainerControlClient._invalid_apps of the container
  records,      \* runningApps of the container in the database
  power,        \* the state of the container
  pc,           \* where a client is
  seen,         \* the state of the container in the client object of lxd
  without,      \* history: clients that took a container at rest for running,
                \* or lost it to what the count cannot prevent
  owing,        \* history: clients that ended without giving the container back
  astray,       \* history: the count was reset under clients that had the container
  restarts,     \* how often the service was restarted
  cycle         \* where the operator's restart is

vars == <<operations, invalid, records, power, pc, seen, without, owing, astray, restarts, cycle>>

PCs == {"idle", "asking", "refused", "starting", "network", "using", "recorded", "adrift", "exited",
        "stopping", "stopped", "unlist", "done"}

\* The client was granted the container and is going to give it back.
Counted == {c \in Clients : pc[c] \in {"starting", "network", "using", "recorded", "exited"}} \ invalid

\* The client relies on the container: start_container answered True, and an
\* application has not ended.
Relying == {c \in Clients : pc[c] \in {"using", "recorded", "adrift"}}

\* And nothing but the count stands between it and the end of the container.
Users == Relying \ without

\* The client was told to stop the container.
Stoppers == {c \in Clients : pc[c] \in {"stopping", "stopped"}}

\* An application that lost its launcher uses the container all the same.
Adrift == {c \in Clients : pc[c] = "adrift"}

\* Whoever has the container, or is about to stop it.
InUse == Counted \cup Stoppers \cup Adrift

Init ==
  /\ operations = 0
  /\ invalid = {}
  /\ records = {}
  /\ power \in RestStates
  /\ pc = [c \in Clients |-> "idle"]
  /\ seen = [c \in Clients |-> "none"]
  /\ without = {}
  /\ owing = {}
  /\ astray = FALSE
  /\ restarts = 0
  /\ cycle = "ready"

Goto(c, l) == pc' = [pc EXCEPT ![c] = l]

-----------------------------------------------------------------------------
(* start_container *)

\* _try_get_container of lxd reads the state of the container once.
Ask(c) ==
  /\ pc[c] = "idle"
  /\ Goto(c, "asking")
  /\ seen' = [seen EXCEPT ![c] = IF Backend = "lxd" THEN power ELSE @]
  /\ UNCHANGED <<operations, invalid, records, power, without, owing, astray, restarts, cycle>>

\* Slip: a container that is being stopped is handed out.
AlwaysGranted == TRUE

\* container_operation_start answers False while the container is stopped.
Granted == operations # -1

OperationStart(c) ==
  /\ pc[c] = "asking" /\ Granted
  /\ operations' = operations + 1
  /\ Goto(c, "starting")
  /\ UNCHANGED <<invalid, records, power, seen, without, owing, astray, restarts, cycle>>

\* A launcher of lxc reports the container as stopped when it was refused,
\* or when the container did not start.
AfterFailure(c) == IF Backend = "lxc" /\ c \in Apps THEN "refused" ELSE "done"

\* Slip: a refused client asks until it is granted the container.
WaitForever(c) == pc[c] = "asking" /\ ~Granted /\ UNCHANGED vars

\* The last of the retries is refused too.
GiveUp(c) ==
  /\ pc[c] = "asking" /\ ~Granted
  /\ Goto(c, AfterFailure(c))
  /\ UNCHANGED <<operations, invalid, records, power, seen, without, owing, astray, restarts, cycle>>

\* LibertineLXC.start_application after a start that failed: the count is
\* reset, whoever has the container.
ReportStopped(c) ==
  /\ pc[c] = "refused"
  /\ operations' = 0
  /\ Goto(c, "done")
  /\ owing' = {}
  /\ astray' = (InUse # {})
  /\ UNCHANGED <<invalid, records, power, seen, without, restarts, cycle>>

\* What the client takes the state of the container for.
State(c) == IF Backend = "lxd" THEN seen[c] ELSE power

\* A container that seems to run is not started.
SeemsRunning(c) ==
  /\ State(c) = "running"
  /\ without' = IF power = "running" THEN without ELSE without \cup {c}
  /\ Goto(c, "using") /\ UNCHANGED <<power, owing>>

\* lxd refuses to start what runs, and to unfreeze what is stopped.
CanStart(c) == <<State(c), power>> \notin {<<"stopped", "running">>, <<"frozen", "stopped">>}

\* lxc_start goes on to wait for the network.
Starts(c) ==
  /\ State(c) # "running" /\ CanStart(c)
  /\ power' = "running"
  /\ Goto(c, IF Backend = "lxc" THEN "network" ELSE "using") /\ UNCHANGED <<without, owing>>

\* The count has gone up and nobody takes it down: start_container of lxc
\* answers False, that of lxd raises an exception.
FailsToStart(c) ==
  /\ State(c) # "running" /\ (StartFails \/ power # State(c))
  /\ Goto(c, AfterFailure(c))
  /\ owing' = owing \cup {c} /\ UNCHANGED <<power, without>>

StartContainer(c) ==
  /\ pc[c] = "starting"
  /\ SeemsRunning(c) \/ Starts(c) \/ FailsToStart(c)
  /\ UNCHANGED <<operations, invalid, records, seen, astray, restarts, cycle>>

\* get_ips: without a network lxc_start stops the container again, which
\* others may have found running in the meantime.
WaitForNetwork(c) ==
  /\ pc[c] = "network"
  /\ \/ power = "running" /\ Goto(c, "using") /\ UNCHANGED <<power, without, owing>>
     \/ /\ StartFails \/ power # "running"
        /\ power' \in {power, "stopped"}
        /\ without' = without \cup Relying
        /\ owing' = owing \cup {c}
        /\ Goto(c, AfterFailure(c))
  /\ UNCHANGED <<operations, invalid, records, seen, astray, restarts, cycle>>

-----------------------------------------------------------------------------
(* The application. *)

\* Session._add_running_app
AddRunningApp(c) ==
  /\ c \in Apps /\ pc[c] = "using"
  /\ records' = records \cup {c}
  /\ Goto(c, "recorded")
  /\ UNCHANGED <<operations, invalid, power, seen, without, owing, astray, restarts, cycle>>

Exit(c) ==
  /\ pc[c] = "recorded"
  /\ Goto(c, "exited")
  /\ UNCHANGED <<operations, invalid, records, power, seen, without, owing, astray, restarts, cycle>>

\* An exception in Session.run: the launcher is gone, its application goes on,
\* and neither the count nor the record is seen to.
Raise(c) ==
  /\ pc[c] = "recorded"
  /\ Goto(c, "adrift")
  /\ owing' = owing \cup {c}
  /\ UNCHANGED <<operations, invalid, records, power, seen, without, astray, restarts, cycle>>

\* An application without a launcher ends.
EndAdrift(c) ==
  /\ pc[c] = "adrift"
  /\ Goto(c, "done")
  /\ UNCHANGED <<operations, invalid, records, power, seen, without, owing, astray, restarts, cycle>>

\* Slip: a session, too, takes itself off the list of applications.
AlwaysUnlist(c) == "unlist"

AfterStop(c) == IF c \in Apps THEN "unlist" ELSE "done"

\* Session._remove_running_app
RemoveRunningApp(c) ==
  /\ pc[c] = "unlist"
  /\ records' = records \ {c}
  /\ Goto(c, "done")
  /\ UNCHANGED <<operations, invalid, power, seen, without, owing, astray, restarts, cycle>>

-----------------------------------------------------------------------------
(* stop_container *)

\* Slip: an app that was not counted again is counted down.
AlwaysDown(c) == operations - 1

CountDown(c) == IF c \in invalid THEN operations ELSE operations - 1

\* Slip: the container is stopped while one operation is left.
LastButOne(n) == n <= 1

\* Slip: zero does not count as nobody.
NeverLeft(n) == n < 0

NobodyLeft(n) == n = 0

\* container_operation_finished
OperationFinished(c) ==
  /\ pc[c] = IF c \in Apps THEN "exited" ELSE "using"
  /\ IF NobodyLeft(CountDown(c))
       THEN operations' = -1 /\ Goto(c, "stopping")
       ELSE operations' = CountDown(c) /\ Goto(c, AfterStop(c))
  /\ invalid' = invalid \ {c}
  /\ UNCHANGED <<records, power, seen, without, owing, astray, restarts, cycle>>

\* lxc leaves a container alone that is stopped; lxd asks its snapshot, which
\* says that the container runs, and is refused.
CanStop == Backend = "lxc" \/ power # "stopped"

\* lxc_stop or lxd_stop, freezing or not.  Only after it worked is the
\* container reported as stopped.
Stops(c) ==
  /\ CanStop
  /\ power' \in RestStates \cup (IF power = "stopped" THEN {power} ELSE {})
  /\ Goto(c, "stopped")
  /\ without' = (IF astray THEN without \cup Relying ELSE without) /\ UNCHANGED owing

\* It answers False, or that of lxd raises an exception: the record stays.
FailsToStop(c) ==
  /\ StopFails \/ (Backend = "lxd" /\ power # "running")
  /\ Goto(c, AfterStop(c)) \/ (Backend = "lxd" /\ Goto(c, "done"))
  /\ owing' = owing \cup {c} /\ UNCHANGED <<power, without>>

StopContainer(c) ==
  /\ pc[c] = "stopping"
  /\ Stops(c) \/ FailsToStop(c)
  /\ UNCHANGED <<operations, invalid, records, seen, astray, restarts, cycle>>

\* Slip: nobody tells the service that the container is stopped.
KeepQuiet(c) ==
  /\ pc[c] = "stopped"
  /\ Goto(c, AfterStop(c))
  /\ UNCHANGED <<operations, invalid, records, power, seen, without, owing, astray, restarts, cycle>>

\* container_stopped
ContainerStopped(c) ==
  /\ pc[c] = "stopped"
  /\ operations' = 0
  /\ Goto(c, AfterStop(c))
  /\ owing' = {}
  /\ astray' = (astray /\ InUse # {c})
  /\ UNCHANGED <<invalid, records, power, seen, without, restarts, cycle>>

-----------------------------------------------------------------------------
(* The service starts again: _get_running_apps_per_container.  Its own     *)
(* task threads are gone; the clients outside it reconnect.                *)

\* The recorded apps whose process is still the recorded one.
Alive == {a \in records : pc[a] \in {"recorded", "adrift"}}

RestartService ==
  /\ restarts < MaxRestarts
  /\ restarts' = restarts + 1
  /\ operations' = Cardinality(Alive)
  /\ invalid' = records \ Alive
  /\ records' = Alive
  /\ pc' = [c \in Clients |-> IF c \in Threads /\ pc[c] # "idle" THEN "done" ELSE pc[c]]
  /\ owing' = {a \in Alive : pc[a] = "adrift"}
  /\ astray' = (InUse' \ Alive # {})
  /\ UNCHANGED <<power, seen, without, cycle>>

-----------------------------------------------------------------------------
(* restart_container: once it has found the container frozen it stops,     *)
(* starts and freezes it, and gives up at the first command that fails.    *)

Cycle(from, to) ==
  /\ cycle = from
  /\ cycle' = to
  /\ UNCHANGED <<operations, invalid, records, pc, seen, owing, astray, restarts>>

\* The container is taken from whoever has got it by now.
TurnOff(states) == power' \in states /\ without' = without \cup Relying

RestartContainer ==
  \/ ManualRestart /\ power = "frozen" /\ Cycle("ready", "found") /\ UNCHANGED <<power, without>>
  \/ Cycle("found", "down") /\ CanStop /\ TurnOff({"stopped"})
  \/ Cycle("down", "up") /\ (power # "running" \/ Backend = "lxc") /\ power' = "running" /\ UNCHANGED without
  \/ Cycle("up", "over") /\ CanStop /\ TurnOff(RestStates \cup (IF power = "running" THEN {} ELSE {power}))
  \/ /\ \/ Cycle("found", "over") /\ (StopFails \/ ~CanStop)
        \/ Cycle("down", "over") /\ (StartFails \/ (Backend = "lxd" /\ power = "running"))
        \/ Cycle("up", "over") /\ (StopFails \/ ~CanStop)
     /\ UNCHANGED <<power, without>>
  \/ StartFails /\ Backend = "lxc" /\ Cycle("up", "over") /\ TurnOff({"stopped"})

-----------------------------------------------------------------------------
ClientStep(c) ==
  \/ OperationStart(c) \/ GiveUp(c) \/ ReportStopped(c) \/ StartContainer(c) \/ WaitForNetwork(c)
  \/ AddRunningApp(c) \/ Exit(c) \/ Raise(c) \/ EndAdrift(c) \/ RemoveRunningApp(c)
  \/ OperationFinished(c) \/ StopContainer(c) \/ ContainerStopped(c)

\* Nothing is left to do.
Quiet ==
  /\ \A c \in Clients : pc[c] = "done"
  /\ UNCHANGED vars

Next ==
  \/ \E c \in Clients : Ask(c) \/ ClientStep(c)
  \/ RestartService
  \/ RestartContainer
  \/ Quiet

Spec == Init /\ [][Next]_vars

\* Processes and threads run, applications exit, and the commands that start
\* and stop containers come to an end.  Nobody has to come.
FairSpec ==
  /\ Spec
  /\ \A c \in Clients : WF_vars(ClientStep(c))
  /\ WF_vars(RestartContainer)

-----------------------------------------------------------------------------
(* Properties. *)

TypeOK ==
  /\ operations \in Int
  /\ invalid \subseteq Apps
  /\ records \subseteq Apps
  /\ power \in {"stopped", "frozen", "running"}
  /\ pc \in [Clients -> PCs]
  /\ \A c \in Sessions : pc[c] \notin {"recorded", "adrift", "exited", "unlist"}
  /\ seen \in [Clients -> {"none", "stopped", "frozen", "running"}]
  /\ without \subseteq Clients
  /\ owing \subseteq Clients
  /\ astray \in BOOLEAN
  /\ restarts \in 0..MaxRestarts
  /\ cycle \in {"ready", "found", "down", "up", "over"}

\* The container of a ContainerRunning context and of a launched application
\* is running for as long as they use it, unless they took it for running when
\* they came, while it was about to be stopped, or lost it to the operator's
\* restart, to a client that found no network, or to a count that was reset
\* under its clients.
KeptRunning == Users # {} => power = "running"

\* Unless it was reset under clients that had the container, the count is the
\* number of clients the container was granted to, those that ended without
\* giving it back among them; and it is -1 while the one that is to stop the
\* container does so, or has failed to.
CounterCounts ==
  ~astray =>
    \/ Stoppers = {} /\ operations = Cardinality(Counted \cup owing)
    \/ Counted = {} /\ Cardinality(Stoppers \cup owing) = 1 /\ operations = -1

\* The clients share the container as ContainerLease promises.
Lease == INSTANCE ContainerLease WITH
  inside <- Users,
  on <- power = "running",
  sure <- ~astray /\ cycle \in {"ready", "over"} /\ \A c \in Clients : pc[c] # "network"
KeepsLease == Lease!Spec

\* A container that was started for somebody is shut down again after the
\* last of its users has gone, unless one of them ended without giving it back.
Drains == power = "running" ~> power # "running" \/ owing # {}

\* Clients are not refused for good, unless stopping the container failed.
RefusalsEnd == ~Granted ~> Granted \/ owing # {}

\* Whoever asked for the container comes back from it, with or without having
\* used it, whatever fails.
ClientsReturn == \A c \in Clients : pc[c] = "asking" ~> pc[c] = "done"
=============================================================================
