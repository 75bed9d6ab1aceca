----------------------- MODULE ContainerControlProofs -----------------------
(***************************************************************************)
(* Theorems about ContainerControl for every set of launchers and          *)
(* sessions, both backends, and whatever fails, raises or is restarted:    *)
(* the invariants say by name what the count cannot be blamed for.         *)
(***************************************************************************)
EXTENDS ContainerControl, FiniteSetTheorems, TLAPS

-----------------------------------------------------------------------------
(* Types. *)

LEMMA InitType == Init => TypeOK
<1> SUFFICES ASSUME Init PROVE TypeOK
  OBVIOUS
<1>1. /\ pc \in [Clients -> PCs] /\ seen \in [Clients -> {"none", "stopped", "frozen", "running"}]
      /\ \A s \in Sessions : pc[s] \notin {"recorded", "adrift", "exited", "unlist"}
  BY DEF Init, PCs, Clients
<1>2. power \in {"stopped", "frozen", "running"} /\ restarts \in 0..MaxRestarts
  BY RestAssumption, MaxRestartsAssumption DEF Init
<1>3. operations \in Int
  BY DEF Init
<1>4. invalid \subseteq Apps /\ records \subseteq Apps /\ without \subseteq Clients /\ owing \subseteq Clients
  BY DEF Init
<1>5. astray \in BOOLEAN /\ cycle \in {"ready", "found", "down", "up", "over"}
  BY DEF Init
<1> QED
  BY <1>1, <1>2, <1>3, <1>4, <1>5 DEF TypeOK

\* A client's step from one place to another leaves pc well typed.
LEMMA PlaceType ==
  ASSUME TypeOK, NEW c \in Clients, NEW l \in PCs, Goto(c, l),
         l \in {"recorded", "adrift", "exited", "unlist"} => c \in Apps
  PROVE  /\ pc' \in [Clients -> PCs]
         /\ \A s \in Sessions : pc'[s] \notin {"recorded", "adrift", "exited", "unlist"}
BY ClientsAssumption DEF TypeOK, Goto, Clients

LEMMA CountedAreRight ==
  ASSUME TypeOK, NEW c \in Clients, pc[c] \in {"recorded", "adrift", "exited", "unlist"}
  PROVE  c \in Apps
BY DEF TypeOK, Clients

LEMMA StartType ==
  ASSUME TypeOK, NEW c \in Clients, StartContainer(c) \/ WaitForNetwork(c)
  PROVE  TypeOK'
<1>1. PICK l \in {"network", "using", "refused", "done"} : Goto(c, l)
  BY DEF StartContainer, WaitForNetwork, SeemsRunning, Starts, FailsToStart, AfterFailure
<1>2. /\ pc' \in [Clients -> PCs]
      /\ \A s \in Sessions : pc'[s] \notin {"recorded", "adrift", "exited", "unlist"}
  BY <1>1, PlaceType DEF PCs
<1>3. power' \in {"stopped", "frozen", "running"} /\ without' \subseteq Clients /\ owing' \subseteq Clients
  BY DEF StartContainer, WaitForNetwork, SeemsRunning, Starts, FailsToStart, TypeOK, Relying
<1>4. UNCHANGED <<operations, invalid, records, seen, astray, restarts, cycle>>
  BY DEF StartContainer, WaitForNetwork
<1> QED
  BY <1>2, <1>3, <1>4 DEF TypeOK

LEMMA StopType ==
  ASSUME TypeOK, NEW c \in Clients, StopContainer(c) \/ ContainerStopped(c)
  PROVE  TypeOK'
<1>1. AfterStop(c) \in {"unlist", "done"} /\ (AfterStop(c) = "unlist" => c \in Apps)
  BY DEF AfterStop
<1>2. PICK l \in {"stopped", "done", "unlist"} : Goto(c, l) /\ (l = "unlist" => c \in Apps)
  BY <1>1 DEF StopContainer, ContainerStopped, Stops, FailsToStop
<1>3. /\ pc' \in [Clients -> PCs]
      /\ \A s \in Sessions : pc'[s] \notin {"recorded", "adrift", "exited", "unlist"}
  BY <1>2, PlaceType DEF PCs
<1>4. CASE StopContainer(c)
  <2>1. power' \in {"stopped", "frozen", "running"} /\ without' \subseteq Clients /\ owing' \subseteq Clients
    BY <1>4, RestAssumption DEF StopContainer, Stops, FailsToStop, TypeOK, Relying
  <2>2. UNCHANGED <<operations, invalid, records, seen, astray, restarts, cycle>>
    BY <1>4 DEF StopContainer
  <2> QED
    BY <1>3, <2>1, <2>2 DEF TypeOK
<1>5. CASE ContainerStopped(c)
  <2>1. /\ operations' = 0 /\ owing' = {} /\ astray' \in BOOLEAN
        /\ UNCHANGED <<invalid, records, power, seen, without, restarts, cycle>>
    BY <1>5 DEF ContainerStopped
  <2> QED
    BY <1>3, <2>1 DEF TypeOK
<1> QED
  BY <1>4, <1>5

LEMMA ClientType ==
  ASSUME TypeOK, NEW c \in Clients, Ask(c) \/ ClientStep(c)
  PROVE  TypeOK'
<1>1. CASE Ask(c)
  <2>1. seen' \in [Clients -> {"none", "stopped", "frozen", "running"}]
    BY <1>1 DEF Ask, TypeOK
  <2> QED
    BY <1>1, <2>1, PlaceType DEF Ask, TypeOK, PCs
<1>2. CASE OperationStart(c)
  BY <1>2, PlaceType DEF OperationStart, TypeOK, PCs
<1>3. CASE GiveUp(c)
  BY <1>3, PlaceType DEF GiveUp, AfterFailure, TypeOK, PCs
<1>4. CASE ReportStopped(c)
  <2>1. astray' \in BOOLEAN /\ operations' = 0 /\ owing' = {}
    BY <1>4 DEF ReportStopped
  <2> QED
    BY <1>4, <2>1, PlaceType DEF ReportStopped, TypeOK, PCs
<1>5. CASE AddRunningApp(c) \/ Exit(c) \/ Raise(c) \/ EndAdrift(c) \/ RemoveRunningApp(c)
  <2>1. PICK l \in {"recorded", "exited", "adrift", "done"} : Goto(c, l) /\ (l # "done" => c \in Apps)
    BY <1>5, CountedAreRight DEF AddRunningApp, Exit, Raise, EndAdrift, RemoveRunningApp
  <2>2. records' \subseteq Apps /\ owing' \subseteq Clients
    BY <1>5 DEF AddRunningApp, Exit, Raise, EndAdrift, RemoveRunningApp, TypeOK
  <2>3. UNCHANGED <<operations, invalid, power, seen, without, astray, restarts, cycle>>
    BY <1>5 DEF AddRunningApp, Exit, Raise, EndAdrift, RemoveRunningApp
  <2> QED
    BY <2>1, <2>2, <2>3, PlaceType DEF TypeOK, PCs
<1>6. CASE OperationFinished(c)
  <2>1. CountDown(c) \in Int
    BY DEF CountDown, TypeOK
  <2>2. operations' \in Int
    BY <1>6, <2>1 DEF OperationFinished
  <2>3. PICK l \in {"stopping", "unlist", "done"} : Goto(c, l) /\ (l = "unlist" => c \in Apps)
    BY <1>6 DEF OperationFinished, AfterStop
  <2> QED
    BY <1>6, <2>2, <2>3, PlaceType DEF OperationFinished, TypeOK, PCs
<1> QED
  BY <1>1, <1>2, <1>3, <1>4, <1>5, <1>6, StartType, StopType DEF ClientStep

LEMMA AliveFinite == TypeOK => IsFiniteSet(Alive)
BY ClientsAssumption, FS_Subset DEF TypeOK, Alive

LEMMA RestartType ==
  ASSUME TypeOK, RestartService
  PROVE  TypeOK'
<1>1. operations' \in Int
  BY AliveFinite, FS_CardinalityType DEF RestartService
<1>2. restarts' \in 0..MaxRestarts
  BY MaxRestartsAssumption DEF RestartService, TypeOK
<1>3. pc' \in [Clients -> PCs] /\ \A s \in Sessions : pc'[s] \notin {"recorded", "adrift", "exited", "unlist"}
  BY DEF RestartService, TypeOK, PCs, Clients
<1>4. /\ invalid' \subseteq Apps /\ records' \subseteq Apps /\ owing' \subseteq Clients
      /\ astray' \in BOOLEAN /\ UNCHANGED <<power, seen, without, cycle>>
  BY DEF RestartService, Alive, TypeOK, Clients
<1> QED
  BY <1>1, <1>2, <1>3, <1>4 DEF TypeOK

LEMMA CycleType ==
  ASSUME TypeOK, RestartContainer
  PROVE  TypeOK'
<1>1. /\ UNCHANGED <<operations, invalid, records, pc, seen, owing, astray, restarts>>
      /\ cycle' \in {"ready", "found", "down", "up", "over"}
  BY DEF RestartContainer, Cycle
<1>2. power' \in {"stopped", "frozen", "running"} /\ without' \subseteq Clients
  BY RestAssumption DEF RestartContainer, TurnOff, TypeOK, Relying
<1> QED
  BY <1>1, <1>2 DEF TypeOK

LEMMA NextType == TypeOK /\ [Next]_vars => TypeOK'
<1>1. ASSUME TypeOK, UNCHANGED vars PROVE TypeOK'
  BY <1>1 DEF vars, TypeOK
<1> QED
  BY <1>1, ClientType, RestartType, CycleType DEF Next, Quiet

\* The variables keep their types, whatever fails or is restarted.
THEOREM ControlTypes == Spec => []TypeOK
BY InitType, NextType, PTL DEF Spec
-----------------------------------------------------------------------------
(* Where clients are, and how a step changes who has the container. *)

CountedPlaces == {"starting", "network", "using", "recorded", "exited"}

\* Nothing is owed before it was lent; an app is on a list only after it was
\* recorded, and on that of the apps not counted only after it has ended.
Places ==
  /\ \A c \in owing : pc[c] \in {"refused", "adrift", "unlist", "done"}
  /\ \A c \in records : pc[c] \in {"recorded", "adrift", "exited", "stopping", "stopped", "unlist", "done"}
  /\ \A c \in invalid : pc[c] \in {"exited", "stopping", "stopped", "unlist", "done"}

\* Unless it went astray, the count covers everyone who has the container.
Balanced ==
  ~astray =>
    /\ Adrift \subseteq owing
    /\ \/ operations = -1 /\ Counted = {} /\ \E c \in Clients : Stoppers \cup owing = {c}
       \/ operations \in Nat /\ Stoppers = {} /\ operations = Cardinality(Counted \cup owing)

Sharing ==
  /\ TypeOK
  /\ Places
  /\ KeptRunning
  /\ Balanced

LEMMA FiniteClients ==
  ASSUME TypeOK
  PROVE  /\ IsFiniteSet(Clients) /\ IsFiniteSet(Counted \cup owing)
         /\ Cardinality(Counted \cup owing) \in Nat
<1>1. IsFiniteSet(Clients)
  BY ClientsAssumption, FS_Union DEF Clients
<1>2. Counted \cup owing \subseteq Clients
  BY DEF Counted, TypeOK
<1> QED
  BY <1>1, <1>2, FS_Subset, FS_CardinalityType

\* How a client's step from one place to another changes who has the container.
LEMMA Move ==
  ASSUME TypeOK, NEW c \in Clients, NEW l, Goto(c, l), invalid' = invalid
  PROVE  /\ Counted' = IF l \in CountedPlaces /\ c \notin invalid THEN Counted \cup {c} ELSE Counted \ {c}
         /\ Relying' = IF l \in {"using", "recorded", "adrift"} THEN Relying \cup {c} ELSE Relying \ {c}
         /\ Adrift' = IF l = "adrift" THEN Adrift \cup {c} ELSE Adrift \ {c}
         /\ Stoppers' = IF l \in {"stopping", "stopped"} THEN Stoppers \cup {c} ELSE Stoppers \ {c}
<1>1. \A d \in Clients : pc'[d] = IF d = c THEN l ELSE pc[d]
  BY DEF TypeOK, Goto
<1> QED
  BY <1>1 DEF Counted, Relying, Stoppers, Adrift, CountedPlaces

LEMMA MovePlaces ==
  ASSUME TypeOK, Places, NEW c \in Clients, NEW l, Goto(c, l), owing' \subseteq owing \cup {c},
         c \in owing' => l \in {"refused", "adrift", "unlist", "done"},
         records' \subseteq records \cup {c},
         c \in records' => l \in {"recorded", "adrift", "exited", "stopping", "stopped", "unlist", "done"},
         invalid' \subseteq invalid,
         c \in invalid' => l \in {"exited", "stopping", "stopped", "unlist", "done"}
  PROVE  Places'
<1>1. \A d \in Clients : pc'[d] = IF d = c THEN l ELSE pc[d]
  BY DEF TypeOK, Goto
<1>2. owing \subseteq Clients /\ records \subseteq Clients /\ invalid \subseteq Clients
  BY DEF TypeOK, Clients
<1> QED
  BY <1>1, <1>2 DEF Places

\* Whoever relies on the container is counted, or its application is adrift.
LEMMA RelyingAreCounted ==
  ASSUME Places
  PROVE  Relying \subseteq Counted \cup Adrift
BY DEF Places, Relying, Counted, Adrift

\* A step that changes neither the count nor who is covered by it.
LEMMA StillBalanced ==
  ASSUME Balanced, astray' = astray, operations' = operations, Stoppers' = Stoppers,
         Counted' \cup owing' = Counted \cup owing, Counted' \subseteq Counted,
         Counted = {} => owing' = owing,
         Adrift' \subseteq Adrift \cup owing', owing \subseteq owing'
  PROVE  Balanced'
BY DEF Balanced

\* Nobody relies on a container the count says is nobody's.
LEMMA NobodyRelies ==
  ASSUME TypeOK, Places, Balanced, ~astray, NEW c \in Stoppers
  PROVE  /\ operations = -1 /\ Counted = {} /\ owing = {} /\ Stoppers = {c}
         /\ Adrift = {} /\ Relying = {} /\ InUse = {c}
<1>1. operations = -1 /\ Counted = {} /\ Adrift \subseteq owing
  BY DEF Balanced
<1>2. PICK d \in Clients : Stoppers \cup owing = {d}
  BY <1>1 DEF Balanced
<1>3. c = d /\ Stoppers = {c} /\ owing \subseteq {c}
  BY <1>2
<1>4. c \notin owing
  BY DEF Places, Stoppers
<1> QED
  BY <1>1, <1>3, <1>4, RelyingAreCounted DEF InUse
-----------------------------------------------------------------------------
(* Each step keeps Sharing. *)

LEMMA SharingAsk ==
  ASSUME Sharing, NEW c \in Clients, Ask(c) \/ GiveUp(c)
  PROVE  /\ Sharing'
         /\ Users' = Users /\ power' = power
<1> USE DEF Sharing
<1>1. PICK l \in {"asking", "refused", "done"} : Goto(c, l)
  BY DEF Ask, GiveUp, AfterFailure
<1>2. /\ UNCHANGED <<operations, invalid, records, power, without, owing, astray>>
      /\ pc[c] \in {"idle", "asking"}
  BY DEF Ask, GiveUp
<1>3. c \notin Counted /\ c \notin Relying /\ c \notin Adrift /\ c \notin Stoppers
  BY <1>2 DEF Counted, Relying, Adrift, Stoppers
<1>4. c \notin owing /\ c \notin records /\ c \notin invalid
  BY <1>2 DEF Places
<1>5. Counted' = Counted /\ Relying' = Relying /\ Adrift' = Adrift /\ Stoppers' = Stoppers
  BY <1>1, <1>2, <1>3, Move DEF CountedPlaces
<1>6. Places'
  BY <1>1, <1>2, <1>4, MovePlaces
<1>7. TypeOK'
  BY ClientType DEF ClientStep
<1>8. Balanced'
  BY <1>2, <1>5 DEF Balanced
<1> QED
  BY <1>2, <1>5, <1>6, <1>7, <1>8 DEF KeptRunning, Users

LEMMA SharingGrant ==
  ASSUME Sharing, NEW c \in Clients, OperationStart(c)
  PROVE  /\ Sharing'
         /\ Users' = Users /\ power' = power
<1> USE DEF Sharing
<1>1. /\ Goto(c, "starting") /\ operations' = operations + 1 /\ operations # -1
      /\ UNCHANGED <<invalid, records, power, without, owing, astray>>
      /\ pc[c] = "asking"
  BY DEF OperationStart, Granted
<1>2. c \notin Counted /\ c \notin Relying /\ c \notin Adrift /\ c \notin Stoppers
  BY <1>1 DEF Counted, Relying, Adrift, Stoppers
<1>3. c \notin owing /\ c \notin records /\ c \notin invalid
  BY <1>1 DEF Places
<1>4. Counted' = Counted \cup {c} /\ Relying' = Relying /\ Adrift' = Adrift /\ Stoppers' = Stoppers
  BY <1>1, <1>2, <1>3, Move DEF CountedPlaces
<1>5. Places'
  BY <1>1, <1>3, MovePlaces
<1>6. TypeOK'
  BY ClientType DEF ClientStep
<1>7. Balanced'
  <2>1. Cardinality(Counted' \cup owing') = Cardinality(Counted \cup owing) + 1
    <3>1. Counted' \cup owing' = (Counted \cup owing) \cup {c} /\ c \notin Counted \cup owing
      BY <1>1, <1>2, <1>3, <1>4
    <3> QED
      BY <3>1, FiniteClients, FS_AddElement
  <2> QED
    BY <1>1, <1>4, <2>1, FiniteClients DEF Balanced
<1> QED
  BY <1>1, <1>4, <1>5, <1>6, <1>7 DEF KeptRunning, Users

LEMMA SharingReport ==
  ASSUME Sharing, NEW c \in Clients, ReportStopped(c)
  PROVE  /\ Sharing'
         /\ Users' = Users /\ power' = power
<1> USE DEF Sharing
<1>1. /\ Goto(c, "done") /\ operations' = 0 /\ owing' = {} /\ astray' = (InUse # {})
      /\ UNCHANGED <<invalid, records, power, without>> /\ pc[c] = "refused"
  BY DEF ReportStopped
<1>2. c \notin Counted /\ c \notin Relying /\ c \notin Adrift /\ c \notin Stoppers
  BY <1>1 DEF Counted, Relying, Adrift, Stoppers
<1>3. Counted' = Counted /\ Relying' = Relying /\ Adrift' = Adrift /\ Stoppers' = Stoppers
  BY <1>1, <1>2, Move DEF CountedPlaces
<1>4. Places'
  BY <1>1, MovePlaces
<1>5. TypeOK'
  BY ClientType DEF ClientStep
<1>6. Balanced'
  <2>1. InUse = {} => Counted' \cup owing' = {} /\ Adrift' = {} /\ Stoppers' = {}
    BY <1>1, <1>3 DEF InUse
  <2> QED
    BY <1>1, <2>1, FS_EmptySet DEF Balanced
<1> QED
  BY <1>1, <1>3, <1>4, <1>5, <1>6 DEF KeptRunning, Users
LEMMA SharingStart ==
  ASSUME Sharing, NEW c \in Clients, StartContainer(c) \/ WaitForNetwork(c)
  PROVE  /\ Sharing'
         /\ \/ Users' = Users /\ power' = power
            \/ Users' = Users \cup {c} /\ power' = "running"
            \/ Users' = {} /\ Users = {}
            \/ Users' = {} /\ pc[c] = "network"
<1> USE DEF Sharing
<1>1. /\ UNCHANGED <<operations, invalid, records, astray>>
      /\ pc[c] \in {"starting", "network"}
  BY DEF StartContainer, WaitForNetwork
<1>2. c \in Counted /\ c \notin Relying /\ c \notin Adrift /\ c \notin Stoppers
  BY <1>1 DEF Counted, Relying, Adrift, Stoppers, Places
<1>3. c \notin owing /\ c \notin records /\ c \notin invalid
  BY <1>1 DEF Places
<1>4. TypeOK'
  BY ClientType DEF ClientStep
<1>5. ASSUME NEW l \in {"network", "using"}, Goto(c, l), owing' = owing
      PROVE  Places' /\ Balanced' /\ Relying' = IF l = "using" THEN Relying \cup {c} ELSE Relying
  <2>1. /\ Counted' = Counted /\ Adrift' = Adrift /\ Stoppers' = Stoppers
        /\ Relying' = IF l = "using" THEN Relying \cup {c} ELSE Relying
    BY <1>1, <1>2, <1>3, <1>5, Move DEF CountedPlaces
  <2>2. Places'
    BY <1>1, <1>3, <1>5, MovePlaces
  <2> QED
    BY <1>1, <1>5, <2>1, <2>2, StillBalanced
<1>6. ASSUME Goto(c, AfterFailure(c)), owing' = owing \cup {c}
      PROVE  Places' /\ Balanced' /\ Relying' = Relying
  <2>1. PICK l \in {"refused", "done"} : Goto(c, l)
    BY <1>6 DEF AfterFailure
  <2>2. /\ Counted' = Counted \ {c} /\ Adrift' = Adrift /\ Stoppers' = Stoppers /\ Relying' = Relying
    BY SMTT(30), <1>1, <1>2, <2>1, Move DEF CountedPlaces
  <2>3. Places'
    BY <1>1, <1>3, <1>6, <2>1, MovePlaces
  <2> QED
    BY <1>1, <1>2, <1>6, <2>2, <2>3, StillBalanced
<1>7. CASE StartContainer(c) /\ SeemsRunning(c)
  <2>1. Goto(c, "using") /\ owing' = owing /\ power' = power
    BY <1>7 DEF SeemsRunning
  <2>2. Places' /\ Balanced' /\ Relying' = Relying \cup {c}
    BY <1>5, <2>1
  <2>3. CASE power = "running"
    <3>1. without' = without
      BY <1>7, <2>3 DEF SeemsRunning
    <3>2. Users' = Users \/ Users' = Users \cup {c}
      BY <2>2, <3>1 DEF Users
    <3> QED
      BY <1>4, <2>1, <2>2, <2>3, <3>2 DEF KeptRunning
  <2>4. CASE power # "running"
    <3>1. without' = without \cup {c}
      BY <1>7, <2>4 DEF SeemsRunning
    <3>2. Users' = Users
      BY <1>2, <2>2, <3>1 DEF Users
    <3> QED
      BY <1>4, <2>1, <2>2, <3>2 DEF KeptRunning
  <2> QED
    BY <2>3, <2>4
<1>8. CASE StartContainer(c) /\ Starts(c)
  <2>1. PICK l \in {"network", "using"} : Goto(c, l)
    BY <1>8 DEF Starts
  <2>2. power' = "running" /\ without' = without /\ owing' = owing
    BY <1>8 DEF Starts
  <2>3. Places' /\ Balanced' /\ (Relying' = Relying \/ Relying' = Relying \cup {c})
    BY <1>5, <2>1, <2>2
  <2>4. Users' = Users \/ Users' = Users \cup {c}
    BY <2>2, <2>3 DEF Users
  <2>5. power = "running" \/ Users = {}
    BY DEF KeptRunning
  <2> QED
    BY <1>4, <2>2, <2>3, <2>4, <2>5 DEF KeptRunning
<1>9. CASE StartContainer(c) /\ FailsToStart(c)
  <2>1. Places' /\ Balanced' /\ Relying' = Relying
    BY <1>6, <1>9 DEF FailsToStart
  <2>2. power' = power /\ without' = without
    BY <1>9 DEF FailsToStart
  <2> QED
    BY <1>4, <2>1, <2>2 DEF Users, KeptRunning
<1>10. CASE WaitForNetwork(c) /\ Goto(c, "using") /\ UNCHANGED <<power, without, owing>> /\ power = "running"
  <2>1. Places' /\ Balanced' /\ Relying' = Relying \cup {c}
    BY <1>5, <1>10
  <2>2. Users' = Users \/ Users' = Users \cup {c}
    BY <1>10, <2>1 DEF Users
  <2> QED
    BY <1>4, <1>10, <2>1, <2>2 DEF KeptRunning
<1>11. CASE /\ WaitForNetwork(c) /\ Goto(c, AfterFailure(c))
            /\ without' = without \cup Relying /\ owing' = owing \cup {c}
  <2>1. Places' /\ Balanced' /\ Relying' = Relying
    BY <1>6, <1>11
  <2>2. Users' = {} /\ pc[c] = "network"
    BY <1>11, <2>1 DEF Users, WaitForNetwork
  <2> QED
    BY <1>4, <2>1, <2>2 DEF KeptRunning
<1> QED
  BY <1>7, <1>8, <1>9, <1>10, <1>11 DEF StartContainer, WaitForNetwork

LEMMA SharingApp ==
  ASSUME Sharing, NEW c \in Clients,
         AddRunningApp(c) \/ Exit(c) \/ Raise(c) \/ EndAdrift(c) \/ RemoveRunningApp(c)
  PROVE  /\ Sharing'
         /\ Users' \subseteq Users /\ power' = power
<1> USE DEF Sharing
<1>1. UNCHANGED <<operations, invalid, power, without, astray>>
  BY DEF AddRunningApp, Exit, Raise, EndAdrift, RemoveRunningApp
<1>2. TypeOK'
  BY ClientType DEF ClientStep
<1>3. Places' /\ Balanced' /\ Relying' \subseteq Relying
  <2>1. CASE AddRunningApp(c)
    <3>1. pc[c] = "using" /\ Goto(c, "recorded") /\ records' = records \cup {c} /\ owing' = owing
      BY <2>1 DEF AddRunningApp
    <3>2. c \in Counted /\ c \in Relying /\ c \notin Adrift /\ c \notin Stoppers /\ c \notin invalid /\ c \notin owing
      BY <3>1 DEF Counted, Relying, Adrift, Stoppers, Places
    <3>3. Counted' = Counted /\ Relying' = Relying /\ Adrift' = Adrift /\ Stoppers' = Stoppers
      BY SMTT(30), <1>1, <3>1, <3>2, Move DEF CountedPlaces
    <3> QED
      BY <1>1, <3>1, <3>2, <3>3, MovePlaces, StillBalanced
  <2>2. CASE Exit(c)
    <3>1. pc[c] = "recorded" /\ Goto(c, "exited") /\ records' = records /\ owing' = owing
      BY <2>2 DEF Exit
    <3>2. c \in Counted /\ c \in Relying /\ c \notin Adrift /\ c \notin Stoppers /\ c \notin invalid /\ c \notin owing
      BY <3>1 DEF Counted, Relying, Adrift, Stoppers, Places
    <3>3. /\ Counted' = Counted \cup {c} /\ Relying' = Relying \ {c}
          /\ Adrift' = Adrift \ {c} /\ Stoppers' = Stoppers \ {c}
      BY <1>1, <3>1, <3>2, Move DEF CountedPlaces
    <3>4. Counted' = Counted /\ Adrift' = Adrift /\ Stoppers' = Stoppers
      BY <3>2, <3>3
    <3>5. Places'
      BY <1>1, <3>1, <3>2, MovePlaces
    <3> QED
      BY <1>1, <3>1, <3>3, <3>4, <3>5, StillBalanced
  <2>3. CASE Raise(c)
    <3>1. pc[c] = "recorded" /\ Goto(c, "adrift") /\ records' = records /\ owing' = owing \cup {c}
      BY <2>3 DEF Raise
    <3>2. c \in Counted /\ c \in Relying /\ c \notin Stoppers /\ c \notin invalid
      BY <3>1 DEF Counted, Relying, Stoppers, Places
    <3>3. Counted' = Counted \ {c} /\ Relying' = Relying \cup {c} /\ Adrift' = Adrift \cup {c} /\ Stoppers' = Stoppers \ {c}
      BY <1>1, <3>1, Move DEF CountedPlaces
    <3>4. Counted' \cup owing' = Counted \cup owing /\ Stoppers' = Stoppers /\ Relying' = Relying
      BY <3>1, <3>2, <3>3
    <3>5. Places'
      BY <1>1, <3>1, <3>2, MovePlaces
    <3> QED
      BY <1>1, <3>1, <3>2, <3>3, <3>4, <3>5, StillBalanced
  <2>4. CASE EndAdrift(c)
    <3>1. pc[c] = "adrift" /\ Goto(c, "done") /\ records' = records /\ owing' = owing
      BY <2>4 DEF EndAdrift
    <3>2. c \notin Counted /\ c \notin Stoppers /\ c \notin invalid
      BY <3>1 DEF Counted, Stoppers, Places
    <3>3. Counted' = Counted /\ Relying' = Relying \ {c} /\ Adrift' = Adrift \ {c} /\ Stoppers' = Stoppers
      BY SMTT(30), <1>1, <3>1, <3>2, Move DEF CountedPlaces
    <3> QED
      BY <1>1, <3>1, <3>2, <3>3, MovePlaces, StillBalanced
  <2>5. CASE RemoveRunningApp(c)
    <3>1. pc[c] = "unlist" /\ Goto(c, "done") /\ records' = records \ {c} /\ owing' = owing
      BY <2>5 DEF RemoveRunningApp
    <3>2. c \notin Counted /\ c \notin Relying /\ c \notin Adrift /\ c \notin Stoppers
      BY <3>1 DEF Counted, Relying, Adrift, Stoppers, Places
    <3>3. Counted' = Counted /\ Relying' = Relying /\ Adrift' = Adrift /\ Stoppers' = Stoppers
      BY <1>1, <3>1, <3>2, Move DEF CountedPlaces
    <3> QED
      BY <1>1, <3>1, <3>3, MovePlaces, StillBalanced
  <2> QED
    BY <2>1, <2>2, <2>3, <2>4, <2>5
<1>4. Users' \subseteq Users
  BY <1>1, <1>3 DEF Users
<1> QED
  BY <1>1, <1>2, <1>3, <1>4 DEF KeptRunning
\* The last one out is alone when it is told to stop the container.
LEMMA SharingFinished ==
  ASSUME Sharing, NEW c \in Clients, OperationFinished(c)
  PROVE  /\ Sharing'
         /\ Users' \subseteq Users /\ power' = power
<1> USE DEF Sharing
<1>1. /\ UNCHANGED <<records, power, without, owing, astray>> /\ invalid' = invalid \ {c}
      /\ pc[c] \in {"using", "exited"}
  BY DEF OperationFinished
<1>2. TypeOK'
  BY ClientType DEF ClientStep
<1>3. c \notin Adrift /\ c \notin Stoppers /\ c \notin owing
  BY <1>1 DEF Adrift, Stoppers, Places
<1>4. AfterStop(c) \in {"unlist", "done"} /\ (c \in records => AfterStop(c) = "unlist")
  BY DEF AfterStop, TypeOK
<1>5. PICK l \in {"stopping", "unlist", "done"} :
        /\ Goto(c, l) /\ (c \in records => l # "done")
        /\ \/ NobodyLeft(CountDown(c)) /\ operations' = -1 /\ l = "stopping"
           \/ ~NobodyLeft(CountDown(c)) /\ operations' = CountDown(c) /\ l # "stopping"
  BY <1>4 DEF OperationFinished
<1>6. \A d \in Clients : pc'[d] = IF d = c THEN l ELSE pc[d]
  BY <1>5 DEF TypeOK, Goto
<1>7. /\ Counted' = Counted \ {c} /\ Relying' = Relying \ {c} /\ Adrift' = Adrift
      /\ Stoppers' = IF l = "stopping" THEN Stoppers \cup {c} ELSE Stoppers
  BY <1>1, <1>3, <1>6 DEF Counted, Relying, Adrift, Stoppers
<1>8. Places'
  BY <1>1, <1>3, <1>5, MovePlaces
<1>9. Balanced'
  <2>1. CASE astray
    BY <1>1, <2>1 DEF Balanced
  <2>2. CASE ~astray /\ c \in invalid
    <3>1. c \notin Counted /\ CountDown(c) = operations
      BY <2>2 DEF Counted, CountDown
    <3>2. Counted' = Counted /\ (Cardinality(Counted \cup owing) = 0 => Counted = {} /\ owing = {})
      BY <1>7, <3>1, FiniteClients, FS_EmptySet
    <3>3. CASE operations = 0
      BY <1>1, <1>5, <1>7, <2>2, <3>1, <3>2, <3>3 DEF Balanced, NobodyLeft
    <3>4. CASE operations # 0
      BY <1>1, <1>5, <1>7, <2>2, <3>1, <3>2, <3>4 DEF Balanced, NobodyLeft
    <3> QED
      BY <3>3, <3>4
  <2>3. CASE ~astray /\ c \notin invalid
    <3>1. c \in Counted /\ CountDown(c) = operations - 1
      BY <1>1, <2>3 DEF Counted, CountDown
    <3>2. Counted' \cup owing' = (Counted \cup owing) \ {c}
      BY <1>1, <1>3, <1>7
    <3>3. Cardinality(Counted' \cup owing') = Cardinality(Counted \cup owing) - 1
      BY <3>1, <3>2, FiniteClients, FS_RemoveElement
    <3>4. IsFiniteSet(Counted' \cup owing') /\ Cardinality(Counted' \cup owing') \in Nat
      BY <3>2, FiniteClients, FS_RemoveElement, FS_CardinalityType
    <3>5. /\ operations \in Nat /\ Stoppers = {} /\ operations = Cardinality(Counted \cup owing)
          /\ Adrift \subseteq owing
      BY <2>3, <3>1 DEF Balanced
    <3>6. CASE operations - 1 = 0
      <4>1. Counted' = {} /\ owing' = {}
        BY <3>3, <3>4, <3>5, <3>6, FS_EmptySet
      <4> QED
        BY <1>1, <1>5, <1>7, <2>3, <3>1, <3>5, <3>6, <4>1 DEF Balanced, NobodyLeft
    <3>7. CASE operations - 1 # 0
      BY <1>1, <1>5, <1>7, <2>3, <3>1, <3>3, <3>4, <3>5, <3>7 DEF Balanced, NobodyLeft
    <3> QED
      BY <3>6, <3>7
  <2> QED
    BY <2>1, <2>2, <2>3
<1>10. Users' \subseteq Users
  BY <1>1, <1>7 DEF Users
<1> QED
  BY <1>1, <1>2, <1>8, <1>9, <1>10 DEF KeptRunning

LEMMA SharingStop ==
  ASSUME Sharing, NEW c \in Clients, StopContainer(c)
  PROVE  /\ Sharing'
         /\ \/ Users' = Users /\ power' = power
            \/ Users' = {} /\ Users = {}
            \/ Users' = {} /\ astray
<1> USE DEF Sharing
<1>1. UNCHANGED <<operations, invalid, records, astray>> /\ pc[c] = "stopping"
  BY DEF StopContainer
<1>2. c \notin Counted /\ c \notin Relying /\ c \notin Adrift /\ c \in Stoppers /\ c \notin owing
  BY <1>1 DEF Counted, Relying, Adrift, Stoppers, Places
<1>3. TypeOK'
  BY ClientType DEF ClientStep
<1>4. CASE Stops(c)
  <2>1. Goto(c, "stopped") /\ owing' = owing
    BY <1>4 DEF Stops
  <2>2. Counted' = Counted /\ Relying' = Relying /\ Adrift' = Adrift /\ Stoppers' = Stoppers
    BY <1>1, <1>2, <2>1, Move DEF CountedPlaces
  <2>3. Places'
    BY <1>1, <1>2, <2>1, MovePlaces
  <2>4. Balanced'
    BY <1>1, <2>1, <2>2, StillBalanced DEF Balanced
  <2>5. CASE astray
    <3>1. Users' = {}
      BY <1>4, <2>2, <2>5 DEF Stops, Users
    <3> QED
      BY <1>3, <2>3, <2>4, <2>5, <3>1 DEF KeptRunning
  <2>6. CASE ~astray
    <3>1. Relying = {}
      BY <1>2, <2>6, NobodyRelies
    <3>2. Users = {} /\ Users' = {}
      BY <2>2, <3>1 DEF Users
    <3> QED
      BY <1>3, <2>3, <2>4, <3>2 DEF KeptRunning
  <2> QED
    BY <2>5, <2>6
<1>5. CASE FailsToStop(c)
  <2>1. PICK l \in {"unlist", "done"} : Goto(c, l)
    BY <1>5 DEF FailsToStop, AfterStop
  <2>2. owing' = owing \cup {c} /\ UNCHANGED <<power, without>>
    BY <1>5 DEF FailsToStop
  <2>3. Counted' = Counted /\ Relying' = Relying /\ Adrift' = Adrift /\ Stoppers' = Stoppers \ {c}
    BY <1>1, <1>2, <2>1, Move DEF CountedPlaces
  <2>4. Places'
    BY <1>1, <2>1, <2>2, MovePlaces DEF Places
  <2>5. Balanced'
    <3>1. CASE astray
      BY <1>1, <3>1 DEF Balanced
    <3>2. CASE ~astray
      <4>1. operations = -1 /\ Counted = {} /\ owing = {} /\ Stoppers = {c} /\ Adrift = {}
        BY <1>2, <3>2, NobodyRelies
      <4> QED
        BY <1>1, <2>2, <2>3, <4>1 DEF Balanced
    <3> QED
      BY <3>1, <3>2
  <2> QED
    BY <1>3, <2>2, <2>3, <2>4, <2>5 DEF KeptRunning, Users
<1> QED
  BY <1>4, <1>5 DEF StopContainer

LEMMA SharingStopped ==
  ASSUME Sharing, NEW c \in Clients, ContainerStopped(c)
  PROVE  /\ Sharing'
         /\ Users' = Users /\ power' = power
<1> USE DEF Sharing
<1>1. /\ UNCHANGED <<invalid, records, power, without>> /\ pc[c] = "stopped"
      /\ operations' = 0 /\ owing' = {} /\ astray' = (astray /\ InUse # {c})
  BY DEF ContainerStopped
<1>2. c \notin Counted /\ c \notin Relying /\ c \notin Adrift /\ c \in Stoppers
  BY <1>1 DEF Counted, Relying, Adrift, Stoppers
<1>3. TypeOK'
  BY ClientType DEF ClientStep
<1>4. PICK l \in {"unlist", "done"} : Goto(c, l)
  BY DEF ContainerStopped, AfterStop
<1>5. Counted' = Counted /\ Relying' = Relying /\ Adrift' = Adrift /\ Stoppers' = Stoppers \ {c}
  BY <1>1, <1>2, <1>4, Move DEF CountedPlaces
<1>6. Places'
  BY <1>1, <1>4, MovePlaces DEF Places
<1>7. Balanced'
  <2>1. ASSUME ~astray' PROVE InUse = {c}
    <3>1. CASE astray
      BY <1>1, <2>1, <3>1
    <3>2. CASE ~astray
      BY <1>2, <3>2, NobodyRelies
    <3> QED
      BY <3>1, <3>2
  <2>2. ASSUME InUse = {c} PROVE Counted' \cup owing' = {} /\ Adrift' = {} /\ Stoppers' = {}
    BY <1>1, <1>2, <1>5, <2>2 DEF InUse
  <2> QED
    BY <1>1, <2>1, <2>2, FS_EmptySet DEF Balanced
<1> QED
  BY <1>1, <1>3, <1>5, <1>6, <1>7 DEF KeptRunning, Users

\* The new service counts the apps that are alive; if they are all that is in
\* use, the count is right again.
LEMMA SharingRestart ==
  ASSUME Sharing, RestartService
  PROVE  /\ Sharing'
         /\ Users' \subseteq Users /\ power' = power
<1> USE DEF Sharing
<1>1. /\ operations' = Cardinality(Alive) /\ invalid' = records \ Alive /\ records' = Alive
      /\ owing' = {a \in Alive : pc[a] = "adrift"} /\ astray' = (InUse' \ Alive # {})
      /\ UNCHANGED <<power, without>>
  BY DEF RestartService
<1>2. \A c \in Clients : pc'[c] = IF c \in Threads /\ pc[c] # "idle" THEN "done" ELSE pc[c]
  BY DEF RestartService
<1>3. Alive \subseteq Clients /\ \A a \in records : pc'[a] = pc[a] /\ a \in Clients
  BY <1>2, ClientsAssumption DEF Alive, TypeOK, Clients
<1>4. TypeOK'
  BY RestartType
<1>5. Places'
  BY <1>1, <1>3 DEF Places, Alive
<1>6. Users' \subseteq Users
  BY <1>1, <1>2 DEF Users, Relying
<1>7. Balanced'
  <2>1. \A a \in Alive : a \in Clients /\ pc'[a] \in {"recorded", "adrift"} /\ a \notin invalid' /\ pc'[a] = pc[a]
    BY <1>1, <1>3 DEF Alive
  <2>2. ASSUME InUse' \subseteq Alive
        PROVE  Counted' \cup owing' = Alive /\ Adrift' \subseteq owing' /\ Stoppers' = {}
    <3>1. \A c \in InUse' : c \in Alive
      BY <2>2
    <3>2. Stoppers' = {}
      BY <2>1, <3>1 DEF InUse, Stoppers
    <3>3. Adrift' \subseteq owing'
      BY <1>1, <2>1, <3>1 DEF InUse, Adrift
    <3>4. Alive \subseteq Counted' \cup owing'
      BY <1>1, <2>1 DEF Counted
    <3>5. Counted' \subseteq Alive /\ owing' \subseteq Alive
      BY <1>1, <3>1 DEF InUse
    <3> QED
      BY <3>2, <3>3, <3>4, <3>5
  <2>3. Cardinality(Alive) \in Nat
    BY AliveFinite, FS_CardinalityType
  <2>4. CASE InUse' \subseteq Alive
    BY <1>1, <2>2, <2>3, <2>4 DEF Balanced
  <2>5. CASE ~(InUse' \subseteq Alive)
    <3>1. astray'
      BY <1>1, <2>5
    <3> QED
      BY <3>1 DEF Balanced
  <2> QED
    BY <2>4, <2>5
<1> QED
  BY <1>1, <1>4, <1>5, <1>6, <1>7 DEF KeptRunning

LEMMA SharingCycle ==
  ASSUME Sharing, RestartContainer
  PROVE  /\ Sharing'
         /\ \/ Users' = Users /\ power' = power
            \/ Users' = {} /\ Users = {}
            \/ Users' = {} /\ cycle \in {"found", "up"}
<1> USE DEF Sharing
<1>1. UNCHANGED <<operations, invalid, records, pc, owing, astray>>
  BY DEF RestartContainer, Cycle
<1>2. TypeOK'
  BY CycleType
<1>3. Counted' = Counted /\ Relying' = Relying /\ Adrift' = Adrift /\ Stoppers' = Stoppers
  BY <1>1 DEF Counted, Relying, Adrift, Stoppers
<1>4. Places'
  BY <1>1 DEF Places
<1>5. Balanced'
  BY <1>1, <1>3 DEF Balanced
<1>6. \/ power' = power /\ without' = without
      \/ power' = "running" /\ without' = without
      \/ without' = without \cup Relying /\ cycle \in {"found", "up"}
  BY DEF RestartContainer, TurnOff, Cycle
<1>7. CASE power' = power /\ without' = without
  BY <1>2, <1>3, <1>4, <1>5, <1>7 DEF Users, KeptRunning
<1>8. CASE power' = "running" /\ without' = without
  BY <1>2, <1>3, <1>4, <1>5, <1>8 DEF Users, KeptRunning
<1>9. CASE without' = without \cup Relying /\ cycle \in {"found", "up"}
  <2>1. Users' = {}
    BY <1>3, <1>9 DEF Users
  <2> QED
    BY <1>2, <1>4, <1>5, <1>9, <2>1 DEF KeptRunning
<1> QED
  BY <1>6, <1>7, <1>8, <1>9
-----------------------------------------------------------------------------
(* The theorems about sharing. *)

LEMMA InitSharing == Init => Sharing
<1> SUFFICES ASSUME Init PROVE Sharing
  OBVIOUS
<1>1. Counted = {} /\ Users = {} /\ Stoppers = {} /\ Adrift = {}
  BY DEF Init, Counted, Users, Relying, Stoppers, Adrift
<1>2. Cardinality(Counted \cup {}) = 0
  BY <1>1, FS_EmptySet
<1>3. Balanced
  BY <1>1, <1>2 DEF Init, Balanced
<1> QED
  BY <1>1, <1>3, InitType DEF Init, Sharing, Places, KeptRunning

\* What a step is to ContainerLease.
Leased ==
  \/ Users' \subseteq Users /\ power' = power
  \/ \E c \in Clients : Users' = Users \cup {c} /\ power' = "running"
  \/ Users' = {} /\ Users = {}
  \/ /\ Users' = {}
     /\ astray \/ cycle \in {"found", "up"} \/ \E c \in Clients : pc[c] = "network"

LEMMA NextSharing ==
  ASSUME Sharing, [Next]_vars
  PROVE  Sharing' /\ Leased
<1>1. ASSUME NEW c \in Clients, Ask(c) \/ ClientStep(c) PROVE Sharing' /\ Leased
  <2>1. CASE Ask(c) \/ GiveUp(c)
    BY <2>1, SharingAsk DEF Leased
  <2>2. CASE OperationStart(c)
    BY <2>2, SharingGrant DEF Leased
  <2>3. CASE ReportStopped(c)
    BY <2>3, SharingReport DEF Leased
  <2>4. CASE StartContainer(c) \/ WaitForNetwork(c)
    BY <2>4, SharingStart DEF Leased
  <2>5. CASE AddRunningApp(c) \/ Exit(c) \/ Raise(c) \/ EndAdrift(c) \/ RemoveRunningApp(c)
    BY <2>5, SharingApp DEF Leased
  <2>6. CASE OperationFinished(c)
    BY <2>6, SharingFinished DEF Leased
  <2>7. CASE StopContainer(c)
    BY <2>7, SharingStop DEF Leased
  <2>8. CASE ContainerStopped(c)
    BY <2>8, SharingStopped DEF Leased
  <2> QED
    BY <1>1, <2>1, <2>2, <2>3, <2>4, <2>5, <2>6, <2>7, <2>8 DEF ClientStep
<1>2. CASE RestartService
  BY <1>2, SharingRestart DEF Leased
<1>3. CASE RestartContainer
  BY <1>3, SharingCycle DEF Leased
<1>4. CASE UNCHANGED vars
  <2>1. TypeOK'
    BY <1>4, NextType DEF Sharing
  <2>2. Counted' = Counted /\ Stoppers' = Stoppers /\ Relying' = Relying /\ Adrift' = Adrift
    BY <1>4 DEF vars, Counted, Stoppers, Relying, Adrift
  <2>3. Users' = Users /\ power' = power
    BY <1>4, <2>2 DEF vars, Users
  <2>4. Places' /\ Balanced'
    BY <1>4, <2>2 DEF vars, Sharing, Places, Balanced
  <2> QED
    BY <2>1, <2>3, <2>4 DEF Sharing, KeptRunning, Leased
<1> QED
  BY <1>1, <1>2, <1>3, <1>4 DEF Next, Quiet

LEMMA SharingAlways == Spec => []Sharing
BY InitSharing, NextSharing, PTL DEF Spec

\* Whoever was granted the container finds it running until it gives it back,
\* for any number of launchers and sessions, both backends and whatever fails
\* or is restarted, but for the clients that history names.
THEOREM InUseKeptRunning == Spec => []KeptRunning
BY SharingAlways, PTL DEF Sharing

\* The count is exact, those who ended without giving the container back
\* counted in, until it is reset under somebody's feet; and it is exact again
\* once a reset or a restart of the service finds nobody it does not count.
THEOREM CounterExact == Spec => []CounterCounts
<1>1. Sharing => CounterCounts
  <2> SUFFICES ASSUME Sharing, ~astray PROVE CounterCounts
    BY DEF CounterCounts
  <2>1. CASE operations = -1 /\ Counted = {} /\ \E c \in Clients : Stoppers \cup owing = {c}
    <3>1. Cardinality(Stoppers \cup owing) = 1
      BY <2>1, FS_Singleton
    <3> QED
      BY <2>1, <3>1 DEF CounterCounts
  <2>2. CASE operations \in Nat /\ Stoppers = {} /\ operations = Cardinality(Counted \cup owing)
    BY <2>2 DEF CounterCounts
  <2> QED
    BY <2>1, <2>2 DEF Sharing, Balanced
<1> QED
  BY <1>1, SharingAlways, PTL

\* The container is shared as ContainerLease promises.
THEOREM LeaseKept == Spec => KeepsLease
<1>1. Init => Lease!Init
  BY RestAssumption DEF Init, Lease!Init, Users, Relying
<1>2. ASSUME Sharing, Leased
      PROVE  [Lease!Next]_<<Users, power = "running">>
  <2>1. CASE Users' \subseteq Users /\ power' = power
    BY <2>1 DEF Lease!Next, Lease!Leave
  <2>2. ASSUME NEW c \in Clients, Users' = Users \cup {c}, power' = "running"
        PROVE  [Lease!Next]_<<Users, power = "running">>
    <3>1. CASE c \notin Users
      BY <2>2, <3>1 DEF Lease!Next, Lease!Enter
    <3>2. CASE c \in Users
      <4>1. Users' = Users /\ power = "running"
        BY <1>2, <2>2, <3>2 DEF Sharing, KeptRunning
      <4> QED
        BY <2>2, <4>1
    <3> QED
      BY <3>1, <3>2
  <2>3. CASE Users' = {} /\ Users = {}
    <3>1. CASE power = "running" /\ power' # "running"
      BY <2>3, <3>1 DEF Lease!Next, Lease!SwitchOff
    <3>2. CASE power # "running" /\ power' = "running"
      BY <2>3, <3>2 DEF Lease!Next, Lease!SwitchOn
    <3>3. CASE (power = "running") = (power' = "running")
      BY <2>3, <3>3
    <3> QED
      BY <3>1, <3>2, <3>3
  <2>4. CASE /\ Users' = {}
             /\ astray \/ cycle \in {"found", "up"} \/ \E c \in Clients : pc[c] = "network"
    BY <2>4 DEF Lease!Next, Lease!TakeAway
  <2> QED
    BY <1>2, <2>1, <2>2, <2>3, <2>4 DEF Leased
<1> QED
  BY <1>1, <1>2, NextSharing, SharingAlways, PTL DEF Spec, KeepsLease, Lease!Spec
=============================================================================
