---------------------------- MODULE SessionProofs ----------------------------
(***************************************************************************)
(* Session for any services, connections and buffers: what a session       *)
(* leaves behind, and that a bridge is torn down only for a reason of its  *)
(* own, although events are handled when they are stale and descriptors    *)
(* are used again.                                                         *)
(***************************************************************************)
EXTENDS Session, FiniteSetTheorems, SequenceTheorems, WellFoundedInduction, TLAPS

-----------------------------------------------------------------------------
(* What is left behind. *)

ServiceStates == {"off", "running", "stopping", "zombie", "reaped"}

\* How far the session has come tells what it still has.
Course ==
  /\ svc \in [Services -> ServiceStates]
  /\ phase \in {"services", "start"} => app = "none" /\ ~record
  /\ phase = "stop" => app = "reaped"
  /\ phase = "exit" =>
       /\ app \in {"reaped", "None"} /\ ~record
       /\ \A s \in Services : svc[s] # "running"
  /\ CleanEnd

\* The steps that touch only the bridges, the pipe and the batch.
LEMMA BridgesKeepCourse ==
  ASSUME Course, UNCHANGED <<phase, app, svc, record, sockets>>
  PROVE  Course'
  BY DEF Course, CleanEnd

LEMMA EnvironmentCourse == ASSUME Course, Environment PROVE Course'
<1>1. CASE \E x \in Pairs : Connect(x) \/ \E s \in Sides : Send(x, s) \/ Receive(x, s) \/ CloseEnd(x, s)
  BY <1>1, BridgesKeepCourse DEF Connect, Send, Receive, CloseEnd
<1>2. CASE AppExits
  BY <1>2 DEF AppExits, Course, CleanEnd
<1>3. CASE \E s \in Services : ServiceExits(s)
  BY <1>3 DEF ServiceExits, Course, CleanEnd, ServiceStates
<1>4. CASE \E sig \in {"CHLD", "INT"} : Signal(sig)
  BY <1>4, BridgesKeepCourse DEF Signal
<1> QED
  BY <1>1, <1>2, <1>3, <1>4 DEF Environment

\* Services are told to stop, whatever has become of them.
LEMMA ServicesStopped ==
  ASSUME Course, StopServices
  PROVE  svc' \in [Services -> ServiceStates] /\ \A s \in Services : svc'[s] # "running"
  BY DEF Course, StopServices, ServiceStates

LEMMA StartCourse == ASSUME Course, StartApplication PROVE Course'
<1>1. CASE app' = "running" /\ phase' = "loop" /\ UNCHANGED svc
  BY <1>1 DEF Course, CleanEnd
<1>2. CASE app' \in {"None", "False"} /\ StopServices
  BY <1>2, ServicesStopped DEF StartApplication, Course, CleanEnd
<1>3. CASE Fail /\ UNCHANGED svc
  BY <1>3 DEF Fail, Course, CleanEnd
<1> QED
  BY <1>1, <1>2, <1>3 DEF StartApplication

LEMMA HandleCourse == ASSUME Course, Handle PROVE Course'
<1> PICK k \in batch :
      HandleSignals(k) \/ (\E x \in Pairs : HandleListener(k, x)) \/ HandleRead(k)
  BY DEF Handle
<1>1. phase = "loop" /\ phase' \in {"loop", "finish", "failed"}
  BY DEF Handle, HandleSignals, HandleListener, HandleRead, Stop, Fail
<1>2. svc' \in [Services -> ServiceStates]
  BY DEF HandleSignals, HandleListener, HandleRead, Course, ServiceStates
<1> QED
  BY <1>1, <1>2 DEF Course, CleanEnd

LEMMA SessionCourse == ASSUME Course, SessionStep PROVE Course'
<1>1. CASE \E s \in Services : LaunchService(s)
  BY <1>1 DEF LaunchService, Course, CleanEnd, ServiceStates
<1>2. CASE Constructed
  BY <1>2 DEF Constructed, Course, CleanEnd
<1>3. CASE Select
  BY <1>3, BridgesKeepCourse DEF Select
<1>4. CASE FinishApplication
  BY <1>4 DEF FinishApplication, Fail, Course, CleanEnd
<1>5. CASE Stopping
  BY <1>5, ServicesStopped DEF Stopping, Course, CleanEnd
<1>6. CASE Exit
  BY <1>6 DEF Exit, Course, CleanEnd
<1> QED
  BY <1>1, <1>2, <1>3, <1>4, <1>5, <1>6, StartCourse, HandleCourse DEF SessionStep

\* _shutdown and the paths to it: whatever the services, the application, the
\* host and the user do, and in whatever order signals are handled, a session
\* that does not raise has waited for its application, taken its entry out,
\* removed its sockets and told every service to stop.
THEOREM SessionEndsClean == Spec => []CleanEnd
<1>1. Init => Course
  BY DEF Init, Course, CleanEnd, ServiceStates
<1>2. Course /\ [Next]_vars => Course'
  BY EnvironmentCourse, SessionCourse, BridgesKeepCourse DEF Next, vars
<1>3. Course => CleanEnd
  BY DEF Course
<1> QED
  BY <1>1, <1>2, <1>3, PTL DEF Spec

-----------------------------------------------------------------------------
(* Descriptors. *)

PairStates == {"new", "waiting", "open", "closed"}

\* A connection has two descriptors of its own as long as it is open.
Descriptors ==
  \A x \in Pairs :
    /\ pair[x].state = "open" =>
         /\ pair[x].fd["session"] \in Fds /\ pair[x].fd["host"] \in Fds
         /\ pair[x].fd["session"] # pair[x].fd["host"]
    /\ pair[x].state # "open" => \A s \in Sides : pair[x].fd[s] = 0

\* An event that waits to be handled belongs to a connection that has been
\* accepted, and if that is still open, there is something to read.
Pending ==
  \A k \in batch : k.of \in Pairs =>
    /\ k.fd \in Fds
    /\ pair[k.of].state \in {"open", "closed"}
    /\ \A s \in Sides : pair[k.of].fd[s] = k.fd => Readable(k.of, s)

LEMMA LowestIsThere ==
  ASSUME NEW F, F \subseteq Nat, F # {}
  PROVE  LowestOf(F) \in F
<1>1. \E n \in F : \A m \in F : ~(<<m, n>> \in OpToRel(<, Nat))
  BY WFMin, NatLessThanWellFounded, Zenon
<1>2. PICK n \in F : \A m \in F : ~(m < n)
  BY <1>1 DEF OpToRel
<1>3. \A m \in F : n <= m
  BY <1>2
<1> QED
  BY <1>3, Zenon DEF LowestOf

LEMMA PairsFinite == /\ Cardinality(Pairs) \in Nat
                     /\ Fds \subseteq Nat \ {0}
                     /\ IsFiniteSet(Fds) /\ Cardinality(Fds) = 2 * Cardinality(Pairs)
<1>1. Cardinality(Pairs) \in Nat
  BY PairsAssumption, FS_CardinalityType
<1> DEFINE n == 2 * Cardinality(Pairs)
<1>2. n \in Nat /\ n \in Int /\ 1 \in Int
  BY <1>1
<1>3. IsFiniteSet(1..n) /\ Cardinality(1..n) = IF 1 > n THEN 0 ELSE n - 1 + 1
  <2> HIDE DEF n
  <2> QED
    BY <1>2, FS_Interval
<1>4. 1..n \subseteq Nat \ {0}
  BY <1>2
<1> QED
  BY <1>1, <1>2, <1>3, <1>4 DEF Fds

\* There is always room for one more connection: each of the others has at
\* most two of the descriptors.
LEMMA TwoAreFree ==
  ASSUME NEW x \in Pairs, \A s \in Sides : pair[x].fd[s] = 0
  PROVE  /\ LowestOf(FreeFds) \in Fds
         /\ LowestOf(FreeFds \ {LowestOf(FreeFds)}) \in Fds
         /\ LowestOf(FreeFds \ {LowestOf(FreeFds)}) # LowestOf(FreeFds)
<1> DEFINE others == Pairs \ {x}
           ofOthers == others \X Sides
           used == {pair[z[1]].fd[z[2]] : z \in ofOthers}
           f == [z \in ofOthers |-> pair[z[1]].fd[z[2]]]
           all == UNION {{pair[y].fd[s] : s \in Sides} : y \in Pairs}
<1>1. IsFiniteSet(others) /\ Cardinality(others) = Cardinality(Pairs) - 1
  BY PairsAssumption, FS_RemoveElement
<1>2. IsFiniteSet(Sides) /\ Cardinality(Sides) = 2
  <2>1. Sides = {"session"} \cup {"host"}
    BY DEF Sides
  <2>2. "host" \notin {"session"}
    OBVIOUS
  <2>3. IsFiniteSet({"session"}) /\ Cardinality({"session"}) = 1
    BY FS_Singleton
  <2>4. /\ IsFiniteSet({"session"} \cup {"host"})
        /\ Cardinality({"session"} \cup {"host"}) = IF "host" \in {"session"} THEN 1 ELSE 1 + 1
    BY <2>3, FS_AddElement, Zenon
  <2> QED
    BY <2>1, <2>2, <2>4
<1>3. IsFiniteSet(ofOthers) /\ Cardinality(ofOthers) = Cardinality(others) * Cardinality(Sides)
  BY <1>1, <1>2, FS_Product
<1>4. f \in Surjection(ofOthers, used)
  BY DEF Surjection
<1>5. IsFiniteSet(used) /\ Cardinality(used) <= Cardinality(ofOthers)
  <2> HIDE DEF f, used, ofOthers
  <2> QED
    BY <1>3, <1>4, FS_Surjection
<1>6. Cardinality(used) \in Nat
  BY <1>5, FS_CardinalityType
<1>7. Fds \cap all \subseteq used
  <2> SUFFICES ASSUME NEW n \in Fds, n \in all PROVE n \in used
    OBVIOUS
  <2>1. PICK y \in Pairs, s \in Sides : n = pair[y].fd[s]
    OBVIOUS
  <2>2. n # 0
    BY PairsFinite
  <2>3. <<y, s>> \in ofOthers
    BY <2>1, <2>2
  <2>4. n = pair[<<y, s>>[1]].fd[<<y, s>>[2]]
    BY <2>1
  <2> QED
    BY <2>3, <2>4
<1>8. FreeFds = Fds \ all
  BY DEF FreeFds
<1> HIDE DEF used, all, ofOthers, others, f
<1>9. Cardinality(Fds \cap all) <= Cardinality(used)
  BY <1>5, <1>7, FS_Subset
<1>10. IsFiniteSet(FreeFds) /\ Cardinality(FreeFds) = Cardinality(Fds) - Cardinality(Fds \cap all)
  BY <1>8, PairsFinite, FS_Difference
<1>11. Cardinality(Fds \cap all) \in Nat
  BY PairsFinite, FS_Intersection, FS_CardinalityType
<1>12. Cardinality(FreeFds) \in Nat /\ Cardinality(FreeFds) >= 2
  <2>1. Cardinality(ofOthers) = (Cardinality(Pairs) - 1) * 2
    BY <1>1, <1>2, <1>3
  <2>2. Cardinality(ofOthers) = 2 * Cardinality(Pairs) - 2
    BY <2>1, PairsFinite
  <2> QED
    BY <2>2, <1>5, <1>6, <1>9, <1>10, <1>11, PairsFinite
<1> DEFINE a == LowestOf(FreeFds)
<1>13. FreeFds # {} /\ FreeFds \subseteq Fds
  BY <1>8, <1>10, <1>12, FS_EmptySet
<1>14. a \in FreeFds
  BY <1>13, PairsFinite, LowestIsThere
<1>15. IsFiniteSet(FreeFds \ {a}) /\ Cardinality(FreeFds \ {a}) >= 1
  <2> HIDE DEF a
  <2>1. /\ IsFiniteSet(FreeFds \ {a})
        /\ Cardinality(FreeFds \ {a}) =
             IF a \in FreeFds THEN Cardinality(FreeFds) - 1 ELSE Cardinality(FreeFds)
    BY <1>10, FS_RemoveElement, Zenon
  <2> QED
    BY <2>1, <1>12, <1>14
<1>16. FreeFds \ {a} # {}
  BY <1>15, FS_EmptySet
<1>17. LowestOf(FreeFds \ {a}) \in FreeFds \ {a}
  BY <1>13, <1>16, PairsFinite, LowestIsThere
<1> QED
  BY <1>13, <1>14, <1>17

-----------------------------------------------------------------------------
(* Bridges. *)

PairRecords == [state : PairStates, fd : [Sides -> Fds \cup {0}]]

BridgeInv == TypeOK /\ Descriptors /\ Pending /\ BridgesSound

LEMMA InitBridges == Init => BridgeInv
<1> SUFFICES ASSUME Init PROVE BridgeInv
  OBVIOUS
<1> DEFINE new == [state |-> "new", fd |-> [s \in Sides |-> 0]]
<1>1. new \in PairRecords /\ [Closed EXCEPT !.state = "new"] = new
  BY DEF PairRecords, PairStates, Closed
<1>2. pair = [x \in Pairs |-> new]
  BY <1>1 DEF Init
<1>3. pair \in [Pairs -> PairRecords]
  BY <1>1, <1>2
<1>4. pipe \in Seq({"CHLD", "INT"})
  BY DEF Init
<1>5. svc \in [Services -> ServiceStates]
  BY DEF Init, ServiceStates
<1>6. /\ ends \in [Pairs -> [{"app", "host"} -> {"open", "closed"}]]
      /\ inq \in [Pairs -> [Directions -> 0..Capacity]]
      /\ outq \in [Pairs -> [Directions -> 0..Capacity]]
      /\ lost \in [Pairs -> [Directions -> BOOLEAN]]
      /\ full \in [Pairs -> BOOLEAN]
  BY CapacityAssumption DEF Init
<1>10. /\ phase \in Phases /\ app \in Apps /\ record \in BOOLEAN /\ sockets \in BOOLEAN
       /\ batch \subseteq Events
       /\ pieces \in 0..MaxPieces /\ signals \in 0..MaxSignals
  <2>1. /\ phase = "services" /\ app = "none" /\ record = FALSE /\ sockets = TRUE
        /\ batch = {} /\ pieces = 0 /\ signals = 0
    BY DEF Init
  <2>2. pieces \in 0..MaxPieces /\ signals \in 0..MaxSignals
    BY <2>1, MaxPiecesAssumption, MaxSignalsAssumption
  <2>3. record \in BOOLEAN /\ sockets \in BOOLEAN
    BY <2>1
  <2>4. phase \in Phases /\ app \in Apps /\ batch \subseteq Events
    BY <2>1 DEF Phases, Apps
  <2> QED
    BY <2>2, <2>3, <2>4
<1>11. TypeOK
  BY <1>3, <1>4, <1>5, <1>6, <1>10 DEF TypeOK, PairRecords, PairStates, ServiceStates
<1>7. Descriptors
  BY <1>2 DEF Descriptors
<1>8. Pending
  BY DEF Init, Pending
<1>9. BridgesSound
  BY <1>2 DEF Init, BridgesSound, ClosedForAReason, NothingDropped, Sides, From, Directions
<1> QED
  BY <1>7, <1>8, <1>9, <1>11 DEF BridgeInv

\* What the argument about bridges looks at stays as it is.
LEMMA BridgesUntouched ==
  ASSUME BridgeInv, TypeOK', UNCHANGED bridges, batch' \subseteq batch
  PROVE  BridgeInv'
<1>1. UNCHANGED <<pair, ends, inq, lost, full>>
  BY DEF bridges
<1>2. Descriptors' /\ BridgesSound'
  BY <1>1 DEF BridgeInv, Descriptors, BridgesSound, ClosedForAReason, NothingDropped
<1>3. Pending'
  BY <1>1 DEF BridgeInv, Pending, Readable
<1> QED
  BY <1>2, <1>3 DEF BridgeInv

LEMMA RaisedType ==
  ASSUME TypeOK, NEW sig \in {"CHLD", "INT"}
  PROVE  Raised(sig) \in Seq({"CHLD", "INT"})
  BY DEF TypeOK, Raised

LEMMA RestType == ASSUME TypeOK PROVE Rest \in Seq({"CHLD", "INT"})
<1>1. pipe \in Seq({"CHLD", "INT"}) /\ Len(pipe) \in Nat
  BY DEF TypeOK
<1>2. \A i \in 5..Len(pipe) : pipe[i] \in {"CHLD", "INT"}
  BY <1>1
<1> QED
  BY <1>1, <1>2, SubSeqProperties DEF Rest

LEMMA EnvironmentTypes == ASSUME TypeOK, Environment PROVE TypeOK'
<1>1. CASE \E x \in Pairs : Connect(x)
  <2> PICK x \in Pairs : Connect(x)
    BY <1>1
  <2>1. [pair[x] EXCEPT !.state = "waiting"] \in PairRecords
    BY DEF TypeOK, PairRecords, PairStates
  <2>2. pair' \in [Pairs -> PairRecords]
    BY <2>1 DEF Connect, TypeOK, PairRecords, PairStates
  <2> QED
    BY <2>2 DEF Connect, TypeOK, PairRecords, PairStates
<1>2. CASE \E x \in Pairs : \E s \in Sides : Send(x, s)
  <2> PICK x \in Pairs, s \in Sides : Send(x, s)
    BY <1>2
  <2>1. From(s) \in Directions
    BY DEF From, Directions
  <2>2. inq[x][From(s)] + 1 \in 0..Capacity /\ pieces + 1 \in 0..MaxPieces
    BY <2>1, CapacityAssumption, MaxPiecesAssumption DEF Send, TypeOK
  <2>3. inq' \in [Pairs -> [Directions -> 0..Capacity]]
    BY <2>1, <2>2 DEF Send, TypeOK
  <2> QED
    BY <2>2, <2>3 DEF Send, TypeOK
<1>3. CASE \E x \in Pairs : \E s \in Sides : Receive(x, s)
  <2> PICK x \in Pairs, s \in Sides : Receive(x, s)
    BY <1>3
  <2>1. From(s) \in Directions
    BY DEF From, Directions
  <2>2. outq[x][From(s)] - 1 \in 0..Capacity
    BY <2>1, CapacityAssumption DEF Receive, TypeOK
  <2>3. outq' \in [Pairs -> [Directions -> 0..Capacity]]
    BY <2>1, <2>2 DEF Receive, TypeOK
  <2> QED
    BY <2>3 DEF Receive, TypeOK
<1>4. CASE \E x \in Pairs : \E s \in Sides : CloseEnd(x, s)
  BY <1>4 DEF CloseEnd, TypeOK, Peer
<1>5. CASE AppExits
  <2>1. ends' \in [Pairs -> [{"app", "host"} -> {"open", "closed"}]]
    BY <1>5 DEF AppExits, TypeOK
  <2> QED
    BY <1>5, <2>1, RaisedType DEF AppExits, TypeOK, Apps
<1>6. CASE \E s \in Services : ServiceExits(s)
  <2>1. pipe' \in Seq({"CHLD", "INT"})
    BY <1>6, RaisedType DEF ServiceExits
  <2> QED
    BY <1>6, <2>1 DEF ServiceExits, TypeOK, bridges
<1>7. CASE \E sig \in {"CHLD", "INT"} : Signal(sig)
  <2>1. pipe' \in Seq({"CHLD", "INT"}) /\ signals' \in 0..MaxSignals
    BY <1>7, RaisedType, MaxSignalsAssumption DEF Signal, TypeOK
  <2> QED
    BY <1>7, <2>1 DEF Signal, TypeOK, bridges
<1> QED
  BY <1>1, <1>2, <1>3, <1>4, <1>5, <1>6, <1>7 DEF Environment

\* Sending, closing and exiting only ever make something readable, and give
\* bridges more reason to be closed.
LEMMA EnvironmentBridges == ASSUME BridgeInv, Environment PROVE BridgeInv'
<1> TypeOK'
  BY EnvironmentTypes DEF BridgeInv
<1>1. CASE \E x \in Pairs : Connect(x)
  <2> PICK x \in Pairs : Connect(x)
    BY <1>1
  <2>1. /\ pair[x].state = "new" /\ pair' = [pair EXCEPT ![x].state = "waiting"]
        /\ UNCHANGED <<batch, ends, inq, lost, full>>
    BY DEF Connect
  <2>2. Descriptors'
    BY <2>1 DEF BridgeInv, TypeOK, Descriptors
  <2>3. Pending'
    BY <2>1 DEF BridgeInv, TypeOK, Pending, Readable
  <2>4. BridgesSound'
    BY <2>1 DEF BridgeInv, TypeOK, BridgesSound, ClosedForAReason, NothingDropped
  <2> QED
    BY <2>2, <2>3, <2>4 DEF BridgeInv
<1>2. CASE \E x \in Pairs : \E s \in Sides : Send(x, s)
  <2> PICK x \in Pairs, t \in Sides : Send(x, t)
    BY <1>2
  <2>1. /\ inq' = [inq EXCEPT ![x][From(t)] = @ + 1]
        /\ UNCHANGED <<batch, pair, ends, lost, full>>
    BY DEF Send
  <2>2. \A s \in Sides : From(s) \in Directions
    BY DEF From, Directions
  <2>3. \A y \in Pairs, d \in Directions : inq[y][d] \in Nat
    BY CapacityAssumption DEF BridgeInv, TypeOK
  <2>6. \A y \in Pairs, d \in Directions : inq[y][d] > 0 => inq'[y][d] > 0
    BY <2>1, <2>2, <2>3 DEF BridgeInv, TypeOK
  <2>4. Pending'
    BY <2>1, <2>2, <2>6 DEF BridgeInv, Pending, Readable
  <2>5. Descriptors' /\ BridgesSound'
    BY <2>1 DEF BridgeInv, Descriptors, BridgesSound, ClosedForAReason, NothingDropped
  <2> QED
    BY <2>4, <2>5 DEF BridgeInv
<1>3. CASE \E x \in Pairs : \E s \in Sides : CloseEnd(x, s)
  <2> PICK x \in Pairs, t \in Sides : CloseEnd(x, t)
    BY <1>3
  <2>1. ends' = [ends EXCEPT ![x][Peer(t)] = "closed"] /\ UNCHANGED <<batch, pair, inq, lost, full>>
    BY DEF CloseEnd
  <2>2. \A y \in Pairs, e \in {"app", "host"} : ends[y][e] = "closed" => ends'[y][e] = "closed"
    BY <2>1 DEF BridgeInv, TypeOK, Peer
  <2>3. \A s \in Sides : Peer(s) \in {"app", "host"} /\ Peer(Other(s)) \in {"app", "host"}
    BY DEF Peer
  <2>4. Pending'
    BY <2>1, <2>2, <2>3 DEF BridgeInv, Pending, Readable
  <2>5. BridgesSound'
    BY <2>1, <2>2, <2>3 DEF BridgeInv, BridgesSound, ClosedForAReason, NothingDropped
  <2>6. Descriptors'
    BY <2>1 DEF BridgeInv, Descriptors
  <2> QED
    BY <2>4, <2>5, <2>6 DEF BridgeInv
<1>4. CASE AppExits
  <2>1. /\ ends' = [x \in Pairs |-> IF pair[x].state = "new" THEN ends[x] ELSE [ends[x] EXCEPT !["app"] = "closed"]]
        /\ UNCHANGED <<batch, pair, inq, lost, full>>
    BY <1>4 DEF AppExits
  <2>2. \A y \in Pairs, e \in {"app", "host"} : ends[y][e] = "closed" => ends'[y][e] = "closed"
    BY <2>1 DEF BridgeInv, TypeOK
  <2>3. \A s \in Sides : Peer(s) \in {"app", "host"} /\ Peer(Other(s)) \in {"app", "host"}
    BY DEF Peer
  <2>4. Pending'
    BY <2>1, <2>2, <2>3 DEF BridgeInv, Pending, Readable
  <2>5. BridgesSound'
    BY <2>1, <2>2, <2>3 DEF BridgeInv, BridgesSound, ClosedForAReason, NothingDropped
  <2>6. Descriptors'
    BY <2>1 DEF BridgeInv, Descriptors
  <2> QED
    BY <2>4, <2>5, <2>6 DEF BridgeInv
<1>5. CASE UNCHANGED <<pair, batch, ends, inq, lost, full>>
  BY <1>5 DEF BridgeInv, Descriptors, Pending, Readable, BridgesSound, ClosedForAReason, NothingDropped
<1> QED
  BY <1>1, <1>2, <1>3, <1>4, <1>5 DEF Environment, Receive, ServiceExits, Signal, bridges

-----------------------------------------------------------------------------
(* The steps of the session. *)

LEMMA SessionTypes ==
  ASSUME TypeOK, SessionStep, ~Select, ~Handle
  PROVE  TypeOK' /\ UNCHANGED <<batch, bridges>>
<1>1. CASE \E s \in Services : LaunchService(s)
  BY <1>1 DEF LaunchService, TypeOK, Phases, bridges
<1>2. CASE Constructed
  BY <1>2 DEF Constructed, TypeOK, Phases, bridges
<1>3. CASE StartApplication
  <2>1. svc' \in [Services -> ServiceStates]
    BY <1>3 DEF StartApplication, StopServices, Fail, TypeOK, ServiceStates
  <2>2. phase' \in Phases /\ app' \in Apps
    BY <1>3 DEF StartApplication, Fail, TypeOK, Phases, Apps
  <2>3. record' \in BOOLEAN /\ sockets' \in BOOLEAN
    BY <1>3 DEF StartApplication, Fail, TypeOK
  <2> QED
    BY <1>3, <2>1, <2>2, <2>3 DEF StartApplication, TypeOK, bridges, ServiceStates
<1>4. CASE FinishApplication
  BY <1>4 DEF FinishApplication, Fail, TypeOK, Phases, Apps, bridges
<1>5. CASE Stopping
  BY <1>5 DEF Stopping, StopServices, TypeOK, Phases, bridges
<1>6. CASE Exit
  BY <1>6 DEF Exit, TypeOK, Phases, bridges
<1> QED
  BY <1>1, <1>2, <1>3, <1>4, <1>5, <1>6 DEF SessionStep

\* What select() gives is there to be read.
LEMMA SelectBridges == ASSUME BridgeInv, Select PROVE BridgeInv'
<1>1. batch' = Ready /\ UNCHANGED <<phase, app, svc, record, sockets, pipe, bridges, signals>>
  BY DEF Select
<1>2. \A k \in Ready : k.of \in Pairs =>
        \E x \in Pairs, s \in Sides : /\ k = [fd |-> pair[x].fd[s], of |-> x]
                                     /\ pair[x].state = "open" /\ Readable(x, s)
  <2> SUFFICES ASSUME NEW k \in Ready, k.of \in Pairs
               PROVE  \E x \in Pairs, s \in Sides :
                        /\ k = [fd |-> pair[x].fd[s], of |-> x]
                        /\ pair[x].state = "open" /\ Readable(x, s)
    OBVIOUS
  <2>1. k \notin Watched
    BY PairsAssumption DEF Watched
  <2>2. PICK y \in {z \in Pairs \X Registered : pair[z[1]].state = "open" /\ Readable(z[1], z[2])} :
          k = [fd |-> pair[y[1]].fd[y[2]], of |-> y[1]]
    BY <2>1 DEF Ready
  <2> QED
    BY <2>2 DEF Registered
<1>3. Ready \subseteq Events
  <2> SUFFICES ASSUME NEW k \in Ready PROVE k \in Events
    OBVIOUS
  <2>1. CASE k \in Watched
    BY <2>1 DEF Events
  <2>2. CASE k \notin Watched
    <3>1. PICK y \in {z \in Pairs \X Registered : pair[z[1]].state = "open" /\ Readable(z[1], z[2])} :
            k = [fd |-> pair[y[1]].fd[y[2]], of |-> y[1]]
      BY <2>2 DEF Ready
    <3>2. y[1] \in Pairs /\ y[2] \in Sides /\ pair[y[1]].state = "open"
      BY <3>1 DEF Registered
    <3>3. pair[y[1]].fd[y[2]] \in Fds
      BY <3>2 DEF BridgeInv, Descriptors, Sides
    <3> QED
      BY <3>1, <3>2, <3>3 DEF Events
  <2> QED
    BY <2>1, <2>2
<1>4. TypeOK'
  BY <1>1, <1>3 DEF BridgeInv, TypeOK, bridges, Events, Fds
<1>5. UNCHANGED <<pair, ends, inq, lost, full>>
  BY <1>1 DEF bridges
<1>6. Pending'
  <2> SUFFICES ASSUME NEW k \in Ready, k.of \in Pairs
               PROVE  /\ k.fd \in Fds
                      /\ pair[k.of].state \in {"open", "closed"}
                      /\ \A s \in Sides : pair[k.of].fd[s] = k.fd => Readable(k.of, s)
    BY <1>1, <1>5 DEF Pending, Readable
  <2>1. PICK x \in Pairs, s \in Sides : /\ k = [fd |-> pair[x].fd[s], of |-> x]
                                        /\ pair[x].state = "open" /\ Readable(x, s)
    BY <1>2
  <2>2. k.of = x /\ k.fd = pair[x].fd[s]
    BY <2>1
  <2>3. /\ pair[x].fd["session"] \in Fds /\ pair[x].fd["host"] \in Fds
        /\ pair[x].fd["session"] # pair[x].fd["host"]
    BY <2>1 DEF BridgeInv, Descriptors
  <2>4. \A t \in Sides : pair[x].fd[t] = k.fd => t = s
    BY <2>2, <2>3 DEF Sides
  <2>5. k.fd \in Fds
    BY <2>2, <2>3 DEF Sides
  <2> QED
    BY <2>1, <2>2, <2>4, <2>5
<1>7. Descriptors' /\ BridgesSound'
  BY <1>5 DEF BridgeInv, Descriptors, BridgesSound, ClosedForAReason, NothingDropped
<1> QED
  BY <1>4, <1>6, <1>7 DEF BridgeInv

LEMMA SignalsBridges ==
  ASSUME BridgeInv, NEW k \in batch, HandleSignals(k), phase = "loop"
  PROVE  BridgeInv'
<1>1. pipe' \in Seq({"CHLD", "INT"})
  BY RestType DEF BridgeInv, HandleSignals
<1>2. phase' \in Phases /\ batch' \subseteq batch /\ sockets' \in BOOLEAN
  BY DEF HandleSignals, Stop, Fail, Phases, BridgeInv, TypeOK
<1>3. svc' \in [Services -> ServiceStates]
  BY DEF HandleSignals, BridgeInv, TypeOK, ServiceStates
<1>4. UNCHANGED <<app, record, bridges, signals>>
  BY DEF HandleSignals
<1>5. TypeOK'
  BY <1>1, <1>2, <1>3, <1>4 DEF BridgeInv, TypeOK, bridges, ServiceStates, Events, Fds
<1> QED
  BY <1>2, <1>4, <1>5, BridgesUntouched

\* A connection that is accepted has descriptors of its own, and no event that
\* is still to be handled is about it.
LEMMA ListenerBridges ==
  ASSUME BridgeInv, NEW k \in batch, NEW x \in Pairs, HandleListener(k, x), phase = "loop"
  PROVE  BridgeInv'
<1> DEFINE a == LowestOf(FreeFds)
           b == LowestOf(FreeFds \ {a})
           accepted == [state |-> "open", fd |-> [s \in Sides |-> IF s = "session" THEN a ELSE b]]
<1>1. pair[x].state = "waiting" /\ UNCHANGED <<ends, inq, outq, lost, full, pieces>>
  BY DEF HandleListener
<1>2. CASE Fail /\ batch' = {} /\ UNCHANGED pair
  <2>1. TypeOK'
    BY <1>2 DEF HandleListener, Fail, BridgeInv, TypeOK, Phases
  <2>2. batch' \subseteq batch /\ UNCHANGED bridges
    BY <1>1, <1>2 DEF bridges
  <2> QED
    BY <2>1, <2>2, BridgesUntouched
<1>3. CASE pair' = [pair EXCEPT ![x] = accepted] /\ batch' = batch \ {k} /\ UNCHANGED <<phase, sockets>>
  <2>1. a \in Fds /\ b \in Fds /\ b # a
    BY <1>1, TwoAreFree DEF BridgeInv, Descriptors
  <2> HIDE DEF a, b
  <2>2. /\ accepted.state = "open" /\ accepted.fd["session"] = a /\ accepted.fd["host"] = b
        /\ accepted \in PairRecords
    BY <2>1 DEF PairRecords, PairStates, Sides
  <2> HIDE DEF accepted
  <2>3. pair' \in [Pairs -> PairRecords]
    BY <1>3, <2>2 DEF BridgeInv, TypeOK, PairRecords, PairStates
  <2>4. TypeOK'
    BY <1>1, <1>3, <2>3 DEF HandleListener, BridgeInv, TypeOK, PairRecords, PairStates, Events, Fds
  <2>5. pair'[x] = accepted /\ \A y \in Pairs : y # x => pair'[y] = pair[y]
    BY <1>3 DEF BridgeInv, TypeOK
  <2>6. Descriptors'
    BY <2>1, <2>2, <2>5 DEF BridgeInv, Descriptors, Fds
  <2>7. Pending'
    <3>1. \A j \in batch : j.of # x
      BY <1>1 DEF BridgeInv, Pending
    <3>2. batch' \subseteq batch
      BY <1>3
    <3> QED
      BY <1>1, <2>5, <3>1, <3>2 DEF BridgeInv, Pending, Readable, Fds
  <2>8. BridgesSound'
    BY <1>1, <2>2, <2>5 DEF BridgeInv, BridgesSound, ClosedForAReason, NothingDropped
  <2> QED
    BY <2>4, <2>6, <2>7, <2>8 DEF BridgeInv
<1> QED
  BY <1>2, <1>3 DEF HandleListener

\* _close_up_shop
LEMMA ClosedPairType ==
  ASSUME BridgeInv, NEW x \in Pairs, NEW kept, ClosePair(x, kept)
  PROVE  /\ pair' \in [Pairs -> PairRecords]
         /\ lost' \in [Pairs -> [Directions -> BOOLEAN]]
         /\ inq' \in [Pairs -> [Directions -> 0..Capacity]]
         /\ pair'[x].state = "closed" /\ \A s \in Sides : pair'[x].fd[s] = 0
         /\ \A d \in Directions : lost'[x][d] <=> lost[x][d] \/ d \notin kept \/ inq[x][d] > 0
         /\ \A y \in Pairs : y # x => pair'[y] = pair[y] /\ lost'[y] = lost[y] /\ inq'[y] = inq[y]
<1>1. Closed \in PairRecords /\ Closed.state = "closed" /\ \A s \in Sides : Closed.fd[s] = 0
  BY DEF Closed, PairRecords, PairStates
<1>2. pair' = [pair EXCEPT ![x] = Closed]
  BY DEF ClosePair
<1>3. /\ pair' \in [Pairs -> PairRecords] /\ pair'[x] = Closed
      /\ \A y \in Pairs : y # x => pair'[y] = pair[y]
  BY <1>1, <1>2 DEF BridgeInv, TypeOK, PairRecords, PairStates
<1>4. /\ inq' \in [Pairs -> [Directions -> 0..Capacity]]
      /\ \A y \in Pairs : y # x => inq'[y] = inq[y]
  BY CapacityAssumption DEF ClosePair, BridgeInv, TypeOK
<1> DEFINE now == [d \in Directions |-> lost[x][d] \/ d \notin kept \/ inq[x][d] > 0]
<1>5. lost' = [lost EXCEPT ![x] = now]
  BY DEF ClosePair
<1>6. now \in [Directions -> BOOLEAN]
  OBVIOUS
<1>7. \A d \in Directions : now[d] <=> lost[x][d] \/ d \notin kept \/ inq[x][d] > 0
  BY Zenon
<1> HIDE DEF now
<1>8. /\ lost' \in [Pairs -> [Directions -> BOOLEAN]] /\ lost'[x] = now
      /\ \A y \in Pairs : y # x => lost'[y] = lost[y]
  BY <1>5, <1>6 DEF BridgeInv, TypeOK
<1> QED
  BY <1>1, <1>3, <1>4, <1>7, <1>8, Zenon

\* One recv and one sendall on a socket of an open pair that is readable.
LEMMA CopyBridges ==
  ASSUME BridgeInv, NEW x \in Pairs, NEW side \in Sides,
         pair[x].state = "open", Readable(x, side),
         CopyData(x, side), UNCHANGED <<ends, pieces>>
  PROVE  /\ pair' \in [Pairs -> PairRecords] /\ inq' \in [Pairs -> [Directions -> 0..Capacity]]
         /\ outq' \in [Pairs -> [Directions -> 0..Capacity]]
         /\ lost' \in [Pairs -> [Directions -> BOOLEAN]] /\ full' \in [Pairs -> BOOLEAN]
         /\ Descriptors' /\ BridgesSound'
         /\ \A y \in Pairs : pair'[y] = pair[y] \/ (pair'[y].state = "closed" /\ \A s \in Sides : pair'[y].fd[s] = 0)
         /\ \A y \in Pairs, s \in Sides :
              pair'[y] = pair[y] /\ <<y, s>> # <<x, side>> => (Readable(y, s) => Readable(y, s)')
<1> DEFINE d == From(side)
           e == From(Other(side))
<1>1. /\ d \in Directions /\ e \in Directions /\ d # e
      /\ \A c \in Directions : c = d \/ c = e
      /\ From(Other(side)) = e /\ Other(Other(side)) = side
      /\ Other(side) \in Sides /\ \A s \in Sides : s = side \/ s = Other(side)
  BY DEF From, Other, Directions, Sides
<1>2. \A s \in Sides : From(s) = d => s = side
  BY DEF From, Sides
<1>3. Peer(side) \in {"app", "host"} /\ Peer(Other(side)) \in {"app", "host"}
  BY DEF Peer
<1>4. \A y \in Pairs, c \in Directions : inq[y][c] \in 0..Capacity /\ outq[y][c] \in 0..Capacity
  BY DEF BridgeInv, TypeOK
<1> HIDE DEF d, e
<1>5. CASE Exhausted(x, side)
  <2>1. ClosePair(x, Directions) /\ UNCHANGED <<outq, full>>
    BY <1>5 DEF CopyData
  <2>2. inq[x][d] = 0 /\ ends[x][Peer(side)] = "closed"
    BY <1>5, <1>1, <1>4 DEF Exhausted, Readable, d
  <2>3. /\ lost'[x][d] <=> lost[x][d]
        /\ lost'[x][e] => lost[x][e] \/ ends[x][Peer(side)] = "closed"
    BY <2>1, <2>2, <1>1, ClosedPairType
  <2>4. Descriptors'
    BY <2>1, ClosedPairType DEF BridgeInv, Descriptors, Fds
  <2>5. ClosedForAReason'
    BY <2>1, <2>2, <1>3, ClosedPairType DEF BridgeInv, BridgesSound, ClosedForAReason
  <2>6. NothingDropped'
    <3> SUFFICES ASSUME NEW y \in Pairs, NEW s \in Sides, lost'[y][From(s)]
                 PROVE  full'[y] \/ ends'[y][Peer(Other(s))] = "closed" \/ lost'[y][From(Other(s))]
      BY DEF NothingDropped
    <3>1. CASE y # x
      BY <3>1, <2>1, ClosedPairType DEF BridgeInv, BridgesSound, NothingDropped
    <3>2. CASE y = x /\ s = side
      BY <3>2, <2>1, <2>3, <1>1, ClosedPairType DEF BridgeInv, BridgesSound, NothingDropped, d, e
    <3>3. CASE y = x /\ s = Other(side)
      BY <3>3, <2>1, <2>2, <1>1
    <3> QED
      BY <3>1, <3>2, <3>3, <1>1
  <2>7. \A y \in Pairs, s \in Sides : pair'[y] = pair[y] => (Readable(y, s) => Readable(y, s)')
    BY <2>1, ClosedPairType DEF Readable
  <2> QED
    BY <2>1, <2>4, <2>5, <2>6, <2>7, ClosedPairType DEF BridgesSound, BridgeInv, TypeOK
<1>6. CASE ~Exhausted(x, side) /\ SendFails(x, side)
  <2>1. /\ ClosePair(x, Directions \ {d})
        /\ full' = [full EXCEPT ![x] = @ \/ outq[x][d] = Capacity]
        /\ UNCHANGED outq
    BY <1>6 DEF CopyData, d
  <2>2. /\ full' \in [Pairs -> BOOLEAN]
        /\ full'[x] <=> full[x] \/ outq[x][d] = Capacity
        /\ \A y \in Pairs : y # x => full'[y] = full[y]
    BY <2>1 DEF BridgeInv, TypeOK
  <2>3. full'[x] \/ ends[x][Peer(Other(side))] = "closed"
    BY <1>6, <2>2 DEF SendFails, d
  <2>4. lost'[x][d]
    BY <2>1, <1>1, ClosedPairType
  <2>5. Descriptors'
    BY <2>1, ClosedPairType DEF BridgeInv, Descriptors, Fds
  <2>6. ClosedForAReason'
    BY <2>1, <2>2, <2>3, <1>3, ClosedPairType DEF BridgeInv, BridgesSound, ClosedForAReason
  <2>7. NothingDropped'
    <3> SUFFICES ASSUME NEW y \in Pairs, NEW s \in Sides, lost'[y][From(s)]
                 PROVE  full'[y] \/ ends'[y][Peer(Other(s))] = "closed" \/ lost'[y][From(Other(s))]
      BY DEF NothingDropped
    <3>1. CASE y # x
      BY <3>1, <2>1, <2>2, ClosedPairType DEF BridgeInv, BridgesSound, NothingDropped
    <3>2. CASE y = x /\ s = side
      BY <3>2, <2>3
    <3>3. CASE y = x /\ s = Other(side)
      BY <3>3, <2>4, <1>1 DEF d
    <3> QED
      BY <3>1, <3>2, <3>3, <1>1
  <2>8. \A y \in Pairs, s \in Sides : y # x => (Readable(y, s) => Readable(y, s)')
    BY <2>1, ClosedPairType DEF Readable
  <2>9. pair'[x].state = "closed" /\ pair[x].state # "closed"
    BY <2>1, ClosedPairType
  <2> QED
    BY <2>1, <2>2, <2>5, <2>6, <2>7, <2>8, <2>9, ClosedPairType DEF BridgesSound, BridgeInv, TypeOK
<1>7. CASE ~Exhausted(x, side) /\ ~SendFails(x, side)
  <2>1. /\ inq' = [inq EXCEPT ![x][d] = @ - 1]
        /\ outq' = [outq EXCEPT ![x][d] = @ + 1]
        /\ UNCHANGED <<pair, lost, full>>
    BY <1>7 DEF CopyData, d
  <2>2. inq[x][d] - 1 \in 0..Capacity /\ outq[x][d] + 1 \in 0..Capacity
    BY <1>7, <1>1, <1>4, CapacityAssumption DEF Exhausted, SendFails, d
  <2>3. /\ inq' \in [Pairs -> [Directions -> 0..Capacity]]
        /\ outq' \in [Pairs -> [Directions -> 0..Capacity]]
    BY <2>1, <2>2, <1>1 DEF BridgeInv, TypeOK
  <2>4. \A y \in Pairs, c \in Directions : <<y, c>> # <<x, d>> => inq'[y][c] = inq[y][c]
    BY <2>1, <1>1 DEF BridgeInv, TypeOK
  <2>5. \A y \in Pairs, s \in Sides : <<y, s>> # <<x, side>> => (Readable(y, s) => Readable(y, s)')
    <3> SUFFICES ASSUME NEW y \in Pairs, NEW s \in Sides, <<y, s>> # <<x, side>>, Readable(y, s)
                 PROVE  Readable(y, s)'
      OBVIOUS
    <3>1. From(s) \in Directions /\ <<y, From(s)>> # <<x, d>>
      BY <1>2 DEF From, Directions
    <3> QED
      BY <3>1, <2>4 DEF Readable
  <2>6. Descriptors' /\ BridgesSound'
    BY <2>1 DEF BridgeInv, Descriptors, BridgesSound, ClosedForAReason, NothingDropped
  <2> QED
    BY <2>1, <2>3, <2>5, <2>6 DEF BridgeInv, TypeOK, PairRecords, PairStates
<1> QED
  BY <1>5, <1>6, <1>7

LEMMA ReadBridges ==
  ASSUME BridgeInv, NEW k \in batch, HandleRead(k)
  PROVE  BridgeInv'
<1>1. /\ k.of \in Pairs /\ k.fd \in Fds /\ batch' = batch \ {k}
      /\ UNCHANGED <<phase, app, svc, record, sockets, pipe, signals>>
  BY DEF HandleRead, BridgeInv, Pending
<1>2. CASE UNCHANGED bridges
  <2>1. TypeOK'
    BY <1>1, <1>2 DEF BridgeInv, TypeOK, bridges, Events, Fds
  <2> QED
    BY <1>1, <1>2, <2>1, BridgesUntouched
<1>3. ASSUME NEW y \in Socket(k.fd, k.of), CopyData(y[1], y[2]), UNCHANGED <<ends, pieces>>
      PROVE  BridgeInv'
  <2> DEFINE x == k.of
             side == y[2]
  <2>1. y[1] = x /\ side \in Sides /\ pair[x].fd[side] = k.fd
    BY <1>3 DEF Socket
  <2>2. k.fd # 0
    BY <1>1, PairsFinite
  <2>3. pair[x].state = "open" /\ Readable(x, side)
    BY <1>1, <2>1, <2>2 DEF BridgeInv, Descriptors, Pending
  <2>4. /\ pair' \in [Pairs -> PairRecords] /\ inq' \in [Pairs -> [Directions -> 0..Capacity]]
        /\ outq' \in [Pairs -> [Directions -> 0..Capacity]]
        /\ lost' \in [Pairs -> [Directions -> BOOLEAN]] /\ full' \in [Pairs -> BOOLEAN]
        /\ Descriptors' /\ BridgesSound'
        /\ \A z \in Pairs : pair'[z] = pair[z] \/ (pair'[z].state = "closed" /\ \A s \in Sides : pair'[z].fd[s] = 0)
        /\ \A z \in Pairs, s \in Sides :
             pair'[z] = pair[z] /\ <<z, s>> # <<x, side>> => (Readable(z, s) => Readable(z, s)')
    <3> HIDE DEF x, side
    <3> QED
      BY <1>1, <1>3, <2>1, <2>3, CopyBridges DEF x, side
  <2>5. TypeOK'
    BY <1>1, <1>3, <2>4 DEF BridgeInv, TypeOK, PairRecords, PairStates, Events, Fds
  <2>6. Pending'
    <3> SUFFICES ASSUME NEW j \in batch', j.of \in Pairs
                 PROVE  /\ j.fd \in Fds
                        /\ pair'[j.of].state \in {"open", "closed"}
                        /\ \A s \in Sides : pair'[j.of].fd[s] = j.fd => Readable(j.of, s)'
      BY DEF Pending, Fds
    <3>1. j \in batch /\ j # k /\ j \in Events /\ k \in Events
      BY <1>1 DEF BridgeInv, TypeOK
    <3>2. /\ j.fd \in Fds /\ pair[j.of].state \in {"open", "closed"}
          /\ \A s \in Sides : pair[j.of].fd[s] = j.fd => Readable(j.of, s)
      BY <3>1 DEF BridgeInv, Pending
    <3>3. j.fd # 0
      BY <3>2, PairsFinite
    <3>4. CASE pair'[j.of] = pair[j.of]
      <4> SUFFICES ASSUME NEW s \in Sides, pair[j.of].fd[s] = j.fd
                   PROVE  Readable(j.of, s)'
        BY <3>2, <3>4
      <4>1. \A m, n \in Events : m.of = n.of /\ m.fd = n.fd => m = n
        <5>1. \A m \in Events : m = [fd |-> m.fd, of |-> m.of]
          BY DEF Events, Watched
        <5> QED
          BY <5>1
      <4>2. <<j.of, s>> # <<x, side>>
        BY <2>1, <3>1, <4>1
      <4> QED
        BY <2>4, <3>2, <3>4, <4>2
    <3>5. CASE pair'[j.of].state = "closed" /\ \A s \in Sides : pair'[j.of].fd[s] = 0
      BY <3>2, <3>3, <3>5
    <3> QED
      BY <2>4, <3>4, <3>5
  <2> QED
    BY <2>4, <2>5, <2>6 DEF BridgeInv
<1> QED
  BY <1>2, <1>3 DEF HandleRead

LEMMA NextBridges == BridgeInv /\ [Next]_vars => BridgeInv'
<1> SUFFICES ASSUME BridgeInv, [Next]_vars PROVE BridgeInv'
  OBVIOUS
<1>1. CASE Environment
  BY <1>1, EnvironmentBridges
<1>2. CASE SessionStep /\ ~Select /\ ~Handle
  BY <1>2, SessionTypes, BridgesUntouched DEF BridgeInv
<1>3. CASE Select
  BY <1>3, SelectBridges
<1>4. CASE Handle
  BY <1>4, SignalsBridges, ListenerBridges, ReadBridges DEF Handle
<1>5. CASE UNCHANGED vars
  <2>1. TypeOK'
    BY <1>5 DEF vars, bridges, BridgeInv, TypeOK, Events, Fds
  <2>2. UNCHANGED bridges /\ batch' = batch
    BY <1>5 DEF vars
  <2> QED
    BY <2>1, <2>2, BridgesUntouched
<1> QED
  BY <1>1, <1>2, <1>3, <1>4, <1>5 DEF Next

LEMMA BridgesAlways == Spec => []BridgeInv
  BY InitBridges, NextBridges, PTL DEF Spec

\* Whatever is sent, closed or raised, every variable of a session has its type.
THEOREM SessionTypesHold == Spec => []TypeOK
<1>1. BridgeInv => TypeOK
  BY DEF BridgeInv
<1> QED
  BY <1>1, BridgesAlways, PTL

\* handle_read_fd and _copy_data: however events are mixed, and although a pair
\* may have the descriptors that another one had when select() returned, a
\* bridge is closed only because an end closed or a receiver did not keep up,
\* and nothing else makes it drop what was sent.
THEOREM BridgesStaySound == Spec => []BridgesSound
<1>1. BridgeInv => BridgesSound
  BY DEF BridgeInv
<1> QED
  BY <1>1, BridgesAlways, PTL
=============================================================================
