------------------------------- MODULE Session -------------------------------
(***************************************************************************)
(* launcher/session.py and launcher/task.py: the session of one            *)
(* application.  It starts services and the application, then runs an      *)
(* event loop over the signals, the listening socket and the pairs of      *)
(* sockets that bridge the application to the host.                        *)
(*                                                                         *)
(* The loop asks select() for all that is ready and then handles one event *)
(* after the other; meanwhile the application, the services and the host   *)
(* go on.  Data is counted in pieces of what one recv() reads.             *)
(***************************************************************************)
EXTENDS Naturals, Sequences, FiniteSets

CONSTANTS
  Services,      \* the prelaunch services
  Pairs,         \* connections the application may make
  Capacity,      \* pieces that fit into the buffer of a socket
  MaxPieces,     \* bound: pieces sent
  MaxSignals     \* bound: signals that nothing in the model accounts for

ASSUME PairsAssumption == IsFiniteSet(Pairs) /\ Pairs \cap {"signals", "listener"} = {}
ASSUME CapacityAssumption == Capacity \in Nat \ {0}
ASSUME MaxPiecesAssumption == MaxPieces \in Nat
ASSUME MaxSignalsAssumption == MaxSignals \in Nat

VARIABLES
  phase,      \* where the session is
  app,        \* self._app: not there, a process, None or False
  svc,        \* self._child_processes
  record,     \* the entry of the application in runningApps
  sockets,    \* the listening sockets exist in the file system
  pipe,       \* signals in the wakeup descriptor
  batch,      \* the events that select() gave and were not handled yet
  pair,       \* state of every connection, and its descriptors
  ends,       \* what the application and the host did with their ends
  inq,        \* pieces sent and not read by the session, in both directions
  outq,       \* pieces forwarded and not received
  lost,       \* history: a piece will never be received
  full,       \* history: the buffer of the receiver was full
  pieces, signals

bridges == <<pair, ends, inq, outq, lost, full, pieces>>
vars == <<phase, app, svc, record, sockets, pipe, batch, bridges, signals>>

Phases == {"services", "start", "loop", "finish", "stop", "exit", "over", "failed"}
Apps == {"none", "running", "zombie", "reaped", "None", "False"}
Directions == {"up", "down"}       \* to the host, to the application
Sides == {"session", "host"}       \* the sockets of a pair

\* The direction of what is read from a socket, and whose end it reads from.
From(side) == IF side = "session" THEN "up" ELSE "down"
Peer(side) == IF side = "session" THEN "app" ELSE "host"
Other(side) == IF side = "session" THEN "host" ELSE "session"

Closed == [state |-> "closed", fd |-> [s \in Sides |-> 0]]    \* fileno() is -1
Fds == 1..2 * Cardinality(Pairs)

\* What is watched besides the pairs.
Watched == {[fd |-> 0, of |-> "signals"], [fd |-> 0, of |-> "listener"]}
Events == Watched \cup [fd : Fds, of : Pairs]

Init ==
  /\ phase = "services"
  /\ app = "none"
  /\ svc = [s \in Services |-> "off"]
  /\ record = FALSE
  /\ sockets = TRUE
  /\ pipe = <<>>
  /\ batch = {}
  /\ pair = [x \in Pairs |-> [Closed EXCEPT !.state = "new"]]
  /\ ends = [x \in Pairs |-> [e \in {"app", "host"} |-> "open"]]
  /\ inq = [x \in Pairs |-> [d \in Directions |-> 0]]
  /\ outq = [x \in Pairs |-> [d \in Directions |-> 0]]
  /\ lost = [x \in Pairs |-> [d \in Directions |-> FALSE]]
  /\ full = [x \in Pairs |-> FALSE]
  /\ pieces = 0
  /\ signals = 0

-----------------------------------------------------------------------------
(* The application, the services, the host and the user.  What goes on in the
   sockets when the loop is over has no effect, and is left out. *)

\* The signal handlers write a byte each; there are none outside the session.
\* SIGTERM is treated as SIGINT is.
Raised(sig) == IF phase \in {"over", "failed"} THEN pipe ELSE Append(pipe, sig)

Connect(x) ==
  /\ phase = "loop"
  /\ app = "running" /\ pair[x].state = "new" /\ sockets
  /\ pair' = [pair EXCEPT ![x].state = "waiting"]
  /\ UNCHANGED <<phase, app, svc, record, sockets, pipe, batch, ends, inq, outq, lost, full, pieces, signals>>

Send(x, side) ==
  /\ phase = "loop"
  /\ pair[x].state = "open" \/ (pair[x].state = "waiting" /\ side = "session")
  /\ ends[x][Peer(side)] = "open"
  /\ inq[x][From(side)] < Capacity /\ pieces < MaxPieces
  /\ inq' = [inq EXCEPT ![x][From(side)] = @ + 1]
  /\ pieces' = pieces + 1
  /\ UNCHANGED <<phase, app, svc, record, sockets, pipe, batch, pair, ends, outq, lost, full, signals>>

Receive(x, side) ==
  /\ phase = "loop"
  /\ outq[x][From(side)] > 0 /\ ends[x][Peer(Other(side))] = "open"
  /\ outq' = [outq EXCEPT ![x][From(side)] = @ - 1]
  /\ UNCHANGED <<phase, app, svc, record, sockets, pipe, batch, pair, ends, inq, lost, full, pieces, signals>>

CloseEnd(x, side) ==
  /\ phase = "loop"
  /\ pair[x].state = "open" \/ (pair[x].state = "waiting" /\ side = "session")
  /\ ends[x][Peer(side)] = "open"
  /\ ends' = [ends EXCEPT ![x][Peer(side)] = "closed"]
  /\ UNCHANGED <<phase, app, svc, record, sockets, pipe, batch, pair, inq, outq, lost, full, pieces, signals>>

AppExits ==
  /\ app = "running"
  /\ app' = "zombie"
  /\ ends' = [x \in Pairs |-> IF pair[x].state = "new" THEN ends[x] ELSE [ends[x] EXCEPT !["app"] = "closed"]]
  /\ pipe' = Raised("CHLD")
  /\ UNCHANGED <<phase, svc, record, sockets, batch, pair, inq, outq, lost, full, pieces, signals>>

\* By itself, or because it was asked to.
ServiceExits(s) ==
  /\ svc[s] \in {"running", "stopping"}
  /\ svc' = [svc EXCEPT ![s] = "zombie"]
  /\ pipe' = Raised("CHLD")
  /\ UNCHANGED <<phase, app, record, sockets, batch, bridges, signals>>

\* From the user, or SIGCHLD of another child, or of one that is suspended.
Signal(sig) ==
  /\ signals < MaxSignals /\ phase \notin {"over", "failed"}
  /\ signals' = signals + 1
  /\ pipe' = Raised(sig)
  /\ UNCHANGED <<phase, app, svc, record, sockets, batch, bridges>>

-----------------------------------------------------------------------------
(* Session.__init__ and start_application *)

\* An exception: the callbacks of the ExitStack run, nothing else.
Fail == phase' = "failed" /\ sockets' = FALSE

\* _stop_services; a service that is gone is no error.
StopServices == svc' = [s \in Services |-> IF svc[s] = "running" THEN "stopping" ELSE svc[s]]

\* A program that cannot be launched raises in the constructor, before there
\* is a context whose callbacks could run.
LaunchService(s) ==
  /\ phase = "services" /\ svc[s] = "off"
  /\ \/ svc' = [svc EXCEPT ![s] = "running"] /\ UNCHANGED phase
     \/ phase' = "failed" /\ UNCHANGED svc
  /\ UNCHANGED <<app, record, sockets, pipe, batch, bridges, signals>>

Constructed ==
  /\ phase = "services" /\ \A s \in Services : svc[s] # "off"
  /\ phase' = "start"
  /\ UNCHANGED <<app, svc, record, sockets, pipe, batch, bridges, signals>>

\* The backends answer a process, None (lxc), or False (lxd) when the container
\* does not start, or raise; only None makes start_application answer False.
StartApplication ==
  /\ phase = "start"
  /\ \/ /\ app' = "running" /\ record' = TRUE
        /\ phase' = "loop" /\ UNCHANGED <<svc, sockets>>
     \/ /\ app' \in {"None", "False"}
        /\ StopServices
        /\ phase' = IF app' = "None" THEN "exit" ELSE "loop"
        /\ UNCHANGED <<record, sockets>>
     \/ Fail /\ UNCHANGED <<app, svc, record>>
  /\ UNCHANGED <<pipe, batch, bridges, signals>>

-----------------------------------------------------------------------------
(* Session.run *)

\* There is something to read, or the other end is closed.
Readable(x, side) == inq[x][From(side)] > 0 \/ ends[x][Peer(side)] = "closed"

\* Slip: only one of the sockets is watched.
SessionOnly == {"session"}

\* add_bridge_pair
Registered == Sides

Ready ==
  {k \in Watched : IF k.of = "signals" THEN pipe # <<>> ELSE \E x \in Pairs : pair[x].state = "waiting"}
  \cup {[fd |-> pair[y[1]].fd[y[2]], of |-> y[1]] : y \in
          {z \in Pairs \X Registered : pair[z[1]].state = "open" /\ Readable(z[1], z[2])}}

Select ==
  /\ phase = "loop" /\ batch = {} /\ Ready # {}
  /\ batch' = Ready
  /\ UNCHANGED <<phase, app, svc, record, sockets, pipe, bridges, signals>>

\* StopIteration: the rest of the batch is not handled.
Stop == phase' = "finish" /\ batch' = {}

\* What is left of the pipe: four bytes are read, one is looked at.
Rest == SubSeq(pipe, 5, Len(pipe))

\* Slip: the application is looked at only when there are no services.
AloneDied == app = "zombie" /\ Services = {}

AppDied == app = "zombie"

ServicesLive == \A s \in Services : svc[s] # "zombie"

\* _handle_sig_fd and _handle_child_died: a service that is gone is waited
\* for, and its end is the end of the loop, as that of the application.
HandleSignals(k) ==
  /\ k.of = "signals"
  /\ pipe' = Rest
  /\ IF pipe[1] # "CHLD" THEN Stop /\ UNCHANGED <<svc, sockets>>
     ELSE \/ /\ \E s \in Services : svc[s] = "zombie" /\ svc' = [svc EXCEPT ![s] = "reaped"]
             /\ Stop /\ UNCHANGED sockets
          \/ /\ ServicesLive /\ app = "False"
             /\ Fail /\ batch' = {} /\ UNCHANGED svc
          \/ /\ ServicesLive /\ AppDied
             /\ Stop /\ UNCHANGED <<svc, sockets>>
          \/ /\ ServicesLive /\ app # "False" /\ ~AppDied
             /\ batch' = batch \ {k} /\ UNCHANGED <<phase, svc, sockets>>
  /\ UNCHANGED <<app, record, bridges, signals>>

\* The lowest descriptors that are free.
FreeFds == Fds \ UNION {{pair[x].fd[s] : s \in Sides} : x \in Pairs}
LowestOf(F) == CHOOSE n \in F : \A m \in F : n <= m

\* _accept_bridge_connection: a host that cannot be reached raises.
HandleListener(k, x) ==
  /\ k.of = "listener" /\ pair[x].state = "waiting"
  /\ \/ /\ LET a == LowestOf(FreeFds)
               b == LowestOf(FreeFds \ {a})
           IN  pair' = [pair EXCEPT ![x] = [state |-> "open",
                          fd |-> [s \in Sides |-> IF s = "session" THEN a ELSE b]]]
        /\ batch' = batch \ {k} /\ UNCHANGED <<phase, sockets>>
     \/ Fail /\ batch' = {} /\ UNCHANGED pair
  /\ UNCHANGED <<app, svc, record, pipe, ends, inq, outq, lost, full, pieces, signals>>

\* _close_up_shop: what neither end has read yet from the session is gone.
ClosePair(x, kept) ==
  /\ pair' = [pair EXCEPT ![x] = Closed]
  /\ lost' = [lost EXCEPT ![x] = [d \in Directions |-> @[d] \/ d \notin kept \/ inq[x][d] > 0]]
  /\ inq' = [inq EXCEPT ![x] = [d \in Directions |-> 0]]

\* Slip: the socket is found by its number.
ByNumber(fd, x) == {y \in Pairs \X Sides : pair[y[1]].fd[y[2]] = fd}

\* handle_read_fd compares the number with those its own sockets have now.
Socket(fd, x) == {y \in {x} \X Sides : pair[y[1]].fd[y[2]] = fd}

\* Slip: a full buffer is no error.
NeverFull(x, side) == ends[x][Peer(Other(side))] = "closed"

\* sendall raises, because the buffer is full or the other end closed.
SendFails(x, side) ==
  outq[x][From(side)] = Capacity \/ ends[x][Peer(Other(side))] = "closed"

Exhausted(x, side) == inq[x][From(side)] = 0

\* _copy_data: one recv and one sendall.  Anything that raises counts as 0, and
\* what was read is lost.
CopyData(x, side) ==
  LET d == From(side)
  IN  IF Exhausted(x, side)
        THEN ClosePair(x, Directions) /\ UNCHANGED <<outq, full>>
      ELSE IF SendFails(x, side)
        THEN /\ ClosePair(x, Directions \ {d})
             /\ full' = [full EXCEPT ![x] = @ \/ outq[x][d] = Capacity]
             /\ UNCHANGED outq
      ELSE /\ inq' = [inq EXCEPT ![x][d] = @ - 1]
           /\ outq' = [outq EXCEPT ![x][d] = @ + 1]
           /\ UNCHANGED <<pair, lost, full>>

HandleRead(k) ==
  /\ k.of \in Pairs
  /\ IF Socket(k.fd, k.of) = {} THEN UNCHANGED bridges
     ELSE \E y \in Socket(k.fd, k.of) : CopyData(y[1], y[2]) /\ UNCHANGED <<ends, pieces>>
  /\ batch' = batch \ {k}
  /\ UNCHANGED <<phase, app, svc, record, sockets, pipe, signals>>

Handle ==
  /\ phase = "loop"
  /\ \E k \in batch :
       HandleSignals(k) \/ (\E x \in Pairs : HandleListener(k, x)) \/ HandleRead(k)

\* Slip: nobody waits for the application.
NotFinished ==
  /\ phase = "finish"
  /\ phase' = "stop"
  /\ UNCHANGED <<app, svc, record, sockets, pipe, batch, bridges, signals>>

\* finish_application waits for the application, whatever ended the loop.
FinishApplication ==
  /\ phase = "finish"
  /\ \/ /\ app = "zombie"
        /\ app' = "reaped" /\ phase' = "stop" /\ UNCHANGED sockets
     \/ /\ app = "False"
        /\ Fail /\ UNCHANGED app
  /\ UNCHANGED <<svc, record, pipe, batch, bridges, signals>>

\* The entry is taken out, and the services are told to stop.
Stopping ==
  /\ phase = "stop"
  /\ record' = FALSE
  /\ StopServices
  /\ phase' = "exit"
  /\ UNCHANGED <<app, sockets, pipe, batch, bridges, signals>>

\* _shutdown
Exit ==
  /\ phase = "exit"
  /\ sockets' = FALSE
  /\ phase' = "over"
  /\ UNCHANGED <<app, svc, record, pipe, batch, bridges, signals>>

-----------------------------------------------------------------------------
SessionStep ==
  \/ \E s \in Services : LaunchService(s)
  \/ Constructed \/ StartApplication
  \/ Select \/ Handle
  \/ FinishApplication \/ Stopping \/ Exit

Environment ==
  \/ \E x \in Pairs : Connect(x) \/ \E s \in Sides : Send(x, s) \/ Receive(x, s) \/ CloseEnd(x, s)
  \/ AppExits
  \/ \E s \in Services : ServiceExits(s)
  \/ \E sig \in {"CHLD", "INT"} : Signal(sig)

Next == SessionStep \/ Environment

Spec == Init /\ [][Next]_vars

\* The session is scheduled; the application may run as long as it likes, and
\* so may a service.
FairSpec == Spec /\ WF_vars(SessionStep)

-----------------------------------------------------------------------------
(* Properties. *)

TypeOK ==
  /\ phase \in Phases
  /\ app \in Apps
  /\ svc \in [Services -> {"off", "running", "stopping", "zombie", "reaped"}]
  /\ record \in BOOLEAN /\ sockets \in BOOLEAN
  /\ pipe \in Seq({"CHLD", "INT"})
  /\ batch \subseteq Events
  /\ pair \in [Pairs -> [state : {"new", "waiting", "open", "closed"}, fd : [Sides -> Fds \cup {0}]]]
  /\ ends \in [Pairs -> [{"app", "host"} -> {"open", "closed"}]]
  /\ inq \in [Pairs -> [Directions -> 0..Capacity]]
  /\ outq \in [Pairs -> [Directions -> 0..Capacity]]
  /\ lost \in [Pairs -> [Directions -> BOOLEAN]]
  /\ full \in [Pairs -> BOOLEAN]
  /\ pieces \in 0..MaxPieces
  /\ signals \in 0..MaxSignals

\* A bridge is torn down only for a reason of its own: one of its ends closed,
\* or a receiver did not keep up.  No event that select() gave for a pair which
\* is closed by the time it is handled touches another pair, although that one
\* may have its descriptors by then.
ClosedForAReason ==
  \A x \in Pairs : pair[x].state = "closed" =>
    full[x] \/ \E e \in {"app", "host"} : ends[x][e] = "closed"

\* What an end has sent before it closed is forwarded before the bridge is torn
\* down, unless the receiver closed or did not keep up, or something was on its
\* way to the end that closed, which takes along what that end had sent.
NothingDropped ==
  \A x \in Pairs, s \in Sides :
    lost[x][From(s)] =>
      full[x] \/ ends[x][Peer(Other(s))] = "closed" \/ lost[x][From(Other(s))]

\* No bridge suffers from what happens to another one or from the order in
\* which events are handled.
BridgesSound == ClosedForAReason /\ NothingDropped

\* A session that ends without an exception leaves nothing behind: no process
\* that was not waited for, no entry, no service that was not told to stop.
CleanEnd ==
  phase = "over" =>
    /\ app \in {"reaped", "None"}
    /\ ~record
    /\ ~sockets
    /\ \A s \in Services : svc[s] # "running"

\* The end of the application ends the session, however its SIGCHLD is mixed
\* with other signals.
AppEndsSession == app = "zombie" ~> phase \in {"over", "failed"}

\* What was sent is forwarded as long as the loop runs, or the pair is closed.
DataMoves ==
  \A x \in Pairs, s \in Sides :
    pair[x].state = "open" /\ inq[x][From(s)] > 0 ~>
      inq[x][From(s)] = 0 \/ phase # "loop"
=============================================================================
