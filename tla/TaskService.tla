---------------------------- MODULE TaskService ----------------------------
(***************************************************************************)
(* The task engine of libertined (python/libertine/service): the main      *)
(* thread turns D-Bus requests into tasks, each task runs in a thread of   *)
(* its own, and a timer thread forgets a task ten seconds after it ended.  *)
(*                                                                         *)
(*   main thread    Operations -> TaskDispatcher._find_or_create_container *)
(*                  -> Container.<request>: reuse a matching running task, *)
(*                  or append a new task and start its thread              *)
(*   task thread    BaseTask.run: _refresh_database, _before, _run under   *)
(*                  the lock of the Container object, _finished            *)
(*   timer thread   OperationsMonitor.remove_from_connection, then         *)
(*                  Container._cleanup_task, which drops the object from   *)
(*                  the dispatcher when its task list is empty             *)
(*                                                                         *)
(* A Container object is [cid, id]: several objects of one container id    *)
(* can exist, each with its own lock and its own task list.  The object is *)
(* named after the first request it was made for.                          *)
(*                                                                         *)
(* The threads share their lists without a lock, and CPython may switch    *)
(* threads between any two steps below.                                    *)
(***************************************************************************)
EXTENDS ContainerDb, Naturals

CONSTANTS
  Requests,        \* the D-Bus requests clients may make
  Present,         \* the containers the database has when the service starts;
                   \* of the others it may have some
  MaxTasks,        \* bound: how many requests ever ask for a task
  Snap             \* the service runs in a snap, which has no apt cache

Mutators == {"install", "remove", "update", "create", "destroy"}  \* hold the lock
ObjectReaders == {"search", "app_info", "list_app_ids"}           \* Container object, no lock
Readers == {"container_info", "list"}                             \* containerless
Kinds == Mutators \cup ObjectReaders \cup Readers
Sessions == {"install", "remove", "update"}   \* work inside ContainerRunning

AllRequests == [kind : Kinds, cid : Cids, pkg : Packages, type : Types]
Tasks == 1..MaxTasks
Objects == [cid : Cids, id : Tasks]

ASSUME RequestsAssumption == Requests \subseteq AllRequests
ASSUME PresentAssumption == Present \subseteq Cids
ASSUME MaxTasksAssumption == MaxTasks \in Nat \ {0}
ASSUME SnapAssumption == Snap \in BOOLEAN

VARIABLES
  db,       \* ContainersConfig, memory and file
  named,    \* the database names a default container
  live,     \* TaskDispatcher._containers
  lock,     \* Container._lock: the task inside, by object id; 0 when free
  req,      \* the request a task was created for
  obj,      \* the Container object a task belongs to
  pc,       \* where a task is
  res,      \* what the work under the lock came to
  ops,      \* OperationsMonitor: what a client polls of a task's operation
  told,     \* the signals a task's operation has sent
  created,  \* how many requests have asked for a task
  main,     \* the main thread: idle, or between find and dispatch
  reply,    \* the last task id handed to a client
  raced,    \* history: an object was dropped in use, or a duplicate overlooked
  bare      \* history: the installs that have no entry in the database to write to,
            \* or had one that is gone

vars == <<db, named, live, lock, req, obj, pc, res, ops, told, created, main, reply, raced, bare>>

PCs == {"unborn", "refresh", "check", "refused", "mark", "wait",
        "open", "work", "save", "announce", "leave",
        "linger", "forget", "emptycheck", "drop", "gone", "dead", "raised"}

\* The task is between "with self._lock" and its end.
Inside == {"open", "work", "save", "announce"}

\* The task is in the _tasks list of its Container object or dispatcher.
Listed == PCs \ {"unborn", "emptycheck", "drop", "gone", "raised"}

\* Slip: the list is looked at before the task is taken off it.
StaleMembers(o) ==
  {t \in Tasks : req[t].kind \notin Readers /\ obj[t] = o /\ pc[t] \in Listed \cup {"emptycheck"}}

Members(o) == {t \in Tasks : req[t].kind \notin Readers /\ obj[t] = o /\ pc[t] \in Listed}

\* OperationsMonitor.done is False of an operation that is no longer there,
\* so BaseTask.running is True of it.
done(t) == ops[t] \in {"finished", "failed"}

\* Slip: the thread announces the end without asking whether it is announced.
AlwaysRunning(t) == TRUE

running(t) == ~done(t)

NoObject == [cid |-> "none", id |-> 0]
NoRequest == [kind |-> "none", cid |-> "none", pkg |-> "none", type |-> "none"]

IdleMain == [at |-> "idle", req |-> NoRequest, obj |-> NoObject, missing |-> {}]

\* What a service finds on disk: every container and package at rest.
RestEntries == [status : RestStatuses, type : {"chroot", "lxc"},
                pkgs : [Packages -> {<<>>, <<"installed">>}]]

Init ==
  /\ db \in [Cids -> {<<>>} \cup {<<e>> : e \in RestEntries}]
  /\ \A c \in Cids : Status(db, c) = "stopped" => Type(db, c) = "lxc"
  /\ \A c \in Present : Exists(db, c)
  /\ named \in {FALSE, \E c \in Cids : Exists(db, c)}
  /\ live = {}
  /\ lock = [t \in Tasks |-> 0]
  /\ req = [t \in Tasks |-> NoRequest]
  /\ obj = [t \in Tasks |-> NoObject]
  /\ pc = [t \in Tasks |-> "unborn"]
  /\ res = [t \in Tasks |-> "none"]
  /\ ops = [t \in Tasks |-> "none"]
  /\ told = [t \in Tasks |-> <<>>]
  /\ created = 0
  /\ main = IdleMain
  /\ reply = 0
  /\ raced = FALSE
  /\ bare = {}

-----------------------------------------------------------------------------
(* The main thread. *)

Goto(t, l) == pc' = [pc EXCEPT ![t] = l]

\* A new task: append it, new_operation, start its thread.
Start(r, o) ==
  LET t == created + 1
  IN  /\ created' = t
      /\ req' = [req EXCEPT ![t] = r]
      /\ obj' = [obj EXCEPT ![t] = o]
      /\ Goto(t, "refresh")
      /\ ops' = [ops EXCEPT ![t] = "running"]
      /\ reply' = t
      /\ UNCHANGED told

\* TaskDispatcher._find_container
Found(c) == {o \in live : o.cid = c}

\* TaskDispatcher._find_or_create_container
FindOrCreate(r) ==
  /\ main.at = "idle"
  /\ created < MaxTasks
  /\ r.kind \notin Readers
  /\ LET found == Found(r.cid)
         new == [cid |-> r.cid, id |-> created + 1]
     IN  \/ \E o \in found :
              /\ \A q \in found : o.id <= q.id
              /\ main' = [at |-> "found", req |-> r, obj |-> o, missing |-> {}]
              /\ UNCHANGED live
         \/ /\ found = {}
            /\ main' = [at |-> "found", req |-> r, obj |-> new, missing |-> {}]
            /\ live' = live \cup {new}
  /\ UNCHANGED <<db, named, lock, req, obj, pc, res, ops, told, created, reply, raced, bare>>

\* The running tasks a request would only duplicate.
Same(r, s) ==
  /\ r.kind = s.kind
  /\ r.kind \in {"install", "remove"} => r.pkg = s.pkg

\* Slip: only a task that has started to work counts as running.
WorkingDuplicates == {t \in Members(main.obj) : Same(main.req, req[t]) /\ pc[t] \in Inside}

\* Slip: create() does not look for an unfinished task.
DuplicatesButCreate ==
  {t \in Members(main.obj) : Same(main.req, req[t]) /\ running(t) /\ req[t].kind # "create"}

Duplicates == {t \in Members(main.obj) : Same(main.req, req[t]) /\ running(t)}

\* The handler walks over the list while timers take tasks off it: the walk
\* may then step over a task that comes behind one that was taken off.
Skipped(u) == \E t \in main.missing : t < u

\* Container.install, remove, create, destroy, update: the first unfinished
\* task for the same thing is answered again.  It was unfinished when it was
\* looked at; the answer reaches the client later in any case.
Reuse ==
  /\ main.at = "found"
  /\ main.req.kind \in Mutators
  /\ \E t \in Duplicates :
       /\ \A u \in Duplicates : u < t => Skipped(u)
       /\ reply' = t
  /\ main' = IdleMain
  /\ UNCHANGED <<db, named, live, lock, req, obj, pc, res, ops, told, created, raced, bare>>

\* search and app_info raise in a snap, when the Container object is made.
Raises(r) == Snap /\ r.kind \in {"search", "app_info"}

\* The walk misses a task that is unfinished.
Overlooks == main.req.kind \in Mutators /\ \E u \in Duplicates : ops[u] = "running"

\* The same methods when there is none, and search, app_info, list_app_ids.
Dispatch ==
  /\ main.at = "found" /\ ~Raises(main.req)
  /\ main.req.kind \in Mutators => \A u \in Duplicates : Skipped(u)
  /\ Start(main.req, main.obj)
  /\ main' = IdleMain
  /\ raced' = (raced \/ Overlooks)
  /\ UNCHANGED <<db, named, live, lock, res, bare>>

\* The client gets an error and there is no task, but the object stays.
DispatchRaises ==
  /\ main.at = "found" /\ Raises(main.req)
  /\ LET t == created + 1
     IN  /\ created' = t
         /\ req' = [req EXCEPT ![t] = main.req]
         /\ obj' = [obj EXCEPT ![t] = main.obj]
         /\ Goto(t, "raised")
  /\ main' = IdleMain
  /\ UNCHANGED <<db, named, live, lock, res, ops, told, reply, raced, bare>>

\* TaskDispatcher.container_info and list
DispatchContainerless(r) ==
  /\ main.at = "idle"
  /\ created < MaxTasks
  /\ r.kind \in Readers
  /\ Start(r, NoObject)
  /\ UNCHANGED <<db, named, live, lock, res, main, raced, bare>>

-----------------------------------------------------------------------------
(* A task thread before it takes the lock: BaseTask.run, _before. *)

Cid(t) == req[t].cid
Pkg(t) == req[t].pkg
Kind(t) == req[t].kind
Locked(t) == Kind(t) \in Mutators

\* Slip: a lock for each task.
OwnLock(t) == t

MyLock(t) == obj[t].id

\* _refresh_database takes and drops the lock.
Refresh(t) ==
  /\ pc[t] = "refresh"
  /\ Locked(t) => lock[MyLock(t)] = 0
  /\ Goto(t, "check")
  /\ UNCHANGED <<db, named, live, lock, req, obj, res, ops, told, created, main, reply, raced, bare>>

\* What the condition in _before asks of the database.
Admits(t) ==
  CASE Kind(t) = "install" -> PkgStatus(db, Cid(t), Pkg(t)) = Absent
    [] Kind(t) = "remove"  -> PkgStatus(db, Cid(t), Pkg(t)) = "installed"
    [] Kind(t) = "destroy" -> Status(db, Cid(t)) = "ready"
    [] Kind(t) = "create"  -> ~Exists(db, Cid(t))
    [] Kind(t) \in {"update", "list_app_ids", "container_info"} -> Exists(db, Cid(t))
    [] OTHER -> TRUE

\* What _before writes once it has decided to go on.
Marked(t) ==
  CASE Kind(t) = "install" ->
         SetPkgStatus(AddPackage(db, Cid(t), Pkg(t)), Cid(t), Pkg(t), "installing")
    [] Kind(t) = "remove"  -> SetPkgStatus(db, Cid(t), Pkg(t), "removing")
    [] Kind(t) = "destroy" -> SetStatus(db, Cid(t), "removing")
    [] Kind(t) = "create"  ->
         SetStatus(AddContainer(db, Cid(t), req[t].type), Cid(t), "installing")
    [] OTHER -> db

Check(t) ==
  /\ pc[t] = "check"
  /\ Admits(t)
  /\ Goto(t, "mark")
  /\ UNCHANGED <<db, named, live, lock, req, obj, res, ops, told, created, main, reply, raced, bare>>

\* OperationsMonitor.finished and error: both end the operation for whoever
\* polls it, and an error that was set stays.
Signal(t, s) ==
  /\ ops' = [ops EXCEPT ![t] = IF @ = "failed" THEN "failed" ELSE s]
  /\ told' = [told EXCEPT ![t] = Append(@, s)]

\* _before sends the error and answers False.  CreateTask also refuses for
\* an unknown distro or a host without support.
Refuse(t) ==
  /\ pc[t] = "check"
  /\ ~Admits(t) \/ Kind(t) = "create"
  /\ Signal(t, "failed")
  /\ Goto(t, "refused")
  /\ UNCHANGED <<db, named, live, lock, req, obj, res, created, main, reply, raced, bare>>

\* run() then sends that it has finished, and starts the timer.
FinishRefused(t) ==
  /\ pc[t] = "refused"
  /\ Signal(t, "finished")
  /\ Goto(t, "linger")
  /\ UNCHANGED <<db, named, live, lock, req, obj, res, created, main, reply, raced, bare>>

\* An install finds no entry of its container to write to.
NothingToMark(t) == Kind(t) = "install" /\ ~Exists(db, Cid(t))

\* add_new_container makes the container the default if there is none.
Mark(t) ==
  /\ pc[t] = "mark"
  /\ db' = Marked(t)
  /\ named' = (named \/ Kind(t) = "create")
  /\ bare' = IF NothingToMark(t) THEN bare \cup {t} ELSE bare
  /\ Goto(t, "wait")
  /\ UNCHANGED <<live, lock, req, obj, res, ops, told, created, main, reply, raced>>

-----------------------------------------------------------------------------
(* A task thread under the lock: _run. *)

\* An exception ends the thread: the lock is released, nothing else is done.
Die(t) ==
  /\ lock' = [lock EXCEPT ![MyLock(t)] = IF @ = t THEN 0 ELSE @]
  /\ Goto(t, "dead")

\* LibertineContainer.__init__ knows the type.  Of any other it means to
\* raise RuntimeError, but formatting the message raises KeyError.
Constructible(t) == Type(db, Cid(t)) \in {"chroot", "lxc"}

\* with self._lock: _refresh_database(False), then _run up to LibertineContainer()
Enter(t) ==
  /\ pc[t] = "wait" /\ Locked(t)
  /\ lock[MyLock(t)] = 0
  /\ IF Constructible(t)
       THEN /\ lock' = [lock EXCEPT ![MyLock(t)] = t]
            /\ Goto(t, IF Kind(t) \in Sessions THEN "open" ELSE "work")
       ELSE Die(t)
  /\ UNCHANGED <<db, named, live, req, obj, res, ops, told, created, main, reply, raced, bare>>

\* Slip: every task announces its outcome before it writes it.
AlwaysFirst(t, r) == TRUE

\* DestroyTask and UpdateTask announce a failure before they write the status.
AnnouncesFirst(t, r) == Kind(t) \in {"destroy", "update"} /\ r = "failed"

Conclude(t, r) ==
  /\ res' = [res EXCEPT ![t] = r]
  /\ Goto(t, IF AnnouncesFirst(t, r) THEN "announce" ELSE "save")

\* What stop_container leaves behind: 'ready' for a chroot; otherwise the
\* state lxc reports, or no change when other programs use the container.
Rested(t) ==
  {SetStatus(db, Cid(t), s) :
     s \in IF Type(db, Cid(t)) = "lxc" THEN {"stopped", "busy"} ELSE {"ready"}}

\* ContainerRunning.__init__: start_container.  That of a chroot never fails;
\* that of lxc is refused, or fails and reports the state of the container.
Open(t) ==
  /\ pc[t] = "open"
  /\ \/ /\ db' = SetStatus(db, Cid(t), "busy")
        /\ Goto(t, "work")
        /\ UNCHANGED res
     \/ /\ Type(db, Cid(t)) = "lxc"
        /\ \/ db' = IF Kind(t) = "update" THEN SetStatus(db, Cid(t), "busy") ELSE db
           \/ db' = SetStatus(db, Cid(t), "stopped")
        /\ Conclude(t, "failed")
  /\ UNCHANGED <<named, live, lock, req, obj, ops, told, created, main, reply, raced, bare>>

\* The backend work of a session and its stop_container.
WorkInSession(t) ==
  /\ pc[t] = "work" /\ Kind(t) \in Sessions
  /\ \E r \in {"ok", "failed"} : Conclude(t, r)
  /\ db' \in Rested(t)
  /\ UNCHANGED <<named, live, lock, req, obj, ops, told, created, main, reply, raced, bare>>

\* create_libertine_container and destroy_libertine_container.  A creation
\* fails with an answer, or with the RuntimeError that CreateTask expects (a
\* chroot: proot is missing).  A container that is created but cannot be set
\* up is destroyed again by a call that lacks its argument: TypeError.  An
\* lxc container is started and stopped on the way.
WorkOnContainer(t) ==
  /\ pc[t] = "work" /\ Kind(t) \in {"create", "destroy"}
  /\ \/ \E r \in {"ok", "failed"} : Conclude(t, r) /\ UNCHANGED lock
     \/ /\ Kind(t) = "create"
        /\ Die(t)
        /\ UNCHANGED res
  /\ db' \in {db} \cup (IF Kind(t) = "create" /\ Type(db, Cid(t)) = "lxc" THEN Rested(t) ELSE {})
  /\ UNCHANGED <<named, live, req, obj, ops, told, created, main, reply, raced, bare>>

\* Slip: the lock is not given back.
LeaveLocked(t) == UNCHANGED lock /\ Goto(t, "leave")

Leave(t) ==
  /\ lock' = [lock EXCEPT ![MyLock(t)] = 0]
  /\ Goto(t, "leave")

\* Slip: the status is not set back.
NotRestored(t) == db

\* update_container_install_status(id, "ready")
Restored(t) == SetStatus(db, Cid(t), "ready")

Deletes(t) ==
  \/ Kind(t) = "destroy" /\ res[t] = "ok"
  \/ Kind(t) = "create"  /\ res[t] = "failed"

\* What _run writes when the work is over.
Saved(t) ==
  CASE Kind(t) = "install" /\ res[t] = "ok"     -> SetPkgStatus(db, Cid(t), Pkg(t), "installed")
    [] Kind(t) = "install" /\ res[t] = "failed" -> DeletePackage(db, Cid(t), Pkg(t))
    [] Kind(t) = "remove"  /\ res[t] = "ok"     -> DeletePackage(db, Cid(t), Pkg(t))
    [] Kind(t) = "remove"  /\ res[t] = "failed" -> SetPkgStatus(db, Cid(t), Pkg(t), "installed")
    [] Deletes(t)                               -> DeleteContainer(db, Cid(t))
    [] OTHER                                    -> Restored(t)

\* The installs that wait for the lock and whose mark is gone once t has
\* written: with the entry of their container, or by a removal of the package.
Unmarks(t) ==
  {u \in Tasks : /\ Kind(u) = "install" /\ Cid(u) = Cid(t) /\ pc[u] = "wait"
                  /\ \/ Deletes(t)
                     \/ Kind(t) = "remove" /\ res[t] = "ok" /\ Pkg(t) = Pkg(u)}

\* delete_container ends with ValueError if there is no entry, and, once the
\* entry is gone from memory, with KeyError if the database names no default.
Save(t) ==
  /\ pc[t] = "save"
  /\ IF Deletes(t) /\ ~Exists(db, Cid(t))
       THEN Die(t) /\ UNCHANGED <<db, named, bare>>
       ELSE /\ db' = Saved(t)
            /\ named' = (named /\ (Deletes(t) => \E c \in Cids : Exists(db', c)))
            /\ bare' = bare \cup Unmarks(t)
            /\ IF Deletes(t) /\ ~named THEN Die(t)
               ELSE IF Kind(t) = "update" \/ AnnouncesFirst(t, res[t]) THEN Leave(t)
               ELSE Goto(t, "announce") /\ UNCHANGED lock
  /\ UNCHANGED <<live, req, obj, res, ops, told, created, main, reply, raced>>

\* Slip: the result is published as it is.
RawOutcome(t) == res[t]

Outcome(t) == IF res[t] = "failed" THEN "failed" ELSE "finished"

\* self._finished() or self._error()
Announce(t) ==
  /\ pc[t] = "announce"
  /\ Signal(t, Outcome(t))
  /\ IF AnnouncesFirst(t, res[t])
       THEN Goto(t, "save") /\ UNCHANGED lock
       ELSE Leave(t)
  /\ UNCHANGED <<db, named, live, req, obj, res, created, main, reply, raced, bare>>

\* The _run of a task without a lock.  app_info may find nothing.
Read(t) ==
  /\ pc[t] = "wait" /\ ~Locked(t)
  /\ \/ /\ Kind(t) = "list_app_ids" => Constructible(t)
        /\ Goto(t, "leave")
        /\ UNCHANGED <<ops, told>>
     \/ /\ Kind(t) = "app_info"
        /\ Signal(t, "failed")
        /\ Goto(t, "leave")
     \/ /\ Kind(t) = "list_app_ids" /\ ~Constructible(t)
        /\ Goto(t, "dead")
        /\ UNCHANGED <<ops, told>>
  /\ UNCHANGED <<db, named, live, lock, req, obj, res, created, main, reply, raced, bare>>

\* if self.running: self._finished(); self._delayed_callback()
Finish(t) ==
  /\ pc[t] = "leave"
  /\ IF running(t) THEN Signal(t, "finished") ELSE UNCHANGED <<ops, told>>
  /\ Goto(t, "linger")
  /\ UNCHANGED <<db, named, live, lock, req, obj, res, created, main, reply, raced, bare>>

-----------------------------------------------------------------------------
(* The timer thread, ten seconds later. *)

\* OperationsMonitor.remove_from_connection
RemoveFromConnection(t) ==
  /\ pc[t] = "linger"
  /\ ops' = [ops EXCEPT ![t] = "gone"]
  /\ Goto(t, "forget")
  /\ UNCHANGED <<db, named, live, lock, req, obj, res, told, created, main, reply, raced, bare>>

\* _cleanup_task: self._tasks.remove(task).  The main thread may be walking
\* over that list.
Forget(t) ==
  /\ pc[t] = "forget"
  /\ Goto(t, IF Kind(t) \in Readers THEN "gone" ELSE "emptycheck")
  /\ main' = IF main.at = "found" /\ main.obj = obj[t]
                THEN [main EXCEPT !.missing = @ \cup {t}] ELSE main
  /\ UNCHANGED <<db, named, live, lock, req, obj, res, ops, told, created, reply, raced, bare>>

\* _cleanup_task: if len(self._tasks) == 0
CheckEmpty(t) ==
  /\ pc[t] = "emptycheck"
  /\ Goto(t, IF Members(obj[t]) = {} THEN "drop" ELSE "gone")
  /\ UNCHANGED <<db, named, live, lock, req, obj, res, ops, told, created, main, reply, raced, bare>>

\* The object has a task in its list, or the main thread has it in hand.
InUse(o) == Members(o) # {} \/ (main.at = "found" /\ main.obj = o)

\* TaskDispatcher._cleanup_container
Drop(t) ==
  /\ pc[t] = "drop"
  /\ live' = live \ {obj[t]}
  /\ raced' = (raced \/ InUse(obj[t]))
  /\ Goto(t, "gone")
  /\ UNCHANGED <<db, named, lock, req, obj, res, ops, told, created, main, reply, bare>>

-----------------------------------------------------------------------------
\* The service idles in its main loop once the bound is used up.
Idle ==
  /\ created = MaxTasks /\ main.at = "idle"
  /\ \A t \in Tasks : pc[t] \in {"gone", "dead", "raised"}
  /\ UNCHANGED vars

TaskStep(t) ==
  \/ Refresh(t) \/ Check(t) \/ Refuse(t) \/ FinishRefused(t) \/ Mark(t)
  \/ Enter(t) \/ Open(t) \/ WorkInSession(t) \/ WorkOnContainer(t)
  \/ Save(t) \/ Announce(t) \/ Read(t) \/ Finish(t)

TimerStep(t) == RemoveFromConnection(t) \/ Forget(t) \/ CheckEmpty(t) \/ Drop(t)

MainStep ==
  \/ \E r \in Requests : FindOrCreate(r) \/ DispatchContainerless(r)
  \/ Reuse \/ Dispatch \/ DispatchRaises

Next == MainStep \/ (\E t \in Tasks : TaskStep(t) \/ TimerStep(t)) \/ Idle

Spec == Init /\ [][Next]_vars

\* Every thread that can run is scheduled, the backend commands a task waits
\* for come to an end, and the timers fire.  Nothing makes clients call.
Fairness ==
  /\ WF_vars(Reuse \/ Dispatch \/ DispatchRaises)
  /\ \A t \in Tasks : WF_vars(TaskStep(t)) /\ WF_vars(TimerStep(t))

FairSpec == Spec /\ Fairness

-----------------------------------------------------------------------------
(* Properties. *)

TypeOK ==
  /\ db \in Databases
  /\ named \in BOOLEAN
  /\ live \subseteq Objects
  /\ lock \in [Tasks -> Tasks \cup {0}]
  /\ req \in [Tasks -> AllRequests \cup {NoRequest}]
  /\ obj \in [Tasks -> Objects \cup {NoObject}]
  /\ pc \in [Tasks -> PCs]
  /\ res \in [Tasks -> {"none", "ok", "failed"}]
  /\ ops \in [Tasks -> {"none", "running", "finished", "failed", "gone"}]
  /\ told \in [Tasks -> Seq({"finished", "failed"})]
  /\ created \in 0..MaxTasks
  /\ main \in [at : {"idle", "found"}, req : AllRequests \cup {NoRequest},
               obj : Objects \cup {NoObject}, missing : SUBSET Tasks]
  /\ reply \in 0..MaxTasks
  /\ raced \in BOOLEAN
  /\ bare \subseteq Tasks

\* The purpose of Container._lock: of the tasks of one container, at most one
\* is inside _run, whichever Container objects they were created through.
NoOverlap ==
  \A t, u \in Tasks :
    pc[t] \in Inside /\ pc[u] \in Inside /\ Cid(t) = Cid(u) => t = u

\* There is one way to lose that: a timer drops a Container object that has
\* been found, or got a task, since its list was seen to be empty.
Exclusive == ~raced => NoOverlap

\* TaskDispatcher keeps one Container object for each container id, however
\* its threads are switched.
OneObject == \A o, q \in live : o.cid = q.cid => o = q

\* No two tasks that are to be deduplicated are ever unfinished together:
\* Container.install and its siblings answer with the first of them, unless
\* an object was dropped in use or a timer shortened the list they walk over.
NoTwins ==
  ~raced =>
    \A t, u \in Tasks :
      /\ Kind(t) \in Mutators /\ ops[t] = "running" /\ ops[u] = "running"
      /\ Cid(t) = Cid(u) /\ Same(req[t], req[u])
      => t = u

\* The database lists each container and each package once, though nothing
\* that appends to it looks.
UniqueEntries ==
  ~raced =>
    \A c \in Cids :
      /\ Len(db[c]) <= 1
      /\ \A p \in Packages : Exists(db, c) => Len(db[c][1].pkgs[p]) <= 1

\* The tasks of these kinds that work, or are about to, for a container.
Owns(kinds, c) ==
  {t \in Tasks : Kind(t) \in kinds /\ Cid(t) = c
                  /\ pc[t] \in {"wait", "open", "work", "save", "announce"}}

\* Those whose marks stay for good: an exception ended a creation, or a task
\* that was to work in a container of a type that is not known.
Corpses(kinds, c) ==
  {t \in Tasks : /\ Kind(t) \in kinds /\ Cid(t) = c /\ pc[t] = "dead"
                  /\ \/ Kind(t) = "create"
                     \/ Type(db, c) = "unsupported"}

Markers(kinds, c) == Owns(kinds, c) \cup Corpses(kinds, c)

\* A mark in the database that makes later requests refuse is the mark of a
\* task that is still there to take it away: a package never stays 'new',
\* 'installing' or 'removing' after its task has left, nor a container
\* 'removing', and a chroot is 'running' or 'updating' only while a task is
\* inside _run.  Marks stay behind in two cases, and in no other: a creation
\* dies of a chroot that cannot be set up, or whatever is asked of a container
\* that was created with a type that is not known.
MarkersOwned ==
  ~raced =>
    \A c \in Cids :
      /\ Status(db, c) = "removing" => Markers({"destroy"}, c) # {}
      /\ Status(db, c) \in {"new", "installing"} => Markers({"create"}, c) # {}
      /\ Status(db, c) = "busy" /\ Type(db, c) = "chroot" =>
           \E t \in Tasks : pc[t] \in Inside /\ Cid(t) = c
      /\ \A p \in Packages :
           /\ PkgStatus(db, c, p) \in {"new", "installing"} =>
                \E t \in Markers({"install"}, c) : Pkg(t) = p
           /\ PkgStatus(db, c, p) = "removing" =>
                \E t \in Markers({"remove"}, c) : Pkg(t) = p

\* An install that is about to report success has its package in the database,
\* unless its container was not listed when it marked the package, or somebody
\* took its mark away before it got the lock.
InstallRecorded ==
  ~raced =>
    \A t \in Tasks \ bare :
      Kind(t) = "install" /\ pc[t] = "announce" /\ res[t] = "ok" =>
        PkgStatus(db, Cid(t), Pkg(t)) \in {"installed", "removing"}

\* The outcome of an operation is announced once, and from then on polling
\* shows it until the operation is removed, and nothing is removed before it
\* has an outcome.  Only a task that _before refused sends 'finished' after
\* its 'error'; whoever polls still sees the error.
OutcomeStands ==
  [][\A t \in Tasks :
       /\ done(t) => ops'[t] \in {ops[t], "gone"}
       /\ ops[t] = "running" => ops'[t] \in {"running", "finished", "failed"}
       /\ ops[t] = "gone" => ops'[t] = "gone"
       /\ told'[t] # told[t] =>
            \/ told[t] = <<>> /\ told'[t] = <<ops'[t]>>
            \/ pc[t] = "refused" /\ told[t] = <<"failed">> /\ told'[t] = Append(told[t], "finished")]_vars

\* The service keeps the promise of OperationLifecycle.
Lifecycle == INSTANCE OperationLifecycle
  WITH Operations <- Tasks,
       ops <- [t \in Tasks |-> IF pc[t] = "forget" THEN "withdrawn" ELSE ops[t]]
KeepsLifecycle == Lifecycle!Spec

\* Whoever is inside _run of a Container object holds its lock, and a lock is
\* held by a task inside _run and by no other: a task that leaves or dies
\* gives it back.
LockDiscipline ==
  \A t \in Tasks :
    /\ pc[t] \in Inside /\ Locked(t) => lock[MyLock(t)] = t
    /\ lock[t] # 0 => pc[lock[t]] \in Inside /\ MyLock(lock[t]) = t

\* An operation that was started is announced as finished or failed, unless an
\* exception ends its task; those of the others do end, since a task that
\* dies gives the lock back.
EveryOperationEnds == \A t \in Tasks : ops[t] = "running" ~> done(t) \/ pc[t] = "dead"

\* Once clients stop calling, the dispatcher lets go of every Container object,
\* but those that hold the task of a thread that an exception ended, and
\* those a request raised in: these are kept for ever.
ObjectsReleased ==
  created = MaxTasks ~>
    \A o \in live : \E t \in Tasks : obj[t] = o /\ pc[t] \in {"dead", "raised"}
=============================================================================
