# Libertine in TLA+

Libertine keeps classic X applications in containers (chroot, lxc, lxd) and lets
clients manage and launch them.  This directory holds TLA+ models of its core, the
configurations that check them with TLC, and proofs checked by TLAPS.  Paths below are
relative to `src/`; `PY` stands for `python/libertine`.

    cd tla
    tlc -config MCTaskService_packages.cfg MCTaskService     # any run of PROJECT.json
    tlapm TaskServiceProofs.tla                              # any *Proofs module

`PROJECT.json` lists components, runs, mutants (plausible bugs each property catches),
the lines each definition translates, findings, hazards and theorems.

## 1. The system

| Component | Code | State | Operations | Talks to |
|---|---|---|---|---|
| task service | `PY/service/{task_dispatcher,container}.py`, `PY/service/tasks/*` | Container objects (id, lock, task list), one thread per task, one timer per ended task | install, remove, create, destroy, update, search, app_info, list_app_ids, container_info, list | database, operations on the bus, container front end |
| operations on the bus | `PY/service/{operations_monitor,download,operations}.py` | per operation: running, finished or failed; result and error text | new, finished, error, done, remove | clients poll it |
| container control | `PY/service/container_control*.py`, `PY/ContainerControlClient.py` | per container the count of operations, -1 while it is stopped | operation_start, operation_finished, container_stopped | launchers, sessions, database at start-up |
| container database | `PY/ContainersConfig.py` | the JSON of containers, packages, archives, running apps, default; one file, many processes | getters, updaters, refresh, save under flock | everything |
| container front end | `PY/Libertine.py` | none but the database | LibertineContainer methods, ContainerRunning | backends, database |
| backends | `PY/{Chroot,Lxc,Lxd}Container.py` | the container itself | create, destroy, start, stop, restart, run, start/finish application | container control |
| launcher session | `PY/launcher/session.py` | watched descriptors, bridge pairs, services, the app process | run, bridge copying, signals, shutdown | backends, database |
| launcher configuration | `PY/launcher/{config,task}.py`, `tools/libertine-launch` | none shared | parsing, process start | session |
| manager command line | `tools/libertine-container-manager` | none but the database | create … fix-integrity, configure | front end, database |
| daemon main | `tools/libertined` | main loop, service objects | start, stop | service |
| client library | `liblibertine/*` | none | list, paths, polling of an operation | service |
| clipboard daemon | `pasted/pasted.cpp` | last clipboard contents, focus | copy host to container and back | X clipboard, content hub |
| user interface models | `common/*.cpp` | a copy of the database, running command-line processes | show, start processes | manager command line |
| apt cache, HostInfo, utils, QML, packaging, `tools/libertine-shell` | | | queries, views, build | |

How they interact.  A client calls the service over D-Bus; the main thread of the service
makes a task of the call (or finds a running one that does the same) and answers with an
operation id, which the client polls.  The task works in a thread of its own, serialised
with the other tasks of the same Container object by that object's lock, reads and marks
the database before it takes the lock, and starts and stops the container through the
front end.  Starting and stopping lxc and lxd containers is shared with launchers and with
the command line tool, which are other processes, so the service counts who uses each
container.

What is hard: the three kinds of threads of the service share lists without locks; the
checks of a task are made before it has the lock; exceptions end threads silently;
operations outlive their tasks; the count of operations must survive failing commands,
refused clients and a restart of the service; several processes write one file.  The
`hazards` of `PROJECT.json` name each at its line, with the properties that watch it.

What makes each component correct:

- *task service*: one task at a time works in a container; requests for the same thing
  share a task; whatever is marked in the database is unmarked by the task that marked it;
  an operation ends unless an exception ends its task; nothing but what such a task holds is
  kept for ever.
- *operations*: whoever polls sees one outcome, and an answered operation is in flight.
- *container control*: a container runs while it is used, and is stopped by the last user;
  nobody is refused for good; records of running apps go away with their launchers.
- *database*: entries are unique; the default container is listed; what is in a container
  is listed before it is put there; the file is a database whenever nobody writes it.
- *session, bridge*: it ends when the application does and leaves nothing behind; no bridge
  suffers from what happens to another.
- *bind mounts*: a container shows the directories that were asked for, and no others.
- *clipboard*: whoever pastes gets what was copied last, and pasted does not talk to itself.

## 2. Modules

| Module | What it is | Theorems in |
|---|---|---|
| `ContainerDb` | the database as a value: getters and updaters | (lemmas in `TaskServiceProofs`) |
| `OperationLifecycle` | abstract: what the D-Bus interface promises about an operation | |
| `TaskService` | the task engine: main thread, task threads, timer threads | `TaskServiceProofs`, `ServiceDbProofs` |
| `ContainerLease` | abstract: what users of a container are promised | |
| `ContainerControl` | the count of operations, its clients, failures, restarts | `ContainerControlProofs` |
| `ManagerCli` | the command line tool: what it does to the database and the containers, step by step | `ManagerCliProofs` |
| `DbFile` | the file of the database: lock, truncation, checksum, several processes | `DbFileProofs` |
| `Session` | one launched application: services, signals, bridges, the event loop | `SessionProofs` |
| `BindMounts` | the directories a container shows | `BindMountsProofs` |
| `Pasted` | the clipboard daemon between X and the content hub | `PastedProofs` |
| `MC*` | model values and request sets for TLC | |

`TaskService` extends `ContainerDb` and implements `OperationLifecycle`;
`ContainerControl` implements `ContainerLease`.  The others stand alone and share the code
they are about: `DbFile` opens up the step "write the database" of `TaskService` and
`ManagerCli`; `ContainerControl` opens up starting and stopping a container, which is one
step that may be refused in `TaskService`, `Open` in `ManagerCli`, `StartApplication` in
`Session` and the steps from `OpenSession` to `Stopped` in `BindMounts`, which take apart
what each reads and writes of the database.

A definition whose comment begins with "Slip" is a plausible mistake: no specification uses
it; `PROJECT.json` names it as the mutant of the definition that follows it.

### ContainerDb

A database maps each container id to the *sequence* of its entries, since
`add_new_container` and `add_new_package` append without looking and every other
operation uses the first match.  Uniqueness is thus something to be checked
(`UniqueEntries`).  `installStatus` keeps `new`, `installing`, `removing`,
`ready`, `stopped`; the markers `starting`, `running`, `installing packages`, `removing packages`
and `updating` are one value `busy`, because no reader tells them apart.

### TaskService

| In the model | In the code |
|---|---|
| `live`, `Found`, `FindOrCreate`, `Drop` | `TaskDispatcher._containers`, `_find_container`, `_find_or_create_container`, `_cleanup_container` |
| an object `[cid, id]`, `lock`, `Members` | a `Container` object, its `_lock`, its `_tasks` |
| `Reuse`, `Dispatch`, `Duplicates`, `Same` | `Container.install` … `update`, `BaseTask.matches` |
| `DispatchRaises` | `search` and `app_info` in a snap |
| `Refresh`, `Check`/`Refuse`, `FinishRefused`, `Mark` | `_refresh_database`, the condition of `_before` and its `_error`, the `finished` of `run` that follows, the writes of `_before` |
| `Enter` … `Finish` | the rest of `BaseTask.run` and the `_run` of each task |
| `res`, `Conclude`, `Save`, `Announce` | the answer of the work, then the write and the announcement in the order of each task |
| `RemoveFromConnection`, `Forget`, `CheckEmpty`, `Drop` | the timer: `remove_from_connection`, `_tasks.remove`, `len(self._tasks) == 0`, `_cleanup_container` |
| `ops`, `told` | what `OperationsMonitor` and `Download` show of an operation to who polls it, and the signals they send |
| `named` | the database has a `defaultContainer`, without which `delete_container` raises |
| `Die`, `"dead"` | an exception nobody catches: the lock is released, nothing else happens |

The steps of a task: `refresh check mark wait | open work save announce | leave linger
forget emptycheck drop gone`; those between the bars hold the lock.  A refused task goes from
`check` by way of `refused`, where it has sent `error` and not yet `finished`, to `linger`.
CPython may switch threads between any two of these steps, and between finding a Container
object and using it.  A handler that walks over a task list while a timer takes tasks off it
may step over one (`Skipped`).

`raced` and `bare` are history.  `raced`: one of the two races of the threads was lost, that
is, a Container object was dropped that was in use, or a duplicate was overlooked by such a
walk.  `bare`: the installs that had no entry of their container to write their mark to, or
whose mark was taken away before they had the lock.

Abstractions: the refresh before the lock is a step of its own, the one under the lock is
part of `Enter`; consecutive writes of one thread to its own entry are one step; the
database is one value shared by file and memory, and a write is atomic; a container type is
`chroot`, `lxc` (which stands for lxd as well) or `unsupported`; the work of a backend is
its outcome and the status it leaves; only exceptions the code itself raises are modelled;
`Reuse` finds the duplicate and answers in one step (the task may end before the client has
the answer in any case, and polling then shows what `OperationLifecycle` promises);
destroying with force is left out.  Only the service writes the database here
(`DbFile` has several writers).

### ContainerControl

| In the model | In the code |
|---|---|
| `operations`, `invalid` | `ContainerControlClient._operations`, `_invalid_apps` of the service |
| `records` | `runningApps` in the database |
| `OperationStart`, `GiveUp` | `container_operation_start` granted, or refused to the last retry |
| `StartContainer`, `WaitForNetwork`, `ReportStopped` | `start_container` (`lxc_start` up to its `get_ips`), and `start_application` of lxc after a failed one |
| `AddRunningApp`, `Exit`, `RemoveRunningApp` | the launcher's session |
| `Raise`, `EndAdrift` | an exception in the session's loop: its application goes on without a launcher |
| `OperationFinished`, `StopContainer`, `ContainerStopped` | `stop_container` |
| `RestartService` | `_get_running_apps_per_container` of a new service |
| `seen`, `State` | the state of the container that an lxd client object read once, at its creation |
| `CanStart`, `CanStop` | what lxd refuses when that state is not the state of the container |
| `RestartContainer` | `restart_container` of lxc and lxd, outside the counting |

A client comes once.  One container; a call of the service is atomic; a restart of the
service is immediate, as its bus activation makes it appear to callers; a client waiting for
another's start (`STARTING`) sees its outcome.  A launcher that is killed is left out; as
far as the count goes it does what one that raises does.

Three variables are history.  `owing`: the clients that ended without giving the container
back (a start or stop that failed, a launcher that raised).  `astray`: the count was reset
under clients that had the container (by a launcher of lxc that was refused, or a restart of
the service).  `without`: the clients that took a container at rest for running, or lost it
to what the count cannot prevent (the operator's restart, a start that found no network, a
stop when the count was astray).

### ManagerCli

| In the model | In the code |
|---|---|
| `Give`, `CheckContainerId` | a process of `tools/libertine-container-manager`; which container it is about |
| `Create` … `Complete`, `Drop` | `create`, `LibertineContainer.create_libertine_container`, and what it does when that fails |
| `DestroyContainer`, `Destroy`, `Drop` | `destroy_container`, `destroy_libertine_container` of the backends |
| `Open`, `NextPackage`, `Apt`, `RecordPackage`, `CloseSession` | `install_package`, `remove_package`: the loop, apt, the database around it |
| `Configure…`, `Work…`, `Record…` | `configure`: multiarch, archives, bind mounts, freezing |
| `SetDefault`, `ClearDefault`, `delete_container` | the default container |
| `Merge`, `FixIntegrity`, `FixContainer`, `FixApp`, `FixArchive` | `merge-configs`, `fix-integrity` |
| `world` | the containers themselves: root file system, packages, archives, foreign architecture |

One command at a time, each a process that may be killed between any two of its steps, or
end in a traceback; backend programs fail, some of them halfway.  `db.list` keeps the order
of the file, which decides the next default container and what `fix-integrity` skips.
`upset` is history: `kill`; `traceback`; `partial` (something is there and not listed, or
gone and listed, by a failure halfway: a purge before a failing autoremove, `ldconfig` that
raises after apt, `destroy()` whose answer is ignored); `missing` (a package file that `dpkg
-i` did not install and nobody looked); `unrest` (an lxc container that did not start or
stop, and whose status says so); `merge` (another database was merged in, whose entries may
say anything of the containers).
A database that is merged in is one libertine has written: it lists nothing twice, and its
default container is in it (`Sound`).  `create` is always given an id, since the option
parser demands one.

### DbFile

| In the model | In the code |
|---|---|
| `Hash`, `HashLock`, `Compare` | `container_config_hash`, `refresh_database` |
| `Read`, `ReadLock`, `Load`, `Take` | `read_container_config_file`, `_ContainersConfigFile`; the list is taken, then the checksum |
| `OpenForWriting`, `WriteLock`, `Dump`, `Close` | `write_container_config_file`: `open(…, 'w')`, the lock, `json.dump`, closing |
| `Retry` | the loop that asks for the lock a hundred times |
| `file`: blocks and holes | what the kernel has of the file; a process writes on where it stopped, whatever became of the file |

A database is a flag of each process, put up and down, so that databases can recur: the
checksum is compared for equality only, and A-B-A is a case.  `Size` is the length of its
text, in blocks, and differs from one to the other: a process that truncated the file and
then waited for the lock writes over what another has written meanwhile, and if its own text
is the shorter one a tail of the other stays (`LeavesATail`).  `quiet` is history: nobody
wrote since the process began to refresh.  `botched`, too: the last process that opened the
file for writing was killed, gave up on the lock, or leaves a tail; the next that opens it
takes the fault away.

### Session

| In the model | In the code |
|---|---|
| `LaunchService`, `Constructed`, `StartApplication` | `Session.__init__`, `start_application` |
| `Select`, `Handle` | `Session.run`: one batch of events, one event at a time |
| `HandleSignals` | `_handle_sig_fd`, `_handle_child_died` |
| `HandleListener`, `pair.fd` | `_accept_bridge_connection`, `BridgePair`; descriptors are the lowest that are free |
| `HandleRead`, `CopyData`, `ClosePair` | `handle_read_fd`, `_copy_data`, `_close_up_shop` |
| `FinishApplication`, `Stopping`, `Exit`, `Fail` | the end of `run`, `_shutdown`, the `ExitStack` |
| `Connect`, `Send`, `Receive`, `CloseEnd`, `AppExits`, `ServiceExits`, `Signal` | the application, the host, the services, the user |

Data is counted in what one `recv` reads.  `full` and `lost` are history: the buffer of a
receiver was full; a piece was dropped.

### BindMounts

| In the model | In the code |
|---|---|
| `Matches`, `BindingDirectories`, `Mounted` | `generate_binding_directories` of `PY/utils.py` and the loops that mount its answer |
| `file`, `mem`, `sum` | the entry in the database file, in the memory of the session, and that of the checksum it last took |
| `OpenSession`, `Refresh`, `Save` | `ContainersConfig.__init__`, `refresh_database`, `update_container_install_status`, which writes all of `mem` |
| `StartChroot`, `StartLxc`, `StartLxd`, `UpdateBindMounts`, `UpdatePackages` | where the backends compute the mounts |
| `AnnounceStart`, `Started`, `StartFails` | the two writes of `start_container` and the command between them |
| `BeginWork`, `FinishPackages`, `StopContainer`, `AnnounceStop`, `Stopped` | the writes around the work on packages, and those of `stop_container` |
| `Restart`, `Configured` | `restart_container`, and what `configure` does at its end |
| `AddMount`, `RemoveMount`, `SetFreeze`, `RestartCommand` | `configure`, `restart` of the command line tool, at any step of the session |
| `WorkElsewhere` | another process that writes the status |

Paths are values with two relations: `Prefix` (`str.startswith`, which the code uses) and
`Under` (lies in, which is meant).  `Prefix` is an order, as "begins with" is.  `Xdg` is any
sequence of paths: `xdg-user-dir` prints the home directory for each that is unset, so that
some may be equal.  What is mounted is a set; where a directory appears in the container is
not modelled.  A command reads and writes the database in one step; there is one session at
a time.

History: `wanted` is what the user added and did not remove; `changed` what he added or
removed since the session read the database, and `lost` what of that was written over;
`asked`, `vague` and `due` are what was wanted, what of it the session could not know, and
what was wanted and was there when the mounts were made; `dropped`: lxc was restarted
without its mounts.

### Pasted

| In the model | In the code |
|---|---|
| `CheckForAppFocus` | the worker thread: `checkForAppFocus`, `isSurfaceFocused` |
| `HandleXClipboard`, `CreatePaste`, `AppFocused` | the slots of the main thread, and the call whose answer the first ignores |
| `Same`, `Copied`, `Remembered` | `compareMimeData`, `copyMimeData`, `updateLastMimeData` |
| `Focus`, `CopyInContainer`, `CopyOnHost`, `OwnerLeaves` | X, Unity, the content hub and their users, as pasted uses them |

`excused` is history: what happened that pasted cannot be blamed for (a move of the focus
while the worker had not looked, `unseen`; a copy that crosses a move, `crossed`; a clipboard
whose owner went away, `vanished`; a move straight from window to window, `moved`; Unity
answered with an error for the window that has the focus, `mute`; the content hub did not
take a paste, `refused`).

## 3. Runs

| Run | Instance | Shows |
|---|---|---|
| `packages` | 1 container, 1 package, 3 tasks; install, remove, app_info, container_info | `TypeOK`, `Exclusive`, `NoTwins`, `KeepsLifecycle` |
| `containers` | the same with create (chroot and lxc), destroy, install, list_app_ids; the container may be absent, the default unset | `UniqueEntries`, `MarkersOwned`, `InstallRecorded` |
| `switching` | update, search in a snap, create of an unknown type; 3 tasks; fairness | `LockDiscipline`, `OutcomeStands`, `EveryOperationEnds`, `ObjectsReleased` |
| `v_overlap` | install; 3 tasks | `NoOverlap` violated: a finding of section 4 |
| `leases` | lxd, 2 launchers, 2 sessions, no command fails of itself; fairness | `KeptRunning`, `CounterCounts`, `Drains`, `RefusalsEnd` |
| `faults` | lxc, 2 launchers, 1 task thread, commands and the network fail, launchers raise, one restart of the service and one by hand; fairness | `TypeOK`, `CounterCounts`, `KeepsLease`, `ClientsReturn` |
| `manager` | a chroot and an lxc container, 2 packages, an archive, a mount; 4 commands of all kinds, kills at any step, failing programs; fairness | `TypeOK`, `DefaultListed`, `Consistent`, `WriteAhead`, `CommandsEnd` |
| `file` | 2 processes, texts of 1, 2 and 3 blocks, 2 tries for a lock, 4 operations, 1 kill; fairness | `TypeOK`, `FileSound`, `FreshMemory`, `OperationsEnd` |
| `session` | 2 services, 1 connection, 1 piece of data, 2 signals of other origin; fairness | `CleanEnd`, `AppEndsSession` |
| `bridges` | 2 connections, buffers of 1 piece, 2 pieces; fairness | `TypeOK`, `BridgesSound`, `DataMoves` |
| `mounts` | all three backends; 3 xdg directories, two of them the same, one of the user's in one of them, another and one whose name begins with its name; 2 commands, 3 sessions | `TypeOK`, `ShowsWhatWasAsked`, `ListIsWanted` |
| `clipboard` | 2 windows, 2 texts, 2 copies, 3 moves of the focus | `TypeOK`, `ClipboardsAgree`, `InItsName`, `NoEcho` |

`session` and `bridges` do not check deadlock, because a session ends.  `list` takes the same
steps as `container_info` with nothing to refuse, so no run requests it; the theorems cover
every kind of request.

Why the bounds suffice.

- *TaskService.*  Objects, locks, tasks and entries of different containers never meet, and
  packages of a container meet only in its lock.  Three tasks: two that collide and one that
  set the scene (held the lock, created the object, left a marker, dropped the object).
- *ContainerControl.*  Two launchers and two sessions: the stopper, a user that comes while
  it stops, one that is refused, and one already counted.  With failures, two launchers (one
  that resets the count under the other) and a task thread are enough for every excuse to be
  needed.
- *ManagerCli.*  Four commands: create, put something in, do something to it, and
  `fix-integrity` or a clean-up after it was killed.  Two packages: `fix-integrity` skips
  one of two.  Two containers: the default passes from one to the other.
- *DbFile.*  Two processes and texts of one to three blocks give every mixture, hole and tail
  there can be of two writers; a third would only write over the same block once more, and
  the theorems are for any number and any lengths.  Two tries: one that fails and is
  repeated, and the last one.
- *Session.*  Two connections are what it takes for one to get the descriptors of another
  within a batch; a buffer of one piece is full at the second.  Two signals besides those of
  the children: one before and one after SIGCHLD in the pipe.
- *BindMounts.*  A directory in an xdg directory, an xdg directory printed twice, two with a
  common prefix of names, one in `/media`, one with a blank, one that comes and goes; two
  of add, remove, freeze, restart and another process in one behaviour, at any step of three
  sessions, so that a session overwrites a change that it or the one before did not see.
- *Pasted.*  Two copies (one on each side, in both orders) and three moves (there, back, and
  to the other window).

The properties with history variables say what must hold unless something named happened:
`Exclusive`, `NoTwins`, `UniqueEntries`, `MarkersOwned` (`raced`), `InstallRecorded` (`raced`,
`bare`), `KeptRunning` (`without`), `CounterCounts` and `KeepsLease` (`owing`, `astray`),
`Drains` and `RefusalsEnd` (`owing`), `Consistent` and `WriteAhead` (`upset`), `FileSound` and
`FreshMemory` (`botched`, `quiet`), `BridgesSound` (`full`, `lost`), `ShowsWhatWasAsked`
(`vague`, `dropped`, `Twice`, `Spaced`), `ListIsWanted` (`lost`), `ClipboardsAgree` and
`InItsName` (`excused`).  Every such condition is needed: without it TLC finds the
divergence of section 4, the loss of a process, or the failure of a program that it stands
for.

### Fairness

- `TaskService.FairSpec`: each task thread and each timer is weakly fair and so is the main
  thread once it has a request in hand.  Python threads are preemptive, the commands a task
  waits for end, and `threading.Timer` fires.  Weak fairness is enough for the lock in
  `switching` because a finite number of tasks compete for it.  Clients need not call.
- `ContainerControl.FairSpec`: each client that has asked goes on, applications exit, and a
  restart of the container that has begun proceeds.  Nobody needs to ask.
- `ManagerCli.FairSpec`: a command that runs goes on, since the programs it waits for end.
  Nobody needs to give one.
- `DbFile.FairSpec`: a process in the middle of an operation is scheduled.  A process that
  waits in `flock` for ever while others take the lock in turn is not excluded by weak
  fairness, but others take it only a bounded number of times here.
- `Session.FairSpec`: the session is scheduled.  The application, the services and the host
  may do nothing for ever.

## 4. Findings and further divergences

One divergence is kept as a run that must find it: `v_overlap`.  A timer drops a `Container`
object the main thread has just found in `_containers`; the next request makes a second object
with a second lock, and two tasks work in one container at a time, against
`PY/service/container.py`, which has that lock to exclude it.

The others were met while modelling.  The models contain the behaviour, and where a property
would fail of it, it names it (a history variable, in brackets).

Service:

- What `v_overlap` starts from also installs a package twice at a time; so does a walk over
  a task list that a timer shortens meanwhile (`raced`).
- A request may be answered with the operation of a task that has ended: `done()` is `False`
  of an operation that is withdrawn, and the task is still listed.
- A refused task signals `error` and then `finished` (`PY/service/tasks/base_task.py:71`);
  polling still shows the error.
- A chroot that cannot be set up calls `destroy_libertine_container()` without its argument
  (`PY/ChrootContainer.py:79`): `TypeError`, and the operation never ends.  A create of an
  unsupported type ends with `KeyError` where `RuntimeError` is meant
  (`PY/Libertine.py:416`), and so does whatever is asked of that container later; deleting a
  container ends so when the database names no default (`PY/ContainersConfig.py:309`).  The
  marks of the first two stay in the database (`Corpses`), and the objects of all of them in
  the dispatcher; so do those of a `search` or `app_info` in a snap, which raise after the
  object was made.
- An install that checks before the container is added, or that loses its mark to a destroy,
  a failed create or a remove before it has the lock, succeeds without a trace in the
  database (`PY/service/tasks/install_task.py:49`; `bare`).
- Destroying an lxc container at rest is refused because it "does not exist", since it is
  `stopped` and not `ready` (`PY/service/tasks/destroy_task.py:39`).

Sharing a container:

- An lxc launcher that is refused resets the count while another client stops the container
  or has it (`PY/LxcContainer.py:398`); others lose it (`astray`).
- A failed start is never counted down (`PY/LxcContainer.py:228`): nobody stops the
  container any more.  A failed stop leaves the count at -1: everybody is refused.  A launcher
  whose loop raises gives nothing back and leaves its record (`owing`).
- A start that finds no network stops the container, whoever runs in it (`without`).
- A restarted service forgets the sessions and the container is stopped under them
  (`PY/service/container_control.py:32`; `astray`).
- An lxd client reads the state of the container once (`PY/LxdContainer.py:515`): it takes
  for running what is stopped by the time it is counted (`without`); and if it takes for
  stopped what runs, or for running what it is to stop and is stopped, lxd refuses, the client
  raises, and the count stays as it is (`owing`).
- `restart_container` stops a container that has been handed out (`without`).  And
  `PY/LxdContainer.py:526` calls `container_stopped()` without its argument.

Command line tool:

- `set-default --clear` and then destroying a container: `KeyError` in `delete_container`
  when it is all over, so that the container stays listed.  In an empty database it leaves
  only a comment, and commands that name a container end with `KeyError`.
- `fix-integrity` calls `destroy_container` without `force` (`TypeError`), skips the item
  that follows each one it deletes, and unlists what it fails to remove.
- Any session in an unfinished chroot makes it `ready`.
- `configure --multiarch disable` enables it, as both words are true
  (`PY/Libertine.py:278`); the flag of `create` is recorded as disabled.
- A purge that succeeds before a failing autoremove keeps the package `installed`; a `.deb`
  that fails to install over an installed package unlists it; an archive whose key is
  refused is unlisted though it was added; `ldconfig` that raises after a successful apt
  makes the package one that was not installed (`partial`).
- The status of `dpkg -i` is ignored (`PY/Libertine.py:246`): a package file that was not
  installed is recorded as installed (`missing`).
- The answer of `destroy()` is ignored (`PY/LxcContainer.py:282`): a container that is still
  there is unlisted (`partial`).
- An lxc container that does not start or stop keeps a status that is not one of rest
  (`PY/LxcContainer.py:226`, `243`; `unrest`).
- An lxc container that was never created can not be destroyed, ever.
- `update_packages` of a chroot answers the opposite of what happened
  (`PY/ChrootContainer.py:148`).

File of the database:

- No lock is held from the refresh to the write, so that updates are lost; a reader between
  the truncation and the dump takes the database for `{}`, and writes that back if it
  goes on to write; a reader of half a dump ends with `ValueError`; a write that gives up
  after a hundred tries has truncated the file.
- Because the file is truncated before it is locked, a shorter text written after a longer one
  leaves the tail of the longer one (`botched`).
- A reader that gives up on the lock takes the database for `{}` with the checksum of the
  real one, and does not look again until the file is another (`quiet`).

Session:

- Data of the host on its way to an application that closed takes along what the
  application said last; what is left in a socket when SIGCHLD is handled first is lost.
- Four bytes of the signal pipe are read and one is looked at: SIGINT behind SIGCHLD
  is ignored.
- A host that cannot be reached ends the session by an exception, with services running and
  the entry in `runningApps` left behind; so does a service that fails to start, and `False`
  from lxd, of which `wait()` is called.

Bind mounts:

- Whatever is listed twice hides itself and what lies in it: an xdg directory the user adds,
  one that `xdg-user-dir` prints twice (the home directory, if two are unset, which hides
  everything), and with lxd every xdg directory after a while, since `update_bind_mounts`
  extends the list in memory with them at each start, and the next write saves it (`Twice`).
- "Subset of other dir" is a prefix of names: `/home/u/work2` is hidden by `/home/u/work`.
- A session in a container writes the whole database from the memory it read when it began.
  What is added or removed meanwhile is undone, though nothing failed and nobody was killed
  (`lost`); the manual has "Adds or removes a bind-mount in the specified container"
  (`tools/libertine-container-manager.1:303`).
- A frozen container never gets a mount that is added; lxc loses its dynamic mounts in a
  restart (`dropped`).  A mount whose directory is gone cannot be removed.  A chroot quotes
  names twice (`Spaced`).

Clipboard:

- A focus that leaves and comes back before the worker has looked goes unnoticed; a move
  straight from one window to another leaves pastes in the name of the first; an X
  clipboard that became empty is not filled again, since what was remembered compares
  equal; a copy that is not handled before the focus comes is overwritten.
- An error of Unity reads as "not focused" (`pasted/pasted.cpp:115`), so that the
  focus goes unnoticed (`mute`); a paste that the content hub does not take is remembered as
  sent and never sent again (`pasted/pasted.cpp:200`; `refused`).

## 5. Proofs

Proved for every value of the constants (any finite number of processes, tasks, clients,
connections, windows, blocks, lengths and tries; with and without restarts, failing commands,
a snap; lxc and lxd), from nothing but the named assumptions on the constants:

| Theorem | Says |
|---|---|
| `TypeCorrect` | `[]TypeOK` of TaskService |
| `LockSafe` | `[]LockDiscipline` |
| `OutcomesStand` | `OutcomeStands` |
| `SingleObject` | `[]OneObject` |
| `Exclusion` | `[]Exclusive` |
| `Implements` | TaskService implements OperationLifecycle |
| `NeverTwins` | `[]NoTwins` |
| `ListedOnce` | `[]UniqueEntries` |
| `MarksAreOwned` | `[]MarkersOwned` |
| `InstallsAreRecorded` | `[]InstallRecorded` |
| `ControlTypes` | `[]TypeOK` of ContainerControl |
| `InUseKeptRunning` | `[]KeptRunning` |
| `CounterExact` | `[]CounterCounts` |
| `LeaseKept` | ContainerControl implements ContainerLease |
| `TypeCorrect` | `[]TypeOK` of ManagerCli |
| `DefaultIsListed` | `[]DefaultListed` |
| `NothingIsLeftBehind` | `[]WriteAhead` |
| `CommandsLeaveItConsistent` | `[]Consistent` |
| `DbFileTypes` | `[]TypeOK` of DbFile |
| `FileIsSound` | `[]FileSound` |
| `MemoryIsFresh` | `[]FreshMemory` |
| `SessionTypesHold` | `[]TypeOK` of Session |
| `SessionEndsClean` | `[]CleanEnd` |
| `BridgesStaySound` | `[]BridgesSound` |
| `PastedTypes` | `[]TypeOK` of Pasted |
| `EchoFree` | `NoEcho` |
| `ClipboardsHoldTheSame` | `[]ClipboardsAgree` |
| `SurfaceIsFocused` | `[]InItsName` |
| `BindTypes` | `[]TypeOK` of BindMounts |
| `ListStaysWanted` | `[]ListIsWanted` |
| `AskedIsShown` | `[]ShowsWhatWasAsked` |

None is restricted to a scheduling of the threads or to an environment in which nothing
fails.  What the code does not guarantee is named where it happens, in the history
variables of section 3, and not assumed away.

The arguments:

- *Types.* `TypeOK` of TaskService does not say that a task that runs has a request and an
  object, nor that `created + 1` is unborn when the main thread is about to use it.
  `Formed` adds that.
- *Exclusion.* `LockDiscipline` is inductive with the types: it excludes two tasks of one
  object.  To exclude two of one container id, `Attached` says that live objects have
  different ids (`OneObject`, always), and that every task still in a list, and the request
  the main thread has in hand, belong to an object that is live (`AllAttached`, until `raced`).
  A timer breaks the latter only when it drops an object in use, which is what `raced` says.
- *Outcomes.* `OpsFollow` ties `ops` to `pc`: no outcome before the announcement, one
  after it, none before the timer takes it away.
- *Unique entries.* A task that found a container or package absent stands between its
  check and its append.  `StillAbsent`: what it looked for is absent until then, because
  only a task for the same thing could add it, and `NoTwins` says there is none
  until `raced`.
- *Marks.* `AllOwned` says of each mark, package by package, that a task for it is at work
  (`MarkersOwned` unfolded), `ClearAtEnd` that a task about to announce an outcome has
  taken its own mark away, `QuietAfterWork` that a chroot is not `busy` once the session in it
  is over.  A task that died keeps its mark (`Held`).  A step writes to one container
  (`StepOf`) and a mark is written only at `mark` (`Marking`), so that a task can only
  disturb its own; that it owns the mark alone is
  `NoTwins`, that it alone is inside is `Exclusive`, that the write goes to the entry that
  was marked is `UniqueEntries`.
- *Recorded installs.* `RecordInv`: from its mark to its save the package of an install is
  listed (`Kept`), unless the install is `bare`.  Before it has the lock only what `Unmarks`
  names can unlist it; after that only a task that is inside could, and `Exclusive` says there
  is no other.  So a success that is about to be announced is in the database, or a remove of
  it has begun.
- *Sharing.* `Balanced` says, until the count goes astray, what it counts: the clients that
  have the container and those that owe it, or it is -1 and one client stops the container
  or has failed to.  `Sharing` adds `Places` (who owes is past the use of the container, who
  is recorded was) and that the container runs for its `Users`.  A stop then finds no user,
  unless the count is astray, and then takes the container from all of them (`without`).  The
  refinement maps `inside` to `Users`, `on` to `power`, and `sure` to the absence of what may
  take the container away past the count.
- *Command line tool: types.* `TypeOK` needs that the database lists nothing twice and the
  default (`Sound`), and that the step a process is at fits its command and what it was given
  to do (`TypeInv`, with `Formed`): `fix-integrity` still has entries to look at, a session
  has a listed container.
- *Write-ahead.* `AheadInv`: for the container that the process works on, what has been
  announced at this step and is not yet done, or is done and not yet recorded (`BuildHere`,
  `PackageHere`, `ArchiveHere`); all others are `Covered`: what is there is listed.
- *Consistency.* `KemptInv` is stronger where nothing went wrong.  Every container but the
  one at work is `SettledAt`: listed, at rest and whole, or neither listed nor there; the
  entry of the one at work agrees with what is there but for the one package or archive in
  hand (`Agree`, `BusyPackages`, `BusyArchives`), and `Pending` says what else the step knows.
- *Merging.* `InOrder` picks an enumeration of a set of positions; that there is one is
  shown by the least number up to which there were none.
- *File.* `LockInv`: who is at a step that holds the lock holds it, and tries are left while
  one is made.  Over it `SoundInv`, until `botched`: while a process writes, the file is no
  longer than what it writes, the blocks up to its position are its own or holes, and those
  above it agree among themselves (`Layers`); and none of its blocks are missing unless
  another process has truncated the file and is still to write it (`NoHoles`).  So the last
  of the writers leaves a whole database, whatever the lengths.
- *Memory.* `MemoryInv`: as long as nobody disturbed a refresh, the file is a database and the
  sum that was taken is that of the file as it is now.
- *Session.* `Course` ties the phase to what was waited for, unlisted and told to stop.
- *Bridges.* `BridgeInv`: open pairs have distinct descriptors, and two are always free
  (by counting, with `FiniteSetTheorems`); and if an event of the batch has a descriptor that
  its pair still has, there still is something to read (`Pending`), whatever became of
  the descriptors of other pairs in between.  So `recv` answers nothing only if an
  end was closed.
- *Echo.* What pasted puts on the X clipboard it has remembered, and compares equal when
  the change comes back; `owner` tells it from what an application copied.
- *Focus.* `WatchInv`: without unseen moves and unanswered questions the focus moves at
  most once between two looks of the worker, which asks about the window that has the input
  focus of X.  `NameInv`: what is told last, posted or handled, is the focused window once the
  worker has noticed; a move by way of the host is told since `hasFocus` was lost in between.
- *Clipboards.* `AgreeInv` is about what is remembered rather than about the clipboards: it is
  what the X clipboard holds once changes are handled, and what the pasteboard holds while the
  container has the focus, no post is pending and no paste was refused; and the newest copy
  is on its way from an application of the focused window, or in the pasteboard.
- *Bind mounts.* `BindInv`.  The file says what the user wants but for what was `lost`, and
  the memory of a session but for that and what was `changed` since it read (`Wants`); so
  whichever of the two a write or a mount comes from, what it gets wrong is named.  And what
  a session remembers is what it has the checksum of, but for what lxd added, so that a
  refresh that reads nothing leaves nothing unknown.  Of the directories whose name that of
  `m` begins with, one begins with none of the others (`TopmostDirectory`: the one with the
  fewest `Matches`, counted with `FiniteSetTheorems`), so it is kept, unless it is listed twice;
  if it holds `m`, it exists (`Standing`) and is mounted.

Model-checked only: liveness (`EveryOperationEnds`, `ObjectsReleased`, `Drains`,
`RefusalsEnd`, `ClientsReturn`, `CommandsEnd`, `OperationsEnd`, `AppEndsSession`,
`DataMoves`), since fairness and ENABLED are beyond the prover.  Where a proof needed an
induction over numbers, it takes the least counterexample (`NatLessThanWellFounded`), since
theorems with an operator parameter cannot be used.  Every invariant that a proof
rests on held on the instance of the run before it was proved.

## 6. Not modelled

- *Client library, user interface models, QML*: views, and copies that are read anew; they
  keep no state from one call to the next that another actor could disturb.
- *Launcher configuration, command line parsing, utils*: one pass from arguments and
  environment to values, in one process.
- *Apt cache, search, listing of applications, host information*: queries.
- *Text of commands for proot, fakechroot and lxc, the mirroring of users and groups and the
  profile of lxd*: what they do to a container is an outcome here.
- *Daemon main, packaging, shell*: set-up.
- *A restart of the service in the middle of tasks*: threads, operations and objects are
  gone, and the markers stay in the database for `fix-integrity`, as after a kill in
  `ManagerCli`, where this is modelled.
- *`operations += 1` between threads of the service*, with a thread switch between its read
  and its write; *process ids that are used again* by the time the service asks whether an
  application still runs; *a launcher that is killed*.
