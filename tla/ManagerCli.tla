----------------------------- MODULE ManagerCli -----------------------------
(***************************************************************************)
(* tools/libertine-container-manager: the command line that edits the      *)
(* container database beside the work it does in the containers.           *)
(*                                                                         *)
(* A user gives one command after the other.  A command is a process: it   *)
(* reads the database, and then writes it whole after every change, around *)
(* the backend work that the change announces or records.  It may be       *)
(* killed between any two steps, it may end in a traceback, and backend    *)
(* work may fail, sometimes halfway.                                       *)
(*                                                                         *)
(* Here the order of the lists matters (the default container, and         *)
(* fix_integrity, which deletes from the list it goes through), so the     *)
(* database is modelled anew and not taken from ContainerDb.               *)
(***************************************************************************)
EXTENDS Sequences, Naturals

CONSTANTS
  Cids, Packages, Archives, Mounts,
  None,           \* no container id
  Commands,       \* the commands users give
  MergeSources,   \* the databases merge-configs may be given
  MaxCommands     \* bound: how many commands are given

Ops == {"create", "destroy", "install", "remove", "update", "multiarch", "archive",
        "bind", "freeze", "set-default", "clear-default", "merge", "fix-integrity"}

\* One record for all commands; each reads the fields it knows.  on is --force,
\* --multiarch, a .deb file, enable or add; name an archive or a mount path.
\* Only create must be given an id.
AllCommands ==
  {cmd \in [op : Ops, cid : Cids \cup {None}, type : {"chroot", "lxc"}, on : BOOLEAN,
            pkgs : Seq(Packages), name : Archives \cup Mounts] :
     /\ cmd.op = "create" => cmd.cid # None
     /\ cmd.op = "archive" => cmd.name \in Archives
     /\ cmd.op = "bind" => cmd.name \in Mounts}

\* "busy": running, updating, installing packages, removing packages; "stopped"
\* may also be frozen.
Statuses == {"new", "installing", "ready", "stopped", "busy", "removing", "removed"}
ItemStatuses == {"new", "installing", "installed", "removing", "removed"}

Items(N) == [name : N, status : ItemStatuses]
Entries == [id : Cids, type : {"chroot", "lxc"}, status : Statuses, multiarch : BOOLEAN,
            freeze : BOOLEAN, apps : Seq(Items(Packages)), archives : Seq(Items(Archives)),
            mounts : Seq(Mounts)]

\* keys: "empty" is {}, "bare" a database without containerList.
Databases == [keys : {"empty", "bare", "full"}, list : Seq(Entries), default : Cids \cup {None}]

\* What libertine writes: the default container is listed, and no container,
\* package, archive or mount is listed twice.
NamedOnce(s) == \A x, y \in 1..Len(s) : s[x].name = s[y].name => x = y

SoundEntry(e) ==
  /\ NamedOnce(e.apps) /\ NamedOnce(e.archives)
  /\ \A x, y \in 1..Len(e.mounts) : e.mounts[x] = e.mounts[y] => x = y

Sound(d) ==
  /\ d.keys # "full" => d.list = <<>>
  /\ \A k, l \in 1..Len(d.list) : d.list[k].id = d.list[l].id => k = l
  /\ \A k \in 1..Len(d.list) : SoundEntry(d.list[k])
  /\ d.default # None => \E k \in 1..Len(d.list) : d.list[k].id = d.default

\* What may have gone wrong: a kill; an exception nobody catches; something that
\* is there and not listed, or gone and still listed, by a failure halfway; a
\* package file that was not installed; a container that did not come to rest; a
\* merge.
Upsets == {"kill", "traceback", "partial", "missing", "unrest", "merge"}

\* What is really there of a container.
Worlds == [root : {"none", "partial", "whole"}, foreign : BOOLEAN,
           pkgs : SUBSET Packages, archives : SUBSET Archives]

Nothing == [root |-> "none", foreign |-> FALSE, pkgs |-> {}, archives |-> {}]

ASSUME CommandsAssumption == Commands \subseteq AllCommands
ASSUME MergeAssumption ==
  MergeSources \subseteq Databases /\ \A src \in MergeSources : src.keys = "full" /\ Sound(src)
ASSUME NoneAssumption == None \notin Cids
ASSUME MaxCommandsAssumption == MaxCommands \in Nat

VARIABLES
  db,      \* ContainersConfig.json
  world,   \* the containers
  proc,    \* the command being executed
  upset,   \* history: what has gone wrong so far
  given    \* how many commands were given

vars == <<db, world, proc, upset, given>>

Labels == {"idle", "start", "checked", "added", "build", "building", "undo", "complete",
           "drop", "destroy", "open", "next", "apt", "work", "record",
           "fix", "fixapps", "fixarchives"}

\* todo: packages still to be seen to.  ok: how the backend work came out.
\* was: the status to fall back to.  i, j: where fix_integrity is in its lists.
Idle == [at |-> "idle", cmd |-> [op |-> "none"], cid |-> None, todo |-> <<>>,
         ok |-> FALSE, was |-> "none", i |-> 0, j |-> 0]

\* Every container in the database is at rest and complete.
Settled(d, w) ==
  \A c \in Cids :
    IF \E k \in 1..Len(d.list) : d.list[k].id = c
      THEN \E k \in 1..Len(d.list) :
             /\ d.list[k].id = c
             /\ d.list[k].status \in {"ready", "stopped"}
             /\ \A x \in 1..Len(d.list[k].apps) : d.list[k].apps[x].status = "installed"
             /\ \A x \in 1..Len(d.list[k].archives) : d.list[k].archives[x].status = "installed"
             /\ w[c].root = "whole"
             /\ w[c].pkgs = {d.list[k].apps[x].name : x \in 1..Len(d.list[k].apps)}
             /\ w[c].archives = {d.list[k].archives[x].name : x \in 1..Len(d.list[k].archives)}
             /\ d.list[k].multiarch => w[c].foreign
      ELSE w[c].root = "none"

Init ==
  /\ db = [keys |-> "empty", list |-> <<>>, default |-> None]
  /\ world = [c \in Cids |-> Nothing]
  /\ proc = Idle
  /\ upset = {}
  /\ given = 0

-----------------------------------------------------------------------------
(* ContainersConfig: lists searched from the front. *)

\* The first of the positions K, or 0.
FirstOf(K) == IF K = {} THEN 0 ELSE CHOOSE k \in K : \A l \in K : k <= l

\* list.remove at a known position
RemoveAt(s, k) == [l \in 1..(Len(s) - 1) |-> IF l < k THEN s[l] ELSE s[l + 1]]

At(d, c) == FirstOf({k \in 1..Len(d.list) : d.list[k].id = c})
container_exists(d, c) == At(d, c) # 0
Entry(d, c) == d.list[At(d, c)]
ItemAt(s, n) == FirstOf({k \in 1..Len(s) : s[k].name = n})
ItemStatus(s, n) == IF ItemAt(s, n) = 0 THEN "none" ELSE s[ItemAt(s, n)].status

\* _set_value_by_key on one entry, which becomes e
SetEntry(d, c, e) == [d EXCEPT !.list[At(d, c)] = e]

SetStatus(d, c, s) == SetEntry(d, c, [Entry(d, c) EXCEPT !.status = s])

\* _set_array_object_value_by_key, after appending the item when it is new
Mark(s, n, st) ==
  IF ItemAt(s, n) = 0 THEN Append(s, [name |-> n, status |-> st])
                      ELSE [s EXCEPT ![ItemAt(s, n)].status = st]

\* _delete_array_object_by_key_value
Unlist(s, n) == IF ItemAt(s, n) = 0 THEN s ELSE RemoveAt(s, ItemAt(s, n))

SetApps(d, c, s) == SetEntry(d, c, [Entry(d, c) EXCEPT !.apps = s])
SetArchives(d, c, s) == SetEntry(d, c, [Entry(d, c) EXCEPT !.archives = s])
Apps(c) == Entry(db, c).apps
ArchivesOf(c) == Entry(db, c).archives

\* add_new_container; the multiarch flag is a Boolean that create() compares
\* with "enable", so that it is always recorded as disabled
add_new_container(d, c, ty) ==
  [keys |-> "full",
   list |-> Append(d.list, [id |-> c, type |-> ty, status |-> "new", multiarch |-> FALSE,
                            freeze |-> FALSE, apps |-> <<>>, archives |-> <<>>, mounts |-> <<>>]),
   default |-> IF d.default = None THEN c ELSE d.default]

\* Slip: the default container stays.
KeepDefault(d, c) == [d EXCEPT !.list = RemoveAt(@, At(d, c))]

\* delete_container.  It raises KeyError, and writes nothing, when no default
\* container is set.
delete_container(d, c) ==
  LET rest == RemoveAt(d.list, At(d, c))
  IN  [d EXCEPT !.list = rest,
                !.default = IF @ = c /\ rest # <<>> THEN rest[1].id
                            ELSE IF rest = <<>> THEN None ELSE @]

\* The positions K, of those up to n, one after the other.
InOrder(K, n) ==
  CHOOSE t \in UNION {[1..m -> 1..n] : m \in 0..n} :
    /\ {t[x] : x \in DOMAIN t} = K
    /\ \A x, y \in DOMAIN t : x < y => t[x] < t[y]

\* merge_container_config_files: entries of the source replace ours, the rest
\* is appended; of the source's default container nothing is kept.
Merged(d, src) ==
  LET more == InOrder({k \in 1..Len(src.list) : ~container_exists(d, src.list[k].id)},
                      Len(src.list))
  IN  IF d.keys # "full" THEN src
      ELSE [d EXCEPT !.list =
              [k \in 1..Len(d.list) |-> IF container_exists(src, d.list[k].id)
                                          THEN Entry(src, d.list[k].id) ELSE d.list[k]]
              \o [x \in 1..Len(more) |-> src.list[more[x]]]]

-----------------------------------------------------------------------------
(* A command begins and ends. *)

Op == proc.cmd.op
Goto(l) == proc' = [proc EXCEPT !.at = l]
End == proc' = Idle

\* Something is unlisted although it may still be there.
LeftBehind(there) == IF there THEN upset \cup {"partial"} ELSE upset

\* An exception nobody catches.
Crash == End /\ upset' = upset \cup {"traceback"}

Give(cmd) ==
  /\ proc.at = "idle"
  /\ given < MaxCommands
  /\ given' = given + 1
  /\ proc' = [Idle EXCEPT !.at = "start", !.cmd = cmd, !.cid = cmd.cid, !.todo = cmd.pkgs]
  /\ UNCHANGED <<db, world, upset>>

Kill ==
  /\ proc.at # "idle"
  /\ End
  /\ upset' = upset \cup {"kill"}
  /\ UNCHANGED <<db, world, given>>

\* check_container_id
CheckContainerId ==
  /\ proc.at = "start"
  /\ Op \notin {"create", "clear-default", "merge", "fix-integrity"}
  /\ \/ /\ proc.cid # None /\ db.keys = "bare"
        /\ Crash
     \/ /\ IF proc.cid = None THEN db.default = None
                              ELSE db.keys # "bare" /\ ~container_exists(db, proc.cid)
        /\ End /\ UNCHANGED upset
     \/ /\ proc.cid # None => db.keys # "bare" /\ container_exists(db, proc.cid)
        /\ proc.cid = None => db.default # None
        /\ proc' = [proc EXCEPT !.at = "checked", !.cid = IF @ = None THEN db.default ELSE @]
        /\ UNCHANGED upset
  /\ UNCHANGED <<db, world, given>>

-----------------------------------------------------------------------------
(* create, destroy *)

Create ==
  /\ proc.at = "start" /\ Op = "create"
  /\ \/ /\ db.keys = "bare"
        /\ Crash /\ UNCHANGED db
     \/ /\ db.keys # "bare" /\ container_exists(db, proc.cid)
        /\ End /\ UNCHANGED <<db, upset>>
     \/ /\ db.keys # "bare" /\ ~container_exists(db, proc.cid)
        /\ db' = add_new_container(db, proc.cid, proc.cmd.type)
        /\ Goto("added") /\ UNCHANGED upset
  /\ UNCHANGED <<world, given>>

Installing ==
  /\ proc.at = "added"
  /\ db' = SetStatus(db, proc.cid, "installing")
  /\ Goto("build")
  /\ UNCHANGED <<world, upset, given>>

TypeOf(c) == Entry(db, c).type

\* create_libertine_container begins.  That of lxc may answer False with
\* nothing created.
Build ==
  /\ proc.at = "build"
  /\ \/ /\ world' = [world EXCEPT ![proc.cid].root = "partial"]
        /\ Goto("building")
     \/ /\ TypeOf(proc.cid) = "lxc"
        /\ Goto("drop") /\ UNCHANGED world
  /\ UNCHANGED <<db, upset, given>>

\* It ends.  A container that cannot be set up is destroyed by a call that
\* lacks its argument: TypeError, which create() answers by destroying it.
Built ==
  /\ proc.at = "building"
  /\ \/ /\ world' = [world EXCEPT ![proc.cid].root = "whole", ![proc.cid].foreign = proc.cmd.on]
        /\ Goto("complete")
     \/ Goto("undo") /\ UNCHANGED world
  /\ UNCHANGED <<db, upset, given>>

\* Slip: the status of a package.
CompleteInstalled ==
  /\ proc.at = "complete"
  /\ db' = SetStatus(db, proc.cid, "installed")
  /\ End
  /\ UNCHANGED <<world, upset, given>>

Complete ==
  /\ proc.at = "complete"
  /\ db' = SetStatus(db, proc.cid, "ready")
  /\ End
  /\ UNCHANGED <<world, upset, given>>

\* Slip: what was built is left there.
NotUndone ==
  /\ proc.at = "undo" /\ Goto("drop")
  /\ UNCHANGED <<db, world, upset, given>>

\* destroy_libertine_container(force=True); the answer is not looked at.
Undo ==
  /\ proc.at = "undo"
  /\ \/ world' = [world EXCEPT ![proc.cid] = Nothing] /\ UNCHANGED upset
     \/ upset' = upset \cup {"partial"} /\ UNCHANGED world
  /\ Goto("drop")
  /\ UNCHANGED <<db, given>>

\* delete_container, the last thing of destroy and of a failed create.
Drop ==
  /\ proc.at = "drop"
  /\ IF db.default = None
       THEN Crash /\ UNCHANGED db
       ELSE End /\ db' = delete_container(db, proc.cid) /\ UNCHANGED upset
  /\ UNCHANGED <<world, given>>

DestroyContainer ==
  /\ proc.at = "checked" /\ Op = "destroy"
  /\ db' = SetStatus(db, proc.cid, "removing")
  /\ proc' = [proc EXCEPT !.at = "destroy", !.was = Entry(db, proc.cid).status]
  /\ UNCHANGED <<world, upset, given>>

\* destroy_libertine_container.  lxc refuses a container that is not there, one
\* that runs unless forced, and one that does not stop, and does not look at
\* what destroy() answers; removing the files of a chroot may fail halfway.
Destroy ==
  /\ proc.at = "destroy"
  /\ LET lxc == TypeOf(proc.cid) = "lxc"
         there == world[proc.cid].root # "none"
     IN  \/ /\ lxc => there
            /\ world' = [world EXCEPT ![proc.cid] = Nothing]
            /\ db' = SetStatus(db, proc.cid, "removed")
            /\ Goto("drop") /\ UNCHANGED upset
         \/ /\ lxc /\ there
            /\ db' = SetStatus(db, proc.cid, "removed")
            /\ Goto("drop") /\ upset' = upset \cup {"partial"}
            /\ UNCHANGED world
         \/ /\ lxc
            /\ db' = SetStatus(db, proc.cid, proc.was)
            /\ End /\ UNCHANGED <<world, upset>>
         \/ /\ ~lxc /\ there
            /\ world' = [world EXCEPT ![proc.cid].root = "partial"]
            /\ db' = SetStatus(db, proc.cid, proc.was)
            /\ End /\ upset' = upset \cup {"partial"}
  /\ UNCHANGED given

-----------------------------------------------------------------------------
(* Commands that work in a running container. *)

\* There is something to run commands in.
There == world[proc.cid].root # "none"

\* stop_container.  The status of lxc stays as it was when somebody else uses
\* the container too, and is that of a running one when it does not stop.
Stopped(d, c) == SetStatus(d, c, IF Entry(d, c).type = "lxc" THEN "stopped" ELSE "ready")
Unrests(c) == {{}} \cup (IF Entry(db, c).type = "lxc" THEN {{"unrest"}} ELSE {})
Ended(d, c, bad) == IF bad = {} THEN Stopped(d, c) ELSE SetStatus(d, c, "busy")

\* The same when start_container may have failed: it writes the state the
\* container is in, or nothing when the service refuses.
Tried(d, c, bad) ==
  {Ended(d, c, bad)} \cup (IF Entry(d, c).type = "lxc" /\ bad = {} THEN {d} ELSE {})

\* What an inner session leaves while the outer one is on.
Nested(d, c) == SetStatus(d, c, IF Entry(d, c).type = "lxc" THEN "busy" ELSE "ready")

\* with ContainerRunning: an lxc container may fail to start.  install_package
\* and remove_package do not catch the RuntimeError, the others answer False.
Open ==
  /\ \/ proc.at = "checked" /\ Op \in {"install", "remove", "update"}
     \/ proc.at = "open"
  /\ \/ /\ TypeOf(proc.cid) = "lxc" => There
        /\ db' = SetStatus(db, proc.cid, "busy")
        /\ Goto(IF Op \in {"install", "remove"} THEN "next" ELSE "work")
        /\ UNCHANGED upset
     \/ /\ TypeOf(proc.cid) = "lxc"
        /\ proc' = IF Op = "archive" THEN [proc EXCEPT !.at = "record", !.ok = FALSE] ELSE Idle
        /\ \E bad \in Unrests(proc.cid) :
             /\ db' \in Tried(db, proc.cid, bad)
             /\ upset' = upset \cup bad
                           \cup (IF Op \in {"install", "remove"} THEN {"traceback"} ELSE {})
  /\ UNCHANGED <<world, given>>

Pkg == proc.todo[1]
Done == [proc EXCEPT !.at = "next", !.todo = Tail(@)]

\* Slip: the package is listed once it is installed.
Unmarked(s, n) == s

Marked(s, n) == Mark(s, n, IF Op = "install" THEN "installing" ELSE "removing")

\* The loop over args.package: a package that is listed is not installed
\* again, unless it comes in a file; one that is not installed not removed.
NextPackage ==
  /\ proc.at = "next" /\ proc.todo # <<>>
  /\ LET st == ItemStatus(Apps(proc.cid), Pkg)
         go == IF Op = "install" THEN st = "none" \/ proc.cmd.on ELSE st = "installed"
     IN  IF go
           THEN /\ db' = SetApps(db, proc.cid, Marked(Apps(proc.cid), Pkg))
                /\ proc' = [proc EXCEPT !.at = "apt", !.was = st]
           ELSE proc' = Done /\ UNCHANGED db
  /\ UNCHANGED <<world, upset, given>>

\* LibertineContainer.install_package, remove_package.  Removing fails halfway
\* when purge works and autoremove does not; installing when dpkg -i works and
\* install -f does not, or, in a chroot, ldconfig raises afterwards.  Whether
\* dpkg -i worked is not looked at.
Apt ==
  /\ proc.at = "apt"
  /\ LET there == world[proc.cid].pkgs
         after == IF Op = "install" THEN there \cup {Pkg} ELSE there \ {Pkg}
     IN  \/ /\ There
            /\ world' = [world EXCEPT ![proc.cid].pkgs = after]
            /\ proc' = [proc EXCEPT !.at = "record", !.ok = TRUE]
            /\ UNCHANGED upset
         \/ /\ proc' = [proc EXCEPT !.at = "record", !.ok = FALSE]
            /\ UNCHANGED <<world, upset>>
         \/ /\ There
            /\ Op = "remove" \/ proc.cmd.on \/ TypeOf(proc.cid) = "chroot"
            /\ world' = [world EXCEPT ![proc.cid].pkgs = after]
            /\ proc' = [proc EXCEPT !.at = "record", !.ok = FALSE]
            /\ upset' = upset \cup {"partial"}
         \/ /\ There /\ Op = "install" /\ proc.cmd.on /\ Pkg \notin there
            /\ proc' = [proc EXCEPT !.at = "record", !.ok = TRUE]
            /\ upset' = upset \cup {"missing"}
            /\ UNCHANGED world
  /\ db' = Nested(db, proc.cid)
  /\ UNCHANGED given

\* What install_package and remove_package_by_name write when it is over.
\* A file that fails to install over a listed package unlists it.
RecordPackage ==
  /\ proc.at = "record" /\ Op \in {"install", "remove"}
  /\ db' = SetApps(db, proc.cid,
             IF (Op = "install") = proc.ok THEN Mark(Apps(proc.cid), Pkg, "installed")
                                           ELSE Unlist(Apps(proc.cid), Pkg))
  /\ upset' = LeftBehind(Op = "install" /\ ~proc.ok /\ Pkg \in world[proc.cid].pkgs)
  /\ proc' = Done
  /\ UNCHANGED <<world, given>>

CloseSession ==
  /\ proc.at = "next" /\ proc.todo = <<>>
  /\ \E bad \in Unrests(proc.cid) :
       db' = Ended(db, proc.cid, bad) /\ upset' = upset \cup bad
  /\ End
  /\ UNCHANGED <<world, given>>

\* update: whatever comes out is only the exit status.
Update ==
  /\ proc.at = "work" /\ Op = "update"
  /\ \E bad \in Unrests(proc.cid) :
       db' = Ended(db, proc.cid, bad) /\ upset' = upset \cup bad
  /\ End
  /\ UNCHANGED <<world, given>>

-----------------------------------------------------------------------------
(* configure *)

\* --multiarch: nothing to do when the database says so already.
ConfigureMultiarch ==
  /\ proc.at = "checked" /\ Op = "multiarch"
  /\ IF Entry(db, proc.cid).multiarch = proc.cmd.on THEN End ELSE Goto("open")
  /\ UNCHANGED <<db, world, upset, given>>

\* configure_multiarch is given the word "enable" or "disable", and either
\* counts as true: the architecture is added.
WorkMultiarch ==
  /\ proc.at = "work" /\ Op = "multiarch"
  /\ \/ /\ There
        /\ world' = [world EXCEPT ![proc.cid].foreign = TRUE]
        /\ Goto("record")
     \/ End /\ UNCHANGED world
  /\ \E bad \in Unrests(proc.cid) :
       db' = Ended(db, proc.cid, bad) /\ upset' = upset \cup bad
  /\ UNCHANGED given

RecordMultiarch ==
  /\ proc.at = "record" /\ Op = "multiarch"
  /\ db' = SetEntry(db, proc.cid, [Entry(db, proc.cid) EXCEPT !.multiarch = proc.cmd.on])
  /\ End
  /\ UNCHANGED <<world, upset, given>>

\* --archive: add what is not listed, remove what is; one that is listed but
\* not installed is unlisted and no more.
ConfigureArchive ==
  /\ proc.at = "checked" /\ Op = "archive"
  /\ LET st == ItemStatus(ArchivesOf(proc.cid), proc.cmd.name)
     IN  \/ /\ (st = "none") # proc.cmd.on
            /\ End /\ UNCHANGED <<db, upset>>
         \/ /\ IF proc.cmd.on THEN st = "none" ELSE st = "installed"
            /\ db' = SetArchives(db, proc.cid,
                       Mark(ArchivesOf(proc.cid), proc.cmd.name,
                            IF proc.cmd.on THEN "installing" ELSE "removing"))
            /\ Goto("open") /\ UNCHANGED upset
         \/ /\ ~proc.cmd.on /\ st \notin {"none", "installed"}
            /\ db' = SetArchives(db, proc.cid, Unlist(ArchivesOf(proc.cid), proc.cmd.name))
            /\ upset' = LeftBehind(proc.cmd.name \in world[proc.cid].archives)
            /\ End
  /\ UNCHANGED <<world, given>>

\* configure_add_archive fails halfway when the key is not accepted.
WorkArchive ==
  /\ proc.at = "work" /\ Op = "archive"
  /\ LET there == world[proc.cid].archives
         after == IF proc.cmd.on THEN there \cup {proc.cmd.name} ELSE there \ {proc.cmd.name}
     IN  \E bad \in Unrests(proc.cid) :
           /\ db' = Ended(db, proc.cid, bad)
           /\ \/ /\ There
                 /\ world' = [world EXCEPT ![proc.cid].archives = after]
                 /\ proc' = [proc EXCEPT !.at = "record", !.ok = TRUE]
                 /\ upset' = upset \cup bad
              \/ /\ proc' = [proc EXCEPT !.at = "record", !.ok = FALSE]
                 /\ upset' = upset \cup bad
                 /\ UNCHANGED world
              \/ /\ There /\ proc.cmd.on
                 /\ world' = [world EXCEPT ![proc.cid].archives = after]
                 /\ proc' = [proc EXCEPT !.at = "record", !.ok = FALSE]
                 /\ upset' = upset \cup bad \cup {"partial"}
  /\ UNCHANGED given

RecordArchive ==
  /\ proc.at = "record" /\ Op = "archive"
  /\ db' = SetArchives(db, proc.cid,
             IF proc.cmd.on = proc.ok THEN Mark(ArchivesOf(proc.cid), proc.cmd.name, "installed")
                                      ELSE Unlist(ArchivesOf(proc.cid), proc.cmd.name))
  /\ End
  /\ UNCHANGED <<world, upset, given>>

\* --bind-mount: the path may be refused; add what is not listed, remove what is.
ConfigureBindMount ==
  /\ proc.at = "checked" /\ Op = "bind"
  /\ LET e == Entry(db, proc.cid)
         K == {k \in 1..Len(e.mounts) : e.mounts[k] = proc.cmd.name}
     IN  db' \in {db} \cup
           (IF proc.cmd.on /\ K = {}
              THEN {SetEntry(db, proc.cid, [e EXCEPT !.mounts = Append(@, proc.cmd.name)])}
            ELSE IF ~proc.cmd.on /\ K # {}
              THEN {SetEntry(db, proc.cid, [e EXCEPT !.mounts = RemoveAt(@, FirstOf(K))])}
            ELSE {})
  /\ End
  /\ UNCHANGED <<world, upset, given>>

\* --freeze, for lxc only
ConfigureFreeze ==
  /\ proc.at = "checked" /\ Op = "freeze"
  /\ db' = IF TypeOf(proc.cid) = "lxc"
             THEN SetEntry(db, proc.cid, [Entry(db, proc.cid) EXCEPT !.freeze = proc.cmd.on])
             ELSE db
  /\ End
  /\ UNCHANGED <<world, upset, given>>

-----------------------------------------------------------------------------
(* The database as a whole. *)

SetDefault ==
  /\ proc.at = "checked" /\ Op = "set-default"
  /\ db' = [db EXCEPT !.default = proc.cid]
  /\ End
  /\ UNCHANGED <<world, upset, given>>

\* set-default --clear.  Writing leaves a comment in an empty database, which
\* is then no longer empty, but has no containerList either.
ClearDefault ==
  /\ proc.at = "start" /\ Op = "clear-default"
  /\ db' = [db EXCEPT !.default = None, !.keys = IF @ = "full" THEN @ ELSE "bare"]
  /\ End
  /\ UNCHANGED <<world, upset, given>>

\* merge-configs.  The source may say what is not so.
Merge ==
  /\ proc.at = "start" /\ Op = "merge"
  /\ \E src \in MergeSources : db' = Merged(db, src)
  /\ upset' = upset \cup {"merge"}
  /\ End
  /\ UNCHANGED <<world, given>>

FixIntegrity ==
  /\ proc.at = "start" /\ Op = "fix-integrity"
  /\ IF db.keys = "full" THEN proc' = [proc EXCEPT !.at = "fix", !.i = 1] ELSE End
  /\ UNCHANGED <<db, world, upset, given>>

\* for container in containerList.  destroy_container is called without its
\* argument force: TypeError.  Any other container is started and stopped to
\* run dpkg in it, which leaves even an unfinished chroot 'ready'.
FixContainer ==
  /\ proc.at = "fix"
  /\ IF proc.i > Len(db.list)
       THEN End /\ UNCHANGED <<db, upset>>
       ELSE LET c == db.list[proc.i].id
            IN  IF Entry(db, c).status = "removing"
                  THEN Crash /\ UNCHANGED db
                  ELSE /\ \E bad \in Unrests(c) :
                            db' \in Tried(db, c, bad) /\ upset' = upset \cup bad
                       /\ proc' = [proc EXCEPT !.at = "fixapps", !.cid = c, !.j = 1]
  /\ UNCHANGED <<world, given>>

\* Slip: the loop does not go on.
SameItem(x) == {proc.j}

\* for package in installedApps, and for archive in extraArchives: the loop
\* counts on, and so misses the one that follows what it deletes; unless the
\* list was read anew, for lxc, since it began, and it goes through the old one.
NextItem(x) ==
  {proc.j + 1} \cup
    (IF x.status # "installed" /\ TypeOf(proc.cid) = "lxc" THEN {proc.j} ELSE {})

\* remove_package_by_name: what is not installed is unlisted, whether or not
\* its removal succeeds.
FixApp ==
  /\ proc.at = "fixapps"
  /\ IF proc.j > Len(Apps(proc.cid))
       THEN /\ proc' = [proc EXCEPT !.at = "fixarchives", !.j = 1]
            /\ UNCHANGED <<db, world, upset>>
       ELSE LET x == Apps(proc.cid)[proc.j]
                unlisted == SetApps(db, proc.cid, Unlist(Apps(proc.cid), x.name))
            IN  /\ \E n \in NextItem(x) : proc' = [proc EXCEPT !.j = n]
                /\ \/ /\ x.status = "installed"
                      /\ UNCHANGED <<db, world, upset>>
                   \/ /\ x.status # "installed"
                      /\ \E bad \in Unrests(proc.cid) :
                           db' = Ended(unlisted, proc.cid, bad) /\ upset' = upset \cup bad
                      /\ world' = [world EXCEPT ![proc.cid].pkgs = @ \ {x.name}]
                   \/ /\ x.status # "installed"
                      /\ \E bad \in Unrests(proc.cid) :
                           /\ db' \in Tried(unlisted, proc.cid, bad)
                           /\ upset' = LeftBehind(x.name \in world[proc.cid].pkgs) \cup bad
                      /\ UNCHANGED world
  /\ UNCHANGED given

\* delete_archive_by_name of what is not installed
FixArchive ==
  /\ proc.at = "fixarchives"
  /\ IF proc.j > Len(ArchivesOf(proc.cid))
       THEN /\ proc' = [proc EXCEPT !.at = "fix", !.i = @ + 1]
            /\ UNCHANGED <<db, upset>>
       ELSE LET x == ArchivesOf(proc.cid)[proc.j]
            IN  /\ \E n \in NextItem(x) : proc' = [proc EXCEPT !.j = n]
                /\ IF x.status = "installed" THEN UNCHANGED <<db, upset>>
                   ELSE /\ db' = SetArchives(db, proc.cid, Unlist(ArchivesOf(proc.cid), x.name))
                        /\ upset' = LeftBehind(x.name \in world[proc.cid].archives)
  /\ UNCHANGED <<world, given>>

-----------------------------------------------------------------------------
CommandStep ==
  \/ CheckContainerId
  \/ Create \/ Installing \/ Build \/ Built \/ Undo \/ Complete \/ Drop
  \/ DestroyContainer \/ Destroy
  \/ Open \/ NextPackage \/ Apt \/ RecordPackage \/ CloseSession \/ Update
  \/ ConfigureMultiarch \/ WorkMultiarch \/ RecordMultiarch
  \/ ConfigureArchive \/ WorkArchive \/ RecordArchive
  \/ ConfigureBindMount \/ ConfigureFreeze
  \/ SetDefault \/ ClearDefault \/ Merge
  \/ FixIntegrity \/ FixContainer \/ FixApp \/ FixArchive

Finished == proc.at = "idle" /\ given = MaxCommands /\ UNCHANGED vars

Next == (\E cmd \in Commands : Give(cmd)) \/ CommandStep \/ Kill \/ Finished

Spec == Init /\ [][Next]_vars

\* A command that runs goes on: the backend programs it waits for end.
FairSpec == Spec /\ WF_vars(CommandStep)

-----------------------------------------------------------------------------
(* Properties. *)

TypeOK ==
  /\ db \in Databases
  /\ world \in [Cids -> Worlds]
  /\ proc \in [at : Labels, cmd : AllCommands \cup {Idle.cmd}, cid : Cids \cup {None},
               todo : Seq(Packages), ok : BOOLEAN,
               was : Statuses \cup ItemStatuses \cup {"none"}, i : Nat, j : Nat]
  /\ upset \subseteq Upsets
  /\ given \in 0..MaxCommands

\* What get_default_container_id answers is a container of the database,
\* whatever was created, destroyed, merged, killed or cleared.
DefaultListed ==
  db.default # None => \E k \in 1..Len(db.list) : db.list[k].id = db.default

\* Between two commands the database and the containers agree: everything
\* listed is at rest, complete and really there, and nothing else is there.
\* (Unless a command was killed or raised, or failed halfway, or a package file
\* was not installed and nobody looked, or a container did not stop, or another
\* database was merged in.)
Consistent == proc.at = "idle" /\ upset = {} => Settled(db, world)

\* Write-ahead: a kill at any moment leaves no container, package or archive
\* behind that the database does not list, so that there is always something
\* to repair it from.  (Unless a backend program failed halfway or nobody looked
\* at its answer, or another database was merged in.)
NothingUnlisted ==
  upset \cap {"partial", "missing", "merge"} = {} =>
    \A c \in Cids :
      /\ world[c].root # "none" => container_exists(db, c)
      /\ container_exists(db, c) =>
           /\ \A p \in world[c].pkgs : ItemAt(Apps(c), p) # 0
           /\ \A a \in world[c].archives : ItemAt(ArchivesOf(c), a) # 0

\* Nor does the database ever call a package installed that is not there, as
\* long as the container itself is.
InstalledIsThere ==
  upset \cap {"partial", "missing", "merge"} = {} =>
    \A c \in Cids : container_exists(db, c) /\ world[c].root # "none" =>
      \A x \in 1..Len(Apps(c)) :
        Apps(c)[x].status = "installed" => Apps(c)[x].name \in world[c].pkgs

\* Both ways the database can be trusted after a kill at any step.
WriteAhead == NothingUnlisted /\ InstalledIsThere

\* Every command comes to its end; fix-integrity too, which deletes from the
\* lists it goes through.
CommandsEnd == proc.at # "idle" ~> proc.at = "idle"
=============================================================================
