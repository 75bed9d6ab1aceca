----------------------------- MODULE BindMounts -----------------------------
(***************************************************************************)
(* The directories of the host that one container shows: those that the    *)
(* user added with "configure --bind-mount" (bindMounts in the database)   *)
(* and those xdg-user-dir prints.  What is shown is computed when an       *)
(* application is launched (chroot), when a stopped container is started   *)
(* (lxc, lxd) and when its packages are updated (lxd); a frozen container  *)
(* keeps what it has.                                                      *)
(*                                                                         *)
(* A session (a launched application, or work on packages) reads the       *)
(* database once, writes all of it from memory whenever it changes the     *)
(* status of the container, and reads it again where the code refreshes it *)
(* and the checksum is another.  Commands of the user come at any time; a  *)
(* command reads and writes in one step.                                   *)
(*                                                                         *)
(* A path is a value with two relations: whose name it begins with         *)
(* (str.startswith) and in which directories it lies.  One session uses    *)
(* the container at a time (ContainerControl is about sharing it).         *)
(***************************************************************************)
EXTENDS Naturals, Sequences, FiniteSets, SequencesExt

CONSTANTS
  Paths,         \* directories of the host
  Prefix,        \* <<p, q>>: the name of p begins with that of q
  Under,         \* <<p, q>>: p is q or lies in it
  Xdg,           \* what xdg-user-dir prints, in the order it is asked
  Addable,       \* the paths the user may add
  Media,         \* paths below /media
  Spaced,        \* paths with a blank or a quote in their names
  Fleeting,      \* directories that come and go
  Kinds,         \* the types the container may have
  Absent,        \* there is no bindMounts in the entry
  MaxCommands,   \* bound: commands the user gives
  MaxStarts      \* bound: sessions

ASSUME PathsAssumption == Xdg \in Seq(Paths) /\ Addable \subseteq Paths
ASSUME PrefixAssumption ==
  /\ {<<p, p>> : p \in Paths} \subseteq Under
  /\ Under \subseteq Prefix /\ Prefix \subseteq Paths \X Paths
  /\ \A p, q, r \in Paths : <<p, q>> \in Prefix /\ <<q, r>> \in Prefix => <<p, r>> \in Prefix
  /\ \A p, q \in Paths : <<p, q>> \in Prefix /\ <<q, p>> \in Prefix => p = q
ASSUME KindsAssumption == Kinds \subseteq {"chroot", "lxc", "lxd"}
ASSUME AbsentAssumption == Absent \notin Seq(Paths)
ASSUME BoundsAssumption == MaxCommands \in Nat /\ MaxStarts \in Nat

VARIABLES
  kind,           \* the type of the container
  file,           \* its entry in the database file
  mem, sum,       \* the entry in the memory of the session, and that of the checksum
  freezes,        \* _freeze_on_stop of the session
  power, at,      \* the state of the container, and how far its session is
  remount,        \* it was stopped when the session looked
  dirs,           \* the directories that exist
  bound,          \* the mounts of the container
  wanted,         \* history: what the user added and did not remove
  changed,        \* history: what he added or removed since the session read
  lost,           \* history: what he added or removed that was written over
  asked, vague,   \* history: wanted, and changed or lost, when the mounts were made
  due,            \* history: what was wanted and was there
  dropped,        \* history: restarted without its mounts
  commands, starts

mounts == <<bound, asked, vague, due, dropped>>
vars == <<kind, file, mem, sum, freezes, power, at, remount, dirs, mounts, wanted, changed, lost,
          commands, starts>>

Lists == Seq(Paths) \cup {Absent}
Statuses == {"ready", "starting", "running", "working", "stopping", "stopped", "frozen"}
Entries == [mounts : Lists, freeze : BOOLEAN, status : Statuses]

New == [mounts |-> Absent, freeze |-> FALSE, status |-> "ready"]

\* get_container_bind_mounts
Live(l) == IF l = Absent THEN <<>> ELSE l

Init ==
  /\ kind \in Kinds
  /\ file = New /\ mem = New /\ sum = New
  /\ freezes = FALSE
  /\ power = "stopped" /\ at = "idle" /\ remount = FALSE
  /\ dirs = Paths
  /\ bound = {}
  /\ wanted = {} /\ changed = {} /\ lost = {}
  /\ asked = {} /\ vague = {} /\ due = {} /\ dropped = FALSE
  /\ commands = 0 /\ starts = 0

-----------------------------------------------------------------------------
(* generate_binding_directories *)

\* How many of the listed directories the name begins with, itself included.
Matches(p, l) == Cardinality({k \in 1..Len(l) : <<p, l[k]>> \in Prefix})

\* Slip: a directory counts as a subset of itself.
NotEvenItself(l) == {p \in Range(l) : Matches(p, l) < 1}

\* What is "subset of other dir" is left out, and so is what is listed twice.
BindingDirectories(l) == {p \in Range(l) : Matches(p, l) <= 1}

\* What is looked at when the mounts are made; lxc looks when it starts.
There == IF kind = "lxc" THEN Paths ELSE dirs

\* A chroot quotes names that it has escaped already, so they name nothing;
\* what does not exist is not mounted.
Mounted(l) ==
  {p \in BindingDirectories(l) : p \in There /\ (kind = "chroot" => p \notin Spaced)}

Devices(l) == bound' = Mounted(l)

Expected(W) == W \cup Range(Xdg)

\* The mounts are made for the list l, when the user's changes U are unknown.
Make(l, U) ==
  /\ Devices(l)
  /\ asked' = wanted /\ vague' = U
  /\ due' = Expected(wanted \ U) \cap There
  /\ dropped' = FALSE

-----------------------------------------------------------------------------
(* The database of the session. *)

\* Slip: nothing is read again.
Remembered == mem

\* refresh_database: only another checksum makes it read the file.
Refreshed == IF file # sum THEN file ELSE mem

Refresh == mem' = Refreshed /\ sum' = file /\ changed' = {}

\* update_container_install_status: all of the database is written, unless it
\* is the status it has.
Save(status) ==
  /\ mem' = [mem EXCEPT !.status = status]
  /\ IF mem.status = status THEN UNCHANGED <<file, lost>>
                            ELSE file' = mem' /\ lost' = lost \cup changed

\* It goes on without the database.
Untouched == UNCHANGED <<file, mem, sum, changed, lost>>

-----------------------------------------------------------------------------
(* A session. *)

Move(from, to) == at = from /\ at' = to
Fixed == UNCHANGED <<kind, dirs, wanted, commands, starts>>
Frame == Fixed /\ UNCHANGED <<sum, changed, freezes, remount>>

\* A process is started, or the service begins a task.
OpenSession ==
  /\ Move("idle", "opened") /\ starts < MaxStarts
  /\ starts' = starts + 1
  /\ mem' = file /\ sum' = file /\ changed' = {}
  /\ freezes' = file.freeze
  /\ UNCHANGED <<kind, file, power, remount, dirs, mounts, wanted, lost, commands>>

\* A launched chroot application; it reads the database anew.
StartChroot ==
  /\ kind = "chroot" /\ Move("opened", "app")
  /\ Make(Xdg \o Live(file.mounts), lost)
  /\ power' = "running"
  /\ Untouched /\ Fixed /\ UNCHANGED <<freezes, remount>>

\* Other commands in a chroot get no mounts.
WorkInChroot ==
  /\ kind = "chroot" /\ Move("opened", "work")
  /\ Save("running")
  /\ Frame /\ UNCHANGED <<power, mounts>>

\* start_container of a container that runs
FindRunning ==
  /\ kind # "chroot" /\ power = "running"
  /\ at = "opened" /\ at' \in {"app", "work"}
  /\ Untouched /\ Fixed /\ UNCHANGED <<freezes, remount, power, mounts>>

FindFrozen ==
  /\ kind # "chroot" /\ power = "frozen" /\ Move("opened", "start")
  /\ remount' = FALSE
  /\ Untouched /\ Fixed /\ UNCHANGED <<freezes, power, mounts>>

\* start_container of lxc: _dynamic_bind_mounts
StartLxc ==
  /\ kind = "lxc" /\ power = "stopped" /\ Move("opened", "start")
  /\ remount' = TRUE
  /\ Refresh
  /\ Make(Xdg \o Live(Refreshed.mounts), lost)
  /\ Fixed /\ UNCHANGED <<file, lost, freezes, power>>

\* update_bind_mounts of lxd extends the list that the configuration holds.
Extended(l) == IF l = Absent THEN Absent ELSE l \o Xdg

\* Saving the devices may raise, which is only logged.
UpdateBindMounts ==
  /\ \/ Make(Live(mem.mounts) \o Xdg, lost \cup changed)
     \/ UNCHANGED mounts
  /\ mem' = [mem EXCEPT !.mounts = Extended(@)]

\* start_container of lxd
StartLxd ==
  /\ kind = "lxd" /\ power = "stopped" /\ Move("opened", "start")
  /\ remount' = TRUE
  /\ UpdateBindMounts
  /\ Fixed /\ UNCHANGED <<file, sum, changed, lost, freezes, power>>

AnnounceStart ==
  /\ Move("start", "starting")
  /\ Save("starting")
  /\ Frame /\ UNCHANGED <<power, mounts>>

\* A mount that is not there any more is optional.
Remount ==
  /\ bound' = bound \cap dirs /\ due' = due \cap dirs
  /\ UNCHANGED <<asked, vague, dropped>>

\* The container starts or thaws; lxd does not thaw what somebody has stopped
\* or restarted meanwhile, lxc starts it.
Started ==
  /\ at = "starting" /\ at' \in {"app", "work"}
  /\ kind = "lxd" => remount \/ power = "frozen"
  /\ power' = "running"
  /\ IF remount THEN Remount ELSE UNCHANGED mounts
  /\ Save("running")
  /\ Frame

\* Nobody is there to stop it.  With lxd, an exception ends the session.
StartFails ==
  /\ Move("starting", "idle")
  /\ IF kind = "lxd" THEN UNCHANGED <<file, mem, lost, power>>
                     ELSE power' \in {power, "stopped"} /\ Save(power')
  /\ Frame /\ UNCHANGED mounts

\* "updating", "installing packages" or "removing packages"
BeginWork ==
  /\ Move("work", "working")
  /\ Save("working")
  /\ Frame /\ UNCHANGED <<power, mounts>>

\* update_packages; that of lxd updates the mounts, too.
UpdatePackages ==
  /\ Move("working", "worked")
  /\ IF kind = "lxd" THEN UpdateBindMounts ELSE UNCHANGED <<mem, mounts>>
  /\ Frame /\ UNCHANGED <<file, lost, power>>

\* The end of install_package and remove_package.
FinishPackages ==
  /\ Move("working", "worked")
  /\ Save("running")
  /\ Frame /\ UNCHANGED <<power, mounts>>

\* A chroot application ends without a word.
StopChroot ==
  /\ kind = "chroot" /\ at \in {"app", "worked"} /\ at' = "idle"
  /\ IF at = "worked" THEN Save("ready") ELSE UNCHANGED <<file, mem, lost>>
  /\ power' = "stopped"
  /\ Frame /\ UNCHANGED mounts

\* stop_container begins with refresh_database.
StopContainer ==
  /\ kind # "chroot" /\ at \in {"app", "worked"} /\ at' = "stop"
  /\ Refresh
  /\ Fixed /\ UNCHANGED <<file, lost, freezes, remount, power, mounts>>

AnnounceStop ==
  /\ Move("stop", "stopping")
  /\ Save("stopping")
  /\ Frame /\ UNCHANGED <<power, mounts>>

\* Slip: the word for what is going on, instead of what has come of it.
Doing(freeze) == IF freeze THEN "freezing" ELSE "stopped"

Rested(freeze) == IF freeze THEN "frozen" ELSE "stopped"

\* It may not stop; lxd may raise an exception.
Stopped ==
  /\ Move("stopping", "idle")
  /\ power' \in {Rested(freezes), power}
  /\ Save(power') \/ (kind = "lxd" /\ UNCHANGED <<file, mem, lost>>)
  /\ Frame /\ UNCHANGED mounts

-----------------------------------------------------------------------------
(* Commands, and the host. *)

Command ==
  /\ commands < MaxCommands
  /\ commands' = commands + 1
  /\ UNCHANGED <<kind, mem, sum, freezes, at, remount, dirs, starts>>

\* restart_container stops, starts and stops or freezes a frozen container,
\* unless one of these fails.  The mounts of lxc were in the memory of the
\* process that started it; nobody asks lxd for new ones.
Restart ==
  IF power = "frozen"
    THEN \/ /\ power' \in {"stopped", "running", Rested(file.freeze)}
            /\ IF kind = "lxc" THEN bound' = {} /\ dropped' = TRUE /\ UNCHANGED <<asked, vague, due>>
                               ELSE Remount
         \/ UNCHANGED <<power, mounts>>
    ELSE UNCHANGED <<power, mounts>>

\* configure ends with a restart, for lxd only if it freezes.
Configured ==
  IF kind = "lxc" \/ (kind = "lxd" /\ file.freeze) THEN Restart ELSE UNCHANGED <<power, mounts>>

\* The path is below the home directory or /media, and exists.
Acceptable(m) == m \in dirs /\ ~(kind = "lxc" /\ m \in Media)

\* The user's change of m is in the database; a session has yet to learn of it.
Noted(m) == changed' = changed \cup {m} /\ lost' = lost \ {m}

AddMount(m) ==
  /\ Command
  /\ Acceptable(m) /\ m \notin Range(Live(file.mounts))
  /\ file' = [file EXCEPT !.mounts = Append(Live(@), m)]
  /\ wanted' = wanted \cup {m}
  /\ Noted(m)
  /\ Configured

\* list.remove: the first occurrence
Removed(l, m) == RemoveFirst(l, m)

RemoveMount(m) ==
  /\ Command
  /\ Acceptable(m) /\ m \in Range(Live(file.mounts))
  /\ file' = [file EXCEPT !.mounts = Removed(@, m)]
  /\ wanted' = wanted \ {m}
  /\ Noted(m)
  /\ Configured

\* configure --freeze
SetFreeze ==
  /\ Command /\ kind # "chroot"
  /\ file' = [file EXCEPT !.freeze = ~@]
  /\ UNCHANGED <<power, mounts, wanted, changed, lost>>

RestartCommand ==
  /\ Command /\ kind # "chroot"
  /\ Restart
  /\ UNCHANGED <<file, wanted, changed, lost>>

\* Another process, which finds the container running, is done with its packages.
WorkElsewhere ==
  /\ Command /\ power = "running" /\ file.status # "running"
  /\ file' = [file EXCEPT !.status = "running"]
  /\ UNCHANGED <<power, mounts, wanted, changed, lost>>

\* Directories come and go, with what lies in them.
ChangeDirs ==
  /\ dirs' \in SUBSET Paths
  /\ Paths \ Fleeting \subseteq dirs'
  /\ \A p \in dirs' : \A q \in Paths : <<p, q>> \in Under => q \in dirs'
  /\ Untouched
  /\ UNCHANGED <<kind, freezes, power, at, remount, mounts, wanted, commands, starts>>

\* The host is restarted while nobody uses the container.
PowerOff ==
  /\ at = "idle" /\ power # "stopped"
  /\ power' = "stopped"
  /\ Untouched
  /\ UNCHANGED <<kind, freezes, at, remount, dirs, mounts, wanted, commands, starts>>

Session ==
  \/ OpenSession \/ StartChroot \/ WorkInChroot \/ FindRunning \/ FindFrozen \/ StartLxc \/ StartLxd
  \/ AnnounceStart \/ Started \/ StartFails \/ BeginWork \/ UpdatePackages \/ FinishPackages
  \/ StopChroot \/ StopContainer \/ AnnounceStop \/ Stopped

Next ==
  \/ Session
  \/ \E m \in Addable : AddMount(m) \/ RemoveMount(m)
  \/ SetFreeze \/ RestartCommand \/ WorkElsewhere \/ ChangeDirs \/ PowerOff

Spec == Init /\ [][Next]_vars

-----------------------------------------------------------------------------
(* Properties. *)

TypeOK ==
  /\ kind \in Kinds
  /\ file \in Entries /\ mem \in Entries /\ sum \in Entries
  /\ freezes \in BOOLEAN /\ remount \in BOOLEAN
  /\ power \in {"stopped", "frozen", "running"}
  /\ at \in {"idle", "opened", "start", "starting", "app", "work", "working", "worked",
             "stop", "stopping"}
  /\ dirs \subseteq Paths /\ bound \subseteq Paths
  /\ wanted \subseteq Paths /\ changed \subseteq Paths /\ lost \subseteq Paths
  /\ asked \subseteq Paths /\ vague \subseteq Paths /\ due \subseteq Paths /\ dropped \in BOOLEAN
  /\ commands \in 0..MaxCommands /\ starts \in 0..MaxStarts

\* The directories whose names that of m begins with, of those that may have
\* been on the list.
Above(m) == {d \in Expected(asked \cup vague) : <<m, d>> \in Prefix}

\* What the list that the mounts are computed from may have twice: what
\* xdg-user-dir prints twice, an xdg directory the user added, and with lxd,
\* sooner or later, every xdg directory.
Twice(d) ==
  /\ d \in Range(Xdg)
  /\ \/ kind = "lxd"
     \/ d \in asked \cup vague
     \/ \E j, k \in 1..Len(Xdg) : j # k /\ Xdg[j] = d /\ Xdg[k] = d

\* m is found in one of the mounts.
Shown(m) == \E b \in bound : <<m, b>> \in Under

\* What the user wants and what was there when the mounts were made is found
\* in the container, through all freezing, thawing and failing, unless a
\* directory above it is listed twice, or only has a name it begins with, or
\* is mounted by proot with a blank in its name.
MountsVisible ==
  power # "stopped" /\ ~dropped =>
    \A m \in due :
      (\A d \in Above(m) : /\ <<m, d>> \in Under
                           /\ ~Twice(d)
                           /\ ~(kind = "chroot" /\ d \in Spaced))
        => Shown(m)

\* Nothing else is found in it: no directory of an earlier list.
NothingUnwanted == bound \subseteq Expected(asked \cup vague)

\* The container shows what the user asked it to show, and only that; what he
\* changed while a session had the database in memory it may show or not.
ShowsWhatWasAsked == MountsVisible /\ NothingUnwanted

\* The list in the database is what the user wants, each of it once (lxd adds
\* xdg directories), whatever is written from the memory of sessions; only
\* what was changed after a session had read it is lost when it writes.
ListIsWanted ==
  /\ \A m \in Paths \ lost :
       (m \notin Range(Xdg) \/ kind # "lxd") =>
         (m \in Range(Live(file.mounts)) <=> m \in wanted)
  /\ kind # "lxd" => IsInjective(Live(file.mounts))
=============================================================================
