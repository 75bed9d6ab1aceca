---------------------------- MODULE ContainerDb ----------------------------
(***************************************************************************)
(* The container database of python/libertine/ContainersConfig.py as a     *)
(* value: what each getter answers and what each updater leaves behind.    *)
(*                                                                         *)
(* The database is a list of entries.  Nothing in the file keeps the ids   *)
(* unique: every getter takes the first match, every updater changes the   *)
(* first match, add_new_* appends without looking.  A database is thus a   *)
(* function from each container id to the sequence of its entries, and the *)
(* package list of an entry a function from each package name to the       *)
(* sequence of its statuses; the order between different ids is not kept.  *)
(***************************************************************************)
EXTENDS Sequences

CONSTANTS
  Cids,       \* container ids
  Packages    \* package names

Absent == "absent"   \* what a getter answers for a missing entry (None)

\* The container types a client may name in create().
Types == {"chroot", "lxc", "unsupported"}

\* installStatus.  "busy" stands for the markers written while a container
\* is started or worked in ("starting", "running", "installing packages",
\* "removing packages", "updating"): no reader in the service tells them apart.
RestStatuses == {"ready", "stopped"}
Statuses == RestStatuses \cup {"new", "installing", "removing", "busy"}

PkgStatuses == {"new", "installing", "installed", "removing"}

Entries == [status : Statuses, type : Types, pkgs : [Packages -> Seq(PkgStatuses)]]
Databases == [Cids -> Seq(Entries)]

-----------------------------------------------------------------------------
(* Getters. *)

\* container_exists
Exists(db, c) == db[c] # <<>>

\* get_container_install_status, _get_value_by_key(id, 'installStatus')
Status(db, c) == IF Exists(db, c) THEN db[c][1].status ELSE Absent

\* get_container_type
Type(db, c) == IF Exists(db, c) THEN db[c][1].type ELSE Absent

\* get_package_install_status; package_exists is PkgStatus(db, c, p) # Absent
PkgStatus(db, c, p) ==
  IF Exists(db, c) /\ db[c][1].pkgs[p] # <<>> THEN db[c][1].pkgs[p][1] ELSE Absent

-----------------------------------------------------------------------------
(* Updaters.  All but AddContainer leave the database alone when the entry *)
(* they are about is missing.                                              *)

SetFirst(s, x) == <<x>> \o Tail(s)

UpdateEntry(db, c, e) == [db EXCEPT ![c] = SetFirst(@, e)]

NewEntry(type) == [status |-> "new", type |-> type, pkgs |-> [p \in Packages |-> <<>>]]

\* add_new_container
AddContainer(db, c, type) == [db EXCEPT ![c] = Append(@, NewEntry(type))]

\* delete_container; the caller sees a ValueError when there is no entry
DeleteContainer(db, c) == [db EXCEPT ![c] = Tail(@)]

\* update_container_install_status
SetStatus(db, c, s) ==
  IF Exists(db, c) THEN UpdateEntry(db, c, [db[c][1] EXCEPT !.status = s]) ELSE db

\* The package list of the first entry becomes what f says of it.
SetPkgs(db, c, p, list) ==
  IF Exists(db, c) THEN UpdateEntry(db, c, [db[c][1] EXCEPT !.pkgs[p] = list]) ELSE db

\* add_new_package
AddPackage(db, c, p) ==
  IF Exists(db, c) THEN SetPkgs(db, c, p, Append(db[c][1].pkgs[p], "new")) ELSE db

\* update_package_install_status
SetPkgStatus(db, c, p, s) ==
  IF PkgStatus(db, c, p) # Absent THEN SetPkgs(db, c, p, SetFirst(db[c][1].pkgs[p], s)) ELSE db

\* delete_package
DeletePackage(db, c, p) ==
  IF PkgStatus(db, c, p) # Absent THEN SetPkgs(db, c, p, Tail(db[c][1].pkgs[p])) ELSE db
=============================================================================
