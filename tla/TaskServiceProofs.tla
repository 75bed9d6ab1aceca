------------------------- MODULE TaskServiceProofs -------------------------
(***************************************************************************)
(* Theorems about TaskService, for any containers, packages and requests   *)
(* and any number of tasks.                                                *)
(***************************************************************************)
EXTENDS TaskService, TLAPS

-----------------------------------------------------------------------------
(* The updaters of ContainerDb lead from databases to databases. *)

\* A change of the first element of a list leaves a list.
LEMMA SetFirstType ==
  ASSUME NEW S, NEW s \in Seq(S), s # <<>>, NEW x \in S
  PROVE  SetFirst(s, x) \in Seq(S)
BY DEF SetFirst

\* The first element of a list is one of its elements.
LEMMA FirstType ==
  ASSUME NEW S, NEW s \in Seq(S), s # <<>>
  PROVE  s[1] \in S
OBVIOUS

\* An entry that changes its status is an entry.
LEMMA StatusEntry ==
  ASSUME NEW e \in Entries, NEW s \in Statuses
  PROVE  [e EXCEPT !.status = s] \in Entries
BY DEF Entries

\* An entry that changes one of its package lists is an entry.
LEMMA PkgsEntry ==
  ASSUME NEW e \in Entries, NEW p \in Packages, NEW list \in Seq(PkgStatuses)
  PROVE  [e EXCEPT !.pkgs[p] = list] \in Entries
<1>1. [e.pkgs EXCEPT ![p] = list] \in [Packages -> Seq(PkgStatuses)]
  BY DEF Entries
<1>2. [e EXCEPT !.pkgs[p] = list] = [e EXCEPT !.pkgs = [e.pkgs EXCEPT ![p] = list]]
  BY DEF Entries
<1> QED
  BY <1>1, <1>2 DEF Entries

\* Replacing the first entry of a container that has one.
LEMMA UpdateEntryType ==
  ASSUME NEW d \in Databases, NEW c \in Cids, d[c] # <<>>, NEW e \in Entries
  PROVE  UpdateEntry(d, c, e) \in Databases
<1>1. d[c] \in Seq(Entries)
  BY DEF Databases
<1>2. SetFirst(d[c], e) \in Seq(Entries)
  BY <1>1, SetFirstType
<1> QED
  BY <1>2 DEF UpdateEntry, Databases

\* The first entry of a container is an entry.
LEMMA EntryType ==
  ASSUME NEW d \in Databases, NEW c \in Cids, d[c] # <<>>
  PROVE  d[c][1] \in Entries
<1>1. d[c] \in Seq(Entries)
  BY DEF Databases
<1> QED
  BY <1>1, FirstType

\* update_container_install_status
LEMMA SetStatusType ==
  ASSUME NEW d \in Databases, NEW c \in Cids, NEW s \in Statuses
  PROVE  SetStatus(d, c, s) \in Databases
BY EntryType, StatusEntry, UpdateEntryType DEF SetStatus, Exists

\* add_new_container
LEMMA AddContainerType ==
  ASSUME NEW d \in Databases, NEW c \in Cids, NEW type \in Types
  PROVE  AddContainer(d, c, type) \in Databases
<1>1. [p \in Packages |-> <<>>] \in [Packages -> Seq(PkgStatuses)]
  OBVIOUS
<1>2. NewEntry(type) \in Entries
  BY <1>1 DEF NewEntry, Entries, Statuses
<1>3. d[c] \in Seq(Entries)
  BY DEF Databases
<1>4. Append(d[c], NewEntry(type)) \in Seq(Entries)
  BY <1>2, <1>3
<1> QED
  BY <1>4 DEF AddContainer, Databases

\* delete_container, of a container that has an entry
LEMMA DeleteContainerType ==
  ASSUME NEW d \in Databases, NEW c \in Cids, d[c] # <<>>
  PROVE  DeleteContainer(d, c) \in Databases
<1>1. d[c] \in Seq(Entries)
  BY DEF Databases
<1>2. Tail(d[c]) \in Seq(Entries)
  BY <1>1
<1> QED
  BY <1>2 DEF DeleteContainer, Databases

LEMMA SetPkgsType ==
  ASSUME NEW d \in Databases, NEW c \in Cids, NEW p \in Packages, NEW list \in Seq(PkgStatuses)
  PROVE  SetPkgs(d, c, p, list) \in Databases
BY EntryType, PkgsEntry, UpdateEntryType DEF SetPkgs, Exists

\* The package list of an entry is a list of statuses.
LEMMA PkgListType ==
  ASSUME NEW d \in Databases, NEW c \in Cids, d[c] # <<>>, NEW p \in Packages
  PROVE  d[c][1].pkgs[p] \in Seq(PkgStatuses)
BY EntryType DEF Entries

\* add_new_package
LEMMA AddPackageType ==
  ASSUME NEW d \in Databases, NEW c \in Cids, NEW p \in Packages
  PROVE  AddPackage(d, c, p) \in Databases
<1>1. CASE d[c] = <<>>
  BY <1>1 DEF AddPackage, Exists
<1>2. CASE d[c] # <<>>
  <2>1. Append(d[c][1].pkgs[p], "new") \in Seq(PkgStatuses)
    BY <1>2, PkgListType DEF PkgStatuses
  <2> QED
    BY <1>2, <2>1, SetPkgsType DEF AddPackage, Exists
<1> QED
  BY <1>1, <1>2

\* update_package_install_status
LEMMA SetPkgStatusType ==
  ASSUME NEW d \in Databases, NEW c \in Cids, NEW p \in Packages, NEW s \in PkgStatuses
  PROVE  SetPkgStatus(d, c, p, s) \in Databases
<1>1. CASE PkgStatus(d, c, p) = Absent
  BY <1>1 DEF SetPkgStatus
<1>2. CASE PkgStatus(d, c, p) # Absent
  <2>1. d[c] # <<>> /\ d[c][1].pkgs[p] # <<>>
    BY <1>2 DEF PkgStatus, Exists
  <2>2. SetFirst(d[c][1].pkgs[p], s) \in Seq(PkgStatuses)
    BY <2>1, PkgListType, SetFirstType
  <2> QED
    BY <1>2, <2>2, SetPkgsType DEF SetPkgStatus
<1> QED
  BY <1>1, <1>2

\* delete_package
LEMMA DeletePackageType ==
  ASSUME NEW d \in Databases, NEW c \in Cids, NEW p \in Packages
  PROVE  DeletePackage(d, c, p) \in Databases
<1>1. CASE PkgStatus(d, c, p) = Absent
  BY <1>1 DEF DeletePackage
<1>2. CASE PkgStatus(d, c, p) # Absent
  <2>1. d[c] # <<>> /\ d[c][1].pkgs[p] # <<>>
    BY <1>2 DEF PkgStatus, Exists
  <2>2. d[c][1].pkgs[p] \in Seq(PkgStatuses)
    BY <2>1, PkgListType
  <2>3. Tail(d[c][1].pkgs[p]) \in Seq(PkgStatuses)
    BY <2>1, <2>2
  <2> QED
    BY <1>2, <2>3, SetPkgsType DEF DeletePackage
<1> QED
  BY <1>1, <1>2

-----------------------------------------------------------------------------
(* Types. *)

\* What a thread needs to know of the task it runs: a task exists up to
\* created, carries a request and, unless it is containerless, belongs to a
\* Container object; only a task with a lock is inside _run.
Formed ==
  /\ \A t \in Tasks : pc[t] = "unborn" <=> t > created
  /\ \A t \in Tasks : pc[t] # "unborn" =>
       req[t] \in AllRequests /\ (Kind(t) \notin Readers => obj[t] \in Objects)
  /\ \A t \in Tasks : pc[t] \in Inside => Locked(t)
  /\ main.at = "found" =>
       /\ main.req \in AllRequests /\ main.req.kind \notin Readers
       /\ main.obj \in Objects
       /\ created < MaxTasks

TypeInv == TypeOK /\ Formed

\* The first database is a database.
LEMMA InitDb == Init => db \in Databases
<1> SUFFICES ASSUME Init PROVE db \in Databases
  OBVIOUS
<1>1. ASSUME NEW e \in RestEntries PROVE e \in Entries
  <2>1. <<>> \in Seq(PkgStatuses) /\ <<"installed">> \in Seq(PkgStatuses)
    BY DEF PkgStatuses
  <2>2. e.pkgs \in [Packages -> Seq(PkgStatuses)]
    BY <2>1 DEF RestEntries
  <2> QED
    BY <2>2 DEF RestEntries, Entries, RestStatuses, Statuses, Types
<1>2. ASSUME NEW c \in Cids PROVE db[c] \in Seq(Entries)
  <2>1. db[c] = <<>> \/ \E e \in RestEntries : db[c] = <<e>>
    BY DEF Init
  <2>2. CASE db[c] = <<>>
    BY <2>2
  <2>3. CASE \E e \in RestEntries : db[c] = <<e>>
    <3>1. PICK e \in RestEntries : db[c] = <<e>>
      BY <2>3
    <3> QED
      BY <1>1, <3>1
  <2> QED
    BY <2>1, <2>2, <2>3
<1>3. db = [c \in Cids |-> db[c]]
  BY DEF Init
<1> QED
  BY <1>2, <1>3 DEF Databases

LEMMA InitTypes == Init => TypeInv
<1> SUFFICES ASSUME Init PROVE TypeInv
  OBVIOUS
<1>1. told \in [Tasks -> Seq({"finished", "failed"})]
  BY DEF Init
<1>2. main \in [at : {"idle", "found"}, req : AllRequests \cup {NoRequest},
                obj : Objects \cup {NoObject}, missing : SUBSET Tasks]
  BY DEF Init, IdleMain
<1>3. db \in Databases /\ named \in BOOLEAN
  BY InitDb DEF Init
<1>4. /\ lock \in [Tasks -> Tasks \cup {0}] /\ req \in [Tasks -> AllRequests \cup {NoRequest}]
      /\ obj \in [Tasks -> Objects \cup {NoObject}] /\ pc \in [Tasks -> PCs]
  BY DEF Init, PCs
<1>5. /\ res \in [Tasks -> {"none", "ok", "failed"}]
      /\ ops \in [Tasks -> {"none", "running", "finished", "failed", "gone"}]
  BY DEF Init
<1>6. live = {} /\ created = 0 /\ reply = 0 /\ raced = FALSE /\ bare = {} /\ 0 \in 0..MaxTasks
  BY MaxTasksAssumption DEF Init
<1>7. Formed
  BY MaxTasksAssumption DEF Init, Formed, Tasks, Inside, IdleMain
<1> QED
  BY <1>1, <1>2, <1>3, <1>4, <1>5, <1>6, <1>7 DEF TypeInv, TypeOK

\* A function whose value changes at one point keeps its type.
LEMMA ExceptType ==
  ASSUME NEW S, NEW T, NEW f \in [S -> T], NEW t \in S, NEW x \in T
  PROVE  [f EXCEPT ![t] = x] \in [S -> T]
OBVIOUS

\* The same of a lock that is given to a task or to none.
LEMMA LockType ==
  ASSUME NEW f \in [Tasks -> Tasks \cup {0}], NEW i, NEW x \in Tasks \cup {0}
  PROVE  [f EXCEPT ![i] = x] \in [Tasks -> Tasks \cup {0}]
OBVIOUS

\* A task that gives up its lock, by an exception or at the end.
LEMMA DieType ==
  ASSUME TypeInv, NEW t \in Tasks, Die(t)
  PROVE  lock' \in [Tasks -> Tasks \cup {0}] /\ pc' = [pc EXCEPT ![t] = "dead"]
<1>1. PICK a : a = IF lock[MyLock(t)] = t THEN 0 ELSE lock[MyLock(t)]
  OBVIOUS
<1>2. lock' = [lock EXCEPT ![MyLock(t)] = a]
  BY <1>1 DEF Die
<1>3. CASE MyLock(t) \in Tasks
  <2>1. a \in Tasks \cup {0}
    BY <1>1, <1>3 DEF TypeInv, TypeOK
  <2>2. lock' \in [Tasks -> Tasks \cup {0}]
    BY <1>2, <2>1, LockType DEF TypeInv, TypeOK
  <2> QED
    BY <2>2 DEF Die, Goto
<1>4. CASE MyLock(t) \notin Tasks
  <2>1. lock' = lock
    BY <1>2, <1>4 DEF TypeInv, TypeOK
  <2> QED
    BY <2>1 DEF Die, Goto, TypeInv, TypeOK
<1> QED
  BY <1>3, <1>4

LEMMA LeaveType ==
  ASSUME TypeInv, NEW t \in Tasks, Leave(t)
  PROVE  lock' \in [Tasks -> Tasks \cup {0}] /\ pc' = [pc EXCEPT ![t] = "leave"]
BY LockType DEF Leave, Goto, TypeInv, TypeOK

\* A task that goes on to another step.
LEMMA GotoType ==
  ASSUME TypeInv, NEW t \in Tasks, pc[t] # "unborn", NEW l \in PCs \ {"unborn"}, l \in Inside => Locked(t),
         pc' = [pc EXCEPT ![t] = l], UNCHANGED <<req, obj, created, main>>
  PROVE  Formed' /\ pc' \in [Tasks -> PCs]
BY DEF TypeInv, TypeOK, Formed, Kind, Locked

\* A signal is an outcome, and is remembered.
LEMMA SignalType ==
  ASSUME TypeInv, NEW t \in Tasks, NEW s \in {"finished", "failed"}, Signal(t, s)
  PROVE  /\ ops' \in [Tasks -> {"none", "running", "finished", "failed", "gone"}]
         /\ told' \in [Tasks -> Seq({"finished", "failed"})]
<1>1. told[t] \in Seq({"finished", "failed"})
  BY DEF TypeInv, TypeOK
<1>2. Append(told[t], s) \in Seq({"finished", "failed"})
  BY <1>1
<1>3. told' = [told EXCEPT ![t] = Append(told[t], s)]
  BY DEF Signal
<1>4. told' \in [Tasks -> Seq({"finished", "failed"})]
  BY <1>2, <1>3, ExceptType DEF TypeInv, TypeOK
<1>5. PICK a : a = IF ops[t] = "failed" THEN "failed" ELSE s
  OBVIOUS
<1>6. a \in {"none", "running", "finished", "failed", "gone"} /\ ops' = [ops EXCEPT ![t] = a]
  BY <1>5 DEF Signal
<1> QED
  BY <1>4, <1>6, ExceptType DEF TypeInv, TypeOK

\* What a task may write to the database.
LEMMA MarkedType ==
  ASSUME TypeInv, NEW t \in Tasks, pc[t] # "unborn"
  PROVE  Marked(t) \in Databases
<1>1. db \in Databases /\ Cid(t) \in Cids /\ Pkg(t) \in Packages /\ req[t].type \in Types
  BY DEF TypeInv, TypeOK, Formed, AllRequests, Cid, Pkg
<1>2. SetPkgStatus(AddPackage(db, Cid(t), Pkg(t)), Cid(t), Pkg(t), "installing") \in Databases
  BY <1>1, AddPackageType, SetPkgStatusType DEF PkgStatuses
<1>3. SetPkgStatus(db, Cid(t), Pkg(t), "removing") \in Databases
  BY <1>1, SetPkgStatusType DEF PkgStatuses
<1>4. SetStatus(db, Cid(t), "removing") \in Databases
  BY <1>1, SetStatusType DEF Statuses
<1>5. SetStatus(AddContainer(db, Cid(t), req[t].type), Cid(t), "installing") \in Databases
  BY <1>1, AddContainerType, SetStatusType DEF Statuses
<1> QED
  BY <1>1, <1>2, <1>3, <1>4, <1>5 DEF Marked

LEMMA SavedType ==
  ASSUME TypeInv, NEW t \in Tasks, pc[t] # "unborn", Deletes(t) => Exists(db, Cid(t))
  PROVE  Saved(t) \in Databases
<1>1. db \in Databases /\ Cid(t) \in Cids /\ Pkg(t) \in Packages
  BY DEF TypeInv, TypeOK, Formed, AllRequests, Cid, Pkg
<1>2. SetPkgStatus(db, Cid(t), Pkg(t), "installed") \in Databases
  BY <1>1, SetPkgStatusType DEF PkgStatuses
<1>3. DeletePackage(db, Cid(t), Pkg(t)) \in Databases
  BY <1>1, DeletePackageType
<1>4. Deletes(t) => DeleteContainer(db, Cid(t)) \in Databases
  BY <1>1, DeleteContainerType DEF Exists
<1>5. Restored(t) \in Databases
  BY <1>1, SetStatusType DEF Restored, Statuses, RestStatuses
<1> QED
  BY <1>2, <1>3, <1>4, <1>5 DEF Saved

\* Any status a session writes.
LEMMA StatusType ==
  ASSUME TypeInv, NEW t \in Tasks, pc[t] # "unborn", NEW s \in Statuses
  PROVE  SetStatus(db, Cid(t), s) \in Databases
BY SetStatusType DEF TypeInv, TypeOK, Formed, AllRequests, Cid

LEMMA NextTypes == TypeInv /\ [Next]_vars => TypeInv'
<1> SUFFICES ASSUME TypeInv, [Next]_vars PROVE TypeInv'
  OBVIOUS
<1> USE MaxTasksAssumption DEF TypeInv
<1>1. ASSUME NEW r \in Requests, FindOrCreate(r) PROVE TypeInv'
  BY <1>1, RequestsAssumption DEF FindOrCreate, Found, TypeOK, Formed, AllRequests, Objects, Tasks,
     Kind, Locked
<1>2. CASE Reuse
  BY <1>2 DEF Reuse, Duplicates, Members, TypeOK, Formed, IdleMain, Tasks, Kind, Locked
<1>3. CASE Dispatch
  <2>1. created + 1 \in Tasks /\ pc[created + 1] = "unborn"
    BY <1>3 DEF Dispatch, TypeOK, Formed, Tasks
  <2> QED
    BY <1>3, <2>1 DEF Dispatch, Start, Goto, TypeOK, Formed, IdleMain, Tasks, Kind, Locked, PCs, Inside
<1>21. CASE DispatchRaises
  <2>1. created + 1 \in Tasks /\ pc[created + 1] = "unborn"
    BY <1>21 DEF DispatchRaises, TypeOK, Formed, Tasks
  <2> QED
    BY <1>21, <2>1 DEF DispatchRaises, Goto, TypeOK, Formed, IdleMain, Tasks, Kind, Locked, PCs, Inside
<1>4. ASSUME NEW r \in Requests, DispatchContainerless(r) PROVE TypeInv'
  <2>1. created + 1 \in Tasks /\ pc[created + 1] = "unborn"
    BY <1>4 DEF DispatchContainerless, TypeOK, Formed, Tasks
  <2> QED
    BY <1>4, <2>1, RequestsAssumption DEF DispatchContainerless, Start, Goto, TypeOK, Formed,
       Tasks, Kind, Locked, PCs, Inside
<1>5. ASSUME NEW t \in Tasks, Refresh(t) PROVE TypeInv'
  BY <1>5 DEF Refresh, Goto, TypeOK, Formed, Kind, Locked, PCs, Inside
<1>6. ASSUME NEW t \in Tasks, Check(t) PROVE TypeInv'
  BY <1>6 DEF Check, Goto, TypeOK, Formed, Kind, Locked, PCs, Inside
<1>7. ASSUME NEW t \in Tasks, Refuse(t) PROVE TypeInv'
  BY <1>7, SignalType DEF Refuse, Goto, TypeOK, Formed, Kind, Locked, PCs, Inside
<1>22. ASSUME NEW t \in Tasks, FinishRefused(t) PROVE TypeInv'
  BY <1>22, SignalType DEF FinishRefused, Goto, TypeOK, Formed, Kind, Locked, PCs, Inside
<1>8. ASSUME NEW t \in Tasks, Mark(t) PROVE TypeInv'
  BY <1>8, MarkedType DEF Mark, Goto, TypeOK, Formed, Kind, Locked, PCs, Inside
<1>9. ASSUME NEW t \in Tasks, Enter(t) PROVE TypeInv'
  <2>1. /\ pc[t] # "unborn" /\ Locked(t)
        /\ UNCHANGED <<db, named, live, req, obj, res, ops, told, created, main, reply, raced, bare>>
    BY <1>9 DEF Enter
  <2>2. lock' \in [Tasks -> Tasks \cup {0}] /\ \E l \in {"open", "work", "dead"} : pc' = [pc EXCEPT ![t] = l]
    <3>1. CASE Constructible(t)
      <4>1. lock' = [lock EXCEPT ![MyLock(t)] = t]
        BY <1>9, <3>1 DEF Enter
      <4>2. lock' \in [Tasks -> Tasks \cup {0}]
        BY <4>1, LockType DEF TypeOK
      <4> QED
        BY <1>9, <3>1, <4>2 DEF Enter, Goto
    <3>2. CASE ~Constructible(t)
      BY <1>9, <3>2, DieType DEF Enter
    <3> QED
      BY <3>1, <3>2
  <2>3. Formed' /\ pc' \in [Tasks -> PCs]
    BY <2>1, <2>2, GotoType DEF PCs
  <2> QED
    BY <2>1, <2>2, <2>3 DEF TypeOK
<1>10. ASSUME NEW t \in Tasks, Open(t) PROVE TypeInv'
  <2>1. db' \in Databases
    BY <1>10, StatusType DEF Open, TypeOK, Statuses, RestStatuses
  <2> QED
    BY <1>10, <2>1 DEF Open, Conclude, Goto, TypeOK, Formed, Kind, Locked, PCs, Inside
<1>11. ASSUME NEW t \in Tasks, WorkInSession(t) PROVE TypeInv'
  <2>1. db' \in Databases
    BY <1>11, StatusType DEF WorkInSession, Rested, Statuses, RestStatuses
  <2> QED
    BY <1>11, <2>1 DEF WorkInSession, Conclude, Goto, TypeOK, Formed, Kind, Locked, PCs, Inside
<1>12. ASSUME NEW t \in Tasks, WorkOnContainer(t) PROVE TypeInv'
  <2>1. db' \in Databases
    BY <1>12, StatusType DEF WorkOnContainer, Rested, Statuses, RestStatuses, TypeOK
  <2> QED
    <3>1. /\ pc[t] # "unborn" /\ pc[t] \in Inside
          /\ UNCHANGED <<named, live, req, obj, ops, told, created, main, reply, raced, bare>>
      BY <1>12 DEF WorkOnContainer, Inside
    <3>2. lock' \in [Tasks -> Tasks \cup {0}] /\ \E l \in {"announce", "save", "dead"} : pc' = [pc EXCEPT ![t] = l]
      BY <1>12, DieType DEF WorkOnContainer, Conclude, Goto, TypeOK
    <3>3. res' \in [Tasks -> {"none", "ok", "failed"}]
      BY <1>12 DEF WorkOnContainer, Conclude, TypeOK
    <3>4. Formed' /\ pc' \in [Tasks -> PCs]
      BY <3>1, <3>2, GotoType DEF PCs, Formed
    <3> QED
      BY <2>1, <3>1, <3>2, <3>3, <3>4 DEF TypeOK
<1>13. ASSUME NEW t \in Tasks, Save(t) PROVE TypeInv'
  <2>1. db' \in Databases
    BY <1>13, SavedType DEF Save, TypeOK
  <2> QED
    <3>1. /\ UNCHANGED <<live, req, obj, res, ops, told, created, main, reply, raced>>
          /\ named' \in BOOLEAN
      BY <1>13 DEF Save, TypeOK
    <3>2. bare' \subseteq Tasks
      BY <1>13 DEF Save, Unmarks, TypeOK
    <3>3. lock' \in [Tasks -> Tasks \cup {0}] /\ \E l \in PCs \ {"unborn", "open", "work", "save"} : pc' = [pc EXCEPT ![t] = l]
      BY <1>13, DieType, LeaveType DEF Save, Goto, TypeOK, PCs
    <3>4. pc[t] = "save"
      BY <1>13 DEF Save
    <3> QED
      BY <2>1, <3>1, <3>2, <3>3, <3>4 DEF TypeOK, Formed, Kind, Locked, PCs, Inside
<1>14. ASSUME NEW t \in Tasks, Announce(t) PROVE TypeInv'
  <2>1. Signal(t, Outcome(t)) /\ Outcome(t) \in {"finished", "failed"}
    BY <1>14 DEF Announce, Outcome
  <2>2. lock' \in [Tasks -> Tasks \cup {0}] /\ \E l \in {"save", "leave"} : pc' = [pc EXCEPT ![t] = l]
    BY <1>14, LeaveType DEF Announce, Goto, TypeOK
  <2> QED
    BY <1>14, <2>1, <2>2, SignalType DEF Announce, TypeOK, Formed, Kind, Locked, PCs, Inside
<1>15. ASSUME NEW t \in Tasks, Read(t) PROVE TypeInv'
  BY <1>15, SignalType DEF Read, Goto, TypeOK, Formed, Kind, Locked, PCs, Inside
<1>16. ASSUME NEW t \in Tasks, Finish(t) PROVE TypeInv'
  BY <1>16, SignalType DEF Finish, Goto, TypeOK, Formed, Kind, Locked, PCs, Inside
<1>17. ASSUME NEW t \in Tasks, RemoveFromConnection(t) PROVE TypeInv'
  BY <1>17 DEF RemoveFromConnection, Goto, TypeOK, Formed, Kind, Locked, PCs, Inside
<1>18. ASSUME NEW t \in Tasks, Forget(t) PROVE TypeInv'
  BY <1>18 DEF Forget, Goto, TypeOK, Formed, Kind, Locked, PCs, Inside
<1>19. ASSUME NEW t \in Tasks, CheckEmpty(t) \/ Drop(t) PROVE TypeInv'
  <2>1. \E l \in {"drop", "gone"} : pc' = [pc EXCEPT ![t] = l]
    BY <1>19 DEF CheckEmpty, Drop, Goto
  <2>2. live' \subseteq Objects /\ raced' \in BOOLEAN
    BY <1>19 DEF CheckEmpty, Drop, TypeOK
  <2>3. pc[t] # "unborn" /\ UNCHANGED <<db, named, lock, req, obj, res, ops, told, created, main, reply, bare>>
    BY <1>19 DEF CheckEmpty, Drop
  <2> QED
    BY <2>1, <2>2, <2>3 DEF TypeOK, Formed, Kind, Locked, PCs, Inside
<1>20. CASE UNCHANGED vars
  BY <1>20 DEF vars, TypeOK, Formed, Kind, Locked
<1> QED
  BY <1>1, <1>2, <1>3, <1>4, <1>5, <1>6, <1>7, <1>8, <1>9, <1>10, <1>11, <1>12, <1>13, <1>14,
     <1>15, <1>16, <1>17, <1>18, <1>19, <1>20, <1>21, <1>22
     DEF Next, MainStep, TaskStep, TimerStep, Idle

LEMMA TypesAlways == Spec => []TypeInv
BY InitTypes, NextTypes, PTL DEF Spec

\* Every variable keeps its type: no path through the service writes a
\* status, an outcome or a lock owner that the code does not know.
THEOREM TypeCorrect == Spec => []TypeOK
BY TypesAlways, PTL DEF TypeInv
-----------------------------------------------------------------------------
(* The lock of a Container object. *)

LEMMA NextLock == TypeInv /\ LockDiscipline /\ [Next]_vars => LockDiscipline'
<1> SUFFICES ASSUME TypeInv, LockDiscipline, [Next]_vars PROVE LockDiscipline'
  OBVIOUS
<1> USE DEF TypeInv, TypeOK, LockDiscipline
<1>1. ASSUME NEW r \in Requests, FindOrCreate(r) PROVE LockDiscipline'
  BY <1>1 DEF FindOrCreate, Kind, Locked, MyLock
<1>2. CASE Reuse
  BY <1>2 DEF Reuse, Kind, Locked, MyLock
<1>3. ASSUME NEW r, NEW o, Start(r, o), UNCHANGED lock PROVE LockDiscipline'
  <2>1. \A t \in Tasks : pc'[t] \in Inside => pc[t] \in Inside /\ t # created + 1
    BY <1>3 DEF Start, Goto, Inside, Formed
  <2>2. \A t \in Tasks : pc[t] \in Inside => t # created + 1 /\ pc'[t] = pc[t]
    BY <1>3 DEF Start, Goto, Inside, Formed, Tasks
  <2>3. \A t \in Tasks : t # created + 1 => req'[t] = req[t] /\ obj'[t] = obj[t]
    BY <1>3 DEF Start
  <2> QED
    BY <1>3, <2>1, <2>2, <2>3 DEF Kind, Locked, MyLock
<1>4. CASE Dispatch
  BY <1>3, <1>4 DEF Dispatch
<1>18. CASE DispatchRaises
  <2>1. \A t \in Tasks : pc'[t] \in Inside => pc[t] \in Inside /\ t # created + 1
    BY <1>18 DEF DispatchRaises, Goto, Inside, Formed
  <2>2. \A t \in Tasks : pc[t] \in Inside => t # created + 1 /\ pc'[t] = pc[t]
    BY <1>18 DEF DispatchRaises, Goto, Inside, Formed, Tasks
  <2>3. \A t \in Tasks : t # created + 1 => req'[t] = req[t] /\ obj'[t] = obj[t]
    BY <1>18 DEF DispatchRaises
  <2> QED
    BY <1>18, <2>1, <2>2, <2>3 DEF DispatchRaises, Kind, Locked, MyLock
<1>5. ASSUME NEW r \in Requests, DispatchContainerless(r) PROVE LockDiscipline'
  BY <1>3, <1>5 DEF DispatchContainerless
<1>6. ASSUME NEW t \in Tasks, Enter(t) PROVE LockDiscipline'
  <2>1. MyLock(t) \in Tasks /\ lock[MyLock(t)] = 0 /\ pc[t] \notin Inside
    BY <1>6 DEF Enter, Formed, Locked, Kind, MyLock, Objects, Readers, Mutators, Inside
  <2>2. \A u \in Tasks : MyLock(u)' = MyLock(u) /\ Locked(u)' = Locked(u)
    BY <1>6 DEF Enter, MyLock, Locked, Kind
  <2>3. CASE Constructible(t)
    <3>1. lock' = [lock EXCEPT ![MyLock(t)] = t] /\ pc'[t] \in Inside
      BY <1>6, <2>3 DEF Enter, Goto, Inside
    <3>2. \A u \in Tasks \ {t} : pc'[u] = pc[u]
      BY <1>6, <2>3 DEF Enter, Goto
    <3>3. ASSUME NEW u \in Tasks, pc'[u] \in Inside, Locked(u)' PROVE lock'[MyLock(u)'] = u
      BY <2>1, <2>2, <3>1, <3>2, <3>3 DEF Tasks
    <3>4. ASSUME NEW u \in Tasks, lock'[u] # 0
          PROVE  pc'[lock'[u]] \in Inside /\ obj[lock'[u]].id = u
      <4>1. CASE u = MyLock(t)
        BY <2>1, <3>1, <4>1 DEF MyLock
      <4>2. CASE u # MyLock(t)
        <5>1. lock'[u] = lock[u] /\ lock[u] \in Tasks /\ lock[u] # t
          BY <2>1, <3>1, <3>4, <4>2
        <5> QED
          BY <3>2, <3>4, <5>1 DEF MyLock
      <4> QED
        BY <4>1, <4>2
    <3>5. obj' = obj
      BY <1>6 DEF Enter
    <3> QED
      BY <3>3, <3>4, <3>5 DEF MyLock
  <2>4. CASE ~Constructible(t)
    <3>1. lock' = lock
      <4>1. lock' = [lock EXCEPT ![MyLock(t)] = IF @ = t THEN 0 ELSE @]
        BY <1>6, <2>4 DEF Enter, Die
      <4>2. t # 0
        BY DEF Tasks
      <4> QED
        BY <2>1, <4>1, <4>2
    <3>2. Goto(t, "dead")
      BY <1>6, <2>4 DEF Enter, Die
    <3> QED
      BY <1>6, <2>1, <2>2, <3>1, <3>2 DEF Enter, Goto, Inside, MyLock
  <2> QED
    BY <2>3, <2>4
<1>7. ASSUME NEW t \in Tasks, pc[t] \in Inside, Leave(t) \/ Die(t), UNCHANGED <<req, obj>>
      PROVE  LockDiscipline'
  <2>1. MyLock(t) \in Tasks /\ lock[MyLock(t)] = t
    BY <1>7 DEF Formed, Locked, Kind, MyLock, Objects, Readers, Mutators, Inside
  <2>2. lock' = [lock EXCEPT ![MyLock(t)] = 0]
    BY <1>7, <2>1 DEF Leave, Die
  <2>3. pc'[t] \notin Inside /\ \A u \in Tasks \ {t} : pc'[u] = pc[u]
    BY <1>7 DEF Leave, Die, Goto, Inside
  <2>4. \A u \in Tasks : MyLock(u)' = MyLock(u) /\ Locked(u)' = Locked(u)
    BY <1>7 DEF MyLock, Locked, Kind
  <2>5. ASSUME NEW u \in Tasks, pc'[u] \in Inside, Locked(u)' PROVE lock'[MyLock(u)'] = u
    <3>1. u # t /\ pc[u] \in Inside /\ Locked(u)
      BY <2>3, <2>4, <2>5
    <3>2. lock[MyLock(u)] = u
      BY <3>1
    <3> QED
      BY <2>1, <2>2, <2>4, <3>1, <3>2
  <2>6. ASSUME NEW u \in Tasks, lock'[u] # 0
        PROVE  pc'[lock'[u]] \in Inside /\ MyLock(lock[u])' = u
    <3>1. lock'[u] = lock[u] /\ lock[u] # t /\ lock[u] \in Tasks
      BY <2>1, <2>2, <2>6 DEF Tasks
    <3>2. pc[lock[u]] \in Inside /\ obj[lock[u]].id = u
      BY <3>1, <2>6 DEF MyLock
    <3> QED
      BY <1>7, <2>3, <3>1, <3>2 DEF MyLock
  <2> QED
    BY <2>5, <2>6
<1>8. ASSUME NEW t \in Tasks, NEW l \in PCs, Goto(t, l), pc[t] \in Inside <=> l \in Inside,
             UNCHANGED <<lock, req, obj>>
      PROVE  LockDiscipline'
  BY <1>8 DEF Goto, Kind, Locked, MyLock
<1>9. ASSUME NEW t \in Tasks,
             Refresh(t) \/ Check(t) \/ Refuse(t) \/ FinishRefused(t) \/ Mark(t) \/ Read(t) \/ Finish(t)
      PROVE  LockDiscipline'
  BY <1>8, <1>9 DEF Refresh, Check, Refuse, FinishRefused, Mark, Read, Finish, Inside, PCs
<1>10. ASSUME NEW t \in Tasks, NEW r, Conclude(t, r), pc[t] \in Inside, UNCHANGED <<lock, req, obj>>
       PROVE  LockDiscipline'
  BY <1>8, <1>10 DEF Conclude, Inside, PCs
<1>11. ASSUME NEW t \in Tasks, Open(t) PROVE LockDiscipline'
  BY <1>8, <1>10, <1>11 DEF Open, Inside, PCs
<1>12. ASSUME NEW t \in Tasks, WorkInSession(t) PROVE LockDiscipline'
  BY <1>10, <1>12 DEF WorkInSession, Inside
<1>13. ASSUME NEW t \in Tasks, WorkOnContainer(t) PROVE LockDiscipline'
  BY <1>7, <1>10, <1>13 DEF WorkOnContainer, Inside
<1>14. ASSUME NEW t \in Tasks, Save(t) PROVE LockDiscipline'
  BY <1>7, <1>8, <1>14 DEF Save, Inside, PCs
<1>15. ASSUME NEW t \in Tasks, Announce(t) PROVE LockDiscipline'
  BY <1>7, <1>8, <1>15 DEF Announce, Inside, PCs
<1>16. ASSUME NEW t \in Tasks, TimerStep(t) PROVE LockDiscipline'
  BY <1>8, <1>16 DEF TimerStep, RemoveFromConnection, Forget, CheckEmpty, Drop, Inside, PCs
<1>17. CASE UNCHANGED vars
  BY <1>17 DEF vars, Kind, Locked, MyLock
<1> QED
  BY <1>1, <1>2, <1>4, <1>5, <1>6, <1>9, <1>11, <1>12, <1>13, <1>14, <1>15, <1>16, <1>17, <1>18
     DEF Next, MainStep, TaskStep, Idle

LEMMA InitLock == Init => LockDiscipline
BY DEF Init, LockDiscipline, Inside

\* However threads are switched and whichever way a task ends, a lock is held
\* by exactly the task that is inside _run of its Container object.
THEOREM LockSafe == Spec => []LockDiscipline
BY InitTypes, InitLock, NextTypes, NextLock, PTL DEF Spec
-----------------------------------------------------------------------------
(* Mutual exclusion per container id. *)

\* Only the main thread adds an object, and only where it found none.
LEMMA NextOne == OneObject /\ [Next]_vars => OneObject'
<1> SUFFICES ASSUME OneObject, [Next]_vars PROVE OneObject'
  OBVIOUS
<1>1. ASSUME NEW r \in Requests, FindOrCreate(r) PROVE OneObject'
  BY <1>1 DEF FindOrCreate, Found, OneObject
<1>2. ASSUME live' \subseteq live PROVE OneObject'
  BY <1>2 DEF OneObject
<1>3. ASSUME NEW r \in Requests, DispatchContainerless(r) PROVE live' \subseteq live
  BY <1>3 DEF DispatchContainerless
<1>4. CASE Reuse \/ Dispatch \/ DispatchRaises
  BY <1>2, <1>4 DEF Reuse, Dispatch, DispatchRaises
<1>5. ASSUME NEW t \in Tasks, TaskStep(t) \/ TimerStep(t) PROVE live' \subseteq live
  BY <1>5 DEF TaskStep, TimerStep, Refresh, Check, Refuse, FinishRefused, Mark, Enter, Open, WorkInSession,
              WorkOnContainer, Save, Announce, Read, Finish, RemoveFromConnection, Forget, CheckEmpty, Drop
<1> QED
  BY <1>1, <1>2, <1>3, <1>4, <1>5 DEF Next, MainStep, Idle, vars

\* TaskDispatcher._find_or_create_container runs in the main thread only: the
\* dispatcher never has two objects for one id, wherever threads are switched.
THEOREM SingleObject == Spec => []OneObject
<1>1. Init => OneObject
  BY DEF Init, OneObject
<1> QED
  BY <1>1, NextOne, PTL DEF Spec

\* The object of every task in a list is the dispatcher's one object for the
\* container, and so is the one a handler has found.
AllAttached ==
  /\ \A t \in Tasks : pc[t] \in Listed /\ Kind(t) \notin Readers =>
       obj[t] \in live /\ obj[t].cid = Cid(t)
  /\ main.at = "found" => main.obj \in live /\ main.obj.cid = main.req.cid

\* That holds until an object is dropped in use.
Attached == OneObject /\ (~raced => AllAttached)

LEMMA InitAttached == Init => Attached
BY DEF Init, Attached, AllAttached, OneObject, Listed, PCs, IdleMain

\* What once went wrong stays so.
LEMMA RacedStays == [Next]_vars /\ ~raced' => ~raced
<1> SUFFICES ASSUME [Next]_vars, ~raced' PROVE ~raced
  OBVIOUS
<1>1. ASSUME NEW t \in Tasks, TaskStep(t) \/ TimerStep(t) PROVE ~raced
  BY <1>1 DEF TaskStep, TimerStep, Refresh, Check, Refuse, FinishRefused, Mark, Enter, Open, WorkInSession,
              WorkOnContainer, Save, Announce, Read, Finish, RemoveFromConnection, Forget, CheckEmpty, Drop
<1> QED
  BY <1>1 DEF Next, MainStep, FindOrCreate, Reuse, Dispatch, DispatchRaises, DispatchContainerless, Idle, vars

LEMMA NextAttached == TypeInv /\ Attached /\ [Next]_vars => Attached'
<1> SUFFICES ASSUME TypeInv, Attached, [Next]_vars, ~raced' PROVE AllAttached'
  BY NextOne DEF Attached
<1>0. ~raced /\ AllAttached
  BY RacedStays DEF Attached
<1> USE <1>0 DEF TypeInv, TypeOK, AllAttached
<1>1. ASSUME NEW r \in Requests, FindOrCreate(r) PROVE AllAttached'
  <2>1. live \subseteq live'
    BY <1>1 DEF FindOrCreate
  <2>2. main'.obj \in live' /\ main'.obj.cid = main'.req.cid
    BY <1>1 DEF FindOrCreate, Found
  <2> QED
    BY <1>1, <2>1, <2>2 DEF FindOrCreate, Kind, Cid
<1>2. CASE Reuse
  BY <1>2 DEF Reuse, IdleMain, Kind, Cid
<1>3. ASSUME NEW r, NEW o, Start(r, o), UNCHANGED live, main' = main \/ main'.at = "idle",
             r.kind \notin Readers => o \in live /\ o.cid = r.cid
      PROVE  AllAttached'
  <2>1. \A t \in Tasks : t # created + 1 => req'[t] = req[t] /\ obj'[t] = obj[t] /\ pc'[t] = pc[t]
    BY <1>3 DEF Start, Goto
  <2>2. \A t \in Tasks : t = created + 1 => req'[t] = r /\ obj'[t] = o /\ pc'[t] = "refresh"
    BY <1>3 DEF Start, Goto
  <2>3. ASSUME NEW t \in Tasks, pc'[t] \in Listed, Kind(t)' \notin Readers
        PROVE  obj'[t] \in live' /\ obj'[t].cid = Cid(t)'
    BY <1>3, <2>1, <2>2, <2>3 DEF Kind, Cid
  <2> QED
    BY <1>3, <2>3
<1>4. CASE Dispatch
  BY <1>3, <1>4 DEF Dispatch, IdleMain
<1>11. CASE DispatchRaises
  <2>1. \A t \in Tasks : t # created + 1 => req'[t] = req[t] /\ obj'[t] = obj[t] /\ pc'[t] = pc[t]
    BY <1>11 DEF DispatchRaises, Goto
  <2>2. \A t \in Tasks : t = created + 1 => pc'[t] \notin Listed
    BY <1>11 DEF DispatchRaises, Goto, Listed
  <2>3. main'.at = "idle" /\ live' = live
    BY <1>11 DEF DispatchRaises, IdleMain
  <2> QED
    BY <2>1, <2>2, <2>3 DEF Kind, Cid
<1>5. ASSUME NEW r \in Requests, DispatchContainerless(r) PROVE AllAttached'
  BY <1>3, <1>5 DEF DispatchContainerless
<1>6. ASSUME NEW t \in Tasks, NEW l \in PCs, Goto(t, l), l \in Listed => pc[t] \in Listed,
             UNCHANGED <<live, req, obj>>, main'.at = main.at, main'.obj = main.obj, main'.req = main.req
      PROVE  AllAttached'
  BY <1>6 DEF Goto, Kind, Cid
<1>7. ASSUME NEW t \in Tasks, TaskStep(t) PROVE AllAttached'
  <2>1. pc[t] \in Listed /\ UNCHANGED <<live, main, req, obj>>
    BY <1>7 DEF TaskStep, Refresh, Check, Refuse, FinishRefused, Mark, Enter, Open, WorkInSession,
                WorkOnContainer, Save, Announce, Read, Finish, Listed, PCs
  <2>2. \E l \in PCs : Goto(t, l)
    BY <1>7 DEF TaskStep, Refresh, Check, Refuse, FinishRefused, Mark, Enter, Open, WorkInSession,
                WorkOnContainer, Save, Announce, Read, Finish, Conclude, Die, Leave, PCs
  <2> QED
    BY <1>6, <2>1, <2>2
<1>8. ASSUME NEW t \in Tasks, RemoveFromConnection(t) \/ CheckEmpty(t) PROVE AllAttached'
  BY <1>6, <1>8 DEF RemoveFromConnection, CheckEmpty, Listed, PCs
<1>9. ASSUME NEW t \in Tasks, Forget(t) PROVE AllAttached'
  <2>1. main'.at = main.at /\ main'.obj = main.obj /\ main'.req = main.req
    BY <1>9 DEF Forget
  <2>2. UNCHANGED <<live, req, obj>> /\ \E l \in PCs \ Listed : Goto(t, l)
    BY <1>9 DEF Forget, Listed, PCs
  <2> QED
    BY <1>6, <2>1, <2>2
<1>10. ASSUME NEW t \in Tasks, Drop(t) PROVE AllAttached'
  <2>1. live' = live \ {obj[t]} /\ UNCHANGED <<main, req, obj>>
    BY <1>10 DEF Drop
  <2>2. Members(obj[t]) = {} /\ ~(main.at = "found" /\ main.obj = obj[t])
    BY <1>10 DEF Drop, InUse
  <2>3. ASSUME NEW u \in Tasks, pc'[u] \in Listed, Kind(u)' \notin Readers
        PROVE  obj'[u] \in live' /\ obj'[u].cid = Cid(u)'
    <3>1. pc[u] \in Listed
      BY <1>10, <2>3 DEF Drop, Goto, Listed
    <3>2. obj[u] \in live /\ obj[u].cid = Cid(u) /\ Kind(u) \notin Readers
      BY <2>1, <2>3, <3>1 DEF Kind
    <3>3. u \in Members(obj[u])
      BY <3>1, <3>2 DEF Members, Kind
    <3> QED
      BY <2>1, <2>2, <3>2, <3>3 DEF Cid
  <2> QED
    BY <2>1, <2>2, <2>3
<1>12. CASE UNCHANGED vars
  BY <1>12 DEF vars, Kind, Cid
<1> QED
  BY <1>1, <1>2, <1>4, <1>5, <1>7, <1>8, <1>9, <1>10, <1>11, <1>12 DEF Next, MainStep, TimerStep, Idle

LEMMA AttachedAlways == Spec => []Attached
BY InitTypes, InitAttached, NextTypes, NextAttached, PTL DEF Spec

\* Two tasks of one container share its one object, hence its lock.
LEMMA AttachedExcludes == TypeInv /\ LockDiscipline /\ Attached => Exclusive
<1> SUFFICES ASSUME TypeInv, LockDiscipline, Attached, ~raced,
                    NEW t \in Tasks, NEW u \in Tasks,
                    pc[t] \in Inside, pc[u] \in Inside, Cid(t) = Cid(u)
             PROVE  t = u
  BY DEF Exclusive, NoOverlap
<1>1. Locked(t) /\ Locked(u)
  BY DEF TypeInv, Formed
<1>2. obj[t] \in live /\ obj[u] \in live /\ obj[t].cid = obj[u].cid
  BY <1>1 DEF Attached, AllAttached, Inside, Listed, PCs, Locked, Mutators, Readers
<1>3. MyLock(t) = MyLock(u)
  BY <1>2 DEF Attached, OneObject, MyLock
<1> QED
  BY <1>1, <1>3 DEF LockDiscipline

\* For any number of containers, requests and tasks, and wherever threads are
\* switched, the tasks of a container exclude each other until a timer drops
\* a Container object that is in use: no other interleaving breaks the lock.
THEOREM Exclusion == Spec => []Exclusive
BY TypesAlways, LockSafe, AttachedAlways, AttachedExcludes, PTL
-----------------------------------------------------------------------------
(* Operations. *)

\* What polling shows and what was told at each point of a task: an outcome
\* only after the task announced it, and nothing any more once the timer has
\* fired.
OpFollows(t) ==
  /\ pc[t] \in {"unborn", "raised"} => ops[t] = "none" /\ told[t] = <<>>
  /\ pc[t] \in {"refresh", "check", "mark", "wait", "open", "work", "announce"} => ops[t] = "running"
  /\ pc[t] = "save" => ops[t] = "running" \/ (ops[t] = "failed" /\ AnnouncesFirst(t, res[t]))
  /\ pc[t] = "leave" => ops[t] \in {"running", "finished", "failed"}
  /\ pc[t] = "dead" => ops[t] = "running"
  /\ pc[t] = "refused" => ops[t] = "failed" /\ told[t] = <<"failed">>
  /\ pc[t] = "linger" => ops[t] \in {"finished", "failed"}
  /\ pc[t] \in {"forget", "emptycheck", "drop", "gone"} => ops[t] = "gone"
  /\ ops[t] = "running" => told[t] = <<>>

OpsFollow == \A t \in Tasks : OpFollows(t)

LEMMA InitOps == Init => OpsFollow
BY DEF Init, OpsFollow, OpFollows

\* The first signal of an operation is its outcome.
LEMMA FirstSignal ==
  ASSUME TypeInv, OpsFollow, NEW t \in Tasks, NEW s \in {"finished", "failed"}, Signal(t, s), ops[t] = "running"
  PROVE  /\ ops' = [ops EXCEPT ![t] = s] /\ told' = [told EXCEPT ![t] = <<s>>]
         /\ ops'[t] = s /\ told'[t] = <<s>>
<1>1. told[t] = <<>>
  BY DEF OpsFollow, OpFollows
<1>2. told' = [told EXCEPT ![t] = Append(told[t], s)]
  BY DEF Signal
<1>3. Append(<<>>, s) = <<s>>
  OBVIOUS
<1>4. told' = [told EXCEPT ![t] = <<s>>]
  BY <1>1, <1>2, <1>3
<1>5. ops' = [ops EXCEPT ![t] = s]
  BY DEF Signal, TypeInv, TypeOK
<1>6. ops'[t] = s
  BY <1>5 DEF TypeInv, TypeOK
<1>7. told'[t] = <<s>>
  BY <1>4 DEF TypeInv, TypeOK
<1> QED
  BY <1>4, <1>5, <1>6, <1>7

\* A refused task says so, and then that it has finished.
LEMMA SecondSignal ==
  ASSUME TypeInv, OpsFollow, NEW t \in Tasks, FinishRefused(t)
  PROVE  /\ ops' = ops
         /\ told' = [told EXCEPT ![t] = Append(told[t], "finished")]
<1>1. ops[t] = "failed" /\ told[t] = <<"failed">>
  BY DEF FinishRefused, OpsFollow, OpFollows
<1>4. told' = [told EXCEPT ![t] = Append(told[t], "finished")]
  BY DEF FinishRefused, Signal
<1>5. ops' = [ops EXCEPT ![t] = "failed"]
  BY <1>1 DEF FinishRefused, Signal
<1>6. ops' = ops
  BY <1>1, <1>5 DEF TypeInv, TypeOK
<1> QED
  BY <1>4, <1>6

\* A step that touches one task leaves the others as they were.
LEMMA OpsElsewhere ==
  ASSUME OpsFollow, NEW t \in Tasks,
         \A u \in Tasks : u # t => /\ req'[u] = req[u] /\ pc'[u] = pc[u] /\ ops'[u] = ops[u]
                                   /\ told'[u] = told[u] /\ res'[u] = res[u],
         OpFollows(t)'
  PROVE  OpsFollow'
BY DEF OpsFollow, OpFollows, AnnouncesFirst, Kind

\* A task that goes to another step, with its operation as it was.
LEMMA OpsGoto ==
  ASSUME TypeInv, OpsFollow, NEW t \in Tasks, NEW l, pc' = [pc EXCEPT ![t] = l], UNCHANGED <<req, ops, told, res>>,
         OpFollows(t)'
  PROVE  OpsFollow'
BY OpsElsewhere DEF TypeInv, TypeOK

\* A task whose operation ends.
LEMMA OpsSignal ==
  ASSUME TypeInv, OpsFollow, NEW t \in Tasks, NEW l, pc' = [pc EXCEPT ![t] = l], NEW s, Signal(t, s),
         UNCHANGED <<req, res>>, OpFollows(t)'
  PROVE  OpsFollow'
BY OpsElsewhere DEF Signal, TypeInv, TypeOK

LEMMA NextOps == TypeInv /\ OpsFollow /\ [Next]_vars => OpsFollow'
<1> SUFFICES ASSUME TypeInv, OpsFollow, [Next]_vars PROVE OpsFollow'
  OBVIOUS
<1>0. ASSUME NEW t \in Tasks PROVE OpFollows(t) /\ (pc[t] # "unborn" => t <= created)
  BY DEF OpsFollow, TypeInv, TypeOK, Formed, Tasks
<1>1. ASSUME NEW r \in Requests, FindOrCreate(r) PROVE OpsFollow'
  BY <1>1 DEF FindOrCreate, OpsFollow, OpFollows, AnnouncesFirst, Kind
<1>2. CASE Reuse
  BY <1>2 DEF Reuse, OpsFollow, OpFollows, AnnouncesFirst, Kind
<1>3. ASSUME NEW r, NEW o, created < MaxTasks, Start(r, o), UNCHANGED res PROVE OpsFollow'
  <2>1. PICK n \in Tasks : n = created + 1 /\ pc[n] = "unborn"
    BY <1>3, MaxTasksAssumption DEF TypeInv, TypeOK, Formed, Tasks
  <2>2. pc'[n] = "refresh" /\ ops'[n] = "running" /\ told'[n] = <<>>
    BY <1>0, <1>3, <2>1 DEF Start, Goto, TypeInv, TypeOK, OpFollows
  <2>3. OpFollows(n)'
    BY <2>2 DEF OpFollows
  <2> QED
    BY <1>3, <2>1, <2>3, OpsElsewhere DEF Start, Goto, TypeInv, TypeOK
<1>4. CASE Dispatch
  <2>1. created < MaxTasks
    BY <1>4 DEF Dispatch, TypeInv, Formed
  <2> QED
    BY <1>3, <1>4, <2>1 DEF Dispatch
<1>18. CASE DispatchRaises
  <2>1. PICK n \in Tasks : n = created + 1 /\ pc[n] = "unborn"
    BY <1>18, MaxTasksAssumption DEF DispatchRaises, TypeInv, TypeOK, Formed, Tasks
  <2>2. pc'[n] = "raised" /\ ops'[n] = "none" /\ told'[n] = <<>>
    BY <1>0, <1>18, <2>1 DEF DispatchRaises, Goto, TypeInv, TypeOK, OpFollows
  <2>3. OpFollows(n)'
    BY <2>2 DEF OpFollows
  <2> QED
    BY <1>18, <2>1, <2>3, OpsElsewhere DEF DispatchRaises, Goto, TypeInv, TypeOK
<1>5. ASSUME NEW r \in Requests, DispatchContainerless(r) PROVE OpsFollow'
  BY <1>3, <1>5 DEF DispatchContainerless
<1>6. ASSUME NEW t \in Tasks, Refresh(t) \/ Check(t) \/ Mark(t) PROVE OpsFollow'
  <2>1. PICK l \in {"check", "mark", "wait"} : pc' = [pc EXCEPT ![t] = l]
    BY <1>6 DEF Refresh, Check, Mark, Goto
  <2>2. UNCHANGED <<req, ops, told, res>> /\ ops[t] = "running"
    BY <1>0, <1>6 DEF Refresh, Check, Mark, OpFollows
  <2>3. OpFollows(t)'
    BY <1>0, <2>1, <2>2 DEF TypeInv, TypeOK, OpFollows
  <2> QED
    BY <2>1, <2>2, <2>3, OpsGoto
<1>19. ASSUME NEW t \in Tasks, Refuse(t) PROVE OpsFollow'
  <2>1. ops[t] = "running" /\ pc' = [pc EXCEPT ![t] = "refused"] /\ Signal(t, "failed")
    BY <1>0, <1>19 DEF Refuse, Goto, OpFollows
  <2>2. ops'[t] = "failed" /\ told'[t] = <<"failed">>
    BY <2>1, FirstSignal
  <2>3. OpFollows(t)'
    BY <2>1, <2>2 DEF TypeInv, TypeOK, OpFollows
  <2> QED
    BY <1>19, <2>1, <2>3, OpsSignal DEF Refuse
<1>20. ASSUME NEW t \in Tasks, FinishRefused(t) PROVE OpsFollow'
  <2>1. ops[t] = "failed" /\ ops' = ops /\ pc' = [pc EXCEPT ![t] = "linger"]
    BY <1>0, <1>20, SecondSignal DEF FinishRefused, Goto, OpFollows
  <2>2. OpFollows(t)'
    BY <2>1 DEF TypeInv, TypeOK, OpFollows
  <2> QED
    BY <1>20, <2>1, <2>2, OpsSignal DEF FinishRefused
<1>7. ASSUME NEW t \in Tasks, Enter(t) PROVE OpsFollow'
  <2>1. PICK l \in {"open", "work", "dead"} : pc' = [pc EXCEPT ![t] = l]
    BY <1>7 DEF Enter, Die, Goto
  <2>2. UNCHANGED <<req, ops, told, res>> /\ ops[t] = "running"
    BY <1>0, <1>7 DEF Enter, OpFollows
  <2>3. OpFollows(t)'
    BY <1>0, <2>1, <2>2 DEF TypeInv, TypeOK, OpFollows
  <2> QED
    BY <2>1, <2>2, <2>3, OpsGoto
<1>8. ASSUME NEW t \in Tasks, NEW r \in {"ok", "failed"}, Conclude(t, r), ops[t] = "running",
             UNCHANGED <<ops, told, req>>
      PROVE  OpsFollow'
  <2>1. OpFollows(t)'
    BY <1>0, <1>8 DEF Conclude, Goto, TypeInv, TypeOK, OpFollows
  <2> QED
    BY <1>8, <2>1, OpsElsewhere DEF Conclude, Goto, TypeInv, TypeOK
<1>21. ASSUME NEW t \in Tasks, Goto(t, "work") \/ Goto(t, "dead"), UNCHANGED <<req, ops, told, res>>,
              ops[t] = "running"
       PROVE  OpsFollow'
  <2>1. PICK l \in {"work", "dead"} : pc' = [pc EXCEPT ![t] = l]
    BY <1>21 DEF Goto
  <2>2. OpFollows(t)'
    BY <1>0, <1>21, <2>1 DEF TypeInv, TypeOK, OpFollows
  <2> QED
    BY <1>21, <2>1, <2>2, OpsGoto
<1>9. ASSUME NEW t \in Tasks, Open(t) PROVE OpsFollow'
  <2>1. ops[t] = "running" /\ UNCHANGED <<ops, told, req>>
    BY <1>0, <1>9 DEF Open, OpFollows
  <2> QED
    BY <1>8, <1>9, <1>21, <2>1 DEF Open
<1>10. ASSUME NEW t \in Tasks, WorkInSession(t) PROVE OpsFollow'
  <2>1. ops[t] = "running" /\ UNCHANGED <<ops, told, req>>
    BY <1>0, <1>10 DEF WorkInSession, OpFollows
  <2> QED
    BY <1>8, <1>10, <2>1 DEF WorkInSession
<1>11. ASSUME NEW t \in Tasks, WorkOnContainer(t) PROVE OpsFollow'
  <2>1. ops[t] = "running" /\ UNCHANGED <<ops, told, req>>
    BY <1>0, <1>11 DEF WorkOnContainer, OpFollows
  <2> QED
    BY <1>8, <1>11, <1>21, <2>1 DEF WorkOnContainer, Die
<1>12. ASSUME NEW t \in Tasks, Save(t) PROVE OpsFollow'
  <2>1. /\ pc[t] = "save" /\ UNCHANGED <<req, ops, told, res>>
        /\ ops[t] = "running" \/ (ops[t] = "failed" /\ AnnouncesFirst(t, res[t]))
    BY <1>0, <1>12 DEF Save, OpFollows
  <2>2. \/ pc' = [pc EXCEPT ![t] = "dead"] /\ Deletes(t)
        \/ pc' = [pc EXCEPT ![t] = "leave"]
        \/ pc' = [pc EXCEPT ![t] = "announce"] /\ ~AnnouncesFirst(t, res[t])
    BY <1>12 DEF Save, Die, Leave, Goto
  <2>3. Deletes(t) => ~AnnouncesFirst(t, res[t])
    BY DEF Deletes, AnnouncesFirst
  <2>4. PICK l \in {"dead", "leave", "announce"} :
           /\ pc' = [pc EXCEPT ![t] = l]
           /\ l # "leave" => ops[t] = "running"
    BY <2>1, <2>2, <2>3
  <2>5. OpFollows(t)'
    BY <1>0, <2>1, <2>4 DEF TypeInv, TypeOK, OpFollows
  <2> QED
    BY <2>1, <2>4, <2>5, OpsGoto
<1>13. ASSUME NEW t \in Tasks, Announce(t) PROVE OpsFollow'
  <2>1. ops[t] = "running" /\ Signal(t, Outcome(t)) /\ Outcome(t) \in {"finished", "failed"}
    BY <1>0, <1>13 DEF Announce, Outcome, OpFollows
  <2>2. ops'[t] = Outcome(t) /\ told'[t] # <<>>
    BY <2>1, FirstSignal
  <2>3. \/ pc' = [pc EXCEPT ![t] = "save"] /\ AnnouncesFirst(t, res[t])
        \/ pc' = [pc EXCEPT ![t] = "leave"]
    BY <1>13 DEF Announce, Leave, Goto
  <2>4. PICK l \in {"save", "leave"} :
           pc' = [pc EXCEPT ![t] = l] /\ (l = "save" => AnnouncesFirst(t, res[t]))
    BY <2>3
  <2>5. AnnouncesFirst(t, res[t]) => Outcome(t) = "failed"
    BY DEF AnnouncesFirst, Outcome
  <2>6. pc'[t] = l /\ UNCHANGED <<req, res>>
    BY <1>13, <2>4 DEF Announce, TypeInv, TypeOK
  <2>7. OpFollows(t)'
    BY <2>1, <2>2, <2>4, <2>5, <2>6 DEF OpFollows, AnnouncesFirst, Kind
  <2> QED
    BY <2>1, <2>4, <2>6, <2>7, OpsSignal
<1>22. ASSUME NEW t \in Tasks, NEW l \in {"leave", "linger"}, pc' = [pc EXCEPT ![t] = l],
              NEW s \in {"finished", "failed"}, Signal(t, s), ops[t] = "running", UNCHANGED <<req, res>>
       PROVE  OpsFollow'
  <2>1. ops'[t] = s
    BY <1>22, FirstSignal
  <2>2. OpFollows(t)'
    BY <1>22, <2>1 DEF TypeInv, TypeOK, OpFollows
  <2> QED
    BY <1>22, <2>2, OpsSignal
<1>23. ASSUME NEW t \in Tasks, NEW l \in {"leave", "linger", "dead"}, pc' = [pc EXCEPT ![t] = l],
              UNCHANGED <<req, ops, told, res>>, OpFollows(t)'
       PROVE  OpsFollow'
  BY <1>23, OpsGoto
<1>14. ASSUME NEW t \in Tasks, Read(t) PROVE OpsFollow'
  <2>1. ops[t] = "running" /\ told[t] = <<>> /\ UNCHANGED <<req, res>>
    BY <1>0, <1>14 DEF Read, OpFollows
  <2>2. CASE Signal(t, "failed") /\ Goto(t, "leave")
    BY <1>22, <2>1, <2>2 DEF Goto
  <2>3. CASE UNCHANGED <<ops, told>> /\ (Goto(t, "leave") \/ Goto(t, "dead"))
    <3>1. PICK l \in {"leave", "dead"} : pc' = [pc EXCEPT ![t] = l]
      BY <2>3 DEF Goto
    <3>2. OpFollows(t)'
      BY <2>1, <2>3, <3>1 DEF OpFollows, TypeInv, TypeOK
    <3> QED
      BY <1>23, <2>1, <2>3, <3>1, <3>2
  <2> QED
    BY <1>14, <2>2, <2>3 DEF Read
<1>15. ASSUME NEW t \in Tasks, Finish(t) PROVE OpsFollow'
  <2>1. ops[t] \in {"running", "finished", "failed"} /\ UNCHANGED <<req, res>> /\ pc' = [pc EXCEPT ![t] = "linger"]
    BY <1>0, <1>15 DEF Finish, Goto, OpFollows
  <2>2. CASE ops[t] = "running"
    BY <1>15, <1>22, <2>1, <2>2 DEF Finish, running, done
  <2>3. CASE ops[t] # "running"
    <3>1. UNCHANGED <<ops, told>>
      BY <1>15, <2>1, <2>3 DEF Finish, running, done
    <3>2. OpFollows(t)'
      BY <2>1, <2>3, <3>1 DEF OpFollows, TypeInv, TypeOK
    <3> QED
      BY <1>23, <2>1, <3>1, <3>2
  <2> QED
    BY <2>2, <2>3
<1>16. ASSUME NEW t \in Tasks, TimerStep(t) PROVE OpsFollow'
  <2>1. PICK l \in {"forget", "emptycheck", "drop", "gone"} : pc' = [pc EXCEPT ![t] = l]
    BY <1>16 DEF TimerStep, RemoveFromConnection, Forget, CheckEmpty, Drop, Goto
  <2>2. ops'[t] = "gone" /\ UNCHANGED <<req, told, res>> /\ (ops' = ops \/ ops' = [ops EXCEPT ![t] = "gone"])
    BY <1>0, <1>16 DEF TimerStep, RemoveFromConnection, Forget, CheckEmpty, Drop, OpFollows, TypeInv, TypeOK
  <2>3. OpFollows(t)'
    BY <2>1, <2>2 DEF OpFollows, TypeInv, TypeOK
  <2> QED
    BY <2>1, <2>2, <2>3, OpsElsewhere DEF TypeInv, TypeOK
<1>17. CASE UNCHANGED vars
  BY <1>17 DEF vars, OpsFollow, OpFollows, AnnouncesFirst, Kind
<1> QED
  BY <1>1, <1>2, <1>4, <1>5, <1>6, <1>7, <1>9, <1>10, <1>11, <1>12, <1>13, <1>14, <1>15, <1>16, <1>17,
     <1>18, <1>19, <1>20
     DEF Next, MainStep, TaskStep, Idle

LEMMA OpsAlways == Spec => []OpsFollow
BY InitTypes, InitOps, NextTypes, NextOps, PTL DEF Spec

\* An operation gets its outcome, and says it.
Ends(t) ==
  /\ ops[t] = "running"
  /\ \E s \in {"finished", "failed"} : ops' = [ops EXCEPT ![t] = s] /\ told' = [told EXCEPT ![t] = <<s>>]
  /\ UNCHANGED reply

\* What a step of a task does to its operation: nothing, or it ends it, or
\* it sends the second signal of a refusal.
LEMMA TaskStepOps ==
  ASSUME TypeInv, OpsFollow, NEW t \in Tasks, TaskStep(t)
  PROVE  UNCHANGED <<ops, told, reply>> \/ Ends(t) \/ (FinishRefused(t) /\ UNCHANGED <<ops, reply>>)
<1> USE DEF OpsFollow, OpFollows, Ends
<1>1. CASE Refuse(t)
  BY <1>1, FirstSignal DEF Refuse
<1>2. CASE Announce(t)
  BY <1>2, FirstSignal DEF Announce, Outcome
<1>3. CASE Read(t)
  BY <1>3, FirstSignal DEF Read
<1>4. CASE Finish(t)
  <2>1. CASE running(t)
    <3>1. ops[t] = "running" /\ Signal(t, "finished") /\ UNCHANGED reply
      BY <1>4, <2>1 DEF Finish, running, done
    <3> QED
      BY <3>1, FirstSignal
  <2>2. CASE ~running(t)
    BY <1>4, <2>2 DEF Finish
  <2> QED
    BY <2>1, <2>2
<1>5. CASE FinishRefused(t)
  BY <1>5, SecondSignal DEF FinishRefused
<1> QED
  BY <1>1, <1>2, <1>3, <1>4, <1>5
     DEF TaskStep, Refresh, Check, Mark, Enter, Open, WorkInSession, WorkOnContainer, Save

\* The timer removes an operation that has ended.
Removes(t) == ops[t] \in {"finished", "failed"} /\ ops' = [ops EXCEPT ![t] = "gone"] /\ UNCHANGED told

LEMMA TimerStepOps ==
  ASSUME TypeInv, OpsFollow, NEW t \in Tasks, TimerStep(t)
  PROVE  UNCHANGED <<ops, told, reply>> \/ Removes(t)
BY DEF TypeInv, TypeOK, OpsFollow, OpFollows, TimerStep, RemoveFromConnection, Forget, CheckEmpty, Drop, Removes

\* A new task is a new operation.
Begins(t) ==
  /\ ops[t] = "none" /\ ops' = [ops EXCEPT ![t] = "running"] /\ UNCHANGED told
  /\ reply' = t /\ pc[t] # "forget" /\ pc' = [pc EXCEPT ![t] = "refresh"]

LEMMA StartOps ==
  ASSUME TypeInv, OpsFollow, created < MaxTasks, NEW r, NEW o, Start(r, o)
  PROVE  \E t \in Tasks : Begins(t)
<1>1. created + 1 \in Tasks /\ pc[created + 1] = "unborn"
  BY MaxTasksAssumption DEF TypeInv, TypeOK, Formed, Tasks
<1> QED
  BY <1>1 DEF OpsFollow, OpFollows, Start, Goto, Begins

\* What OutcomeStands says of one step.
OutcomeStep ==
  \A t \in Tasks :
    /\ done(t) => ops'[t] \in {ops[t], "gone"}
    /\ ops[t] = "running" => ops'[t] \in {"running", "finished", "failed"}
    /\ ops[t] = "gone" => ops'[t] = "gone"
    /\ told'[t] # told[t] =>
         \/ told[t] = <<>> /\ told'[t] = <<ops'[t]>>
         \/ pc[t] = "refused" /\ told[t] = <<"failed">> /\ told'[t] = Append(told[t], "finished")

LEMMA NextOutcome == TypeInv /\ OpsFollow /\ [Next]_vars => OutcomeStep
<1> SUFFICES ASSUME TypeInv, OpsFollow, [Next]_vars PROVE OutcomeStep
  OBVIOUS
<1>1. ASSUME UNCHANGED <<ops, told>> PROVE OutcomeStep
  BY <1>1 DEF OutcomeStep, done
<1>2. ASSUME NEW t \in Tasks, Begins(t) \/ Removes(t) PROVE OutcomeStep
  BY <1>2 DEF OutcomeStep, done, TypeInv, TypeOK, Begins, Removes
<1>3. ASSUME NEW t \in Tasks, Ends(t) PROVE OutcomeStep
  <2>1. PICK s \in {"finished", "failed"} : ops' = [ops EXCEPT ![t] = s] /\ told' = [told EXCEPT ![t] = <<s>>]
    BY <1>3 DEF Ends
  <2>2. ops'[t] = s /\ told'[t] = <<s>> /\ told[t] = <<>> /\ ops[t] = "running"
    BY <1>3, <2>1 DEF Ends, TypeInv, TypeOK, OpsFollow, OpFollows
  <2>3. \A u \in Tasks : u # t => ops'[u] = ops[u] /\ told'[u] = told[u]
    BY <2>1 DEF TypeInv, TypeOK
  <2> QED
    BY <2>2, <2>3 DEF OutcomeStep, done
<1>4. ASSUME NEW t \in Tasks, FinishRefused(t) PROVE OutcomeStep
  <2>1. ops' = ops /\ told' = [told EXCEPT ![t] = Append(told[t], "finished")]
    BY <1>4, SecondSignal
  <2>2. pc[t] = "refused" /\ told[t] = <<"failed">>
    BY <1>4 DEF FinishRefused, OpsFollow, OpFollows
  <2>3. told'[t] = Append(told[t], "finished") /\ \A u \in Tasks : u # t => told'[u] = told[u]
    BY <2>1 DEF TypeInv, TypeOK
  <2> QED
    BY <2>1, <2>2, <2>3 DEF OutcomeStep, done
<1>5. CASE Dispatch
  <2>1. created < MaxTasks /\ Start(main.req, main.obj)
    BY <1>5 DEF Dispatch, TypeInv, Formed
  <2> QED
    BY <1>2, <2>1, StartOps
<1>6. ASSUME NEW r \in Requests, DispatchContainerless(r) PROVE OutcomeStep
  BY <1>2, <1>6, StartOps DEF DispatchContainerless
<1>7. ASSUME NEW t \in Tasks, TaskStep(t) \/ TimerStep(t) PROVE OutcomeStep
  BY <1>1, <1>2, <1>3, <1>4, <1>7, TaskStepOps, TimerStepOps
<1>8. ASSUME NEW r \in Requests, FindOrCreate(r) PROVE OutcomeStep
  BY <1>1, <1>8 DEF FindOrCreate
<1>9. CASE Reuse \/ DispatchRaises \/ UNCHANGED vars
  BY <1>1, <1>9 DEF Reuse, DispatchRaises, vars
<1> QED
  BY <1>5, <1>6, <1>7, <1>8, <1>9 DEF Next, MainStep, Idle

\* An operation is announced once, by a signal that says what polling shows
\* from then on, however threads are switched; only a refusal sends two.
THEOREM OutcomesStand == Spec => OutcomeStands
BY NextOutcome, TypesAlways, OpsAlways, PTL DEF Spec, OutcomeStands, OutcomeStep

\* What the abstract specification sees of the operations.
Shown == [t \in Tasks |-> IF pc[t] = "forget" THEN "withdrawn" ELSE ops[t]]

\* A step of a task is seen as a change of its operation.
LEMMA ShownSame ==
  ASSUME TypeInv, UNCHANGED ops, \A t \in Tasks : pc'[t] = "forget" <=> pc[t] = "forget"
  PROVE  Shown' = Shown
BY DEF Shown

\* No step of a task begins or ends the time in which it is withdrawn.
LEMMA TaskNotWithdrawn ==
  ASSUME TypeInv, NEW t \in Tasks, TaskStep(t)
  PROVE  /\ pc[t] # "forget" /\ pc'[t] # "forget"
         /\ \A u \in Tasks : u # t => pc'[u] = pc[u]
<1>1. pc[t] # "forget"
  BY DEF TaskStep, Refresh, Check, Refuse, FinishRefused, Mark, Enter, Open, WorkInSession,
         WorkOnContainer, Save, Announce, Read, Finish
<1>2. \E l \in PCs \ {"forget"} : Goto(t, l)
  BY DEF TaskStep, Refresh, Check, Refuse, FinishRefused, Mark, Enter, Open, WorkInSession,
         WorkOnContainer, Save, Announce, Read, Finish, Conclude, Die, Leave, PCs
<1> QED
  BY <1>1, <1>2 DEF Goto, TypeInv, TypeOK

LEMMA TaskShown ==
  ASSUME TypeInv, OpsFollow, NEW t \in Tasks, TaskStep(t)
  PROVE  UNCHANGED <<Shown, reply>> \/ Lifecycle!End(t)
<1>1. CASE UNCHANGED <<ops, reply>>
  BY <1>1, TaskNotWithdrawn, ShownSame
<1>2. CASE Ends(t)
  <2>1. PICK s \in {"finished", "failed"} : ops' = [ops EXCEPT ![t] = s]
    BY <1>2 DEF Ends
  <2>2. Shown' = [Shown EXCEPT ![t] = s]
    BY <2>1, TaskNotWithdrawn DEF Shown, TypeInv, TypeOK
  <2>3. Shown[t] = "running"
    BY <1>2, TaskNotWithdrawn DEF Shown, Ends
  <2> QED
    BY <1>2, <2>2, <2>3 DEF Ends, Shown, Lifecycle!End, Lifecycle!Become
<1> QED
  BY <1>1, <1>2, TaskStepOps

\* The timer withdraws an operation that has ended, and then forgets it.
LEMMA TimerShown ==
  ASSUME TypeInv, OpsFollow, NEW t \in Tasks, TimerStep(t)
  PROVE  UNCHANGED <<Shown, reply>> \/ Lifecycle!Withdraw(t) \/ Lifecycle!Expire(t)
<1>1. CASE RemoveFromConnection(t)
  <2>1. Shown[t] \in {"finished", "failed"}
    BY <1>1 DEF RemoveFromConnection, Shown, OpsFollow, OpFollows
  <2>2. Shown' = [Shown EXCEPT ![t] = "withdrawn"]
    BY <1>1 DEF RemoveFromConnection, Goto, Shown, TypeInv, TypeOK
  <2> QED
    BY <1>1, <2>1, <2>2 DEF RemoveFromConnection, Shown, Lifecycle!Withdraw, Lifecycle!Become
<1>2. CASE Forget(t)
  <2>1. Shown[t] = "withdrawn" /\ ops[t] = "gone"
    BY <1>2 DEF Forget, Shown, OpsFollow, OpFollows
  <2>2. pc'[t] # "forget" /\ (\A u \in Tasks : u # t => pc'[u] = pc[u]) /\ ops' = ops
    BY <1>2 DEF Forget, Goto, TypeInv, TypeOK
  <2>3. Shown' = [Shown EXCEPT ![t] = "gone"]
    BY <2>1, <2>2 DEF Shown
  <2> QED
    BY <1>2, <2>1, <2>3 DEF Forget, Shown, Lifecycle!Expire, Lifecycle!Become
<1>3. CASE CheckEmpty(t) \/ Drop(t)
  <2>1. \A u \in Tasks : pc'[u] = "forget" <=> pc[u] = "forget"
    BY <1>3 DEF CheckEmpty, Drop, Goto, TypeInv, TypeOK
  <2>2. UNCHANGED <<ops, reply>>
    BY <1>3 DEF CheckEmpty, Drop
  <2> QED
    BY <2>1, <2>2, ShownSame
<1> QED
  BY <1>1, <1>2, <1>3 DEF TimerStep

LEMMA BeginShown ==
  ASSUME TypeInv, NEW t \in Tasks, Begins(t)
  PROVE  Lifecycle!Begin(t)
<1>1. Shown[t] = "none"
  BY DEF Begins, Shown
<1>2. Shown' = [Shown EXCEPT ![t] = "running"]
  BY DEF Begins, Shown, TypeInv, TypeOK
<1> QED
  BY <1>1, <1>2 DEF Begins, Shown, Lifecycle!Begin, Lifecycle!Become

\* An answered task is listed and not done: in flight, or just withdrawn.
LEMMA ReuseShares ==
  ASSUME TypeInv, OpsFollow, Reuse
  PROVE  \E t \in Tasks : Lifecycle!Share(t)
<1>1. PICK t \in Duplicates : reply' = t
  BY DEF Reuse
<1>2. t \in Tasks /\ pc[t] \in Listed /\ running(t)
  BY <1>1 DEF Duplicates, Members
<1>3. Shown[t] \in {"running", "withdrawn"}
  BY <1>2 DEF Shown, OpsFollow, OpFollows, Listed, PCs, running, done
<1>4. Shown' = Shown
  BY DEF Reuse, Shown
<1> QED
  BY <1>1, <1>2, <1>3, <1>4 DEF Shown, Lifecycle!Share

\* TaskService implements OperationLifecycle wherever threads are switched:
\* the operations of any number of clients go through one life each, and none
\* is handed out but those that run and those that were just withdrawn.
THEOREM Implements == Spec => KeepsLifecycle
<1>1. Init => Lifecycle!Init
  <2> SUFFICES ASSUME Init PROVE Lifecycle!Init
    OBVIOUS
  <2>1. Shown = [t \in Tasks |-> "none"]
    BY DEF Init, Shown
  <2> QED
    BY <2>1 DEF Init, Shown, Lifecycle!Init, Tasks
<1>2. ASSUME TypeInv, OpsFollow, [Next]_vars
      PROVE  [Lifecycle!Next]_<<Shown, reply>>
  <2> USE <1>2 DEF Lifecycle!Next
  <2>1. ASSUME NEW r \in Requests, FindOrCreate(r) PROVE UNCHANGED <<Shown, reply>>
    BY <2>1 DEF FindOrCreate, Shown
  <2>2. CASE Reuse
    BY <2>2, ReuseShares
  <2>3. CASE Dispatch
    <3>1. created < MaxTasks /\ Start(main.req, main.obj)
      BY <2>3 DEF Dispatch, TypeInv, Formed
    <3> QED
      BY <3>1, StartOps, BeginShown
  <2>4. ASSUME NEW r \in Requests, DispatchContainerless(r) PROVE \E t \in Tasks : Lifecycle!Begin(t)
    BY <2>4, StartOps, BeginShown DEF DispatchContainerless
  <2>5. ASSUME NEW t \in Tasks, TaskStep(t)
        PROVE  UNCHANGED <<Shown, reply>> \/ Lifecycle!End(t)
    BY <2>5, TaskShown
  <2>6. ASSUME NEW t \in Tasks, TimerStep(t)
        PROVE  UNCHANGED <<Shown, reply>> \/ Lifecycle!Withdraw(t) \/ Lifecycle!Expire(t)
    BY <2>6, TimerShown
  <2>7. CASE DispatchRaises
    <3>1. \A t \in Tasks : pc'[t] = "forget" <=> pc[t] = "forget"
      BY <2>7 DEF DispatchRaises, Goto, TypeInv, TypeOK, Formed
    <3> QED
      BY <2>7, <3>1, ShownSame DEF DispatchRaises
  <2>8. CASE UNCHANGED vars
    BY <2>8 DEF vars, Shown
  <2> QED
    BY <2>1, <2>2, <2>3, <2>4, <2>5, <2>6, <2>7, <2>8 DEF Next, MainStep, Idle
<1> QED
  BY <1>1, <1>2, TypesAlways, OpsAlways, PTL DEF Spec, KeepsLifecycle, Lifecycle!Spec, Shown
-----------------------------------------------------------------------------
(* Requests for the same thing. *)

\* What a handler finds is all there is: an unfinished task for the same thing
\* belongs to the object that was found, hence is among the duplicates.
LEMMA DuplicatesComplete ==
  ASSUME TypeInv, Attached, ~raced, OpsFollow, main.at = "found", main.req.kind \in Mutators,
         NEW t \in Tasks, ops[t] = "running", Cid(t) = main.req.cid, Same(main.req, req[t])
  PROVE  t \in Duplicates
<1>1. Kind(t) \notin Readers
  BY DEF Same, Kind, Mutators, Readers
<1>2. pc[t] \in Listed
  BY DEF OpsFollow, OpFollows, TypeInv, TypeOK, Listed, PCs
<1>3. obj[t] \in live /\ obj[t].cid = main.req.cid
  BY <1>1, <1>2 DEF Attached, AllAttached
<1>4. obj[t] = main.obj
  BY <1>3 DEF Attached, AllAttached, OneObject
<1> QED
  BY <1>1, <1>2, <1>4 DEF Duplicates, Members, Kind, running, done

\* Nothing but a new task makes an operation run.
LEMMA TwinsKept ==
  ASSUME NoTwins, ~raced, \A t \in Tasks : ops'[t] = "running" => ops[t] = "running" /\ req'[t] = req[t],
         ops' = ops \/ req' = req
  PROVE  NoTwins'
BY DEF NoTwins, Kind, Cid

LEMMA NextTwins == TypeInv /\ Attached /\ OpsFollow /\ NoTwins /\ [Next]_vars => NoTwins'
<1> SUFFICES ASSUME TypeInv, Attached, OpsFollow, NoTwins, [Next]_vars, ~raced' PROVE NoTwins'
  BY DEF NoTwins
<1>0. ~raced
  BY RacedStays
<1>1. ASSUME NEW r, NEW o, Start(r, o), created < MaxTasks,
             r.kind \in Mutators =>
               \A t \in Tasks : ops[t] = "running" /\ Cid(t) = r.cid => ~Same(r, req[t])
      PROVE  NoTwins'
  <2>1. created + 1 \in Tasks /\ pc[created + 1] = "unborn"
    BY <1>1, MaxTasksAssumption DEF TypeInv, TypeOK, Formed, Tasks
  <2>2. \A t \in Tasks : t # created + 1 => req'[t] = req[t] /\ ops'[t] = ops[t]
    BY <1>1 DEF Start, TypeInv, TypeOK
  <2>3. req'[created + 1] = r
    BY <1>1, <2>1 DEF Start, TypeInv, TypeOK
  <2> SUFFICES ASSUME NEW t \in Tasks, NEW u \in Tasks,
                      req'[t].kind \in Mutators, ops'[t] = "running", ops'[u] = "running",
                      req'[t].cid = req'[u].cid, Same(req'[t], req'[u])
               PROVE  t = u
    BY DEF NoTwins, Kind, Cid, Same
  <2>4. CASE t # created + 1 /\ u # created + 1
    BY <1>0, <2>2, <2>4 DEF NoTwins, Kind, Cid
  <2>5. CASE t = created + 1 /\ u # created + 1
    BY <1>1, <2>2, <2>3, <2>5 DEF Cid
  <2>6. CASE t # created + 1 /\ u = created + 1
    <3>1. Same(r, req[t]) /\ r.kind \in Mutators
      BY <2>2, <2>3, <2>6 DEF Same
    <3> QED
      BY <1>1, <2>2, <2>3, <2>6, <3>1 DEF Cid
  <2> QED
    BY <2>4, <2>5, <2>6
<1>2. CASE Dispatch
  <2>1. created < MaxTasks /\ main.at = "found" /\ Start(main.req, main.obj)
    BY <1>2 DEF Dispatch, TypeInv, Formed
  <2>2. main.req.kind \in Mutators => \A u \in Duplicates : ops[u] # "running"
    BY <1>2 DEF Dispatch, Overlooks
  <2> QED
    BY <1>0, <1>1, <2>1, <2>2, DuplicatesComplete
<1>3. ASSUME NEW r \in Requests, DispatchContainerless(r) PROVE NoTwins'
  BY <1>1, <1>3 DEF DispatchContainerless, Mutators, Readers
<1>4. ASSUME NEW r \in Requests, FindOrCreate(r) PROVE NoTwins'
  BY <1>0, <1>4, TwinsKept DEF FindOrCreate
<1>5. CASE Reuse
  BY <1>0, <1>5, TwinsKept DEF Reuse
<1>8. CASE DispatchRaises
  <2>1. ops' = ops /\ \A t \in Tasks : t # created + 1 => req'[t] = req[t]
    BY <1>8 DEF DispatchRaises, TypeInv, TypeOK
  <2>2. \A t \in Tasks : t = created + 1 => ops[t] = "none"
    BY DEF TypeInv, TypeOK, Formed, OpsFollow, OpFollows
  <2> QED
    BY <1>0, <2>1, <2>2, TwinsKept
<1>6. ASSUME NEW t \in Tasks, TaskStep(t) \/ TimerStep(t) PROVE NoTwins'
  <2>1. req' = req
    BY <1>6 DEF TaskStep, TimerStep, Refresh, Check, Refuse, FinishRefused, Mark, Enter, Open, WorkInSession,
                WorkOnContainer, Save, Announce, Read, Finish, RemoveFromConnection, Forget, CheckEmpty, Drop
  <2>2. ops' = ops \/ Ends(t) \/ Removes(t)
    BY <1>6, TaskStepOps, TimerStepOps
  <2>3. \A u \in Tasks : ops'[u] = "running" => ops[u] = "running"
    BY <2>2 DEF Ends, Removes, TypeInv, TypeOK
  <2> QED
    BY <1>0, <2>1, <2>3, TwinsKept
<1>7. CASE UNCHANGED vars
  BY <1>0, <1>7, TwinsKept DEF vars
<1> QED
  BY <1>2, <1>3, <1>4, <1>5, <1>6, <1>7, <1>8 DEF Next, MainStep, Idle

\* Container.install ... update look for an unfinished task of the same kind (and
\* package): for any number of clients that ask at the same time no container
\* ever has two, until an object is dropped in use or a task is stepped over.
THEOREM NeverTwins == Spec => []NoTwins
<1>1. Init => NoTwins
  BY DEF Init, NoTwins
<1> QED
  BY <1>1, NextTwins, TypesAlways, AttachedAlways, OpsAlways, PTL DEF Spec
=============================================================================
