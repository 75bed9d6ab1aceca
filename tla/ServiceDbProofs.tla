--------------------------- MODULE ServiceDbProofs ---------------------------
(***************************************************************************)
(* The database of TaskService for any requests and number of tasks: each  *)
(* container and each package is listed once, although _before looks       *)
(* before it has the lock and add_new_container and add_new_package append *)
(* without looking; what a task marks it takes away again; and what an     *)
(* install reports is recorded.  What the updaters do is stated once, as   *)
(* what the getters answer afterwards.                                     *)
(***************************************************************************)
EXTENDS TaskServiceProofs

-----------------------------------------------------------------------------
(* The updaters. *)

Unique(d) ==
  \A c \in Cids :
    /\ Len(d[c]) <= 1
    /\ \A p \in Packages : Exists(d, c) => Len(d[c][1].pkgs[p]) <= 1

\* Nothing is listed in e that is not in d, and nothing more often.
NoMore(d, e) ==
  \A c \in Cids :
    \/ e[c] = d[c]
    \/ e[c] = <<>>
    \/ /\ Len(d[c]) = 1 /\ Len(e[c]) = 1
       /\ \A p \in Packages : Len(e[c][1].pkgs[p]) <= Len(d[c][1].pkgs[p])

LEMMA EmptyList == ASSUME NEW S, NEW s \in Seq(S), Len(s) = 0 PROVE s = <<>>
  OBVIOUS

LEMMA LengthType == ASSUME NEW S, NEW s \in Seq(S) PROVE Len(s) \in Nat
  OBVIOUS

LEMMA ListFacts ==
  ASSUME NEW S, NEW s \in Seq(S), s # <<>>
  PROVE  /\ Len(s) \in Nat \ {0} /\ Tail(s) \in Seq(S) /\ Len(Tail(s)) = Len(s) - 1
         /\ Len(s) <= 1 => Len(s) = 1 /\ Tail(s) = <<>>
<1>1. Len(s) \in Nat \ {0}
  OBVIOUS
<1>2. Tail(s) \in Seq(S) /\ Len(Tail(s)) = Len(s) - 1
  BY <1>1
<1>3. Len(Tail(s)) = 0 => Tail(s) = <<>>
  BY <1>2, EmptyList, Zenon
<1> QED
  BY <1>1, <1>2, <1>3

LEMMA FirstAlone ==
  ASSUME NEW S, NEW x \in S
  PROVE  <<x>> \o <<>> = <<x>>
  OBVIOUS

LEMMA EntriesAre ==
  ASSUME NEW d \in Databases, NEW c \in Cids
  PROVE  /\ d[c] \in Seq(Entries)
         /\ d[c] # <<>> => \A p \in Packages : d[c][1].pkgs[p] \in Seq(PkgStatuses)
  BY PkgListType DEF Databases

LEMMA NoMoreKeeps ==
  ASSUME NEW d \in Databases, NEW e \in Databases, Unique(d), NoMore(d, e)
  PROVE  /\ Unique(e)
         /\ \A c \in Cids : d[c] = <<>> => e[c] = <<>>
         /\ \A c \in Cids, p \in Packages : PkgStatus(d, c, p) = Absent => PkgStatus(e, c, p) = Absent
<1>1. ASSUME NEW c \in Cids PROVE d[c] = <<>> => e[c] = <<>>
  BY EntriesAre DEF NoMore
<1>2. ASSUME NEW c \in Cids
      PROVE  /\ Len(e[c]) <= 1
             /\ \A p \in Packages : Exists(e, c) => Len(e[c][1].pkgs[p]) <= 1
  <2>1. CASE e[c] = d[c]
    BY <2>1 DEF Unique, Exists
  <2>2. CASE e[c] = <<>>
    BY <2>2 DEF Exists
  <2>3. CASE /\ Len(d[c]) = 1 /\ Len(e[c]) = 1
             /\ \A p \in Packages : Len(e[c][1].pkgs[p]) <= Len(d[c][1].pkgs[p])
    <3>1. d[c] # <<>> /\ e[c] # <<>>
      <4>1. Len(<<>>) = 0
        OBVIOUS
      <4> QED
        BY <2>3, <4>1
    <3>2. \A p \in Packages : Len(d[c][1].pkgs[p]) \in Nat /\ Len(e[c][1].pkgs[p]) \in Nat
      <4>1. \A p \in Packages : d[c][1].pkgs[p] \in Seq(PkgStatuses) /\ e[c][1].pkgs[p] \in Seq(PkgStatuses)
        BY <3>1, EntriesAre
      <4> QED
        BY <4>1, LengthType, Zenon
    <3>3. \A p \in Packages : Len(d[c][1].pkgs[p]) <= 1
      BY <3>1 DEF Unique, Exists
    <3> QED
      BY <2>3, <3>2, <3>3
  <2> QED
    BY <2>1, <2>2, <2>3 DEF NoMore
<1>3. ASSUME NEW c \in Cids, NEW p \in Packages, PkgStatus(d, c, p) = Absent
      PROVE  PkgStatus(e, c, p) = Absent
  <2> SUFFICES ASSUME e[c] # <<>> PROVE e[c][1].pkgs[p] = <<>>
    BY DEF PkgStatus, Exists
  <2>1. d[c] # <<>>
    BY <1>1
  <2>2. d[c][1].pkgs[p] \in Seq(PkgStatuses) /\ e[c][1].pkgs[p] \in Seq(PkgStatuses)
    BY <2>1, EntriesAre
  <2>3. d[c][1].pkgs[p] = <<>>
    <3>1. d[c][1].pkgs[p] # <<>> => d[c][1].pkgs[p][1] \in PkgStatuses
      BY <2>2
    <3> QED
      BY <1>3, <2>1, <3>1 DEF PkgStatus, Exists, PkgStatuses, Absent
  <2>4. CASE e[c] = d[c]
    BY <2>3, <2>4
  <2>5. CASE Len(e[c][1].pkgs[p]) <= Len(d[c][1].pkgs[p])
    <3>1. Len(d[c][1].pkgs[p]) = 0 /\ Len(e[c][1].pkgs[p]) \in Nat
      BY <2>2, <2>3
    <3>2. Len(e[c][1].pkgs[p]) = 0
      BY <2>5, <3>1
    <3> QED
      BY <2>2, <3>2
  <2> QED
    BY <2>4, <2>5 DEF NoMore
<1> QED
  BY <1>1, <1>2, <1>3 DEF Unique

\* Changing the only entry of a container.
LEMMA UpdateKeeps ==
  ASSUME NEW d \in Databases, Unique(d), NEW c \in Cids, d[c] # <<>>, NEW e \in Entries,
         \A p \in Packages : Len(e.pkgs[p]) <= Len(d[c][1].pkgs[p])
  PROVE  NoMore(d, UpdateEntry(d, c, e))
<1>1. d[c] \in Seq(Entries) /\ Len(d[c]) <= 1
  BY EntriesAre DEF Unique
<1>2. Len(d[c]) = 1 /\ Tail(d[c]) = <<>>
  BY <1>1, ListFacts
<1>3. SetFirst(d[c], e) = <<e>>
  BY <1>2, FirstAlone DEF SetFirst
<1>4. Len(<<e>>) = 1 /\ <<e>>[1] = e
  OBVIOUS
<1>5. UpdateEntry(d, c, e) = [d EXCEPT ![c] = <<e>>]
  BY <1>3 DEF UpdateEntry
<1>6. /\ UpdateEntry(d, c, e)[c] = <<e>>
      /\ \A b \in Cids : b # c => UpdateEntry(d, c, e)[b] = d[b]
  BY <1>5 DEF Databases
<1> QED
  BY <1>2, <1>4, <1>6 DEF NoMore

LEMMA SameIsNoMore == ASSUME NEW d PROVE NoMore(d, d)
  BY DEF NoMore

LEMMA SetStatusKeeps ==
  ASSUME NEW d \in Databases, Unique(d), NEW c \in Cids, NEW s \in Statuses
  PROVE  NoMore(d, SetStatus(d, c, s))
<1>1. CASE d[c] = <<>>
  BY <1>1, SameIsNoMore DEF SetStatus, Exists
<1>2. CASE d[c] # <<>>
  <2> DEFINE e == [d[c][1] EXCEPT !.status = s]
  <2>1. d[c][1] \in Entries /\ e \in Entries
    BY <1>2, EntryType, StatusEntry
  <2>2. \A p \in Packages : e.pkgs[p] = d[c][1].pkgs[p] /\ Len(d[c][1].pkgs[p]) \in Nat
    BY <1>2, <2>1, EntriesAre DEF Entries
  <2>3. SetStatus(d, c, s) = UpdateEntry(d, c, e)
    BY <1>2 DEF SetStatus, Exists
  <2>4. \A p \in Packages : Len(e.pkgs[p]) <= Len(d[c][1].pkgs[p])
    BY <2>2
  <2> HIDE DEF e
  <2> QED
    BY <1>2, <2>1, <2>3, <2>4, UpdateKeeps
<1> QED
  BY <1>1, <1>2

LEMMA SetPkgsKeeps ==
  ASSUME NEW d \in Databases, Unique(d), NEW c \in Cids, NEW p \in Packages, d[c] # <<>>,
         NEW list \in Seq(PkgStatuses), Len(list) <= Len(d[c][1].pkgs[p])
  PROVE  NoMore(d, SetPkgs(d, c, p, list))
<1> DEFINE e == [d[c][1] EXCEPT !.pkgs[p] = list]
<1>1. d[c][1] \in Entries /\ e \in Entries
  BY EntryType, PkgsEntry
<1>2. e.pkgs = [d[c][1].pkgs EXCEPT ![p] = list]
  BY <1>1 DEF Entries
<1>3. \A q \in Packages : q # p => e.pkgs[q] = d[c][1].pkgs[q] /\ Len(d[c][1].pkgs[q]) \in Nat
  BY <1>1, <1>2, EntriesAre DEF Entries
<1>4. e.pkgs[p] = list
  BY <1>1, <1>2 DEF Entries
<1>5. SetPkgs(d, c, p, list) = UpdateEntry(d, c, e)
  BY DEF SetPkgs, Exists
<1> HIDE DEF e
<1>6. \A q \in Packages : Len(e.pkgs[q]) <= Len(d[c][1].pkgs[q])
  BY <1>3, <1>4
<1> QED
  BY <1>1, <1>5, <1>6, UpdateKeeps

LEMMA SetPkgStatusKeeps ==
  ASSUME NEW d \in Databases, Unique(d), NEW c \in Cids, NEW p \in Packages, NEW s \in PkgStatuses
  PROVE  NoMore(d, SetPkgStatus(d, c, p, s))
<1>1. CASE PkgStatus(d, c, p) = Absent
  BY <1>1, SameIsNoMore DEF SetPkgStatus
<1>2. CASE PkgStatus(d, c, p) # Absent
  <2>1. d[c] # <<>> /\ d[c][1].pkgs[p] # <<>>
    BY <1>2 DEF PkgStatus, Exists
  <2>2. d[c][1].pkgs[p] \in Seq(PkgStatuses)
    BY <2>1, EntriesAre
  <2>3. SetFirst(d[c][1].pkgs[p], s) \in Seq(PkgStatuses)
    BY <2>1, <2>2, SetFirstType
  <2>4. Len(SetFirst(d[c][1].pkgs[p], s)) = Len(d[c][1].pkgs[p]) /\ Len(d[c][1].pkgs[p]) \in Nat
    BY <2>1, <2>2 DEF SetFirst
  <2> QED
    BY <1>2, <2>1, <2>3, <2>4, SetPkgsKeeps DEF SetPkgStatus
<1> QED
  BY <1>1, <1>2

LEMMA DeletePackageKeeps ==
  ASSUME NEW d \in Databases, Unique(d), NEW c \in Cids, NEW p \in Packages
  PROVE  NoMore(d, DeletePackage(d, c, p))
<1>1. CASE PkgStatus(d, c, p) = Absent
  BY <1>1, SameIsNoMore DEF DeletePackage
<1>2. CASE PkgStatus(d, c, p) # Absent
  <2>1. d[c] # <<>> /\ d[c][1].pkgs[p] # <<>>
    BY <1>2 DEF PkgStatus, Exists
  <2>2. d[c][1].pkgs[p] \in Seq(PkgStatuses)
    BY <2>1, EntriesAre
  <2>3. Tail(d[c][1].pkgs[p]) \in Seq(PkgStatuses) /\ Len(Tail(d[c][1].pkgs[p])) <= Len(d[c][1].pkgs[p])
    <3> DEFINE list == d[c][1].pkgs[p]
    <3>1. list \in Seq(PkgStatuses) /\ list # <<>>
      BY <2>1, <2>2
    <3> HIDE DEF list
    <3>2. Tail(list) \in Seq(PkgStatuses) /\ Len(Tail(list)) <= Len(list)
      BY <3>1, ListFacts
    <3> QED
      BY <3>2 DEF list
  <2> QED
    BY <1>2, <2>1, <2>3, SetPkgsKeeps DEF DeletePackage
<1> QED
  BY <1>1, <1>2

LEMMA DeleteContainerKeeps ==
  ASSUME NEW d \in Databases, Unique(d), NEW c \in Cids, d[c] # <<>>
  PROVE  NoMore(d, DeleteContainer(d, c))
<1>1. d[c] \in Seq(Entries) /\ Len(d[c]) <= 1
  BY EntriesAre DEF Unique
<1>2. Tail(d[c]) = <<>>
  BY <1>1
<1>3. /\ DeleteContainer(d, c)[c] = <<>>
      /\ \A b \in Cids : b # c => DeleteContainer(d, c)[b] = d[b]
  BY <1>2 DEF DeleteContainer, Databases
<1> QED
  BY <1>3 DEF NoMore

-----------------------------------------------------------------------------
(* The service. *)

\* What a task has looked for before it took the lock is still absent when it
\* appends it.
StillAbsent ==
  \A t \in Tasks : pc[t] = "mark" =>
    /\ Kind(t) = "create" => db[Cid(t)] = <<>>
    /\ Kind(t) = "install" => PkgStatus(db, Cid(t), Pkg(t)) = Absent

UniqueInv == Unique(db) /\ StillAbsent

LEMMA InitUnique == Init => UniqueInv
<1> SUFFICES ASSUME Init PROVE UniqueInv
  OBVIOUS
<1>1. ASSUME NEW e \in RestEntries, NEW p \in Packages PROVE Len(e.pkgs[p]) <= 1
  <2>1. e.pkgs[p] \in {<<>>, <<"installed">>}
    BY DEF RestEntries
  <2>2. Len(<<>>) <= 1 /\ Len(<<"installed">>) <= 1
    OBVIOUS
  <2> QED
    BY <2>1, <2>2, Zenon
<1>2. ASSUME NEW c \in Cids
      PROVE  /\ Len(db[c]) <= 1
             /\ \A p \in Packages : Exists(db, c) => Len(db[c][1].pkgs[p]) <= 1
  <2>1. db[c] = <<>> \/ \E e \in RestEntries : db[c] = <<e>>
    BY DEF Init
  <2>2. CASE db[c] = <<>>
    <3>1. Len(<<>>) = 0
      OBVIOUS
    <3> QED
      BY <2>2, <3>1 DEF Exists
  <2>3. ASSUME NEW e \in RestEntries, db[c] = <<e>>
        PROVE  /\ Len(db[c]) <= 1
               /\ \A p \in Packages : Exists(db, c) => Len(db[c][1].pkgs[p]) <= 1
    <3>1. Len(<<e>>) = 1 /\ <<e>>[1] = e
      OBVIOUS
    <3> QED
      BY <1>1, <2>3, <3>1
  <2> QED
    BY <2>1, <2>2, <2>3
<1>3. StillAbsent
  BY DEF Init, StillAbsent
<1> QED
  BY <1>2, <1>3 DEF UniqueInv, Unique

\* A step that lists nothing more and whose tasks do not come to mark.
LEMMA NoMoreUnique ==
  ASSUME TypeInv, TypeInv', UniqueInv, NoMore(db, db'),
         \A t \in Tasks : pc'[t] = "mark" => pc[t] = "mark" /\ req'[t] = req[t]
  PROVE  UniqueInv'
<1>1. db \in Databases /\ db' \in Databases
  BY DEF TypeInv, TypeOK
<1>2. /\ Unique(db')
      /\ \A c \in Cids : db[c] = <<>> => db'[c] = <<>>
      /\ \A c \in Cids, p \in Packages : PkgStatus(db, c, p) = Absent => PkgStatus(db', c, p) = Absent
  BY <1>1, NoMoreKeeps DEF UniqueInv
<1>3. StillAbsent'
  <2> SUFFICES ASSUME NEW t \in Tasks, pc'[t] = "mark"
               PROVE  /\ req'[t].kind = "create" => db'[req'[t].cid] = <<>>
                      /\ req'[t].kind = "install" => PkgStatus(db', req'[t].cid, req'[t].pkg) = Absent
    BY DEF StillAbsent, Kind, Cid, Pkg
  <2>1. pc[t] = "mark" /\ req'[t] = req[t] /\ Cid(t) \in Cids /\ Pkg(t) \in Packages
    BY DEF TypeInv, Formed, AllRequests, Cid, Pkg
  <2> QED
    BY <1>2, <2>1 DEF UniqueInv, StillAbsent, Kind, Cid, Pkg
<1> QED
  BY <1>2, <1>3 DEF UniqueInv, Unique, Exists

\* A mark that lists something: first d, then a status in it.
LEMMA MarkUnique ==
  ASSUME TypeInv, TypeInv', NEW t \in Tasks, Mark(t),
         NEW d \in Databases, Unique(d), NoMore(d, db'),
         \A u \in Tasks : u # t /\ pc[u] = "mark" =>
           /\ Kind(u) = "create" => d[Cid(u)] = <<>>
           /\ Kind(u) = "install" => PkgStatus(d, Cid(u), Pkg(u)) = Absent
  PROVE  UniqueInv'
<1>1. /\ Unique(db')
      /\ \A c \in Cids : d[c] = <<>> => db'[c] = <<>>
      /\ \A c \in Cids, p \in Packages : PkgStatus(d, c, p) = Absent => PkgStatus(db', c, p) = Absent
  BY NoMoreKeeps DEF TypeInv, TypeOK
<1>2. req' = req /\ pc' = [pc EXCEPT ![t] = "wait"] /\ pc \in [Tasks -> PCs]
  BY DEF Mark, Goto, TypeInv, TypeOK
<1>3. StillAbsent'
  <2> SUFFICES ASSUME NEW u \in Tasks, pc'[u] = "mark"
               PROVE  /\ Kind(u) = "create" => db'[Cid(u)] = <<>>
                      /\ Kind(u) = "install" => PkgStatus(db', Cid(u), Pkg(u)) = Absent
    BY <1>2 DEF StillAbsent, Kind, Cid, Pkg
  <2>1. u # t /\ pc[u] = "mark"
    BY <1>2
  <2>2. Cid(u) \in Cids /\ Pkg(u) \in Packages
    BY <2>1 DEF TypeInv, Formed, AllRequests, Cid, Pkg
  <2> QED
    BY <1>1, <2>1, <2>2
<1> QED
  BY <1>1, <1>3 DEF UniqueInv, Unique, Exists

\* Whoever else is about to mark does so for something else.
LEMMA OthersDiffer ==
  ASSUME TypeInv, OpsFollow, NoTwins, ~raced, NEW t \in Tasks, NEW u \in Tasks, u # t,
         pc[t] = "mark", pc[u] = "mark", Kind(t) = Kind(u), Cid(t) = Cid(u)
  PROVE  /\ Kind(t) # "create"
         /\ Kind(t) = "install" => Pkg(t) # Pkg(u)
  BY DEF OpsFollow, OpFollows, NoTwins, Same, Kind, Cid, Pkg, Mutators

LEMMA CreateUnique ==
  ASSUME TypeInv, TypeInv', OpsFollow, NoTwins, ~raced, UniqueInv,
         NEW t \in Tasks, Mark(t), Kind(t) = "create"
  PROVE  UniqueInv'
<1> DEFINE c == Cid(t)
           new == NewEntry(req[t].type)
           d == AddContainer(db, c, req[t].type)
<1>1. pc[t] = "mark" /\ db' = SetStatus(d, c, "installing")
  BY DEF Mark, Marked
<1>2. db \in Databases /\ c \in Cids /\ req[t].type \in Types
  BY <1>1 DEF TypeInv, TypeOK, Formed, AllRequests, Cid
<1>3. d \in Databases
  BY <1>2, AddContainerType
<1>4. db[c] = <<>>
  BY <1>1 DEF UniqueInv, StillAbsent
<1>5. Append(<<>>, new) = <<new>> /\ Len(<<new>>) = 1 /\ <<new>>[1] = new
  OBVIOUS
<1>6. \A p \in Packages : new.pkgs[p] = <<>>
  BY DEF NewEntry
<1> HIDE DEF new
<1>7. d[c] = <<new>> /\ \A b \in Cids : b # c => d[b] = db[b]
  BY <1>2, <1>4, <1>5 DEF AddContainer, Databases, new
<1> HIDE DEF d, c
<1>8. Unique(d)
  <2>1. Len(<<>>) = 0
    OBVIOUS
  <2>2. Len(d[c]) <= 1 /\ \A p \in Packages : Len(d[c][1].pkgs[p]) <= 1
    BY <1>5, <1>6, <1>7, <2>1
  <2> QED
    BY <1>7, <2>2 DEF UniqueInv, Unique, Exists
<1>9. NoMore(d, db')
  BY <1>1, <1>2, <1>3, <1>8, SetStatusKeeps DEF Statuses
<1>10. ASSUME NEW u \in Tasks, u # t, pc[u] = "mark"
       PROVE  /\ Kind(u) = "create" => d[Cid(u)] = <<>>
              /\ Kind(u) = "install" => PkgStatus(d, Cid(u), Pkg(u)) = Absent
  <2>1. Cid(u) \in Cids /\ Pkg(u) \in Packages
    BY <1>10 DEF TypeInv, Formed, AllRequests, Cid, Pkg
  <2>2. CASE Cid(u) # c
    BY <1>7, <1>10, <2>1, <2>2 DEF UniqueInv, StillAbsent, PkgStatus, Exists
  <2>3. CASE Cid(u) = c
    <3>1. Kind(u) # "create"
      BY <1>1, <1>10, <2>3, OthersDiffer DEF c
    <3>2. PkgStatus(d, c, Pkg(u)) = Absent
      BY <1>5, <1>6, <1>7, <2>1 DEF PkgStatus
    <3> QED
      BY <2>3, <3>1, <3>2
  <2> QED
    BY <2>2, <2>3
<1> QED
  BY <1>3, <1>8, <1>9, <1>10, MarkUnique

LEMMA InstallUnique ==
  ASSUME TypeInv, TypeInv', OpsFollow, NoTwins, ~raced, UniqueInv,
         NEW t \in Tasks, Mark(t), Kind(t) = "install"
  PROVE  UniqueInv'
<1> DEFINE c == Cid(t)
           p == Pkg(t)
           d == AddPackage(db, c, p)
<1>1. pc[t] = "mark" /\ db' = SetPkgStatus(d, c, p, "installing")
  BY DEF Mark, Marked
<1>2. db \in Databases /\ c \in Cids /\ p \in Packages
  BY <1>1 DEF TypeInv, TypeOK, Formed, AllRequests, Cid, Pkg
<1>3. d \in Databases
  BY <1>2, AddPackageType
<1>4. PkgStatus(db, c, p) = Absent
  BY <1>1 DEF UniqueInv, StillAbsent
<1>5. CASE db[c] = <<>>
  <2>1. d = db
    BY <1>5 DEF AddPackage, Exists
  <2>2. NoMore(db, db')
    BY <1>1, <1>2, <2>1, SetPkgStatusKeeps DEF UniqueInv, PkgStatuses
  <2> QED
    BY <1>1, <2>2, NoMoreUnique DEF Mark, Goto, TypeInv, TypeOK
<1>6. CASE db[c] # <<>>
  <2>1. db[c][1] \in Entries /\ db[c][1].pkgs[p] \in Seq(PkgStatuses)
    BY <1>2, <1>6, EntryType, EntriesAre
  <2>2. db[c][1].pkgs[p] = <<>>
    <3>1. db[c][1].pkgs[p] # <<>> => db[c][1].pkgs[p][1] \in PkgStatuses
      BY <2>1
    <3> QED
      BY <1>4, <1>6, <3>1 DEF PkgStatus, Exists, PkgStatuses, Absent
  <2> DEFINE e == [db[c][1] EXCEPT !.pkgs[p] = <<"new">>]
  <2>3. <<"new">> \in Seq(PkgStatuses) /\ Append(<<>>, "new") = <<"new">> /\ Len(<<"new">>) = 1
    BY DEF PkgStatuses
  <2>4. e \in Entries
    BY <1>2, <2>1, <2>3, PkgsEntry
  <2>5. e.pkgs[p] = <<"new">> /\ \A q \in Packages : q # p => e.pkgs[q] = db[c][1].pkgs[q]
    BY <1>2, <2>1 DEF Entries
  <2>6. d = UpdateEntry(db, c, e)
    BY <1>6, <2>2, <2>3 DEF AddPackage, SetPkgs, Exists
  <2> HIDE DEF e
  <2>7. d[c] = <<e>> /\ \A b \in Cids : b # c => d[b] = db[b]
    <3>1. db[c] \in Seq(Entries) /\ Len(db[c]) <= 1
      BY <1>2, EntriesAre DEF UniqueInv, Unique
    <3>2. SetFirst(db[c], e) = <<e>>
      BY <1>6, <2>4, <3>1, ListFacts, FirstAlone DEF SetFirst
    <3>3. d = [db EXCEPT ![c] = <<e>>]
      BY <2>6, <3>2 DEF UpdateEntry
    <3> HIDE DEF d, c
    <3> QED
      BY <1>2, <3>3 DEF Databases
  <2>8. Len(<<e>>) = 1 /\ <<e>>[1] = e
    OBVIOUS
  <2> HIDE DEF d, c, p
  <2>9. Unique(d)
    <3>1. \A q \in Packages : Len(db[c][1].pkgs[q]) <= 1
      BY <1>2, <1>6 DEF UniqueInv, Unique, Exists
    <3>2. Len(d[c]) <= 1 /\ \A q \in Packages : Len(d[c][1].pkgs[q]) <= 1
      <4>1. d[c][1] = e /\ Len(d[c]) = 1
        BY <2>7, <2>8
      <4>2. Len(e.pkgs[p]) <= 1
        BY <2>3, <2>5
      <4>3. \A q \in Packages : Len(e.pkgs[q]) <= 1
        BY <2>5, <3>1, <4>2, Zenon
      <4> QED
        BY <4>1, <4>3
    <3> QED
      BY <2>7, <3>2 DEF UniqueInv, Unique, Exists
  <2>10. NoMore(d, db')
    BY <1>1, <1>2, <1>3, <2>9, SetPkgStatusKeeps DEF PkgStatuses
  <2>11. ASSUME NEW u \in Tasks, u # t, pc[u] = "mark"
         PROVE  /\ Kind(u) = "create" => d[Cid(u)] = <<>>
                /\ Kind(u) = "install" => PkgStatus(d, Cid(u), Pkg(u)) = Absent
    <3>1. Cid(u) \in Cids /\ Pkg(u) \in Packages
      BY <2>11 DEF TypeInv, Formed, AllRequests, Cid, Pkg
    <3>2. /\ Kind(u) = "create" => db[Cid(u)] = <<>>
          /\ Kind(u) = "install" => PkgStatus(db, Cid(u), Pkg(u)) = Absent
      BY <2>11 DEF UniqueInv, StillAbsent
    <3>3. CASE Cid(u) # c
      BY <2>7, <3>1, <3>2, <3>3 DEF PkgStatus, Exists
    <3>4. CASE Cid(u) = c
      <4>1. Kind(u) # "create"
        BY <1>6, <3>2, <3>4
      <4>2. ASSUME Kind(u) = "install" PROVE PkgStatus(d, c, Pkg(u)) = Absent
        <5>1. Pkg(u) # p
          BY <1>1, <2>11, <3>4, <4>2, OthersDiffer DEF c, p
        <5>2. d[c][1].pkgs[Pkg(u)] = db[c][1].pkgs[Pkg(u)] /\ d[c] # <<>>
          BY <2>5, <2>7, <2>8, <3>1, <5>1
        <5> QED
          BY <1>6, <3>2, <3>4, <4>2, <5>2 DEF PkgStatus, Exists
      <4> QED
        BY <3>4, <4>1, <4>2
    <3> QED
      BY <3>3, <3>4
  <2> QED
    BY <1>3, <2>9, <2>10, <2>11, MarkUnique
<1> QED
  BY <1>5, <1>6

\* The other marks, and the work and the end of every task, list nothing more.
LEMMA TaskUnique ==
  ASSUME TypeInv, TypeInv', OpsFollow, NoTwins, ~raced, UniqueInv, NEW t \in Tasks, TaskStep(t)
  PROVE  UniqueInv'
<1>1. db \in Databases /\ Unique(db)
  BY DEF TypeInv, TypeOK, UniqueInv
<1>2. pc[t] # "unborn"
  BY DEF TaskStep, Refresh, Check, Refuse, FinishRefused, Mark, Enter, Open, WorkInSession, WorkOnContainer,
         Save, Announce, Read, Finish
<1>3. Cid(t) \in Cids /\ Pkg(t) \in Packages
  BY <1>2 DEF TypeInv, Formed, AllRequests, Cid, Pkg
<1>4. \A s \in Statuses : NoMore(db, SetStatus(db, Cid(t), s))
  BY <1>1, <1>3, SetStatusKeeps
<1>5. \A s \in PkgStatuses : NoMore(db, SetPkgStatus(db, Cid(t), Pkg(t), s))
  BY <1>1, <1>3, SetPkgStatusKeeps
<1>6. ASSUME NEW l \in PCs \ {"mark"}, Goto(t, l), req' = req, NoMore(db, db') PROVE UniqueInv'
  BY <1>6, NoMoreUnique DEF Goto, TypeInv, TypeOK
<1>7. CASE Check(t)
  <2>1. pc' = [pc EXCEPT ![t] = "mark"] /\ UNCHANGED <<db, req>> /\ Admits(t)
    BY <1>7 DEF Check, Goto
  <2>2. /\ Kind(t) = "create" => db[Cid(t)] = <<>>
        /\ Kind(t) = "install" => PkgStatus(db, Cid(t), Pkg(t)) = Absent
    BY <2>1 DEF Admits, Exists
  <2> QED
    BY <2>1, <2>2 DEF TypeInv, TypeOK, UniqueInv, Unique, Exists, StillAbsent, Kind, Cid, Pkg
<1>8. CASE Mark(t)
  <2>1. CASE Kind(t) \notin {"create", "install"}
    <3>1. NoMore(db, Marked(t))
      BY <1>4, <1>5, <2>1, SameIsNoMore DEF Marked, Statuses, PkgStatuses
    <3> QED
      BY <1>6, <1>8, <3>1 DEF Mark, PCs
  <2> QED
    BY <1>8, <2>1, CreateUnique, InstallUnique
<1>9. CASE Refresh(t) \/ Refuse(t) \/ FinishRefused(t) \/ Enter(t) \/ Announce(t) \/ Read(t) \/ Finish(t)
  <2>1. UNCHANGED <<db, req>> /\ \E l \in PCs \ {"mark"} : Goto(t, l)
    BY <1>9 DEF Refresh, Refuse, FinishRefused, Enter, Announce, Read, Finish, Die, Leave, PCs
  <2> QED
    BY <1>6, <2>1, SameIsNoMore
<1>10. CASE Open(t) \/ WorkInSession(t) \/ WorkOnContainer(t)
  <2>1. req' = req /\ \E l \in PCs \ {"mark"} : Goto(t, l)
    BY <1>10 DEF Open, WorkInSession, WorkOnContainer, Conclude, Die, PCs
  <2>2. \A d \in Rested(t) : NoMore(db, d)
    BY <1>4 DEF Rested, Statuses, RestStatuses
  <2>3. NoMore(db, db')
    BY <1>4, <1>10, <2>2, SameIsNoMore DEF Open, WorkInSession, WorkOnContainer, Statuses, RestStatuses
  <2> QED
    BY <1>6, <2>1, <2>3
<1>11. CASE Save(t)
  <2>1. req' = req /\ \E l \in PCs \ {"mark"} : Goto(t, l)
    BY <1>11 DEF Save, Die, Leave, PCs
  <2>2. CASE Deletes(t) /\ ~Exists(db, Cid(t))
    BY <1>6, <1>11, <2>1, <2>2, SameIsNoMore DEF Save
  <2>3. CASE ~(Deletes(t) /\ ~Exists(db, Cid(t)))
    <3>1. Deletes(t) => NoMore(db, DeleteContainer(db, Cid(t)))
      BY <1>1, <1>3, <2>3, DeleteContainerKeeps DEF Exists
    <3>2. NoMore(db, DeletePackage(db, Cid(t), Pkg(t)))
      BY <1>1, <1>3, DeletePackageKeeps
    <3>3. NoMore(db, Saved(t))
      BY <1>4, <1>5, <3>1, <3>2 DEF Saved, Restored, Statuses, RestStatuses, PkgStatuses
    <3> QED
      BY <1>6, <1>11, <2>1, <2>3, <3>3 DEF Save
  <2> QED
    BY <2>2, <2>3
<1> QED
  BY <1>7, <1>8, <1>9, <1>10, <1>11 DEF TaskStep

\* Until an object is dropped in use, or a duplicate overlooked.
ListedInv == ~raced => UniqueInv

LEMMA NextUnique ==
  TypeInv /\ TypeInv' /\ OpsFollow /\ NoTwins /\ ListedInv /\ [Next]_vars => ListedInv'
<1> SUFFICES ASSUME TypeInv, TypeInv', OpsFollow, NoTwins, ~raced', ~raced, UniqueInv, [Next]_vars
             PROVE  UniqueInv'
  BY RacedStays DEF ListedInv
<1>1. ASSUME UNCHANGED db, \A t \in Tasks : pc'[t] = "mark" => pc[t] = "mark" /\ req'[t] = req[t]
      PROVE  UniqueInv'
  BY <1>1, NoMoreUnique, SameIsNoMore
<1>2. ASSUME NEW r, NEW o, Start(r, o), UNCHANGED db PROVE UniqueInv'
  <2>1. \A t \in Tasks : t # created + 1 => req'[t] = req[t] /\ pc'[t] = pc[t]
    BY <1>2 DEF Start, Goto, TypeInv, TypeOK
  <2>2. \A t \in Tasks : t = created + 1 => pc'[t] = "refresh"
    BY <1>2 DEF Start, Goto, TypeInv, TypeOK
  <2> QED
    BY <1>1, <1>2, <2>1, <2>2
<1>3. CASE Reuse \/ Dispatch \/ \E r \in Requests : FindOrCreate(r) \/ DispatchContainerless(r)
  BY <1>1, <1>2, <1>3 DEF Reuse, Dispatch, FindOrCreate, DispatchContainerless
<1>4. ASSUME NEW t \in Tasks, TimerStep(t) PROVE UniqueInv'
  BY <1>1, <1>4 DEF TimerStep, RemoveFromConnection, Forget, CheckEmpty, Drop, Goto, TypeInv, TypeOK
<1>6. CASE DispatchRaises
  <2>1. \A t \in Tasks : t # created + 1 => req'[t] = req[t] /\ pc'[t] = pc[t]
    BY <1>6 DEF DispatchRaises, Goto, TypeInv, TypeOK
  <2>2. \A t \in Tasks : t = created + 1 => pc'[t] = "raised"
    BY <1>6 DEF DispatchRaises, Goto, TypeInv, TypeOK
  <2> QED
    BY <1>1, <1>6, <2>1, <2>2 DEF DispatchRaises
<1>5. CASE UNCHANGED vars
  BY <1>1, <1>5 DEF vars
<1> QED
  BY <1>3, <1>4, <1>5, <1>6, TaskUnique DEF Next, MainStep, Idle

LEMMA UniqueAlways == Spec => []ListedInv
<1>1. Init => ListedInv
  BY InitUnique DEF ListedInv
<1> QED
  BY <1>1, NextUnique, TypesAlways, OpsAlways, NeverTwins, PTL DEF Spec

\* CreateTask._before and InstallTask._before: a container or package that was not
\* listed when the task looked is not listed by anybody else before the task
\* appends it, with any number of requests for it at the same time, until an
\* object is dropped in use or a handler steps over a task.
THEOREM ListedOnce == Spec => []UniqueEntries
<1>1. ListedInv => UniqueEntries
  BY DEF ListedInv, UniqueInv, Unique, UniqueEntries
<1> QED
  BY <1>1, UniqueAlways, PTL

-----------------------------------------------------------------------------
(* What the getters answer after an updater. *)

\* Nothing a getter says of container b has changed.
SameAt(d, e, b) ==
  /\ Exists(e, b) <=> Exists(d, b)
  /\ Type(e, b) = Type(d, b)
  /\ Status(e, b) = Status(d, b)
  /\ \A q \in Packages : PkgStatus(e, b, q) = PkgStatus(d, b, q)

\* Container c now has status s, and nothing else has changed.
StatusNow(d, e, c, s) ==
  /\ \A b \in Cids \ {c} : SameAt(d, e, b)
  /\ Exists(e, c) <=> Exists(d, c)
  /\ Type(e, c) = Type(d, c)
  /\ \A q \in Packages : PkgStatus(e, c, q) = PkgStatus(d, c, q)
  /\ Status(e, c) = s

\* Package p of container c now has status s, and nothing else has changed.
PkgStatusNow(d, e, c, p, s) ==
  /\ \A b \in Cids \ {c} : SameAt(d, e, b)
  /\ Exists(e, c) <=> Exists(d, c)
  /\ Type(e, c) = Type(d, c)
  /\ Status(e, c) = Status(d, c)
  /\ \A q \in Packages \ {p} : PkgStatus(e, c, q) = PkgStatus(d, c, q)
  /\ PkgStatus(e, c, p) = s

\* Container c is gone, and nothing else has changed.
GoneNow(d, e, c) ==
  /\ \A b \in Cids \ {c} : SameAt(d, e, b)
  /\ ~Exists(e, c)

\* What the updaters change is the first entry.
LEMMA FirstEntry ==
  ASSUME NEW d \in Databases, NEW c \in Cids, d[c] # <<>>, NEW e \in Entries
  PROVE  /\ \A b \in Cids \ {c} : SameAt(d, UpdateEntry(d, c, e), b)
         /\ Exists(UpdateEntry(d, c, e), c)
         /\ UpdateEntry(d, c, e)[c][1] = e
<1>1. d[c] \in Seq(Entries) /\ Tail(d[c]) \in Seq(Entries)
  BY EntriesAre, ListFacts
<1>2. SetFirst(d[c], e) # <<>> /\ SetFirst(d[c], e)[1] = e
  <2> DEFINE rest == Tail(d[c])
  <2>1. rest \in Seq(Entries)
    BY <1>1
  <2> HIDE DEF rest
  <2>2. <<e>> \o rest # <<>> /\ (<<e>> \o rest)[1] = e
    BY <2>1
  <2> QED
    BY <2>2 DEF SetFirst, rest
<1>3. UpdateEntry(d, c, e)[c] = SetFirst(d[c], e)
  BY DEF UpdateEntry, Databases
<1>4. \A b \in Cids \ {c} : UpdateEntry(d, c, e)[b] = d[b]
  BY DEF UpdateEntry, Databases
<1> QED
  BY <1>2, <1>3, <1>4 DEF SameAt, Exists, Type, Status, PkgStatus

LEMMA SameSame == ASSUME NEW d PROVE \A b \in Cids : SameAt(d, d, b)
  BY DEF SameAt

\* update_container_install_status
LEMMA SetStatusSays ==
  ASSUME NEW d \in Databases, NEW c \in Cids, NEW s \in Statuses
  PROVE  StatusNow(d, SetStatus(d, c, s), c, IF Exists(d, c) THEN s ELSE Absent)
<1>1. CASE d[c] = <<>>
  BY <1>1, SameSame DEF SetStatus, StatusNow, Exists, Status
<1>2. CASE d[c] # <<>>
  <2> DEFINE e == [d[c][1] EXCEPT !.status = s]
  <2>1. d[c][1] \in Entries /\ e \in Entries
    BY <1>2, EntryType, StatusEntry
  <2>2. e.status = s /\ e.type = d[c][1].type /\ e.pkgs = d[c][1].pkgs
    BY <2>1 DEF Entries
  <2>3. SetStatus(d, c, s) = UpdateEntry(d, c, e)
    BY <1>2 DEF SetStatus, Exists
  <2> HIDE DEF e
  <2> QED
    BY <1>2, <2>1, <2>2, <2>3, FirstEntry DEF StatusNow, Exists, Type, Status, PkgStatus
<1> QED
  BY <1>1, <1>2

LEMMA SetPkgsSays ==
  ASSUME NEW d \in Databases, NEW c \in Cids, NEW p \in Packages, d[c] # <<>>,
         NEW list \in Seq(PkgStatuses)
  PROVE  PkgStatusNow(d, SetPkgs(d, c, p, list), c, p, IF list = <<>> THEN Absent ELSE list[1])
<1> DEFINE e == [d[c][1] EXCEPT !.pkgs[p] = list]
<1>1. d[c][1] \in Entries /\ e \in Entries
  BY EntryType, PkgsEntry
<1>2. e.status = d[c][1].status /\ e.type = d[c][1].type /\ e.pkgs = [d[c][1].pkgs EXCEPT ![p] = list]
  BY <1>1 DEF Entries
<1>3. e.pkgs[p] = list /\ \A q \in Packages : q # p => e.pkgs[q] = d[c][1].pkgs[q]
  BY <1>1, <1>2 DEF Entries
<1>4. SetPkgs(d, c, p, list) = UpdateEntry(d, c, e)
  BY DEF SetPkgs, Exists
<1> DEFINE u == SetPkgs(d, c, p, list)
<1> HIDE DEF e
<1>5. /\ \A b \in Cids \ {c} : SameAt(d, u, b)
      /\ Exists(u, c) /\ u[c][1] = e
  BY <1>1, <1>4, FirstEntry
<1> HIDE DEF u
<1>6. /\ Exists(u, c) <=> Exists(d, c)
      /\ Type(u, c) = Type(d, c)
      /\ Status(u, c) = Status(d, c)
  BY <1>2, <1>5 DEF Exists, Type, Status
<1>7. \A q \in Packages : PkgStatus(u, c, q) = IF e.pkgs[q] # <<>> THEN e.pkgs[q][1] ELSE Absent
  BY <1>5 DEF PkgStatus
<1>8. \A q \in Packages \ {p} : PkgStatus(u, c, q) = PkgStatus(d, c, q)
  BY <1>3, <1>7 DEF PkgStatus, Exists
<1>9. PkgStatusNow(d, u, c, p, IF list = <<>> THEN Absent ELSE list[1])
  BY <1>3, <1>5, <1>6, <1>7, <1>8 DEF PkgStatusNow
<1> QED
  BY <1>9 DEF u

LEMMA PkgListed ==
  ASSUME NEW d \in Databases, NEW c \in Cids, NEW p \in Packages
  PROVE  /\ PkgStatus(d, c, p) # Absent <=> d[c] # <<>> /\ d[c][1].pkgs[p] # <<>>
         /\ d[c] # <<>> => d[c][1].pkgs[p] \in Seq(PkgStatuses)
<1>1. d[c] # <<>> => d[c][1].pkgs[p] \in Seq(PkgStatuses)
  BY EntriesAre
<1>2. d[c] # <<>> /\ d[c][1].pkgs[p] # <<>> => d[c][1].pkgs[p][1] \in PkgStatuses
  BY <1>1
<1> QED
  BY <1>1, <1>2 DEF PkgStatus, Exists, PkgStatuses, Absent

\* update_package_install_status
LEMMA SetPkgStatusSays ==
  ASSUME NEW d \in Databases, NEW c \in Cids, NEW p \in Packages, NEW s \in PkgStatuses
  PROVE  PkgStatusNow(d, SetPkgStatus(d, c, p, s), c, p,
                      IF PkgStatus(d, c, p) = Absent THEN Absent ELSE s)
<1>1. CASE PkgStatus(d, c, p) = Absent
  BY <1>1, SameSame DEF SetPkgStatus, PkgStatusNow
<1>2. CASE PkgStatus(d, c, p) # Absent
  <2> DEFINE list == d[c][1].pkgs[p]
  <2>1. d[c] # <<>> /\ list # <<>> /\ list \in Seq(PkgStatuses)
    BY <1>2, PkgListed
  <2>2. SetPkgStatus(d, c, p, s) = SetPkgs(d, c, p, SetFirst(list, s))
    BY <1>2 DEF SetPkgStatus
  <2> HIDE DEF list
  <2>3. SetFirst(list, s) \in Seq(PkgStatuses) /\ SetFirst(list, s) # <<>> /\ SetFirst(list, s)[1] = s
    <3> DEFINE rest == Tail(list)
    <3>1. rest \in Seq(PkgStatuses)
      BY <2>1, ListFacts
    <3> HIDE DEF rest
    <3>2. /\ <<s>> \o rest \in Seq(PkgStatuses)
          /\ <<s>> \o rest # <<>> /\ (<<s>> \o rest)[1] = s
      BY <3>1
    <3> QED
      BY <3>2 DEF SetFirst, rest
  <2> QED
    BY <1>2, <2>1, <2>2, <2>3, SetPkgsSays
<1> QED
  BY <1>1, <1>2

\* delete_package, when the package is listed once
LEMMA DeletePackageSays ==
  ASSUME NEW d \in Databases, Unique(d), NEW c \in Cids, NEW p \in Packages
  PROVE  PkgStatusNow(d, DeletePackage(d, c, p), c, p, Absent)
<1>1. CASE PkgStatus(d, c, p) = Absent
  BY <1>1, SameSame DEF DeletePackage, PkgStatusNow
<1>2. CASE PkgStatus(d, c, p) # Absent
  <2> DEFINE list == d[c][1].pkgs[p]
  <2>1. d[c] # <<>> /\ list # <<>> /\ list \in Seq(PkgStatuses)
    BY <1>2, PkgListed
  <2>2. DeletePackage(d, c, p) = SetPkgs(d, c, p, Tail(list))
    BY <1>2 DEF DeletePackage
  <2>3. Len(list) <= 1
    BY <2>1 DEF Unique, Exists
  <2> HIDE DEF list
  <2>4. Tail(list) = <<>> /\ Tail(list) \in Seq(PkgStatuses)
    BY <2>1, <2>3, ListFacts
  <2> QED
    BY <2>1, <2>2, <2>4, SetPkgsSays
<1> QED
  BY <1>1, <1>2

\* add_new_package and update_package_install_status, when the package is not listed
LEMMA InstallMarkSays ==
  ASSUME NEW d \in Databases, NEW c \in Cids, NEW p \in Packages, PkgStatus(d, c, p) = Absent
  PROVE  PkgStatusNow(d, SetPkgStatus(AddPackage(d, c, p), c, p, "installing"), c, p,
                      IF Exists(d, c) THEN "installing" ELSE Absent)
<1>1. CASE d[c] = <<>>
  BY <1>1, SameSame DEF AddPackage, SetPkgStatus, PkgStatusNow, Exists
<1>2. CASE d[c] # <<>>
  <2> DEFINE e == AddPackage(d, c, p)
  <2>1. e = SetPkgs(d, c, p, <<"new">>)
    <3>1. d[c][1].pkgs[p] = <<>>
      BY <1>2, PkgListed
    <3>2. Append(<<>>, "new") = <<"new">>
      OBVIOUS
    <3> QED
      BY <1>2, <3>1, <3>2 DEF AddPackage, Exists
  <2>2. <<"new">> \in Seq(PkgStatuses) /\ <<"new">> # <<>> /\ <<"new">>[1] = "new"
    BY DEF PkgStatuses
  <2>3. e \in Databases
    BY AddPackageType
  <2> HIDE DEF e
  <2>4. PkgStatusNow(d, e, c, p, "new")
    BY <1>2, <2>1, <2>2, SetPkgsSays
  <2>5. PkgStatusNow(e, SetPkgStatus(e, c, p, "installing"), c, p, "installing")
    BY <2>3, <2>4, SetPkgStatusSays DEF PkgStatusNow, PkgStatuses, Absent
  <2>6. PkgStatusNow(d, SetPkgStatus(e, c, p, "installing"), c, p, "installing")
    BY <2>4, <2>5 DEF PkgStatusNow, SameAt
  <2> QED
    BY <1>2, <2>6 DEF Exists, e
<1> QED
  BY <1>1, <1>2

\* delete_container, when the container is listed once
LEMMA DeleteContainerSays ==
  ASSUME NEW d \in Databases, Unique(d), NEW c \in Cids, Exists(d, c)
  PROVE  GoneNow(d, DeleteContainer(d, c), c)
<1>1. d[c] \in Seq(Entries) /\ d[c] # <<>> /\ Len(d[c]) <= 1
  BY EntriesAre DEF Unique, Exists
<1>2. Tail(d[c]) = <<>>
  BY <1>1, ListFacts
<1>3. /\ DeleteContainer(d, c)[c] = <<>>
      /\ \A b \in Cids : b # c => DeleteContainer(d, c)[b] = d[b]
  BY <1>2 DEF DeleteContainer, Databases
<1> QED
  BY <1>3 DEF GoneNow, SameAt, Exists, Type, Status, PkgStatus

\* add_new_container and update_container_install_status, when the container is
\* not listed
LEMMA CreateMarkSays ==
  ASSUME NEW d \in Databases, NEW c \in Cids, NEW type \in Types, d[c] = <<>>
  PROVE  LET e == SetStatus(AddContainer(d, c, type), c, "installing")
         IN  /\ \A b \in Cids \ {c} : SameAt(d, e, b)
             /\ Status(e, c) = "installing"
             /\ \A q \in Packages : PkgStatus(e, c, q) = Absent
<1> DEFINE new == NewEntry(type)
           a == AddContainer(d, c, type)
<1>1. Append(<<>>, new) = <<new>> /\ <<new>> # <<>> /\ <<new>>[1] = new
  OBVIOUS
<1>2. \A p \in Packages : new.pkgs[p] = <<>>
  BY DEF NewEntry
<1> HIDE DEF new
<1>3. a[c] = <<new>> /\ \A b \in Cids : b # c => a[b] = d[b]
  BY <1>1 DEF AddContainer, Databases, new
<1>4. a \in Databases
  BY AddContainerType
<1> HIDE DEF a
<1>5. Exists(a, c) /\ \A q \in Packages : PkgStatus(a, c, q) = Absent
  BY <1>1, <1>2, <1>3 DEF Exists, PkgStatus
<1>6. \A b \in Cids \ {c} : SameAt(d, a, b)
  BY <1>3 DEF SameAt, Exists, Type, Status, PkgStatus
<1>7. StatusNow(a, SetStatus(a, c, "installing"), c, "installing")
  BY <1>4, <1>5, SetStatusSays DEF Statuses
<1>8. /\ \A b \in Cids \ {c} : SameAt(d, SetStatus(a, c, "installing"), b)
      /\ Status(SetStatus(a, c, "installing"), c) = "installing"
      /\ \A q \in Packages : PkgStatus(SetStatus(a, c, "installing"), c, q) = Absent
  BY <1>5, <1>6, <1>7 DEF StatusNow, SameAt
<1> QED
  BY <1>8 DEF a

-----------------------------------------------------------------------------
(* Markers. *)

\* The task is one of those Owns speaks of, or one whose mark stays.
Owning == {"wait", "open", "work", "save", "announce"}

Holds(t) ==
  \/ pc[t] \in Owning
  \/ pc[t] = "dead" /\ (Kind(t) = "create" \/ Type(db, Cid(t)) = "unsupported")

\* The parts of MarkersOwned.
StatusOwned(c) ==
  /\ Status(db, c) = "removing" => \E t \in Tasks : Kind(t) = "destroy" /\ Cid(t) = c /\ Holds(t)
  /\ Status(db, c) \in {"new", "installing"} =>
       \E t \in Tasks : Kind(t) = "create" /\ Cid(t) = c /\ Holds(t)

BusyOwned(c) ==
  Status(db, c) = "busy" /\ Type(db, c) = "chroot" => \E t \in Tasks : pc[t] \in Inside /\ Cid(t) = c

PkgOwned(c, p) ==
  /\ PkgStatus(db, c, p) \in {"new", "installing"} =>
       \E t \in Tasks : Kind(t) = "install" /\ Cid(t) = c /\ Pkg(t) = p /\ Holds(t)
  /\ PkgStatus(db, c, p) = "removing" =>
       \E t \in Tasks : Kind(t) = "remove" /\ Cid(t) = c /\ Pkg(t) = p /\ Holds(t)

AllOwned ==
  \A c \in Cids : StatusOwned(c) /\ BusyOwned(c) /\ \A p \in Packages : PkgOwned(c, p)

\* What a task may leave without its mark.
Clear(t) ==
  /\ Kind(t) = "install" => PkgStatus(db, Cid(t), Pkg(t)) \notin {"new", "installing"}
  /\ Kind(t) = "remove" => PkgStatus(db, Cid(t), Pkg(t)) # "removing"
  /\ Kind(t) = "create" => Status(db, Cid(t)) \notin {"new", "installing"}
  /\ Kind(t) = "destroy" => Status(db, Cid(t)) # "removing"

\* The last announcement of a task comes after its mark is taken away.
ClearAtEnd ==
  \A t \in Tasks : pc[t] = "announce" /\ ~AnnouncesFirst(t, res[t]) => Clear(t)

\* A task that does not work in a session any more finds a chroot at rest.
Quiet(c) == ~(Type(db, c) = "chroot" /\ Status(db, c) = "busy")

QuietAfterWork ==
  \A t \in Tasks :
    pc[t] \in {"save", "announce"} \/ (pc[t] = "work" /\ Kind(t) \notin Sessions) => Quiet(Cid(t))

\* Only a session opens the container, and whoever saves has an outcome.
Working ==
  \A t \in Tasks :
    /\ pc[t] = "open" => Kind(t) \in Sessions
    /\ pc[t] \in {"save", "announce"} => res[t] \in {"ok", "failed"}

MarkInv == AllOwned /\ ClearAtEnd /\ QuietAfterWork /\ Working

MarkedInv == ~raced => MarkInv

\* What a step of task t does to the other tasks and containers.
StepOf(t) ==
  /\ req' = req
  /\ \A u \in Tasks \ {t} : pc'[u] = pc[u] /\ res'[u] = res[u]
  /\ \A b \in Cids \ {Cid(t)} : SameAt(db, db', b)

\* The step of t is the one that writes its mark.
Marking(t) == pc[t] = "mark" /\ pc'[t] \in Owning

\* The step of t leaves each status and each package status as it is, or as
\* nobody's mark, or as a mark of t.
MarksOf(t) ==
  LET c == Cid(t)
      s == Status(db', c)
  IN  /\ Exists(db, c) /\ Exists(db', c) => Type(db', c) = Type(db, c)
      /\ \/ s = Status(db, c)
         \/ s \notin {"new", "installing", "removing"}
         \/ Marking(t) /\ s = "removing" /\ Kind(t) = "destroy"
         \/ Marking(t) /\ s = "installing" /\ Kind(t) = "create"
      /\ \A p \in Packages :
           LET q == PkgStatus(db', c, p)
           IN  \/ q = PkgStatus(db, c, p)
               \/ q \notin {"new", "installing", "removing"}
               \/ Marking(t) /\ p = Pkg(t) /\ q = "installing" /\ Kind(t) = "install"
               \/ Marking(t) /\ p = Pkg(t) /\ q = "removing" /\ Kind(t) = "remove"

LEMMA StepOwned ==
  ASSUME TypeInv, TypeInv', AllOwned, NEW t \in Tasks, Cid(t) \in Cids, StepOf(t), MarksOf(t),
         Holds(t) /\ ~Holds(t)' => Clear(t)',
         pc[t] \in Inside /\ pc'[t] \notin Inside => Quiet(Cid(t))',
         pc'[t] \notin Inside => Quiet(Cid(t))' \/ ~Quiet(Cid(t))
  PROVE  AllOwned'
<1>1. \A u \in Tasks : Kind(u)' = Kind(u) /\ Cid(u)' = Cid(u) /\ Pkg(u)' = Pkg(u)
  BY DEF StepOf, Kind, Cid, Pkg
<1>0. ASSUME NEW c \in Cids, c = Cid(t), NEW u \in Tasks, u # t, Cid(u) = c, Holds(u), Exists(db, c), Exists(db', c)
      PROVE  Holds(u)'
  BY <1>0, <1>1 DEF StepOf, MarksOf, Holds
<1>5. \A d, c : Status(d, c) # Absent => Exists(d, c)
  BY DEF Status
<1>6. \A d, c, p : PkgStatus(d, c, p) # Absent => Exists(d, c)
  BY DEF PkgStatus
<1>2. ASSUME NEW c \in Cids PROVE StatusOwned(c)'
  <2>1. CASE c # Cid(t)
    <3>1. Status(db', c) = Status(db, c)
      BY <2>1 DEF StepOf, SameAt
    <3>2. \A u \in Tasks : Cid(u) = c /\ Holds(u) => Holds(u)'
      BY <1>1, <2>1 DEF StepOf, SameAt, Holds
    <3>3. StatusOwned(c)
      BY DEF AllOwned
    <3> QED
      BY <1>1, <3>1, <3>2, <3>3 DEF StatusOwned
  <2>2. CASE c = Cid(t)
    <3>1. ASSUME Status(db', c) = "removing"
          PROVE  \E u \in Tasks : Kind(u) = "destroy" /\ Cid(u) = c /\ Holds(u)'
      <4>1. CASE Kind(t) = "destroy" /\ Holds(t)'
        BY <2>2, <4>1
      <4>2. CASE ~(Kind(t) = "destroy" /\ Holds(t)')
        <5>1. Status(db, c) = "removing"
          BY <2>2, <3>1, <4>2 DEF MarksOf, Marking, Holds
        <5>2. PICK u \in Tasks : Kind(u) = "destroy" /\ Cid(u) = c /\ Holds(u)
          BY <5>1 DEF AllOwned, StatusOwned
        <5>3. u # t
          BY <1>1, <2>2, <3>1, <4>2, <5>2 DEF Clear
        <5>4. Holds(u)'
          BY <1>0, <1>1, <1>5, <2>2, <3>1, <5>1, <5>2, <5>3 DEF Absent
        <5> QED
          BY <5>2, <5>4
      <4> QED
        BY <4>1, <4>2
    <3>2. ASSUME Status(db', c) \in {"new", "installing"}
          PROVE  \E u \in Tasks : Kind(u) = "create" /\ Cid(u) = c /\ Holds(u)'
      <4>1. CASE Kind(t) = "create" /\ Holds(t)'
        BY <2>2, <4>1
      <4>2. CASE ~(Kind(t) = "create" /\ Holds(t)')
        <5>1. Status(db, c) \in {"new", "installing"}
          BY <2>2, <3>2, <4>2 DEF MarksOf, Marking, Holds
        <5>2. PICK u \in Tasks : Kind(u) = "create" /\ Cid(u) = c /\ Holds(u)
          BY <5>1 DEF AllOwned, StatusOwned
        <5>3. u # t
          BY <1>1, <2>2, <3>2, <4>2, <5>2 DEF Clear
        <5>4. Holds(u)'
          BY <1>0, <1>1, <1>5, <2>2, <3>2, <5>1, <5>2, <5>3 DEF Absent
        <5> QED
          BY <5>2, <5>4
      <4> QED
        BY <4>1, <4>2
    <3> QED
      BY <1>1, <3>1, <3>2 DEF StatusOwned
  <2> QED
    BY <2>1, <2>2
<1>3. ASSUME NEW c \in Cids PROVE BusyOwned(c)'
  <2>1. CASE c # Cid(t)
    <3>1. Status(db', c) = Status(db, c) /\ Type(db', c) = Type(db, c)
      BY <2>1 DEF StepOf, SameAt
    <3>2. \A u \in Tasks : Cid(u) = c => pc'[u] = pc[u]
      BY <2>1 DEF StepOf
    <3>3. BusyOwned(c)
      BY DEF AllOwned
    <3> QED
      BY <1>1, <3>1, <3>2, <3>3 DEF BusyOwned
  <2>2. CASE c = Cid(t)
    <3> SUFFICES ASSUME ~Quiet(c)' PROVE \E u \in Tasks : pc'[u] \in Inside /\ Cid(u) = c
      BY <1>1 DEF BusyOwned, Quiet
    <3>0. ~Quiet(Cid(t))'
      BY <1>1, <2>2 DEF Quiet
    <3>1. CASE pc'[t] \in Inside
      BY <2>2, <3>1
    <3>2. CASE pc'[t] \notin Inside
      <4>1. pc[t] \notin Inside /\ ~Quiet(c)
        BY <2>2, <3>0, <3>2 DEF Quiet
      <4>2. PICK u \in Tasks : pc[u] \in Inside /\ Cid(u) = c
        BY <4>1 DEF AllOwned, BusyOwned, Quiet
      <4> QED
        BY <4>1, <4>2 DEF StepOf
    <3> QED
      BY <3>1, <3>2
  <2> QED
    BY <2>1, <2>2
<1>4. ASSUME NEW c \in Cids, NEW p \in Packages PROVE PkgOwned(c, p)'
  <2>1. CASE c # Cid(t)
    <3>1. PkgStatus(db', c, p) = PkgStatus(db, c, p)
      BY <2>1 DEF StepOf, SameAt
    <3>2. \A u \in Tasks : Cid(u) = c /\ Holds(u) => Holds(u)'
      BY <1>1, <2>1 DEF StepOf, SameAt, Holds
    <3>3. PkgOwned(c, p)
      BY DEF AllOwned
    <3> QED
      BY <1>1, <3>1, <3>2, <3>3 DEF PkgOwned
  <2>2. CASE c = Cid(t)
    <3>1. ASSUME PkgStatus(db', c, p) \in {"new", "installing"}
          PROVE  \E u \in Tasks : Kind(u) = "install" /\ Cid(u) = c /\ Pkg(u) = p /\ Holds(u)'
      <4>1. CASE Kind(t) = "install" /\ Pkg(t) = p /\ Holds(t)'
        BY <2>2, <4>1
      <4>2. CASE ~(Kind(t) = "install" /\ Pkg(t) = p /\ Holds(t)')
        <5>1. PkgStatus(db, c, p) \in {"new", "installing"}
          BY <2>2, <3>1, <4>2 DEF MarksOf, Marking, Holds
        <5>2. PICK u \in Tasks : Kind(u) = "install" /\ Cid(u) = c /\ Pkg(u) = p /\ Holds(u)
          BY <5>1 DEF AllOwned, PkgOwned
        <5>3. u # t
          BY <1>1, <2>2, <3>1, <4>2, <5>2 DEF Clear
        <5>4. Holds(u)'
          BY <1>0, <1>1, <1>6, <2>2, <3>1, <5>1, <5>2, <5>3 DEF Absent
        <5> QED
          BY <5>2, <5>4
      <4> QED
        BY <4>1, <4>2
    <3>2. ASSUME PkgStatus(db', c, p) = "removing"
          PROVE  \E u \in Tasks : Kind(u) = "remove" /\ Cid(u) = c /\ Pkg(u) = p /\ Holds(u)'
      <4>1. CASE Kind(t) = "remove" /\ Pkg(t) = p /\ Holds(t)'
        BY <2>2, <4>1
      <4>2. CASE ~(Kind(t) = "remove" /\ Pkg(t) = p /\ Holds(t)')
        <5>1. PkgStatus(db, c, p) = "removing"
          BY <2>2, <3>2, <4>2 DEF MarksOf, Marking, Holds
        <5>2. PICK u \in Tasks : Kind(u) = "remove" /\ Cid(u) = c /\ Pkg(u) = p /\ Holds(u)
          BY <5>1 DEF AllOwned, PkgOwned
        <5>3. u # t
          BY <1>1, <2>2, <3>2, <4>2, <5>2 DEF Clear
        <5>4. Holds(u)'
          BY <1>0, <1>1, <1>6, <2>2, <3>2, <5>1, <5>2, <5>3 DEF Absent
        <5> QED
          BY <5>2, <5>4
      <4> QED
        BY <4>1, <4>2
    <3> QED
      BY <1>1, <3>1, <3>2 DEF PkgOwned
  <2> QED
    BY <2>1, <2>2
<1> QED
  BY <1>2, <1>3, <1>4 DEF AllOwned

LEMMA OthersClear ==
  ASSUME TypeInv, OpsFollow, NoTwins, ~raced, ClearAtEnd, NEW t \in Tasks, StepOf(t), MarksOf(t),
         NEW u \in Tasks \ {t}, pc[u] = "announce", ~AnnouncesFirst(u, res[u])
  PROVE  Clear(u)'
<1>1. Kind(u)' = Kind(u) /\ Cid(u)' = Cid(u) /\ Pkg(u)' = Pkg(u)
  BY DEF StepOf, Kind, Cid, Pkg
<1>2. Clear(u) /\ Cid(u) \in Cids /\ Pkg(u) \in Packages
  BY DEF ClearAtEnd, TypeInv, Formed, AllRequests, Cid, Pkg
<1>3. CASE Cid(u) # Cid(t)
  BY <1>1, <1>2, <1>3 DEF StepOf, SameAt, Clear
<1>4. CASE Cid(u) = Cid(t)
  <2>1. ASSUME Marking(t), Kind(u) = Kind(t), Kind(t) \in {"install", "remove"} => Pkg(u) = Pkg(t),
               Kind(t) \in Mutators
        PROVE  FALSE
    <3>1. ops[t] = "running" /\ ops[u] = "running"
      BY <2>1 DEF OpsFollow, OpFollows, Marking
    <3>2. Same(req[t], req[u])
      BY <2>1 DEF Same, Kind, Pkg
    <3> QED
      BY <1>4, <2>1, <3>1, <3>2 DEF NoTwins
  <2>2. Kind(u) = "install" => PkgStatus(db', Cid(u), Pkg(u)) \notin {"new", "installing"}
    BY <1>2, <1>4, <2>1 DEF MarksOf, Clear, Mutators
  <2>3. Kind(u) = "remove" => PkgStatus(db', Cid(u), Pkg(u)) # "removing"
    BY <1>2, <1>4, <2>1 DEF MarksOf, Clear, Mutators
  <2>4. Kind(u) = "create" => Status(db', Cid(u)) \notin {"new", "installing"}
    BY <1>2, <1>4, <2>1 DEF MarksOf, Clear, Mutators
  <2>5. Kind(u) = "destroy" => Status(db', Cid(u)) # "removing"
    BY <1>2, <1>4, <2>1 DEF MarksOf, Clear, Mutators
  <2> QED
    BY <1>1, <2>2, <2>3, <2>4, <2>5 DEF Clear
<1> QED
  BY <1>3, <1>4

LEMMA OthersQuiet ==
  ASSUME TypeInv, NoOverlap, NoOverlap', QuietAfterWork, NEW t \in Tasks, StepOf(t),
         pc'[t] \notin Inside => Quiet(Cid(t))' \/ ~Quiet(Cid(t)),
         NEW u \in Tasks \ {t}, pc[u] \in Inside, Quiet(Cid(u))
  PROVE  Quiet(Cid(u))'
<1>1. Kind(u)' = Kind(u) /\ Cid(u)' = Cid(u) /\ Cid(t)' = Cid(t)
  BY DEF StepOf, Kind, Cid
<1>2. Cid(u) \in Cids /\ pc'[u] = pc[u]
  BY DEF StepOf, TypeInv, Formed, AllRequests, Cid, Inside
<1>3. CASE Cid(u) # Cid(t)
  BY <1>1, <1>2, <1>3 DEF StepOf, SameAt, Quiet
<1>4. CASE Cid(u) = Cid(t)
  <2>1. pc'[t] \notin Inside
    BY <1>1, <1>2, <1>4 DEF NoOverlap
  <2> QED
    BY <1>1, <1>4, <2>1 DEF Quiet
<1> QED
  BY <1>3, <1>4

\* What the step of a task has to see to.
TidyStep(t) ==
  /\ StepOf(t)
  /\ MarksOf(t)
  /\ Holds(t) /\ ~Holds(t)' => Clear(t)'
  /\ pc'[t] = "announce" /\ ~AnnouncesFirst(t, res[t])' => Clear(t)'
  /\ pc[t] \in Inside /\ pc'[t] \notin Inside => Quiet(Cid(t))'
  /\ pc'[t] \notin Inside => Quiet(Cid(t))' \/ ~Quiet(Cid(t))
  /\ pc'[t] \in {"save", "announce"} \/ (pc'[t] = "work" /\ Kind(t) \notin Sessions) => Quiet(Cid(t))'
  /\ pc'[t] = "open" => Kind(t) \in Sessions
  /\ pc'[t] \in {"save", "announce"} => res'[t] \in {"ok", "failed"}

LEMMA TidyKeeps ==
  ASSUME TypeInv, TypeInv', OpsFollow, NoTwins, ~raced, NoOverlap, NoOverlap', MarkInv,
         NEW t \in Tasks, Cid(t) \in Cids, TidyStep(t)
  PROVE  MarkInv'
<1>0. \A u \in Tasks : Kind(u)' = Kind(u) /\ Cid(u)' = Cid(u)
  BY DEF TidyStep, StepOf, Kind, Cid
<1>1. AllOwned'
  BY StepOwned DEF MarkInv, TidyStep
<1>2. ClearAtEnd'
  <2> SUFFICES ASSUME NEW u \in Tasks, pc'[u] = "announce", ~AnnouncesFirst(u, res[u])'
               PROVE  Clear(u)'
    BY DEF ClearAtEnd
  <2>1. CASE u = t
    BY <2>1 DEF TidyStep
  <2>2. CASE u # t
    <3>1. pc[u] = "announce" /\ ~AnnouncesFirst(u, res[u])
      BY <1>0, <2>2 DEF TidyStep, StepOf, AnnouncesFirst
    <3> QED
      BY <2>2, <3>1, OthersClear DEF MarkInv, TidyStep
  <2> QED
    BY <2>1, <2>2
<1>3. QuietAfterWork'
  <2> SUFFICES ASSUME NEW u \in Tasks,
                      pc'[u] \in {"save", "announce"} \/ (pc'[u] = "work" /\ Kind(u) \notin Sessions)
               PROVE  Quiet(Cid(u))'
    BY <1>0 DEF QuietAfterWork
  <2>1. CASE u = t
    BY <2>1 DEF TidyStep
  <2>2. CASE u # t
    <3>1. pc[u] \in Inside /\ Quiet(Cid(u))
      BY <2>2 DEF TidyStep, StepOf, MarkInv, QuietAfterWork, Inside
    <3> QED
      BY <2>2, <3>1, OthersQuiet DEF MarkInv, TidyStep
  <2> QED
    BY <2>1, <2>2
<1>4. Working'
  BY <1>0 DEF MarkInv, Working, TidyStep, StepOf
<1> QED
  BY <1>1, <1>2, <1>3, <1>4 DEF MarkInv

\* A step of a task that leaves the database alone.
LEMMA StillTidy ==
  ASSUME TypeInv, NEW t \in Tasks, NEW l \in PCs, Goto(t, l), UNCHANGED <<db, req, res>>
  PROVE  /\ StepOf(t) /\ MarksOf(t)
         /\ pc'[t] = l /\ Kind(t)' = Kind(t) /\ Cid(t)' = Cid(t)
         /\ Quiet(Cid(t))' <=> Quiet(Cid(t))
         /\ Clear(t)' <=> Clear(t)
         /\ AnnouncesFirst(t, res[t])' <=> AnnouncesFirst(t, res[t])
<1>1. pc' = [pc EXCEPT ![t] = l] /\ pc \in [Tasks -> PCs]
  BY DEF Goto, TypeInv, TypeOK
<1>2. StepOf(t)
  BY <1>1, SameSame DEF StepOf
<1>3. MarksOf(t)
  BY DEF MarksOf
<1> QED
  BY <1>1, <1>2, <1>3 DEF Quiet, Clear, AnnouncesFirst, Kind, Cid, Pkg

LEMMA OutsideTidy ==
  ASSUME TypeInv, NEW t \in Tasks, Refresh(t) \/ Check(t) \/ Refuse(t) \/ FinishRefused(t) \/ Read(t) \/ Finish(t)
  PROVE  TidyStep(t)
<1>1. UNCHANGED <<db, req, res>>
  BY DEF Refresh, Check, Refuse, FinishRefused, Read, Finish
<1>2. PICK l \in {"check", "refused", "mark", "linger", "leave", "dead"} : Goto(t, l)
  BY DEF Refresh, Check, Refuse, FinishRefused, Read, Finish
<1>3. pc[t] # "dead" /\ (pc[t] \notin Owning \/ ~Locked(t))
  BY DEF Refresh, Check, Refuse, FinishRefused, Read, Finish, Owning
<1>4. ~Locked(t) => Clear(t)
  BY DEF Locked, Mutators, Clear
<1>5. pc[t] \notin Inside
  BY DEF Refresh, Check, Refuse, FinishRefused, Read, Finish, Inside
<1> QED
  BY <1>1, <1>2, <1>3, <1>4, <1>5, StillTidy DEF TidyStep, PCs, Inside, Holds

LEMMA EnterTidy ==
  ASSUME TypeInv, MarkInv, NoOverlap', NEW t \in Tasks, Cid(t) \in Cids, Enter(t)
  PROVE  TidyStep(t)
<1>1. UNCHANGED <<db, req, res>> /\ pc[t] = "wait"
  BY DEF Enter
<1>2. PICK l \in {"dead", "open", "work"} : Goto(t, l)
  BY DEF Enter, Die
<1>3. /\ StepOf(t) /\ MarksOf(t) /\ pc'[t] = l
      /\ Quiet(Cid(t))' <=> Quiet(Cid(t))
  BY <1>1, <1>2, StillTidy DEF PCs
<1>4. pc'[t] \in Inside => Quiet(Cid(t))
  <2> SUFFICES ASSUME pc'[t] \in Inside, ~Quiet(Cid(t)) PROVE FALSE
    OBVIOUS
  <2>1. PICK u \in Tasks : pc[u] \in Inside /\ Cid(u) = Cid(t)
    BY DEF MarkInv, AllOwned, BusyOwned, Quiet
  <2>2. u # t /\ pc'[u] \in Inside /\ Cid(u)' = Cid(t)'
    BY <1>1, <1>3, <2>1 DEF StepOf, Inside, Cid
  <2> QED
    BY <2>2 DEF NoOverlap
<1>5. l = "open" => Kind(t) \in Sessions
  <2>1. pc'[t] = "open" => Kind(t) \in Sessions
    <3>1. pc \in [Tasks -> PCs]
      BY DEF TypeInv, TypeOK
    <3> QED
      BY <3>1 DEF Enter, Die, Goto
  <2> QED
    BY <1>3, <2>1
<1>6. l = "dead" => Holds(t)' \/ Clear(t)'
  <2> SUFFICES ASSUME l = "dead" PROVE Holds(t)' \/ Clear(t)'
    OBVIOUS
  <2>1. ~Constructible(t)
    <3>1. pc \in [Tasks -> PCs]
      BY DEF TypeInv, TypeOK
    <3> QED
      BY <1>3, <3>1 DEF Enter, Goto
  <2>2. Kind(t)' = Kind(t) /\ Cid(t)' = Cid(t) /\ Pkg(t)' = Pkg(t)
    BY <1>1 DEF Kind, Cid, Pkg
  <2>3. CASE db[Cid(t)] = <<>>
    BY <1>1, <2>2, <2>3 DEF Clear, Status, PkgStatus, Exists, Absent
  <2>4. CASE db[Cid(t)] # <<>>
    <3>1. db[Cid(t)][1] \in Entries
      BY <2>4, EntryType DEF TypeInv, TypeOK
    <3>2. Type(db, Cid(t)) = "unsupported"
      BY <2>1, <2>4, <3>1 DEF Constructible, Type, Exists, Entries, Types
    <3> QED
      BY <1>1, <1>3, <2>2, <3>2 DEF Holds
  <2> QED
    BY <2>3, <2>4
<1> QED
  BY <1>1, <1>2, <1>3, <1>4, <1>5, <1>6 DEF TidyStep, Inside, Owning, Holds

LEMMA AnnounceTidy ==
  ASSUME TypeInv, MarkInv, NEW t \in Tasks, Announce(t)
  PROVE  TidyStep(t)
<1>1. UNCHANGED <<db, req, res>> /\ pc[t] = "announce"
  BY DEF Announce
<1>2. IF AnnouncesFirst(t, res[t]) THEN Goto(t, "save") ELSE Goto(t, "leave")
  BY DEF Announce, Leave
<1>3. Quiet(Cid(t)) /\ (~AnnouncesFirst(t, res[t]) => Clear(t)) /\ res[t] \in {"ok", "failed"}
  BY <1>1 DEF MarkInv, QuietAfterWork, ClearAtEnd, Working
<1> QED
  BY <1>1, <1>2, <1>3, StillTidy DEF TidyStep, Inside, Owning, PCs, Holds

\* What a session or the backend writes of the status.
LEMMA StatusStep ==
  ASSUME TypeInv, NEW t \in Tasks, Cid(t) \in Cids, NEW s \in Statuses \ {"new", "installing", "removing"},
         NEW l \in PCs \ {"mark"}, Goto(t, l), req' = req,
         \A u \in Tasks \ {t} : res'[u] = res[u],
         db' = SetStatus(db, Cid(t), s)
  PROVE  /\ StepOf(t) /\ MarksOf(t) /\ pc'[t] = l
         /\ Kind(t)' = Kind(t) /\ Cid(t)' = Cid(t) /\ Pkg(t)' = Pkg(t)
         /\ Type(db', Cid(t)) = Type(db, Cid(t))
         /\ Status(db', Cid(t)) \in {s, Absent}
         /\ \A p \in Packages : PkgStatus(db', Cid(t), p) = PkgStatus(db, Cid(t), p)
<1>1. pc' = [pc EXCEPT ![t] = l] /\ pc \in [Tasks -> PCs] /\ db \in Databases
  BY DEF Goto, TypeInv, TypeOK
<1>2. StatusNow(db, db', Cid(t), IF Exists(db, Cid(t)) THEN s ELSE Absent)
  BY <1>1, SetStatusSays
<1>3. StepOf(t)
  BY <1>1, <1>2 DEF StepOf, StatusNow
<1>4. MarksOf(t)
  BY <1>2 DEF MarksOf, StatusNow, Absent
<1> QED
  BY <1>1, <1>2, <1>3, <1>4 DEF StatusNow, Kind, Cid, Pkg

LEMMA OpenTidy ==
  ASSUME TypeInv, MarkInv, NEW t \in Tasks, Cid(t) \in Cids, Open(t)
  PROVE  TidyStep(t)
<1>1. req' = req /\ pc[t] = "open" /\ Kind(t) \in Sessions /\ pc \in [Tasks -> PCs]
      /\ res \in [Tasks -> {"none", "ok", "failed"}]
  BY DEF Open, MarkInv, Working, TypeInv, TypeOK
<1>2. CASE db' = SetStatus(db, Cid(t), "busy") /\ Goto(t, "work") /\ UNCHANGED res
  BY <1>1, <1>2, StatusStep DEF TidyStep, Statuses, RestStatuses, PCs, Inside, Owning, Holds
<1>3. ASSUME Type(db, Cid(t)) = "lxc", Conclude(t, "failed"),
             db' = db \/ db' = SetStatus(db, Cid(t), "busy") \/ db' = SetStatus(db, Cid(t), "stopped")
      PROVE  TidyStep(t)
  <2>1. PICK l \in {"save", "announce"} : Goto(t, l) /\ (l = "announce" => AnnouncesFirst(t, "failed"))
    BY <1>3 DEF Conclude
  <2>2. res'[t] = "failed" /\ \A u \in Tasks \ {t} : res'[u] = res[u]
    BY <1>1, <1>3 DEF Conclude
  <2>3. StepOf(t) /\ MarksOf(t) /\ pc'[t] = l /\ Type(db', Cid(t)) = "lxc"
    <3>1. CASE db' = db
      BY <1>1, <1>3, <2>1, <2>2, <3>1, SameSame DEF StepOf, MarksOf, Goto, PCs
    <3>2. CASE \E s \in {"busy", "stopped"} : db' = SetStatus(db, Cid(t), s)
      BY <1>1, <1>3, <2>1, <2>2, <3>2, StatusStep DEF Statuses, RestStatuses, PCs
    <3> QED
      BY <1>3, <3>1, <3>2
  <2>4. AnnouncesFirst(t, res[t])' <=> AnnouncesFirst(t, "failed")
    BY <1>1, <2>2 DEF AnnouncesFirst, Kind
  <2>5. Quiet(Cid(t))'
    BY <1>1, <2>3 DEF Quiet, Cid
  <2> QED
    BY <1>1, <2>1, <2>2, <2>3, <2>4, <2>5 DEF TidyStep, Inside, Owning, Holds
<1> QED
  BY <1>2, <1>3 DEF Open

\* The end of the work: the outcome is known and is saved or announced.
LEMMA ConcludeTidy ==
  ASSUME TypeInv, NEW t \in Tasks, Cid(t) \in Cids, pc[t] = "work", NEW r \in {"ok", "failed"},
         Conclude(t, r), req' = req,
         \/ db' = db /\ Quiet(Cid(t))
         \/ \E s \in {"ready", "stopped", "busy"} :
              /\ db' = SetStatus(db, Cid(t), s)
              /\ Type(db, Cid(t)) = "lxc" \/ s = "ready"
  PROVE  TidyStep(t)
<1>1. PICK l \in {"save", "announce"} : Goto(t, l) /\ (l = "announce" => AnnouncesFirst(t, r))
  BY DEF Conclude
<1>2. res'[t] = r /\ \A u \in Tasks \ {t} : res'[u] = res[u]
  BY DEF Conclude, TypeInv, TypeOK
<1>3. StepOf(t) /\ MarksOf(t) /\ pc'[t] = l /\ Quiet(Cid(t))'
  <2>1. CASE db' = db /\ Quiet(Cid(t))
    <3>1. pc \in [Tasks -> PCs]
      BY DEF TypeInv, TypeOK
    <3> QED
      BY <1>1, <1>2, <2>1, <3>1, SameSame DEF StepOf, MarksOf, Goto, PCs, Quiet, Cid
  <2>2. ASSUME NEW s \in {"ready", "stopped", "busy"}, db' = SetStatus(db, Cid(t), s),
               Type(db, Cid(t)) = "lxc" \/ s = "ready"
        PROVE  StepOf(t) /\ MarksOf(t) /\ pc'[t] = l /\ Quiet(Cid(t))'
    <3>1. /\ StepOf(t) /\ MarksOf(t) /\ pc'[t] = l /\ Cid(t)' = Cid(t)
          /\ Type(db', Cid(t)) = Type(db, Cid(t)) /\ Status(db', Cid(t)) \in {s, Absent}
      BY <1>1, <1>2, <2>2, StatusStep DEF Statuses, RestStatuses, PCs
    <3> QED
      BY <2>2, <3>1 DEF Quiet, Absent
  <2> QED
    BY <2>1, <2>2
<1>4. AnnouncesFirst(t, res[t])' <=> AnnouncesFirst(t, r)
  BY <1>2 DEF AnnouncesFirst, Kind
<1> QED
  BY <1>1, <1>2, <1>3, <1>4 DEF TidyStep, Inside, Owning, Holds

LEMMA WorkTidy ==
  ASSUME TypeInv, MarkInv, NEW t \in Tasks, Cid(t) \in Cids, WorkInSession(t) \/ WorkOnContainer(t)
  PROVE  TidyStep(t)
<1>1. req' = req /\ pc[t] = "work"
  BY DEF WorkInSession, WorkOnContainer
<1>2. ASSUME db' \in Rested(t)
      PROVE  \E s \in {"ready", "stopped", "busy"} :
               db' = SetStatus(db, Cid(t), s) /\ (Type(db, Cid(t)) = "lxc" \/ s = "ready")
  BY <1>2 DEF Rested
<1>3. CASE WorkInSession(t)
  BY <1>1, <1>2, <1>3, ConcludeTidy DEF WorkInSession
<1>4. CASE WorkOnContainer(t)
  <2>1. Kind(t) \in {"create", "destroy"} /\ Kind(t) \notin Sessions
    BY <1>4 DEF WorkOnContainer, Sessions
  <2>2. Quiet(Cid(t))
    BY <1>1, <2>1 DEF MarkInv, QuietAfterWork
  <2>3. \/ db' = db /\ Quiet(Cid(t))
        \/ \E s \in {"ready", "stopped", "busy"} :
             db' = SetStatus(db, Cid(t), s) /\ Type(db, Cid(t)) = "lxc"
    BY <1>4, <2>2 DEF WorkOnContainer, Rested
  <2>4. ASSUME NEW r \in {"ok", "failed"}, Conclude(t, r) PROVE TidyStep(t)
    BY <1>1, <2>3, <2>4, ConcludeTidy
  <2>5. ASSUME Die(t), UNCHANGED res, Kind(t) = "create" PROVE TidyStep(t)
    <3>1. Goto(t, "dead")
      BY <2>5 DEF Die
    <3>4. Kind(t)' = "create"
      BY <1>1, <2>5 DEF Kind
    <3>2. CASE db' = db
      BY <1>1, <2>2, <2>5, <3>1, <3>2, <3>4, StillTidy DEF TidyStep, PCs, Owning, Holds
    <3>3. ASSUME NEW s \in {"ready", "stopped", "busy"}, db' = SetStatus(db, Cid(t), s), Type(db, Cid(t)) = "lxc"
          PROVE  TidyStep(t)
      <4>1. /\ StepOf(t) /\ MarksOf(t) /\ pc'[t] = "dead" /\ Cid(t)' = Cid(t)
            /\ Type(db', Cid(t)) = "lxc"
        BY <1>1, <2>5, <3>1, <3>3, StatusStep DEF Statuses, RestStatuses, PCs
      <4> QED
        BY <1>1, <2>1, <2>5, <3>4, <4>1 DEF TidyStep, Quiet, Owning, Holds
    <3> QED
      BY <2>3, <3>2, <3>3
  <2> QED
    BY <1>4, <2>4, <2>5 DEF WorkOnContainer
<1> QED
  BY <1>3, <1>4

\* What a task writes last takes its mark away.
LEMMA SavedClears ==
  ASSUME TypeInv, MarkInv, UniqueInv, NEW t \in Tasks, Cid(t) \in Cids, Pkg(t) \in Packages,
         Locked(t), res[t] \in {"ok", "failed"}, Deletes(t) => Exists(db, Cid(t)), Quiet(Cid(t)),
         db' = Saved(t), req' = req
  PROVE  /\ \A b \in Cids \ {Cid(t)} : SameAt(db, db', b)
         /\ Quiet(Cid(t))' /\ Clear(t)'
         /\ Exists(db, Cid(t)) /\ Exists(db', Cid(t)) => Type(db', Cid(t)) = Type(db, Cid(t))
         /\ LET s == Status(db', Cid(t))
            IN  s = Status(db, Cid(t)) \/ s \notin {"new", "installing", "removing"}
         /\ \A p \in Packages :
              LET q == PkgStatus(db', Cid(t), p)
              IN  q = PkgStatus(db, Cid(t), p) \/ q \notin {"new", "installing", "removing"}
<1> DEFINE c == Cid(t)
           p == Pkg(t)
<1>1. db \in Databases /\ Unique(db)
  BY DEF TypeInv, TypeOK, UniqueInv
<1>2. Kind(t)' = Kind(t) /\ Cid(t)' = c /\ Pkg(t)' = p
  BY DEF Kind, Cid, Pkg
<1>3. CASE Kind(t) \in {"install", "remove"}
  <2>1. db' = DeletePackage(db, c, p) \/ db' = SetPkgStatus(db, c, p, "installed")
    BY <1>3 DEF Saved, Deletes
  <2>2. PICK s \in {Absent, "installed"} : PkgStatusNow(db, db', c, p, s)
    BY <1>1, <2>1, DeletePackageSays, SetPkgStatusSays DEF PkgStatuses
  <2> QED
    BY <1>2, <1>3, <2>2 DEF PkgStatusNow, Quiet, Clear, Absent
<1>4. CASE Deletes(t)
  <2>1. GoneNow(db, db', c)
    BY <1>1, <1>4, DeleteContainerSays DEF Saved, Deletes
  <2> QED
    BY <1>2, <2>1 DEF GoneNow, Quiet, Clear, Absent, Status, PkgStatus
<1>5. CASE Kind(t) \notin {"install", "remove"} /\ ~Deletes(t)
  <2>1. StatusNow(db, db', c, IF Exists(db, c) THEN "ready" ELSE Absent)
    BY <1>1, <1>5, SetStatusSays DEF Saved, Restored, Statuses, RestStatuses
  <2> QED
    BY <1>2, <1>5, <2>1 DEF StatusNow, Quiet, Clear, Absent
<1> QED
  BY <1>3, <1>4, <1>5

LEMMA SaveTidy ==
  ASSUME TypeInv, MarkInv, UniqueInv, NEW t \in Tasks, Cid(t) \in Cids, Pkg(t) \in Packages, Save(t)
  PROVE  TidyStep(t)
<1>1. UNCHANGED <<req, res>> /\ pc[t] = "save" /\ Quiet(Cid(t)) /\ Locked(t) /\ res[t] \in {"ok", "failed"}
  BY DEF Save, MarkInv, QuietAfterWork, Working, TypeInv, Formed, Inside
<1>2. CASE Deletes(t) /\ ~Exists(db, Cid(t))
  BY <1>1, <1>2, StillTidy DEF Save, Die, TidyStep, Owning, PCs, Holds, Clear, Deletes, Status, Exists, Absent
<1>3. CASE ~(Deletes(t) /\ ~Exists(db, Cid(t)))
  <2>1. PICK l \in {"leave", "announce", "dead"} : Goto(t, l)
    BY <1>3 DEF Save, Leave, Die
  <2>2. pc'[t] = l /\ \A u \in Tasks \ {t} : pc'[u] = pc[u]
    BY <2>1 DEF Goto, TypeInv, TypeOK
  <2>3. db' = Saved(t)
    BY <1>3 DEF Save
  <2>4. /\ \A b \in Cids \ {Cid(t)} : SameAt(db, db', b)
        /\ Quiet(Cid(t))' /\ Clear(t)'
        /\ MarksOf(t)
    BY <1>1, <1>3, <2>3, SavedClears DEF MarksOf
  <2> QED
    BY <1>1, <2>2, <2>4 DEF TidyStep, StepOf
<1> QED
  BY <1>2, <1>3

LEMMA MarkTidy ==
  ASSUME TypeInv, UniqueInv, NEW t \in Tasks, Cid(t) \in Cids, Pkg(t) \in Packages, Mark(t)
  PROVE  TidyStep(t)
<1> DEFINE c == Cid(t)
           p == Pkg(t)
<1>1. /\ UNCHANGED <<req, res>> /\ pc[t] = "mark" /\ pc'[t] = "wait" /\ db' = Marked(t)
      /\ \A u \in Tasks \ {t} : pc'[u] = pc[u]
  BY DEF Mark, Goto, TypeInv, TypeOK
<1>2. db \in Databases /\ req[t].type \in Types /\ Cid(t)' = c
  BY <1>1 DEF TypeInv, TypeOK, Formed, AllRequests, Cid
<1>3. Marking(t)
  BY <1>1 DEF Marking, Owning
<1>4. (\A b \in Cids \ {c} : SameAt(db, db', b)) /\ MarksOf(t) /\ (Quiet(c)' \/ ~Quiet(c))
  <2>1. CASE Kind(t) = "install"
    <3>1. PkgStatusNow(db, db', c, p, IF Exists(db, c) THEN "installing" ELSE Absent)
      BY <1>1, <1>2, <2>1, InstallMarkSays DEF Marked, UniqueInv, StillAbsent
    <3> QED
      BY <1>2, <1>3, <2>1, <3>1 DEF PkgStatusNow, MarksOf, Quiet, Absent
  <2>2. CASE Kind(t) = "remove"
    <3>1. PkgStatusNow(db, db', c, p, IF PkgStatus(db, c, p) = Absent THEN Absent ELSE "removing")
      BY <1>1, <1>2, <2>2, SetPkgStatusSays DEF Marked, PkgStatuses
    <3> QED
      BY <1>2, <1>3, <2>2, <3>1 DEF PkgStatusNow, MarksOf, Quiet, Absent
  <2>3. CASE Kind(t) = "destroy"
    <3>1. StatusNow(db, db', c, IF Exists(db, c) THEN "removing" ELSE Absent)
      BY <1>1, <1>2, <2>3, SetStatusSays DEF Marked, Statuses
    <3> QED
      BY <1>2, <1>3, <2>3, <3>1 DEF StatusNow, MarksOf, Quiet, Absent
  <2>4. CASE Kind(t) = "create"
    <3>1. /\ \A b \in Cids \ {c} : SameAt(db, db', b)
          /\ Status(db', c) = "installing"
          /\ \A q \in Packages : PkgStatus(db', c, q) = Absent
      BY <1>1, <1>2, <2>4, CreateMarkSays DEF Marked, UniqueInv, StillAbsent
    <3> QED
      BY <1>1, <1>2, <1>3, <2>4, <3>1 DEF MarksOf, Quiet, Absent, UniqueInv, StillAbsent, Exists
  <2>5. CASE Kind(t) \notin {"install", "remove", "destroy", "create"}
    <3>1. db' = db
      BY <1>1, <2>5 DEF Marked
    <3> QED
      BY <1>2, <3>1, SameSame DEF MarksOf, Quiet
  <2> QED
    BY <2>1, <2>2, <2>3, <2>4, <2>5
<1> QED
  BY <1>1, <1>2, <1>4 DEF TidyStep, StepOf, Inside, Owning, Holds

\* Where a task may hold a mark.
Held == Owning \cup {"dead"}

\* A step of no task: tasks that work or have worked stay where they are.
LEMMA IdleKeepsMarks ==
  ASSUME MarkInv, UNCHANGED db,
         \A t \in Tasks :
           \/ pc'[t] = pc[t] /\ req'[t] = req[t] /\ res'[t] = res[t]
           \/ pc[t] \notin Held /\ pc'[t] \notin Held
  PROVE  MarkInv'
<1>1. \A t \in Tasks : pc[t] \in Held \/ pc'[t] \in Held =>
        /\ pc'[t] = pc[t] /\ req'[t] = req[t] /\ res'[t] = res[t]
        /\ Kind(t)' = Kind(t) /\ Cid(t)' = Cid(t) /\ Pkg(t)' = Pkg(t)
  BY DEF Kind, Cid, Pkg
<1>2. Inside \subseteq Held
  BY DEF Inside, Held, Owning, Held
<1>7. \A t \in Tasks : Holds(t) => Holds(t)' /\ pc[t] \in Held
  BY <1>1 DEF Holds, Held
<1>3. AllOwned'
  <2>1. ASSUME NEW c \in Cids PROVE StatusOwned(c)'
    BY <1>1, <1>7 DEF MarkInv, AllOwned, StatusOwned
  <2>2. ASSUME NEW c \in Cids PROVE BusyOwned(c)'
    BY <1>1, <1>2 DEF MarkInv, AllOwned, BusyOwned
  <2>3. ASSUME NEW c \in Cids, NEW p \in Packages PROVE PkgOwned(c, p)'
    BY <1>1, <1>7 DEF MarkInv, AllOwned, PkgOwned
  <2> QED
    BY <2>1, <2>2, <2>3 DEF AllOwned
<1>4. ClearAtEnd'
  BY <1>1 DEF MarkInv, ClearAtEnd, Clear, AnnouncesFirst, Owning, Held
<1>5. QuietAfterWork'
  BY <1>1 DEF MarkInv, QuietAfterWork, Quiet, Owning, Held
<1>6. Working'
  BY <1>1 DEF MarkInv, Working, Owning, Held
<1> QED
  BY <1>3, <1>4, <1>5, <1>6 DEF MarkInv

LEMMA InitMarks == Init => MarkInv
<1> SUFFICES ASSUME Init PROVE MarkInv
  OBVIOUS
<1>1. ASSUME NEW c \in Cids
      PROVE  /\ Status(db, c) \in RestStatuses \cup {Absent}
             /\ \A p \in Packages : PkgStatus(db, c, p) \in {"installed", Absent}
  <2>1. db[c] = <<>> \/ \E e \in RestEntries : db[c] = <<e>>
    BY DEF Init
  <2>2. CASE db[c] = <<>>
    BY <2>2 DEF Status, PkgStatus, Exists
  <2>3. ASSUME NEW e \in RestEntries, db[c] = <<e>>
        PROVE  /\ Status(db, c) \in RestStatuses \cup {Absent}
               /\ \A p \in Packages : PkgStatus(db, c, p) \in {"installed", Absent}
    <3>1. db[c][1] = e /\ e.status \in RestStatuses
          /\ \A p \in Packages : e.pkgs[p] \in {<<>>, <<"installed">>}
      BY <2>3 DEF RestEntries
    <3>2. <<"installed">>[1] = "installed"
      OBVIOUS
    <3> QED
      BY <3>1, <3>2 DEF Status, PkgStatus
  <2> QED
    BY <2>1, <2>2, <2>3
<1>2. AllOwned
  BY <1>1 DEF AllOwned, StatusOwned, BusyOwned, PkgOwned, RestStatuses, Absent
<1>3. ClearAtEnd /\ QuietAfterWork /\ Working
  BY DEF Init, ClearAtEnd, QuietAfterWork, Working
<1> QED
  BY <1>2, <1>3 DEF MarkInv

\* A new task, a handler, a timer: nobody who works.
LEMMA NewTaskIdle ==
  ASSUME TypeInv, NEW r, NEW o, Start(r, o), UNCHANGED res
  PROVE  \A t \in Tasks :
           \/ pc'[t] = pc[t] /\ req'[t] = req[t] /\ res'[t] = res[t]
           \/ pc[t] \notin Held /\ pc'[t] \notin Held
<1>1. \A t \in Tasks : t # created + 1 => pc'[t] = pc[t] /\ req'[t] = req[t]
  BY DEF Start, Goto, TypeInv, TypeOK
<1>2. ASSUME NEW t \in Tasks, t = created + 1
      PROVE  pc[t] = "unborn" /\ pc'[t] = "refresh"
  BY <1>2, MaxTasksAssumption DEF Start, Goto, TypeInv, TypeOK, Formed, Tasks
<1> QED
  BY <1>1, <1>2 DEF Owning, Held

LEMMA RaisedIdle ==
  ASSUME TypeInv, DispatchRaises
  PROVE  \A t \in Tasks :
           \/ pc'[t] = pc[t] /\ req'[t] = req[t] /\ res'[t] = res[t]
           \/ pc[t] \notin Held /\ pc'[t] \notin Held
<1>1. \A t \in Tasks : t # created + 1 => pc'[t] = pc[t] /\ req'[t] = req[t]
  BY DEF DispatchRaises, Goto, TypeInv, TypeOK
<1>2. ASSUME NEW t \in Tasks, t = created + 1
      PROVE  pc[t] = "unborn" /\ pc'[t] = "raised"
  BY <1>2, MaxTasksAssumption DEF DispatchRaises, Goto, TypeInv, TypeOK, Formed, Tasks
<1> QED
  BY <1>1, <1>2 DEF DispatchRaises, Owning, Held

LEMMA TaskTidy ==
  ASSUME TypeInv, NoOverlap', UniqueInv, MarkInv, NEW t \in Tasks, TaskStep(t)
  PROVE  TidyStep(t) /\ Cid(t) \in Cids
<1>1. pc[t] # "unborn"
  BY DEF TaskStep, Refresh, Check, Refuse, FinishRefused, Mark, Enter, Open, WorkInSession, WorkOnContainer,
         Save, Announce, Read, Finish
<1>2. Cid(t) \in Cids /\ Pkg(t) \in Packages
  BY <1>1 DEF TypeInv, Formed, AllRequests, Cid, Pkg
<1> QED
  BY <1>2, OutsideTidy, EnterTidy, OpenTidy, WorkTidy, SaveTidy, AnnounceTidy, MarkTidy DEF TaskStep

LEMMA TaskMarks ==
  ASSUME TypeInv, TypeInv', OpsFollow, NoTwins, ~raced, NoOverlap, NoOverlap', UniqueInv, MarkInv,
         NEW t \in Tasks, TaskStep(t)
  PROVE  MarkInv'
BY TaskTidy, TidyKeeps

LEMMA NextMarks ==
  /\ TypeInv /\ TypeInv' /\ OpsFollow /\ NoTwins /\ Exclusive /\ Exclusive' /\ ListedInv
  /\ MarkedInv /\ [Next]_vars
  => MarkedInv'
<1> SUFFICES ASSUME TypeInv, TypeInv', OpsFollow, NoTwins, ~raced, NoOverlap, NoOverlap', UniqueInv, MarkInv,
                    [Next]_vars
             PROVE  MarkInv'
  BY RacedStays DEF MarkedInv, ListedInv, Exclusive
<1>1. CASE Dispatch \/ \E r \in Requests : DispatchContainerless(r)
  BY <1>1, NewTaskIdle, IdleKeepsMarks DEF Dispatch, DispatchContainerless
<1>2. CASE Reuse \/ (\E r \in Requests : FindOrCreate(r)) \/ UNCHANGED vars
  BY <1>2, IdleKeepsMarks DEF Reuse, FindOrCreate, vars
<1>3. ASSUME NEW t \in Tasks, TimerStep(t) PROVE MarkInv'
  BY <1>3, IdleKeepsMarks
     DEF TimerStep, RemoveFromConnection, Forget, CheckEmpty, Drop, Goto, TypeInv, TypeOK, Owning, Held
<1>4. CASE DispatchRaises
  BY <1>4, RaisedIdle, IdleKeepsMarks DEF DispatchRaises
<1> QED
  BY <1>1, <1>2, <1>3, <1>4, TaskMarks DEF Next, MainStep, Idle

LEMMA MarksAlways == Spec => []MarkedInv
<1>1. Init => MarkedInv
  BY InitMarks DEF MarkedInv
<1> QED
  BY <1>1, UniqueAlways, NextMarks, TypesAlways, OpsAlways, NeverTwins, Exclusion, PTL DEF Spec

\* The writes of _before and _run, and of a session around its work: whatever
\* a task marks in the database it takes away before it leaves, whichever way
\* its work, its session and the tasks of the same container go, for any
\* requests.  Marks stay of a creation that dies and in a container of an
\* unknown type, and of no other task.
THEOREM MarksAreOwned == Spec => []MarkersOwned
<1>1. MarkedInv => MarkersOwned
  <2> SUFFICES ASSUME MarkInv, NEW c \in Cids
               PROVE  /\ Status(db, c) = "removing" => Markers({"destroy"}, c) # {}
                      /\ Status(db, c) \in {"new", "installing"} => Markers({"create"}, c) # {}
                      /\ Status(db, c) = "busy" /\ Type(db, c) = "chroot" =>
                           \E t \in Tasks : pc[t] \in Inside /\ Cid(t) = c
                      /\ \A p \in Packages :
                           /\ PkgStatus(db, c, p) \in {"new", "installing"} =>
                                \E t \in Markers({"install"}, c) : Pkg(t) = p
                           /\ PkgStatus(db, c, p) = "removing" =>
                                \E t \in Markers({"remove"}, c) : Pkg(t) = p
    BY DEF MarkersOwned, MarkedInv
  <2>1. StatusOwned(c) /\ BusyOwned(c) /\ \A p \in Packages : PkgOwned(c, p)
    BY DEF MarkInv, AllOwned
  <2>2. ASSUME NEW k, NEW t \in Tasks, Kind(t) = k, Cid(t) = c, Holds(t) PROVE t \in Markers({k}, c)
    BY <2>2 DEF Markers, Owns, Corpses, Holds, Owning
  <2>4. (Status(db, c) = "removing" => Markers({"destroy"}, c) # {})
        /\ (Status(db, c) \in {"new", "installing"} => Markers({"create"}, c) # {})
    BY <2>1, <2>2 DEF StatusOwned
  <2>5. ASSUME NEW p \in Packages
        PROVE  /\ PkgStatus(db, c, p) \in {"new", "installing"} =>
                    \E t \in Markers({"install"}, c) : Pkg(t) = p
               /\ PkgStatus(db, c, p) = "removing" =>
                    \E t \in Markers({"remove"}, c) : Pkg(t) = p
    <3>1. PkgOwned(c, p)
      BY <2>1
    <3> QED
      BY <2>2, <3>1 DEF PkgOwned
  <2> QED
    BY <2>1, <2>4, <2>5 DEF BusyOwned
<1> QED
  BY <1>1, MarksAlways, PTL

-----------------------------------------------------------------------------
(* What an install reports. *)

\* An install that has its mark keeps it, up to the end of its work, and its
\* package is listed when it reports success.
Kept(t) ==
  Kind(t) = "install" /\ t \notin bare =>
    /\ pc[t] \in {"wait", "open", "work", "save"} => PkgStatus(db, Cid(t), Pkg(t)) # Absent
    /\ pc[t] = "announce" /\ res[t] = "ok" => PkgStatus(db, Cid(t), Pkg(t)) \in {"installed", "removing"}

RecordInv == \A t \in Tasks : Kept(t)

RecordedInv == ~raced => RecordInv

\* What the step of t does to a package q of its container.
PkgEffect(t, q) ==
  LET old == PkgStatus(db, Cid(t), q)
      new == PkgStatus(db', Cid(t), q)
  IN  \/ new = old
      \/ pc[t] \in {"mark", "save"} /\ Kind(t) = "install" /\ q = Pkg(t)
      \/ pc[t] = "mark" /\ new \in {Absent, "removing"} /\ (old # Absent => new = "removing")
      \/ pc[t] = "mark" /\ old = Absent
      \/ pc[t] = "save" /\ Deletes(t) /\ Unmarks(t) \subseteq bare'
      \/ pc[t] = "save" /\ Kind(t) = "remove" /\ res[t] = "ok" /\ q = Pkg(t) /\ Unmarks(t) \subseteq bare'
      \/ pc[t] = "save" /\ (old # Absent => new = "installed")

\* Another step leaves what is recorded of a task.
LEMMA OthersKept ==
  ASSUME TypeInv, OpsFollow, NoTwins, ~raced, NoOverlap, RecordInv, bare \subseteq bare',
         NEW t \in Tasks, StepOf(t), \A q \in Packages : PkgEffect(t, q),
         NEW u \in Tasks \ {t}
  PROVE  Kept(u)'
<1> DEFINE c == Cid(u)
           p == Pkg(u)
<1>1. Kind(u)' = Kind(u) /\ Cid(u)' = c /\ Pkg(u)' = p /\ pc'[u] = pc[u] /\ res'[u] = res[u]
  BY DEF StepOf, Kind, Cid, Pkg
<1> SUFFICES ASSUME Kind(u) = "install", u \notin bare', u \notin bare,
                    pc[u] \in {"wait", "open", "work", "save", "announce"}, pc[u] = "announce" => res[u] = "ok"
             PROVE  /\ PkgStatus(db', c, p) # Absent
                    /\ pc[u] = "announce" => PkgStatus(db', c, p) \in {"installed", "removing"}
  BY <1>1 DEF Kept
<1>2. c \in Cids /\ p \in Packages
  BY DEF TypeInv, Formed, AllRequests, Cid, Pkg
<1>3. /\ PkgStatus(db, c, p) # Absent
      /\ pc[u] = "announce" => PkgStatus(db, c, p) \in {"installed", "removing"}
  BY DEF RecordInv, Kept, Absent
<1>4. CASE c # Cid(t)
  BY <1>2, <1>3, <1>4 DEF StepOf, SameAt
<1>5. CASE c = Cid(t)
  <2>1. ~(pc[t] \in {"mark", "save"} /\ Kind(t) = "install" /\ p = Pkg(t))
    <3> SUFFICES ASSUME pc[t] \in {"mark", "save"}, Kind(t) = "install", p = Pkg(t) PROVE FALSE
      OBVIOUS
    <3>1. ops[t] = "running" /\ ops[u] = "running"
      BY DEF OpsFollow, OpFollows, AnnouncesFirst
    <3>2. Same(req[t], req[u]) /\ Kind(t) \in Mutators
      BY DEF Same, Kind, Pkg, Mutators
    <3> QED
      BY <1>5, <3>1, <3>2 DEF NoTwins
  <2>2. pc[t] = "save" => pc[u] = "wait"
    BY <1>5 DEF NoOverlap, Inside
  <2>3. ~(pc[t] = "save" /\ Deletes(t) /\ Unmarks(t) \subseteq bare')
    BY <1>5, <2>2 DEF Unmarks
  <2>4. ~(pc[t] = "save" /\ Kind(t) = "remove" /\ res[t] = "ok" /\ p = Pkg(t) /\ Unmarks(t) \subseteq bare')
    BY <1>5, <2>2 DEF Unmarks
  <2>5. PkgEffect(t, p)
    BY <1>2
  <2>6. PkgStatus(db', c, p) = PkgStatus(db, c, p) \/ PkgStatus(db', c, p) \in {"removing", "installed"}
    BY <1>3, <1>5, <2>1, <2>3, <2>4, <2>5 DEF PkgEffect
  <2> QED
    BY <1>3, <2>6 DEF Absent
<1> QED
  BY <1>4, <1>5

\* A step that changes no package, and does not come from mark.
LEMMA SameKept ==
  ASSUME TypeInv, RecordInv, NEW t \in Tasks, Cid(t) \in Cids, Pkg(t) \in Packages, req' = req, bare' = bare,
         \A q \in Packages : PkgStatus(db', Cid(t), q) = PkgStatus(db, Cid(t), q),
         Kind(t) = "install" =>
           \/ pc'[t] \notin {"wait", "open", "work", "save", "announce"}
           \/ pc'[t] # "announce" /\ pc[t] \in {"wait", "open", "work", "save"}
  PROVE  Kept(t)' /\ \A q \in Packages : PkgEffect(t, q)
<1>1. Kind(t)' = Kind(t) /\ Cid(t)' = Cid(t) /\ Pkg(t)' = Pkg(t)
  BY DEF Kind, Cid, Pkg
<1>2. \A q \in Packages : PkgEffect(t, q)
  BY DEF PkgEffect
<1>3. Kept(t)
  BY DEF RecordInv
<1>4. Kept(t)'
  BY <1>1, <1>3 DEF Kept
<1> QED
  BY <1>2, <1>4

LEMMA MarkKept ==
  ASSUME TypeInv, UniqueInv, NEW t \in Tasks, Cid(t) \in Cids, Pkg(t) \in Packages, Mark(t)
  PROVE  Kept(t)' /\ \A q \in Packages : PkgEffect(t, q)
<1> DEFINE c == Cid(t)
           p == Pkg(t)
<1>1. /\ req' = req /\ pc[t] = "mark" /\ pc'[t] = "wait" /\ db' = Marked(t)
      /\ bare' = IF NothingToMark(t) THEN bare \cup {t} ELSE bare
  BY DEF Mark, Goto, TypeInv, TypeOK
<1>2. db \in Databases /\ req[t].type \in Types /\ Kind(t)' = Kind(t) /\ Cid(t)' = c /\ Pkg(t)' = p
  BY <1>1 DEF TypeInv, TypeOK, Formed, AllRequests, Cid, Pkg, Kind
<1>3. CASE Kind(t) = "install"
  <2>1. PkgStatusNow(db, db', c, p, IF Exists(db, c) THEN "installing" ELSE Absent)
    BY <1>1, <1>2, <1>3, InstallMarkSays DEF Marked, UniqueInv, StillAbsent
  <2>2. t \notin bare' => Exists(db, c)
    BY <1>1, <1>3 DEF NothingToMark
  <2>3. Kept(t)'
    BY <1>1, <1>2, <2>1, <2>2 DEF Kept, PkgStatusNow, Absent
  <2>4. \A q \in Packages : PkgEffect(t, q)
    BY <1>1, <1>3, <2>1 DEF PkgEffect, PkgStatusNow
  <2> QED
    BY <2>3, <2>4
<1>4. CASE Kind(t) # "install"
  <2>1. Kept(t)'
    BY <1>2, <1>4 DEF Kept
  <2>2. CASE Kind(t) = "remove"
    <3>1. PkgStatusNow(db, db', c, p, IF PkgStatus(db, c, p) = Absent THEN Absent ELSE "removing")
      BY <1>1, <1>2, <2>2, SetPkgStatusSays DEF Marked, PkgStatuses
    <3> QED
      BY <1>1, <2>1, <3>1 DEF PkgEffect, PkgStatusNow
  <2>3. CASE Kind(t) = "create"
    <3>1. \A q \in Packages : PkgStatus(db, c, q) = Absent
      BY <1>1, <2>3 DEF UniqueInv, StillAbsent, PkgStatus, Exists
    <3> QED
      BY <1>1, <2>1, <3>1 DEF PkgEffect
  <2>4. CASE Kind(t) \notin {"install", "remove", "create"}
    <3>1. db' = db \/ StatusNow(db, db', c, IF Exists(db, c) THEN "removing" ELSE Absent)
      BY <1>1, <1>2, <2>4, SetStatusSays DEF Marked, Statuses
    <3> QED
      BY <2>1, <3>1 DEF PkgEffect, StatusNow
  <2> QED
    BY <1>4, <2>2, <2>3, <2>4
<1> QED
  BY <1>3, <1>4

LEMMA SaveKept ==
  ASSUME TypeInv, UniqueInv, MarkInv, RecordInv, NEW t \in Tasks, Cid(t) \in Cids, Pkg(t) \in Packages, Save(t)
  PROVE  Kept(t)' /\ \A q \in Packages : PkgEffect(t, q)
<1> DEFINE c == Cid(t)
           p == Pkg(t)
<1>1. /\ UNCHANGED <<req, res>> /\ pc[t] = "save" /\ res[t] \in {"ok", "failed"}
      /\ pc'[t] \in {"dead", "leave", "announce"}
  BY DEF Save, Die, Leave, Goto, MarkInv, Working, TypeInv, TypeOK
<1>2. db \in Databases /\ Unique(db) /\ Kind(t)' = Kind(t) /\ Cid(t)' = c /\ Pkg(t)' = p
  BY <1>1 DEF TypeInv, TypeOK, UniqueInv, Cid, Pkg, Kind
<1>3. CASE Deletes(t) /\ ~Exists(db, c)
  <2>1. db' = db /\ bare' = bare /\ pc'[t] = "dead"
    BY <1>3 DEF Save, Die, Goto, TypeInv, TypeOK
  <2> QED
    BY <1>1, <2>1, SameKept
<1>4. CASE ~(Deletes(t) /\ ~Exists(db, c))
  <2>0. db' = Saved(t) /\ bare' = bare \cup Unmarks(t)
    BY <1>4 DEF Save
  <2>1. CASE Kind(t) = "install"
    <3>1. t \notin bare' => PkgStatus(db, c, p) # Absent
      BY <1>1, <2>0, <2>1 DEF RecordInv, Kept
    <3>2. db' = IF res[t] = "ok" THEN SetPkgStatus(db, c, p, "installed") ELSE DeletePackage(db, c, p)
      BY <1>1, <2>0, <2>1 DEF Saved, Deletes
    <3>3. res[t] = "ok" => PkgStatusNow(db, db', c, p, IF PkgStatus(db, c, p) = Absent THEN Absent ELSE "installed")
      BY <1>2, <3>2, SetPkgStatusSays DEF PkgStatuses
    <3>4. Kept(t)'
      BY <1>1, <1>2, <3>1, <3>3 DEF Kept, PkgStatusNow
    <3>5. \E x : PkgStatusNow(db, db', c, p, x)
      BY <1>2, <3>2, <3>3, DeletePackageSays
    <3>6. \A q \in Packages : PkgEffect(t, q)
      BY <1>1, <2>1, <3>5 DEF PkgEffect, PkgStatusNow
    <3> QED
      BY <3>4, <3>6
  <2>2. CASE Kind(t) # "install"
    <3>1. Kept(t)'
      BY <1>2, <2>2 DEF Kept
    <3>2. CASE Deletes(t)
      BY <1>1, <2>0, <3>1, <3>2 DEF PkgEffect
    <3>3. CASE Kind(t) = "remove" /\ res[t] = "ok"
      <4>1. PkgStatusNow(db, db', c, p, Absent)
        BY <1>2, <2>0, <3>3, DeletePackageSays DEF Saved, Deletes
      <4> QED
        BY <1>1, <2>0, <3>1, <3>3, <4>1 DEF PkgEffect, PkgStatusNow
    <3>4. CASE Kind(t) = "remove" /\ res[t] = "failed"
      <4>1. PkgStatusNow(db, db', c, p, IF PkgStatus(db, c, p) = Absent THEN Absent ELSE "installed")
        BY <1>2, <2>0, <3>4, SetPkgStatusSays DEF Saved, Deletes, PkgStatuses
      <4> QED
        BY <1>1, <3>1, <4>1 DEF PkgEffect, PkgStatusNow
    <3>5. CASE Kind(t) # "remove" /\ ~Deletes(t)
      <4>1. StatusNow(db, db', c, IF Exists(db, c) THEN "ready" ELSE Absent)
        BY <1>2, <2>0, <2>2, <3>5, SetStatusSays DEF Saved, Restored, Statuses, RestStatuses
      <4> QED
        BY <3>1, <4>1 DEF PkgEffect, StatusNow
    <3> QED
      BY <1>1, <3>2, <3>3, <3>4, <3>5
  <2> QED
    BY <2>1, <2>2
<1> QED
  BY <1>3, <1>4

\* The step of a task itself.
LEMMA OwnKept ==
  ASSUME TypeInv, UniqueInv, MarkInv, RecordInv, NEW t \in Tasks, Cid(t) \in Cids, Pkg(t) \in Packages,
         TaskStep(t)
  PROVE  /\ Kept(t)' /\ bare \subseteq bare'
         /\ \A q \in Packages : PkgEffect(t, q)
<1>0. /\ req' = req /\ db \in Databases /\ pc \in [Tasks -> PCs]
  BY DEF TaskStep, Refresh, Check, Refuse, FinishRefused, Mark, Enter, Open, WorkInSession, WorkOnContainer,
         Save, Announce, Read, Finish, TypeInv, TypeOK
<1>1. CASE Refresh(t) \/ Refuse(t) \/ FinishRefused(t) \/ Read(t) \/ Finish(t) \/ Check(t)
  <2>1. UNCHANGED <<db, bare>> /\ pc'[t] \in {"check", "refused", "mark", "linger", "leave", "dead"}
    BY <1>0, <1>1 DEF Refresh, Refuse, FinishRefused, Read, Finish, Check, Goto
  <2> QED
    BY <1>0, <2>1, SameKept
<1>2. CASE Enter(t)
  <2>1. UNCHANGED <<db, bare>> /\ pc[t] = "wait" /\ pc'[t] \in {"open", "work", "dead"}
    BY <1>0, <1>2 DEF Enter, Die, Goto
  <2> QED
    BY <1>0, <2>1, SameKept
<1>3. CASE Announce(t)
  <2>1. UNCHANGED <<db, bare>> /\ (Kind(t) = "install" => pc'[t] = "leave")
    BY <1>0, <1>3 DEF Announce, Leave, Goto, AnnouncesFirst
  <2> QED
    BY <1>0, <2>1, SameKept
<1>4. CASE Open(t) \/ WorkInSession(t) \/ WorkOnContainer(t)
  <2>1. /\ pc[t] \in {"open", "work"} /\ bare' = bare
        /\ pc'[t] \in {"work", "save", "dead"} \/ (pc'[t] = "announce" /\ Kind(t) # "install")
    BY <1>0, <1>4 DEF Open, WorkInSession, WorkOnContainer, Conclude, Die, Goto, AnnouncesFirst
  <2>2. db' = db \/ \E s \in Statuses : db' = SetStatus(db, Cid(t), s)
    BY <1>4 DEF Open, WorkInSession, WorkOnContainer, Rested, Statuses, RestStatuses
  <2>3. \A q \in Packages : PkgStatus(db', Cid(t), q) = PkgStatus(db, Cid(t), q)
    BY <1>0, <2>2, SetStatusSays DEF StatusNow
  <2> QED
    BY <1>0, <2>1, <2>3, SameKept
<1>5. CASE Mark(t)
  BY <1>5, MarkKept DEF Mark
<1>6. CASE Save(t)
  BY <1>6, SaveKept DEF Save
<1> QED
  BY <1>1, <1>2, <1>3, <1>4, <1>5, <1>6 DEF TaskStep

\* Steps of no task, and new tasks.
LEMMA IdleKept ==
  ASSUME RecordInv, UNCHANGED <<db, bare>>,
         \A t \in Tasks :
           \/ pc'[t] = pc[t] /\ req'[t] = req[t] /\ res'[t] = res[t]
           \/ pc[t] \notin Held /\ pc'[t] \notin Held
  PROVE  RecordInv'
<1>1. ASSUME NEW t \in Tasks PROVE Kept(t)'
  <2>1. CASE pc'[t] = pc[t] /\ req'[t] = req[t] /\ res'[t] = res[t]
    <3>1. Kind(t)' = Kind(t) /\ Cid(t)' = Cid(t) /\ Pkg(t)' = Pkg(t)
      BY <2>1 DEF Kind, Cid, Pkg
    <3> QED
      BY <2>1, <3>1 DEF RecordInv, Kept
  <2>2. CASE pc'[t] \notin Held
    BY <2>2 DEF Kept, Owning, Held
  <2> QED
    BY <2>1, <2>2
<1> QED
  BY <1>1 DEF RecordInv

LEMMA NextKept ==
  /\ TypeInv /\ TypeInv' /\ OpsFollow /\ NoTwins /\ Exclusive /\ Exclusive' /\ ListedInv /\ MarkedInv
  /\ RecordedInv /\ [Next]_vars
  => RecordedInv'
<1> SUFFICES ASSUME TypeInv, TypeInv', OpsFollow, NoTwins, ~raced, NoOverlap, NoOverlap', UniqueInv, MarkInv,
                    RecordInv, [Next]_vars
             PROVE  RecordInv'
  BY RacedStays DEF RecordedInv, MarkedInv, ListedInv, Exclusive
<1>1. CASE Dispatch \/ \E r \in Requests : DispatchContainerless(r)
  BY <1>1, NewTaskIdle, IdleKept DEF Dispatch, DispatchContainerless
<1>2. CASE Reuse \/ (\E r \in Requests : FindOrCreate(r)) \/ UNCHANGED vars
  BY <1>2, IdleKept DEF Reuse, FindOrCreate, vars
<1>3. ASSUME NEW t \in Tasks, TimerStep(t) PROVE RecordInv'
  BY <1>3, IdleKept
     DEF TimerStep, RemoveFromConnection, Forget, CheckEmpty, Drop, Goto, TypeInv, TypeOK, Owning, Held
<1>4. CASE DispatchRaises
  BY <1>4, RaisedIdle, IdleKept DEF DispatchRaises
<1>6. ASSUME NEW t \in Tasks, TaskStep(t) PROVE RecordInv'
  <2>1. pc[t] # "unborn"
    BY <1>6 DEF TaskStep, Refresh, Check, Refuse, FinishRefused, Mark, Enter, Open, WorkInSession,
                WorkOnContainer, Save, Announce, Read, Finish
  <2>2. Cid(t) \in Cids /\ Pkg(t) \in Packages
    BY <2>1 DEF TypeInv, Formed, AllRequests, Cid, Pkg
  <2>3. StepOf(t)
    BY <1>6, <2>2, TaskTidy DEF TidyStep
  <2>4. Kept(t)' /\ bare \subseteq bare' /\ \A q \in Packages : PkgEffect(t, q)
    BY <1>6, <2>2, OwnKept
  <2>5. ASSUME NEW u \in Tasks \ {t} PROVE Kept(u)'
    BY <2>3, <2>4, OthersKept
  <2> QED
    BY <2>4, <2>5 DEF RecordInv
<1> QED
  BY <1>1, <1>2, <1>3, <1>4, <1>6 DEF Next, MainStep, Idle

\* InstallTask: whatever is created, installed, removed, updated and destroyed
\* in between, an install that is about to report success has its package in
\* the database; the only ones that have not are those that found no entry
\* when they marked it and those whose mark somebody else took away first.
THEOREM InstallsAreRecorded == Spec => []InstallRecorded
<1>1. Init => RecordedInv
  BY DEF Init, RecordedInv, RecordInv, Kept, Kind
<1>2. RecordedInv => InstallRecorded
  BY DEF RecordedInv, RecordInv, Kept, InstallRecorded
<1> QED
  BY <1>1, <1>2, NextKept, UniqueAlways, MarksAlways, TypesAlways, OpsAlways, NeverTwins, Exclusion, PTL
     DEF Spec
=============================================================================
