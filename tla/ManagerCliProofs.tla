--------------------------- MODULE ManagerCliProofs ---------------------------
(***************************************************************************)
(* The command line for any commands, containers, packages, archives and   *)
(* mounts.  The functions of ContainersConfig search, overwrite, append to *)
(* and delete from lists; first the lemmas that say so once, as what is    *)
(* listed afterwards and with which status, and then the invariants that   *)
(* only look at that.                                                      *)
(***************************************************************************)
EXTENDS ManagerCli, WellFoundedInduction, TLAPS

USE DEF Upsets

-----------------------------------------------------------------------------
(* Lists. *)

\* Where there is at most one position, it is the first.
LEMMA OnlyPosition ==
  ASSUME NEW n \in Nat, NEW K \in SUBSET (1..n), \A x, y \in K : x = y
  PROVE  /\ FirstOf(K) \in 0..n
         /\ FirstOf(K) = 0 <=> K = {}
         /\ \A k \in K : FirstOf(K) = k
<1>1. CASE K = {}
  BY <1>1 DEF FirstOf
<1>2. CASE K # {}
  <2>1. PICK k \in K : TRUE
    BY <1>2
  <2>2. \A l \in K : l = k /\ k <= l
    BY <2>1
  <2>3. FirstOf(K) = CHOOSE x \in K : \A l \in K : x <= l
    BY <1>2 DEF FirstOf
  <2>4. FirstOf(K) \in K
    BY <2>1, <2>2, <2>3
  <2>5. FirstOf(K) \in 1..n
    BY <2>4
  <2>6. FirstOf(K) # 0 /\ FirstOf(K) \in 0..n
    BY <2>5
  <2> QED
    BY <1>2, <2>4, <2>6
<1> QED
  BY <1>1, <1>2

LEMMA RemoveAtSays ==
  ASSUME NEW S, NEW s \in Seq(S), NEW k \in 1..Len(s)
  PROVE  /\ RemoveAt(s, k) \in Seq(S)
         /\ Len(RemoveAt(s, k)) = Len(s) - 1
         /\ \A l \in 1..(Len(s) - 1) : RemoveAt(s, k)[l] = IF l < k THEN s[l] ELSE s[l + 1]
<1>1. Len(s) \in Nat /\ Len(s) - 1 \in Nat
  OBVIOUS
<1>2. \A l \in 1..(Len(s) - 1) : (IF l < k THEN s[l] ELSE s[l + 1]) \in S
  BY <1>1
<1> QED
  BY <1>1, <1>2 DEF RemoveAt

\* What is left is what was elsewhere.
LEMMA RemoveAtKeeps ==
  ASSUME NEW S, NEW s \in Seq(S), NEW k \in 1..Len(s)
  PROVE  /\ \A l \in 1..(Len(s) - 1) : \E m \in 1..Len(s) \ {k} :
              m = (IF l < k THEN l ELSE l + 1) /\ RemoveAt(s, k)[l] = s[m]
         /\ \A m \in 1..Len(s) \ {k} : \E l \in 1..(Len(s) - 1) : RemoveAt(s, k)[l] = s[m]
<1>1. Len(s) \in Nat /\ Len(s) - 1 \in Nat
  OBVIOUS
<1>2. \A l \in 1..(Len(s) - 1) : RemoveAt(s, k)[l] = IF l < k THEN s[l] ELSE s[l + 1]
  BY RemoveAtSays
<1>3. ASSUME NEW m \in 1..Len(s) \ {k}
      PROVE  \E l \in 1..(Len(s) - 1) : RemoveAt(s, k)[l] = s[m]
  <2>1. CASE m < k
    <3>1. m \in 1..(Len(s) - 1)
      BY <1>1, <2>1
    <3> QED
      BY <1>2, <2>1, <3>1
  <2>2. CASE m > k
    <3>1. m - 1 \in 1..(Len(s) - 1) /\ ~(m - 1 < k) /\ (m - 1) + 1 = m
      BY <1>1, <2>2
    <3> QED
      BY <1>2, <3>1
  <2> QED
    BY <1>1, <2>1, <2>2
<1>4. ASSUME NEW l \in 1..(Len(s) - 1)
      PROVE  \E m \in 1..Len(s) \ {k} :
               m = (IF l < k THEN l ELSE l + 1) /\ RemoveAt(s, k)[l] = s[m]
  <2>1. CASE l < k
    <3>1. l \in 1..Len(s) \ {k}
      BY <1>1, <2>1
    <3> QED
      BY <1>2, <2>1, <3>1
  <2>2. CASE ~(l < k)
    <3>1. l + 1 \in 1..Len(s) \ {k}
      BY <1>1, <2>2
    <3> QED
      BY <1>2, <2>2, <3>1
  <2> QED
    BY <2>1, <2>2
<1> QED
  BY <1>3, <1>4

LEMMA AppendSays ==
  ASSUME NEW S, NEW s \in Seq(S), NEW x \in S
  PROVE  /\ Append(s, x) \in Seq(S)
         /\ Len(Append(s, x)) = Len(s) + 1
         /\ \A l \in 1..Len(s) : Append(s, x)[l] = s[l]
         /\ Append(s, x)[Len(s) + 1] = x
  OBVIOUS

LEMMA OverwriteSays ==
  ASSUME NEW S, NEW s \in Seq(S), NEW k \in 1..Len(s), NEW x \in S
  PROVE  /\ [s EXCEPT ![k] = x] \in Seq(S)
         /\ Len([s EXCEPT ![k] = x]) = Len(s)
         /\ [s EXCEPT ![k] = x][k] = x
         /\ \A l \in 1..Len(s) : l # k => [s EXCEPT ![k] = x][l] = s[l]
  OBVIOUS

-----------------------------------------------------------------------------
(* The packages and the archives of a container: what is listed, and with  *)
(* which status.                                                           *)

LEMMA ItemAtSays ==
  ASSUME NEW N, NEW s \in Seq(Items(N)), NamedOnce(s), NEW n
  PROVE  /\ ItemAt(s, n) \in 0..Len(s)
         /\ ItemAt(s, n) = 0 <=> \A k \in 1..Len(s) : s[k].name # n
         /\ ItemAt(s, n) # 0 => s[ItemAt(s, n)].name = n
         /\ \A k \in 1..Len(s) : s[k].name = n => ItemAt(s, n) = k
<1> DEFINE K == {k \in 1..Len(s) : s[k].name = n}
<1>1. Len(s) \in Nat /\ K \in SUBSET (1..Len(s))
  OBVIOUS
<1>2. \A x, y \in K : x = y
  BY DEF NamedOnce
<1>3. ItemAt(s, n) = FirstOf(K)
  BY DEF ItemAt
<1> HIDE DEF K
<1>4. /\ FirstOf(K) \in 0..Len(s)
      /\ FirstOf(K) = 0 <=> K = {}
      /\ \A k \in K : FirstOf(K) = k
  BY <1>1, <1>2, OnlyPosition
<1>5. \A k \in 1..Len(s) : s[k].name = n <=> k \in K
  BY DEF K
<1>6. K # {} => FirstOf(K) \in K
  BY <1>4
<1> QED
  BY <1>1, <1>3, <1>4, <1>5, <1>6

LEMMA StatusSays ==
  ASSUME NEW N, NEW s \in Seq(Items(N)), NamedOnce(s), NEW n
  PROVE  /\ ItemStatus(s, n) \in ItemStatuses \cup {"none"}
         /\ ItemStatus(s, n) = "none" <=> ItemAt(s, n) = 0
         /\ ItemStatus(s, n) = "none" <=> \A k \in 1..Len(s) : s[k].name # n
         /\ \A k \in 1..Len(s) : s[k].name = n => ItemStatus(s, n) = s[k].status
<1>1. \A k \in 1..Len(s) : s[k].status \in ItemStatuses
  <2>1. \A k \in 1..Len(s) : s[k] \in Items(N)
    OBVIOUS
  <2> QED
    BY <2>1 DEF Items
<1>2. "none" \notin ItemStatuses
  BY DEF ItemStatuses
<1>3. Len(s) \in Nat
  OBVIOUS
<1>4. ItemAt(s, n) # 0 => ItemAt(s, n) \in 1..Len(s)
  BY <1>3, ItemAtSays
<1>5. \A k \in 1..Len(s) : k # 0
  OBVIOUS
<1> QED
  BY <1>1, <1>2, <1>4, <1>5, ItemAtSays DEF ItemStatus

LEMMA MarkSays ==
  ASSUME NEW N, NEW s \in Seq(Items(N)), NamedOnce(s), NEW n \in N, NEW st \in ItemStatuses
  PROVE  /\ Mark(s, n, st) \in Seq(Items(N)) /\ NamedOnce(Mark(s, n, st))
         /\ ItemStatus(Mark(s, n, st), n) = st
         /\ \A m \in N \ {n} : ItemStatus(Mark(s, n, st), m) = ItemStatus(s, m)
<1> DEFINE t == Mark(s, n, st)
<1>0. Len(s) \in Nat
  OBVIOUS
<1>1. CASE ItemAt(s, n) = 0
  <2> DEFINE new == [name |-> n, status |-> st]
  <2>1. new \in Items(N)
    BY DEF Items
  <2>2. t = Append(s, new)
    BY <1>1 DEF Mark
  <2>3. /\ t \in Seq(Items(N)) /\ Len(t) = Len(s) + 1
        /\ \A l \in 1..Len(s) : t[l] = s[l]
        /\ t[Len(s) + 1] = new
    BY <2>1, <2>2, AppendSays
  <2>4. \A k \in 1..Len(s) : s[k].name # n
    BY <1>1, ItemAtSays
  <2> HIDE DEF t
  <2>5. Len(s) + 1 \in 1..Len(t) /\ t[Len(s) + 1].name = n /\ t[Len(s) + 1].status = st
    BY <1>0, <2>3
  <2>6. \A k \in 1..Len(t) : k \in 1..Len(s) \/ k = Len(s) + 1
    BY <1>0, <2>3
  <2>7. NamedOnce(t)
    BY <2>3, <2>4, <2>5, <2>6 DEF NamedOnce
  <2>8. ItemStatus(t, n) = st
    BY <2>3, <2>5, <2>7, StatusSays
  <2>9. ASSUME NEW m \in N \ {n} PROVE ItemStatus(t, m) = ItemStatus(s, m)
    <3>1. CASE \E k \in 1..Len(s) : s[k].name = m
      <4>1. PICK k \in 1..Len(s) : s[k].name = m
        BY <3>1
      <4>2. k \in 1..Len(t) /\ t[k] = s[k]
        BY <1>0, <2>3
      <4> QED
        BY <2>3, <2>7, <4>1, <4>2, StatusSays
    <3>2. CASE \A k \in 1..Len(s) : s[k].name # m
      <4>1. \A k \in 1..Len(t) : t[k].name # m
        BY <2>3, <2>5, <2>6, <3>2
      <4> QED
        BY <2>3, <2>7, <3>2, <4>1, StatusSays
    <3> QED
      BY <3>1, <3>2
  <2> QED
    BY <2>3, <2>7, <2>8, <2>9 DEF t
<1>2. CASE ItemAt(s, n) # 0
  <2> DEFINE k == ItemAt(s, n)
             new == [s[k] EXCEPT !.status = st]
  <2>1. k \in 1..Len(s) /\ s[k].name = n
    BY <1>0, <1>2, ItemAtSays
  <2>2. s[k] \in Items(N)
    BY <2>1
  <2>3. new \in Items(N) /\ new.name = n /\ new.status = st
    BY <2>1, <2>2 DEF Items
  <2>4. t = [s EXCEPT ![k] = new]
    BY <1>2, <2>1 DEF Mark
  <2> HIDE DEF k, new
  <2>5. /\ t \in Seq(Items(N)) /\ Len(t) = Len(s) /\ t[k] = new
        /\ \A l \in 1..Len(s) : l # k => t[l] = s[l]
    BY <2>1, <2>3, <2>4, OverwriteSays
  <2> HIDE DEF t
  <2>6. \A l \in 1..Len(s) : t[l].name = s[l].name
    BY <2>1, <2>3, <2>5
  <2>7. NamedOnce(t)
    BY <2>5, <2>6 DEF NamedOnce
  <2>8. ItemStatus(t, n) = st
    BY <2>1, <2>3, <2>5, <2>7, StatusSays
  <2>9. ASSUME NEW m \in N \ {n} PROVE ItemStatus(t, m) = ItemStatus(s, m)
    <3>1. CASE \E l \in 1..Len(s) : s[l].name = m
      <4>1. PICK l \in 1..Len(s) : s[l].name = m
        BY <3>1
      <4>2. t[l] = s[l] /\ l \in 1..Len(t)
        BY <2>1, <2>5, <4>1
      <4> QED
        BY <2>5, <2>7, <4>1, <4>2, StatusSays
    <3>2. CASE \A l \in 1..Len(s) : s[l].name # m
      <4>1. \A l \in 1..Len(t) : t[l].name # m
        BY <2>5, <2>6, <3>2
      <4> QED
        BY <2>5, <2>7, <3>2, <4>1, StatusSays
    <3> QED
      BY <3>1, <3>2
  <2> QED
    BY <2>5, <2>7, <2>8, <2>9 DEF t
<1> QED
  BY <1>1, <1>2

LEMMA UnlistSays ==
  ASSUME NEW N, NEW s \in Seq(Items(N)), NamedOnce(s), NEW n \in N
  PROVE  /\ Unlist(s, n) \in Seq(Items(N)) /\ NamedOnce(Unlist(s, n))
         /\ ItemStatus(Unlist(s, n), n) = "none"
         /\ \A m \in N \ {n} : ItemStatus(Unlist(s, n), m) = ItemStatus(s, m)
<1> DEFINE t == Unlist(s, n)
<1>0. Len(s) \in Nat
  OBVIOUS
<1>1. CASE ItemAt(s, n) = 0
  BY <1>1, StatusSays DEF Unlist
<1>2. CASE ItemAt(s, n) # 0
  <2> DEFINE k == ItemAt(s, n)
  <2>1. k \in 1..Len(s) /\ s[k].name = n
    BY <1>0, <1>2, ItemAtSays
  <2>2. t = RemoveAt(s, k)
    BY <1>2 DEF Unlist
  <2>3. \A l \in 1..Len(s) : s[l].name = n => l = k
    BY ItemAtSays
  <2> HIDE DEF k
  <2>4. t \in Seq(Items(N)) /\ Len(t) = Len(s) - 1
    BY <2>1, <2>2, RemoveAtSays
  <2>5. /\ \A l \in 1..Len(t) : \E m \in 1..Len(s) \ {k} :
             m = (IF l < k THEN l ELSE l + 1) /\ t[l] = s[m]
        /\ \A m \in 1..Len(s) \ {k} : \E l \in 1..Len(t) : t[l] = s[m]
    <3>1. /\ \A l \in 1..(Len(s) - 1) : \E m \in 1..Len(s) \ {k} :
               m = (IF l < k THEN l ELSE l + 1) /\ RemoveAt(s, k)[l] = s[m]
          /\ \A m \in 1..Len(s) \ {k} : \E l \in 1..(Len(s) - 1) : RemoveAt(s, k)[l] = s[m]
      BY <2>1, RemoveAtKeeps
    <3> QED
      BY <2>2, <2>4, <3>1
  <2> HIDE DEF t
  <2>6. NamedOnce(t)
    <3> SUFFICES ASSUME NEW x \in 1..Len(t), NEW y \in 1..Len(t), t[x].name = t[y].name
                 PROVE  x = y
      BY DEF NamedOnce
    <3>1. (IF x < k THEN x ELSE x + 1) = (IF y < k THEN y ELSE y + 1)
      BY <2>5 DEF NamedOnce
    <3> QED
      BY <2>1, <3>1
  <2>7. ASSUME NEW l \in 1..Len(t) PROVE t[l].name # n
    <3>1. PICK m \in 1..Len(s) \ {k} : t[l] = s[m]
      BY <2>5
    <3>2. m \in 1..Len(s) /\ m # k
      OBVIOUS
    <3> QED
      BY <2>3, <3>1, <3>2
  <2>8. ItemStatus(t, n) = "none"
    BY <2>4, <2>6, <2>7, StatusSays
  <2>9. ASSUME NEW m \in N \ {n} PROVE ItemStatus(t, m) = ItemStatus(s, m)
    <3>1. CASE \E l \in 1..Len(s) : s[l].name = m
      <4>1. PICK l \in 1..Len(s) : s[l].name = m
        BY <3>1
      <4>2. l \in 1..Len(s) \ {k}
        BY <2>1, <4>1
      <4>3. PICK x \in 1..Len(t) : t[x] = s[l]
        BY <2>5, <4>2
      <4>4. ItemStatus(s, m) = s[l].status
        BY <4>1, StatusSays
      <4>5. ItemStatus(t, m) = t[x].status
        BY <2>4, <2>6, <4>1, <4>3, StatusSays
      <4> QED
        BY <4>3, <4>4, <4>5
    <3>2. CASE \A l \in 1..Len(s) : s[l].name # m
      <4>1. \A l \in 1..Len(t) : t[l].name # m
        BY <2>5, <3>2
      <4> QED
        BY <2>4, <2>6, <3>2, <4>1, StatusSays
    <3> QED
      BY <3>1, <3>2
  <2> QED
    BY <2>4, <2>6, <2>8, <2>9 DEF t
<1> QED
  BY <1>1, <1>2

-----------------------------------------------------------------------------
(* The database: which containers are listed, and with which entry. *)

LEMMA ListType ==
  ASSUME NEW d \in Databases
  PROVE  /\ d.list \in Seq(Entries) /\ Len(d.list) \in Nat
         /\ \A k \in 1..Len(d.list) : d.list[k] \in Entries
  BY DEF Databases

LEMMA EntrySays ==
  ASSUME NEW d \in Databases, Sound(d), NEW c
  PROVE  /\ At(d, c) \in 0..Len(d.list)
         /\ container_exists(d, c) <=> \E k \in 1..Len(d.list) : d.list[k].id = c
         /\ container_exists(d, c) =>
              /\ At(d, c) \in 1..Len(d.list) /\ Entry(d, c) = d.list[At(d, c)]
              /\ Entry(d, c) \in Entries /\ Entry(d, c).id = c /\ SoundEntry(Entry(d, c))
              /\ d.keys = "full"
         /\ \A k \in 1..Len(d.list) : d.list[k].id = c => At(d, c) = k
<1> DEFINE K == {k \in 1..Len(d.list) : d.list[k].id = c}
<1>1. Len(d.list) \in Nat /\ K \in SUBSET (1..Len(d.list))
  BY ListType
<1>2. \A x, y \in K : x = y
  BY DEF Sound
<1>3. At(d, c) = FirstOf(K)
  BY DEF At
<1> HIDE DEF K
<1>4. /\ FirstOf(K) \in 0..Len(d.list)
      /\ FirstOf(K) = 0 <=> K = {}
      /\ \A k \in K : FirstOf(K) = k
  BY <1>1, <1>2, OnlyPosition
<1>5. \A k \in 1..Len(d.list) : d.list[k].id = c <=> k \in K
  BY DEF K
<1>6. container_exists(d, c) <=> \E k \in 1..Len(d.list) : d.list[k].id = c
  BY <1>1, <1>3, <1>4, <1>5 DEF container_exists
<1>7. ASSUME container_exists(d, c)
      PROVE  /\ At(d, c) \in 1..Len(d.list) /\ Entry(d, c) = d.list[At(d, c)]
             /\ Entry(d, c) \in Entries /\ Entry(d, c).id = c /\ SoundEntry(Entry(d, c))
             /\ d.keys = "full"
  <2>1. PICK k \in 1..Len(d.list) : d.list[k].id = c
    BY <1>6, <1>7
  <2>2. At(d, c) = k /\ Entry(d, c) = d.list[k]
    BY <1>3, <1>4, <1>5, <2>1 DEF Entry
  <2>3. d.list[k] \in Entries /\ SoundEntry(d.list[k])
    BY ListType DEF Sound
  <2>4. d.keys = "full"
    <3> SUFFICES ASSUME d.list = <<>> PROVE FALSE
      BY DEF Sound
    <3> QED
      OBVIOUS
  <2> QED
    BY <2>1, <2>2, <2>3, <2>4
<1> QED
  BY <1>3, <1>4, <1>5, <1>6, <1>7

\* e is d, except that what it says of c is x.
Says(d, e, c, x) ==
  /\ e \in Databases /\ Sound(e)
  /\ e.keys = d.keys /\ e.default = d.default
  /\ \A b \in Cids : container_exists(e, b) <=> container_exists(d, b)
  /\ Entry(e, c) = x
  /\ \A b \in Cids \ {c} : container_exists(d, b) => Entry(e, b) = Entry(d, b)

LEMMA SetEntrySays ==
  ASSUME NEW d \in Databases, Sound(d), NEW c \in Cids, container_exists(d, c),
         NEW x \in Entries, x.id = c, SoundEntry(x)
  PROVE  Says(d, SetEntry(d, c, x), c, x)
<1> DEFINE k == At(d, c)
           e == SetEntry(d, c, x)
<1>1. k \in 1..Len(d.list) /\ d.list[k].id = c
  BY EntrySays
<1>2. d.list \in Seq(Entries) /\ Len(d.list) \in Nat
  BY ListType
<1>3. e = [d EXCEPT !.list = [d.list EXCEPT ![k] = x]]
  BY DEF SetEntry
<1>4. e.keys = d.keys /\ e.default = d.default /\ e.list = [d.list EXCEPT ![k] = x]
  BY <1>3 DEF Databases
<1> HIDE DEF k
<1>5. /\ [d.list EXCEPT ![k] = x] \in Seq(Entries) /\ Len([d.list EXCEPT ![k] = x]) = Len(d.list)
      /\ [d.list EXCEPT ![k] = x][k] = x
      /\ \A l \in 1..Len(d.list) : l # k => [d.list EXCEPT ![k] = x][l] = d.list[l]
  BY <1>1, <1>2, OverwriteSays
<1>6. e \in Databases
  BY <1>3, <1>5 DEF Databases
<1> HIDE DEF e
<1>7. /\ Len(e.list) = Len(d.list) /\ e.list[k] = x
      /\ \A l \in 1..Len(d.list) : l # k => e.list[l] = d.list[l]
  BY <1>4, <1>5
<1>8. \A l \in 1..Len(d.list) : e.list[l].id = d.list[l].id
  BY <1>1, <1>7
<1>9. Sound(e)
  <2>1. e.keys = "full"
    BY <1>4, EntrySays
  <2>2. \A l, m \in 1..Len(e.list) : e.list[l].id = e.list[m].id => l = m
    BY <1>7, <1>8 DEF Sound
  <2>3. \A l \in 1..Len(e.list) : SoundEntry(e.list[l])
    BY <1>7 DEF Sound
  <2>4. e.default # None => \E l \in 1..Len(e.list) : e.list[l].id = e.default
    BY <1>4, <1>7, <1>8 DEF Sound
  <2> QED
    BY <2>1, <2>2, <2>3, <2>4 DEF Sound
<1>10. \A b \in Cids : container_exists(e, b) <=> container_exists(d, b)
  BY SMTT(30), <1>6, <1>7, <1>8, <1>9, EntrySays
<1>11. \A l \in 1..Len(e.list) : At(e, e.list[l].id) = l
  BY <1>6, <1>9, EntrySays
<1>12. Entry(e, c) = x
  BY <1>1, <1>7, <1>11 DEF Entry
<1>13. ASSUME NEW b \in Cids \ {c}, container_exists(d, b) PROVE Entry(e, b) = Entry(d, b)
  <2>1. PICK l \in 1..Len(d.list) : d.list[l].id = b
    BY <1>13, EntrySays
  <2>2. l # k
    BY <1>1, <2>1
  <2>3. e.list[l] = d.list[l] /\ At(e, b) = l
    BY <1>7, <1>11, <2>1, <2>2
  <2>4. At(d, b) = l
    BY <2>1, EntrySays
  <2> QED
    BY <2>3, <2>4 DEF Entry
<1> QED
  BY <1>4, <1>6, <1>9, <1>10, <1>12, <1>13 DEF e, Says

NewEntry(c, ty) ==
  [id |-> c, type |-> ty, status |-> "new", multiarch |-> FALSE,
   freeze |-> FALSE, apps |-> <<>>, archives |-> <<>>, mounts |-> <<>>]

LEMMA NewEntrySays ==
  ASSUME NEW c \in Cids, NEW ty \in {"chroot", "lxc"}
  PROVE  /\ NewEntry(c, ty) \in Entries /\ SoundEntry(NewEntry(c, ty))
         /\ \A n : ItemStatus(<<>>, n) = "none"
<1>1. NewEntry(c, ty) \in Entries
  <2>1. \A N : <<>> \in Seq(N)
    OBVIOUS
  <2> QED
    BY <2>1 DEF NewEntry, Entries, Statuses
<1>2. 1..Len(<<>>) = {}
  OBVIOUS
<1>3. SoundEntry(NewEntry(c, ty))
  BY <1>2 DEF NewEntry, SoundEntry, NamedOnce
<1>4. ASSUME NEW n PROVE ItemStatus(<<>>, n) = "none"
  <2>1. {k \in 1..Len(<<>>) : <<>>[k].name = n} = {}
    BY <1>2
  <2> QED
    BY <2>1 DEF ItemStatus, ItemAt, FirstOf
<1> QED
  BY <1>1, <1>3, <1>4

LEMMA AddSays ==
  ASSUME NEW d \in Databases, Sound(d), NEW c \in Cids, ~container_exists(d, c),
         NEW ty \in {"chroot", "lxc"}, NEW e, e = add_new_container(d, c, ty)
  PROVE  /\ e \in Databases /\ Sound(e)
         /\ \A b \in Cids : container_exists(e, b) <=> container_exists(d, b) \/ b = c
         /\ Entry(e, c) = NewEntry(c, ty)
         /\ \A b \in Cids \ {c} : container_exists(d, b) => Entry(e, b) = Entry(d, b)
<1> DEFINE new == NewEntry(c, ty)
<1>1. d.list \in Seq(Entries) /\ Len(d.list) \in Nat
  BY ListType
<1>2. new \in Entries /\ SoundEntry(new) /\ new.id = c
  BY NewEntrySays DEF NewEntry
<1>3. e = [keys |-> "full", list |-> Append(d.list, new),
           default |-> IF d.default = None THEN c ELSE d.default]
  BY DEF add_new_container, NewEntry
<1> HIDE DEF new
<1>4. /\ Append(d.list, new) \in Seq(Entries)
      /\ Len(Append(d.list, new)) = Len(d.list) + 1
      /\ \A l \in 1..Len(d.list) : Append(d.list, new)[l] = d.list[l]
      /\ Append(d.list, new)[Len(d.list) + 1] = new
  BY <1>1, <1>2, AppendSays
<1>5. e \in Databases
  BY <1>3, <1>4 DEF Databases
<1>6. /\ e.keys = "full" /\ e.default = IF d.default = None THEN c ELSE d.default
      /\ Len(e.list) = Len(d.list) + 1 /\ e.list[Len(d.list) + 1] = new
      /\ \A l \in 1..Len(d.list) : e.list[l] = d.list[l]
  BY <1>3, <1>4
<1>7. /\ \A l \in 1..Len(e.list) : l \in 1..Len(d.list) \/ l = Len(d.list) + 1
      /\ \A l \in 1..Len(d.list) : l \in 1..Len(e.list)
      /\ Len(d.list) + 1 \in 1..Len(e.list)
  BY <1>1, <1>6
<1>8. \A l \in 1..Len(d.list) : d.list[l].id # c
  BY EntrySays
<1>9. Sound(e)
  <2>1. ASSUME NEW l \in 1..Len(e.list), NEW m \in 1..Len(e.list), e.list[l].id = e.list[m].id
        PROVE  l = m
    <3>1. CASE l \in 1..Len(d.list) /\ m \in 1..Len(d.list)
      <4>1. d.list[l].id = d.list[m].id
        BY <1>6, <2>1, <3>1
      <4> QED
        BY <3>1, <4>1 DEF Sound
    <3>2. ASSUME NEW x \in 1..Len(d.list) PROVE e.list[x].id # e.list[Len(d.list) + 1].id
      BY <1>2, <1>6, <1>8
    <3> QED
      BY <1>7, <2>1, <3>1, <3>2
  <2>2. \A l \in 1..Len(e.list) : SoundEntry(e.list[l])
    BY <1>2, <1>6, <1>7 DEF Sound
  <2>3. e.default # None => \E l \in 1..Len(e.list) : e.list[l].id = e.default
    <3>1. CASE d.default = None
      BY <1>2, <1>6, <1>7, <3>1
    <3>2. CASE d.default # None
      BY <1>6, <1>7, <3>2 DEF Sound
    <3> QED
      BY <3>1, <3>2
  <2> QED
    BY <1>6, <2>1, <2>2, <2>3 DEF Sound
<1>10. \A b \in Cids : container_exists(e, b) <=> container_exists(d, b) \/ b = c
  <2>1. \A b \in Cids : container_exists(e, b) <=> \E l \in 1..Len(e.list) : e.list[l].id = b
    BY <1>5, <1>9, EntrySays
  <2>2. \A b \in Cids : container_exists(d, b) <=> \E l \in 1..Len(d.list) : d.list[l].id = b
    BY EntrySays
  <2>3. \A b \in Cids : (\E l \in 1..Len(e.list) : e.list[l].id = b)
                           <=> (\E l \in 1..Len(d.list) : d.list[l].id = b) \/ b = c
    <3>1. \A l \in 1..Len(d.list) : e.list[l].id = d.list[l].id
      BY <1>6
    <3>2. e.list[Len(d.list) + 1].id = c
      BY <1>2, <1>6
    <3> QED
      BY <1>7, <3>1, <3>2
  <2> QED
    BY <2>1, <2>2, <2>3
<1>11. \A l \in 1..Len(e.list) : At(e, e.list[l].id) = l
  BY <1>5, <1>9, EntrySays
<1>12. Entry(e, c) = new
  BY <1>2, <1>6, <1>7, <1>11 DEF Entry
<1>13. ASSUME NEW b \in Cids \ {c}, container_exists(d, b) PROVE Entry(e, b) = Entry(d, b)
  <2>1. PICK l \in 1..Len(d.list) : d.list[l].id = b
    BY <1>13, EntrySays
  <2>2. e.list[l] = d.list[l] /\ At(e, b) = l
    BY <1>6, <1>7, <1>11, <2>1
  <2>3. At(d, b) = l
    BY <2>1, EntrySays
  <2> QED
    BY <2>2, <2>3 DEF Entry
<1> QED
  BY <1>5, <1>9, <1>10, <1>12, <1>13 DEF new

LEMMA DeleteSays ==
  ASSUME NEW d \in Databases, Sound(d), NEW c \in Cids, container_exists(d, c),
         d.default # None, NEW e, e = delete_container(d, c)
  PROVE  /\ e \in Databases /\ Sound(e)
         /\ \A b \in Cids : container_exists(e, b) <=> container_exists(d, b) /\ b # c
         /\ \A b \in Cids \ {c} : container_exists(d, b) => Entry(e, b) = Entry(d, b)
<1> DEFINE k == At(d, c)
           rest == RemoveAt(d.list, k)
           default == IF d.default = c /\ rest # <<>> THEN rest[1].id
                      ELSE IF rest = <<>> THEN None ELSE d.default
<1>1. d.list \in Seq(Entries) /\ Len(d.list) \in Nat
  BY ListType
<1>2. k \in 1..Len(d.list) /\ d.list[k].id = c /\ d.keys = "full"
  BY EntrySays
<1>3. e = [d EXCEPT !.list = rest, !.default = default]
  BY DEF delete_container
<1> HIDE DEF k
<1>4. /\ rest \in Seq(Entries) /\ Len(rest) = Len(d.list) - 1
      /\ \A l \in 1..Len(rest) : \E m \in 1..Len(d.list) \ {k} :
           m = (IF l < k THEN l ELSE l + 1) /\ rest[l] = d.list[m]
      /\ \A m \in 1..Len(d.list) \ {k} : \E l \in 1..Len(rest) : rest[l] = d.list[m]
  <2>1. rest \in Seq(Entries) /\ Len(rest) = Len(d.list) - 1
    BY <1>1, <1>2, RemoveAtSays
  <2>2. /\ \A l \in 1..(Len(d.list) - 1) : \E m \in 1..Len(d.list) \ {k} :
             m = (IF l < k THEN l ELSE l + 1) /\ rest[l] = d.list[m]
        /\ \A m \in 1..Len(d.list) \ {k} : \E l \in 1..(Len(d.list) - 1) : rest[l] = d.list[m]
    BY <1>1, <1>2, RemoveAtKeeps
  <2> QED
    BY <2>1, <2>2
<1> HIDE DEF rest
<1>5. rest # <<>> => 1 \in 1..Len(rest) /\ rest[1] \in Entries
  BY <1>4
<1>6. default \in Cids \cup {None}
  <2>1. rest # <<>> => rest[1].id \in Cids
    BY <1>5 DEF Entries
  <2> QED
    BY <2>1 DEF Databases
<1>7. e \in Databases /\ e.list = rest /\ e.keys = "full" /\ e.default = default
  <2> HIDE DEF default
  <2> QED
    BY <1>2, <1>3, <1>4, <1>6 DEF Databases
<1>8. \A m \in 1..Len(d.list) : d.list[m].id = c => m = k
  BY <1>2 DEF Sound
<1>9. Sound(e)
  <2>1. ASSUME NEW x \in 1..Len(rest), NEW y \in 1..Len(rest), rest[x].id = rest[y].id
        PROVE  x = y
    <3>1. PICK m \in 1..Len(d.list) \ {k} : m = (IF x < k THEN x ELSE x + 1) /\ rest[x] = d.list[m]
      BY <1>4
    <3>2. PICK n \in 1..Len(d.list) \ {k} : n = (IF y < k THEN y ELSE y + 1) /\ rest[y] = d.list[n]
      BY <1>4
    <3>3. m = n
      <4>1. d.list[m].id = d.list[n].id
        BY <2>1, <3>1, <3>2
      <4> QED
        BY <4>1 DEF Sound
    <3> QED
      BY <1>2, <3>1, <3>2, <3>3
  <2>2. \A l \in 1..Len(rest) : SoundEntry(rest[l])
    BY <1>4 DEF Sound
  <2>3. ASSUME e.default # None PROVE \E l \in 1..Len(rest) : rest[l].id = e.default
    <3>1. CASE d.default = c /\ rest # <<>>
      BY <1>5, <1>7, <3>1
    <3>2. CASE d.default # c /\ rest # <<>>
      <4>1. PICK m \in 1..Len(d.list) : d.list[m].id = d.default
        BY DEF Sound
      <4>2. m \in 1..Len(d.list) \ {k}
        BY <1>2, <3>2, <4>1
      <4>3. e.default = d.default
        BY <1>7, <3>2
      <4>4. PICK l \in 1..Len(rest) : rest[l] = d.list[m]
        BY <1>4, <4>2
      <4> QED
        BY <4>1, <4>3, <4>4
    <3> QED
      BY <1>7, <2>3, <3>1, <3>2
  <2> QED
    BY <1>7, <2>1, <2>2, <2>3 DEF Sound
<1>10. \A b \in Cids : container_exists(e, b) <=> \E l \in 1..Len(rest) : rest[l].id = b
  BY <1>7, <1>9, EntrySays
<1>11. \A b \in Cids : container_exists(d, b) <=> \E l \in 1..Len(d.list) : d.list[l].id = b
  BY EntrySays
<1>12. \A b \in Cids : container_exists(e, b) <=> container_exists(d, b) /\ b # c
  <2>1. ASSUME NEW b \in Cids, container_exists(e, b) PROVE container_exists(d, b) /\ b # c
    <3>1. PICK l \in 1..Len(rest) : rest[l].id = b
      BY <1>10, <2>1
    <3>2. PICK m \in 1..Len(d.list) \ {k} : rest[l] = d.list[m]
      BY <1>4
    <3> QED
      BY <1>8, <1>11, <3>1, <3>2
  <2>2. ASSUME NEW b \in Cids, container_exists(d, b), b # c PROVE container_exists(e, b)
    <3>1. PICK m \in 1..Len(d.list) : d.list[m].id = b
      BY <1>11, <2>2
    <3>2. m \in 1..Len(d.list) \ {k}
      BY <1>2, <2>2, <3>1
    <3>3. PICK l \in 1..Len(rest) : rest[l] = d.list[m]
      BY <1>4, <3>2
    <3> QED
      BY <1>10, <3>1, <3>3
  <2> QED
    BY <2>1, <2>2
<1>13. ASSUME NEW b \in Cids \ {c}, container_exists(d, b) PROVE Entry(e, b) = Entry(d, b)
  <2>1. PICK m \in 1..Len(d.list) : d.list[m].id = b
    BY <1>11, <1>13
  <2>2. m \in 1..Len(d.list) \ {k}
    BY <1>2, <2>1
  <2>3. PICK l \in 1..Len(rest) : rest[l] = d.list[m]
    BY <1>4, <2>2
  <2>4. At(e, b) = l /\ At(d, b) = m
    BY <1>7, <1>9, <2>1, <2>3, EntrySays
  <2> QED
    BY <1>7, <2>3, <2>4 DEF Entry
<1> QED
  BY <1>7, <1>9, <1>12, <1>13

-----------------------------------------------------------------------------
(* Merging.  Any set of positions can be put in order: by induction, that  *)
(* is, there is no least number up to which it cannot.                     *)

LEMMA Least ==
  ASSUME NEW T \in SUBSET Nat, T # {}
  PROVE  \E x \in T : \A y \in T : x <= y
<1>1. \E x \in T : \A y \in T : <<y, x>> \notin OpToRel(<, Nat)
  BY NatLessThanWellFounded, WFMin, Zenon
<1>2. PICK x \in T : \A y \in T : <<y, x>> \notin OpToRel(<, Nat)
  BY <1>1, Zenon
<1>3. ASSUME NEW y \in T PROVE x <= y
  <2>1. <<y, x>> \notin OpToRel(<, Nat)
    BY <1>2, Zenon
  <2>2. x \in Nat /\ y \in Nat
    OBVIOUS
  <2>3. ~(y < x)
    BY <2>1, <2>2 DEF OpToRel
  <2> QED
    BY <2>2, <2>3
<1> QED
  BY <1>3

Numbers(t, K, n) ==
  /\ \E m \in 0..n : t \in [1..m -> 1..n]
  /\ {t[x] : x \in DOMAIN t} = K
  /\ \A x, y \in DOMAIN t : x < y => t[x] < t[y]

LEMMA Numbered ==
  ASSUME NEW n \in Nat, NEW K \in SUBSET (1..n)
  PROVE  \E t : Numbers(t, K, n)
<1> DEFINE T == {m \in Nat : \E L \in SUBSET (1..m) : \A t : ~Numbers(t, L, m)}
<1> SUFFICES ASSUME T # {} PROVE FALSE
  OBVIOUS
<1>1. PICK m \in T : \A l \in T : m <= l
  BY Least
<1>2. PICK L \in SUBSET (1..m) : \A t : ~Numbers(t, L, m)
  OBVIOUS
<1>3. m # 0
  <2> SUFFICES ASSUME m = 0 PROVE FALSE
    OBVIOUS
  <2>1. L = {} /\ 1..m = {} /\ m \in 0..m
    OBVIOUS
  <2> DEFINE t == [x \in 1..m |-> x]
  <2>2. t \in [1..m -> 1..m] /\ DOMAIN t = {}
    BY <2>1
  <2>3. Numbers(t, L, m)
    BY <2>1, <2>2 DEF Numbers
  <2> QED
    BY <1>2, <2>3
<1>4. m - 1 \in Nat /\ m - 1 \notin T
  BY <1>1, <1>3
<1>5. L \ {m} \in SUBSET (1..(m - 1))
  BY <1>3
<1>6. PICK t : Numbers(t, L \ {m}, m - 1)
  BY <1>4, <1>5
<1>7. PICK k \in 0..(m - 1) : t \in [1..k -> 1..(m - 1)]
  BY <1>6 DEF Numbers
<1>8. {t[x] : x \in 1..k} = L \ {m} /\ \A x, y \in 1..k : x < y => t[x] < t[y]
  BY <1>6, <1>7 DEF Numbers
<1>9. CASE m \notin L
  <2>1. L \ {m} = L
    BY <1>9
  <2>2. t \in [1..k -> 1..m] /\ k \in 0..m
    BY <1>7
  <2>3. Numbers(t, L, m)
    BY <1>8, <2>1, <2>2 DEF Numbers
  <2> QED
    BY <1>2, <2>3
<1>10. CASE m \in L
  <2> DEFINE u == [x \in 1..(k + 1) |-> IF x <= k THEN t[x] ELSE m]
  <2>1. /\ DOMAIN u = 1..(k + 1) /\ u[k + 1] = m
        /\ \A x \in 1..k : u[x] = t[x] /\ t[x] \in 1..(m - 1)
        /\ k + 1 \in 0..m /\ m \in 1..m
    BY <1>3, <1>7
  <2>2. u \in [1..(k + 1) -> 1..m]
    BY <1>3, <1>7
  <2> HIDE DEF u
  <2>3. \A x \in 1..(k + 1) : x \in 1..k \/ x = k + 1
    BY <1>7
  <2>4. 1..k \subseteq 1..(k + 1) /\ k + 1 \in 1..(k + 1)
    BY <1>7
  <2>5. {u[x] : x \in 1..(k + 1)} = L
    <3>1. ASSUME NEW x \in 1..(k + 1) PROVE u[x] \in L
      <4>1. \A y \in 1..k : t[y] \in L \ {m}
        BY <1>8
      <4> QED
        BY <1>10, <2>1, <2>3, <4>1
    <3>2. ASSUME NEW l \in L PROVE \E x \in 1..(k + 1) : u[x] = l
      <4>1. CASE l = m
        BY <2>1, <2>4, <4>1
      <4>2. CASE l # m
        <5>1. PICK x \in 1..k : t[x] = l
          BY <1>8, <4>2
        <5> QED
          BY <2>1, <2>4, <5>1
      <4> QED
        BY <4>1, <4>2
    <3> QED
      BY <3>1, <3>2
  <2>6. ASSUME NEW x \in 1..(k + 1), NEW y \in 1..(k + 1), x < y PROVE u[x] < u[y]
    <3>1. x \in 1..k
      BY <1>7, <2>6
    <3>2. CASE y \in 1..k
      BY <1>8, <2>1, <2>6, <3>1, <3>2
    <3>3. CASE y = k + 1
      <4>1. u[x] \in 1..(m - 1) /\ u[y] = m
        BY <2>1, <3>1, <3>3
      <4> QED
        BY <4>1
    <3> QED
      BY <2>3, <3>2, <3>3
  <2>7. Numbers(u, L, m)
    BY <2>1, <2>2, <2>5, <2>6 DEF Numbers
  <2> QED
    BY <1>2, <2>7
<1> QED
  BY <1>9, <1>10

LEMMA InOrderSays ==
  ASSUME NEW n \in Nat, NEW K \in SUBSET (1..n), NEW t, t = InOrder(K, n)
  PROVE  /\ t \in Seq(1..n)
         /\ \A x \in 1..Len(t) : t[x] \in K
         /\ \A x, y \in 1..Len(t) : t[x] = t[y] => x = y
<1>1. PICK u : Numbers(u, K, n)
  BY Numbered
<1>2. u \in UNION {[1..m -> 1..n] : m \in 0..n}
  BY <1>1 DEF Numbers
<1>3. /\ t \in UNION {[1..m -> 1..n] : m \in 0..n}
      /\ {t[x] : x \in DOMAIN t} = K
      /\ \A x, y \in DOMAIN t : x < y => t[x] < t[y]
  BY <1>1, <1>2 DEF InOrder, Numbers
<1>4. PICK m \in 0..n : t \in [1..m -> 1..n]
  BY <1>3
<1>5. t \in Seq(1..n) /\ DOMAIN t = 1..m /\ Len(t) = m
  BY <1>4
<1>6. ASSUME NEW x \in 1..m, NEW y \in 1..m, t[x] = t[y] PROVE x = y
  <2>1. t[x] \in Nat /\ x \in Nat /\ y \in Nat
    BY <1>4
  <2> QED
    BY <1>3, <1>5, <1>6, <2>1
<1> QED
  BY <1>3, <1>5, <1>6

LEMMA ConcatSays ==
  ASSUME NEW S, NEW s \in Seq(S), NEW t \in Seq(S), NEW u, u = s \o t
  PROVE  /\ u \in Seq(S)
         /\ \A k \in 1..Len(s) : u[k] = s[k] /\ k \in 1..Len(u)
         /\ \A k \in 1..Len(u) :
              \/ k \in 1..Len(s) /\ u[k] = s[k]
              \/ \E l \in 1..Len(t) : k = Len(s) + l /\ u[k] = t[l]
<1>1. Len(s) \in Nat /\ Len(t) \in Nat /\ Len(u) = Len(s) + Len(t)
  OBVIOUS
<1>2. ASSUME NEW k \in 1..Len(u), k \notin 1..Len(s)
      PROVE  \E l \in 1..Len(t) : k = Len(s) + l /\ u[k] = t[l]
  <2>1. k - Len(s) \in 1..Len(t) /\ k = Len(s) + (k - Len(s))
    BY <1>1, <1>2
  <2>2. u[k] = t[k - Len(s)]
    BY <1>1, <2>1
  <2> QED
    BY <2>1, <2>2
<1> QED
  BY <1>1, <1>2

LEMMA MergedSays ==
  ASSUME NEW d \in Databases, Sound(d), NEW src \in Databases, Sound(src), src.keys = "full"
  PROVE  Merged(d, src) \in Databases /\ Sound(Merged(d, src))
<1> DEFINE n == Len(src.list)
           K == {k \in 1..n : ~container_exists(d, src.list[k].id)}
           more == InOrder(K, n)
           ours == [k \in 1..Len(d.list) |-> IF container_exists(src, d.list[k].id)
                                               THEN Entry(src, d.list[k].id) ELSE d.list[k]]
           theirs == [x \in 1..Len(more) |-> src.list[more[x]]]
           e == Merged(d, src)
<1>1. CASE d.keys # "full"
  BY <1>1 DEF Merged
<1>2. CASE d.keys = "full"
  <2>1. e = [d EXCEPT !.list = ours \o theirs]
    BY <1>2 DEF Merged
  <2>2. Len(d.list) \in Nat /\ n \in Nat
    BY ListType
  <2>3. /\ more \in Seq(1..n)
        /\ \A x \in 1..Len(more) : more[x] \in K
        /\ \A x, y \in 1..Len(more) : more[x] = more[y] => x = y
    <3>1. K \in SUBSET (1..n)
      OBVIOUS
    <3> HIDE DEF K, n
    <3> QED
      BY <2>2, <3>1, InOrderSays
  <2> HIDE DEF more
  <2>4. \A k \in 1..Len(d.list) :
          ours[k] \in Entries /\ SoundEntry(ours[k]) /\ ours[k].id = d.list[k].id
    <3>1. ASSUME NEW k \in 1..Len(d.list), container_exists(src, d.list[k].id)
          PROVE  /\ Entry(src, d.list[k].id) \in Entries /\ SoundEntry(Entry(src, d.list[k].id))
                 /\ Entry(src, d.list[k].id).id = d.list[k].id
      BY <3>1, EntrySays
    <3>2. \A k \in 1..Len(d.list) : d.list[k] \in Entries /\ SoundEntry(d.list[k])
      BY ListType DEF Sound
    <3> QED
      BY <3>1, <3>2
  <2>5. \A x \in 1..Len(more) :
          /\ theirs[x] \in Entries /\ SoundEntry(theirs[x])
          /\ theirs[x] = src.list[more[x]] /\ more[x] \in 1..n
          /\ ~container_exists(d, theirs[x].id)
    <3>1. \A k \in 1..n : src.list[k] \in Entries /\ SoundEntry(src.list[k])
      BY ListType DEF Sound
    <3>2. \A x \in 1..Len(more) : theirs[x] = src.list[more[x]]
      OBVIOUS
    <3>3. \A k \in K : k \in 1..n /\ ~container_exists(d, src.list[k].id)
      OBVIOUS
    <3> HIDE DEF K, theirs, n
    <3> QED
      BY <2>3, <3>1, <3>2, <3>3
  <2>6. /\ ours \in Seq(Entries) /\ Len(ours) = Len(d.list)
        /\ theirs \in Seq(Entries) /\ Len(theirs) = Len(more) /\ Len(more) \in Nat
    <3>1. Len(more) \in Nat
      BY <2>3
    <3>2. ours \in [1..Len(d.list) -> Entries] /\ theirs \in [1..Len(more) -> Entries]
      BY <2>4, <2>5
    <3> HIDE DEF ours, theirs
    <3> QED
      BY SMTT(30), <2>2, <3>1, <3>2
  <2> HIDE DEF ours, theirs, n, K
  <2> DEFINE all == ours \o theirs
  <2>7. /\ all \in Seq(Entries)
        /\ \A k \in 1..Len(d.list) : all[k] = ours[k] /\ k \in 1..Len(all)
        /\ \A k \in 1..Len(all) :
             \/ k \in 1..Len(d.list) /\ all[k] = ours[k]
             \/ \E x \in 1..Len(more) : k = Len(d.list) + x /\ all[k] = theirs[x]
    <3>1. all = ours \o theirs
      OBVIOUS
    <3> HIDE DEF all
    <3>2. /\ all \in Seq(Entries)
          /\ \A k \in 1..Len(ours) : all[k] = ours[k] /\ k \in 1..Len(all)
          /\ \A k \in 1..Len(all) :
               \/ k \in 1..Len(ours) /\ all[k] = ours[k]
               \/ \E l \in 1..Len(theirs) : k = Len(ours) + l /\ all[k] = theirs[l]
      <4>1. ours \in Seq(Entries) /\ theirs \in Seq(Entries)
        BY <2>6
      <4> QED
        BY <3>1, <4>1, ConcatSays
    <3> QED
      BY <2>6, <3>2, Zenon
  <2>8. e \in Databases /\ e.list = all /\ e.keys = "full" /\ e.default = d.default
    <3> HIDE DEF all
    <3> QED
      BY <1>2, <2>1, <2>7 DEF Databases, all
  <2> HIDE DEF all, e
  <2>9. ASSUME NEW k \in 1..Len(all), NEW l \in 1..Len(all), all[k].id = all[l].id
        PROVE  k = l
    <3>1. CASE k \in 1..Len(d.list) /\ l \in 1..Len(d.list)
      <4>1. d.list[k].id = d.list[l].id
        BY <2>4, <2>7, <2>9, <3>1
      <4> QED
        BY <3>1, <4>1 DEF Sound
    <3>2. ASSUME NEW x \in 1..Len(more), NEW y \in 1..Len(more),
                 k = Len(d.list) + x, all[k] = theirs[x], l = Len(d.list) + y, all[l] = theirs[y]
          PROVE  k = l
      <4>1. src.list[more[x]].id = src.list[more[y]].id /\ more[x] \in 1..n /\ more[y] \in 1..n
        BY <2>5, <2>9, <3>2
      <4>2. more[x] = more[y]
        BY <4>1 DEF Sound, n
      <4> QED
        BY <2>3, <3>2, <4>2
    <3>3. ASSUME NEW x \in 1..Len(more), NEW m \in 1..Len(d.list)
          PROVE  theirs[x].id # ours[m].id
      <4>1. container_exists(d, d.list[m].id)
        BY EntrySays
      <4> QED
        BY <2>4, <2>5, <4>1
    <3>4. /\ \/ k \in 1..Len(d.list) /\ all[k] = ours[k]
             \/ \E x \in 1..Len(more) : k = Len(d.list) + x /\ all[k] = theirs[x]
          /\ \/ l \in 1..Len(d.list) /\ all[l] = ours[l]
             \/ \E x \in 1..Len(more) : l = Len(d.list) + x /\ all[l] = theirs[x]
      BY <2>7
    <3>5. CASE k \in 1..Len(d.list) /\ all[k] = ours[k]
      <4>1. \A x \in 1..Len(more) : all[l] # theirs[x]
        BY <2>9, <3>3, <3>5
      <4> QED
        BY <3>1, <3>4, <3>5, <4>1
    <3>6. CASE l \in 1..Len(d.list) /\ all[l] = ours[l]
      <4>1. \A x \in 1..Len(more) : all[k] # theirs[x]
        BY <2>9, <3>3, <3>6
      <4> QED
        BY <3>1, <3>4, <3>6, <4>1
    <3> QED
      BY <3>2, <3>4, <3>5, <3>6
  <2>10. \A k \in 1..Len(all) : SoundEntry(all[k])
    BY <2>4, <2>5, <2>7
  <2>11. d.default # None => \E k \in 1..Len(all) : all[k].id = d.default
    BY <2>4, <2>7 DEF Sound
  <2> QED
    BY <2>8, <2>9, <2>10, <2>11 DEF Sound, e
<1> QED
  BY <1>1, <1>2

-----------------------------------------------------------------------------
(* What one entry may become. *)

LEMMA EntryParts ==
  ASSUME NEW x \in Entries
  PROVE  /\ x.id \in Cids /\ x.type \in {"chroot", "lxc"} /\ x.status \in Statuses
         /\ x.multiarch \in BOOLEAN /\ x.apps \in Seq(Items(Packages))
         /\ x.archives \in Seq(Items(Archives)) /\ x.mounts \in Seq(Mounts)
  BY DEF Entries

LEMMA StatusSetSays ==
  ASSUME NEW d \in Databases, Sound(d), NEW c \in Cids, container_exists(d, c),
         NEW s \in Statuses
  PROVE  /\ Says(d, SetStatus(d, c, s), c, [Entry(d, c) EXCEPT !.status = s])
         /\ Entry(d, c) \in Entries
<1> DEFINE x == Entry(d, c)
<1>1. x \in Entries /\ x.id = c /\ SoundEntry(x)
  BY EntrySays
<1> HIDE DEF x
<1>2. /\ [x EXCEPT !.status = s] \in Entries /\ [x EXCEPT !.status = s].id = c
      /\ SoundEntry([x EXCEPT !.status = s])
  BY <1>1 DEF Entries, SoundEntry
<1> QED
  BY <1>1, <1>2, SetEntrySays DEF SetStatus, x

LEMMA AppsSetSays ==
  ASSUME NEW d \in Databases, Sound(d), NEW c \in Cids, container_exists(d, c),
         NEW s \in Seq(Items(Packages)), NamedOnce(s)
  PROVE  /\ Says(d, SetApps(d, c, s), c, [Entry(d, c) EXCEPT !.apps = s])
         /\ Entry(d, c) \in Entries
<1> DEFINE x == Entry(d, c)
<1>1. x \in Entries /\ x.id = c /\ SoundEntry(x)
  BY EntrySays
<1> HIDE DEF x
<1>2. /\ [x EXCEPT !.apps = s] \in Entries /\ [x EXCEPT !.apps = s].id = c
      /\ SoundEntry([x EXCEPT !.apps = s])
  BY <1>1 DEF Entries, SoundEntry
<1> QED
  BY <1>1, <1>2, SetEntrySays DEF SetApps, x

LEMMA ArchivesSetSays ==
  ASSUME NEW d \in Databases, Sound(d), NEW c \in Cids, container_exists(d, c),
         NEW s \in Seq(Items(Archives)), NamedOnce(s)
  PROVE  /\ Says(d, SetArchives(d, c, s), c, [Entry(d, c) EXCEPT !.archives = s])
         /\ Entry(d, c) \in Entries
<1> DEFINE x == Entry(d, c)
<1>1. x \in Entries /\ x.id = c /\ SoundEntry(x)
  BY EntrySays
<1> HIDE DEF x
<1>2. /\ [x EXCEPT !.archives = s] \in Entries /\ [x EXCEPT !.archives = s].id = c
      /\ SoundEntry([x EXCEPT !.archives = s])
  BY <1>1 DEF Entries, SoundEntry
<1> QED
  BY <1>1, <1>2, SetEntrySays DEF SetArchives, x

\* An entry as stop_container and a nested session leave it.
StoppedStatus(d, c) == IF Entry(d, c).type = "lxc" THEN "stopped" ELSE "ready"
NestedStatus(d, c) == IF Entry(d, c).type = "lxc" THEN "busy" ELSE "ready"

LEMMA StoppedSays ==
  ASSUME NEW d \in Databases, Sound(d), NEW c \in Cids, container_exists(d, c)
  PROVE  /\ Says(d, Stopped(d, c), c, [Entry(d, c) EXCEPT !.status = StoppedStatus(d, c)])
         /\ Says(d, Nested(d, c), c, [Entry(d, c) EXCEPT !.status = NestedStatus(d, c)])
         /\ StoppedStatus(d, c) \in {"ready", "stopped"}
<1>1. StoppedStatus(d, c) \in {"ready", "stopped"}
  BY DEF StoppedStatus
<1>2. StoppedStatus(d, c) \in Statuses /\ NestedStatus(d, c) \in Statuses
  BY DEF StoppedStatus, NestedStatus, Statuses
<1> QED
  BY <1>1, <1>2, StatusSetSays DEF Stopped, Nested, StoppedStatus, NestedStatus

\* The end of a session writes a status and no more.
LEMMA EndedSays ==
  ASSUME NEW d, NEW c, NEW bad
  PROVE  /\ \E s \in Statuses : Ended(d, c, bad) = SetStatus(d, c, s)
         /\ bad = {} => Ended(d, c, bad) = Stopped(d, c)
         /\ \A e \in Tried(d, c, bad) : e = d \/ e = Ended(d, c, bad)
<1>1. Ended(d, c, bad) \in {SetStatus(d, c, s) : s \in {"stopped", "ready", "busy"}}
  BY DEF Ended, Stopped
<1> QED
  BY <1>1 DEF Ended, Tried, Statuses

LEMMA UnrestsSay == ASSUME NEW c, NEW bad \in Unrests(c) PROVE bad \subseteq {"unrest"}
  BY DEF Unrests

\* The lists of packages and archives an entry may be given.
LEMMA ListsOf ==
  ASSUME NEW d \in Databases, Sound(d), NEW c \in Cids, container_exists(d, c)
  PROVE  /\ Entry(d, c).apps \in Seq(Items(Packages)) /\ NamedOnce(Entry(d, c).apps)
         /\ Entry(d, c).archives \in Seq(Items(Archives)) /\ NamedOnce(Entry(d, c).archives)
  BY EntrySays, EntryParts DEF SoundEntry

LEMMA MultiarchSetSays ==
  ASSUME NEW d \in Databases, Sound(d), NEW c \in Cids, container_exists(d, c), NEW on \in BOOLEAN
  PROVE  Says(d, SetEntry(d, c, [Entry(d, c) EXCEPT !.multiarch = on]), c,
              [Entry(d, c) EXCEPT !.multiarch = on])
<1> DEFINE x == Entry(d, c)
<1>1. x \in Entries /\ x.id = c /\ SoundEntry(x)
  BY EntrySays
<1> HIDE DEF x
<1>2. /\ [x EXCEPT !.multiarch = on] \in Entries /\ [x EXCEPT !.multiarch = on].id = c
      /\ SoundEntry([x EXCEPT !.multiarch = on])
  BY <1>1 DEF Entries, SoundEntry
<1> QED
  BY <1>1, <1>2, SetEntrySays DEF x

LEMMA FreezeSetSays ==
  ASSUME NEW d \in Databases, Sound(d), NEW c \in Cids, container_exists(d, c), NEW on \in BOOLEAN
  PROVE  Says(d, SetEntry(d, c, [Entry(d, c) EXCEPT !.freeze = on]), c,
              [Entry(d, c) EXCEPT !.freeze = on])
<1> DEFINE x == Entry(d, c)
<1>1. x \in Entries /\ x.id = c /\ SoundEntry(x)
  BY EntrySays
<1> HIDE DEF x
<1>2. /\ [x EXCEPT !.freeze = on] \in Entries /\ [x EXCEPT !.freeze = on].id = c
      /\ SoundEntry([x EXCEPT !.freeze = on])
  BY <1>1 DEF Entries, SoundEntry
<1> QED
  BY <1>1, <1>2, SetEntrySays DEF x

\* A mount that is not listed is added, one that is taken away.
LEMMA MountsSetSays ==
  ASSUME NEW d \in Databases, Sound(d), NEW c \in Cids, container_exists(d, c),
         NEW m \in Seq(Mounts), \A k, l \in 1..Len(m) : m[k] = m[l] => k = l
  PROVE  Says(d, SetEntry(d, c, [Entry(d, c) EXCEPT !.mounts = m]), c,
              [Entry(d, c) EXCEPT !.mounts = m])
<1> DEFINE x == Entry(d, c)
<1>1. x \in Entries /\ x.id = c /\ SoundEntry(x)
  BY EntrySays
<1> HIDE DEF x
<1>2. /\ [x EXCEPT !.mounts = m] \in Entries /\ [x EXCEPT !.mounts = m].id = c
      /\ SoundEntry([x EXCEPT !.mounts = m])
  BY <1>1 DEF Entries, SoundEntry
<1> QED
  BY <1>1, <1>2, SetEntrySays DEF x

LEMMA MountAdded ==
  ASSUME NEW s \in Seq(Mounts), \A k, l \in 1..Len(s) : s[k] = s[l] => k = l, NEW m \in Mounts
  PROVE  /\ {k \in 1..Len(s) : s[k] = m} = {} =>
              /\ Append(s, m) \in Seq(Mounts)
              /\ \A k, l \in 1..Len(Append(s, m)) : Append(s, m)[k] = Append(s, m)[l] => k = l
         /\ \A k \in 1..Len(s) :
              /\ RemoveAt(s, k) \in Seq(Mounts)
              /\ \A x, y \in 1..Len(RemoveAt(s, k)) : RemoveAt(s, k)[x] = RemoveAt(s, k)[y] => x = y
<1>0. Len(s) \in Nat
  OBVIOUS
<1>1. ASSUME {k \in 1..Len(s) : s[k] = m} = {}
      PROVE  /\ Append(s, m) \in Seq(Mounts)
             /\ \A k, l \in 1..Len(Append(s, m)) : Append(s, m)[k] = Append(s, m)[l] => k = l
  <2>1. \A k \in 1..Len(s) : s[k] # m
    BY <1>1
  <2> QED
    BY <1>0, <2>1, AppendSays
<1>2. ASSUME NEW k \in 1..Len(s)
      PROVE  /\ RemoveAt(s, k) \in Seq(Mounts)
             /\ \A x, y \in 1..Len(RemoveAt(s, k)) : RemoveAt(s, k)[x] = RemoveAt(s, k)[y] => x = y
  <2> DEFINE t == RemoveAt(s, k)
  <2>1. t \in Seq(Mounts) /\ Len(t) = Len(s) - 1
    BY RemoveAtSays
  <2>2. ASSUME NEW x \in 1..Len(t), NEW y \in 1..Len(t), t[x] = t[y] PROVE x = y
    <3>1. \A l \in 1..(Len(s) - 1) : \E n \in 1..Len(s) \ {k} :
            n = (IF l < k THEN l ELSE l + 1) /\ t[l] = s[n]
      BY RemoveAtKeeps
    <3> HIDE DEF t
    <3>2. PICK n \in 1..Len(s) \ {k} : n = (IF x < k THEN x ELSE x + 1) /\ t[x] = s[n]
      BY <2>1, <3>1
    <3>3. PICK o \in 1..Len(s) \ {k} : o = (IF y < k THEN y ELSE y + 1) /\ t[y] = s[o]
      BY <2>1, <3>1
    <3>4. n = o
      BY <2>2, <3>2, <3>3
    <3> QED
      BY <1>0, <2>1, <3>2, <3>3, <3>4
  <2> QED
    BY <2>1, <2>2
<1> QED
  BY <1>1, <1>2

-----------------------------------------------------------------------------
(* Types, and what a command has established when it is at a label. *)

Procs == [at : Labels, cmd : AllCommands \cup {Idle.cmd}, cid : Cids \cup {None},
          todo : Seq(Packages), ok : BOOLEAN,
          was : Statuses \cup ItemStatuses \cup {"none"}, i : Nat, j : Nat]

Building == {"added", "build", "building", "undo", "complete"}

\* Which command it is.
RightOp(p) ==
  /\ p.at \in Building => p.cmd.op = "create"
  /\ p.at = "drop" => p.cmd.op \in {"create", "destroy"}
  /\ p.at = "destroy" => p.cmd.op = "destroy" /\ p.was \in Statuses
  /\ p.at \in {"next", "apt"} => p.cmd.op \in {"install", "remove"}
  /\ p.at = "open" => p.cmd.op \in {"multiarch", "archive"}
  /\ p.at = "work" => p.cmd.op \in {"update", "multiarch", "archive"}
  /\ p.at = "record" => p.cmd.op \in {"install", "remove", "multiarch", "archive"}

\* What it works on: it does so once it has checked that it is there.
Formed(p, d) ==
  /\ p.at # "idle" => p.cmd \in AllCommands
  /\ p.at = "start" => p.cid = p.cmd.cid
  /\ RightOp(p)
  /\ p.at = "apt" \/ (p.at = "record" /\ p.cmd.op \in {"install", "remove"}) => p.todo # <<>>
  /\ p.at \in {"fix", "fixapps", "fixarchives"} => p.i # 0
  /\ p.at \in {"fixapps", "fixarchives"} => p.j # 0
  /\ p.at \notin {"idle", "start", "fix"} => p.cid \in Cids /\ container_exists(d, p.cid)

TypeInv ==
  /\ db \in Databases /\ Sound(db)
  /\ world \in [Cids -> Worlds]
  /\ proc \in Procs /\ Formed(proc, db)
  /\ upset \subseteq Upsets
  /\ given \in 0..MaxCommands

\* No container is lost.
Kept(d, e) ==
  /\ e \in Databases /\ Sound(e)
  /\ \A c \in Cids : container_exists(d, c) => container_exists(e, c)

LEMMA SaysKept ==
  ASSUME NEW d, NEW e, NEW c, NEW x, Says(d, e, c, x)
  PROVE  Kept(d, e)
  BY DEF Says, Kept

\* The end of a session, and a session that may not have begun.
LEMMA EndedKept ==
  ASSUME NEW d \in Databases, Sound(d), NEW c \in Cids, container_exists(d, c), NEW bad
  PROVE  Kept(d, Ended(d, c, bad)) /\ \A e \in Tried(d, c, bad) : Kept(d, e)
<1>1. PICK s \in Statuses : Ended(d, c, bad) = SetStatus(d, c, s)
  BY EndedSays
<1>2. Kept(d, Ended(d, c, bad))
  BY <1>1, StatusSetSays, SaysKept
<1> QED
  BY <1>2, EndedSays DEF Kept

LEMMA CommandParts ==
  ASSUME NEW cmd \in AllCommands
  PROVE  /\ cmd.op \in Ops /\ cmd.cid \in Cids \cup {None} /\ cmd.type \in {"chroot", "lxc"}
         /\ cmd.on \in BOOLEAN /\ cmd.pkgs \in Seq(Packages)
         /\ cmd.op = "create" => cmd.cid \in Cids
         /\ cmd.op = "archive" => cmd.name \in Archives
         /\ cmd.op = "bind" => cmd.name \in Mounts
  BY DEF AllCommands

LEMMA ProcParts ==
  ASSUME NEW p \in Procs
  PROVE  /\ p.at \in Labels /\ p.cmd \in AllCommands \cup {Idle.cmd} /\ p.cid \in Cids \cup {None}
         /\ p.todo \in Seq(Packages) /\ p.ok \in BOOLEAN
         /\ p.was \in Statuses \cup ItemStatuses \cup {"none"} /\ p.i \in Nat /\ p.j \in Nat
  BY DEF Procs

LEMMA IdleFormed == \A d : Idle \in Procs /\ Formed(Idle, d)
<1>1. <<>> \in Seq(Packages)
  OBVIOUS
<1>2. Idle \in Procs
  BY <1>1 DEF Idle, Procs, Labels
<1>3. \A d : Formed(Idle, d)
  BY DEF Idle, Formed, RightOp, Building
<1> QED
  BY <1>2, <1>3

\* A command goes on to a label that its arguments allow.
LEMMA Goes ==
  ASSUME NEW p \in Procs, NEW d, NEW e, Formed(p, d), Kept(d, e),
         p.at \notin {"idle", "start", "fix", "fixapps", "fixarchives"},
         NEW l \in Labels \ {"idle", "start", "fix", "fixapps", "fixarchives"},
         NEW q, q = [p EXCEPT !.at = l], RightOp(q),
         l = "apt" \/ (l = "record" /\ p.cmd.op \in {"install", "remove"}) => p.todo # <<>>
  PROVE  q \in Procs /\ Formed(q, e)
<1>1. q \in Procs
  BY DEF Procs
<1>2. q.at = l /\ q.cmd = p.cmd /\ q.cid = p.cid /\ q.todo = p.todo
  BY DEF Procs
<1> QED
  BY <1>1, <1>2 DEF Formed, Kept

LEMMA TypeStays ==
  ASSUME TypeInv, NEW d, NEW w, NEW p, NEW u, NEW g,
         d \in Databases, Sound(d), w \in [Cids -> Worlds], p \in Procs, Formed(p, d),
         u \subseteq Upsets, g \in 0..MaxCommands,
         db' = d, world' = w, proc' = p, upset' = u, given' = g
  PROVE  TypeInv'
  BY DEF TypeInv

LEMMA TypeImplied == TypeInv => TypeOK /\ DefaultListed
<1>1. TypeInv => TypeOK
  BY DEF TypeInv, TypeOK, Procs
<1>2. TypeInv => DefaultListed
  BY DEF TypeInv, Sound, DefaultListed
<1> QED
  BY <1>1, <1>2

LEMMA TypeStarts == Init => TypeInv
<1> SUFFICES ASSUME Init PROVE TypeInv
  OBVIOUS
<1>1. <<>> \in Seq(Entries) /\ 1..Len(<<>>) = {}
  OBVIOUS
<1>2. db \in Databases
  BY <1>1 DEF Init, Databases
<1>3. Sound(db)
  BY <1>1 DEF Init, Sound
<1>4. world \in [Cids -> Worlds]
  BY DEF Init, Worlds, Nothing
<1>5. given \in 0..MaxCommands
  BY MaxCommandsAssumption DEF Init
<1> QED
  BY <1>2, <1>3, <1>4, <1>5, IdleFormed DEF Init, TypeInv

\* A command that ends, whatever it has done to the database.
LEMMA EndTyped ==
  ASSUME TypeInv, End, db' \in Databases, Sound(db)', world' \in [Cids -> Worlds],
         upset' \subseteq Upsets, given' = given
  PROVE  TypeInv'
  BY IdleFormed DEF TypeInv, End

\* A command that goes on to the label l, and may have changed was or ok.
LEMMA GoesTyped ==
  ASSUME TypeInv, Kept(db, db'), world' \in [Cids -> Worlds],
         upset' \subseteq Upsets, given' = given,
         proc' \in Procs, RightOp(proc'), proc'.cmd = proc.cmd, proc'.cid = proc.cid,
         proc.at \notin {"idle", "start", "fix", "fixapps", "fixarchives"},
         proc'.at \notin {"idle", "start", "fix", "fixapps", "fixarchives"},
         proc'.at = "apt" \/ (proc'.at = "record" /\ Op \in {"install", "remove"}) => proc'.todo # <<>>
  PROVE  TypeInv'
<1>1. Formed(proc', db')
  BY DEF TypeInv, Formed, Kept, Op
<1> QED
  BY <1>1 DEF TypeInv, Kept

\* The command that works on a listed container.
LEMMA AtWork ==
  ASSUME TypeInv, proc.at \notin {"idle", "start", "fix"}
  PROVE  /\ proc.cid \in Cids /\ container_exists(db, proc.cid) /\ proc.cmd \in AllCommands
         /\ Entry(db, proc.cid) \in Entries /\ Entry(db, proc.cid).id = proc.cid
         /\ world[proc.cid] \in Worlds
  BY EntrySays DEF TypeInv, Formed

LEMMA ProcMoves ==
  ASSUME TypeInv, NEW l \in Labels, Goto(l)
  PROVE  /\ proc' \in Procs /\ proc'.at = l /\ proc'.cmd = proc.cmd /\ proc'.cid = proc.cid
         /\ proc'.todo = proc.todo /\ proc'.was = proc.was /\ proc'.ok = proc.ok
  BY DEF TypeInv, Procs, Goto

LEMMA GiveTyped ==
  ASSUME TypeInv, NEW cmd \in Commands, Give(cmd)
  PROVE  TypeInv'
<1>1. cmd \in AllCommands /\ cmd.cid \in Cids \cup {None} /\ cmd.pkgs \in Seq(Packages)
  BY CommandsAssumption, CommandParts
<1>2. /\ proc' \in Procs /\ proc'.at = "start" /\ proc'.cmd = cmd /\ proc'.cid = cmd.cid
  BY <1>1, IdleFormed DEF Give, Procs, Idle, Labels
<1>3. Formed(proc', db')
  BY <1>1, <1>2 DEF Formed, RightOp, Building
<1>4. given' \in 0..MaxCommands
  BY MaxCommandsAssumption DEF TypeInv, Give
<1> QED
  BY <1>2, <1>3, <1>4 DEF TypeInv, Give

LEMMA KillTyped == ASSUME TypeInv, Kill PROVE TypeInv'
<1>1. End /\ db' = db /\ world' = world /\ given' = given /\ upset' = upset \cup {"kill"}
  BY DEF Kill
<1> QED
  BY <1>1, EndTyped DEF TypeInv

LEMMA CheckTyped == ASSUME TypeInv, CheckContainerId PROVE TypeInv'
<1>1. db' = db /\ world' = world /\ given' = given
  BY DEF CheckContainerId
<1>2. CASE End /\ upset' \in {upset, upset \cup {"traceback"}}
  BY <1>1, <1>2, EndTyped DEF TypeInv
<1>3. CASE /\ proc.at = "start" /\ upset' = upset
           /\ proc.cid # None => db.keys # "bare" /\ container_exists(db, proc.cid)
           /\ proc.cid = None => db.default # None
           /\ proc' = [proc EXCEPT !.at = "checked", !.cid = IF @ = None THEN db.default ELSE @]
  <2> DEFINE c == IF proc.cid = None THEN db.default ELSE proc.cid
  <2>1. c \in Cids /\ container_exists(db, c)
    <3>1. CASE proc.cid = None
      <4>1. db.default \in Cids
        BY <1>3, <3>1 DEF TypeInv, Databases
      <4>2. \E k \in 1..Len(db.list) : db.list[k].id = db.default
        BY <1>3, <3>1 DEF TypeInv, Sound
      <4> QED
        BY <3>1, <4>1, <4>2, EntrySays DEF TypeInv
    <3>2. CASE proc.cid # None
      BY <1>3, <3>2, ProcParts DEF TypeInv
    <3> QED
      BY <3>1, <3>2
  <2> HIDE DEF c
  <2>2. proc' = [proc EXCEPT !.at = "checked", !.cid = c]
    BY <1>3 DEF c
  <2>3. proc' \in Procs /\ proc'.at = "checked" /\ proc'.cid = c /\ proc'.cmd = proc.cmd
    BY <2>1, <2>2 DEF TypeInv, Procs, Labels
  <2>4. Formed(proc', db')
    BY <1>1, <1>3, <2>1, <2>3 DEF TypeInv, Formed, RightOp, Building
  <2> QED
    BY <1>1, <1>3, <2>3, <2>4 DEF TypeInv
<1> QED
  BY <1>2, <1>3 DEF CheckContainerId, Crash

LEMMA CreateTyped == ASSUME TypeInv, Create PROVE TypeInv'
<1>1. world' = world /\ given' = given
  BY DEF Create
<1>2. CASE End /\ db' = db /\ upset' \in {upset, upset \cup {"traceback"}}
  BY <1>1, <1>2, EndTyped DEF TypeInv
<1>3. CASE /\ proc.at = "start" /\ Op = "create" /\ ~container_exists(db, proc.cid)
           /\ db' = add_new_container(db, proc.cid, proc.cmd.type)
           /\ Goto("added") /\ upset' = upset
  <2>1. proc.cmd \in AllCommands /\ proc.cid \in Cids /\ proc.cmd.type \in {"chroot", "lxc"}
    BY <1>3, CommandParts DEF TypeInv, Formed, Op
  <2>2. /\ db' \in Databases /\ Sound(db') /\ container_exists(db', proc.cid)
    BY <1>3, <2>1, AddSays DEF TypeInv
  <2>3. proc' \in Procs /\ proc'.at = "added" /\ proc'.cid = proc.cid /\ proc'.cmd = proc.cmd
    BY <1>3, ProcMoves DEF Labels
  <2>4. Formed(proc', db')
    BY <1>3, <2>1, <2>2, <2>3 DEF Formed, RightOp, Building, Op
  <2> QED
    BY <1>1, <1>3, <2>2, <2>3, <2>4 DEF TypeInv
<1> QED
  BY <1>2, <1>3 DEF Create, Crash

LEMMA SameKept == ASSUME TypeInv, db' = db PROVE Kept(db, db')
  BY DEF TypeInv, Kept

LEMMA WorldAt ==
  ASSUME TypeInv, NEW c \in Cids, NEW w \in Worlds, world' = [world EXCEPT ![c] = w]
  PROVE  /\ world' \in [Cids -> Worlds] /\ world'[c] = w
         /\ \A b \in Cids \ {c} : world'[b] = world[b]
  BY DEF TypeInv

LEMMA WorldParts ==
  ASSUME NEW w \in Worlds, NEW P \in SUBSET Packages, NEW A \in SUBSET Archives,
         NEW f \in BOOLEAN, NEW r \in {"none", "partial", "whole"}
  PROVE  /\ w.root \in {"none", "partial", "whole"} /\ w.foreign \in BOOLEAN
         /\ w.pkgs \in SUBSET Packages /\ w.archives \in SUBSET Archives
         /\ [w EXCEPT !.root = r] \in Worlds /\ [w EXCEPT !.foreign = f] \in Worlds
         /\ [w EXCEPT !.root = r, !.foreign = f] \in Worlds
         /\ [w EXCEPT !.pkgs = P] \in Worlds /\ [w EXCEPT !.archives = A] \in Worlds
         /\ Nothing \in Worlds
  BY DEF Worlds, Nothing

LEMMA BuildsTyped ==
  ASSUME TypeInv, Installing \/ Build \/ Built \/ Undo \/ Complete
  PROVE  TypeInv'
<1>1. /\ proc.at \in Building
      /\ given' = given /\ proc.cid \in Cids /\ container_exists(db, proc.cid)
      /\ proc.cmd.op = "create" /\ world[proc.cid] \in Worlds /\ proc.cmd.on \in BOOLEAN
  <2>1. proc.at \in Building /\ given' = given
    BY DEF Installing, Build, Built, Undo, Complete, Building
  <2>2. proc.cmd.op = "create"
    BY <2>1 DEF TypeInv, Formed, RightOp
  <2> QED
    BY <2>1, <2>2, AtWork, CommandParts DEF Building
<1>2. /\ Kept(db, SetStatus(db, proc.cid, "installing"))
      /\ Kept(db, SetStatus(db, proc.cid, "ready"))
  BY <1>1, StatusSetSays, SaysKept DEF TypeInv, Statuses
<1>3. CASE Installing
  <2>1. proc' \in Procs /\ proc'.at = "build" /\ proc'.cmd = proc.cmd /\ proc'.cid = proc.cid
    BY <1>3, ProcMoves DEF Installing, Labels
  <2>2. RightOp(proc')
    BY <1>1, <2>1 DEF RightOp, Building
  <2> QED
    BY <1>1, <1>2, <1>3, <2>1, <2>2, GoesTyped DEF Installing, Building, TypeInv
<1>4. CASE Build
  <2>1. world' \in [Cids -> Worlds]
    <3>1. [world[proc.cid] EXCEPT !.root = "partial"] \in Worlds
      BY <1>1, WorldParts
    <3> QED
      BY <1>1, <1>4, <3>1, WorldAt DEF Build, TypeInv
  <2>2. /\ proc' \in Procs /\ proc'.at \in {"building", "drop"}
        /\ proc'.cmd = proc.cmd /\ proc'.cid = proc.cid
    BY <1>4, ProcMoves DEF Build, Labels
  <2>3. RightOp(proc')
    BY <1>1, <2>2 DEF RightOp, Building
  <2> QED
    BY <1>1, <1>4, <2>1, <2>2, <2>3, GoesTyped, SameKept DEF Build, Building, TypeInv
<1>5. CASE Built
  <2>1. world' \in [Cids -> Worlds]
    <3>1. [world[proc.cid] EXCEPT !.root = "whole", !.foreign = proc.cmd.on] \in Worlds
      BY <1>1, WorldParts
    <3>2. \/ world' = [world EXCEPT ![proc.cid] =
                         [world[proc.cid] EXCEPT !.root = "whole", !.foreign = proc.cmd.on]]
          \/ world' = world
      BY <1>1, <1>5 DEF Built, TypeInv
    <3> QED
      BY <1>1, <3>1, <3>2, WorldAt DEF TypeInv
  <2>2. /\ proc' \in Procs /\ proc'.at \in {"complete", "undo"}
        /\ proc'.cmd = proc.cmd /\ proc'.cid = proc.cid
    BY <1>5, ProcMoves DEF Built, Labels
  <2>3. RightOp(proc')
    BY <1>1, <2>2 DEF RightOp, Building
  <2> QED
    BY <1>1, <1>5, <2>1, <2>2, <2>3, GoesTyped, SameKept DEF Built, Building, TypeInv
<1>6. CASE Undo
  <2>1. world' \in [Cids -> Worlds]
    BY <1>1, <1>6, WorldParts, WorldAt DEF Undo, TypeInv
  <2>2. /\ proc' \in Procs /\ proc'.at = "drop"
        /\ proc'.cmd = proc.cmd /\ proc'.cid = proc.cid
    BY <1>6, ProcMoves DEF Undo, Labels
  <2>3. RightOp(proc')
    BY <1>1, <2>2 DEF RightOp, Building
  <2> QED
    BY <1>1, <1>6, <2>1, <2>2, <2>3, GoesTyped, SameKept DEF Undo, Building, TypeInv
<1>7. CASE Complete
  BY <1>1, <1>2, <1>7, EndTyped DEF Complete, TypeInv, Kept
<1> QED
  BY <1>3, <1>4, <1>5, <1>6, <1>7

LEMMA DestroysTyped ==
  ASSUME TypeInv, DestroyContainer \/ Destroy \/ Drop
  PROVE  TypeInv'
<1>1. /\ proc.at \in {"checked", "destroy", "drop"}
      /\ given' = given /\ proc.cid \in Cids /\ container_exists(db, proc.cid)
      /\ Entry(db, proc.cid) \in Entries /\ world[proc.cid] \in Worlds
  <2>1. proc.at \in {"checked", "destroy", "drop"} /\ given' = given
    BY DEF DestroyContainer, Destroy, Drop
  <2> QED
    BY <2>1, AtWork
<1>2. \A s \in Statuses : Kept(db, SetStatus(db, proc.cid, s))
  BY <1>1, StatusSetSays, SaysKept DEF TypeInv
<1>3. CASE DestroyContainer
  <2>1. /\ proc.cmd.op = "destroy" /\ Entry(db, proc.cid).status \in Statuses
    BY <1>1, <1>3, EntryParts DEF DestroyContainer, Op
  <2>2. /\ proc' \in Procs /\ proc'.at = "destroy" /\ proc'.cmd = proc.cmd /\ proc'.cid = proc.cid
        /\ proc'.was = Entry(db, proc.cid).status
    BY <1>3, <2>1 DEF DestroyContainer, TypeInv, Procs, Labels
  <2>3. RightOp(proc')
    BY <2>1, <2>2 DEF RightOp, Building
  <2>4. Kept(db, db')
    BY <1>2, <1>3 DEF DestroyContainer, Statuses
  <2> QED
    BY <1>1, <1>3, <2>2, <2>3, <2>4, GoesTyped DEF DestroyContainer, TypeInv
<1>4. CASE Destroy
  <2>1. proc.cmd.op = "destroy" /\ proc.was \in Statuses
    BY <1>4 DEF Destroy, TypeInv, Formed, RightOp
  <2>2. Kept(db, db')
    BY <1>2, <1>4, <2>1 DEF Destroy, Statuses
  <2>3. world' \in [Cids -> Worlds]
    <3>1. [world[proc.cid] EXCEPT !.root = "partial"] \in Worlds /\ Nothing \in Worlds
      BY <1>1, WorldParts
    <3>2. \/ world' = [world EXCEPT ![proc.cid] = [world[proc.cid] EXCEPT !.root = "partial"]]
          \/ world' = [world EXCEPT ![proc.cid] = Nothing]
          \/ world' = world
      BY <1>1, <1>4 DEF Destroy, TypeInv
    <3> QED
      BY <1>1, <3>1, <3>2, WorldAt DEF TypeInv
  <2>4. upset' \subseteq Upsets
    BY <1>4 DEF Destroy, TypeInv
  <2>5. CASE End
    BY <1>1, <2>2, <2>3, <2>4, <2>5, EndTyped DEF Kept
  <2>6. CASE Goto("drop")
    <3>1. /\ proc' \in Procs /\ proc'.at = "drop" /\ proc'.cmd = proc.cmd /\ proc'.cid = proc.cid
      BY <2>6, ProcMoves DEF Labels
    <3>2. RightOp(proc')
      BY <2>1, <3>1 DEF RightOp, Building
    <3> QED
      BY <1>1, <1>4, <2>2, <2>3, <2>4, <3>1, <3>2, GoesTyped DEF Destroy
  <2> QED
    BY <1>4, <2>5, <2>6 DEF Destroy
<1>5. CASE Drop
  <2>1. End /\ world' = world /\ upset' \in {upset, upset \cup {"traceback"}}
    BY <1>5 DEF Drop, Crash
  <2>2. db' \in Databases /\ Sound(db')
    BY <1>1, <1>5, DeleteSays DEF Drop, TypeInv
  <2> QED
    BY <1>1, <2>1, <2>2, EndTyped DEF TypeInv
<1> QED
  BY <1>3, <1>4, <1>5

\* The work is done: what came of it is to be recorded.
LEMMA GoesToRecord ==
  ASSUME NEW p \in Procs, NEW q,
         \/ q = [p EXCEPT !.at = "record"]
         \/ \E b \in BOOLEAN : q = [p EXCEPT !.at = "record", !.ok = b]
  PROVE  /\ q \in Procs /\ q.at = "record" /\ q.cmd = p.cmd /\ q.cid = p.cid
         /\ q.todo = p.todo
<1>1. CASE q = [p EXCEPT !.at = "record"]
  BY <1>1 DEF Procs, Labels
<1>2. ASSUME NEW b \in BOOLEAN, q = [p EXCEPT !.at = "record", !.ok = b]
      PROVE  /\ q \in Procs /\ q.at = "record" /\ q.cmd = p.cmd /\ q.cid = p.cid
             /\ q.todo = p.todo
  BY <1>2 DEF Procs, Labels
<1> QED
  BY <1>1, <1>2

LEMMA PackagesTyped ==
  ASSUME TypeInv, NextPackage \/ Apt \/ RecordPackage \/ CloseSession
  PROVE  TypeInv'
<1> DEFINE e == Entry(db, proc.cid)
<1>1. /\ proc.at \in {"next", "apt", "record"}
      /\ given' = given /\ proc.cid \in Cids /\ container_exists(db, proc.cid)
      /\ world[proc.cid] \in Worlds /\ proc.cmd.op \in {"install", "remove"}
  <2>1. proc.at \in {"next", "apt", "record"} /\ given' = given
    BY DEF NextPackage, Apt, RecordPackage, CloseSession
  <2>2. proc.cmd.op \in {"install", "remove"}
    BY <2>1 DEF NextPackage, Apt, RecordPackage, CloseSession, TypeInv, Formed, RightOp, Op
  <2> QED
    BY <2>1, <2>2, AtWork
<1>2. e.apps \in Seq(Items(Packages)) /\ NamedOnce(e.apps) /\ Apps(proc.cid) = e.apps
  BY <1>1, ListsOf DEF TypeInv, Apps
<1> HIDE DEF e
<1>3. proc.todo # <<>> => Pkg \in Packages /\ Tail(proc.todo) \in Seq(Packages)
  BY ProcParts DEF Pkg, TypeInv
<1>4. proc.todo # <<>> =>
        /\ \A st \in ItemStatuses : Kept(db, SetApps(db, proc.cid, Mark(e.apps, Pkg, st)))
        /\ Kept(db, SetApps(db, proc.cid, Unlist(e.apps, Pkg)))
        /\ ItemStatus(e.apps, Pkg) \in ItemStatuses \cup {"none"}
  <2>1. \A s \in Seq(Items(Packages)) : NamedOnce(s) => Kept(db, SetApps(db, proc.cid, s))
    BY <1>1, AppsSetSays, SaysKept DEF TypeInv
  <2>2. proc.todo # <<>> =>
          /\ \A st \in ItemStatuses : /\ Mark(e.apps, Pkg, st) \in Seq(Items(Packages))
                                      /\ NamedOnce(Mark(e.apps, Pkg, st))
          /\ Unlist(e.apps, Pkg) \in Seq(Items(Packages)) /\ NamedOnce(Unlist(e.apps, Pkg))
    BY <1>2, <1>3, MarkSays, UnlistSays
  <2> QED
    BY <1>2, <2>1, <2>2, StatusSays
<1>5. Kept(db, Nested(db, proc.cid)) /\ \A bad : Kept(db, Ended(db, proc.cid, bad))
  BY <1>1, StoppedSays, SaysKept, EndedKept DEF TypeInv
<1>6. proc.todo # <<>> =>
        Done \in Procs /\ Done.at = "next" /\ Done.cmd = proc.cmd /\ Done.cid = proc.cid
  BY <1>3 DEF TypeInv, Procs, Labels, Done
<1>7. ASSUME proc' = Done, proc.todo # <<>>, Kept(db, db'), world' = world,
             upset' \subseteq Upsets
      PROVE  TypeInv'
  <2>1. RightOp(proc')
    BY <1>1, <1>6, <1>7 DEF RightOp, Building
  <2> QED
    BY <1>1, <1>6, <1>7, <2>1, GoesTyped DEF TypeInv
<1>8. CASE NextPackage
  <2>1. CASE proc' = Done /\ db' = db
    BY <1>7, <1>8, <2>1, SameKept DEF NextPackage, TypeInv
  <2>2. CASE /\ db' = SetApps(db, proc.cid, Marked(Apps(proc.cid), Pkg))
             /\ proc' = [proc EXCEPT !.at = "apt", !.was = ItemStatus(Apps(proc.cid), Pkg)]
    <3>1. Kept(db, db')
      BY <1>2, <1>4, <1>8, <2>2 DEF NextPackage, Marked, ItemStatuses
    <3>2. /\ proc' \in Procs /\ proc'.at = "apt" /\ proc'.cmd = proc.cmd /\ proc'.cid = proc.cid
          /\ proc'.todo = proc.todo
      BY <1>2, <1>4, <1>8, <2>2 DEF NextPackage, TypeInv, Procs, Labels
    <3>3. RightOp(proc')
      BY <1>1, <3>2 DEF RightOp, Building
    <3> QED
      BY <1>1, <1>8, <3>1, <3>2, <3>3, GoesTyped DEF NextPackage, TypeInv
  <2> QED
    BY <1>8, <2>1, <2>2 DEF NextPackage
<1>9. CASE Apt
  <2>1. proc.todo # <<>>
    BY <1>9 DEF Apt, TypeInv, Formed
  <2>2. world' \in [Cids -> Worlds]
    <3>1. /\ world[proc.cid].pkgs \cup {Pkg} \in SUBSET Packages
          /\ world[proc.cid].pkgs \ {Pkg} \in SUBSET Packages
      BY <1>1, <1>3, <2>1, WorldParts
    <3>2. \/ world' = world
          \/ \E P \in SUBSET Packages :
               world' = [world EXCEPT ![proc.cid] = [world[proc.cid] EXCEPT !.pkgs = P]]
      BY <1>1, <1>9, <3>1 DEF Apt, TypeInv
    <3> QED
      BY <1>1, <3>2, WorldParts, WorldAt DEF TypeInv
  <2>3. /\ proc' \in Procs /\ proc'.at = "record" /\ proc'.cmd = proc.cmd /\ proc'.cid = proc.cid
        /\ proc'.todo = proc.todo
    <3>1. \E b \in BOOLEAN : proc' = [proc EXCEPT !.at = "record", !.ok = b]
      BY <1>9 DEF Apt
    <3> QED
      BY <3>1, GoesToRecord DEF TypeInv
  <2>4. RightOp(proc')
    BY <1>1, <2>3 DEF RightOp, Building
  <2>5. upset' \subseteq Upsets
    BY <1>9 DEF Apt, TypeInv
  <2>6. Kept(db, db')
    BY <1>5, <1>9 DEF Apt
  <2> QED
    BY <1>1, <1>9, <2>1, <2>2, <2>3, <2>4, <2>5, <2>6, GoesTyped DEF Apt
<1>10. CASE RecordPackage
  <2>1. proc.todo # <<>>
    BY <1>1, <1>10 DEF RecordPackage, TypeInv, Formed
  <2>2. Kept(db, db')
    BY <1>2, <1>4, <1>10, <2>1 DEF RecordPackage, ItemStatuses
  <2>3. upset' \subseteq Upsets
    BY <1>10 DEF RecordPackage, LeftBehind, TypeInv
  <2> QED
    BY <1>7, <1>10, <2>1, <2>2, <2>3 DEF RecordPackage
<1>11. CASE CloseSession
  <2>1. PICK bad \in Unrests(proc.cid) : db' = Ended(db, proc.cid, bad) /\ upset' = upset \cup bad
    BY <1>11 DEF CloseSession
  <2>2. Kept(db, db') /\ upset' \subseteq Upsets
    BY <1>5, <2>1, UnrestsSay DEF TypeInv, Upsets
  <2> QED
    BY <1>1, <1>11, <2>2, EndTyped DEF CloseSession, TypeInv, Kept
<1> QED
  BY <1>8, <1>9, <1>10, <1>11

LEMMA OpenTyped == ASSUME TypeInv, Open PROVE TypeInv'
<1>1. /\ proc.at \in {"checked", "open"}
      /\ given' = given /\ world' = world /\ proc.cid \in Cids /\ container_exists(db, proc.cid)
      /\ proc.at = "checked" => proc.cmd.op \in {"install", "remove", "update"}
      /\ proc.at = "open" => proc.cmd.op \in {"multiarch", "archive"}
      /\ upset' \subseteq Upsets
  <2>1. proc.at \in {"checked", "open"} /\ given' = given /\ world' = world
    BY DEF Open
  <2>2. upset' \subseteq Upsets
    BY UnrestsSay DEF Open, TypeInv, Upsets
  <2> QED
    BY <2>1, <2>2, AtWork DEF Open, TypeInv, Formed, RightOp, Op
<1>2. Kept(db, SetStatus(db, proc.cid, "busy"))
  BY <1>1, StatusSetSays, SaysKept DEF TypeInv, Statuses
<1>3. Kept(db, db')
  BY <1>1, <1>2, EndedKept DEF Open, TypeInv
<1>4. CASE End
  BY <1>1, <1>3, <1>4, EndTyped DEF TypeInv, Kept
<1>5. CASE Goto(IF Op \in {"install", "remove"} THEN "next" ELSE "work")
  <2>1. /\ proc' \in Procs /\ proc'.cmd = proc.cmd /\ proc'.cid = proc.cid
        /\ proc'.at = IF Op \in {"install", "remove"} THEN "next" ELSE "work"
    BY <1>5, ProcMoves DEF Labels
  <2>2. RightOp(proc')
    BY <1>1, <2>1 DEF RightOp, Building, Op
  <2> QED
    BY <1>1, <1>3, <2>1, <2>2, GoesTyped DEF TypeInv
<1>6. CASE Op = "archive" /\ proc' = [proc EXCEPT !.at = "record", !.ok = FALSE]
  <2>1. /\ proc' \in Procs /\ proc'.cmd = proc.cmd /\ proc'.cid = proc.cid /\ proc'.at = "record"
    BY <1>6 DEF TypeInv, Procs, Labels
  <2>2. RightOp(proc')
    BY <1>6, <2>1 DEF RightOp, Building, Op
  <2> QED
    BY <1>1, <1>3, <1>6, <2>1, <2>2, GoesTyped DEF TypeInv, Op
<1> QED
  BY <1>4, <1>5, <1>6 DEF Open, End

LEMMA ArchivesMark ==
  ASSUME TypeInv, NEW c \in Cids, container_exists(db, c), NEW n \in Archives
  PROVE  /\ \A st \in ItemStatuses : Kept(db, SetArchives(db, c, Mark(ArchivesOf(c), n, st)))
         /\ Kept(db, SetArchives(db, c, Unlist(ArchivesOf(c), n)))
<1> DEFINE s == ArchivesOf(c)
<1>1. s \in Seq(Items(Archives)) /\ NamedOnce(s)
  BY ListsOf DEF TypeInv, ArchivesOf
<1> HIDE DEF s
<1>2. \A t \in Seq(Items(Archives)) : NamedOnce(t) => Kept(db, SetArchives(db, c, t))
  BY ArchivesSetSays, SaysKept DEF TypeInv
<1>3. /\ \A st \in ItemStatuses : Mark(s, n, st) \in Seq(Items(Archives)) /\ NamedOnce(Mark(s, n, st))
      /\ Unlist(s, n) \in Seq(Items(Archives)) /\ NamedOnce(Unlist(s, n))
  BY <1>1, MarkSays, UnlistSays
<1> QED
  BY <1>2, <1>3 DEF s

LEMMA ConfiguresTyped ==
  ASSUME TypeInv, ConfigureMultiarch \/ ConfigureArchive
  PROVE  TypeInv'
<1>1. /\ proc.at = "checked" /\ proc.cid \in Cids /\ container_exists(db, proc.cid)
      /\ given' = given /\ world' = world /\ proc.cmd \in AllCommands
      /\ proc.cmd.op \in {"multiarch", "archive"}
  BY AtWork DEF ConfigureMultiarch, ConfigureArchive, Op
<1>2. Kept(db, db')
  <2>1. CASE ConfigureMultiarch
    BY <2>1, SameKept DEF ConfigureMultiarch
  <2>2. CASE ConfigureArchive
    <3>1. proc.cmd.name \in Archives
      BY <1>1, <2>2, CommandParts DEF ConfigureArchive, Op
    <3> QED
      BY <1>1, <2>2, <3>1, ArchivesMark, SameKept DEF ConfigureArchive, ItemStatuses
  <2> QED
    BY <2>1, <2>2
<1>3. upset' \subseteq Upsets
  BY DEF ConfigureMultiarch, ConfigureArchive, LeftBehind, TypeInv
<1>4. CASE End
  BY <1>1, <1>2, <1>3, <1>4, EndTyped DEF TypeInv, Kept
<1>5. CASE Goto("open")
  <2>1. proc' \in Procs /\ proc'.at = "open" /\ proc'.cmd = proc.cmd /\ proc'.cid = proc.cid
    BY <1>5, ProcMoves DEF Labels
  <2>2. RightOp(proc')
    BY <1>1, <2>1 DEF RightOp, Building
  <2> QED
    BY <1>1, <1>2, <1>3, <2>1, <2>2, GoesTyped DEF TypeInv
<1> QED
  BY <1>4, <1>5 DEF ConfigureMultiarch, ConfigureArchive

LEMMA WorksTyped ==
  ASSUME TypeInv, Update \/ WorkMultiarch \/ WorkArchive
  PROVE  TypeInv'
<1>1. /\ proc.at = "work" /\ proc.cid \in Cids /\ container_exists(db, proc.cid)
      /\ given' = given /\ proc.cmd \in AllCommands /\ world[proc.cid] \in Worlds
      /\ \E bad \in Unrests(proc.cid) : db' = Ended(db, proc.cid, bad)
  BY AtWork DEF Update, WorkMultiarch, WorkArchive
<1>2. Kept(db, db')
  BY <1>1, EndedKept DEF TypeInv
<1>3. world' \in [Cids -> Worlds]
  <2>1. CASE Update
    BY <2>1 DEF Update, TypeInv
  <2>2. CASE WorkMultiarch
    <3>1. [world[proc.cid] EXCEPT !.foreign = TRUE] \in Worlds
      BY <1>1, WorldParts
    <3>2. \/ world' = [world EXCEPT ![proc.cid] = [world[proc.cid] EXCEPT !.foreign = TRUE]]
          \/ world' = world
      BY <1>1, <2>2 DEF WorkMultiarch, TypeInv
    <3> QED
      BY <1>1, <3>1, <3>2, WorldAt DEF TypeInv
  <2>3. CASE WorkArchive
    <3>1. proc.cmd.name \in Archives
      BY <1>1, <2>3, CommandParts DEF WorkArchive, Op
    <3>2. /\ world[proc.cid].archives \cup {proc.cmd.name} \in SUBSET Archives
          /\ world[proc.cid].archives \ {proc.cmd.name} \in SUBSET Archives
      BY <1>1, <3>1, WorldParts
    <3>3. \/ world' = world
          \/ \E A \in SUBSET Archives :
               world' = [world EXCEPT ![proc.cid] = [world[proc.cid] EXCEPT !.archives = A]]
      BY <1>1, <2>3, <3>2 DEF WorkArchive, TypeInv
    <3> QED
      BY <1>1, <3>3, WorldParts, WorldAt DEF TypeInv
  <2> QED
    BY <2>1, <2>2, <2>3
<1>4. upset' \subseteq Upsets
  BY UnrestsSay DEF Update, WorkMultiarch, WorkArchive, TypeInv, Upsets
<1>5. CASE End
  BY <1>1, <1>2, <1>3, <1>4, <1>5, EndTyped DEF Kept
<1>6. CASE /\ Op \in {"multiarch", "archive"}
           /\ \/ Goto("record")
              \/ \E b \in BOOLEAN : proc' = [proc EXCEPT !.at = "record", !.ok = b]
  <2>1. proc' \in Procs /\ proc'.at = "record" /\ proc'.cmd = proc.cmd /\ proc'.cid = proc.cid
    BY <1>6, GoesToRecord DEF Goto, TypeInv
  <2>2. RightOp(proc')
    BY <1>6, <2>1 DEF RightOp, Building, Op
  <2> QED
    BY <1>1, <1>2, <1>3, <1>4, <1>6, <2>1, <2>2, GoesTyped DEF Op
<1> QED
  BY <1>5, <1>6 DEF Update, WorkMultiarch, WorkArchive

\* The list of mounts is all that --bind-mount writes.
LEMMA BindMountSays ==
  ASSUME TypeInv, ConfigureBindMount
  PROVE  db' = db \/ \E m \in Seq(Mounts) :
           Says(db, db', proc.cid, [Entry(db, proc.cid) EXCEPT !.mounts = m])
<1> DEFINE e == Entry(db, proc.cid)
           K == {k \in 1..Len(e.mounts) : e.mounts[k] = proc.cmd.name}
<1>1. /\ proc.cid \in Cids /\ container_exists(db, proc.cid) /\ proc.cmd.name \in Mounts
      /\ e \in Entries /\ db \in Databases /\ Sound(db)
  BY AtWork, CommandParts DEF ConfigureBindMount, Op, TypeInv
<1>2. e.mounts \in Seq(Mounts) /\ \A k, l \in 1..Len(e.mounts) : e.mounts[k] = e.mounts[l] => k = l
  BY <1>1, EntrySays, EntryParts DEF SoundEntry
<1>3. CASE K = {} /\ db' = SetEntry(db, proc.cid, [e EXCEPT !.mounts = Append(@, proc.cmd.name)])
  <2>1. db' = SetEntry(db, proc.cid, [e EXCEPT !.mounts = Append(e.mounts, proc.cmd.name)])
    <3> HIDE DEF e
    <3> QED
      BY <1>1, <1>3 DEF Entries
  <2>2. /\ Append(e.mounts, proc.cmd.name) \in Seq(Mounts)
        /\ \A k, l \in 1..Len(Append(e.mounts, proc.cmd.name)) :
             Append(e.mounts, proc.cmd.name)[k] = Append(e.mounts, proc.cmd.name)[l] => k = l
    BY <1>1, <1>2, <1>3, MountAdded
  <2> QED
    BY <1>1, <2>1, <2>2, MountsSetSays
<1>4. CASE K # {} /\ db' = SetEntry(db, proc.cid, [e EXCEPT !.mounts = RemoveAt(@, FirstOf(K))])
  <2> DEFINE f == FirstOf(K)
  <2>1. f \in 1..Len(e.mounts)
    <3>1. Len(e.mounts) \in Nat /\ K \in SUBSET (1..Len(e.mounts))
      BY <1>2
    <3>2. \A x, y \in K : x = y
      BY <1>2
    <3> HIDE DEF K
    <3>3. f \in 0..Len(e.mounts) /\ f # 0
      BY <1>4, <3>1, <3>2, OnlyPosition
    <3> QED
      BY <3>1, <3>3
  <2>2. db' = SetEntry(db, proc.cid, [e EXCEPT !.mounts = RemoveAt(e.mounts, f)])
    <3>1. db' = SetEntry(db, proc.cid, [e EXCEPT !.mounts = RemoveAt(@, f)])
      BY <1>4
    <3> HIDE DEF e, f
    <3> QED
      BY <1>1, <3>1 DEF Entries
  <2> HIDE DEF f
  <2>3. /\ RemoveAt(e.mounts, f) \in Seq(Mounts)
        /\ \A x, y \in 1..Len(RemoveAt(e.mounts, f)) :
             RemoveAt(e.mounts, f)[x] = RemoveAt(e.mounts, f)[y] => x = y
    BY <1>1, <1>2, <2>1, MountAdded
  <2> QED
    BY <1>1, <2>2, <2>3, MountsSetSays
<1> QED
  BY <1>3, <1>4 DEF ConfigureBindMount

LEMMA RecordsTyped ==
  ASSUME TypeInv,
         RecordMultiarch \/ RecordArchive \/ ConfigureBindMount \/ ConfigureFreeze \/ SetDefault
  PROVE  TypeInv' /\ End
<1>1. /\ proc.at \in {"record", "checked"} /\ proc.cid \in Cids /\ container_exists(db, proc.cid)
      /\ given' = given /\ world' = world /\ upset' = upset /\ End
      /\ proc.cmd \in AllCommands /\ proc.cmd.on \in BOOLEAN /\ db \in Databases /\ Sound(db)
  <2>1. /\ proc.at \in {"record", "checked"} /\ given' = given /\ world' = world /\ upset' = upset /\ End
    BY DEF RecordMultiarch, RecordArchive, ConfigureBindMount, ConfigureFreeze, SetDefault
  <2>2. proc.cid \in Cids /\ container_exists(db, proc.cid) /\ proc.cmd \in AllCommands
    BY <2>1, AtWork
  <2> QED
    BY <2>1, <2>2, CommandParts DEF TypeInv
<1>2. db' \in Databases /\ Sound(db')
  <2>1. CASE RecordMultiarch
    BY <1>1, <2>1, MultiarchSetSays DEF RecordMultiarch, Says
  <2>2. CASE RecordArchive
    <3>1. proc.cmd.name \in Archives
      BY <1>1, <2>2, CommandParts DEF RecordArchive, Op
    <3> QED
      BY <1>1, <2>2, <3>1, ArchivesMark DEF RecordArchive, ItemStatuses, Kept
  <2>3. CASE ConfigureBindMount
    BY <1>1, <2>3, BindMountSays DEF Says
  <2>4. CASE ConfigureFreeze
    BY <1>1, <2>4, FreezeSetSays DEF ConfigureFreeze, Says
  <2>5. CASE SetDefault
    <3>1. \E k \in 1..Len(db.list) : db.list[k].id = proc.cid
      BY <1>1, EntrySays
    <3>2. /\ db' \in Databases /\ db'.keys = db.keys /\ db'.list = db.list
          /\ db'.default = proc.cid
      BY <1>1, <2>5 DEF SetDefault, Databases
    <3> QED
      BY <1>1, <3>1, <3>2 DEF Sound
  <2> QED
    BY <2>1, <2>2, <2>3, <2>4, <2>5
<1> QED
  BY <1>1, <1>2, EndTyped DEF TypeInv

LEMMA WholeTyped ==
  ASSUME TypeInv, ClearDefault \/ Merge
  PROVE  TypeInv'
<1>1. End /\ world' = world /\ given' = given /\ upset' \in {upset, upset \cup {"merge"}}
  BY DEF ClearDefault, Merge
<1>2. db' \in Databases /\ Sound(db')
  <2>1. CASE ClearDefault
    <3>1. /\ db' \in Databases /\ db'.list = db.list /\ db'.default = None
          /\ db'.keys = "full" <=> db.keys = "full"
      BY <2>1 DEF ClearDefault, Databases, TypeInv
    <3> QED
      BY <3>1 DEF Sound, TypeInv
  <2>2. CASE Merge
    <3>1. PICK src \in MergeSources : db' = Merged(db, src)
      BY <2>2 DEF Merge
    <3> QED
      BY <3>1, MergeAssumption, MergedSays DEF TypeInv
  <2> QED
    BY <2>1, <2>2
<1> QED
  BY <1>1, <1>2, EndTyped DEF TypeInv

\* Where fix_integrity is.
LEMMA FixTyped ==
  ASSUME TypeInv, Kept(db, db'), world' \in [Cids -> Worlds],
         upset' \subseteq Upsets, given' = given,
         proc.at # "idle", proc' \in Procs, proc'.cmd = proc.cmd, proc'.i # 0,
         proc'.at \in {"fix", "fixapps", "fixarchives"},
         proc'.at # "fix" => proc'.j # 0 /\ proc'.cid \in Cids /\ container_exists(db, proc'.cid)
  PROVE  TypeInv'
<1>1. RightOp(proc')
  BY DEF RightOp, Building
<1>2. Formed(proc', db')
  BY <1>1 DEF TypeInv, Formed, Kept
<1> QED
  BY <1>2 DEF TypeInv, Kept

LEMMA FixIntegrityTyped == ASSUME TypeInv, FixIntegrity PROVE TypeInv'
<1>1. db' = db /\ world' = world /\ upset' = upset /\ given' = given
  BY DEF FixIntegrity
<1>2. CASE End
  BY <1>1, <1>2, EndTyped DEF TypeInv
<1>3. CASE proc' = [proc EXCEPT !.at = "fix", !.i = 1]
  <2>1. proc.at # "idle"
    BY DEF FixIntegrity
  <2>2. proc' \in Procs /\ proc'.at = "fix" /\ proc'.i = 1 /\ proc'.cmd = proc.cmd
    BY <1>3 DEF TypeInv, Procs, Labels
  <2> QED
    BY <1>1, <2>1, <2>2, SameKept, FixTyped DEF TypeInv
<1> QED
  BY <1>2, <1>3 DEF FixIntegrity

LEMMA FixContainerTyped == ASSUME TypeInv, FixContainer PROVE TypeInv'
<1>1. world' = world /\ given' = given /\ proc.at = "fix"
  BY DEF FixContainer
<1>2. CASE End /\ db' = db /\ upset' \in {upset, upset \cup {"traceback"}}
  BY <1>1, <1>2, EndTyped DEF TypeInv
<1>3. CASE /\ ~(proc.i > Len(db.list))
           /\ LET c == db.list[proc.i].id
              IN  /\ \E bad \in Unrests(c) : db' \in Tried(db, c, bad) /\ upset' = upset \cup bad
                  /\ proc' = [proc EXCEPT !.at = "fixapps", !.cid = c, !.j = 1]
  <2> DEFINE c == db.list[proc.i].id
  <2>1. proc.i \in 1..Len(db.list) /\ proc.i \in Nat \ {0}
    <3>1. proc.i \in Nat /\ proc.i # 0 /\ Len(db.list) \in Nat
      BY <1>1, ProcParts, ListType DEF TypeInv, Formed
    <3> QED
      BY <1>3, <3>1
  <2>2. c \in Cids /\ container_exists(db, c)
    <3>1. db.list[proc.i] \in Entries
      BY <2>1, ListType DEF TypeInv
    <3> QED
      BY <2>1, <3>1, EntryParts, EntrySays DEF TypeInv
  <2> HIDE DEF c
  <2>3. Kept(db, db') /\ upset' \subseteq Upsets
    <3>1. PICK bad \in Unrests(c) : db' \in Tried(db, c, bad) /\ upset' = upset \cup bad
      BY <1>3 DEF c
    <3> QED
      BY <2>2, <3>1, EndedKept, UnrestsSay DEF TypeInv, Upsets
  <2>4. /\ proc' \in Procs /\ proc'.at = "fixapps" /\ proc'.cid = c /\ proc'.cmd = proc.cmd
        /\ proc'.i = proc.i /\ proc'.j = 1
    <3>1. proc' = [proc EXCEPT !.at = "fixapps", !.cid = c, !.j = 1]
      BY <1>3 DEF c
    <3> QED
      BY <2>2, <3>1 DEF TypeInv, Procs, Labels
  <2> QED
    BY <1>1, <1>3, <2>1, <2>2, <2>3, <2>4, FixTyped DEF TypeInv
<1> QED
  BY <1>2, <1>3 DEF FixContainer, Crash

\* The package, or the archive, that fix_integrity is at.
LEMMA FixAt ==
  ASSUME TypeInv, proc.at \in {"fixapps", "fixarchives"}
  PROVE  /\ proc.cid \in Cids /\ container_exists(db, proc.cid)
         /\ proc.i \in Nat \ {0} /\ proc.j \in Nat \ {0}
         /\ Apps(proc.cid) \in Seq(Items(Packages)) /\ NamedOnce(Apps(proc.cid))
         /\ ArchivesOf(proc.cid) \in Seq(Items(Archives)) /\ NamedOnce(ArchivesOf(proc.cid))
         /\ ~(proc.j > Len(Apps(proc.cid))) =>
              /\ proc.j \in 1..Len(Apps(proc.cid)) /\ Apps(proc.cid)[proc.j] \in Items(Packages)
              /\ Apps(proc.cid)[proc.j].name \in Packages
         /\ ~(proc.j > Len(ArchivesOf(proc.cid))) =>
              /\ proc.j \in 1..Len(ArchivesOf(proc.cid))
              /\ ArchivesOf(proc.cid)[proc.j] \in Items(Archives)
              /\ ArchivesOf(proc.cid)[proc.j].name \in Archives
<1>1. proc.cid \in Cids /\ container_exists(db, proc.cid)
  BY AtWork
<1>2. proc.i \in Nat \ {0} /\ proc.j \in Nat \ {0}
  BY ProcParts DEF TypeInv, Formed
<1>3. /\ Apps(proc.cid) \in Seq(Items(Packages)) /\ NamedOnce(Apps(proc.cid))
      /\ ArchivesOf(proc.cid) \in Seq(Items(Archives)) /\ NamedOnce(ArchivesOf(proc.cid))
  BY <1>1, ListsOf DEF TypeInv, Apps, ArchivesOf
<1>4. ASSUME NEW N, NEW s \in Seq(Items(N)), ~(proc.j > Len(s))
      PROVE  proc.j \in 1..Len(s) /\ s[proc.j] \in Items(N) /\ s[proc.j].name \in N
  <2>1. proc.j \in 1..Len(s)
    BY <1>2, <1>4
  <2>2. s[proc.j] \in Items(N)
    BY <2>1
  <2> QED
    BY <2>1, <2>2 DEF Items
<1> QED
  BY <1>1, <1>2, <1>3, <1>4

LEMMA KeptTwice ==
  ASSUME NEW d, NEW e, NEW f, Kept(d, e), Kept(e, f)
  PROVE  Kept(d, f)
  BY DEF Kept

LEMMA FixAppTyped == ASSUME TypeInv, FixApp PROVE TypeInv'
<1>1. proc.at = "fixapps" /\ given' = given
  BY DEF FixApp
<1>2. /\ proc.cid \in Cids /\ container_exists(db, proc.cid)
      /\ proc.i \in Nat \ {0} /\ proc.j \in Nat \ {0}
  BY <1>1, FixAt
<1>3. CASE /\ proc' = [proc EXCEPT !.at = "fixarchives", !.j = 1]
           /\ UNCHANGED <<db, world, upset>>
  <2>1. /\ proc' \in Procs /\ proc'.at = "fixarchives" /\ proc'.cid = proc.cid
        /\ proc'.cmd = proc.cmd /\ proc'.i = proc.i /\ proc'.j = 1
    BY <1>3 DEF TypeInv, Procs, Labels
  <2> QED
    BY <1>1, <1>2, <1>3, <2>1, SameKept, FixTyped DEF TypeInv
<1>4. CASE ~(proc.j > Len(Apps(proc.cid)))
  <2> DEFINE x == Apps(proc.cid)[proc.j]
             unlisted == SetApps(db, proc.cid, Unlist(Apps(proc.cid), x.name))
  <2>1. x.name \in Packages /\ Apps(proc.cid) \in Seq(Items(Packages)) /\ NamedOnce(Apps(proc.cid))
    BY <1>1, <1>4, FixAt
  <2> HIDE DEF x
  <2>2. Kept(db, unlisted)
    <3>1. /\ Unlist(Apps(proc.cid), x.name) \in Seq(Items(Packages))
          /\ NamedOnce(Unlist(Apps(proc.cid), x.name))
      BY <2>1, UnlistSays
    <3> QED
      BY <1>2, <3>1, AppsSetSays, SaysKept DEF TypeInv
  <2>3. \A bad : /\ Kept(unlisted, Ended(unlisted, proc.cid, bad))
                 /\ \A e \in Tried(unlisted, proc.cid, bad) : Kept(unlisted, e)
    <3>1. unlisted \in Databases /\ Sound(unlisted) /\ container_exists(unlisted, proc.cid)
      BY <1>2, <2>2 DEF Kept
    <3> HIDE DEF unlisted
    <3> QED
      BY <1>2, <3>1, EndedKept
  <2>4. db' = db \/ \E bad : db' = Ended(unlisted, proc.cid, bad) \/ db' \in Tried(unlisted, proc.cid, bad)
    BY <1>4 DEF FixApp, x
  <2>5. Kept(db, db')
    <3> HIDE DEF unlisted
    <3> QED
      BY <2>2, <2>3, <2>4, KeptTwice, SameKept
  <2>6. world' \in [Cids -> Worlds]
    <3>1. world[proc.cid] \in Worlds /\ world[proc.cid].pkgs \ {x.name} \in SUBSET Packages
      BY <1>2, WorldParts DEF TypeInv
    <3>2. \/ world' = world
          \/ \E P \in SUBSET Packages :
               world' = [world EXCEPT ![proc.cid] = [world[proc.cid] EXCEPT !.pkgs = P]]
      BY <1>2, <1>4, <3>1 DEF FixApp, TypeInv, x
    <3> QED
      BY <1>2, <3>1, <3>2, WorldParts, WorldAt DEF TypeInv
  <2>7. upset' \subseteq Upsets
    BY <1>4, UnrestsSay DEF FixApp, LeftBehind, TypeInv, Upsets
  <2>8. /\ proc' \in Procs /\ proc'.at = "fixapps" /\ proc'.cid = proc.cid
        /\ proc'.cmd = proc.cmd /\ proc'.i = proc.i /\ proc'.j \in {proc.j, proc.j + 1}
    <3>1. \E n \in {proc.j, proc.j + 1} : proc' = [proc EXCEPT !.j = n]
      BY <1>4 DEF FixApp, NextItem
    <3> QED
      BY <1>1, <1>2, <3>1 DEF TypeInv, Procs
  <2>9. proc.j # 0 /\ proc.j + 1 # 0
    BY <1>2
  <2> QED
    BY <1>1, <1>2, <2>5, <2>6, <2>7, <2>8, <2>9, FixTyped
<1> QED
  BY <1>3, <1>4 DEF FixApp

LEMMA FixArchiveTyped == ASSUME TypeInv, FixArchive PROVE TypeInv'
<1>1. proc.at = "fixarchives" /\ given' = given /\ world' = world
  BY DEF FixArchive
<1>2. /\ proc.cid \in Cids /\ container_exists(db, proc.cid)
      /\ proc.i \in Nat \ {0} /\ proc.j \in Nat \ {0}
  BY <1>1, FixAt
<1>3. CASE /\ proc' = [proc EXCEPT !.at = "fix", !.i = @ + 1]
           /\ UNCHANGED <<db, upset>>
  <2>1. /\ proc' \in Procs /\ proc'.at = "fix" /\ proc'.cmd = proc.cmd
        /\ proc'.i = proc.i + 1 /\ proc.i + 1 # 0
    <3>1. proc.i + 1 \in Nat \ {0}
      BY <1>2
    <3>2. proc' = [proc EXCEPT !.at = "fix", !.i = proc.i + 1]
      BY <1>3 DEF TypeInv, Procs
    <3> QED
      BY <3>1, <3>2 DEF TypeInv, Procs, Labels
  <2> QED
    BY <1>1, <1>2, <1>3, <2>1, SameKept, FixTyped DEF TypeInv
<1>4. CASE ~(proc.j > Len(ArchivesOf(proc.cid)))
  <2> DEFINE x == ArchivesOf(proc.cid)[proc.j]
  <2>1. x.name \in Archives
    BY <1>1, <1>4, FixAt
  <2>2. \/ db' = db
        \/ db' = SetArchives(db, proc.cid, Unlist(ArchivesOf(proc.cid), x.name))
    BY <1>4 DEF FixArchive
  <2> HIDE DEF x
  <2>3. Kept(db, db')
    BY <1>2, <2>1, <2>2, ArchivesMark, SameKept
  <2>4. upset' \subseteq Upsets
    BY <1>4 DEF FixArchive, LeftBehind, TypeInv
  <2>5. /\ proc' \in Procs /\ proc'.at = "fixarchives" /\ proc'.cid = proc.cid
        /\ proc'.cmd = proc.cmd /\ proc'.i = proc.i /\ proc'.j \in {proc.j, proc.j + 1}
    <3>1. \E n \in {proc.j, proc.j + 1} : proc' = [proc EXCEPT !.j = n]
      BY <1>4 DEF FixArchive, NextItem
    <3> QED
      BY <1>1, <1>2, <3>1 DEF TypeInv, Procs
  <2>6. proc.j # 0 /\ proc.j + 1 # 0
    BY <1>2
  <2> QED
    BY <1>1, <1>2, <2>3, <2>4, <2>5, <2>6, FixTyped DEF TypeInv
<1> QED
  BY <1>3, <1>4 DEF FixArchive

LEMMA NextTyped == TypeInv /\ [Next]_vars => TypeInv'
<1> SUFFICES ASSUME TypeInv, [Next]_vars PROVE TypeInv'
  OBVIOUS
<1>1. ASSUME NEW cmd \in Commands, Give(cmd) PROVE TypeInv'
  BY <1>1, GiveTyped
<1>2. CASE Kill
  BY <1>2, KillTyped
<1>3. CASE UNCHANGED vars
  BY <1>3 DEF TypeInv, vars
<1>4. CASE CommandStep
  <2>1. CASE CheckContainerId \/ Create
    BY <2>1, CheckTyped, CreateTyped
  <2>2. CASE Installing \/ Build \/ Built \/ Undo \/ Complete
    BY <2>2, BuildsTyped
  <2>3. CASE Drop \/ DestroyContainer \/ Destroy
    BY <2>3, DestroysTyped
  <2>4. CASE Open \/ NextPackage \/ Apt \/ RecordPackage \/ CloseSession
    BY <2>4, OpenTyped, PackagesTyped
  <2>5. CASE Update \/ ConfigureMultiarch \/ WorkMultiarch \/ ConfigureArchive \/ WorkArchive
    BY <2>5, ConfiguresTyped, WorksTyped
  <2>6. CASE RecordMultiarch \/ RecordArchive \/ ConfigureBindMount \/ ConfigureFreeze \/ SetDefault
    BY <2>6, RecordsTyped
  <2>7. CASE ClearDefault \/ Merge \/ FixIntegrity
    BY <2>7, WholeTyped, FixIntegrityTyped
  <2>8. CASE FixContainer \/ FixApp \/ FixArchive
    BY <2>8, FixContainerTyped, FixAppTyped, FixArchiveTyped
  <2> QED
    BY <1>4, <2>1, <2>2, <2>3, <2>4, <2>5, <2>6, <2>7, <2>8 DEF CommandStep
<1> QED
  BY <1>1, <1>2, <1>3, <1>4 DEF Next, Finished

LEMMA TypeAlways == Spec => []TypeInv
  BY TypeStarts, NextTyped, PTL DEF Spec

\* Every command keeps the database in the form that the next one expects,
\* whichever command, killed wherever.
THEOREM TypeCorrect == Spec => []TypeOK
<1>1. TypeInv => TypeOK
  BY TypeImplied
<1> QED
  BY <1>1, TypeAlways, PTL

\* The default container is listed: what add_new_container, delete_container,
\* set_default_container_id and merge_container_config_files write never leaves
\* it pointing at a container that is not there.
THEOREM DefaultIsListed == Spec => []DefaultListed
<1>1. TypeInv => DefaultListed
  BY TypeImplied
<1> QED
  BY <1>1, TypeAlways, PTL

-----------------------------------------------------------------------------
(* Write-ahead: what a command has announced in the database, by the label *)
(* it is at.                                                               *)

\* Nothing has gone wrong that leaves something unlisted.
Fine(u) == u \cap {"partial", "missing", "merge"} = {}

\* w is what is there of the container c, and d lists it.
Covered(d, w, c) ==
  /\ w.root = "none" => w.pkgs = {} /\ w.archives = {}
  /\ w.root # "none" => container_exists(d, c)
  /\ container_exists(d, c) =>
       /\ \A n \in w.pkgs : ItemStatus(Entry(d, c).apps, n) # "none"
       /\ \A n \in w.archives : ItemStatus(Entry(d, c).archives, n) # "none"
       /\ w.root # "none" =>
            \A n \in Packages : ItemStatus(Entry(d, c).apps, n) = "installed" => n \in w.pkgs

BuildHere(d, w, p) ==
  /\ p.at \in {"added", "build", "drop"} => w.root = "none"
  /\ p.at \in Building => \A n \in Packages : ItemStatus(Entry(d, p.cid).apps, n) = "none"

PackageHere(d, w, p) ==
  p.at \in {"apt", "record"} /\ p.cmd.op \in {"install", "remove"} =>
    LET n == p.todo[1]
    IN  /\ ItemStatus(Entry(d, p.cid).apps, n)
             = IF p.cmd.op = "install" THEN "installing" ELSE "removing"
        /\ p.at = "apt" /\ p.cmd.op = "remove" /\ w.root # "none" => n \in w.pkgs
        /\ p.at = "record" /\ p.ok => (n \in w.pkgs <=> p.cmd.op = "install")
        /\ p.at = "record" /\ ~p.ok /\ p.cmd.op = "remove" /\ w.root # "none" => n \in w.pkgs

ArchiveHere(d, w, p) ==
  p.at \in {"open", "work", "record"} /\ p.cmd.op = "archive" =>
    /\ ItemStatus(Entry(d, p.cid).archives, p.cmd.name)
         = IF p.cmd.on THEN "installing" ELSE "removing"
    /\ p.at # "record" /\ p.cmd.on => p.cmd.name \notin w.archives
    /\ p.at = "record" /\ p.cmd.on # p.ok => p.cmd.name \notin w.archives

Ahead(d, w, p) ==
  /\ \A c \in Cids : Covered(d, w[c], c)
  /\ p.cid \in Cids =>
       BuildHere(d, w[p.cid], p) /\ PackageHere(d, w[p.cid], p) /\ ArchiveHere(d, w[p.cid], p)

AheadInv == Fine(upset) => Ahead(db, world, proc)

\* At these labels nothing is pending.
Free == {"idle", "start", "checked", "next", "destroy", "fix", "fixapps", "fixarchives"}

LEMMA FreeHere ==
  ASSUME NEW d, NEW w, NEW p, p.at \in Free, \A c \in Cids : Covered(d, w[c], c)
  PROVE  Ahead(d, w, p)
  BY DEF Ahead, Free, Building, BuildHere, PackageHere, ArchiveHere

LEMMA EndAhead ==
  ASSUME End, \A c \in Cids : Covered(db', world'[c], c)
  PROVE  Ahead(db', world', proc')
  BY FreeHere DEF End, Idle, Free

\* What does not concern the container c.
LEMMA OthersCovered ==
  ASSUME NEW d, NEW e, NEW c \in Cids, NEW x, Says(d, e, c, x), NEW w, NEW v,
         \A b \in Cids \ {c} : v[b] = w[b], \A b \in Cids : Covered(d, w[b], b),
         Covered(e, v[c], c)
  PROVE  \A b \in Cids : Covered(e, v[b], b)
<1>1. ASSUME NEW b \in Cids \ {c} PROVE Covered(e, v[b], b)
  <2>1. /\ container_exists(e, b) <=> container_exists(d, b)
        /\ container_exists(d, b) => Entry(e, b) = Entry(d, b)
        /\ v[b] = w[b] /\ Covered(d, w[b], b)
    BY DEF Says
  <2> QED
    BY <2>1 DEF Covered
<1> QED
  BY <1>1

\* Nothing but the status, the multiarch flag or the like is written.
LEMMA SameListsCovered ==
  ASSUME NEW d, NEW e, NEW c \in Cids, NEW x, Says(d, e, c, x), NEW w,
         x.apps = Entry(d, c).apps, x.archives = Entry(d, c).archives,
         \A b \in Cids : Covered(d, w[b], b)
  PROVE  /\ \A b \in Cids : Covered(e, w[b], b)
         /\ Entry(e, c).apps = Entry(d, c).apps /\ Entry(e, c).archives = Entry(d, c).archives
<1>1. /\ Entry(e, c).apps = Entry(d, c).apps /\ Entry(e, c).archives = Entry(d, c).archives
      /\ container_exists(e, c) <=> container_exists(d, c)
  BY DEF Says
<1>2. Covered(e, w[c], c)
  BY <1>1 DEF Covered
<1> QED
  BY <1>1, <1>2, OthersCovered

LEMMA ListsStayCovered ==
  ASSUME NEW d, NEW e, NEW c \in Cids, NEW x, Says(d, e, c, x),
         x.apps = Entry(d, c).apps, x.archives = Entry(d, c).archives,
         NEW b \in Cids, NEW v, Covered(d, v, b)
  PROVE  Covered(e, v, b)
<1>1. CASE b = c
  <2>1. /\ Entry(e, c).apps = Entry(d, c).apps /\ Entry(e, c).archives = Entry(d, c).archives
        /\ container_exists(e, c) <=> container_exists(d, c)
    BY DEF Says
  <2> QED
    BY <1>1, <2>1 DEF Covered
<1>2. CASE b # c
  BY <1>2 DEF Says, Covered
<1> QED
  BY <1>1, <1>2

LEMMA StatusCovered ==
  ASSUME TypeInv, NEW c \in Cids, container_exists(db, c), NEW s \in Statuses,
         NEW e, e = SetStatus(db, c, s), NEW w, \A b \in Cids : Covered(db, w[b], b)
  PROVE  /\ \A b \in Cids : Covered(e, w[b], b)
         /\ Entry(e, c).apps = Entry(db, c).apps /\ Entry(e, c).archives = Entry(db, c).archives
<1> DEFINE x == [Entry(db, c) EXCEPT !.status = s]
<1>1. Says(db, e, c, x) /\ Entry(db, c) \in Entries
  BY StatusSetSays DEF TypeInv
<1>2. x.apps = Entry(db, c).apps /\ x.archives = Entry(db, c).archives
  BY <1>1 DEF Entries
<1> HIDE DEF x
<1> QED
  BY <1>1, <1>2, SameListsCovered

LEMMA SessionStatuses ==
  ASSUME TypeInv, NEW c \in Cids, container_exists(db, c)
  PROVE  /\ Stopped(db, c) = SetStatus(db, c, StoppedStatus(db, c))
         /\ Nested(db, c) = SetStatus(db, c, NestedStatus(db, c))
         /\ StoppedStatus(db, c) \in Statuses /\ NestedStatus(db, c) \in Statuses
  BY DEF Stopped, Nested, StoppedStatus, NestedStatus, Statuses

\* A session that is over, or that may not have begun.
LEMMA SessionCovered ==
  ASSUME TypeInv, NEW c \in Cids, container_exists(db, c), NEW bad, NEW e \in Tried(db, c, bad),
         NEW w, \A b \in Cids : Covered(db, w[b], b)
  PROVE  /\ \A b \in Cids : Covered(e, w[b], b)
         /\ Entry(e, c).apps = Entry(db, c).apps /\ Entry(e, c).archives = Entry(db, c).archives
<1>1. PICK s \in Statuses : Ended(db, c, bad) = SetStatus(db, c, s)
  BY EndedSays
<1>2. e = db \/ e = SetStatus(db, c, s)
  BY <1>1, EndedSays
<1> QED
  BY <1>2, StatusCovered

LEMMA EndedIsTried == ASSUME NEW d, NEW c, NEW bad PROVE Ended(d, c, bad) \in Tried(d, c, bad)
  BY DEF Tried

\* The database and the containers as they are.
LEMMA QuietAhead ==
  ASSUME TypeInv, Ahead(db, world, proc), UNCHANGED <<db, world>>, proc'.at \in Free
  PROVE  Ahead(db', world', proc')
  BY FreeHere DEF Ahead

LEMMA GiveAhead ==
  ASSUME TypeInv, Ahead(db, world, proc), NEW cmd \in Commands, Give(cmd)
  PROVE  Ahead(db', world', proc')
<1>1. UNCHANGED <<db, world>> /\ proc'.at = "start"
  BY DEF Give, Idle
<1> QED
  BY <1>1, QuietAhead DEF Free

LEMMA StartsAhead ==
  ASSUME TypeInv, Ahead(db, world, proc), Kill \/ CheckContainerId \/ FixIntegrity
  PROVE  Ahead(db', world', proc')
<1>1. UNCHANGED <<db, world>>
  BY DEF Kill, CheckContainerId, FixIntegrity
<1>2. Idle.at = "idle"
  BY DEF Idle
<1>3. /\ [proc EXCEPT !.at = "fix", !.i = 1].at = "fix"
      /\ \A c : [proc EXCEPT !.at = "checked", !.cid = c].at = "checked"
  BY DEF TypeInv, Procs
<1>4. CheckContainerId => proc' = Idle \/ \E c : proc' = [proc EXCEPT !.at = "checked", !.cid = c]
  BY DEF CheckContainerId, Crash, End, TypeInv, Procs
<1>5. Kill \/ FixIntegrity => proc' = Idle \/ proc' = [proc EXCEPT !.at = "fix", !.i = 1]
  BY DEF Kill, FixIntegrity, End
<1> QED
  BY ZenonT(30), <1>1, <1>2, <1>3, <1>4, <1>5, QuietAhead DEF Free

LEMMA CreateAhead ==
  ASSUME TypeInv, Ahead(db, world, proc), Create
  PROVE  Ahead(db', world', proc')
<1>1. CASE End /\ db' = db
  BY <1>1, EndAhead DEF Create, Ahead
<1>2. CASE /\ proc.at = "start" /\ Op = "create" /\ ~container_exists(db, proc.cid)
           /\ db' = add_new_container(db, proc.cid, proc.cmd.type) /\ Goto("added")
  <2> DEFINE c == proc.cid
             new == NewEntry(c, proc.cmd.type)
  <2>1. c \in Cids /\ proc.cmd.type \in {"chroot", "lxc"}
    BY <1>2, CommandParts DEF TypeInv, Formed, Op
  <2>2. /\ db' \in Databases /\ Sound(db')
        /\ \A b \in Cids : container_exists(db', b) <=> container_exists(db, b) \/ b = c
        /\ Entry(db', c) = new
        /\ \A b \in Cids \ {c} : container_exists(db, b) => Entry(db', b) = Entry(db, b)
    BY <1>2, <2>1, AddSays DEF TypeInv
  <2>3. new.apps = <<>> /\ new.archives = <<>> /\ \A n : ItemStatus(<<>>, n) = "none"
    BY <2>1, NewEntrySays DEF NewEntry
  <2>4. world' = world /\ world[c].root = "none" /\ world[c].pkgs = {} /\ world[c].archives = {}
    BY <1>2, <2>1 DEF Create, Ahead, Covered
  <2> HIDE DEF c, new
  <2>5. ASSUME NEW b \in Cids PROVE Covered(db', world'[b], b)
    <3>1. CASE b = c
      BY <2>2, <2>4, <3>1 DEF Covered
    <3>2. CASE b # c
      BY <2>2, <2>4, <3>2 DEF Covered, Ahead
    <3> QED
      BY <3>1, <3>2
  <2>6. proc'.at = "added" /\ proc'.cid = c
    BY <1>2 DEF Goto, TypeInv, Procs, c
  <2>7. BuildHere(db', world'[c], proc')
    BY <2>2, <2>3, <2>4, <2>6 DEF BuildHere
  <2> QED
    BY <2>1, <2>5, <2>6, <2>7 DEF Ahead, PackageHere, ArchiveHere
<1> QED
  BY <1>1, <1>2 DEF Create, Crash

LEMMA NothingIs == Nothing.root = "none" /\ Nothing.pkgs = {} /\ Nothing.archives = {}
  BY DEF Nothing

\* The containers change at c, and the database as e says.
LEMMA WorldCovered ==
  ASSUME TypeInv, NEW c \in Cids, NEW w \in Worlds, world' = [world EXCEPT ![c] = w],
         \A b \in Cids : Covered(db', world[b], b), Covered(db', w, c)
  PROVE  \A b \in Cids : Covered(db', world'[b], b)
  BY WorldAt

LEMMA BuildsAhead ==
  ASSUME TypeInv, Ahead(db, world, proc), Fine(upset'),
         Installing \/ Build \/ Built \/ Undo \/ Complete
  PROVE  Ahead(db', world', proc')
<1> DEFINE c == proc.cid
<1>1. /\ proc.at \in Building /\ c \in Cids /\ container_exists(db, c) /\ world[c] \in Worlds
      /\ proc.cmd.op = "create" /\ proc.cmd \in AllCommands
  <2>1. proc.at \in Building
    BY DEF Installing, Build, Built, Undo, Complete, Building
  <2>2. proc.cmd.op = "create"
    BY <2>1 DEF TypeInv, Formed, RightOp
  <2> QED
    BY <2>1, <2>2, AtWork DEF Building
<1>2. /\ \A b \in Cids : Covered(db, world[b], b)
      /\ \A n \in Packages : ItemStatus(Entry(db, c).apps, n) = "none"
      /\ proc.at \in {"added", "build", "drop"} => world[c].root = "none"
  BY <1>1 DEF Ahead, BuildHere
<1>3. ASSUME NEW s \in Statuses, db' = SetStatus(db, c, s)
      PROVE  /\ \A b \in Cids : Covered(db', world[b], b)
             /\ \A n \in Packages : ItemStatus(Entry(db', c).apps, n) = "none"
  BY <1>1, <1>2, <1>3, StatusCovered
<1>4. ASSUME NEW l \in Labels, Goto(l)
      PROVE  proc'.at = l /\ proc'.cid = c /\ proc'.cmd = proc.cmd
  BY <1>4, ProcMoves
<1>5. CASE Installing
  <2>1. /\ \A b \in Cids : Covered(db', world'[b], b)
        /\ \A n \in Packages : ItemStatus(Entry(db', c).apps, n) = "none"
        /\ world'[c].root = "none"
    BY <1>2, <1>3, <1>5 DEF Installing, Statuses
  <2>2. proc'.at = "build" /\ proc'.cid = c
    BY <1>4, <1>5 DEF Installing, Labels
  <2>3. BuildHere(db', world'[c], proc')
    BY <2>1, <2>2 DEF BuildHere
  <2> QED
    BY <1>1, <2>1, <2>2, <2>3 DEF Ahead, PackageHere, ArchiveHere
<1>6. CASE Build /\ Goto("building")
  <2> DEFINE w == [world[c] EXCEPT !.root = "partial"]
  <2>1. w \in Worlds /\ w.root = "partial" /\ w.pkgs = {} /\ w.archives = {}
    BY <1>1, <1>2, <1>6 DEF Build, Worlds, Covered
  <2>2. db' = db /\ world' = [world EXCEPT ![c] = w]
    <3>1. proc'.at = "building"
      BY <1>4, <1>6 DEF Labels
    <3>2. Goto("drop") => proc'.at = "drop"
      BY <1>4 DEF Labels
    <3> QED
      BY <1>1, <1>6, <3>1, <3>2 DEF Build, TypeInv
  <2> HIDE DEF w
  <2>3. Covered(db', w, c)
    BY <1>1, <1>2, <2>1, <2>2 DEF Covered
  <2>4. \A b \in Cids : Covered(db', world'[b], b)
    BY <1>1, <1>2, <2>1, <2>2, <2>3, WorldCovered
  <2>5. proc'.at = "building" /\ proc'.cid = c
    BY <1>4, <1>6 DEF Labels
  <2>6. BuildHere(db', world'[c], proc')
    BY <1>2, <2>2, <2>5 DEF BuildHere
  <2> QED
    BY <1>1, <2>4, <2>5, <2>6 DEF Ahead, PackageHere, ArchiveHere
<1>7. CASE Build /\ Goto("drop")
  <2>1. proc'.at = "drop" /\ proc'.cid = c
    BY <1>4, <1>7 DEF Labels
  <2>2. db' = db /\ world' = world
    <3>1. Goto("building") => proc'.at = "building"
      BY <1>4 DEF Labels
    <3> QED
      BY <1>7, <2>1, <3>1 DEF Build
  <2>3. BuildHere(db', world'[c], proc')
    BY <1>2, <1>7, <2>1, <2>2 DEF BuildHere, Building, Build
  <2> QED
    BY <1>1, <1>2, <2>1, <2>2, <2>3 DEF Ahead, PackageHere, ArchiveHere
<1>8. CASE Built
  <2> DEFINE w == [world[c] EXCEPT !.root = "whole", !.foreign = proc.cmd.on]
  <2>1. /\ w \in Worlds /\ w.root = "whole" /\ w.pkgs = world[c].pkgs
        /\ w.archives = world[c].archives
    BY <1>1, CommandParts DEF Worlds
  <2>2. db' = db /\ (world' = [world EXCEPT ![c] = w] \/ world' = world)
    BY <1>1, <1>8 DEF Built, TypeInv
  <2> HIDE DEF w
  <2>3. Covered(db', w, c)
    BY <1>1, <1>2, <2>1, <2>2 DEF Covered
  <2>4. \A b \in Cids : Covered(db', world'[b], b)
    BY <1>1, <1>2, <2>1, <2>2, <2>3, WorldCovered
  <2>5. proc'.at \in {"complete", "undo"} /\ proc'.cid = c
    BY <1>4, <1>8 DEF Built, Labels
  <2>6. BuildHere(db', world'[c], proc')
    BY <1>2, <2>2, <2>5 DEF BuildHere
  <2> QED
    BY <1>1, <2>4, <2>5, <2>6 DEF Ahead, PackageHere, ArchiveHere
<1>9. CASE Undo
  <2>1. db' = db /\ world' = [world EXCEPT ![c] = Nothing]
    BY <1>9 DEF Undo, Fine
  <2>2. Nothing \in Worlds
    BY <1>1, WorldParts
  <2>3. Covered(db', Nothing, c)
    BY NothingIs DEF Covered
  <2>4. \A b \in Cids : Covered(db', world'[b], b)
    BY <1>1, <1>2, <2>1, <2>2, <2>3, WorldCovered
  <2>5. proc'.at = "drop" /\ proc'.cid = c
    BY <1>4, <1>9 DEF Undo, Labels
  <2>6. BuildHere(db', world'[c], proc')
    BY <1>1, <2>1, <2>2, <2>5, NothingIs, WorldAt DEF BuildHere, Building
  <2> QED
    BY <1>1, <2>4, <2>5, <2>6 DEF Ahead, PackageHere, ArchiveHere
<1>10. CASE Complete
  BY <1>1, <1>3, <1>10, EndAhead DEF Complete, Statuses
<1> QED
  BY <1>5, <1>6, <1>7, <1>8, <1>9, <1>10 DEF Build

LEMMA DestroysAhead ==
  ASSUME TypeInv, Ahead(db, world, proc), Fine(upset'),
         DestroyContainer \/ Destroy \/ Drop
  PROVE  Ahead(db', world', proc')
<1> DEFINE c == proc.cid
<1>1. c \in Cids /\ container_exists(db, c) /\ world[c] \in Worlds
  <2>1. proc.at \in {"checked", "destroy", "drop"}
    BY DEF DestroyContainer, Destroy, Drop
  <2> QED
    BY <2>1, AtWork
<1>2. \A b \in Cids : Covered(db, world[b], b)
  BY DEF Ahead
<1>3. ASSUME NEW s \in Statuses, db' = SetStatus(db, c, s)
      PROVE  \A b \in Cids : Covered(db', world[b], b)
  BY <1>1, <1>2, <1>3, StatusCovered
<1>4. CASE DestroyContainer
  <2>1. \A b \in Cids : Covered(db', world'[b], b)
    BY <1>3, <1>4 DEF DestroyContainer, Statuses
  <2>2. proc'.at = "destroy"
    BY <1>4 DEF DestroyContainer, TypeInv, Procs
  <2> QED
    BY <2>1, <2>2, FreeHere DEF Free
<1>5. CASE Destroy /\ world' = [world EXCEPT ![c] = Nothing] /\ Goto("drop")
                   /\ db' = SetStatus(db, c, "removed")
  <2>1. \A b \in Cids : Covered(db', world[b], b)
    BY <1>3, <1>5 DEF Statuses
  <2>2. Covered(db', Nothing, c) /\ Nothing \in Worlds
    BY <1>1, WorldParts, NothingIs DEF Covered
  <2>3. \A b \in Cids : Covered(db', world'[b], b)
    BY <1>1, <1>5, <2>1, <2>2, WorldCovered
  <2>4. proc'.at = "drop" /\ proc'.cid = c
    BY <1>5, ProcMoves DEF Labels
  <2>5. BuildHere(db', world'[c], proc')
    BY <1>1, <1>5, <2>2, <2>4, NothingIs, WorldAt DEF BuildHere, Building
  <2> QED
    BY <1>1, <2>3, <2>4, <2>5 DEF Ahead, PackageHere, ArchiveHere
<1>6. CASE Destroy /\ world' = world /\ End /\ db' = SetStatus(db, c, proc.was)
  <2>1. proc.was \in Statuses
    BY <1>6 DEF Destroy, TypeInv, Formed, RightOp
  <2>2. \A b \in Cids : Covered(db', world[b], b)
    BY <1>3, <1>6, <2>1
  <2> QED
    BY <1>6, <2>2, EndAhead
<1>7. CASE Drop /\ db.default = None
  BY <1>2, <1>7, EndAhead DEF Drop, Crash
<1>8. CASE Drop /\ db.default # None
  <2>1. End /\ db' = delete_container(db, c) /\ world' = world
    BY <1>8 DEF Drop
  <2>2. /\ \A b \in Cids : container_exists(db', b) <=> container_exists(db, b) /\ b # c
        /\ \A b \in Cids \ {c} : container_exists(db, b) => Entry(db', b) = Entry(db, b)
    BY <1>1, <1>8, <2>1, DeleteSays DEF TypeInv
  <2>3. world[c].root = "none"
    BY <1>1, <1>8 DEF Drop, Ahead, BuildHere
  <2>4. ASSUME NEW b \in Cids PROVE Covered(db', world'[b], b)
    <3>1. CASE b = c
      BY <1>2, <2>1, <2>2, <2>3, <3>1 DEF Covered
    <3>2. CASE b # c
      BY <1>2, <2>1, <2>2, <3>2 DEF Covered
    <3> QED
      BY <3>1, <3>2
  <2> QED
    BY <2>1, <2>4, EndAhead
<1> QED
  BY <1>4, <1>5, <1>6, <1>7, <1>8 DEF Destroy, Fine

\* Only the packages of c are written, or only its archives.
LEMMA AppsWritten ==
  ASSUME TypeInv, NEW c \in Cids, container_exists(db, c),
         NEW t \in Seq(Items(Packages)), NamedOnce(t), NEW e, e = SetApps(db, c, t),
         NEW v, \A b \in Cids \ {c} : v[b] = world[b],
         \A b \in Cids : Covered(db, world[b], b)
  PROVE  /\ container_exists(e, c) /\ Entry(e, c).apps = t
         /\ Entry(e, c).archives = Entry(db, c).archives
         /\ e \in Databases /\ Sound(e)
         /\ Covered(e, v[c], c) => \A b \in Cids : Covered(e, v[b], b)
<1> DEFINE x == [Entry(db, c) EXCEPT !.apps = t]
<1>1. Says(db, e, c, x) /\ Entry(db, c) \in Entries
  BY AppsSetSays DEF TypeInv
<1>2. x.apps = t /\ x.archives = Entry(db, c).archives
  BY <1>1 DEF Entries
<1> HIDE DEF x
<1>3. container_exists(e, c) /\ Entry(e, c) = x /\ e \in Databases /\ Sound(e)
  BY <1>1 DEF Says
<1>4. Covered(e, v[c], c) => \A b \in Cids : Covered(e, v[b], b)
  BY <1>1, OthersCovered
<1> QED
  BY <1>2, <1>3, <1>4

LEMMA ArchivesWritten ==
  ASSUME TypeInv, NEW c \in Cids, container_exists(db, c),
         NEW t \in Seq(Items(Archives)), NamedOnce(t), NEW e, e = SetArchives(db, c, t),
         \A b \in Cids : Covered(db, world[b], b)
  PROVE  /\ container_exists(e, c) /\ Entry(e, c).archives = t
         /\ Entry(e, c).apps = Entry(db, c).apps
         /\ Covered(e, world[c], c) => \A b \in Cids : Covered(e, world[b], b)
<1> DEFINE x == [Entry(db, c) EXCEPT !.archives = t]
<1>1. Says(db, e, c, x) /\ Entry(db, c) \in Entries
  BY ArchivesSetSays DEF TypeInv
<1>2. x.archives = t /\ x.apps = Entry(db, c).apps
  BY <1>1 DEF Entries
<1> HIDE DEF x
<1>3. container_exists(e, c) /\ Entry(e, c) = x
  BY <1>1 DEF Says
<1>4. Covered(e, world[c], c) => \A b \in Cids : Covered(e, world[b], b)
  BY <1>1, OthersCovered
<1> QED
  BY <1>2, <1>3, <1>4

\* A package is given another status, or is no longer listed.
LEMMA MarkedCovered ==
  ASSUME TypeInv, NEW c \in Cids, container_exists(db, c), NEW n \in Packages,
         \A b \in Cids : Covered(db, world[b], b), NEW e
  PROVE  /\ \A st \in ItemStatuses :
              /\ e = SetApps(db, c, Mark(Apps(c), n, st))
              /\ st = "installed" /\ world[c].root # "none" => n \in world[c].pkgs
              => /\ \A b \in Cids : Covered(e, world[b], b)
                 /\ ItemStatus(Entry(e, c).apps, n) = st
         /\ /\ e = SetApps(db, c, Unlist(Apps(c), n))
            /\ n \notin world[c].pkgs
            => \A b \in Cids : Covered(e, world[b], b)
<1> DEFINE s == Entry(db, c).apps
<1>1. s \in Seq(Items(Packages)) /\ NamedOnce(s) /\ Apps(c) = s
  BY ListsOf DEF TypeInv, Apps
<1>2. Covered(db, world[c], c) /\ world[c].pkgs \subseteq Packages
  BY WorldParts DEF TypeInv
<1> HIDE DEF s
<1>3. ASSUME NEW st \in ItemStatuses, e = SetApps(db, c, Mark(s, n, st)),
             st = "installed" /\ world[c].root # "none" => n \in world[c].pkgs
      PROVE  /\ \A b \in Cids : Covered(e, world[b], b)
             /\ ItemStatus(Entry(e, c).apps, n) = st
  <2> DEFINE t == Mark(s, n, st)
  <2>1. /\ t \in Seq(Items(Packages)) /\ NamedOnce(t)
        /\ ItemStatus(t, n) = st
        /\ \A m \in Packages \ {n} : ItemStatus(t, m) = ItemStatus(s, m)
    BY <1>1, MarkSays
  <2>2. st # "none"
    BY DEF ItemStatuses
  <2> HIDE DEF t
  <2>3. /\ container_exists(e, c) /\ Entry(e, c).apps = t
        /\ Entry(e, c).archives = Entry(db, c).archives
        /\ Covered(e, world[c], c) => \A b \in Cids : Covered(e, world[b], b)
    BY <1>3, <2>1, AppsWritten DEF t
  <2>4. Covered(e, world[c], c)
    BY <1>2, <1>3, <2>1, <2>2, <2>3 DEF Covered, s
  <2> QED
    BY <2>1, <2>3, <2>4
<1>4. ASSUME e = SetApps(db, c, Unlist(s, n)), n \notin world[c].pkgs
      PROVE  \A b \in Cids : Covered(e, world[b], b)
  <2> DEFINE t == Unlist(s, n)
  <2>1. /\ t \in Seq(Items(Packages)) /\ NamedOnce(t)
        /\ ItemStatus(t, n) = "none"
        /\ \A m \in Packages \ {n} : ItemStatus(t, m) = ItemStatus(s, m)
    BY <1>1, UnlistSays
  <2> HIDE DEF t
  <2>2. /\ container_exists(e, c) /\ Entry(e, c).apps = t
        /\ Entry(e, c).archives = Entry(db, c).archives
        /\ Covered(e, world[c], c) => \A b \in Cids : Covered(e, world[b], b)
    BY <1>4, <2>1, AppsWritten DEF t
  <2>3. Covered(e, world[c], c)
    BY <1>2, <1>4, <2>1, <2>2 DEF Covered, s
  <2> QED
    BY <2>2, <2>3
<1> QED
  BY <1>1, <1>3, <1>4

LEMMA NextPackageAhead ==
  ASSUME TypeInv, Ahead(db, world, proc), NextPackage
  PROVE  Ahead(db', world', proc')
<1> DEFINE c == proc.cid
<1>1. /\ c \in Cids /\ container_exists(db, c) /\ world[c] \in Worlds /\ world' = world
      /\ proc.cmd.op \in {"install", "remove"} /\ Pkg \in Packages
  BY AtWork, ProcParts DEF NextPackage, TypeInv, Formed, RightOp, Pkg
<1>2. \A b \in Cids : Covered(db, world[b], b)
  BY DEF Ahead
<1>3. CASE proc' = Done /\ db' = db
  <2>1. proc'.at = "next"
    BY <1>3 DEF Done, TypeInv, Procs
  <2> QED
    BY <1>1, <1>3, <2>1, QuietAhead DEF Free
<1>4. CASE /\ IF Op = "install" THEN TRUE ELSE ItemStatus(Apps(c), Pkg) = "installed"
           /\ db' = SetApps(db, c, Marked(Apps(c), Pkg))
           /\ proc' = [proc EXCEPT !.at = "apt", !.was = ItemStatus(Apps(c), Pkg)]
  <2> DEFINE st == IF Op = "install" THEN "installing" ELSE "removing"
  <2>1. st \in ItemStatuses /\ st # "installed" /\ db' = SetApps(db, c, Mark(Apps(c), Pkg, st))
    BY <1>4 DEF Marked, ItemStatuses
  <2>2. /\ \A b \in Cids : Covered(db', world[b], b)
        /\ ItemStatus(Entry(db', c).apps, Pkg) = st
    BY <1>1, <1>2, <2>1, MarkedCovered
  <2>3. /\ proc'.at = "apt" /\ proc'.cid = c /\ proc'.cmd = proc.cmd /\ proc'.todo = proc.todo
    BY <1>4 DEF TypeInv, Procs
  <2>4. proc.cmd.op = "remove" /\ world[c].root # "none" => Pkg \in world[c].pkgs
    BY <1>1, <1>2, <1>4 DEF Covered, Op, Apps
  <2>5. PackageHere(db', world'[c], proc')
    BY <1>1, <2>2, <2>3, <2>4 DEF PackageHere, Pkg, Op
  <2> QED
    BY <1>1, <2>2, <2>3, <2>5 DEF Ahead, BuildHere, ArchiveHere, Building
<1> QED
  BY <1>3, <1>4 DEF NextPackage

LEMMA AptAhead ==
  ASSUME TypeInv, Ahead(db, world, proc), Fine(upset'), Apt
  PROVE  Ahead(db', world', proc')
<1> DEFINE c == proc.cid
           after == IF Op = "install" THEN world[c].pkgs \cup {Pkg} ELSE world[c].pkgs \ {Pkg}
           w == [world[c] EXCEPT !.pkgs = after]
<1>1. /\ c \in Cids /\ container_exists(db, c) /\ world[c] \in Worlds
      /\ proc.cmd.op \in {"install", "remove"} /\ Pkg \in Packages
  BY AtWork, ProcParts DEF Apt, TypeInv, Formed, RightOp, Pkg
<1>2. /\ \A b \in Cids : Covered(db, world[b], b)
      /\ PackageHere(db, world[c], proc)
  BY <1>1 DEF Ahead
<1>3. /\ \A b \in Cids : Covered(db', world[b], b)
      /\ Entry(db', c).apps = Entry(db, c).apps /\ Entry(db', c).archives = Entry(db, c).archives
  BY <1>1, <1>2, SessionStatuses, StatusCovered DEF Apt
<1>4. ItemStatus(Entry(db', c).apps, Pkg) = IF Op = "install" THEN "installing" ELSE "removing"
  BY <1>1, <1>2, <1>3 DEF PackageHere, Pkg, Op, Apt
<1>5. ASSUME NEW b \in BOOLEAN, proc' = [proc EXCEPT !.at = "record", !.ok = b]
      PROVE  /\ proc'.at = "record" /\ proc'.cid = c /\ proc'.cmd = proc.cmd
             /\ proc'.todo = proc.todo /\ proc'.ok = b
  BY <1>5 DEF TypeInv, Procs
<1>6. CASE /\ There /\ world' = [world EXCEPT ![c].pkgs = after]
           /\ proc' = [proc EXCEPT !.at = "record", !.ok = TRUE]
  <2>1. after \in SUBSET Packages /\ (Pkg \in after <=> Op = "install")
    BY <1>1, WorldParts DEF Op
  <2> HIDE DEF after
  <2>2. /\ w \in Worlds /\ w.root = world[c].root /\ w.pkgs = after
        /\ w.archives = world[c].archives /\ world' = [world EXCEPT ![c] = w]
    BY <1>1, <1>6, <2>1 DEF Worlds, TypeInv
  <2> HIDE DEF w
  <2>3. \A n \in after : n \in world[c].pkgs \/ n = Pkg
    BY DEF after
  <2>4. \A n \in world[c].pkgs : n \in after \/ n = Pkg
    BY DEF after
  <2>5. Covered(db', w, c)
    <3>1. Covered(db', world[c], c)
      BY <1>1, <1>3
    <3>2. w.root # "none"
      BY <1>6, <2>2 DEF There
    <3>3. ItemStatus(Entry(db', c).apps, Pkg) \notin {"none", "installed"}
      BY <1>4
    <3> QED
      BY <2>2, <2>3, <2>4, <3>1, <3>2, <3>3 DEF Covered
  <2>6. \A b \in Cids : Covered(db', world'[b], b)
    BY <1>1, <1>3, <2>2, <2>5, WorldCovered
  <2>7. world'[c] = w
    BY <1>1, <2>2, WorldAt
  <2>8. PackageHere(db', world'[c], proc')
    BY <1>1, <1>4, <1>5, <1>6, <2>1, <2>2, <2>7 DEF PackageHere, Pkg, Op
  <2> QED
    BY <1>1, <1>5, <1>6, <2>6, <2>8 DEF Ahead, BuildHere, ArchiveHere, Building
<1>7. CASE /\ world' = world /\ proc' = [proc EXCEPT !.at = "record", !.ok = FALSE]
  <2>1. PackageHere(db', world'[c], proc')
    BY <1>1, <1>2, <1>4, <1>5, <1>7 DEF PackageHere, Pkg, Op, Apt
  <2> QED
    BY <1>1, <1>3, <1>5, <1>7, <2>1 DEF Ahead, BuildHere, ArchiveHere, Building
<1> QED
  BY <1>6, <1>7 DEF Apt, Fine

LEMMA RecordPackageAhead ==
  ASSUME TypeInv, Ahead(db, world, proc), Fine(upset'), RecordPackage
  PROVE  Ahead(db', world', proc')
<1> DEFINE c == proc.cid
<1>1. /\ c \in Cids /\ container_exists(db, c) /\ world' = world
      /\ proc.cmd.op \in {"install", "remove"} /\ Pkg \in Packages /\ proc.ok \in BOOLEAN
  BY AtWork, ProcParts DEF RecordPackage, TypeInv, Formed, Pkg, Op
<1>2. /\ \A b \in Cids : Covered(db, world[b], b)
      /\ PackageHere(db, world[c], proc)
  BY <1>1 DEF Ahead
<1>3. proc'.at = "next"
  BY DEF RecordPackage, Done, TypeInv, Procs
<1>4. Op = "install" /\ ~proc.ok => Pkg \notin world[c].pkgs
  BY DEF RecordPackage, LeftBehind, Fine
<1>5. \A b \in Cids : Covered(db', world[b], b)
  <2>1. CASE (Op = "install") = proc.ok
    <3>1. world[c].root # "none" => Pkg \in world[c].pkgs
      BY <1>1, <1>2, <2>1 DEF PackageHere, Pkg, Op, RecordPackage
    <3>2. db' = SetApps(db, c, Mark(Apps(c), Pkg, "installed"))
      BY <2>1 DEF RecordPackage
    <3> QED
      BY <1>1, <1>2, <3>1, <3>2, MarkedCovered DEF ItemStatuses
  <2>2. CASE (Op = "install") # proc.ok
    <3>1. Pkg \notin world[c].pkgs
      BY <1>1, <1>2, <1>4, <2>2 DEF PackageHere, Pkg, Op, RecordPackage
    <3>2. db' = SetApps(db, c, Unlist(Apps(c), Pkg))
      BY <2>2 DEF RecordPackage
    <3> QED
      BY <1>1, <1>2, <3>1, <3>2, MarkedCovered
  <2> QED
    BY <2>1, <2>2
<1> QED
  BY <1>1, <1>3, <1>5, FreeHere DEF Free

LEMMA ArchiveMarkedCovered ==
  ASSUME TypeInv, NEW c \in Cids, container_exists(db, c), NEW n \in Archives,
         \A b \in Cids : Covered(db, world[b], b), NEW e
  PROVE  /\ \A st \in ItemStatuses : e = SetArchives(db, c, Mark(ArchivesOf(c), n, st))
              => /\ \A b \in Cids : Covered(e, world[b], b)
                 /\ ItemStatus(Entry(e, c).archives, n) = st
         /\ /\ e = SetArchives(db, c, Unlist(ArchivesOf(c), n))
            /\ n \notin world[c].archives
            => \A b \in Cids : Covered(e, world[b], b)
<1> DEFINE s == Entry(db, c).archives
<1>1. s \in Seq(Items(Archives)) /\ NamedOnce(s) /\ ArchivesOf(c) = s
  BY ListsOf DEF TypeInv, ArchivesOf
<1>2. Covered(db, world[c], c) /\ world[c].archives \subseteq Archives
  BY WorldParts DEF TypeInv
<1> HIDE DEF s
<1>3. ASSUME NEW st \in ItemStatuses, e = SetArchives(db, c, Mark(s, n, st))
      PROVE  /\ \A b \in Cids : Covered(e, world[b], b)
             /\ ItemStatus(Entry(e, c).archives, n) = st
  <2> DEFINE t == Mark(s, n, st)
  <2>1. /\ t \in Seq(Items(Archives)) /\ NamedOnce(t)
        /\ ItemStatus(t, n) = st
        /\ \A m \in Archives \ {n} : ItemStatus(t, m) = ItemStatus(s, m)
    BY <1>1, MarkSays
  <2>2. st # "none"
    BY DEF ItemStatuses
  <2> HIDE DEF t
  <2>3. /\ container_exists(e, c) /\ Entry(e, c).archives = t
        /\ Entry(e, c).apps = Entry(db, c).apps
        /\ Covered(e, world[c], c) => \A b \in Cids : Covered(e, world[b], b)
    BY <1>3, <2>1, ArchivesWritten DEF t
  <2>4. Covered(e, world[c], c)
    BY <1>2, <2>1, <2>2, <2>3 DEF Covered, s
  <2> QED
    BY <2>1, <2>3, <2>4
<1>4. ASSUME e = SetArchives(db, c, Unlist(s, n)), n \notin world[c].archives
      PROVE  \A b \in Cids : Covered(e, world[b], b)
  <2> DEFINE t == Unlist(s, n)
  <2>1. /\ t \in Seq(Items(Archives)) /\ NamedOnce(t)
        /\ \A m \in Archives \ {n} : ItemStatus(t, m) = ItemStatus(s, m)
    BY <1>1, UnlistSays
  <2> HIDE DEF t
  <2>2. /\ container_exists(e, c) /\ Entry(e, c).archives = t
        /\ Entry(e, c).apps = Entry(db, c).apps
        /\ Covered(e, world[c], c) => \A b \in Cids : Covered(e, world[b], b)
    BY <1>4, <2>1, ArchivesWritten DEF t
  <2>3. Covered(e, world[c], c)
    BY <1>2, <1>4, <2>1, <2>2 DEF Covered, s
  <2> QED
    BY <2>2, <2>3
<1> QED
  BY <1>1, <1>3, <1>4

LEMMA OpenAhead ==
  ASSUME TypeInv, Ahead(db, world, proc), Open
  PROVE  Ahead(db', world', proc')
<1> DEFINE c == proc.cid
<1>1. /\ c \in Cids /\ container_exists(db, c) /\ world' = world
      /\ proc.at = "checked" => proc.cmd.op \in {"install", "remove", "update"}
      /\ proc.at = "open" => proc.cmd.op \in {"multiarch", "archive"}
      /\ proc.at \in {"checked", "open"}
  BY AtWork DEF Open, TypeInv, Formed, RightOp, Op
<1>2. /\ \A b \in Cids : Covered(db, world[b], b)
      /\ ArchiveHere(db, world[c], proc)
  BY <1>1 DEF Ahead
<1>3. /\ \A b \in Cids : Covered(db', world[b], b)
      /\ Entry(db', c).archives = Entry(db, c).archives
  <2>1. CASE db' = SetStatus(db, c, "busy")
    BY <1>1, <1>2, <2>1, StatusCovered DEF Statuses
  <2>2. CASE \E bad : db' \in Tried(db, c, bad)
    BY <1>1, <1>2, <2>2, SessionCovered
  <2> QED
    BY <2>1, <2>2 DEF Open
<1>4. CASE End
  BY <1>1, <1>3, <1>4, EndAhead
<1>5. CASE Goto(IF Op \in {"install", "remove"} THEN "next" ELSE "work")
  <2>1. /\ proc'.cmd = proc.cmd /\ proc'.cid = c
        /\ proc'.at = IF Op \in {"install", "remove"} THEN "next" ELSE "work"
    BY <1>5, ProcMoves DEF Labels
  <2>2. ArchiveHere(db', world'[c], proc')
    BY <1>1, <1>2, <1>3, <2>1 DEF ArchiveHere, Op
  <2> QED
    BY <1>1, <1>3, <2>1, <2>2 DEF Ahead, BuildHere, PackageHere, Building
<1>6. CASE Op = "archive" /\ proc' = [proc EXCEPT !.at = "record", !.ok = FALSE]
  <2>1. proc'.cmd = proc.cmd /\ proc'.cid = c /\ proc'.at = "record" /\ proc'.ok = FALSE
    BY <1>6 DEF TypeInv, Procs
  <2>2. proc.at = "open" /\ proc.cmd.on \in BOOLEAN
    BY <1>1, <1>6, AtWork, CommandParts DEF Op
  <2>3. ArchiveHere(db', world'[c], proc')
    BY <1>1, <1>2, <1>3, <1>6, <2>1, <2>2 DEF ArchiveHere, Op
  <2> QED
    BY <1>1, <1>3, <1>6, <2>1, <2>3 DEF Ahead, BuildHere, PackageHere, Building, Op
<1> QED
  BY <1>4, <1>5, <1>6 DEF Open, End

LEMMA ConfigureArchiveAhead ==
  ASSUME TypeInv, Ahead(db, world, proc), Fine(upset'), ConfigureArchive
  PROVE  Ahead(db', world', proc')
<1> DEFINE c == proc.cid
           n == proc.cmd.name
<1>1. /\ c \in Cids /\ container_exists(db, c) /\ world' = world
      /\ proc.cmd.op = "archive" /\ n \in Archives /\ proc.cmd.on \in BOOLEAN
  BY AtWork, CommandParts DEF ConfigureArchive, Op
<1>2. \A b \in Cids : Covered(db, world[b], b)
  BY DEF Ahead
<1>3. CASE End /\ db' = db
  BY <1>1, <1>2, <1>3, EndAhead
<1>4. CASE /\ IF proc.cmd.on THEN ItemStatus(ArchivesOf(c), n) = "none" ELSE TRUE
           /\ db' = SetArchives(db, c, Mark(ArchivesOf(c), n,
                                            IF proc.cmd.on THEN "installing" ELSE "removing"))
           /\ Goto("open")
  <2> DEFINE st == IF proc.cmd.on THEN "installing" ELSE "removing"
  <2>1. st \in ItemStatuses /\ db' = SetArchives(db, c, Mark(ArchivesOf(c), n, st))
    BY <1>4 DEF ItemStatuses
  <2>2. /\ \A b \in Cids : Covered(db', world[b], b)
        /\ ItemStatus(Entry(db', c).archives, n) = st
    BY <1>1, <1>2, <2>1, ArchiveMarkedCovered
  <2>3. proc'.at = "open" /\ proc'.cmd = proc.cmd /\ proc'.cid = c
    BY <1>4, ProcMoves DEF Labels
  <2>4. proc.cmd.on => n \notin world[c].archives
    BY <1>1, <1>2, <1>4 DEF Covered, ArchivesOf
  <2>5. ArchiveHere(db', world'[c], proc')
    BY <1>1, <2>2, <2>3, <2>4 DEF ArchiveHere
  <2> QED
    BY <1>1, <2>2, <2>3, <2>5 DEF Ahead, BuildHere, PackageHere, Building
<1>5. CASE /\ db' = SetArchives(db, c, Unlist(ArchivesOf(c), n))
           /\ upset' = LeftBehind(n \in world[c].archives) /\ End
  <2>1. n \notin world[c].archives
    BY <1>5 DEF LeftBehind, Fine
  <2> QED
    BY <1>1, <1>2, <1>5, <2>1, ArchiveMarkedCovered, EndAhead
<1> QED
  BY <1>3, <1>4, <1>5 DEF ConfigureArchive

LEMMA WorkArchiveAhead ==
  ASSUME TypeInv, Ahead(db, world, proc), Fine(upset'), WorkArchive
  PROVE  Ahead(db', world', proc')
<1> DEFINE c == proc.cid
           n == proc.cmd.name
           after == IF proc.cmd.on THEN world[c].archives \cup {n} ELSE world[c].archives \ {n}
           w == [world[c] EXCEPT !.archives = after]
<1>1. /\ c \in Cids /\ container_exists(db, c) /\ world[c] \in Worlds
      /\ proc.cmd.op = "archive" /\ n \in Archives /\ proc.cmd.on \in BOOLEAN
  BY AtWork, CommandParts DEF WorkArchive, Op
<1>2. /\ \A b \in Cids : Covered(db, world[b], b)
      /\ ArchiveHere(db, world[c], proc)
  BY <1>1 DEF Ahead
<1>3. /\ \A b \in Cids : Covered(db', world[b], b)
      /\ Entry(db', c).apps = Entry(db, c).apps /\ Entry(db', c).archives = Entry(db, c).archives
  <2>1. PICK bad : db' = Ended(db, c, bad)
    BY DEF WorkArchive
  <2> QED
    BY <1>1, <1>2, <2>1, EndedIsTried, SessionCovered
<1>4. ItemStatus(Entry(db', c).archives, n) = IF proc.cmd.on THEN "installing" ELSE "removing"
  BY <1>1, <1>2, <1>3 DEF ArchiveHere, WorkArchive
<1>5. ASSUME NEW b \in BOOLEAN, proc' = [proc EXCEPT !.at = "record", !.ok = b]
      PROVE  proc'.at = "record" /\ proc'.cid = c /\ proc'.cmd = proc.cmd /\ proc'.ok = b
  BY <1>5 DEF TypeInv, Procs
<1>6. CASE /\ There /\ world' = [world EXCEPT ![c].archives = after]
           /\ proc' = [proc EXCEPT !.at = "record", !.ok = TRUE]
  <2>1. after \in SUBSET Archives /\ (n \in after <=> proc.cmd.on)
    BY <1>1, WorldParts
  <2>2. \A a \in after : a \in world[c].archives \/ a = n
    OBVIOUS
  <2> HIDE DEF after
  <2>3. /\ w \in Worlds /\ w.root = world[c].root /\ w.archives = after
        /\ w.pkgs = world[c].pkgs /\ world' = [world EXCEPT ![c] = w]
    BY <1>1, <1>6, <2>1 DEF Worlds, TypeInv
  <2> HIDE DEF w
  <2>4. Covered(db', w, c)
    <3>1. Covered(db', world[c], c)
      BY <1>1, <1>3
    <3>2. w.root # "none"
      BY <1>6, <2>3 DEF There
    <3>3. ItemStatus(Entry(db', c).archives, n) # "none"
      BY <1>4
    <3> QED
      BY <2>2, <2>3, <3>1, <3>2, <3>3 DEF Covered
  <2>5. \A b \in Cids : Covered(db', world'[b], b)
    BY <1>1, <1>3, <2>3, <2>4, WorldCovered
  <2>6. world'[c] = w
    BY <1>1, <2>3, WorldAt
  <2>7. ArchiveHere(db', world'[c], proc')
    BY <1>1, <1>4, <1>5, <1>6, <2>1, <2>3, <2>6 DEF ArchiveHere
  <2> QED
    BY <1>1, <1>5, <1>6, <2>5, <2>7 DEF Ahead, BuildHere, PackageHere, Building
<1>7. CASE /\ world' = world /\ proc' = [proc EXCEPT !.at = "record", !.ok = FALSE]
  <2>1. ArchiveHere(db', world'[c], proc')
    BY <1>1, <1>2, <1>4, <1>5, <1>7 DEF ArchiveHere, WorkArchive
  <2> QED
    BY <1>1, <1>3, <1>5, <1>7, <2>1 DEF Ahead, BuildHere, PackageHere, Building
<1> QED
  BY <1>6, <1>7 DEF WorkArchive, Fine

LEMMA RecordArchiveAhead ==
  ASSUME TypeInv, Ahead(db, world, proc), RecordArchive
  PROVE  Ahead(db', world', proc')
<1> DEFINE c == proc.cid
           n == proc.cmd.name
<1>1. /\ c \in Cids /\ container_exists(db, c) /\ world' = world
      /\ proc.cmd.op = "archive" /\ n \in Archives /\ proc.cmd.on \in BOOLEAN /\ End
  BY AtWork, CommandParts DEF RecordArchive, Op
<1>2. /\ \A b \in Cids : Covered(db, world[b], b)
      /\ ArchiveHere(db, world[c], proc)
  BY <1>1 DEF Ahead
<1>3. \A b \in Cids : Covered(db', world[b], b)
  <2>1. CASE db' = SetArchives(db, c, Mark(ArchivesOf(c), n, "installed"))
    BY <1>1, <1>2, <2>1, ArchiveMarkedCovered DEF ItemStatuses
  <2>2. CASE proc.cmd.on # proc.ok /\ db' = SetArchives(db, c, Unlist(ArchivesOf(c), n))
    <3>1. n \notin world[c].archives
      BY <1>1, <1>2, <2>2 DEF ArchiveHere, RecordArchive
    <3> QED
      BY <1>1, <1>2, <2>2, <3>1, ArchiveMarkedCovered
  <2> QED
    BY <2>1, <2>2 DEF RecordArchive
<1> QED
  BY <1>1, <1>3, EndAhead

\* Whatever else of an entry is written.
LEMMA OtherFieldsCovered ==
  ASSUME TypeInv, NEW c \in Cids, container_exists(db, c), NEW x,
         Says(db, db', c, x), \A b \in Cids : Covered(db, world[b], b),
         \/ \E on \in BOOLEAN : x = [Entry(db, c) EXCEPT !.multiarch = on]
         \/ \E on \in BOOLEAN : x = [Entry(db, c) EXCEPT !.freeze = on]
         \/ \E m \in Seq(Mounts) : x = [Entry(db, c) EXCEPT !.mounts = m]
  PROVE  \A b \in Cids : Covered(db', world[b], b)
<1>1. Entry(db, c) \in Entries
  BY EntrySays DEF TypeInv
<1>2. x.apps = Entry(db, c).apps /\ x.archives = Entry(db, c).archives
  BY <1>1 DEF Entries
<1>3. Says(db, db', c, x) /\ \A b \in Cids : Covered(db, world[b], b)
  OBVIOUS
<1> QED
  BY <1>2, <1>3, ListsStayCovered

LEMMA OthersAhead ==
  ASSUME TypeInv, Ahead(db, world, proc),
         CloseSession \/ Update \/ RecordMultiarch \/ ConfigureBindMount \/ ConfigureFreeze
  PROVE  Ahead(db', world', proc')
<1> DEFINE c == proc.cid
<1>1. c \in Cids /\ container_exists(db, c) /\ world' = world /\ End /\ proc.cmd.on \in BOOLEAN
  <2>1. proc.at \in {"next", "work", "record", "checked"} /\ world' = world /\ End
    BY DEF CloseSession, Update, RecordMultiarch, ConfigureBindMount, ConfigureFreeze
  <2> QED
    BY <2>1, AtWork, CommandParts
<1>2. \A b \in Cids : Covered(db, world[b], b)
  BY DEF Ahead
<1>3. CASE db' = db
  BY <1>1, <1>2, <1>3, EndAhead
<1>4. CASE \E bad : db' = Ended(db, c, bad)
  BY <1>1, <1>2, <1>4, EndedIsTried, SessionCovered, EndAhead
<1>5. CASE RecordMultiarch
  <2> DEFINE x == [Entry(db, c) EXCEPT !.multiarch = proc.cmd.on]
  <2>1. Says(db, db', c, x)
    BY <1>1, <1>5, MultiarchSetSays DEF RecordMultiarch, TypeInv
  <2> QED
    BY <1>1, <1>2, <2>1, OtherFieldsCovered, EndAhead
<1>6. CASE ConfigureFreeze /\ db' # db
  <2> DEFINE x == [Entry(db, c) EXCEPT !.freeze = proc.cmd.on]
  <2>1. Says(db, db', c, x)
    BY <1>1, <1>6, FreezeSetSays DEF ConfigureFreeze, TypeInv
  <2> QED
    BY <1>1, <1>2, <2>1, OtherFieldsCovered, EndAhead
<1>7. CASE ConfigureBindMount /\ db' # db
  <2>1. PICK m \in Seq(Mounts) : Says(db, db', c, [Entry(db, c) EXCEPT !.mounts = m])
    BY <1>7, BindMountSays
  <2> QED
    BY <1>1, <1>2, <2>1, OtherFieldsCovered, EndAhead
<1> QED
  BY <1>3, <1>4, <1>5, <1>6, <1>7 DEF CloseSession, Update

LEMMA MultiarchAhead ==
  ASSUME TypeInv, Ahead(db, world, proc), ConfigureMultiarch \/ WorkMultiarch
  PROVE  Ahead(db', world', proc')
<1> DEFINE c == proc.cid
           w == [world[c] EXCEPT !.foreign = TRUE]
<1>1. c \in Cids /\ container_exists(db, c) /\ world[c] \in Worlds /\ proc.cmd.op = "multiarch"
  BY AtWork DEF ConfigureMultiarch, WorkMultiarch, Op
<1>2. \A b \in Cids : Covered(db, world[b], b)
  BY DEF Ahead
<1>3. CASE ConfigureMultiarch
  <2>1. db' = db /\ world' = world /\ (End \/ Goto("open"))
    BY <1>3 DEF ConfigureMultiarch
  <2>2. CASE Goto("open")
    <3>1. proc'.at = "open" /\ proc'.cid = c /\ proc'.cmd = proc.cmd
      BY <2>2, ProcMoves DEF Labels
    <3> QED
      BY <1>1, <1>2, <2>1, <3>1 DEF Ahead, BuildHere, PackageHere, ArchiveHere, Building
  <2> QED
    BY <1>2, <2>1, <2>2, EndAhead
<1>4. CASE WorkMultiarch
  <2>1. \A b \in Cids : Covered(db', world[b], b)
    <3>1. PICK bad : db' = Ended(db, c, bad)
      BY <1>4 DEF WorkMultiarch
    <3> QED
      BY <1>1, <1>2, <3>1, EndedIsTried, SessionCovered
  <2>2. /\ w \in Worlds /\ w.root = world[c].root /\ w.archives = world[c].archives
        /\ w.pkgs = world[c].pkgs
    BY <1>1 DEF Worlds
  <2>3. world' = [world EXCEPT ![c] = w] \/ world' = world
    BY <1>1, <1>4 DEF WorkMultiarch, TypeInv
  <2> HIDE DEF w
  <2>4. Covered(db', w, c)
    <3>1. Covered(db', world[c], c)
      BY <1>1, <2>1
    <3> QED
      BY <2>2, <3>1 DEF Covered
  <2>5. \A b \in Cids : Covered(db', world'[b], b)
    BY <1>1, <2>1, <2>2, <2>3, <2>4, WorldCovered
  <2>6. CASE Goto("record")
    <3>1. proc'.at = "record" /\ proc'.cid = c /\ proc'.cmd = proc.cmd
      BY <2>6, ProcMoves DEF Labels
    <3> QED
      BY <1>1, <2>5, <3>1 DEF Ahead, BuildHere, PackageHere, ArchiveHere, Building
  <2> QED
    BY <1>4, <2>5, <2>6, EndAhead DEF WorkMultiarch
<1> QED
  BY <1>3, <1>4

LEMMA DefaultsAhead ==
  ASSUME TypeInv, Ahead(db, world, proc), SetDefault \/ ClearDefault
  PROVE  Ahead(db', world', proc')
<1>1. db'.list = db.list /\ world' = world /\ End
  BY DEF SetDefault, ClearDefault, TypeInv, Databases
<1>2. \A b \in Cids : (container_exists(db', b) <=> container_exists(db, b)) /\ Entry(db', b) = Entry(db, b)
  BY <1>1 DEF container_exists, At, Entry
<1>3. \A b \in Cids : Covered(db', world'[b], b)
  BY <1>1, <1>2 DEF Ahead, Covered
<1> QED
  BY <1>1, <1>3, EndAhead

LEMMA FixContainerAhead ==
  ASSUME TypeInv, Ahead(db, world, proc), FixContainer
  PROVE  Ahead(db', world', proc')
<1>1. world' = world /\ proc.at = "fix"
  BY DEF FixContainer
<1>2. \A b \in Cids : Covered(db, world[b], b)
  BY DEF Ahead
<1>3. CASE End /\ db' = db
  BY <1>1, <1>2, <1>3, EndAhead
<1>4. CASE /\ ~(proc.i > Len(db.list))
           /\ LET c == db.list[proc.i].id
              IN  /\ \E bad : db' \in Tried(db, c, bad)
                  /\ proc' = [proc EXCEPT !.at = "fixapps", !.cid = c, !.j = 1]
  <2> DEFINE c == db.list[proc.i].id
  <2>1. proc.i \in 1..Len(db.list)
    <3>1. proc.i \in Nat /\ proc.i # 0 /\ Len(db.list) \in Nat
      BY <1>1, ProcParts, ListType DEF TypeInv, Formed
    <3> QED
      BY <1>4, <3>1
  <2>2. c \in Cids /\ container_exists(db, c)
    <3>1. db.list[proc.i] \in Entries
      BY <2>1, ListType DEF TypeInv
    <3> QED
      BY <2>1, <3>1, EntryParts, EntrySays DEF TypeInv
  <2>3. PICK bad : db' \in Tried(db, c, bad)
    BY <1>4
  <2>4. proc' = [proc EXCEPT !.at = "fixapps", !.cid = c, !.j = 1]
    BY <1>4
  <2> HIDE DEF c
  <2>5. \A b \in Cids : Covered(db', world[b], b)
    BY <1>2, <2>2, <2>3, SessionCovered
  <2>6. proc'.at = "fixapps"
    BY <2>4 DEF TypeInv, Procs
  <2> QED
    BY <1>1, <2>5, <2>6, FreeHere DEF Free
<1> QED
  BY <1>3, <1>4 DEF FixContainer, Crash

\* Stopping after a package was unlisted.
LEMMA StoppedAfter ==
  ASSUME NEW d \in Databases, Sound(d), NEW c \in Cids, container_exists(d, c), NEW w,
         \A b \in Cids : Covered(d, w[b], b), NEW bad, NEW e \in Tried(d, c, bad)
  PROVE  \A b \in Cids : Covered(e, w[b], b)
<1>1. PICK s \in Statuses : Ended(d, c, bad) = SetStatus(d, c, s)
  BY EndedSays
<1>2. CASE e = SetStatus(d, c, s)
  <2> DEFINE x == [Entry(d, c) EXCEPT !.status = s]
  <2>1. Says(d, e, c, x) /\ Entry(d, c) \in Entries
    BY <1>2, StatusSetSays, EntrySays
  <2>2. x.apps = Entry(d, c).apps /\ x.archives = Entry(d, c).archives
    BY <2>1 DEF Entries
  <2> HIDE DEF x
  <2> QED
    BY <2>1, <2>2, ListsStayCovered
<1> QED
  BY <1>1, <1>2, EndedSays

LEMMA FixAppAhead ==
  ASSUME TypeInv, Ahead(db, world, proc), Fine(upset'), FixApp
  PROVE  Ahead(db', world', proc')
<1> DEFINE c == proc.cid
<1>1. proc.at = "fixapps" /\ c \in Cids /\ container_exists(db, c) /\ world[c] \in Worlds
  BY AtWork DEF FixApp
<1>2. \A b \in Cids : Covered(db, world[b], b)
  BY DEF Ahead
<1>3. proc'.at \in Free
  BY <1>1 DEF FixApp, TypeInv, Procs, Free
<1>4. CASE UNCHANGED <<db, world>>
  BY <1>3, <1>4, QuietAhead
<1>5. CASE ~(proc.j > Len(Apps(c))) /\ ~UNCHANGED <<db, world>>
  <2> DEFINE n == Apps(c)[proc.j].name
             unlisted == SetApps(db, c, Unlist(Apps(c), n))
             v == [world EXCEPT ![c].pkgs = @ \ {n}]
  <2>1. n \in Packages /\ Apps(c) \in Seq(Items(Packages)) /\ NamedOnce(Apps(c))
    BY <1>1, <1>5, FixAt
  <2>2. /\ \E bad : db' = Ended(unlisted, c, bad) \/ db' \in Tried(unlisted, c, bad)
        /\ \/ world' = v
           \/ world' = world /\ LeftBehind(n \in world[c].pkgs) \subseteq upset'
    BY <1>5 DEF FixApp
  <2> HIDE DEF n
  <2> DEFINE t == Unlist(Apps(c), n)
  <2>3. /\ t \in Seq(Items(Packages)) /\ NamedOnce(t)
        /\ \A m \in Packages \ {n} : ItemStatus(t, m) = ItemStatus(Apps(c), m)
        /\ ItemStatus(t, n) = "none"
    BY <2>1, UnlistSays
  <2> HIDE DEF t
  <2>4. /\ world'[c].root = world[c].root /\ world'[c].archives = world[c].archives
        /\ world'[c].pkgs = world[c].pkgs \ {n}
        /\ \A b \in Cids \ {c} : world'[b] = world[b]
    <3>1. CASE world' = v
      BY <1>1, <3>1 DEF Worlds, TypeInv
    <3>2. CASE world' = world /\ LeftBehind(n \in world[c].pkgs) \subseteq upset'
      <4>1. n \notin world[c].pkgs
        BY <3>2 DEF LeftBehind, Fine
      <4> QED
        BY <3>2, <4>1
    <3> QED
      BY <2>2, <3>1, <3>2
  <2>5. /\ container_exists(unlisted, c) /\ Entry(unlisted, c).apps = t
        /\ Entry(unlisted, c).archives = Entry(db, c).archives
        /\ unlisted \in Databases /\ Sound(unlisted)
        /\ Covered(unlisted, world'[c], c) => \A b \in Cids : Covered(unlisted, world'[b], b)
    BY <1>1, <1>2, <2>3, <2>4, AppsWritten DEF t
  <2>6. Covered(unlisted, world'[c], c)
    <3>1. world[c].pkgs \subseteq Packages /\ Covered(db, world[c], c)
      BY <1>1, <1>2, WorldParts
    <3> HIDE DEF unlisted
    <3> QED
      BY <1>1, <2>3, <2>4, <2>5, <3>1 DEF Covered, Apps
  <2> HIDE DEF unlisted
  <2>7. \A b \in Cids : Covered(db', world'[b], b)
    <3>1. PICK bad : db' \in Tried(unlisted, c, bad)
      BY <2>2, EndedIsTried
    <3> QED
      BY <1>1, <2>5, <2>6, <3>1, StoppedAfter
  <2> QED
    BY <1>3, <2>7, FreeHere
<1> QED
  BY <1>4, <1>5 DEF FixApp

LEMMA FixArchiveAhead ==
  ASSUME TypeInv, Ahead(db, world, proc), Fine(upset'), FixArchive
  PROVE  Ahead(db', world', proc')
<1> DEFINE c == proc.cid
<1>1. /\ proc.at = "fixarchives" /\ c \in Cids /\ container_exists(db, c) /\ world' = world
  BY AtWork DEF FixArchive
<1>2. \A b \in Cids : Covered(db, world[b], b)
  BY DEF Ahead
<1>3. proc'.at \in Free
  BY <1>1 DEF FixArchive, TypeInv, Procs, Free
<1>4. CASE db' = db
  BY <1>1, <1>3, <1>4, QuietAhead
<1>5. CASE ~(proc.j > Len(ArchivesOf(c))) /\ db' # db
  <2> DEFINE n == ArchivesOf(c)[proc.j].name
  <2>1. n \in Archives
    BY <1>1, <1>5, FixAt
  <2>2. /\ db' = SetArchives(db, c, Unlist(ArchivesOf(c), n))
        /\ upset' = LeftBehind(n \in world[c].archives)
    BY <1>5 DEF FixArchive
  <2> HIDE DEF n
  <2>3. n \notin world[c].archives
    BY <2>2 DEF LeftBehind, Fine
  <2>4. \A b \in Cids : Covered(db', world[b], b)
    BY <1>1, <1>2, <2>1, <2>2, <2>3, ArchiveMarkedCovered
  <2> QED
    BY <1>1, <1>3, <2>4, FreeHere
<1> QED
  BY <1>4, <1>5 DEF FixArchive

LEMMA UpsetGrows == ASSUME TypeInv, Next PROVE upset \subseteq upset'
<1>1. ASSUME NEW cmd \in Commands, Give(cmd) PROVE upset \subseteq upset'
  BY <1>1 DEF Give
<1>2. Kill \/ Finished => upset \subseteq upset'
  BY DEF Kill, Finished, vars
<1>3. CheckContainerId \/ Create \/ Installing \/ Build \/ Built \/ Undo \/ Complete \/ Drop
      \/ DestroyContainer \/ Destroy => upset \subseteq upset'
  BY DEF CheckContainerId, Create, Installing, Build, Built, Undo, Complete, Drop, DestroyContainer,
         Destroy, Crash
<1>4. Open \/ NextPackage \/ Apt \/ RecordPackage \/ CloseSession \/ Update => upset \subseteq upset'
  BY DEF Open, NextPackage, Apt, RecordPackage, CloseSession, Update, Crash, LeftBehind
<1>5. ConfigureMultiarch \/ WorkMultiarch \/ RecordMultiarch \/ ConfigureArchive \/ WorkArchive
      \/ RecordArchive \/ ConfigureBindMount \/ ConfigureFreeze => upset \subseteq upset'
  BY DEF ConfigureMultiarch, WorkMultiarch, RecordMultiarch, ConfigureArchive, WorkArchive,
         RecordArchive, ConfigureBindMount, ConfigureFreeze, LeftBehind
<1>6. SetDefault \/ ClearDefault \/ Merge \/ FixIntegrity \/ FixContainer \/ FixApp \/ FixArchive
        => upset \subseteq upset'
  BY DEF SetDefault, ClearDefault, Merge, FixIntegrity, FixContainer, FixApp, FixArchive, Crash,
         LeftBehind
<1> QED
  BY <1>1, <1>2, <1>3, <1>4, <1>5, <1>6 DEF Next, CommandStep

LEMMA NextAhead == TypeInv /\ AheadInv /\ [Next]_vars => AheadInv'
<1> SUFFICES ASSUME TypeInv, AheadInv, [Next]_vars, Fine(upset')
             PROVE  Ahead(db', world', proc')
  BY DEF AheadInv
<1>1. CASE UNCHANGED vars
  <2>1. db' = db /\ world' = world /\ proc' = proc /\ upset' = upset
    BY <1>1 DEF vars
  <2> QED
    BY <2>1 DEF AheadInv
<1>2. CASE Next
  <2>1. Ahead(db, world, proc)
    BY <1>2, UpsetGrows DEF AheadInv, Fine
  <2>2. ASSUME NEW cmd \in Commands, Give(cmd) PROVE Ahead(db', world', proc')
    BY <2>1, <2>2, GiveAhead
  <2>3. CASE Kill \/ CheckContainerId \/ FixIntegrity
    BY <2>1, <2>3, StartsAhead
  <2>4. CASE Create \/ Installing \/ Build \/ Built \/ Undo \/ Complete
    BY <2>1, <2>4, CreateAhead, BuildsAhead
  <2>5. CASE Drop \/ DestroyContainer \/ Destroy
    BY <2>1, <2>5, DestroysAhead
  <2>6. CASE Open \/ NextPackage \/ Apt \/ RecordPackage
    BY <2>1, <2>6, OpenAhead, NextPackageAhead, AptAhead, RecordPackageAhead
  <2>7. CASE CloseSession \/ Update \/ RecordMultiarch \/ ConfigureBindMount \/ ConfigureFreeze
    BY <2>1, <2>7, OthersAhead
  <2>8. CASE ConfigureMultiarch \/ WorkMultiarch \/ SetDefault \/ ClearDefault
    BY <2>1, <2>8, MultiarchAhead, DefaultsAhead
  <2>9. CASE ConfigureArchive \/ WorkArchive \/ RecordArchive
    BY <2>1, <2>9, ConfigureArchiveAhead, WorkArchiveAhead, RecordArchiveAhead
  <2>10. CASE Merge
    BY <2>10 DEF Merge, Fine
  <2>11. CASE FixContainer \/ FixApp \/ FixArchive
    BY <2>1, <2>11, FixContainerAhead, FixAppAhead, FixArchiveAhead
  <2>12. CASE Finished
    BY <1>1, <2>12 DEF Finished
  <2> QED
    BY <1>2, <2>2, <2>3, <2>4, <2>5, <2>6, <2>7, <2>8, <2>9, <2>10, <2>11, <2>12
    DEF Next, CommandStep
<1> QED
  BY <1>1, <1>2

LEMMA StartsAllAhead == Init => AheadInv
<1> SUFFICES ASSUME Init PROVE Ahead(db, world, proc)
  BY DEF AheadInv
<1>1. ASSUME NEW c \in Cids PROVE Covered(db, world[c], c)
  <2>1. At(db, c) = 0
    BY DEF Init, At, FirstOf
  <2>2. world[c] = Nothing
    BY DEF Init
  <2> QED
    BY <2>1, <2>2, NothingIs DEF Covered, container_exists
<1>2. proc.at \in Free
  BY DEF Init, Idle, Free
<1> QED
  BY <1>1, <1>2, FreeHere

LEMMA AheadAlways == Spec => []AheadInv
  BY StartsAllAhead, NextAhead, TypeAlways, PTL DEF Spec

\* What is listed is found.
LEMMA AheadSaysSo == ASSUME TypeInv, AheadInv PROVE WriteAhead
<1> SUFFICES ASSUME Fine(upset), NEW c \in Cids
             PROVE  /\ world[c].root # "none" => container_exists(db, c)
                    /\ container_exists(db, c) =>
                         /\ \A p \in world[c].pkgs : ItemAt(Apps(c), p) # 0
                         /\ \A a \in world[c].archives : ItemAt(ArchivesOf(c), a) # 0
                         /\ world[c].root # "none" =>
                              \A x \in 1..Len(Apps(c)) :
                                Apps(c)[x].status = "installed" => Apps(c)[x].name \in world[c].pkgs
  BY DEF WriteAhead, NothingUnlisted, InstalledIsThere, Fine
<1>1. Covered(db, world[c], c)
  BY DEF AheadInv, Ahead
<1>2. \A s, n : ItemStatus(s, n) # "none" => ItemAt(s, n) # 0
  BY DEF ItemStatus
<1>3. ASSUME container_exists(db, c), world[c].root # "none", NEW x \in 1..Len(Apps(c)),
             Apps(c)[x].status = "installed"
      PROVE  Apps(c)[x].name \in world[c].pkgs
  <2>1. Apps(c) \in Seq(Items(Packages)) /\ NamedOnce(Apps(c))
    BY <1>3, ListsOf DEF TypeInv, Apps
  <2>2. Apps(c)[x].name \in Packages
    <3>1. Apps(c)[x] \in Items(Packages)
      BY <2>1
    <3> QED
      BY <3>1 DEF Items
  <2>3. ItemStatus(Apps(c), Apps(c)[x].name) = "installed"
    BY <1>3, <2>1, <2>2, StatusSays
  <2> QED
    BY <1>1, <1>3, <2>2, <2>3 DEF Covered, Apps
<1> QED
  BY <1>1, <1>2, <1>3 DEF Covered, Apps, ArchivesOf

\* A kill at any moment leaves nothing behind that the database does not list:
\* create, install_package, remove_package and the archives write what they are
\* about to do before they do it, and unlist only what is gone.  Nor is a
\* package ever called installed that is not there, as long as what a backend
\* program says is so.
THEOREM NothingIsLeftBehind == Spec => []WriteAhead
  BY TypeAlways, AheadAlways, AheadSaysSo, PTL

-----------------------------------------------------------------------------
(* Consistency: as long as nothing has gone wrong, every container is at   *)
(* rest and is what the database says it is, but for the one that the      *)
(* command works on.                                                       *)

Rest == {"ready", "stopped"}

\* The status of an item when S is what is there.
Should(n, S) == IF n \in S THEN "installed" ELSE "none"

\* The entry x says what w is, leaving out the packages P and the archives A.
Agree(x, w, P, A) ==
  /\ \A n \in Packages \ P : ItemStatus(x.apps, n) = Should(n, w.pkgs)
  /\ \A n \in Archives \ A : ItemStatus(x.archives, n) = Should(n, w.archives)
  /\ x.multiarch => w.foreign

SettledEntry(x, w) == x.status \in Rest /\ w.root = "whole" /\ Agree(x, w, {}, {})

SettledAt(d, w, c) ==
  /\ container_exists(d, c) => SettledEntry(Entry(d, c), w)
  /\ ~container_exists(d, c) => w.root = "none"

\* Labels at which no container is worked on, and those at which one that is
\* complete is.
AtRest == {"idle", "start", "checked", "fix", "fixapps", "fixarchives"}
InWork == {"destroy", "open", "next", "apt", "work", "record"}

BusyPackages(p) ==
  IF p.at \in {"apt", "record"} /\ p.cmd.op \in {"install", "remove"} THEN {p.todo[1]} ELSE {}
BusyArchives(p) ==
  IF p.at \in {"open", "work", "record"} /\ p.cmd.op = "archive" THEN {p.cmd.name} ELSE {}

\* What holds of the container that the command p works on.
Pending(x, w, p) ==
  /\ p.at \in Building \cup InWork => Agree(x, w, BusyPackages(p), BusyArchives(p))
  /\ p.at \in Building => ~x.multiarch
  /\ p.at = "drop" => w.root = "none"
  /\ p.at \in InWork \cup {"complete"} => w.root = "whole"
  /\ p.at = "destroy" => p.was \in Rest
  /\ p.at = "open" \/ (p.at = "record" /\ p.cmd.op \in {"archive", "multiarch"}) => x.status \in Rest
  /\ p.at = "record" /\ p.cmd.op = "multiarch" => w.foreign
  /\ p.at \in {"open", "work"} /\ p.cmd.op = "archive" /\ ~p.cmd.on => p.cmd.name \in w.archives
  /\ p.at = "record" /\ p.cmd.op = "archive" /\ p.cmd.on = p.ok => p.cmd.name \in w.archives

Kempt(d, v, p) ==
  /\ \A b \in Cids : b # p.cid \/ p.at \in AtRest => SettledAt(d, v[b], b)
  /\ p.cid \in Cids => Pending(Entry(d, p.cid), v[p.cid], p)

KemptInv == upset = {} => Kempt(db, world, proc)

LEMMA RestKempt ==
  ASSUME NEW d, NEW v, NEW p, p.at \in AtRest, \A b \in Cids : SettledAt(d, v[b], b)
  PROVE  Kempt(d, v, p)
  BY DEF Kempt, AtRest, Pending, Building, InWork

LEMMA EndKempt ==
  ASSUME End, \A b \in Cids : SettledAt(db', world'[b], b)
  PROVE  Kempt(db', world', proc')
  BY RestKempt DEF End, Idle, AtRest

\* The database is written at c, and the container c is what has changed.
LEMMA WrittenKempt ==
  ASSUME NEW c \in Cids, container_exists(db, c), NEW x, Says(db, db', c, x),
         \A b \in Cids \ {c} : world'[b] = world[b],
         \A b \in Cids \ {c} : SettledAt(db, world[b], b)
  PROVE  /\ SettledEntry(x, world'[c]) => \A b \in Cids : SettledAt(db', world'[b], b)
         /\ proc'.cid = c /\ proc'.at \notin AtRest /\ Pending(x, world'[c], proc')
              => Kempt(db', world', proc')
<1>1. Entry(db', c) = x /\ container_exists(db', c)
  BY DEF Says
<1>2. \A b \in Cids \ {c} : SettledAt(db', world'[b], b)
  BY DEF Says, SettledAt
<1>3. SettledEntry(x, world'[c]) => SettledAt(db', world'[c], c)
  BY <1>1 DEF SettledAt
<1> QED
  BY <1>1, <1>2, <1>3 DEF Kempt

\* The command at work, and the other containers.
LEMMA AtWorkKempt ==
  ASSUME TypeInv, Kempt(db, world, proc),
         proc.at \in Building \cup InWork \cup {"drop", "checked"}
  PROVE  /\ proc.cid \in Cids /\ container_exists(db, proc.cid)
         /\ world[proc.cid] \in Worlds /\ Entry(db, proc.cid) \in Entries
         /\ \A b \in Cids \ {proc.cid} : SettledAt(db, world[b], b)
         /\ Pending(Entry(db, proc.cid), world[proc.cid], proc)
         /\ proc.at = "checked" => SettledEntry(Entry(db, proc.cid), world[proc.cid])
<1>1. proc.at \notin {"idle", "start", "fix"}
  BY DEF Building, InWork
<1> QED
  BY <1>1, AtWork DEF Kempt, AtRest, SettledAt

\* Only the status is written.
LEMMA StatusWritten ==
  ASSUME TypeInv, NEW c \in Cids, container_exists(db, c), NEW s \in Statuses,
         db' = SetStatus(db, c, s)
  PROVE  \E x : /\ Says(db, db', c, x) /\ x.status = s
                /\ \A w, P, A : Agree(x, w, P, A) <=> Agree(Entry(db, c), w, P, A)
                /\ x.multiarch = Entry(db, c).multiarch
<1> DEFINE y == Entry(db, c)
           x == [y EXCEPT !.status = s]
<1>1. Says(db, db', c, x) /\ y \in Entries
  BY StatusSetSays DEF TypeInv
<1> HIDE DEF y
<1>2. /\ x.status = s /\ x.apps = y.apps /\ x.archives = y.archives /\ x.multiarch = y.multiarch
  BY <1>1 DEF Entries
<1> HIDE DEF x
<1>3. \A w, P, A : Agree(x, w, P, A) <=> Agree(y, w, P, A)
  BY <1>2 DEF Agree
<1> QED
  BY <1>1, <1>2, <1>3 DEF y

\* A session that ends in order, or has not begun.
LEMMA QuietlyEnded ==
  ASSUME TypeInv, NEW c \in Cids, container_exists(db, c), NEW bad, bad = {}
  PROVE  /\ Ended(db, c, bad) = SetStatus(db, c, StoppedStatus(db, c))
         /\ StoppedStatus(db, c) \in Statuses /\ StoppedStatus(db, c) \in Rest
         /\ \A e \in Tried(db, c, bad) : e = db \/ e = SetStatus(db, c, StoppedStatus(db, c))
<1> QED
  BY EndedSays, SessionStatuses, StoppedSays DEF TypeInv, Rest

\* A package is marked or unlisted.
LEMMA AppsMarked ==
  ASSUME TypeInv, NEW c \in Cids, container_exists(db, c), NEW n \in Packages, NEW w, NEW A,
         Agree(Entry(db, c), w, {n}, A)
  PROVE  /\ \A st \in ItemStatuses : db' = SetApps(db, c, Mark(Apps(c), n, st)) =>
              \E x : /\ Says(db, db', c, x) /\ x.status = Entry(db, c).status
                     /\ Agree(x, w, {n}, A)
                     /\ st = "installed" /\ n \in w.pkgs => Agree(x, w, {}, A)
         /\ db' = SetApps(db, c, Unlist(Apps(c), n)) =>
              \E x : /\ Says(db, db', c, x) /\ x.status = Entry(db, c).status
                     /\ n \notin w.pkgs => Agree(x, w, {}, A)
<1> DEFINE y == Entry(db, c)
           s == y.apps
<1>1. s \in Seq(Items(Packages)) /\ NamedOnce(s) /\ Apps(c) = s /\ y \in Entries
  BY ListsOf, EntrySays DEF TypeInv, Apps
<1>2. ASSUME NEW t \in Seq(Items(Packages)), NamedOnce(t), db' = SetApps(db, c, t),
             \A m \in Packages \ {n} : ItemStatus(t, m) = ItemStatus(s, m)
      PROVE  \E x : /\ Says(db, db', c, x) /\ x.status = y.status /\ Agree(x, w, {n}, A)
                    /\ ItemStatus(t, n) = Should(n, w.pkgs) => Agree(x, w, {}, A)
  <2> DEFINE x == [y EXCEPT !.apps = t]
  <2>1. Says(db, db', c, x)
    BY <1>2, AppsSetSays DEF TypeInv
  <2>2. Agree(y, w, {n}, A)
    OBVIOUS
  <2> HIDE DEF y
  <2>3. /\ x.status = y.status /\ x.apps = t /\ x.archives = y.archives /\ x.multiarch = y.multiarch
    BY <1>1 DEF Entries
  <2> HIDE DEF x
  <2>4. Agree(x, w, {n}, A) /\ (ItemStatus(t, n) = Should(n, w.pkgs) => Agree(x, w, {}, A))
    BY <1>2, <2>2, <2>3 DEF Agree
  <2> QED
    BY <2>1, <2>3, <2>4
<1> HIDE DEF s
<1>3. ASSUME NEW st \in ItemStatuses, db' = SetApps(db, c, Mark(Apps(c), n, st))
      PROVE  \E x : /\ Says(db, db', c, x) /\ x.status = y.status /\ Agree(x, w, {n}, A)
                    /\ st = "installed" /\ n \in w.pkgs => Agree(x, w, {}, A)
  <2> DEFINE t == Mark(s, n, st)
  <2>1. /\ t \in Seq(Items(Packages)) /\ NamedOnce(t) /\ ItemStatus(t, n) = st
        /\ \A m \in Packages \ {n} : ItemStatus(t, m) = ItemStatus(s, m)
        /\ db' = SetApps(db, c, t)
    BY <1>1, <1>3, MarkSays
  <2> HIDE DEF t, y
  <2> QED
    BY <1>2, <2>1 DEF Should
<1>4. ASSUME db' = SetApps(db, c, Unlist(Apps(c), n))
      PROVE  \E x : /\ Says(db, db', c, x) /\ x.status = y.status
                    /\ n \notin w.pkgs => Agree(x, w, {}, A)
  <2> DEFINE t == Unlist(s, n)
  <2>1. /\ t \in Seq(Items(Packages)) /\ NamedOnce(t) /\ ItemStatus(t, n) = "none"
        /\ \A m \in Packages \ {n} : ItemStatus(t, m) = ItemStatus(s, m)
        /\ db' = SetApps(db, c, t)
    BY <1>1, <1>4, UnlistSays
  <2> HIDE DEF t, y
  <2> QED
    BY <1>2, <2>1 DEF Should
<1> QED
  BY <1>3, <1>4

\* An archive is marked or unlisted.
LEMMA ArchivesMarked ==
  ASSUME TypeInv, NEW c \in Cids, container_exists(db, c), NEW n \in Archives, NEW w, NEW P,
         Agree(Entry(db, c), w, P, {n})
  PROVE  /\ \A st \in ItemStatuses : db' = SetArchives(db, c, Mark(ArchivesOf(c), n, st)) =>
              \E x : /\ Says(db, db', c, x) /\ x.status = Entry(db, c).status
                     /\ Agree(x, w, P, {n})
                     /\ st = "installed" /\ n \in w.archives => Agree(x, w, P, {})
         /\ db' = SetArchives(db, c, Unlist(ArchivesOf(c), n)) =>
              \E x : /\ Says(db, db', c, x) /\ x.status = Entry(db, c).status
                     /\ n \notin w.archives => Agree(x, w, P, {})
<1> DEFINE y == Entry(db, c)
           s == y.archives
<1>1. s \in Seq(Items(Archives)) /\ NamedOnce(s) /\ ArchivesOf(c) = s /\ y \in Entries
  BY ListsOf, EntrySays DEF TypeInv, ArchivesOf
<1>2. ASSUME NEW t \in Seq(Items(Archives)), NamedOnce(t), db' = SetArchives(db, c, t),
             \A m \in Archives \ {n} : ItemStatus(t, m) = ItemStatus(s, m)
      PROVE  \E x : /\ Says(db, db', c, x) /\ x.status = y.status /\ Agree(x, w, P, {n})
                    /\ ItemStatus(t, n) = Should(n, w.archives) => Agree(x, w, P, {})
  <2> DEFINE x == [y EXCEPT !.archives = t]
  <2>1. Says(db, db', c, x)
    BY <1>2, ArchivesSetSays DEF TypeInv
  <2>2. Agree(y, w, P, {n})
    OBVIOUS
  <2> HIDE DEF y
  <2>3. /\ x.status = y.status /\ x.archives = t /\ x.apps = y.apps /\ x.multiarch = y.multiarch
    BY <1>1 DEF Entries
  <2> HIDE DEF x
  <2>4. Agree(x, w, P, {n}) /\ (ItemStatus(t, n) = Should(n, w.archives) => Agree(x, w, P, {}))
    BY <1>2, <2>2, <2>3 DEF Agree
  <2> QED
    BY <2>1, <2>3, <2>4
<1> HIDE DEF s
<1>3. ASSUME NEW st \in ItemStatuses, db' = SetArchives(db, c, Mark(ArchivesOf(c), n, st))
      PROVE  \E x : /\ Says(db, db', c, x) /\ x.status = y.status /\ Agree(x, w, P, {n})
                    /\ st = "installed" /\ n \in w.archives => Agree(x, w, P, {})
  <2> DEFINE t == Mark(s, n, st)
  <2>1. /\ t \in Seq(Items(Archives)) /\ NamedOnce(t) /\ ItemStatus(t, n) = st
        /\ \A m \in Archives \ {n} : ItemStatus(t, m) = ItemStatus(s, m)
        /\ db' = SetArchives(db, c, t)
    BY <1>1, <1>3, MarkSays
  <2> HIDE DEF t, y
  <2> QED
    BY <1>2, <2>1 DEF Should
<1>4. ASSUME db' = SetArchives(db, c, Unlist(ArchivesOf(c), n))
      PROVE  \E x : /\ Says(db, db', c, x) /\ x.status = y.status
                    /\ n \notin w.archives => Agree(x, w, P, {})
  <2> DEFINE t == Unlist(s, n)
  <2>1. /\ t \in Seq(Items(Archives)) /\ NamedOnce(t) /\ ItemStatus(t, n) = "none"
        /\ \A m \in Archives \ {n} : ItemStatus(t, m) = ItemStatus(s, m)
        /\ db' = SetArchives(db, c, t)
    BY <1>1, <1>4, UnlistSays
  <2> HIDE DEF t, y
  <2> QED
    BY <1>2, <2>1 DEF Should
<1> QED
  BY <1>3, <1>4

LEMMA GiveKempt ==
  ASSUME Kempt(db, world, proc), NEW cmd \in Commands, Give(cmd)
  PROVE  Kempt(db', world', proc')
<1>1. UNCHANGED <<db, world>> /\ proc.at = "idle" /\ proc'.at = "start"
  BY DEF Give, Idle
<1>2. \A b \in Cids : SettledAt(db, world[b], b)
  BY <1>1 DEF Kempt, AtRest
<1> QED
  BY <1>1, <1>2, RestKempt DEF AtRest

LEMMA StartsKempt ==
  ASSUME TypeInv, Kempt(db, world, proc), CheckContainerId \/ FixIntegrity
  PROVE  Kempt(db', world', proc')
<1>1. UNCHANGED <<db, world>> /\ proc.at = "start"
  BY DEF CheckContainerId, FixIntegrity
<1>2. \A b \in Cids : SettledAt(db, world[b], b)
  BY <1>1 DEF Kempt, AtRest
<1>3. CASE End
  BY <1>1, <1>2, <1>3, EndKempt
<1>4. CASE ~End
  <2>1. \/ proc' = [proc EXCEPT !.at = "checked", !.cid = IF @ = None THEN db.default ELSE @]
        \/ proc' = [proc EXCEPT !.at = "fix", !.i = 1]
    BY <1>4 DEF CheckContainerId, FixIntegrity, Crash
  <2>2. proc'.at \in {"checked", "fix"}
    BY <2>1 DEF TypeInv, Procs
  <2> QED
    BY <1>1, <1>2, <2>2, RestKempt DEF AtRest
<1> QED
  BY <1>3, <1>4

LEMMA CreateKempt ==
  ASSUME TypeInv, Ahead(db, world, proc), Kempt(db, world, proc), upset' = {}, Create
  PROVE  Kempt(db', world', proc')
<1> DEFINE c == proc.cid
           new == NewEntry(c, proc.cmd.type)
<1>1. proc.at = "start" /\ world' = world
  BY DEF Create
<1>2. \A b \in Cids : SettledAt(db, world[b], b)
  BY <1>1 DEF Kempt, AtRest
<1>3. CASE End /\ db' = db
  BY <1>1, <1>2, <1>3, EndKempt
<1>4. CASE /\ ~container_exists(db, c) /\ Goto("added")
           /\ db' = add_new_container(db, c, proc.cmd.type)
  <2>1. c \in Cids /\ proc.cmd.type \in {"chroot", "lxc"}
    BY <1>1, CommandParts DEF TypeInv, Formed, Create, Op
  <2>2. /\ \A b \in Cids : container_exists(db', b) <=> container_exists(db, b) \/ b = c
        /\ Entry(db', c) = new
        /\ \A b \in Cids \ {c} : container_exists(db, b) => Entry(db', b) = Entry(db, b)
    BY <1>4, <2>1, AddSays DEF TypeInv
  <2>3. /\ new.apps = <<>> /\ new.archives = <<>> /\ ~new.multiarch
        /\ \A n : ItemStatus(<<>>, n) = "none"
    BY <2>1, NewEntrySays DEF NewEntry
  <2>4. world[c].pkgs = {} /\ world[c].archives = {}
    BY <1>2, <1>4, <2>1 DEF SettledAt, Ahead, Covered
  <2>5. proc'.at = "added" /\ proc'.cid = c
    BY <1>4, ProcMoves DEF Labels
  <2> HIDE DEF new
  <2>6. Pending(new, world[c], proc')
    <3>1. BusyPackages(proc') = {} /\ BusyArchives(proc') = {}
      BY <2>5 DEF BusyPackages, BusyArchives
    <3>2. Agree(new, world[c], {}, {})
      BY <2>3, <2>4 DEF Agree, Should
    <3> QED
      BY <2>3, <2>5, <3>1, <3>2 DEF Pending, InWork
  <2>7. \A b \in Cids \ {c} : SettledAt(db', world[b], b)
    BY <1>2, <2>2 DEF SettledAt
  <2> QED
    BY <1>1, <2>1, <2>2, <2>5, <2>6, <2>7 DEF Kempt, AtRest
<1> QED
  BY <1>3, <1>4 DEF Create, Crash

\* Only what the command does changes, and perhaps the container.
LEMMA MovesKempt ==
  ASSUME Kempt(db, world, proc), db' = db, proc.at \notin AtRest, proc'.at \notin AtRest,
         proc'.cid = proc.cid, \A b \in Cids \ {proc.cid} : world'[b] = world[b],
         proc.cid \in Cids, Pending(Entry(db, proc.cid), world'[proc.cid], proc')
  PROVE  Kempt(db', world', proc')
  BY DEF Kempt

LEMMA BuildsKempt ==
  ASSUME TypeInv, Ahead(db, world, proc), Kempt(db, world, proc), upset' = {},
         Installing \/ Build \/ Built \/ Undo \/ Complete
  PROVE  Kempt(db', world', proc')
<1> DEFINE c == proc.cid
           y == Entry(db, c)
<1>1. /\ proc.at \in Building
      /\ c \in Cids /\ container_exists(db, c) /\ world[c] \in Worlds
      /\ \A b \in Cids \ {c} : SettledAt(db, world[b], b)
      /\ Pending(y, world[c], proc)
  <2>1. proc.at \in Building
    BY DEF Installing, Build, Built, Undo, Complete, Building
  <2> QED
    BY <2>1, AtWorkKempt
<1>2. Agree(y, world[c], {}, {}) /\ ~y.multiarch
  BY <1>1 DEF Pending, BusyPackages, BusyArchives, Building
<1>3. ASSUME NEW l \in Labels, Goto(l)
      PROVE  proc'.at = l /\ proc'.cid = c /\ proc'.cmd = proc.cmd
  BY <1>3, ProcMoves
<1>4. ASSUME proc'.at \in Building \ {"complete"}, NEW x, NEW w, Agree(x, w, {}, {}), ~x.multiarch
      PROVE  Pending(x, w, proc')
  BY <1>4 DEF Pending, BusyPackages, BusyArchives, Building, InWork
<1>5. proc.at \notin AtRest
  BY <1>1 DEF Building, AtRest
<1>6. CASE Installing
  <2>1. world' = world /\ db' = SetStatus(db, c, "installing") /\ Goto("build")
    BY <1>6 DEF Installing
  <2>2. PICK x : /\ Says(db, db', c, x)
                 /\ Agree(x, world[c], {}, {}) <=> Agree(y, world[c], {}, {})
                 /\ x.multiarch = y.multiarch
    BY <1>1, <2>1, StatusWritten DEF Statuses
  <2>3. proc'.at = "build" /\ proc'.cid = c
    BY <1>3, <2>1 DEF Labels
  <2>4. Pending(x, world'[c], proc')
    BY <1>2, <1>4, <2>1, <2>2, <2>3 DEF Building
  <2> QED
    BY <1>1, <2>1, <2>2, <2>3, <2>4, WrittenKempt DEF AtRest
<1>7. CASE Build \/ Built
  <2>1. /\ db' = db
        /\ \/ /\ Build /\ world' = [world EXCEPT ![c].root = "partial"] /\ Goto("building")
           \/ /\ Build /\ world' = world /\ Goto("drop")
           \/ /\ world' = [world EXCEPT ![c].root = "whole", ![c].foreign = proc.cmd.on]
              /\ Goto("complete")
           \/ world' = world /\ Goto("undo")
    BY <1>7 DEF Build, Built
  <2>2. /\ \A b \in Cids \ {c} : world'[b] = world[b]
        /\ world'[c].pkgs = world[c].pkgs /\ world'[c].archives = world[c].archives
        /\ Goto("complete") => world'[c].root = "whole"
        /\ Goto("drop") => world' = world
    <3>1. Goto("building") \/ Goto("complete") \/ Goto("undo") => ~Goto("drop")
      BY <1>3 DEF Labels
    <3>2. Goto("building") \/ Goto("drop") \/ Goto("undo") => ~Goto("complete")
      BY <1>3 DEF Labels
    <3> QED
      BY <1>1, <2>1, <3>1, <3>2 DEF Worlds, TypeInv
  <2>3. Agree(y, world'[c], {}, {})
    BY <1>2, <2>2 DEF Agree
  <2>4. proc'.cid = c /\ proc'.at \in {"building", "drop", "complete", "undo"}
    BY <1>3, <2>1 DEF Labels
  <2>5. Pending(y, world'[c], proc')
    <3>1. CASE proc'.at \in {"building", "undo"}
      BY <1>2, <1>4, <2>3, <3>1 DEF Building
    <3>2. CASE Goto("complete")
      <4>1. proc'.at = "complete" /\ world'[c].root = "whole"
        BY <1>3, <2>2, <3>2 DEF Labels
      <4> QED
        BY <1>2, <2>3, <4>1 DEF Pending, BusyPackages, BusyArchives, Building, InWork
    <3>3. CASE Goto("drop")
      <4>1. proc'.at = "drop" /\ world' = world /\ proc.at = "build"
        BY <1>3, <2>1, <2>2, <3>3 DEF Labels, Build
      <4>2. world[c].root = "none"
        BY <1>1, <4>1 DEF Ahead, BuildHere
      <4> QED
        BY <4>1, <4>2 DEF Pending, Building, InWork
    <3> QED
      BY <1>3, <2>1, <3>1, <3>2, <3>3 DEF Labels
  <2> HIDE DEF y
  <2> QED
    BY <1>1, <1>5, <2>1, <2>2, <2>4, <2>5, MovesKempt DEF AtRest, y
<1>8. CASE Undo
  <2>1. db' = db /\ world' = [world EXCEPT ![c] = Nothing] /\ Goto("drop")
    BY <1>8 DEF Undo
  <2>2. Nothing \in Worlds
    BY <1>1, WorldParts
  <2>3. world'[c].root = "none" /\ \A b \in Cids \ {c} : world'[b] = world[b]
    BY <1>1, <2>1, <2>2, WorldAt, NothingIs
  <2>4. proc'.at = "drop" /\ proc'.cid = c
    BY <1>3, <2>1 DEF Labels
  <2>5. Pending(y, world'[c], proc')
    BY <2>3, <2>4 DEF Pending, Building, InWork
  <2> HIDE DEF y
  <2> QED
    BY <1>1, <1>5, <2>1, <2>3, <2>4, <2>5, MovesKempt DEF AtRest, y
<1>9. CASE Complete
  <2>1. world' = world /\ db' = SetStatus(db, c, "ready") /\ End /\ proc.at = "complete"
    BY <1>9 DEF Complete
  <2>2. PICK x : /\ Says(db, db', c, x) /\ x.status = "ready"
                 /\ Agree(x, world[c], {}, {}) <=> Agree(y, world[c], {}, {})
    BY <1>1, <2>1, StatusWritten DEF Statuses
  <2>3. SettledEntry(x, world'[c])
    BY <1>1, <1>2, <2>1, <2>2 DEF SettledEntry, Pending, Rest
  <2> QED
    BY <1>1, <2>1, <2>2, <2>3, WrittenKempt, EndKempt
<1> QED
  BY <1>6, <1>7, <1>8, <1>9

LEMMA DestroysKempt ==
  ASSUME TypeInv, Kempt(db, world, proc), upset' = {}, DestroyContainer \/ Destroy \/ Drop
  PROVE  Kempt(db', world', proc')
<1> DEFINE c == proc.cid
           y == Entry(db, c)
<1>1. /\ c \in Cids /\ container_exists(db, c) /\ world[c] \in Worlds
      /\ \A b \in Cids \ {c} : SettledAt(db, world[b], b)
      /\ Pending(y, world[c], proc)
      /\ proc.at = "checked" => SettledEntry(y, world[c])
  <2>1. proc.at \in {"checked", "destroy", "drop"}
    BY DEF DestroyContainer, Destroy, Drop
  <2> QED
    BY <2>1, AtWorkKempt DEF InWork
<1>2. ASSUME NEW s \in Statuses, db' = SetStatus(db, c, s)
      PROVE  \E x : /\ Says(db, db', c, x) /\ x.status = s
                    /\ \A w, P, A : Agree(x, w, P, A) <=> Agree(y, w, P, A)
  BY <1>1, <1>2, StatusWritten
<1>3. CASE DestroyContainer
  <2>1. /\ world' = world /\ db' = SetStatus(db, c, "removing") /\ SettledEntry(y, world[c])
        /\ proc' = [proc EXCEPT !.at = "destroy", !.was = y.status]
    BY <1>1, <1>3 DEF DestroyContainer
  <2>2. PICK x : /\ Says(db, db', c, x)
                 /\ Agree(x, world[c], {}, {}) <=> Agree(y, world[c], {}, {})
    BY <1>2, <2>1 DEF Statuses
  <2>3. proc'.at = "destroy" /\ proc'.cid = c /\ proc'.was \in Rest
    BY <2>1 DEF TypeInv, Procs, SettledEntry
  <2>4. Pending(x, world'[c], proc')
    BY <2>1, <2>2, <2>3 DEF Pending, SettledEntry, BusyPackages, BusyArchives, Building
  <2> QED
    BY <1>1, <2>1, <2>2, <2>3, <2>4, WrittenKempt DEF AtRest
<1>4. CASE Destroy /\ world' = [world EXCEPT ![c] = Nothing] /\ Goto("drop")
                   /\ db' = SetStatus(db, c, "removed")
  <2>1. PICK x : Says(db, db', c, x)
    BY <1>2, <1>4 DEF Statuses
  <2>2. Nothing \in Worlds
    BY <1>1, WorldParts
  <2>3. world'[c].root = "none" /\ \A b \in Cids \ {c} : world'[b] = world[b]
    BY <1>1, <1>4, <2>2, WorldAt, NothingIs
  <2>4. proc'.at = "drop" /\ proc'.cid = c
    BY <1>4, ProcMoves DEF Labels
  <2>5. Pending(x, world'[c], proc')
    BY <2>3, <2>4 DEF Pending, Building, InWork
  <2> QED
    BY <1>1, <2>1, <2>3, <2>4, <2>5, WrittenKempt DEF AtRest
<1>5. CASE Destroy /\ world' = world /\ End /\ db' = SetStatus(db, c, proc.was)
  <2>1. /\ proc.was \in Rest /\ world[c].root = "whole" /\ Agree(y, world[c], {}, {})
    BY <1>1, <1>5 DEF Destroy, Pending, InWork, BusyPackages, BusyArchives
  <2>2. PICK x : /\ Says(db, db', c, x) /\ x.status = proc.was
                 /\ Agree(x, world[c], {}, {}) <=> Agree(y, world[c], {}, {})
    BY <1>2, <1>5, <2>1 DEF Statuses, Rest
  <2>3. SettledEntry(x, world'[c])
    BY <1>5, <2>1, <2>2 DEF SettledEntry
  <2> QED
    BY <1>1, <1>5, <2>2, <2>3, WrittenKempt, EndKempt
<1>6. CASE Drop /\ End /\ db' = delete_container(db, c) /\ world' = world /\ db.default # None
  <2>1. /\ \A b \in Cids : container_exists(db', b) <=> container_exists(db, b) /\ b # c
        /\ \A b \in Cids \ {c} : container_exists(db, b) => Entry(db', b) = Entry(db, b)
    BY <1>1, <1>6, DeleteSays DEF TypeInv
  <2>2. world[c].root = "none"
    BY <1>1, <1>6 DEF Drop, Pending
  <2>3. ASSUME NEW b \in Cids PROVE SettledAt(db', world'[b], b)
    <3>1. CASE b = c
      BY <1>6, <2>1, <2>2, <3>1 DEF SettledAt
    <3>2. CASE b # c
      BY <1>1, <1>6, <2>1, <3>2 DEF SettledAt
    <3> QED
      BY <3>1, <3>2
  <2> QED
    BY <1>6, <2>3, EndKempt
<1> QED
  BY <1>3, <1>4, <1>5, <1>6 DEF Destroy, Drop, Crash

\* with ContainerRunning: from 'checked', or after a change was announced.
LEMMA OpenKempt ==
  ASSUME TypeInv, Kempt(db, world, proc), upset' = {}, Open
  PROVE  Kempt(db', world', proc')
<1> DEFINE c == proc.cid
           y == Entry(db, c)
           A == IF Op = "archive" THEN {proc.cmd.name} ELSE {}
<1>1. /\ proc.at \in {"checked", "open"} /\ world' = world
      /\ proc.at = "checked" => Op \in {"install", "remove", "update"}
      /\ proc.at = "open" => Op \in {"multiarch", "archive"}
  BY DEF Open, TypeInv, Formed, RightOp, Op
<1>2. /\ c \in Cids /\ container_exists(db, c)
      /\ \A b \in Cids \ {c} : SettledAt(db, world[b], b)
      /\ Pending(y, world[c], proc)
      /\ proc.at = "checked" => SettledEntry(y, world[c])
  BY <1>1, AtWorkKempt DEF InWork
<1>3. /\ y.status \in Rest /\ world[c].root = "whole" /\ Agree(y, world[c], {}, A)
      /\ Op = "archive" /\ ~proc.cmd.on => proc.cmd.name \in world[c].archives
  <2>1. CASE proc.at = "checked"
    BY <1>1, <1>2, <2>1 DEF SettledEntry
  <2>2. CASE proc.at = "open"
    BY <1>1, <1>2, <2>2 DEF Pending, InWork, BusyPackages, BusyArchives, Op
  <2> QED
    BY <1>1, <2>1, <2>2
<1>4. CASE /\ db' = SetStatus(db, c, "busy")
           /\ Goto(IF Op \in {"install", "remove"} THEN "next" ELSE "work")
  <2>1. PICK x : /\ Says(db, db', c, x)
                 /\ Agree(x, world[c], {}, A) <=> Agree(y, world[c], {}, A)
    BY <1>2, <1>4, StatusWritten DEF Statuses
  <2>2. /\ proc'.at = (IF Op \in {"install", "remove"} THEN "next" ELSE "work")
        /\ proc'.cid = c /\ proc'.cmd = proc.cmd
    BY <1>4, ProcMoves DEF Labels
  <2>3. BusyPackages(proc') = {} /\ BusyArchives(proc') = A
    BY <2>2 DEF BusyPackages, BusyArchives, Op
  <2> HIDE DEF A
  <2>4. Pending(x, world'[c], proc')
    BY <1>1, <1>3, <2>1, <2>2, <2>3 DEF Pending, Building, Op
  <2> QED
    BY <1>1, <1>2, <2>1, <2>2, <2>4, WrittenKempt DEF AtRest
<1>a. ASSUME NEW bad \in Unrests(c), db' \in Tried(db, c, bad), bad = {}
      PROVE  \E x : /\ Says(db, db', c, x) /\ x.status \in Rest
                    /\ \A w, P, B : Agree(x, w, P, B) <=> Agree(y, w, P, B)
  <2>1. CASE db' = db
    BY <1>2, <1>3, <2>1 DEF Says, TypeInv
  <2>2. CASE db' = SetStatus(db, c, StoppedStatus(db, c))
    <3>1. StoppedStatus(db, c) \in Statuses /\ StoppedStatus(db, c) \in Rest
      BY <1>2, <1>a, QuietlyEnded
    <3> QED
      BY <1>2, <2>2, <3>1, StatusWritten
  <2> QED
    BY <1>2, <1>a, <2>1, <2>2, QuietlyEnded
<1>5. CASE /\ \E bad \in Unrests(c) : db' \in Tried(db, c, bad) /\ bad = {}
           /\ Op = "archive" /\ proc.at = "open"
           /\ proc' = [proc EXCEPT !.at = "record", !.ok = FALSE]
  <2>1. proc'.at = "record" /\ proc'.cid = c /\ proc'.cmd = proc.cmd /\ proc'.ok = FALSE
    BY <1>5 DEF TypeInv, Procs
  <2>2. BusyPackages(proc') = {} /\ BusyArchives(proc') = A
    BY <1>5, <2>1 DEF BusyPackages, BusyArchives, Op
  <2>3. proc.cmd.on \in BOOLEAN
    BY <1>5, CommandParts DEF TypeInv, Formed
  <2>5. PICK x : /\ Says(db, db', c, x) /\ x.status \in Rest
                 /\ \A w, P, B : Agree(x, w, P, B) <=> Agree(y, w, P, B)
    BY <1>a, <1>5
  <2> HIDE DEF A, y
  <2>4. Pending(x, world'[c], proc')
    BY <1>1, <1>3, <1>5, <2>1, <2>2, <2>3, <2>5 DEF Pending, Building, Op
  <2> QED
    BY <1>1, <1>2, <2>1, <2>4, <2>5, WrittenKempt DEF AtRest
<1>6. CASE /\ \E bad \in Unrests(c) : db' \in Tried(db, c, bad) /\ bad = {}
           /\ End /\ Op # "archive"
  <2>1. PICK x : /\ Says(db, db', c, x) /\ x.status \in Rest
                 /\ \A w, P, B : Agree(x, w, P, B) <=> Agree(y, w, P, B)
    BY <1>a, <1>6
  <2>2. SettledEntry(x, world'[c])
    BY <1>1, <1>3, <1>6, <2>1 DEF SettledEntry
  <2> QED
    BY <1>1, <1>2, <1>6, <2>1, <2>2, WrittenKempt, EndKempt
<1> QED
  <2>1. ASSUME NEW bad, upset' = upset \cup bad \cup (IF Op \in {"install", "remove"}
                                                       THEN {"traceback"} ELSE {})
        PROVE  bad = {} /\ Op \notin {"install", "remove"}
    BY <2>1
  <2> QED
    BY <1>1, <1>4, <1>5, <1>6, <2>1 DEF Open, End

\* A package on its way.
LEMMA PackageAtWork ==
  ASSUME TypeInv, Kempt(db, world, proc),
         \/ proc.at \in {"next", "apt"}
         \/ proc.at = "record" /\ Op \in {"install", "remove"}
  PROVE  /\ proc.cid \in Cids /\ container_exists(db, proc.cid) /\ world[proc.cid] \in Worlds
         /\ \A b \in Cids \ {proc.cid} : SettledAt(db, world[b], b)
         /\ Op \in {"install", "remove"} /\ proc.ok \in BOOLEAN
         /\ proc.at = "next" => Agree(Entry(db, proc.cid), world[proc.cid], {}, {})
         /\ Agree(Entry(db, proc.cid), world[proc.cid], {Pkg}, {})
         /\ world[proc.cid].root = "whole"
         /\ proc.todo # <<>> => Pkg \in Packages
<1> DEFINE y == Entry(db, proc.cid)
           w == world[proc.cid]
<1>1. /\ proc.cid \in Cids /\ container_exists(db, proc.cid) /\ w \in Worlds
      /\ \A b \in Cids \ {proc.cid} : SettledAt(db, world[b], b)
      /\ Pending(y, w, proc)
  BY AtWorkKempt DEF InWork
<1>2. Op \in {"install", "remove"}
  BY DEF TypeInv, Formed, RightOp, Op
<1>3. Agree(y, w, BusyPackages(proc), BusyArchives(proc)) /\ w.root = "whole"
  BY <1>1 DEF Pending, InWork
<1>4. BusyArchives(proc) = {} /\ BusyPackages(proc) = IF proc.at = "next" THEN {} ELSE {Pkg}
  BY <1>2 DEF BusyPackages, BusyArchives, Op, Pkg
<1>5. Agree(y, w, {}, {}) => Agree(y, w, {Pkg}, {})
  BY DEF Agree
<1>6. proc.ok \in BOOLEAN /\ (proc.todo # <<>> => Pkg \in Packages)
  BY ProcParts DEF TypeInv, Pkg
<1> QED
  BY <1>1, <1>2, <1>3, <1>4, <1>5, <1>6

LEMMA NextPackageKempt ==
  ASSUME TypeInv, Kempt(db, world, proc), NextPackage
  PROVE  Kempt(db', world', proc')
<1> DEFINE c == proc.cid
           y == Entry(db, c)
<1>1. /\ c \in Cids /\ container_exists(db, c) /\ world' = world /\ proc.at = "next"
      /\ \A b \in Cids \ {c} : SettledAt(db, world[b], b)
      /\ Op \in {"install", "remove"} /\ Pkg \in Packages
      /\ Agree(y, world[c], {}, {}) /\ Agree(y, world[c], {Pkg}, {}) /\ world[c].root = "whole"
  BY PackageAtWork DEF NextPackage
<1>2. CASE proc' = Done /\ db' = db
  <2>1. proc'.at = "next" /\ proc'.cid = c
    BY <1>2 DEF Done, TypeInv, Procs
  <2>2. Pending(y, world'[c], proc')
    BY <1>1, <2>1 DEF Pending, BusyPackages, BusyArchives, Building
  <2> HIDE DEF y
  <2> QED
    BY <1>1, <1>2, <2>1, <2>2, MovesKempt DEF AtRest, y
<1>3. CASE /\ db' = SetApps(db, c, Marked(Apps(c), Pkg))
           /\ proc' = [proc EXCEPT !.at = "apt", !.was = ItemStatus(Apps(c), Pkg)]
  <2> DEFINE st == IF Op = "install" THEN "installing" ELSE "removing"
  <2>1. st \in ItemStatuses /\ db' = SetApps(db, c, Mark(Apps(c), Pkg, st))
    BY <1>3 DEF Marked, ItemStatuses
  <2>2. PICK x : Says(db, db', c, x) /\ Agree(x, world[c], {Pkg}, {})
    BY <1>1, <2>1, AppsMarked
  <2>3. /\ proc'.at = "apt" /\ proc'.cid = c /\ proc'.cmd = proc.cmd /\ proc'.todo = proc.todo
    BY <1>3 DEF TypeInv, Procs
  <2>4. BusyPackages(proc') = {Pkg} /\ BusyArchives(proc') = {}
    BY <1>1, <2>3 DEF BusyPackages, BusyArchives, Op, Pkg
  <2>5. Pending(x, world'[c], proc')
    BY <1>1, <2>2, <2>3, <2>4 DEF Pending, Building
  <2> QED
    BY <1>1, <2>2, <2>3, <2>5, WrittenKempt DEF AtRest
<1> QED
  BY <1>2, <1>3 DEF NextPackage

LEMMA AptKempt ==
  ASSUME TypeInv, Kempt(db, world, proc), upset' = {}, Apt
  PROVE  Kempt(db', world', proc')
<1> DEFINE c == proc.cid
           y == Entry(db, c)
           after == IF Op = "install" THEN world[c].pkgs \cup {Pkg} ELSE world[c].pkgs \ {Pkg}
<1>1. /\ c \in Cids /\ container_exists(db, c) /\ world[c] \in Worlds
      /\ \A b \in Cids \ {c} : SettledAt(db, world[b], b)
      /\ Op \in {"install", "remove"}
      /\ Agree(y, world[c], {Pkg}, {}) /\ world[c].root = "whole"
  BY PackageAtWork DEF Apt
<1>2. /\ world' = world \/ world' = [world EXCEPT ![c].pkgs = after]
      /\ \E b \in BOOLEAN : proc' = [proc EXCEPT !.at = "record", !.ok = b]
  BY DEF Apt
<1>3. /\ \A n \in Packages \ {Pkg} : n \in after <=> n \in world[c].pkgs
  OBVIOUS
<1> HIDE DEF after
<1>4. /\ \A b \in Cids \ {c} : world'[b] = world[b]
      /\ world'[c].root = world[c].root /\ world'[c].foreign = world[c].foreign
      /\ world'[c].archives = world[c].archives
      /\ \A n \in Packages \ {Pkg} : n \in world'[c].pkgs <=> n \in world[c].pkgs
  BY <1>1, <1>2, <1>3 DEF Worlds, TypeInv
<1>5. Agree(y, world'[c], {Pkg}, {})
  BY <1>1, <1>4 DEF Agree, Should
<1>6. PICK x : /\ Says(db, db', c, x)
               /\ Agree(x, world'[c], {Pkg}, {}) <=> Agree(y, world'[c], {Pkg}, {})
  BY <1>1, SessionStatuses, StatusWritten DEF Apt
<1>7. proc'.at = "record" /\ proc'.cid = c /\ proc'.cmd = proc.cmd /\ proc'.todo = proc.todo
  BY <1>2 DEF TypeInv, Procs
<1>8. BusyPackages(proc') = {Pkg} /\ BusyArchives(proc') = {}
  BY <1>1, <1>7 DEF BusyPackages, BusyArchives, Op, Pkg
<1>9. Pending(x, world'[c], proc')
  BY <1>1, <1>4, <1>5, <1>6, <1>7, <1>8 DEF Pending, Building, Op
<1> QED
  BY <1>1, <1>4, <1>6, <1>7, <1>9, WrittenKempt DEF AtRest

LEMMA RecordPackageKempt ==
  ASSUME TypeInv, Ahead(db, world, proc), Kempt(db, world, proc), upset' = {}, RecordPackage
  PROVE  Kempt(db', world', proc')
<1> DEFINE c == proc.cid
           y == Entry(db, c)
<1>1. /\ c \in Cids /\ container_exists(db, c) /\ proc.at = "record" /\ world' = world
      /\ \A b \in Cids \ {c} : SettledAt(db, world[b], b)
      /\ Op \in {"install", "remove"} /\ proc.ok \in BOOLEAN
      /\ Agree(y, world[c], {Pkg}, {}) /\ world[c].root = "whole"
  BY PackageAtWork DEF RecordPackage
<1>2. Pkg \in Packages
  BY PackageAtWork DEF RecordPackage, TypeInv, Formed, Op
<1>3. PackageHere(db, world[c], proc)
  BY <1>1 DEF Ahead
<1>4. Op = "install" /\ ~proc.ok => Pkg \notin world[c].pkgs
  BY DEF RecordPackage, LeftBehind
<1>5. \E x : Says(db, db', c, x) /\ Agree(x, world[c], {}, {})
  <2>1. CASE (Op = "install") = proc.ok
    <3>1. Pkg \in world[c].pkgs
      BY <1>1, <1>3, <2>1 DEF PackageHere, Pkg, Op
    <3>2. db' = SetApps(db, c, Mark(Apps(c), Pkg, "installed"))
      BY <2>1 DEF RecordPackage
    <3> QED
      BY <1>1, <1>2, <3>1, <3>2, AppsMarked DEF ItemStatuses
  <2>2. CASE (Op = "install") # proc.ok
    <3>1. Pkg \notin world[c].pkgs
      BY <1>1, <1>3, <1>4, <2>2 DEF PackageHere, Pkg, Op
    <3>2. db' = SetApps(db, c, Unlist(Apps(c), Pkg))
      BY <2>2 DEF RecordPackage
    <3> QED
      BY <1>1, <1>2, <3>1, <3>2, AppsMarked
  <2> QED
    BY <2>1, <2>2
<1>6. PICK x : Says(db, db', c, x) /\ Agree(x, world[c], {}, {})
  BY <1>5
<1>7. proc'.at = "next" /\ proc'.cid = c
  BY DEF RecordPackage, Done, TypeInv, Procs
<1>8. Pending(x, world'[c], proc')
  BY <1>1, <1>6, <1>7 DEF Pending, BusyPackages, BusyArchives, Building
<1> QED
  BY <1>1, <1>6, <1>7, <1>8, WrittenKempt DEF AtRest

LEMMA ConfigureArchiveKempt ==
  ASSUME TypeInv, Kempt(db, world, proc), upset' = {}, ConfigureArchive
  PROVE  Kempt(db', world', proc')
<1> DEFINE c == proc.cid
           y == Entry(db, c)
           n == proc.cmd.name
<1>1. proc.at = "checked" /\ proc.cmd.op = "archive" /\ world' = world
  BY DEF ConfigureArchive, Op
<1>2. /\ c \in Cids /\ container_exists(db, c)
      /\ \A b \in Cids \ {c} : SettledAt(db, world[b], b)
      /\ SettledEntry(y, world[c])
  BY <1>1, AtWorkKempt
<1>3. n \in Archives /\ proc.cmd.on \in BOOLEAN
  BY <1>1, CommandParts DEF TypeInv, Formed
<1>4. ItemStatus(ArchivesOf(c), n) = Should(n, world[c].archives) /\ Agree(y, world[c], {}, {n})
  BY <1>2, <1>3 DEF SettledEntry, Agree, ArchivesOf
<1>5. CASE End /\ db' = db
  <2>1. \A b \in Cids : SettledAt(db, world[b], b)
    BY <1>2 DEF SettledAt
  <2> QED
    BY <1>1, <1>5, <2>1, EndKempt
<1>6. CASE /\ IF proc.cmd.on THEN TRUE ELSE ItemStatus(ArchivesOf(c), n) = "installed"
           /\ db' = SetArchives(db, c, Mark(ArchivesOf(c), n,
                                            IF proc.cmd.on THEN "installing" ELSE "removing"))
           /\ Goto("open")
  <2> DEFINE st == IF proc.cmd.on THEN "installing" ELSE "removing"
  <2>1. st \in ItemStatuses /\ db' = SetArchives(db, c, Mark(ArchivesOf(c), n, st))
    BY <1>6 DEF ItemStatuses
  <2>2. PICK x : Says(db, db', c, x) /\ x.status = y.status /\ Agree(x, world[c], {}, {n})
    BY <1>2, <1>3, <1>4, <2>1, ArchivesMarked
  <2>3. proc'.at = "open" /\ proc'.cmd = proc.cmd /\ proc'.cid = c
    BY <1>6, ProcMoves DEF Labels
  <2>4. ~proc.cmd.on => n \in world[c].archives
    BY <1>4, <1>6 DEF Should
  <2>5. BusyPackages(proc') = {} /\ BusyArchives(proc') = {n}
    BY <1>1, <2>3 DEF BusyPackages, BusyArchives
  <2>6. Pending(x, world'[c], proc')
    BY <1>1, <1>2, <2>2, <2>3, <2>4, <2>5 DEF Pending, Building, SettledEntry
  <2> QED
    BY <1>1, <1>2, <2>2, <2>3, <2>6, WrittenKempt DEF AtRest
<1>7. ItemStatus(ArchivesOf(c), n) \in {"none", "installed"}
  BY <1>4 DEF Should
<1> QED
  BY <1>5, <1>6, <1>7 DEF ConfigureArchive

\* An archive on its way.
LEMMA ArchiveAtWork ==
  ASSUME TypeInv, Kempt(db, world, proc), proc.at \in {"work", "record"}, Op = "archive"
  PROVE  /\ proc.cid \in Cids /\ container_exists(db, proc.cid) /\ world[proc.cid] \in Worlds
         /\ \A b \in Cids \ {proc.cid} : SettledAt(db, world[b], b)
         /\ Agree(Entry(db, proc.cid), world[proc.cid], {}, {proc.cmd.name})
         /\ world[proc.cid].root = "whole"
         /\ proc.cmd.name \in Archives /\ proc.cmd.on \in BOOLEAN /\ proc.ok \in BOOLEAN
         /\ proc.at = "record" => Entry(db, proc.cid).status \in Rest
         /\ proc.at = "work" /\ ~proc.cmd.on => proc.cmd.name \in world[proc.cid].archives
         /\ proc.at = "record" /\ proc.cmd.on = proc.ok => proc.cmd.name \in world[proc.cid].archives
<1> DEFINE y == Entry(db, proc.cid)
           w == world[proc.cid]
<1>1. /\ proc.cid \in Cids /\ container_exists(db, proc.cid) /\ w \in Worlds
      /\ \A b \in Cids \ {proc.cid} : SettledAt(db, world[b], b)
      /\ Pending(y, w, proc)
  BY AtWorkKempt DEF InWork
<1>2. BusyPackages(proc) = {} /\ BusyArchives(proc) = {proc.cmd.name}
  BY DEF BusyPackages, BusyArchives, Op
<1>3. proc.cmd.name \in Archives /\ proc.cmd.on \in BOOLEAN /\ proc.ok \in BOOLEAN
  BY CommandParts, ProcParts DEF TypeInv, Formed, Op
<1> QED
  BY <1>1, <1>2, <1>3 DEF Pending, InWork, Op

LEMMA WorkArchiveKempt ==
  ASSUME TypeInv, Kempt(db, world, proc), upset' = {}, WorkArchive
  PROVE  Kempt(db', world', proc')
<1> DEFINE c == proc.cid
           y == Entry(db, c)
           n == proc.cmd.name
           after == IF proc.cmd.on THEN world[c].archives \cup {n} ELSE world[c].archives \ {n}
<1>1. /\ c \in Cids /\ container_exists(db, c) /\ world[c] \in Worlds
      /\ \A b \in Cids \ {c} : SettledAt(db, world[b], b)
      /\ Agree(y, world[c], {}, {n}) /\ world[c].root = "whole"
      /\ Op = "archive" /\ proc.cmd.on \in BOOLEAN
      /\ ~proc.cmd.on => n \in world[c].archives
  BY ArchiveAtWork DEF WorkArchive
<1>2. \/ /\ world' = [world EXCEPT ![c].archives = after]
         /\ proc' = [proc EXCEPT !.at = "record", !.ok = TRUE]
      \/ /\ world' = world
         /\ proc' = [proc EXCEPT !.at = "record", !.ok = FALSE]
  BY DEF WorkArchive
<1>3. /\ \A m \in Archives \ {n} : m \in after <=> m \in world[c].archives
      /\ proc.cmd.on => n \in after
  OBVIOUS
<1> HIDE DEF after
<1>4. /\ proc'.at = "record" /\ proc'.cid = c /\ proc'.cmd = proc.cmd /\ proc'.ok \in BOOLEAN
      /\ \/ world' = [world EXCEPT ![c].archives = after] /\ proc'.ok = TRUE
         \/ world' = world /\ proc'.ok = FALSE
  BY <1>2 DEF TypeInv, Procs
<1>5. /\ \A b \in Cids \ {c} : world'[b] = world[b]
      /\ world'[c].root = world[c].root /\ world'[c].foreign = world[c].foreign
      /\ world'[c].pkgs = world[c].pkgs
      /\ world' = world \/ world'[c].archives = after
  BY <1>1, <1>4 DEF Worlds, TypeInv
<1>6. \A m \in Archives \ {n} : m \in world'[c].archives <=> m \in world[c].archives
  BY <1>3, <1>5
<1>7. Agree(y, world'[c], {}, {n})
  BY <1>1, <1>5, <1>6 DEF Agree, Should
<1>8. proc.cmd.on = proc'.ok => n \in world'[c].archives
  <2>1. CASE world' = [world EXCEPT ![c].archives = after] /\ proc'.ok = TRUE
    BY <1>1, <1>3, <2>1 DEF Worlds, TypeInv
  <2>2. CASE world' = world /\ proc'.ok = FALSE
    BY <1>1, <2>2
  <2> QED
    BY <1>4, <2>1, <2>2
<1>9. PICK x : /\ Says(db, db', c, x) /\ x.status = StoppedStatus(db, c)
               /\ Agree(x, world'[c], {}, {n}) <=> Agree(y, world'[c], {}, {n})
  <2>1. PICK bad \in Unrests(c) : db' = Ended(db, c, bad) /\ upset \cup bad \subseteq {}
    BY DEF WorkArchive
  <2> QED
    BY <1>1, <2>1, QuietlyEnded, StatusWritten
<1>10. BusyPackages(proc') = {} /\ BusyArchives(proc') = {n} /\ StoppedStatus(db, c) \in Rest
  BY <1>1, <1>4 DEF BusyPackages, BusyArchives, StoppedStatus, Rest, Op
<1>11. Pending(x, world'[c], proc')
  BY <1>1, <1>4, <1>5, <1>7, <1>8, <1>9, <1>10 DEF Pending, Building, Op
<1> QED
  BY <1>1, <1>4, <1>5, <1>9, <1>11, WrittenKempt DEF AtRest

LEMMA RecordArchiveKempt ==
  ASSUME TypeInv, Ahead(db, world, proc), Kempt(db, world, proc), RecordArchive
  PROVE  Kempt(db', world', proc')
<1> DEFINE c == proc.cid
           y == Entry(db, c)
           n == proc.cmd.name
<1>1. /\ c \in Cids /\ container_exists(db, c) /\ world' = world /\ End /\ proc.at = "record"
      /\ \A b \in Cids \ {c} : SettledAt(db, world[b], b)
      /\ Agree(y, world[c], {}, {n}) /\ world[c].root = "whole" /\ y.status \in Rest
      /\ Op = "archive" /\ n \in Archives /\ proc.cmd.on \in BOOLEAN /\ proc.ok \in BOOLEAN
      /\ proc.cmd.on = proc.ok => n \in world[c].archives
  BY ArchiveAtWork DEF RecordArchive
<1>2. ArchiveHere(db, world[c], proc)
  BY <1>1 DEF Ahead
<1>3. \E x : Says(db, db', c, x) /\ x.status = y.status /\ Agree(x, world[c], {}, {})
  <2>1. CASE proc.cmd.on = proc.ok
    <3>1. db' = SetArchives(db, c, Mark(ArchivesOf(c), n, "installed"))
      BY <2>1 DEF RecordArchive
    <3> QED
      BY <1>1, <2>1, <3>1, ArchivesMarked DEF ItemStatuses
  <2>2. CASE proc.cmd.on # proc.ok
    <3>1. db' = SetArchives(db, c, Unlist(ArchivesOf(c), n))
      BY <2>2 DEF RecordArchive
    <3>2. n \notin world[c].archives
      BY <1>1, <1>2, <2>2 DEF ArchiveHere, Op
    <3> QED
      BY <1>1, <3>1, <3>2, ArchivesMarked
  <2> QED
    BY <2>1, <2>2
<1>4. PICK x : Says(db, db', c, x) /\ x.status = y.status /\ Agree(x, world[c], {}, {})
  BY <1>3
<1>5. SettledEntry(x, world'[c])
  BY <1>1, <1>4 DEF SettledEntry
<1> QED
  BY <1>1, <1>4, <1>5, WrittenKempt, EndKempt

\* A session that is over.
LEMMA StopKempt ==
  ASSUME TypeInv, Kempt(db, world, proc), upset' = {}, CloseSession \/ Update
  PROVE  Kempt(db', world', proc')
<1> DEFINE c == proc.cid
           y == Entry(db, c)
<1>1. /\ proc.at \in {"next", "work"} /\ Op \in {"install", "remove", "update"}
      /\ world' = world /\ End
      /\ \E bad \in Unrests(c) : db' = Ended(db, c, bad) /\ upset \cup bad \subseteq {}
  BY DEF CloseSession, Update, TypeInv, Formed, RightOp, Op
<1>2. /\ c \in Cids /\ container_exists(db, c)
      /\ \A b \in Cids \ {c} : SettledAt(db, world[b], b)
      /\ Pending(y, world[c], proc)
  BY <1>1, AtWorkKempt DEF InWork
<1>3. Agree(y, world[c], {}, {}) /\ world[c].root = "whole"
  BY <1>1, <1>2 DEF Pending, InWork, BusyPackages, BusyArchives, Op
<1>4. PICK x : /\ Says(db, db', c, x) /\ x.status = StoppedStatus(db, c)
               /\ Agree(x, world[c], {}, {}) <=> Agree(y, world[c], {}, {})
  BY <1>1, <1>2, QuietlyEnded, StatusWritten
<1>5. SettledEntry(x, world'[c])
  BY <1>1, <1>3, <1>4 DEF SettledEntry, StoppedStatus, Rest
<1> QED
  BY <1>1, <1>2, <1>4, <1>5, WrittenKempt, EndKempt

LEMMA MultiarchKempt ==
  ASSUME TypeInv, Kempt(db, world, proc), upset' = {},
         ConfigureMultiarch \/ WorkMultiarch \/ RecordMultiarch
  PROVE  Kempt(db', world', proc')
<1> DEFINE c == proc.cid
           y == Entry(db, c)
<1>1. proc.at \in {"checked", "work", "record"} /\ Op = "multiarch" /\ proc.cmd.on \in BOOLEAN
  BY CommandParts DEF ConfigureMultiarch, WorkMultiarch, RecordMultiarch, TypeInv, Formed
<1>2. /\ c \in Cids /\ container_exists(db, c) /\ world[c] \in Worlds /\ y \in Entries
      /\ \A b \in Cids \ {c} : SettledAt(db, world[b], b)
      /\ Pending(y, world[c], proc)
      /\ proc.at = "checked" => SettledEntry(y, world[c])
  BY <1>1, AtWorkKempt DEF InWork
<1>3. Agree(y, world[c], {}, {}) /\ world[c].root = "whole"
  BY <1>1, <1>2 DEF Pending, InWork, BusyPackages, BusyArchives, Op, SettledEntry
<1>4. CASE ConfigureMultiarch
  <2>1. db' = db /\ world' = world /\ (End \/ Goto("open")) /\ SettledEntry(y, world[c])
    BY <1>2, <1>4 DEF ConfigureMultiarch
  <2>2. CASE End
    <3>1. \A b \in Cids : SettledAt(db, world[b], b)
      BY <1>2, <2>1 DEF SettledAt
    <3> QED
      BY <2>1, <2>2, <3>1, EndKempt
  <2>3. CASE Goto("open")
    <3>1. proc'.at = "open" /\ proc'.cid = c /\ proc'.cmd = proc.cmd
      BY <2>3, ProcMoves DEF Labels
    <3>2. BusyPackages(proc') = {} /\ BusyArchives(proc') = {}
      BY <1>1, <3>1 DEF BusyPackages, BusyArchives, Op
    <3>3. Pending(y, world'[c], proc')
      BY <1>1, <2>1, <3>1, <3>2 DEF Pending, Building, SettledEntry, Op
    <3> QED
      BY <1>2, <2>1, <3>1, <3>3 DEF Kempt, AtRest
  <2> QED
    BY <2>1, <2>2, <2>3
<1>5. CASE WorkMultiarch
  <2>1. /\ \E bad \in Unrests(c) : db' = Ended(db, c, bad) /\ upset \cup bad \subseteq {}
        /\ \/ world' = [world EXCEPT ![c].foreign = TRUE] /\ Goto("record")
           \/ world' = world /\ End
    BY <1>5 DEF WorkMultiarch
  <2>2. /\ \A b \in Cids \ {c} : world'[b] = world[b]
        /\ world'[c].root = world[c].root /\ world'[c].pkgs = world[c].pkgs
        /\ world'[c].archives = world[c].archives /\ (world[c].foreign => world'[c].foreign)
        /\ world' = world \/ world'[c].foreign = TRUE
    BY <1>2, <2>1 DEF Worlds, TypeInv
  <2>3. Agree(y, world'[c], {}, {})
    BY <1>3, <2>2 DEF Agree
  <2>4. PICK x : /\ Says(db, db', c, x) /\ x.status = StoppedStatus(db, c)
                 /\ Agree(x, world'[c], {}, {}) <=> Agree(y, world'[c], {}, {})
    BY <1>2, <2>1, QuietlyEnded, StatusWritten
  <2>5. StoppedStatus(db, c) \in Rest
    BY DEF StoppedStatus, Rest
  <2>6. CASE End
    <3>1. SettledEntry(x, world'[c])
      BY <1>3, <2>2, <2>3, <2>4, <2>5 DEF SettledEntry
    <3> QED
      BY <1>2, <2>2, <2>4, <2>6, <3>1, WrittenKempt, EndKempt
  <2>7. CASE world' = [world EXCEPT ![c].foreign = TRUE] /\ Goto("record")
    <3>1. proc'.at = "record" /\ proc'.cid = c /\ proc'.cmd = proc.cmd
      BY <2>7, ProcMoves DEF Labels
    <3>2. world'[c].foreign
      BY <1>2, <2>7 DEF Worlds, TypeInv
    <3>3. BusyPackages(proc') = {} /\ BusyArchives(proc') = {}
      BY <1>1, <3>1 DEF BusyPackages, BusyArchives, Op
    <3>4. Pending(x, world'[c], proc')
      BY <1>1, <1>3, <2>2, <2>3, <2>4, <2>5, <3>1, <3>2, <3>3 DEF Pending, Building, Op
    <3> QED
      BY <1>2, <2>2, <2>4, <3>1, <3>4, WrittenKempt DEF AtRest
  <2> QED
    BY <2>1, <2>6, <2>7
<1>6. CASE RecordMultiarch
  <2> DEFINE x == [y EXCEPT !.multiarch = proc.cmd.on]
  <2>1. world' = world /\ End /\ world[c].foreign /\ y.status \in Rest
    BY <1>1, <1>2, <1>6 DEF RecordMultiarch, Pending, Op
  <2>2. Says(db, db', c, x)
    BY <1>1, <1>2, <1>6, MultiarchSetSays DEF RecordMultiarch, TypeInv
  <2> HIDE DEF y
  <2>3. x.status = y.status /\ x.apps = y.apps /\ x.archives = y.archives
    BY <1>2 DEF Entries
  <2> HIDE DEF x
  <2>4. SettledEntry(x, world'[c])
    BY <1>3, <2>1, <2>3 DEF SettledEntry, Agree
  <2> QED
    BY <1>2, <2>1, <2>2, <2>4, WrittenKempt, EndKempt
<1> QED
  BY <1>4, <1>5, <1>6

LEMMA FieldsKempt ==
  ASSUME TypeInv, Kempt(db, world, proc), ConfigureBindMount \/ ConfigureFreeze
  PROVE  Kempt(db', world', proc')
<1> DEFINE c == proc.cid
           y == Entry(db, c)
<1>1. proc.at = "checked" /\ world' = world /\ End
  BY DEF ConfigureBindMount, ConfigureFreeze
<1>2. /\ c \in Cids /\ container_exists(db, c) /\ y \in Entries
      /\ \A b \in Cids \ {c} : SettledAt(db, world[b], b)
      /\ SettledEntry(y, world[c])
  BY <1>1, AtWorkKempt
<1>3. CASE db' = db
  <2>1. \A b \in Cids : SettledAt(db, world[b], b)
    BY <1>2 DEF SettledAt
  <2> QED
    BY <1>1, <1>3, <2>1, EndKempt
<1>4. CASE db' # db
  <2>1. \/ Says(db, db', c, [y EXCEPT !.freeze = proc.cmd.on])
        \/ \E m \in Seq(Mounts) : Says(db, db', c, [y EXCEPT !.mounts = m])
    <3>1. CASE ConfigureBindMount
      BY <1>4, <3>1, BindMountSays
    <3>2. CASE ConfigureFreeze
      <4>1. proc.cmd.on \in BOOLEAN
        BY <1>1, CommandParts DEF TypeInv, Formed
      <4> QED
        BY <1>2, <1>4, <3>2, <4>1, FreezeSetSays DEF ConfigureFreeze, TypeInv
    <3> QED
      BY <3>1, <3>2
  <2> HIDE DEF y
  <2>2. PICK x : /\ Says(db, db', c, x)
                 /\ \/ \E f : x = [y EXCEPT !.freeze = f]
                    \/ \E m : x = [y EXCEPT !.mounts = m]
    BY <2>1
  <2>3. /\ x.status = y.status /\ x.apps = y.apps
        /\ x.archives = y.archives /\ x.multiarch = y.multiarch
    BY <1>2, <2>2 DEF Entries
  <2>4. SettledEntry(x, world'[c])
    BY <1>1, <1>2, <2>3 DEF SettledEntry, Agree
  <2> QED
    BY <1>1, <1>2, <2>2, <2>4, WrittenKempt, EndKempt
<1> QED
  BY <1>3, <1>4

LEMMA DefaultsKempt ==
  ASSUME TypeInv, Kempt(db, world, proc), SetDefault \/ ClearDefault
  PROVE  Kempt(db', world', proc')
<1>1. db'.list = db.list /\ world' = world /\ End /\ proc.at \in AtRest
  BY DEF SetDefault, ClearDefault, TypeInv, Databases, AtRest
<1>2. \A b \in Cids : (container_exists(db', b) <=> container_exists(db, b)) /\ Entry(db', b) = Entry(db, b)
  BY <1>1 DEF container_exists, At, Entry
<1>3. \A b \in Cids : SettledAt(db', world'[b], b)
  BY <1>1, <1>2 DEF Kempt, SettledAt
<1> QED
  BY <1>1, <1>3, EndKempt

\* What is settled is not touched by fix_integrity, but for the status.
LEMMA FixesKempt ==
  ASSUME TypeInv, Kempt(db, world, proc), upset' = {}, FixContainer \/ FixApp \/ FixArchive
  PROVE  Kempt(db', world', proc')
<1>1. proc.at \in {"fix", "fixapps", "fixarchives"}
  BY DEF FixContainer, FixApp, FixArchive
<1>2. \A b \in Cids : SettledAt(db, world[b], b)
  BY <1>1 DEF Kempt, AtRest
<1>3. CASE FixContainer
  <2>1. CASE End /\ db' = db
    BY <1>2, <1>3, <2>1, EndKempt DEF FixContainer
  <2>2. CASE /\ ~(proc.i > Len(db.list))
             /\ LET c == db.list[proc.i].id
                IN  /\ \E bad \in Unrests(c) : db' \in Tried(db, c, bad) /\ upset \cup bad \subseteq {}
                    /\ proc' = [proc EXCEPT !.at = "fixapps", !.cid = c, !.j = 1]
    <3> DEFINE c == db.list[proc.i].id
    <3>1. proc.i \in 1..Len(db.list)
      <4>1. proc.i \in Nat /\ proc.i # 0 /\ Len(db.list) \in Nat
        BY <1>1, ProcParts, ListType DEF TypeInv, Formed
      <4> QED
        BY <2>2, <4>1
    <3>2. c \in Cids /\ container_exists(db, c)
      <4>1. db.list[proc.i] \in Entries
        BY <3>1, ListType DEF TypeInv
      <4> QED
        BY <3>1, <4>1, EntryParts, EntrySays DEF TypeInv
    <3>3. /\ \E bad \in Unrests(c) : db' \in Tried(db, c, bad) /\ upset \cup bad \subseteq {}
          /\ proc' = [proc EXCEPT !.at = "fixapps", !.cid = c, !.j = 1]
          /\ world' = world
      BY <1>3, <2>2 DEF FixContainer
    <3> HIDE DEF c
    <3>4. proc'.at \in AtRest
      BY <3>3 DEF TypeInv, Procs, AtRest
    <3>5. \A b \in Cids : SettledAt(db', world'[b], b)
      <4>1. CASE db' = db
        BY <1>2, <3>3, <4>1
      <4>2. CASE db' = SetStatus(db, c, StoppedStatus(db, c))
        <5>1. PICK x : /\ Says(db, db', c, x) /\ x.status = StoppedStatus(db, c)
                       /\ Agree(x, world[c], {}, {}) <=> Agree(Entry(db, c), world[c], {}, {})
          BY <3>2, <4>2, SessionStatuses, StatusWritten
        <5>2. SettledEntry(x, world'[c])
          BY <1>2, <3>2, <3>3, <5>1 DEF SettledAt, SettledEntry, StoppedStatus, Rest
        <5> QED
          BY <1>2, <3>2, <3>3, <5>1, <5>2, WrittenKempt
      <4> QED
        BY <3>2, <3>3, <4>1, <4>2, QuietlyEnded
    <3> QED
      BY <3>4, <3>5, RestKempt
  <2> QED
    BY <1>3, <2>1, <2>2 DEF FixContainer, Crash
<1>4. ASSUME NEW N, NEW s \in Seq(Items(N)), NamedOnce(s), NEW k \in 1..Len(s), NEW S,
             ItemStatus(s, s[k].name) = Should(s[k].name, S)
      PROVE  s[k].status = "installed"
  <2>1. s[k].status \in ItemStatuses /\ "none" \notin ItemStatuses
    <3>1. s[k] \in Items(N)
      OBVIOUS
    <3> QED
      BY <3>1 DEF Items, ItemStatuses
  <2>2. ItemStatus(s, s[k].name) = s[k].status
    BY <1>4, StatusSays
  <2> QED
    BY <1>4, <2>1, <2>2 DEF Should
<1>5. CASE FixApp \/ FixArchive
  <2> DEFINE c == proc.cid
  <2>1. /\ c \in Cids /\ container_exists(db, c)
        /\ Apps(c) \in Seq(Items(Packages)) /\ NamedOnce(Apps(c))
        /\ ArchivesOf(c) \in Seq(Items(Archives)) /\ NamedOnce(ArchivesOf(c))
    BY <1>5, FixAt DEF FixApp, FixArchive
  <2>2. Agree(Entry(db, c), world[c], {}, {})
    BY <1>2, <2>1 DEF SettledAt, SettledEntry
  <2>3. FixApp /\ ~(proc.j > Len(Apps(c))) => Apps(c)[proc.j].status = "installed"
    <3> SUFFICES ASSUME FixApp, ~(proc.j > Len(Apps(c))) PROVE Apps(c)[proc.j].status = "installed"
      OBVIOUS
    <3>1. proc.j \in 1..Len(Apps(c)) /\ Apps(c)[proc.j].name \in Packages
      BY FixAt DEF FixApp
    <3>2. ItemStatus(Apps(c), Apps(c)[proc.j].name) = Should(Apps(c)[proc.j].name, world[c].pkgs)
      BY <2>2, <3>1 DEF Agree, Apps
    <3> QED
      BY <1>4, <2>1, <3>1, <3>2
  <2>4. FixArchive /\ ~(proc.j > Len(ArchivesOf(c))) => ArchivesOf(c)[proc.j].status = "installed"
    <3> SUFFICES ASSUME FixArchive, ~(proc.j > Len(ArchivesOf(c)))
                 PROVE  ArchivesOf(c)[proc.j].status = "installed"
      OBVIOUS
    <3>1. proc.j \in 1..Len(ArchivesOf(c)) /\ ArchivesOf(c)[proc.j].name \in Archives
      BY FixAt DEF FixArchive
    <3>2. ItemStatus(ArchivesOf(c), ArchivesOf(c)[proc.j].name)
            = Should(ArchivesOf(c)[proc.j].name, world[c].archives)
      BY <2>2, <3>1 DEF Agree, ArchivesOf
    <3> QED
      BY <1>4, <2>1, <3>1, <3>2
  <2>5. db' = db /\ world' = world
    BY <1>5, <2>3, <2>4 DEF FixApp, FixArchive
  <2>6. proc'.at \in AtRest
    BY <1>5 DEF FixApp, FixArchive, TypeInv, Procs, AtRest
  <2> QED
    BY <1>2, <2>5, <2>6, RestKempt
<1> QED
  BY <1>3, <1>5

LEMMA NextKempt == TypeInv /\ AheadInv /\ KemptInv /\ [Next]_vars => KemptInv'
<1> SUFFICES ASSUME TypeInv, AheadInv, KemptInv, [Next]_vars, upset' = {}
             PROVE  Kempt(db', world', proc')
  BY DEF KemptInv
<1>1. CASE UNCHANGED vars
  <2>1. db' = db /\ world' = world /\ proc' = proc /\ upset' = upset
    BY <1>1 DEF vars
  <2> QED
    BY <2>1 DEF KemptInv
<1>2. CASE Next
  <2>1. upset = {}
    BY <1>2, UpsetGrows
  <2>2. Ahead(db, world, proc) /\ Kempt(db, world, proc)
    BY <2>1 DEF AheadInv, KemptInv, Fine
  <2>3. ASSUME NEW cmd \in Commands, Give(cmd) PROVE Kempt(db', world', proc')
    BY <2>2, <2>3, GiveKempt
  <2>4. CASE Kill \/ Merge
    BY <2>4 DEF Kill, Merge
  <2>5. CASE CheckContainerId \/ FixIntegrity
    BY <2>2, <2>5, StartsKempt
  <2>6. CASE Create \/ Installing \/ Build \/ Built \/ Undo \/ Complete
    BY <2>2, <2>6, CreateKempt, BuildsKempt
  <2>7. CASE Drop \/ DestroyContainer \/ Destroy
    BY <2>2, <2>7, DestroysKempt
  <2>8. CASE Open \/ NextPackage \/ Apt \/ RecordPackage
    BY <2>2, <2>8, OpenKempt, NextPackageKempt, AptKempt, RecordPackageKempt
  <2>9. CASE CloseSession \/ Update
    BY <2>2, <2>9, StopKempt
  <2>10. CASE ConfigureMultiarch \/ WorkMultiarch \/ RecordMultiarch
    BY <2>2, <2>10, MultiarchKempt
  <2>11. CASE ConfigureArchive \/ WorkArchive \/ RecordArchive
    BY <2>2, <2>11, ConfigureArchiveKempt, WorkArchiveKempt, RecordArchiveKempt
  <2>12. CASE ConfigureBindMount \/ ConfigureFreeze \/ SetDefault \/ ClearDefault
    BY <2>2, <2>12, FieldsKempt, DefaultsKempt
  <2>13. CASE FixContainer \/ FixApp \/ FixArchive
    BY <2>2, <2>13, FixesKempt
  <2>14. CASE Finished
    BY <1>1, <2>14 DEF Finished
  <2> QED
    BY <1>2, <2>3, <2>4, <2>5, <2>6, <2>7, <2>8, <2>9, <2>10, <2>11, <2>12, <2>13, <2>14
    DEF Next, CommandStep
<1> QED
  BY <1>1, <1>2

LEMMA StartsAllKempt == Init => KemptInv
<1> SUFFICES ASSUME Init PROVE Kempt(db, world, proc)
  BY DEF KemptInv
<1>1. ASSUME NEW c \in Cids PROVE SettledAt(db, world[c], c)
  <2>1. At(db, c) = 0
    BY DEF Init, At, FirstOf
  <2>2. world[c] = Nothing
    BY DEF Init
  <2> QED
    BY <2>1, <2>2, NothingIs DEF SettledAt, container_exists
<1>2. proc.at \in AtRest
  BY DEF Init, Idle, AtRest
<1> QED
  BY <1>1, <1>2, RestKempt

\* What is settled, position by position.
AsListed(N, s, S) == S \subseteq N /\ \A n \in N : ItemStatus(s, n) = Should(n, S)

LEMMA ListSettled ==
  ASSUME NEW N, NEW s \in Seq(Items(N)), NamedOnce(s), NEW S, AsListed(N, s, S)
  PROVE  /\ \A x \in 1..Len(s) : s[x].status = "installed"
         /\ S = {s[x].name : x \in 1..Len(s)}
<1>1. ASSUME NEW x \in 1..Len(s)
      PROVE  s[x].status = "installed" /\ s[x].name \in S
  <2>1. s[x] \in Items(N)
    OBVIOUS
  <2>2. s[x].name \in N /\ s[x].status \in ItemStatuses /\ "none" \notin ItemStatuses
    BY <2>1 DEF Items, ItemStatuses
  <2>3. ItemStatus(s, s[x].name) = s[x].status
    BY StatusSays
  <2> QED
    BY <2>2, <2>3 DEF Should, AsListed
<1>2. ASSUME NEW n \in S PROVE \E x \in 1..Len(s) : s[x].name = n
  <2>1. ItemStatus(s, n) # "none"
    BY DEF Should, AsListed
  <2> QED
    BY <2>1, StatusSays
<1> QED
  BY <1>1, <1>2

LEMMA SettledSays ==
  ASSUME TypeInv, \A c \in Cids : SettledAt(db, world[c], c)
  PROVE  Settled(db, world)
<1>2. ASSUME NEW c \in Cids, container_exists(db, c)
      PROVE  \E k \in 1..Len(db.list) :
               /\ db.list[k].id = c
               /\ db.list[k].status \in {"ready", "stopped"}
               /\ \A x \in 1..Len(db.list[k].apps) : db.list[k].apps[x].status = "installed"
               /\ \A x \in 1..Len(db.list[k].archives) : db.list[k].archives[x].status = "installed"
               /\ world[c].root = "whole"
               /\ world[c].pkgs = {db.list[k].apps[x].name : x \in 1..Len(db.list[k].apps)}
               /\ world[c].archives
                    = {db.list[k].archives[x].name : x \in 1..Len(db.list[k].archives)}
               /\ db.list[k].multiarch => world[c].foreign
  <2> DEFINE y == Entry(db, c)
  <2>1. /\ At(db, c) \in 1..Len(db.list) /\ db.list[At(db, c)] = y /\ y.id = c
        /\ y.apps \in Seq(Items(Packages)) /\ NamedOnce(y.apps)
        /\ y.archives \in Seq(Items(Archives)) /\ NamedOnce(y.archives)
    BY <1>2, EntrySays, ListsOf DEF TypeInv
  <2>2. world[c].pkgs \in SUBSET Packages /\ world[c].archives \in SUBSET Archives
    BY WorldParts DEF TypeInv
  <2>3. SettledEntry(y, world[c])
    BY <1>2 DEF SettledAt
  <2> HIDE DEF y
  <2>4. /\ \A n \in Packages : ItemStatus(y.apps, n) = Should(n, world[c].pkgs)
        /\ \A n \in Archives : ItemStatus(y.archives, n) = Should(n, world[c].archives)
        /\ y.status \in {"ready", "stopped"} /\ world[c].root = "whole"
        /\ y.multiarch => world[c].foreign
    BY <2>3 DEF SettledEntry, Agree, Rest
  <2>5. /\ \A x \in 1..Len(y.apps) : y.apps[x].status = "installed"
        /\ world[c].pkgs = {y.apps[x].name : x \in 1..Len(y.apps)}
    <3> DEFINE t == y.apps
               S == world[c].pkgs
    <3>1. t \in Seq(Items(Packages)) /\ NamedOnce(t) /\ AsListed(Packages, t, S)
      BY <2>1, <2>2, <2>4 DEF AsListed
    <3> HIDE DEF t, S
    <3>2. /\ \A x \in 1..Len(t) : t[x].status = "installed"
          /\ S = {t[x].name : x \in 1..Len(t)}
      BY <3>1, ListSettled
    <3> QED
      BY <3>2 DEF t, S
  <2>6. /\ \A x \in 1..Len(y.archives) : y.archives[x].status = "installed"
        /\ world[c].archives = {y.archives[x].name : x \in 1..Len(y.archives)}
    <3> DEFINE t == y.archives
               S == world[c].archives
    <3>1. t \in Seq(Items(Archives)) /\ NamedOnce(t) /\ AsListed(Archives, t, S)
      BY <2>1, <2>2, <2>4 DEF AsListed
    <3> HIDE DEF t, S
    <3>2. /\ \A x \in 1..Len(t) : t[x].status = "installed"
          /\ S = {t[x].name : x \in 1..Len(t)}
      BY <3>1, ListSettled
    <3> QED
      BY <3>2 DEF t, S
  <2> DEFINE k == At(db, c)
  <2>7. k \in 1..Len(db.list) /\ db.list[k] = y
    BY <2>1
  <2> HIDE DEF k
  <2>8. /\ db.list[k].id = c
        /\ db.list[k].status \in {"ready", "stopped"}
        /\ \A x \in 1..Len(db.list[k].apps) : db.list[k].apps[x].status = "installed"
        /\ \A x \in 1..Len(db.list[k].archives) : db.list[k].archives[x].status = "installed"
        /\ world[c].root = "whole"
        /\ world[c].pkgs = {db.list[k].apps[x].name : x \in 1..Len(db.list[k].apps)}
        /\ world[c].archives = {db.list[k].archives[x].name : x \in 1..Len(db.list[k].archives)}
        /\ db.list[k].multiarch => world[c].foreign
    BY <2>1, <2>4, <2>5, <2>6, <2>7
  <2> QED
    BY <2>7, <2>8
<1>3. \A c \in Cids : container_exists(db, c) <=> \E k \in 1..Len(db.list) : db.list[k].id = c
  BY ZenonT(30), EntrySays DEF TypeInv
<1>4. \A c \in Cids : ~container_exists(db, c) => world[c].root = "none"
  BY DEF SettledAt
<1> QED
  BY <1>2, <1>3, <1>4 DEF Settled

LEMMA KemptAlways == Spec => []KemptInv
  BY StartsAllKempt, NextKempt, TypeAlways, AheadAlways, PTL DEF Spec

\* Between two commands the database and the containers agree, unless a command
\* was killed or raised, or failed halfway, or a package file was not installed,
\* or a container did not come to rest, or another database was merged in:
\* whatever create, destroy, install-package, remove-package, configure and
\* fix-integrity do, succeed or fail, in whatever order they are given.
THEOREM CommandsLeaveItConsistent == Spec => []Consistent
<1>1. TypeInv /\ KemptInv => Consistent
  <2> SUFFICES ASSUME TypeInv, KemptInv, proc.at = "idle", upset = {} PROVE Settled(db, world)
    BY DEF Consistent
  <2>1. \A c \in Cids : SettledAt(db, world[c], c)
    BY DEF KemptInv, Kempt, AtRest
  <2> QED
    BY <2>1, SettledSays
<1> QED
  BY <1>1, TypeAlways, KemptAlways, PTL
=============================================================================
