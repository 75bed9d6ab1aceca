-------------------------- MODULE BindMountsProofs --------------------------
(***************************************************************************)
(* BindMounts for any paths, prefixes and lists, whatever xdg-user-dir     *)
(* prints: types, that the list in the database is what the user wants,    *)
(* and that the container shows what was asked.                            *)
(***************************************************************************)
EXTENDS BindMounts, FiniteSetTheorems, WellFoundedInduction, TLAPS

(* Lists of paths. *)

\* l has d in one place at most.
Once(l, d) == \A j, k \in 1..Len(l) : l[j] = d /\ l[k] = d => j = k

LEMMA RangeIn ==
  ASSUME NEW l \in Seq(Paths), NEW k \in 1..Len(l)
  PROVE  l[k] \in Range(l) /\ l[k] \in Paths
  BY DEF Range

LEMMA RangePlace ==
  ASSUME NEW l \in Seq(Paths), NEW d \in Range(l)
  PROVE  d \in Paths /\ \E k \in 1..Len(l) : l[k] = d
  BY DEF Range

LEMMA EmptyList == Range(<<>>) = {} /\ \A d : Once(<<>>, d)
  BY DEF Range, Once

LEMMA LiveList ==
  ASSUME NEW l \in Lists
  PROVE  Live(l) \in Seq(Paths)
  BY DEF Lists, Live

LEMMA JoinedRange ==
  ASSUME NEW a \in Seq(Paths), NEW b \in Seq(Paths)
  PROVE  a \o b \in Seq(Paths) /\ Range(a \o b) = Range(a) \cup Range(b)
<1>1. a \o b \in Seq(Paths) /\ Len(a \o b) = Len(a) + Len(b)
  OBVIOUS
<1>2. ASSUME NEW d \in Range(a \o b) PROVE d \in Range(a) \cup Range(b)
  <2>1. PICK k \in 1..Len(a \o b) : (a \o b)[k] = d
    BY <1>1, RangePlace
  <2>2. CASE k <= Len(a)
    BY <1>1, <2>1, <2>2, RangeIn
  <2>3. CASE k > Len(a)
    <3>1. k - Len(a) \in 1..Len(b) /\ d = b[k - Len(a)]
      BY <1>1, <2>1, <2>3
    <3> QED
      BY <3>1, RangeIn
  <2> QED
    BY <1>1, <2>2, <2>3
<1>3. ASSUME NEW d \in Range(a) PROVE d \in Range(a \o b)
  <2>1. PICK k \in 1..Len(a) : a[k] = d
    BY RangePlace
  <2>2. k \in 1..Len(a \o b) /\ (a \o b)[k] = d
    BY <1>1, <2>1
  <2> QED
    BY <1>1, <2>2, RangeIn
<1>4. ASSUME NEW d \in Range(b) PROVE d \in Range(a \o b)
  <2>1. PICK k \in 1..Len(b) : b[k] = d
    BY RangePlace
  <2>2. k + Len(a) \in 1..Len(a \o b) /\ (a \o b)[k + Len(a)] = d
    BY <1>1, <2>1
  <2> QED
    BY <1>1, <2>2, RangeIn
<1> QED
  BY <1>1, <1>2, <1>3, <1>4

\* What is once in one part and not in the other is once in the whole.
LEMMA JoinedOnce ==
  ASSUME NEW a \in Seq(Paths), NEW b \in Seq(Paths), NEW d,
         \/ Once(a, d) /\ d \notin Range(b)
         \/ Once(b, d) /\ d \notin Range(a)
  PROVE  Once(a \o b, d)
<1> SUFFICES ASSUME NEW j \in 1..Len(a \o b), NEW k \in 1..Len(a \o b),
                    (a \o b)[j] = d, (a \o b)[k] = d
             PROVE  j = k
  BY DEF Once
<1>1. Len(a \o b) = Len(a) + Len(b)
  OBVIOUS
<1>2. ASSUME NEW i \in 1..Len(a \o b), (a \o b)[i] = d
      PROVE  \/ i \in 1..Len(a) /\ a[i] = d
             \/ i - Len(a) \in 1..Len(b) /\ b[i - Len(a)] = d
  BY <1>1, <1>2
<1>3. CASE Once(a, d) /\ d \notin Range(b)
  <2>1. ASSUME NEW i \in 1..Len(a \o b), (a \o b)[i] = d PROVE i \in 1..Len(a) /\ a[i] = d
    BY <1>2, <1>3, <2>1, RangeIn
  <2> QED
    BY <1>3, <2>1 DEF Once
<1>4. CASE Once(b, d) /\ d \notin Range(a)
  <2>1. ASSUME NEW i \in 1..Len(a \o b), (a \o b)[i] = d
        PROVE  i - Len(a) \in 1..Len(b) /\ b[i - Len(a)] = d
    BY <1>2, <1>4, <2>1, RangeIn
  <2>2. j - Len(a) = k - Len(a)
    BY <1>4, <2>1 DEF Once
  <2> QED
    BY <1>1, <2>2
<1> QED
  BY <1>3, <1>4

LEMMA AddedList ==
  ASSUME NEW l \in Seq(Paths), NEW m \in Paths, m \notin Range(l)
  PROVE  /\ Append(l, m) \in Seq(Paths) /\ Range(Append(l, m)) = Range(l) \cup {m}
         /\ \A d : Once(l, d) => Once(Append(l, m), d)
<1>1. Append(l, m) = l \o <<m>> /\ <<m>> \in Seq(Paths)
  OBVIOUS
<1>2. Range(<<m>>) = {m} /\ \A d : Once(<<m>>, d)
  BY DEF Range, Once
<1>3. ASSUME NEW d, Once(l, d) PROVE Once(l \o <<m>>, d)
  <2>1. CASE d = m
    BY <1>1, <1>2, <2>1, JoinedOnce
  <2>2. CASE d # m
    BY <1>1, <1>2, <1>3, <2>2, JoinedOnce
  <2> QED
    BY <2>1, <2>2
<1> QED
  BY ZenonT(30), <1>1, <1>2, <1>3, JoinedRange

\* A set of numbers has a least one.
LEMMA LeastNumber ==
  ASSUME NEW T \in SUBSET Nat, T # {}
  PROVE  \E x \in T : \A y \in T : x <= y
<1>1. \E x \in T : \A y \in T : <<y, x>> \notin OpToRel(<, Nat)
  BY NatLessThanWellFounded, WFMin, Zenon
<1>2. PICK x \in T : \A y \in T : <<y, x>> \notin OpToRel(<, Nat)
  BY <1>1, Zenon
<1>3. ASSUME NEW y \in T PROVE x <= y
  <2>1. <<y, x>> \notin OpToRel(<, Nat)
    BY <1>2, Zenon
  <2>2. x \in Nat /\ y \in Nat
    OBVIOUS
  <2>3. ~(y < x)
    BY <2>1, <2>2 DEF OpToRel
  <2> QED
    BY <2>2, <2>3
<1> QED
  BY <1>3

LEMMA LeastPlace ==
  ASSUME NEW T \in SUBSET Nat, T # {}
  PROVE  Min(T) \in T
  BY LeastNumber DEF Min

\* What list.remove takes out, and where the rest goes.
LEMMA RemovedPlaces ==
  ASSUME NEW l \in Seq(Paths), NEW m \in Range(l)
  PROVE  \E i \in 1..Len(l) :
           /\ l[i] = m
           /\ Removed(l, m) \in Seq(Paths) /\ Len(Removed(l, m)) = Len(l) - 1
           /\ \A k \in 1..(Len(l) - 1) :
                Removed(l, m)[k] = IF k < i THEN l[k] ELSE l[k + 1]
<1> DEFINE I == {i \in 1..Len(l) : l[i] = m}
<1> DEFINE i == Min(I)
<1>1. I # {} /\ I \subseteq Nat
  BY RangePlace
<1>2. i \in 1..Len(l) /\ l[i] = m
  <2> HIDE DEF i
  <2> QED
    BY <1>1, LeastPlace DEF i
<1>3. Removed(l, m) = SubSeq(l, 1, i - 1) \o SubSeq(l, i + 1, Len(l))
  BY <1>1 DEF Removed, RemoveFirst, RemoveAt, SelectInSeq
<1> HIDE DEF i
<1> DEFINE a == SubSeq(l, 1, i - 1)
           b == SubSeq(l, i + 1, Len(l))
<1>4. /\ a \in Seq(Paths) /\ Len(a) = i - 1
      /\ \A k \in 1..(i - 1) : a[k] = l[k]
  BY <1>2
<1>5. /\ b \in Seq(Paths) /\ Len(b) = Len(l) - i
      /\ \A k \in 1..(Len(l) - i) : b[k] = l[i + k]
  BY <1>2
<1> HIDE DEF a, b
<1>6. a \o b \in Seq(Paths) /\ Len(a \o b) = Len(l) - 1
  <2>1. a \o b \in Seq(Paths) /\ Len(a \o b) = Len(a) + Len(b)
    BY SMTT(30), <1>4, <1>5
  <2> QED
    BY <1>2, <1>4, <1>5, <2>1
<1>7. ASSUME NEW k \in 1..(Len(l) - 1)
      PROVE  (a \o b)[k] = IF k < i THEN l[k] ELSE l[k + 1]
  BY <1>2, <1>4, <1>5
<1> QED
  BY <1>2, <1>3, <1>6, <1>7 DEF a, b

\* list.remove takes out nothing but m, and m if it is there once.
LEMMA RemovedRange ==
  ASSUME NEW l \in Seq(Paths), NEW m \in Range(l)
  PROVE  /\ Removed(l, m) \in Seq(Paths)
         /\ Range(Removed(l, m)) \subseteq Range(l)
         /\ Range(l) \ {m} \subseteq Range(Removed(l, m))
         /\ Once(l, m) => m \notin Range(Removed(l, m))
         /\ \A d : Once(l, d) => Once(Removed(l, m), d)
<1> DEFINE R == Removed(l, m)
<1>1. PICK i \in 1..Len(l) :
        /\ l[i] = m
        /\ R \in Seq(Paths) /\ Len(R) = Len(l) - 1
        /\ \A k \in 1..(Len(l) - 1) : R[k] = IF k < i THEN l[k] ELSE l[k + 1]
  BY RemovedPlaces
<1> HIDE DEF R
<1> DEFINE P(k) == IF k < i THEN k ELSE k + 1
<1>2. ASSUME NEW k \in 1..Len(R)
      PROVE  P(k) \in 1..Len(l) /\ P(k) # i /\ R[k] = l[P(k)]
  BY <1>1
<1>3. ASSUME NEW d \in Range(R) PROVE \E j \in 1..Len(l) : j # i /\ l[j] = d
  <2>1. PICK k \in 1..Len(R) : R[k] = d
    BY <1>1, RangePlace
  <2> QED
    BY <1>2, <2>1
<1>4. Range(R) \subseteq Range(l)
  BY <1>3, RangeIn
<1>5. ASSUME Once(l, m) PROVE m \notin Range(R)
  BY <1>1, <1>3, <1>5 DEF Once
<1>6. ASSUME NEW d \in Range(l), d # m PROVE d \in Range(R)
  <2>1. PICK j \in 1..Len(l) : l[j] = d
    BY RangePlace
  <2>2. j # i
    BY <1>1, <1>6, <2>1
  <2>3. CASE j < i
    <3>1. j \in 1..Len(R) /\ R[j] = d
      BY <1>1, <2>1, <2>3
    <3> QED
      BY <1>1, <3>1, RangeIn
  <2>4. CASE j > i
    <3>1. j - 1 \in 1..Len(R) /\ R[j - 1] = d
      BY <1>1, <2>1, <2>4
    <3> QED
      BY <1>1, <3>1, RangeIn
  <2> QED
    BY <2>2, <2>3, <2>4
<1>7. ASSUME NEW d, Once(l, d) PROVE Once(R, d)
  <2> SUFFICES ASSUME NEW j \in 1..Len(R), NEW k \in 1..Len(R), R[j] = d, R[k] = d
               PROVE  j = k
    BY DEF Once
  <2>1. P(j) \in 1..Len(l) /\ P(k) \in 1..Len(l) /\ l[P(j)] = d /\ l[P(k)] = d
    BY <1>2
  <2>2. P(j) = P(k)
    <3> HIDE DEF P
    <3> QED
      BY <1>7, <2>1 DEF Once
  <2>3. Len(R) \in Nat
    BY <1>1
  <2> QED
    BY <2>2, <2>3
<1> QED
  BY <1>1, <1>4, <1>5, <1>6, <1>7 DEF R

-----------------------------------------------------------------------------
(* generate_binding_directories *)

LEMMA PrefixFacts ==
  /\ \A p \in Paths : <<p, p>> \in Under /\ <<p, p>> \in Prefix
  /\ \A p, q \in Paths : <<p, q>> \in Under => <<p, q>> \in Prefix
  BY PrefixAssumption

\* The places in l of what the name of p begins with.
MatchPlaces(p, l) == {k \in 1..Len(l) : <<p, l[k]>> \in Prefix}

LEMMA MatchesCount ==
  ASSUME NEW l \in Seq(Paths), NEW p
  PROVE  /\ IsFiniteSet(MatchPlaces(p, l))
         /\ Matches(p, l) = Cardinality(MatchPlaces(p, l)) /\ Matches(p, l) \in Nat
<1>1. IsFiniteSet(1..Len(l))
  BY FS_Interval
<1>2. MatchPlaces(p, l) \subseteq 1..Len(l)
  BY DEF MatchPlaces
<1>3. IsFiniteSet(MatchPlaces(p, l))
  BY <1>1, <1>2, FS_Subset
<1> QED
  BY <1>3, FS_CardinalityType DEF Matches, MatchPlaces

\* A name that begins with that of another path begins with more names.
LEMMA ShorterMatchesFewer ==
  ASSUME NEW l \in Seq(Paths), NEW d \in Range(l), NEW e \in Range(l),
         d # e, <<d, e>> \in Prefix
  PROVE  Matches(e, l) < Matches(d, l)
<1>1. d \in Paths /\ e \in Paths
  BY RangePlace
<1>2. MatchPlaces(e, l) \subseteq MatchPlaces(d, l)
  <2> SUFFICES ASSUME NEW k \in 1..Len(l), <<e, l[k]>> \in Prefix PROVE <<d, l[k]>> \in Prefix
    BY DEF MatchPlaces
  <2>1. l[k] \in Paths
    OBVIOUS
  <2> QED
    BY <1>1, <2>1, PrefixAssumption
<1>3. MatchPlaces(e, l) # MatchPlaces(d, l)
  <2>1. PICK k \in 1..Len(l) : l[k] = d
    BY RangePlace
  <2>2. <<d, d>> \in Prefix /\ <<e, d>> \notin Prefix
    BY <1>1, PrefixFacts, PrefixAssumption
  <2> QED
    BY <2>1, <2>2 DEF MatchPlaces
<1>4. /\ Cardinality(MatchPlaces(e, l)) <= Cardinality(MatchPlaces(d, l))
      /\ Cardinality(MatchPlaces(e, l)) # Cardinality(MatchPlaces(d, l))
  BY <1>2, <1>3, MatchesCount, FS_Subset
<1> QED
  BY <1>4, MatchesCount

\* Of the directories above m one stands above none of the others.
LEMMA TopmostDirectory ==
  ASSUME NEW l \in Seq(Paths), NEW m \in Range(l)
  PROVE  \E d \in Range(l) :
           /\ <<m, d>> \in Prefix
           /\ \A e \in Range(l) : <<d, e>> \in Prefix => e = d
<1> DEFINE T == {n \in Nat : \E d \in Range(l) : <<m, d>> \in Prefix /\ Matches(d, l) = n}
<1>1. m \in Paths /\ <<m, m>> \in Prefix
  BY RangePlace, PrefixFacts
<1>2. Matches(m, l) \in T
  BY <1>1, MatchesCount
<1>3. PICK n \in T : \A y \in T : n <= y
  BY <1>2, LeastNumber
<1>4. PICK d \in Range(l) : <<m, d>> \in Prefix /\ Matches(d, l) = n
  BY <1>3
<1>5. ASSUME NEW e \in Range(l), <<d, e>> \in Prefix, e # d PROVE FALSE
  <2>1. Matches(e, l) < Matches(d, l)
    BY <1>5, ShorterMatchesFewer
  <2>2. m \in Paths /\ d \in Paths /\ e \in Paths
    BY <1>1, RangePlace
  <2>3. <<m, e>> \in Prefix
    BY <1>4, <1>5, <2>2, PrefixAssumption
  <2>4. Matches(e, l) \in T
    BY <2>3, MatchesCount
  <2>5. n <= Matches(e, l)
    BY <1>3, <2>4
  <2>6. n \in Nat /\ Matches(e, l) \in Nat
    BY MatchesCount
  <2> QED
    BY <1>4, <2>1, <2>5, <2>6
<1> QED
  BY <1>4, <1>5

\* A directory that no other is above is mounted, if it is listed once.
LEMMA TopmostIsKept ==
  ASSUME NEW l \in Seq(Paths), NEW d \in Range(l), Once(l, d),
         \A e \in Range(l) : <<d, e>> \in Prefix => e = d
  PROVE  d \in BindingDirectories(l)
<1>1. PICK k \in 1..Len(l) : l[k] = d
  BY RangePlace
<1>2. MatchPlaces(d, l) \subseteq {k}
  <2> SUFFICES ASSUME NEW j \in 1..Len(l), <<d, l[j]>> \in Prefix PROVE j = k
    BY DEF MatchPlaces
  <2>1. l[j] = d
    BY RangeIn
  <2> QED
    BY <1>1, <2>1 DEF Once
<1>3. Matches(d, l) <= 1
  <2>1. IsFiniteSet({k}) /\ Cardinality({k}) = 1
    BY FS_Singleton
  <2>2. Cardinality(MatchPlaces(d, l)) <= Cardinality({k})
    BY <1>2, <2>1, FS_Subset
  <2> QED
    BY <2>1, <2>2, MatchesCount
<1> QED
  BY <1>3 DEF BindingDirectories
-----------------------------------------------------------------------------
(* The inductive invariant. *)

\* What lies in a directory is there only while the directory is.
Standing == \A p \in dirs : \A q \in Paths : <<p, q>> \in Under => q \in dirs

\* lxd may have added d.
Added(d) == d \in Range(Xdg) /\ kind = "lxd"

\* The list l is what the user wants, but for what he changed of U.
Agrees(l, U) ==
  /\ \A d \in Paths \ U : ~Added(d) => (d \in Range(Live(l)) <=> d \in wanted)
  /\ \A d \in Paths : ~Added(d) => Once(Live(l), d)

\* a has what b has.
Same(a, b) == \A d \in Paths : ~Added(d) => (d \in Range(Live(a)) <=> d \in Range(Live(b)))

\* The session has what it read and what lxd added, and does not know what was
\* changed since.
Wants ==
  /\ Agrees(file.mounts, lost)
  /\ at # "idle" => Agrees(mem.mounts, lost \cup changed) /\ Same(mem.mounts, sum.mounts)

\* Every directory above m that is asked for is one that holds m, is listed
\* once and can be mounted.
Clean(m) ==
  \A d \in Above(m) : <<m, d>> \in Under /\ ~Twice(d) /\ ~(kind = "chroot" /\ d \in Spaced)

\* As MountsVisible, for a stopped container too: its mounts stay as they are.
Shows ==
  /\ ~dropped => \A m \in due : Clean(m) => Shown(m)
  /\ bound \subseteq Expected(asked \cup vague)

DbTypes == file \in Entries /\ mem \in Entries /\ sum \in Entries

MountTypes ==
  /\ bound \subseteq Paths /\ asked \subseteq Paths /\ vague \subseteq Paths
  /\ due \subseteq Paths /\ dropped \in BOOLEAN

NoteTypes == wanted \subseteq Paths /\ changed \subseteq Paths /\ lost \subseteq Paths

PlainTypes ==
  /\ kind \in Kinds /\ freezes \in BOOLEAN /\ remount \in BOOLEAN
  /\ power \in {"stopped", "frozen", "running"}
  /\ at \in {"idle", "opened", "start", "starting", "app", "work", "working", "worked",
             "stop", "stopping"}
  /\ dirs \subseteq Paths
  /\ commands \in 0..MaxCommands /\ starts \in 0..MaxStarts

BindInv == DbTypes /\ MountTypes /\ NoteTypes /\ PlainTypes /\ Standing /\ Wants /\ Shows

LEMMA AllTypes == BindInv => TypeOK
  BY DEF BindInv, DbTypes, MountTypes, NoteTypes, PlainTypes, TypeOK

LEMMA XdgList == Xdg \in Seq(Paths) /\ Range(Xdg) \subseteq Paths
  BY PathsAssumption, RangePlace

LEMMA InjectiveOnce ==
  ASSUME NEW l \in Seq(Paths), \A d \in Paths : Once(l, d)
  PROVE  IsInjective(l)
<1>1. ASSUME NEW j \in 1..Len(l), NEW k \in 1..Len(l), l[j] = l[k] PROVE j = k
  BY <1>1, RangeIn DEF Once
<1> QED
  BY <1>1 DEF IsInjective

LEMMA LiveSeq ==
  ASSUME NEW l \in Seq(Paths)
  PROVE  Live(l) = l /\ l \in Lists
  BY AbsentAssumption DEF Live, Lists

LEMMA EntryLists ==
  ASSUME NEW e \in Entries
  PROVE  e.mounts \in Lists /\ Live(e.mounts) \in Seq(Paths)
  BY LiveList DEF Entries

-----------------------------------------------------------------------------
(* What happens to the database. *)

LEMMA KeepsDb ==
  ASSUME DbTypes, NoteTypes, Wants, at # "idle" \/ at' = "idle",
         UNCHANGED <<kind, file, mem, sum, wanted, changed, lost>>
  PROVE  DbTypes' /\ NoteTypes' /\ Wants'
<1>1. DbTypes' /\ NoteTypes'
  BY DEF DbTypes, NoteTypes
<1> QED
  BY <1>1 DEF Wants, Agrees, Same, Added, Live

\* What holds of the new entries for the old wishes holds.
LEMMA NewDb ==
  ASSUME Agrees(file'.mounts, lost'),
         at' # "idle" => Agrees(mem'.mounts, lost' \cup changed') /\ Same(mem'.mounts, sum'.mounts),
         UNCHANGED <<kind, wanted>>
  PROVE  Wants'
  BY DEF Wants, Agrees, Same, Added, Live

LEMMA AgreesMore ==
  ASSUME NEW l, NEW U, NEW V, Agrees(l, U), U \subseteq V
  PROVE  Agrees(l, V)
  BY DEF Agrees

LEMMA SavesDb ==
  ASSUME DbTypes, NoteTypes, Wants, at # "idle", NEW s \in Statuses, Save(s),
         UNCHANGED <<kind, sum, wanted, changed>>
  PROVE  DbTypes' /\ NoteTypes' /\ Wants'
<1>1. mem' \in Entries /\ mem'.mounts = mem.mounts
  BY DEF DbTypes, Save, Entries
<1>2. \/ file' = file /\ lost' = lost
      \/ file' = mem' /\ lost' = lost \cup changed
  BY DEF Save
<1>3. lost' \subseteq Paths /\ lost \subseteq lost' /\ lost' \cup changed' = lost \cup changed
  BY <1>2 DEF NoteTypes
<1>4. DbTypes' /\ NoteTypes'
  BY <1>1, <1>2, <1>3 DEF DbTypes, NoteTypes
<1>5. Agrees(file'.mounts, lost')
  BY <1>1, <1>2 DEF Wants
<1>6. Agrees(mem'.mounts, lost' \cup changed') /\ Same(mem'.mounts, sum'.mounts)
  BY <1>1, <1>3 DEF Wants
<1> QED
  BY <1>4, <1>5, <1>6, NewDb

\* What is not read again, as the checksum is the same, is there.
LEMMA RefreshedAgrees ==
  ASSUME Wants, at # "idle"
  PROVE  Agrees(Refreshed.mounts, lost) /\ Same(Refreshed.mounts, file.mounts)
<1>1. CASE file # sum
  BY <1>1 DEF Wants, Refreshed, Same
<1>2. CASE file = sum
  BY <1>2 DEF Wants, Refreshed, Same, Agrees
<1> QED
  BY <1>1, <1>2

LEMMA RefreshesDb ==
  ASSUME DbTypes, NoteTypes, Wants, at # "idle", Refresh, UNCHANGED <<kind, file, wanted, lost>>
  PROVE  DbTypes' /\ NoteTypes' /\ Wants'
<1>1. mem' = Refreshed /\ sum' = file /\ changed' = {} /\ Refreshed \in {file, mem}
  BY DEF Refresh, Refreshed
<1>2. DbTypes' /\ NoteTypes'
  BY <1>1 DEF DbTypes, NoteTypes
<1>3. Agrees(mem'.mounts, lost' \cup changed') /\ Same(mem'.mounts, sum'.mounts)
  BY <1>1, RefreshedAgrees, AgreesMore
<1>4. Agrees(file'.mounts, lost')
  BY DEF Wants
<1> QED
  BY <1>2, <1>3, <1>4, NewDb

\* lxd adds the xdg directories to the list in memory.
LEMMA ExtendedList ==
  ASSUME NEW e \in Entries, kind = "lxd"
  PROVE  /\ [e EXCEPT !.mounts = Extended(@)] \in Entries
         /\ \A d \in Paths : ~Added(d) =>
              /\ d \in Range(Live(Extended(e.mounts))) <=> d \in Range(Live(e.mounts))
              /\ Once(Live(e.mounts), d) => Once(Live(Extended(e.mounts)), d)
<1>1. CASE e.mounts = Absent
  BY <1>1 DEF Extended, Entries
<1>2. CASE e.mounts # Absent
  <2>1. e.mounts \in Seq(Paths) /\ Extended(e.mounts) = e.mounts \o Xdg
    BY <1>2 DEF Extended, Entries, Lists
  <2> DEFINE l == e.mounts
             x == e.mounts \o Xdg
  <2>2. x \in Seq(Paths) /\ Range(x) = Range(l) \cup Range(Xdg)
    BY <2>1, XdgList, JoinedRange
  <2>3. Live(l) = l /\ Live(x) = x /\ x \in Lists
    BY <2>1, <2>2, LiveSeq
  <2>4. ASSUME NEW d \in Paths, ~Added(d), Once(l, d) PROVE Once(x, d)
    BY <2>1, <2>4, XdgList, JoinedOnce DEF Added
  <2>5. [e EXCEPT !.mounts = x] \in Entries
    BY <2>3 DEF Entries
  <2> QED
    BY <2>1, <2>2, <2>3, <2>4, <2>5 DEF Added
<1> QED
  BY <1>1, <1>2

LEMMA ExtendsDb ==
  ASSUME DbTypes, NoteTypes, Wants, at # "idle", kind = "lxd",
         mem' = [mem EXCEPT !.mounts = Extended(@)],
         UNCHANGED <<kind, file, sum, wanted, changed, lost>>
  PROVE  DbTypes' /\ NoteTypes' /\ Wants'
<1>1. mem \in Entries
  BY DEF DbTypes
<1>2. mem' \in Entries /\ mem'.mounts = Extended(mem.mounts)
  BY <1>1, ExtendedList DEF Entries
<1>3. DbTypes' /\ NoteTypes'
  BY <1>2 DEF DbTypes, NoteTypes
<1>4. /\ Agrees(mem.mounts, lost \cup changed) /\ Same(mem.mounts, sum.mounts)
      /\ Agrees(file.mounts, lost)
  BY DEF Wants
<1>5. Agrees(mem'.mounts, lost \cup changed) /\ Same(mem'.mounts, sum.mounts)
  BY <1>1, <1>2, <1>4, ExtendedList DEF Agrees, Same
<1> QED
  BY <1>3, <1>4, <1>5, NewDb

LEMMA OpensDb ==
  ASSUME DbTypes, NoteTypes, Wants, mem' = file, sum' = file, changed' = {},
         UNCHANGED <<kind, file, wanted, lost>>
  PROVE  DbTypes' /\ NoteTypes' /\ Wants'
<1>1. DbTypes' /\ NoteTypes'
  BY DEF DbTypes, NoteTypes
<1>2. Agrees(file.mounts, lost)
  BY DEF Wants
<1>3. Agrees(mem'.mounts, lost' \cup changed') /\ Same(mem'.mounts, sum'.mounts)
  BY <1>2, AgreesMore DEF Same
<1> QED
  BY <1>1, <1>2, <1>3, NewDb

\* A command that leaves the list alone.
LEMMA OtherEntry ==
  ASSUME DbTypes, NoteTypes, Wants, file' \in Entries, file'.mounts = file.mounts,
         UNCHANGED <<kind, mem, sum, at, wanted, changed, lost>>
  PROVE  DbTypes' /\ NoteTypes' /\ Wants'
<1>1. DbTypes' /\ NoteTypes'
  BY DEF DbTypes, NoteTypes
<1>2. Agrees(file'.mounts, lost)
  BY DEF Wants
<1>3. at # "idle" => Agrees(mem.mounts, lost \cup changed) /\ Same(mem.mounts, sum.mounts)
  BY DEF Wants
<1> QED
  BY <1>1, <1>2, <1>3, NewDb

\* The user changes m, and a session that has the list in memory does not know.
LEMMA MemoryOfOld ==
  ASSUME NoteTypes, Wants, NEW m \in Paths, Noted(m), UNCHANGED <<kind, mem, sum, at>>,
         \A d \in Paths \ {m} : d \in wanted' <=> d \in wanted
  PROVE  at' # "idle" =>
           Agrees(mem.mounts, lost \cup changed)' /\ Same(mem.mounts, sum.mounts)'
<1>1. m \in lost' \cup changed' /\ lost \cup changed \subseteq lost' \cup changed'
  BY DEF Noted
<1> QED
  BY <1>1 DEF Wants, Agrees, Same, Added, Live

LEMMA AddsMount ==
  ASSUME DbTypes, NoteTypes, Wants, NEW m \in Addable, AddMount(m)
  PROVE  DbTypes' /\ NoteTypes' /\ Wants'
<1> DEFINE l == Live(file.mounts)
           x == Append(l, m)
<1>1. m \in Paths /\ l \in Seq(Paths)
  BY PathsAssumption, EntryLists DEF DbTypes
<1>2. /\ m \notin Range(l) /\ file' = [file EXCEPT !.mounts = x]
      /\ wanted' = wanted \cup {m} /\ UNCHANGED <<kind, mem, sum, at>>
      /\ changed' = changed \cup {m} /\ lost' = lost \ {m}
  BY DEF AddMount, Command, Noted
<1>3. /\ x \in Seq(Paths) /\ Range(x) = Range(l) \cup {m}
      /\ \A d : Once(l, d) => Once(x, d)
  BY <1>1, <1>2, AddedList
<1>4. Live(x) = x /\ x \in Lists
  BY <1>3, LiveSeq
<1>5. file' \in Entries /\ file'.mounts = x
  BY <1>2, <1>4 DEF DbTypes, Entries
<1>6. DbTypes' /\ NoteTypes'
  BY <1>1, <1>2, <1>5 DEF DbTypes, NoteTypes
<1> HIDE DEF l, x
<1>7. /\ \A d \in Paths \ lost : ~Added(d) => (d \in Range(l) <=> d \in wanted)
      /\ \A d \in Paths : ~Added(d) => Once(l, d)
  BY DEF Wants, Agrees, l
<1>8. Agrees(file.mounts, lost)'
  BY <1>2, <1>3, <1>4, <1>5, <1>7 DEF Agrees, Added
<1>9. at' # "idle" => Agrees(mem.mounts, lost \cup changed)' /\ Same(mem.mounts, sum.mounts)'
  BY <1>1, <1>2, MemoryOfOld DEF AddMount
<1> QED
  BY <1>6, <1>8, <1>9 DEF Wants

LEMMA RemovesMount ==
  ASSUME DbTypes, NoteTypes, Wants, NEW m \in Addable, RemoveMount(m)
  PROVE  DbTypes' /\ NoteTypes' /\ Wants'
<1> DEFINE l == file.mounts
           x == Removed(l, m)
<1>1. m \in Paths
  BY PathsAssumption
<1>2. /\ m \in Range(Live(l)) /\ file' = [file EXCEPT !.mounts = x]
      /\ wanted' = wanted \ {m} /\ UNCHANGED <<kind, mem, sum, at>>
      /\ changed' = changed \cup {m} /\ lost' = lost \ {m}
  BY DEF RemoveMount, Command, Noted
<1>3. l \in Seq(Paths) /\ Live(l) = l
  BY <1>2, EmptyList DEF DbTypes, Entries, Lists, Live
<1>4. /\ x \in Seq(Paths) /\ Range(x) \subseteq Range(l) /\ Range(l) \ {m} \subseteq Range(x)
      /\ Once(l, m) => m \notin Range(x)
      /\ \A d : Once(l, d) => Once(x, d)
  BY <1>2, <1>3, RemovedRange
<1>5. Live(x) = x /\ x \in Lists
  BY <1>4, LiveSeq
<1>6. file' \in Entries /\ file'.mounts = x
  BY <1>2, <1>5 DEF DbTypes, Entries
<1>7. DbTypes' /\ NoteTypes'
  BY <1>1, <1>2, <1>6 DEF DbTypes, NoteTypes
<1>8. /\ \A d \in Paths \ lost : ~Added(d) => (d \in Range(l) <=> d \in wanted)
      /\ \A d \in Paths : ~Added(d) => Once(l, d)
  BY <1>3 DEF Wants, Agrees
<1> HIDE DEF l, x
<1>9. Agrees(file.mounts, lost)'
  BY <1>1, <1>2, <1>4, <1>5, <1>6, <1>8 DEF Agrees, Added
<1>10. at' # "idle" => Agrees(mem.mounts, lost \cup changed)' /\ Same(mem.mounts, sum.mounts)'
  BY <1>1, <1>2, MemoryOfOld DEF RemoveMount
<1> QED
  BY <1>7, <1>9, <1>10 DEF Wants

-----------------------------------------------------------------------------
(* What happens to the mounts. *)

\* What the mounts are made from when U is not known: all that is expected for
\* sure, each once but for what counts as twice, and nothing unexpected.
ListsAll(l, U) ==
  /\ l \in Seq(Paths)
  /\ Range(l) \subseteq Expected(wanted \cup U) /\ Expected(wanted \ U) \subseteq Range(l)
  /\ \A d \in Range(l) :
       \/ /\ d \in Range(Xdg)
          /\ \/ kind = "lxd"
             \/ d \in wanted \cup U
             \/ \E j, k \in 1..Len(Xdg) : j # k /\ Xdg[j] = d /\ Xdg[k] = d
       \/ Once(l, d)

LEMMA AgreeingListsAll ==
  ASSUME NEW l \in Seq(Paths), NEW U \in SUBSET Paths, wanted \subseteq Paths,
         \A d \in Paths \ U : ~Added(d) => (d \in Range(l) <=> d \in wanted),
         \A d \in Paths : ~Added(d) => Once(l, d)
  PROVE  ListsAll(l \o Xdg, U) /\ ListsAll(Xdg \o l, U)
<1> DEFINE a == l \o Xdg
           b == Xdg \o l
<1>1. /\ a \in Seq(Paths) /\ Range(a) = Range(l) \cup Range(Xdg)
      /\ b \in Seq(Paths) /\ Range(b) = Range(l) \cup Range(Xdg)
  BY XdgList, JoinedRange
<1>2. Range(l) \subseteq Expected(wanted \cup U)
  <2> SUFFICES ASSUME NEW d \in Range(l), d \notin U, d \notin Range(Xdg) PROVE d \in wanted
    BY DEF Expected
  <2>1. d \in Paths
    BY RangePlace
  <2> QED
    BY <2>1 DEF Added
<1>3. Expected(wanted \ U) \subseteq Range(l) \cup Range(Xdg)
  BY DEF Expected, Added
<1>4. ASSUME NEW d \in Range(l) \cup Range(Xdg),
             d \in Range(Xdg) => /\ kind # "lxd" /\ d \notin wanted \cup U
                                 /\ ~ \E j, k \in 1..Len(Xdg) : j # k /\ Xdg[j] = d /\ Xdg[k] = d
      PROVE  Once(a, d) /\ Once(b, d)
  <2>0. d \in Paths
    BY RangePlace, XdgList
  <2>1. CASE d \in Range(Xdg)
    <3>1. Once(Xdg, d)
      BY <1>4, <2>1 DEF Once
    <3>2. d \notin Range(l)
      BY <1>4, <2>0, <2>1 DEF Added
    <3> QED
      BY <3>1, <3>2, XdgList, JoinedOnce
  <2>2. CASE d \notin Range(Xdg)
    <3>1. Once(l, d)
      BY <2>0, <2>2 DEF Added
    <3> QED
      BY <2>2, <3>1, XdgList, JoinedOnce
  <2> QED
    BY <2>1, <2>2
<1>5. Range(l) \cup Range(Xdg) \subseteq Expected(wanted \cup U)
  BY <1>2 DEF Expected
<1> HIDE DEF a, b
<1>6. ListsAll(a, U) /\ ListsAll(b, U)
  BY <1>1, <1>3, <1>4, <1>5 DEF ListsAll
<1> QED
  BY <1>6 DEF a, b

LEMMA EntryListsAll ==
  ASSUME NoteTypes, NEW e \in Entries, NEW U \in SUBSET Paths, Agrees(e.mounts, U)
  PROVE  ListsAll(Live(e.mounts) \o Xdg, U) /\ ListsAll(Xdg \o Live(e.mounts), U)
<1>1. Live(e.mounts) \in Seq(Paths)
  BY EntryLists
<1> QED
  BY <1>1, AgreeingListsAll DEF Agrees, NoteTypes

\* The mounts that are made show what is asked for, and nothing else.
LEMMA MakeShows ==
  ASSUME PlainTypes, NoteTypes, Standing, NEW l, NEW U \in SUBSET Paths, ListsAll(l, U), Make(l, U),
         UNCHANGED <<kind, dirs>>
  PROVE  Shows' /\ MountTypes'
<1>1. /\ bound' = Mounted(l) /\ asked' = wanted /\ vague' = U
      /\ due' = Expected(wanted \ U) \cap There /\ dropped' = FALSE
  BY DEF Make, Devices
<1>2. /\ l \in Seq(Paths) /\ Range(l) \subseteq Expected(wanted \cup U)
      /\ Expected(wanted \ U) \subseteq Range(l)
  BY DEF ListsAll
<1>3. bound' \subseteq Expected(asked' \cup vague') /\ bound' \subseteq Paths
  BY <1>1, <1>2, RangePlace DEF Mounted, BindingDirectories
<1>4. ASSUME NEW m \in due', Clean(m)' PROVE Shown(m)'
  <2>1. m \in Range(l) /\ m \in There
    BY <1>1, <1>2
  <2>2. PICK d \in Range(l) :
          /\ <<m, d>> \in Prefix
          /\ \A e \in Range(l) : <<d, e>> \in Prefix => e = d
    BY <1>2, <2>1, TopmostDirectory
  <2>3. d \in Paths
    BY <1>2, RangePlace
  <2>4. d \in Above(m)'
    BY <1>1, <1>2, <2>2 DEF Above, Expected
  <2>5. <<m, d>> \in Under /\ ~Twice(d)' /\ ~(kind' = "chroot" /\ d \in Spaced)
    BY <1>4, <2>4 DEF Clean
  <2>6. Once(l, d)
    BY <1>1, <2>2, <2>5 DEF ListsAll, Twice
  <2>7. d \in BindingDirectories(l)
    BY <1>2, <2>2, <2>6, TopmostIsKept
  <2>8. d \in There
    BY <2>1, <2>3, <2>5 DEF Standing, There
  <2>9. d \in bound'
    BY <1>1, <2>5, <2>7, <2>8 DEF Mounted
  <2> QED
    BY <2>5, <2>9 DEF Shown
<1>5. due' \subseteq Paths
  BY <1>1, XdgList DEF Expected, NoteTypes
<1> QED
  BY <1>1, <1>3, <1>4, <1>5 DEF Shows, MountTypes, NoteTypes

LEMMA KeptMounts ==
  ASSUME MountTypes, Shows, UNCHANGED <<kind, mounts>>
  PROVE  Shows' /\ MountTypes'
<1>0. UNCHANGED <<bound, asked, vague, due, dropped>>
  BY DEF mounts
<1>1. ASSUME NEW m PROVE Clean(m)' <=> Clean(m)
  BY <1>0 DEF Clean, Above, Twice, Expected
<1>2. ASSUME NEW m PROVE Shown(m)' <=> Shown(m)
  BY <1>0 DEF Shown
<1> QED
  BY <1>0, <1>1, <1>2 DEF Shows, MountTypes, Expected

\* What was there when the mounts were made and still is stays visible.
LEMMA RemountShows ==
  ASSUME MountTypes, Standing, Shows, Remount, UNCHANGED kind
  PROVE  Shows' /\ MountTypes'
<1>0. bound' = bound \cap dirs /\ due' = due \cap dirs /\ UNCHANGED <<asked, vague, dropped>>
  BY DEF Remount
<1>1. ASSUME NEW m PROVE Clean(m)' <=> Clean(m)
  BY <1>0 DEF Clean, Above, Twice, Expected
<1>2. ASSUME NEW m \in due', Shown(m) PROVE Shown(m)'
  <2>1. PICK b \in bound : <<m, b>> \in Under
    BY <1>2 DEF Shown
  <2>2. b \in dirs
    BY <1>0, <1>2, <2>1 DEF Standing, MountTypes
  <2> QED
    BY <1>0, <2>1, <2>2 DEF Shown
<1>3. ASSUME ~dropped', NEW m \in due', Clean(m)' PROVE Shown(m)'
  <2>1. Shown(m)
    BY <1>0, <1>1, <1>3 DEF Shows
  <2> QED
    BY <1>2, <2>1
<1>4. bound' \subseteq Expected(asked \cup vague)'
  BY <1>0 DEF Shows, Expected
<1> QED
  BY <1>0, <1>3, <1>4 DEF Shows, MountTypes

LEMMA UpdatedMounts ==
  ASSUME BindInv, at # "idle", UpdateBindMounts, UNCHANGED <<kind, dirs>>
  PROVE  Shows' /\ MountTypes'
<1>1. CASE Make(Live(mem.mounts) \o Xdg, lost \cup changed)
  <2>1. mem \in Entries /\ Agrees(mem.mounts, lost \cup changed) /\ lost \cup changed \in SUBSET Paths
    BY DEF BindInv, DbTypes, NoteTypes, Wants
  <2>2. ListsAll(Live(mem.mounts) \o Xdg, lost \cup changed)
    BY <2>1, EntryListsAll DEF BindInv
  <2> QED
    BY <1>1, <2>1, <2>2, MakeShows DEF BindInv
<1>2. CASE UNCHANGED mounts
  BY <1>2, KeptMounts DEF BindInv
<1> QED
  BY <1>1, <1>2 DEF UpdateBindMounts

LEMMA RestartedMounts ==
  ASSUME BindInv, Restart \/ Configured \/ UNCHANGED <<power, mounts>>, UNCHANGED kind
  PROVE  Shows' /\ MountTypes' /\ power' \in {"stopped", "frozen", "running"}
<1>1. \/ bound' = {} /\ dropped' = TRUE /\ UNCHANGED <<asked, vague, due>>
      \/ Remount
      \/ UNCHANGED mounts
  BY DEF Restart, Configured
<1>2. power' \in {"stopped", "frozen", "running"}
  BY DEF Restart, Configured, Rested, BindInv, PlainTypes
<1>3. CASE bound' = {} /\ dropped' = TRUE /\ UNCHANGED <<asked, vague, due>>
  BY <1>2, <1>3 DEF BindInv, Shows, MountTypes
<1>4. CASE Remount
  BY <1>2, <1>4, RemountShows DEF BindInv
<1>5. CASE UNCHANGED mounts
  BY <1>2, <1>5, KeptMounts DEF BindInv
<1> QED
  BY <1>1, <1>3, <1>4, <1>5

-----------------------------------------------------------------------------
(* The steps. *)

LEMMA InitBind == Init => BindInv
<1> SUFFICES ASSUME Init PROVE BindInv
  OBVIOUS
<1>1. New \in Entries /\ Live(New.mounts) = <<>>
  BY DEF New, Entries, Lists, Statuses, Live
<1>2. DbTypes
  BY <1>1 DEF Init, DbTypes
<1>3. Wants
  BY <1>1, EmptyList DEF Init, Wants, Agrees, Same
<1>4. PlainTypes
  <2>1. commands = 0 /\ starts = 0 /\ commands \in 0..MaxCommands /\ starts \in 0..MaxStarts
    BY BoundsAssumption DEF Init
  <2> QED
    BY <2>1 DEF Init, PlainTypes
<1>5. MountTypes /\ NoteTypes /\ Standing /\ Shows
  BY DEF Init, MountTypes, NoteTypes, Standing, Shows
<1> QED
  BY <1>2, <1>3, <1>4, <1>5 DEF BindInv

\* A step of a session leaves the directories of the host alone.
LEMMA FixedStands ==
  ASSUME Standing, UNCHANGED dirs
  PROVE  Standing'
  BY DEF Standing

LEMMA OpenStep == ASSUME BindInv, OpenSession PROVE BindInv'
<1>1. Shows' /\ MountTypes'
  BY KeptMounts DEF BindInv, OpenSession
<1>2. DbTypes' /\ NoteTypes' /\ Wants'
  BY OpensDb DEF BindInv, OpenSession
<1>3. PlainTypes'
  <2>1. freezes' \in BOOLEAN
    BY DEF BindInv, DbTypes, Entries, OpenSession
  <2> QED
    BY <2>1, BoundsAssumption DEF BindInv, PlainTypes, OpenSession, Move
<1> QED
  BY <1>1, <1>2, <1>3, FixedStands DEF BindInv, OpenSession

LEMMA FixedTypes ==
  ASSUME PlainTypes, Fixed, freezes' = freezes, remount' \in BOOLEAN,
         power' \in {"stopped", "frozen", "running"},
         at' \in {"idle", "opened", "start", "starting", "app", "work", "working", "worked",
                  "stop", "stopping"}
  PROVE  PlainTypes'
  BY DEF PlainTypes, Fixed

\* Steps that make mounts.
LEMMA ChrootStep == ASSUME BindInv, StartChroot PROVE BindInv'
<1>1. file \in Entries /\ Agrees(file.mounts, lost) /\ lost \in SUBSET Paths
  BY DEF BindInv, DbTypes, NoteTypes, Wants
<1>2. ListsAll(Xdg \o Live(file.mounts), lost)
  BY <1>1, EntryListsAll DEF BindInv
<1>3. Shows' /\ MountTypes'
  BY <1>1, <1>2, MakeShows DEF BindInv, StartChroot, Fixed
<1>4. DbTypes' /\ NoteTypes' /\ Wants'
  BY KeepsDb DEF BindInv, StartChroot, Untouched, Fixed, Move
<1>5. PlainTypes'
  BY FixedTypes DEF BindInv, PlainTypes, StartChroot, Move
<1> QED
  BY <1>3, <1>4, <1>5, FixedStands DEF BindInv, StartChroot, Fixed

LEMMA LxcStep == ASSUME BindInv, StartLxc PROVE BindInv'
<1>0. at # "idle"
  BY DEF StartLxc, Move
<1>1. Refreshed \in Entries /\ Agrees(Refreshed.mounts, lost) /\ lost \in SUBSET Paths
  BY <1>0, RefreshedAgrees DEF BindInv, DbTypes, NoteTypes, Refreshed
<1>2. ListsAll(Xdg \o Live(Refreshed.mounts), lost)
  BY <1>1, EntryListsAll DEF BindInv
<1>3. Shows' /\ MountTypes'
  BY <1>1, <1>2, MakeShows DEF BindInv, StartLxc, Fixed
<1>4. DbTypes' /\ NoteTypes' /\ Wants'
  BY <1>0, RefreshesDb DEF BindInv, StartLxc, Fixed
<1>5. PlainTypes'
  BY FixedTypes DEF BindInv, PlainTypes, StartLxc, Move
<1> QED
  BY <1>3, <1>4, <1>5, FixedStands DEF BindInv, StartLxc, Fixed

LEMMA LxdStep == ASSUME BindInv, StartLxd PROVE BindInv'
<1>0. at # "idle"
  BY DEF StartLxd, Move
<1>1. Shows' /\ MountTypes'
  BY <1>0, UpdatedMounts DEF StartLxd, Fixed
<1>2. DbTypes' /\ NoteTypes' /\ Wants'
  BY <1>0, ExtendsDb DEF BindInv, StartLxd, UpdateBindMounts, Fixed
<1>3. PlainTypes'
  BY FixedTypes DEF BindInv, PlainTypes, StartLxd, Move
<1> QED
  BY <1>1, <1>2, <1>3, FixedStands DEF BindInv, StartLxd, Fixed

LEMMA PackagesStep == ASSUME BindInv, UpdatePackages PROVE BindInv'
<1>0. at # "idle"
  BY DEF UpdatePackages, Move
<1>1. Shows' /\ MountTypes'
  BY <1>0, UpdatedMounts, KeptMounts DEF BindInv, UpdatePackages, Frame, Fixed
<1>2. DbTypes' /\ NoteTypes' /\ Wants'
  <2>1. CASE kind = "lxd"
    BY <1>0, <2>1, ExtendsDb DEF BindInv, UpdatePackages, UpdateBindMounts, Frame, Fixed
  <2>2. CASE kind # "lxd"
    BY <1>0, <2>2, KeepsDb DEF BindInv, UpdatePackages, Frame, Fixed
  <2> QED
    BY <2>1, <2>2
<1>3. PlainTypes'
  BY FixedTypes DEF BindInv, PlainTypes, UpdatePackages, Move, Frame
<1> QED
  BY <1>1, <1>2, <1>3, FixedStands DEF BindInv, UpdatePackages, Frame, Fixed

\* Steps that write the database.
LEMMA SaveStep ==
  ASSUME BindInv, at # "idle", NEW s \in Statuses, Save(s), Frame,
         Remount \/ UNCHANGED mounts, power' \in {"stopped", "frozen", "running"},
         at' \in {"idle", "opened", "start", "starting", "app", "work", "working", "worked",
                  "stop", "stopping"}
  PROVE  BindInv'
<1>1. Shows' /\ MountTypes'
  BY KeptMounts, RemountShows DEF BindInv, Frame, Fixed
<1>2. DbTypes' /\ NoteTypes' /\ Wants'
  BY SavesDb DEF BindInv, Frame, Fixed
<1>3. PlainTypes'
  BY FixedTypes DEF BindInv, PlainTypes, Frame
<1> QED
  BY <1>1, <1>2, <1>3, FixedStands DEF BindInv, Frame, Fixed

\* Steps that leave the database as it is.
LEMMA QuietStep ==
  ASSUME BindInv, at # "idle", UNCHANGED <<file, mem, sum, changed, lost, freezes, mounts>>, Fixed,
         remount' \in BOOLEAN, power' \in {"stopped", "frozen", "running"},
         at' \in {"idle", "opened", "start", "starting", "app", "work", "working", "worked",
                  "stop", "stopping"}
  PROVE  BindInv'
<1>1. Shows' /\ MountTypes'
  BY KeptMounts DEF BindInv, Fixed
<1>2. DbTypes' /\ NoteTypes' /\ Wants'
  BY KeepsDb DEF BindInv, Fixed
<1>3. PlainTypes'
  BY FixedTypes DEF BindInv
<1> QED
  BY <1>1, <1>2, <1>3, FixedStands DEF BindInv, Fixed

LEMMA StartSteps ==
  ASSUME BindInv,
         \/ WorkInChroot \/ FindRunning \/ FindFrozen \/ AnnounceStart \/ Started \/ StartFails
  PROVE  BindInv'
<1>0. /\ power \in {"stopped", "frozen", "running"} /\ remount \in BOOLEAN
      /\ {"stopped", "frozen", "running", "starting"} \subseteq Statuses
  BY DEF BindInv, PlainTypes, Statuses
<1>1. CASE WorkInChroot
  BY <1>0, <1>1, SaveStep DEF WorkInChroot, Move
<1>2. CASE FindRunning
  BY <1>0, <1>2, QuietStep DEF FindRunning, Untouched
<1>3. CASE FindFrozen
  BY <1>0, <1>3, QuietStep DEF FindFrozen, Untouched, Move
<1>4. CASE AnnounceStart
  BY <1>0, <1>4, SaveStep DEF AnnounceStart, Move
<1>5. CASE Started
  BY <1>0, <1>5, SaveStep DEF Started
<1>6. CASE StartFails
  <2>1. CASE kind = "lxd"
    BY <1>0, <1>6, <2>1, QuietStep DEF StartFails, Frame, Move
  <2>2. CASE kind # "lxd"
    BY <1>0, <1>6, <2>2, SaveStep DEF StartFails, Move
  <2> QED
    BY <2>1, <2>2
<1> QED
  BY <1>1, <1>2, <1>3, <1>4, <1>5, <1>6

LEMMA WorkSteps ==
  ASSUME BindInv, BeginWork \/ FinishPackages \/ StopChroot \/ AnnounceStop \/ Stopped
  PROVE  BindInv'
<1>0. /\ power \in {"stopped", "frozen", "running"} /\ remount \in BOOLEAN
      /\ {"stopped", "frozen", "running", "working", "stopping", "ready"} \subseteq Statuses
  BY DEF BindInv, PlainTypes, Statuses
<1>1. CASE BeginWork
  BY <1>0, <1>1, SaveStep DEF BeginWork, Move
<1>2. CASE FinishPackages
  BY <1>0, <1>2, SaveStep DEF FinishPackages, Move
<1>3. CASE StopChroot
  <2>1. CASE at = "worked"
    BY <1>0, <1>3, <2>1, SaveStep DEF StopChroot
  <2>2. CASE at # "worked"
    BY <1>0, <1>3, <2>2, QuietStep DEF StopChroot, Frame
  <2> QED
    BY <2>1, <2>2
<1>4. CASE AnnounceStop
  BY <1>0, <1>4, SaveStep DEF AnnounceStop, Move
<1>5. CASE Stopped
  <2>0. power' \in {"stopped", "frozen", "running"}
    BY <1>0, <1>5 DEF Stopped, Rested
  <2>1. CASE Save(power')
    BY <1>0, <1>5, <2>0, <2>1, SaveStep DEF Stopped, Move
  <2>2. CASE UNCHANGED <<file, mem, lost>>
    BY <1>0, <1>5, <2>0, <2>2, QuietStep DEF Stopped, Frame, Move
  <2> QED
    BY <1>5, <2>1, <2>2 DEF Stopped
<1> QED
  BY <1>1, <1>2, <1>3, <1>4, <1>5

LEMMA StopStep == ASSUME BindInv, StopContainer PROVE BindInv'
<1>0. at # "idle"
  BY DEF StopContainer
<1>1. Shows' /\ MountTypes'
  BY KeptMounts DEF BindInv, StopContainer, Fixed
<1>2. DbTypes' /\ NoteTypes' /\ Wants'
  BY <1>0, RefreshesDb DEF BindInv, StopContainer, Fixed
<1>3. PlainTypes'
  BY FixedTypes DEF BindInv, PlainTypes, StopContainer
<1> QED
  BY <1>1, <1>2, <1>3, FixedStands DEF BindInv, StopContainer, Fixed

LEMMA CommandStep ==
  ASSUME BindInv, Command, Shows', MountTypes', DbTypes', NoteTypes', Wants',
         power' \in {"stopped", "frozen", "running"}
  PROVE  BindInv'
<1>1. PlainTypes'
  BY BoundsAssumption DEF BindInv, PlainTypes, Command
<1> QED
  BY <1>1, FixedStands DEF BindInv, Command

LEMMA CommandsStep ==
  ASSUME BindInv,
         \/ \E m \in Addable : AddMount(m) \/ RemoveMount(m)
         \/ SetFreeze \/ RestartCommand \/ WorkElsewhere
  PROVE  BindInv'
<1>1. CASE \E m \in Addable : AddMount(m)
  <2>1. PICK m \in Addable : AddMount(m)
    BY <1>1
  <2>2. Command /\ Configured /\ UNCHANGED kind
    BY <2>1 DEF AddMount, Command
  <2>3. DbTypes' /\ NoteTypes' /\ Wants'
    BY <2>1, AddsMount DEF BindInv
  <2> QED
    BY <2>2, <2>3, RestartedMounts, CommandStep
<1>2. CASE \E m \in Addable : RemoveMount(m)
  <2>1. PICK m \in Addable : RemoveMount(m)
    BY <1>2
  <2>2. Command /\ Configured /\ UNCHANGED kind
    BY <2>1 DEF RemoveMount, Command
  <2>3. DbTypes' /\ NoteTypes' /\ Wants'
    BY <2>1, RemovesMount DEF BindInv
  <2> QED
    BY <2>2, <2>3, RestartedMounts, CommandStep
<1>3. CASE SetFreeze \/ RestartCommand \/ WorkElsewhere
  <2>1. /\ Command /\ UNCHANGED <<kind, mem, sum, at, wanted, changed, lost>>
        /\ Restart \/ UNCHANGED <<power, mounts>>
    BY <1>3 DEF SetFreeze, RestartCommand, WorkElsewhere, Command
  <2>2. file' \in Entries /\ file'.mounts = file.mounts
    BY <1>3 DEF SetFreeze, RestartCommand, WorkElsewhere, BindInv, DbTypes, Entries, Statuses
  <2>3. DbTypes' /\ NoteTypes' /\ Wants'
    BY <2>1, <2>2, OtherEntry DEF BindInv
  <2> QED
    BY <2>1, <2>3, RestartedMounts, CommandStep
<1> QED
  BY <1>1, <1>2, <1>3

LEMMA HostStep ==
  ASSUME BindInv, ChangeDirs \/ PowerOff \/ UNCHANGED vars
  PROVE  BindInv'
<1>1. /\ UNCHANGED <<kind, file, mem, sum, at, mounts, wanted, changed, lost>>
      /\ UNCHANGED <<freezes, remount, commands, starts>>
      /\ power' \in {power, "stopped"} /\ (dirs' = dirs \/ dirs' \subseteq Paths)
  BY DEF ChangeDirs, PowerOff, Untouched, vars
<1>2. Standing'
  BY DEF ChangeDirs, PowerOff, vars, BindInv, Standing
<1>3. Shows' /\ MountTypes'
  BY <1>1, KeptMounts DEF BindInv
<1>4. DbTypes' /\ NoteTypes' /\ Wants'
  BY <1>1, KeepsDb DEF BindInv
<1>5. PlainTypes'
  BY <1>1 DEF BindInv, PlainTypes
<1> QED
  BY <1>2, <1>3, <1>4, <1>5 DEF BindInv

LEMMA NextBind == BindInv /\ [Next]_vars => BindInv'
  BY OpenStep, ChrootStep, LxcStep, LxdStep, StartSteps, PackagesStep, WorkSteps, StopStep,
     CommandsStep, HostStep DEF Next, Session

LEMMA BindHolds == Spec => []BindInv
  BY InitBind, NextBind, PTL DEF Spec

\* Every variable keeps its type.
THEOREM BindTypes == Spec => []TypeOK
  BY AllTypes, BindHolds, PTL

\* The bindMounts in the database are what the user added and did not
\* remove, for chroot and lxc nothing else and each once, for lxd with the xdg
\* directories that update_bind_mounts keeps adding (LxdContainer.py), although
\* sessions write all of it from memory and refresh_database trusts a checksum:
\* what is lost was changed after the session had read it.
THEOREM ListStaysWanted == Spec => []ListIsWanted
<1>1. BindInv => ListIsWanted
  <2> SUFFICES ASSUME BindInv PROVE ListIsWanted
    OBVIOUS
  <2>1. Live(file.mounts) \in Seq(Paths)
    BY EntryLists DEF BindInv, DbTypes
  <2>2. Agrees(file.mounts, lost)
    BY DEF BindInv, Wants
  <2>3. kind # "lxd" => IsInjective(Live(file.mounts))
    BY <2>1, <2>2, InjectiveOnce DEF Agrees, Added
  <2> QED
    BY <2>2, <2>3 DEF Agrees, Added, ListIsWanted
<1> QED
  BY <1>1, BindHolds, PTL

\* What generate_binding_directories leaves out of a list is below something
\* that it keeps: a directory asked for and there when the mounts were made
\* is found in the container until they are made anew, and nothing is found
\* there that was not asked for, for any paths, prefixes and lists, and
\* whatever xdg-user-dir prints.
THEOREM AskedIsShown == Spec => []ShowsWhatWasAsked
<1>1. BindInv => ShowsWhatWasAsked
  BY DEF BindInv, Shows, Clean, ShowsWhatWasAsked, MountsVisible, NothingUnwanted
<1> QED
  BY <1>1, BindHolds, PTL
=============================================================================
