---------------------------- MODULE DbFileProofs ----------------------------
(***************************************************************************)
(* DbFile for any processes, lengths of the databases and number of tries: *)
(* types, that the lock keeps the file sound, and that a refresh finds     *)
(* what is there.                                                          *)
(***************************************************************************)
EXTENDS DbFile, TLAPS

-----------------------------------------------------------------------------
(* Types and the lock. *)

\* Whoever is between taking the lock and closing the file holds the lock.
Locked == \A p \in Procs : pc[p] \in {"load", "dump", "close"} <=> flock = p

\* Whoever asks for the lock has a try left.
Trying == \A p \in Procs : pc[p] \in {"read", "readlock", "open", "writelock"} => tries[p] < MaxTries

\* How far a writer has come.
Writes ==
  \A p \in Procs : /\ pc[p] = "dump" => written < Size[mem[p]]
                   /\ pc[p] = "close" => written = Size[mem[p]]

LockInv == TypeOK /\ Locked /\ Trying /\ Writes

LEMMA SizeType == \A v \in Versions : Size[v] \in Nat \ {0}
  BY SizeAssumption DEF Versions

LEMMA WholeType == \A v \in Versions : Whole(v) \in Files /\ Len(Whole(v)) = Size[v]
<1> SUFFICES ASSUME NEW v \in Versions PROVE Whole(v) \in Files /\ Len(Whole(v)) = Size[v]
  OBVIOUS
<1> DEFINE n == Size[v]
<1>1. n \in Nat
  BY SizeType
<1> HIDE DEF n
<1>2. [k \in 1..n |-> v] \in Seq(Versions \cup {Hole}) /\ Len([k \in 1..n |-> v]) = n
  BY <1>1
<1> QED
  BY <1>2 DEF n, Whole, Files

LEMMA InitLock == Init => LockInv
<1> SUFFICES ASSUME Init PROVE LockInv
  OBVIOUS
<1>1. Whole(Fresh) \in Files /\ <<>> \in Files
  BY WholeType DEF Fresh, Versions, Files
<1>2. Fresh \in Versions
  BY DEF Fresh, Versions
<1> DEFINE fresh == Whole(Fresh)
<1> HIDE DEF fresh
<1>3. mem \in [Procs -> Versions] /\ pc \in [Procs -> PCs]
  BY <1>2 DEF Init, PCs
<1>4. file = fresh /\ checksum = [p \in Procs |-> fresh] /\ hash = [p \in Procs |-> <<>>]
  BY DEF Init, fresh
<1>5. file \in Files /\ checksum \in [Procs -> Files] /\ hash \in [Procs -> Files]
  BY <1>1, <1>4 DEF fresh
<1>6. /\ tries \in [Procs -> 0..MaxTries] /\ ops \in 0..MaxOps /\ written \in Nat
      /\ flock \in Procs \cup {Nobody}
  BY MaxTriesAssumption, MaxOpsAssumption DEF Init
<1>7. quiet \in [Procs -> BOOLEAN] /\ botched \in BOOLEAN
  BY DEF Init
<1>8. TypeOK
  BY <1>3, <1>5, <1>6, <1>7 DEF TypeOK
<1> QED
  BY <1>8, NobodyAssumption, MaxTriesAssumption DEF Init, LockInv, Locked, Trying, Writes

LEMMA RefreshLock ==
  ASSUME LockInv, NEW p \in Procs, BeginRefresh(p) \/ Hash(p) \/ HashLock(p) \/ Compare(p)
  PROVE  LockInv'
<1>1. CASE BeginRefresh(p)
  BY <1>1, MaxOpsAssumption DEF LockInv, TypeOK, Locked, Trying, Writes, BeginRefresh, Goto, PCs
<1>2. CASE Hash(p)
  <2>1. <<>> \in Files
    BY DEF Files
  <2> QED
    BY <1>2, <2>1 DEF LockInv, TypeOK, Locked, Trying, Writes, Hash, Goto, PCs
<1>3. CASE HashLock(p)
  BY <1>3 DEF LockInv, TypeOK, Locked, Trying, Writes, HashLock, Goto, PCs
<1>4. CASE Compare(p)
  BY <1>4, MaxTriesAssumption DEF LockInv, TypeOK, Locked, Trying, Writes, Compare, Goto, PCs
<1> QED
  BY <1>1, <1>2, <1>3, <1>4

\* What json.load accepts it takes for the database that is written there.
LEMMA ParsedBlock ==
  ASSUME file \in Files, Parses(file) PROVE file[1] \in Versions /\ file = Whole(file[1])
<1>1. PICK v \in Versions : file = Whole(v)
  BY DEF Parses
<1>2. Size[v] \in Nat \ {0}
  BY SizeType
<1>3. file[1] = v
  BY <1>1, <1>2 DEF Whole
<1> QED
  BY <1>1, <1>3

LEMMA ReadsLock ==
  ASSUME LockInv, NEW p \in Procs, Read(p) \/ ReadLock(p) \/ Load(p)
  PROVE  LockInv'
<1>0. Fresh \in Versions
  BY DEF Fresh, Versions
<1>1. CASE Read(p)
  <2>1. mem' \in [Procs -> Versions] /\ checksum' \in [Procs -> Files]
    BY <1>0, <1>1 DEF LockInv, TypeOK, Read, Take
  <2>2. \A q \in Procs \ {p} : mem'[q] = mem[q]
    BY <1>1 DEF LockInv, TypeOK, Read, Take
  <2> QED
    BY <1>1, <2>1, <2>2 DEF LockInv, TypeOK, Locked, Trying, Writes, Read, Goto, PCs
<1>2. CASE ReadLock(p)
  <2>1. CASE Free /\ flock' = p /\ Goto(p, "load") /\ UNCHANGED <<tries, mem, checksum, quiet>>
    BY <1>2, <2>1, NobodyAssumption
    DEF LockInv, TypeOK, Locked, Trying, Writes, ReadLock, Free, Goto, PCs
  <2>2. CASE /\ Retry(p, "readlock")
             /\ IF tries'[p] = MaxTries
                  THEN Take(p, Fresh) /\ quiet' = [quiet EXCEPT ![p] = FALSE]
                  ELSE UNCHANGED <<mem, checksum, quiet>>
             /\ UNCHANGED flock
    <3>1. tries' \in [Procs -> 0..MaxTries] /\ tries'[p] = tries[p] + 1
      BY <1>2, <2>2, MaxTriesAssumption DEF LockInv, TypeOK, Trying, ReadLock, Retry
    <3>2. /\ mem' \in [Procs -> Versions] /\ checksum' \in [Procs -> Files]
          /\ \A q \in Procs \ {p} : mem'[q] = mem[q]
      BY <1>0, <2>2 DEF LockInv, TypeOK, Take
    <3>q. quiet' \in [Procs -> BOOLEAN]
      BY <2>2 DEF LockInv, TypeOK
    <3>3. TypeOK'
      BY <1>2, <2>2, <3>1, <3>2, <3>q DEF LockInv, TypeOK, ReadLock, Retry, Goto, PCs
    <3>4. Trying'
      BY <1>2, <2>2, <3>1, MaxTriesAssumption DEF LockInv, TypeOK, Trying, ReadLock, Retry, Goto
    <3>5. Locked' /\ Writes'
      BY <1>2, <2>2, <3>2 DEF LockInv, TypeOK, Locked, Writes, ReadLock, Retry, Goto
    <3> QED
      BY <3>3, <3>4, <3>5 DEF LockInv
  <2> QED
    BY <1>2, <2>1, <2>2 DEF ReadLock
<1>3. CASE Load(p)
  <2>1. mem' \in [Procs -> Versions] /\ checksum' \in [Procs -> Files]
    BY <1>3, ParsedBlock DEF LockInv, TypeOK, Load, Take
  <2>2. \A q \in Procs \ {p} : mem'[q] = mem[q]
    BY <1>3 DEF LockInv, TypeOK, Load, Take
  <2> QED
    BY <1>3, <2>1, <2>2, NobodyAssumption
    DEF LockInv, TypeOK, Locked, Trying, Writes, Load, Goto, PCs
<1> QED
  BY <1>1, <1>2, <1>3

\* json.dump, block by block.
LEMMA DumpedFile ==
  ASSUME LockInv, NEW p \in Procs, Dump(p)
  PROVE  /\ file' \in Files
         /\ Len(file') = (IF Len(file) < written + 1 THEN written + 1 ELSE Len(file))
         /\ \A k \in 1..Len(file') :
              file'[k] = (IF k = written + 1 THEN mem[p]
                          ELSE IF k <= Len(file) THEN file[k] ELSE Hole)
<1> DEFINE len == IF Len(file) < written + 1 THEN written + 1 ELSE Len(file)
           block(k) == IF k = written + 1 THEN mem[p]
                       ELSE IF k <= Len(file) THEN file[k] ELSE Hole
<1>1. file \in Seq(Versions \cup {Hole}) /\ written \in Nat /\ mem[p] \in Versions
  BY DEF LockInv, TypeOK, Files
<1>2. file' = [k \in 1..len |-> block(k)]
  BY DEF Dump, Position
<1>3. len \in Nat /\ \A k \in 1..len : block(k) \in Versions \cup {Hole}
  BY <1>1
<1> HIDE DEF len, block
<1>4. file' \in Seq(Versions \cup {Hole}) /\ Len(file') = len /\ \A k \in 1..len : file'[k] = block(k)
  BY <1>2, <1>3
<1> QED
  BY <1>4 DEF len, block, Files

LEMMA WritesLock ==
  ASSUME LockInv, NEW p \in Procs,
         BeginWrite(p) \/ OpenForWriting(p) \/ WriteLock(p) \/ Dump(p) \/ Close(p)
  PROVE  LockInv'
<1>1. CASE BeginWrite(p)
  <2>1. mem' \in [Procs -> Versions] /\ \A q \in Procs \ {p} : mem'[q] = mem[q]
    BY <1>1 DEF LockInv, TypeOK, BeginWrite, Versions
  <2> QED
    BY <1>1, <2>1, MaxTriesAssumption, MaxOpsAssumption
    DEF LockInv, TypeOK, Locked, Trying, Writes, BeginWrite, Goto, PCs
<1>2. CASE OpenForWriting(p)
  <2>1. <<>> \in Files
    BY DEF Files
  <2> QED
    BY <1>2, <2>1 DEF LockInv, TypeOK, Locked, Trying, Writes, OpenForWriting, Disturb, Goto, PCs
<1>3. CASE WriteLock(p)
  <2>1. CASE /\ Free /\ flock' = p /\ written' = 0 /\ Goto(p, "dump") /\ UNCHANGED tries
             /\ botched' = (botched \/ LeavesATail(p))
    <3>1. Size[mem[p]] \in Nat \ {0}
      BY SizeType DEF LockInv, TypeOK
    <3>2. botched' \in BOOLEAN
      BY <2>1
    <3>3. TypeOK'
      BY <1>3, <2>1, <3>2 DEF LockInv, TypeOK, WriteLock, Goto, PCs
    <3>4. Locked' /\ Trying'
      BY <1>3, <2>1, NobodyAssumption DEF LockInv, TypeOK, Locked, Trying, WriteLock, Free, Goto
    <3>5. Writes'
      BY <1>3, <2>1, <3>1, NobodyAssumption DEF LockInv, TypeOK, Locked, Writes, WriteLock, Free, Goto
    <3> QED
      BY <3>3, <3>4, <3>5 DEF LockInv
  <2>2. CASE /\ Retry(p, "open")
             /\ botched' = (botched \/ tries'[p] = MaxTries)
             /\ UNCHANGED <<flock, written>>
    <3>1. tries' \in [Procs -> 0..MaxTries] /\ tries'[p] = tries[p] + 1
      BY <1>3, <2>2, MaxTriesAssumption DEF LockInv, TypeOK, Trying, WriteLock, Retry
    <3>2. botched' \in BOOLEAN
      BY <2>2
    <3>3. TypeOK'
      BY <1>3, <2>2, <3>1, <3>2 DEF LockInv, TypeOK, WriteLock, Retry, Goto, PCs
    <3>4. Trying'
      BY <1>3, <2>2, <3>1, MaxTriesAssumption DEF LockInv, TypeOK, Trying, WriteLock, Retry, Goto
    <3> QED
      BY <1>3, <2>2, <3>3, <3>4 DEF LockInv, TypeOK, Locked, Writes, WriteLock, Retry, Goto
  <2> QED
    BY <1>3, <2>1, <2>2 DEF WriteLock
<1>4. CASE Dump(p)
  <2>1. file' \in Files
    BY <1>4, DumpedFile
  <2>2. \A q \in Procs : q # p => pc[q] \notin {"load", "dump", "close"}
    BY <1>4 DEF LockInv, Locked, Dump
  <2>3. /\ written \in Nat /\ written < Size[mem[p]] /\ written' = written + 1
        /\ Size[mem[p]] \in Nat \ {0}
    BY <1>4, SizeType DEF LockInv, TypeOK, Writes, Dump
  <2> DEFINE n == Size[mem[p]]
  <2>4. /\ mem' = mem /\ pc'[p] = (IF written + 1 = n THEN "close" ELSE "dump")
        /\ \A q \in Procs \ {p} : pc'[q] = pc[q]
    BY <1>4 DEF LockInv, TypeOK, Dump, Dumped, Goto
  <2>5. Writes'
    BY <2>2, <2>3, <2>4 DEF Writes
  <2>6. TypeOK'
    BY <1>4, <2>1, <2>3 DEF LockInv, TypeOK, Dump, Disturb, Goto, PCs
  <2>7. Locked' /\ Trying'
    BY <1>4, <2>4 DEF LockInv, TypeOK, Locked, Trying, Dump
  <2> QED
    BY <2>5, <2>6, <2>7 DEF LockInv
<1>5. CASE Close(p)
  BY <1>5, NobodyAssumption DEF LockInv, TypeOK, Locked, Trying, Writes, Close, Goto, PCs
<1> QED
  BY <1>1, <1>2, <1>3, <1>4, <1>5

LEMMA KillLock == ASSUME LockInv, NEW p \in Procs, Kill(p) PROVE LockInv'
  BY NobodyAssumption DEF LockInv, TypeOK, Locked, Trying, Writes, Kill, Goto, PCs

LEMMA NextLock == LockInv /\ [Next]_vars => LockInv'
<1> SUFFICES ASSUME LockInv, [Next]_vars PROVE LockInv'
  OBVIOUS
<1>1. CASE \E p \in Procs : BeginRefresh(p) \/ BeginWrite(p) \/ Step(p) \/ Kill(p)
  BY <1>1, RefreshLock, ReadsLock, WritesLock, KillLock DEF Step
<1>2. CASE UNCHANGED vars
  BY <1>2 DEF vars, LockInv, TypeOK, Locked, Trying, Writes
<1> QED
  BY <1>1, <1>2 DEF Next, Over

LEMMA LockAlways == Spec => []LockInv
  BY InitLock, NextLock, PTL DEF Spec

\* Every variable of DbFile keeps its type.
THEOREM DbFileTypes == Spec => []TypeOK
  BY LockAlways, PTL DEF LockInv
-----------------------------------------------------------------------------
(* The file. *)

OnePiece(f) == \A k, l \in 1..Len(f) : f[k] # Hole /\ f[l] # Hole => f[k] = f[l]

\* Behind what the holder has written there are blocks of one database, those
\* of the last holder; before it there are its own, and holes where somebody
\* has truncated the file meanwhile.  All of it will be written over.
Layers ==
  \A p \in Procs : ~botched /\ pc[p] \in {"dump", "close"} =>
    /\ Len(file) <= Size[mem[p]]
    /\ \A k, l \in 1..Len(file) :
         k > written /\ l > written /\ file[k] # Hole /\ file[l] # Hole => file[k] = file[l]
    /\ \A k \in 1..Len(file) : k <= written /\ file[k] # Hole => file[k] = mem[p]

\* There are no holes before it unless there is somebody who has truncated
\* the file and is still to write it.
NoHoles ==
  \A p \in Procs :
    /\ ~botched /\ pc[p] \in {"dump", "close"}
    /\ \A q \in Procs : pc[q] \notin {"open", "writelock"}
    => written <= Len(file) /\ \A k \in 1..written : file[k] = mem[p]

SoundInv == FileSound /\ Layers /\ NoHoles

LEMMA InitSound == Init => SoundInv
<1> SUFFICES ASSUME Init PROVE SoundInv
  OBVIOUS
<1>1. Fresh \in Versions
  BY DEF Fresh, Versions
<1> DEFINE n == Size[Fresh]
<1>0. n \in Nat
  BY <1>1, SizeType
<1>4. Len(file) = n /\ \A k \in 1..n : file[k] = Fresh
  BY <1>0 DEF Init, Whole
<1>2. Parses(file) /\ OnePiece(file)
  BY <1>1, <1>4 DEF Init, Parses, OnePiece
<1>3. \A p \in Procs : pc[p] = "idle"
  BY DEF Init
<1> QED
  BY <1>2, <1>3 DEF SoundInv, FileSound, NoMixture, WholeAtRest, OnePiece, Layers, NoHoles

\* What a step that does not touch the file must not do: begin or end the
\* writing of blocks, stop writing without being noticed, or come back to life.
Aside(p) ==
  /\ file' = file /\ written' = written
  /\ \A q \in Procs \ {p} : pc'[q] = pc[q] /\ mem'[q] = mem[q]
  /\ pc[p] \notin {"dump", "close"} /\ pc'[p] \notin {"dump", "close"}
  /\ botched => botched'
  /\ pc[p] \in Writing => botched' \/ pc'[p] \in {"open", "writelock"}

LEMMA AsideSound ==
  ASSUME LockInv, SoundInv, NEW p \in Procs, Aside(p)
  PROVE  SoundInv'
<1>1. ~botched' => NoMixture'
  BY DEF SoundInv, FileSound, NoMixture, Aside
<1>2. ~botched' => WholeAtRest'
  BY DEF SoundInv, FileSound, WholeAtRest, Parses, Whole, Versions, Aside, Writing
<1>3. Layers'
  BY DEF SoundInv, Layers, Aside
<1>4. NoHoles'
  BY DEF SoundInv, NoHoles, Aside, Writing
<1> QED
  BY <1>1, <1>2, <1>3, <1>4 DEF SoundInv, FileSound, Aside

LEMMA RefreshAside ==
  ASSUME LockInv, NEW p \in Procs,
         BeginRefresh(p) \/ Hash(p) \/ HashLock(p) \/ Compare(p) \/ Read(p)
  PROVE  Aside(p)
<1>1. CASE BeginRefresh(p)
  BY <1>1 DEF LockInv, TypeOK, BeginRefresh, Aside, Goto, Writing
<1>2. CASE Hash(p) \/ HashLock(p)
  BY <1>2 DEF LockInv, TypeOK, Hash, HashLock, Aside, Goto, Writing
<1>3. CASE Compare(p)
  BY <1>3 DEF LockInv, TypeOK, Compare, Aside, Goto, Writing
<1>4. CASE Read(p)
  BY <1>4 DEF LockInv, TypeOK, Read, Take, Aside, Goto, Writing
<1> QED
  BY <1>1, <1>2, <1>3, <1>4

LEMMA ReadAside ==
  ASSUME LockInv, NEW p \in Procs, ReadLock(p) \/ Load(p) \/ BeginWrite(p)
  PROVE  Aside(p)
<1>1. CASE ReadLock(p)
  <2>1. \/ Goto(p, "load") /\ UNCHANGED mem
        \/ /\ Retry(p, "readlock")
           /\ Take(p, Fresh) \/ UNCHANGED mem
    BY <1>1 DEF ReadLock
  <2> QED
    BY <1>1, <2>1 DEF LockInv, TypeOK, ReadLock, Retry, Take, Aside, Goto, Writing
<1>2. CASE Load(p)
  BY <1>2 DEF LockInv, TypeOK, Load, Take, Aside, Goto, Writing
<1>3. CASE BeginWrite(p)
  BY <1>3 DEF LockInv, TypeOK, BeginWrite, Aside, Goto, Writing
<1> QED
  BY <1>1, <1>2, <1>3

\* Truncating the file.
LEMMA OpenSound ==
  ASSUME LockInv, SoundInv, NEW p \in Procs, OpenForWriting(p)
  PROVE  SoundInv'
<1>1. /\ file' = <<>> /\ Len(file') = 0 /\ pc'[p] = "writelock"
      /\ \A q \in Procs \ {p} : pc'[q] = pc[q]
  BY DEF LockInv, TypeOK, OpenForWriting, Goto
<1>2. FileSound'
  BY <1>1 DEF FileSound, NoMixture, WholeAtRest, Writing
<1>3. Layers'
  <2>1. /\ mem' = mem
        /\ \A q \in Procs : Size[mem[q]] \in Nat
    BY SizeType DEF LockInv, TypeOK, OpenForWriting
  <2> QED
    BY <1>1, <2>1 DEF Layers
<1>4. NoHoles'
  BY <1>1 DEF NoHoles
<1> QED
  BY <1>4, <1>2, <1>3 DEF SoundInv

\* Taking the lock: what is there is what the last holder left.
LEMMA LockSound ==
  ASSUME LockInv, SoundInv, NEW p \in Procs, WriteLock(p)
  PROVE  SoundInv'
<1>1. CASE /\ Free /\ flock' = p /\ written' = 0 /\ Goto(p, "dump") /\ UNCHANGED tries
           /\ botched' = (botched \/ LeavesATail(p))
  <2>1. /\ \A q \in Procs : pc[q] \notin {"dump", "close"}
        /\ pc'[p] = "dump" /\ pc[p] = "writelock" /\ file' = file /\ mem' = mem /\ written' = 0
        /\ \A q \in Procs \ {p} : pc'[q] = pc[q]
    BY <1>1, NobodyAssumption DEF LockInv, TypeOK, Locked, Free, WriteLock, Goto
  <2>2. FileSound'
    BY <2>1 DEF FileSound, NoMixture, WholeAtRest, Writing
  <2>5. Len(file) \in Nat /\ Size[mem[p]] \in Nat
    BY SizeType DEF LockInv, TypeOK, Files
  <2>6. ~botched' => ~botched /\ Len(file) <= Size[mem[p]]
    <3>1. ~botched' => ~botched /\ ~LeavesATail(p)
      BY <1>1
    <3>2. ~LeavesATail(p) => Len(file) <= Size[mem[p]]
      BY <2>5 DEF LeavesATail
    <3> QED
      BY <3>1, <3>2
  <2>7. ~botched => \A k, l \in 1..Len(file) : file[k] # Hole /\ file[l] # Hole => file[k] = file[l]
    BY <2>1 DEF SoundInv, FileSound, NoMixture
  <2>3. Layers'
    BY <2>1, <2>6, <2>7 DEF Layers
  <2>4. NoHoles'
    <3>1. Len(file) \in Nat
      BY <2>5
    <3> QED
      BY <2>1, <3>1 DEF NoHoles
  <2> QED
    BY <2>1, <2>2, <2>3, <2>4 DEF SoundInv
<1>2. CASE Retry(p, "open") /\ botched' = (botched \/ tries'[p] = MaxTries) /\ UNCHANGED <<flock, written>>
  <2>1. tries'[p] < MaxTries \/ tries'[p] = MaxTries
    BY <1>2, MaxTriesAssumption DEF LockInv, TypeOK, Trying, WriteLock, Retry
  <2>2. Aside(p)
    BY <1>2, <2>1 DEF LockInv, TypeOK, WriteLock, Retry, Aside, Goto, Writing
  <2> QED
    BY <2>2, AsideSound
<1> QED
  BY <1>1, <1>2 DEF WriteLock

\* Writing a block.
LEMMA DumpSound ==
  ASSUME LockInv, SoundInv, NEW p \in Procs, Dump(p)
  PROVE  SoundInv'
<1>1. /\ pc[p] = "dump" /\ mem' = mem /\ botched' = botched /\ written' = written + 1
      /\ pc'[p] \in {"dump", "close"}
      /\ \A q \in Procs \ {p} : pc'[q] = pc[q] /\ pc[q] \notin {"dump", "close"}
  BY DEF LockInv, TypeOK, Locked, Dump, Goto
<1>2. /\ written \in Nat /\ written < Size[mem[p]] /\ Len(file) \in Nat
      /\ Size[mem[p]] \in Nat
  BY <1>1, SizeType DEF LockInv, TypeOK, Writes, Files
<1>3. /\ Len(file') = (IF Len(file) < written + 1 THEN written + 1 ELSE Len(file))
      /\ \A k \in 1..Len(file') :
           file'[k] = (IF k = written + 1 THEN mem[p]
                       ELSE IF k <= Len(file) THEN file[k] ELSE Hole)
  BY DumpedFile
<1> DEFINE n == Len(file)  m == Len(file')
<1>4. m \in Nat /\ written + 1 <= m /\ (n >= written + 1 => m = n)
  BY <1>2, <1>3
<1>5. FileSound'
  BY <1>1 DEF FileSound, NoMixture, WholeAtRest, Writing
<1>6. Layers'
  <2> SUFFICES ASSUME ~botched
               PROVE  /\ m <= Size[mem[p]]
                      /\ \A k, l \in 1..m :
                           /\ k > written + 1 /\ l > written + 1
                           /\ file'[k] # Hole /\ file'[l] # Hole
                           => file'[k] = file'[l]
                      /\ \A k \in 1..m : k <= written + 1 /\ file'[k] # Hole => file'[k] = mem[p]
    BY <1>1 DEF Layers
  <2>0. n <= Size[mem[p]]
    BY <1>1 DEF SoundInv, Layers
  <2>1. m <= Size[mem[p]]
    BY <2>0, <1>2, <1>3
  <2>2. ASSUME NEW k \in 1..m, k > written + 1, file'[k] # Hole
        PROVE  k \in 1..n /\ k > written /\ file[k] = file'[k] /\ file[k] # Hole
    BY <1>2, <1>3, <2>2
  <2>3. ASSUME NEW k \in 1..m, k <= written + 1, file'[k] # Hole
        PROVE  file'[k] = mem[p]
    <3>1. CASE k = written + 1
      BY <1>3, <3>1
    <3>2. CASE k # written + 1
      <4>1. k \in 1..n /\ k <= written /\ file[k] = file'[k] /\ file[k] # Hole
        BY <1>2, <1>3, <2>3, <3>2
      <4> QED
        BY <1>1, <4>1 DEF SoundInv, Layers
    <3> QED
      BY <3>1, <3>2
  <2> QED
    BY <1>1, <2>1, <2>2, <2>3 DEF SoundInv, Layers
<1>7. NoHoles'
  <2> SUFFICES ASSUME ~botched, \A q \in Procs : pc'[q] \notin {"open", "writelock"}
               PROVE  written + 1 <= m /\ \A k \in 1..(written + 1) : file'[k] = mem[p]
    BY <1>1 DEF NoHoles
  <2>1. \A q \in Procs : pc[q] \notin {"open", "writelock"}
    BY <1>1
  <2>2. written <= n /\ \A k \in 1..written : file[k] = mem[p]
    BY <1>1, <2>1 DEF SoundInv, NoHoles
  <2> QED
    BY <1>2, <1>3, <1>4, <2>2
<1> QED
  BY <1>4, <1>5, <1>6, <1>7 DEF SoundInv

\* Closing the file.
LEMMA CloseSound ==
  ASSUME LockInv, SoundInv, NEW p \in Procs, Close(p)
  PROVE  SoundInv'
<1>1. /\ pc[p] = "close" /\ pc'[p] = "idle" /\ file' = file /\ mem' = mem /\ written' = written
      /\ botched' = botched
      /\ \A q \in Procs \ {p} : pc'[q] = pc[q] /\ pc[q] \notin {"dump", "close"}
  BY DEF LockInv, TypeOK, Locked, Close, Goto
<1>2. /\ written = Size[mem[p]] /\ Len(file) \in Nat /\ written \in Nat
      /\ ~botched => Len(file) <= written
  BY <1>1 DEF LockInv, TypeOK, Writes, Files, SoundInv, Layers
<1>3. ~botched => NoMixture'
  <2>1. ~botched => \A k \in 1..Len(file) : file[k] # Hole => file[k] = mem[p]
    BY <1>1, <1>2 DEF SoundInv, Layers
  <2> QED
    BY <1>1, <2>1 DEF NoMixture
<1>4. ~botched => WholeAtRest'
  <2> SUFFICES ASSUME ~botched, \A q \in Procs : pc'[q] \notin Writing PROVE Parses(file)
    BY <1>1 DEF WholeAtRest, Parses, Whole, Versions
  <2>1. \A q \in Procs : pc[q] \notin {"open", "writelock"}
    BY <1>1 DEF Writing
  <2> DEFINE n == Size[mem[p]]
  <2>2. Len(file) = n /\ \A k \in 1..n : file[k] = mem[p]
    BY <1>1, <1>2, <2>1 DEF SoundInv, NoHoles
  <2>3. file = [k \in 1..n |-> mem[p]]
    BY <2>2 DEF LockInv, TypeOK, Files
  <2>4. mem[p] \in Versions
    BY DEF LockInv, TypeOK
  <2> QED
    BY <2>3, <2>4 DEF Parses, Whole
<1>5. Layers' /\ NoHoles'
  BY <1>1 DEF Layers, NoHoles
<1> QED
  BY <1>1, <1>3, <1>4, <1>5 DEF SoundInv, FileSound

LEMMA KillSound ==
  ASSUME LockInv, SoundInv, NEW p \in Procs, Kill(p)
  PROVE  SoundInv'
<1>1. /\ pc'[p] = "killed" /\ file' = file /\ mem' = mem /\ written' = written
      /\ botched' = (botched \/ pc[p] \in Writing)
      /\ \A q \in Procs \ {p} : pc'[q] = pc[q]
  BY DEF LockInv, TypeOK, Kill, Goto
<1>2. CASE pc[p] \in Writing
  BY <1>1, <1>2 DEF SoundInv, FileSound, Layers, NoHoles
<1>3. CASE pc[p] \notin Writing
  <2>1. Aside(p)
    BY <1>1, <1>3 DEF Aside, Writing
  <2> QED
    BY <2>1, AsideSound
<1> QED
  BY <1>2, <1>3

LEMMA NextSound == LockInv /\ SoundInv /\ [Next]_vars => SoundInv'
<1> SUFFICES ASSUME LockInv, SoundInv, [Next]_vars PROVE SoundInv'
  OBVIOUS
<1>1. CASE \E p \in Procs : BeginRefresh(p) \/ BeginWrite(p) \/ Step(p) \/ Kill(p)
  BY <1>1, RefreshAside, ReadAside, AsideSound, OpenSound, LockSound, DumpSound, CloseSound,
     KillSound DEF Step
<1>2. CASE UNCHANGED vars
  BY <1>2 DEF vars, SoundInv, FileSound, NoMixture, WholeAtRest, Parses, Whole, Layers, NoHoles
<1> QED
  BY <1>1, <1>2 DEF Next, Over

LEMMA SoundAlways == Spec => []SoundInv
  BY InitSound, NextSound, LockAlways, PTL DEF Spec

\* However many processes rewrite the database, whatever the lengths of what
\* they write, and although each truncates the file before it has the lock, the
\* file does not mix what two of them have written, and is a database again
\* when the last of them is through, unless one of them was killed, gave up on
\* the lock, or left the tail of a longer text, and nobody has truncated the
\* file since.
THEOREM FileIsSound == Spec => []FileSound
  BY SoundAlways, PTL DEF SoundInv

-----------------------------------------------------------------------------
(* Memory. *)

\* As long as nobody has written since p began to refresh, the file is a
\* database, and what p has found out about it holds.
MemoryOf(p) ==
  quiet[p] /\ ~botched =>
    /\ pc[p] = "idle" => file = Whole(mem[p])
    /\ pc[p] \in {"hash", "hashlock", "compare", "read", "readlock", "load"} => Parses(file)
    /\ pc[p] = "compare" => hash[p] = file
    /\ pc[p] \notin {"writelock", "dump", "close"}

MemoryInv == \A p \in Procs : MemoryOf(p)

LEMMA InitMemory == Init => MemoryInv
  BY DEF Init, MemoryInv, MemoryOf

\* A step of p that leaves the file alone concerns nobody else.
LEMMA OthersKeep ==
  ASSUME LockInv, MemoryInv, NEW p \in Procs, NEW q \in Procs \ {p},
         file' = file, botched => botched', quiet'[q] = quiet[q], pc'[q] = pc[q],
         mem'[q] = mem[q], hash'[q] = hash[q]
  PROVE  MemoryOf(q)'
<1>1. MemoryOf(q)
  BY DEF MemoryInv
<1>2. Parses(file)' <=> Parses(file)
  BY DEF Parses, Whole, Versions
<1>3. Whole(mem[q])' = Whole(mem[q])
  BY DEF Whole
<1> QED
  BY <1>1, <1>2, <1>3 DEF MemoryOf

\* A database is not empty.
LEMMA ParsesSome == ASSUME Parses(file) PROVE file # <<>> /\ file[1] \in Versions /\ file = Whole(file[1])
<1>1. PICK v \in Versions : file = Whole(v)
  BY DEF Parses
<1> DEFINE n == Size[v]
<1>0. n \in Nat /\ n # 0
  BY SizeType
<1>2. file[1] = v
  BY <1>0, <1>1 DEF Whole
<1>3. Len(file) = n /\ n # 0
  BY <1>0, <1>1 DEF Whole
<1> QED
  BY <1>1, <1>2, <1>3

LEMMA RefreshMemory ==
  ASSUME LockInv, SoundInv, MemoryInv, NEW p \in Procs,
         BeginRefresh(p) \/ Hash(p) \/ HashLock(p) \/ Compare(p)
  PROVE  MemoryInv'
<1>1. \A q \in Procs \ {p} : MemoryOf(q)'
  <2> SUFFICES ASSUME NEW q \in Procs \ {p} PROVE MemoryOf(q)'
    OBVIOUS
  <2>1. /\ file' = file /\ botched' = botched /\ quiet'[q] = quiet[q] /\ pc'[q] = pc[q]
        /\ mem'[q] = mem[q] /\ hash'[q] = hash[q]
    BY DEF LockInv, TypeOK, BeginRefresh, Hash, HashLock, Compare, Goto
  <2> QED
    BY <2>1, OthersKeep
<1>2. CASE BeginRefresh(p)
  <2>1. /\ file' = file /\ botched' = botched /\ pc'[p] = "hash"
        /\ quiet'[p] => \A q \in Procs : pc[q] \notin Writing
    BY <1>2 DEF LockInv, TypeOK, BeginRefresh, Goto
  <2>2. quiet'[p] /\ ~botched' => Parses(file)
    BY <2>1 DEF SoundInv, FileSound, WholeAtRest
  <2>3. MemoryOf(p)'
    BY <2>1, <2>2 DEF MemoryOf, Parses, Whole, Versions
  <2> QED
    BY <1>1, <2>3 DEF MemoryInv
<1>3. CASE Hash(p) \/ HashLock(p)
  <2>1. /\ file' = file /\ botched' = botched /\ quiet' = quiet /\ pc[p] \in {"hash", "hashlock"}
        /\ \/ pc'[p] = "compare" /\ hash'[p] = file
           \/ pc'[p] = "compare" /\ file = <<>>
           \/ pc'[p] = "hashlock"
    BY <1>3 DEF LockInv, TypeOK, Hash, HashLock, Goto
  <2>2. quiet[p] /\ ~botched => Parses(file) /\ file # <<>>
    BY <2>1, ParsesSome DEF MemoryInv, MemoryOf
  <2>3. MemoryOf(p)'
    BY <2>1, <2>2 DEF MemoryOf, Parses, Whole, Versions
  <2> QED
    BY <1>1, <2>3 DEF MemoryInv
<1>4. CASE Compare(p)
  <2>1. /\ file' = file /\ botched' = botched /\ mem' = mem /\ hash' = hash /\ pc[p] = "compare"
        /\ quiet'[p] => quiet[p] /\ (Stale(p) \/ checksum[p] = Whole(mem[p]))
        /\ pc'[p] = IF Stale(p) THEN "read" ELSE "idle"
    BY <1>4 DEF LockInv, TypeOK, Compare, Goto
  <2>2. quiet[p] /\ ~botched => Parses(file) /\ hash[p] = file
    BY <2>1 DEF MemoryInv, MemoryOf
  <2>3. MemoryOf(p)'
    <3>1. CASE Stale(p)
      BY <2>1, <2>2, <3>1 DEF MemoryOf, Parses, Whole, Versions
    <3>2. CASE ~Stale(p)
      <4>1. hash[p] = checksum[p] /\ pc'[p] = "idle"
        BY <2>1, <3>2 DEF Stale
      <4>2. quiet'[p] /\ ~botched' => file = Whole(mem[p])
        BY <2>1, <2>2, <3>2, <4>1
      <4> QED
        BY <2>1, <4>1, <4>2 DEF MemoryOf, Whole
    <3> QED
      BY <3>1, <3>2
  <2> QED
    BY <1>1, <2>3 DEF MemoryInv
<1> QED
  BY <1>2, <1>3, <1>4

LEMMA ReadMemory ==
  ASSUME LockInv, MemoryInv, NEW p \in Procs, Read(p) \/ ReadLock(p) \/ Load(p)
  PROVE  MemoryInv'
<1>0. /\ file' = file /\ hash' = hash
      /\ pc[p] \in {"read", "readlock", "load"}
      /\ \A q \in Procs \ {p} : pc'[q] = pc[q]
  BY DEF LockInv, TypeOK, Read, ReadLock, Load, Retry, Goto
<1>1. \A q \in Procs \ {p} : mem'[q] = mem[q]
  BY DEF LockInv, TypeOK, Read, ReadLock, Load, Take
<1>2. botched' = botched
  BY DEF Read, ReadLock, Load
<1>q. /\ \A q \in Procs \ {p} : quiet'[q] = quiet[q]
      /\ quiet'[p] => quiet[p]
  <2>1. quiet' = quiet \/ quiet' = [quiet EXCEPT ![p] = FALSE]
    BY DEF Read, ReadLock, Load
  <2> QED
    BY <2>1 DEF LockInv, TypeOK
<1>3. \A q \in Procs \ {p} : MemoryOf(q)'
  BY <1>0, <1>1, <1>2, <1>q, OthersKeep
<1>4. quiet[p] /\ ~botched => Parses(file)
  BY <1>0 DEF MemoryInv, MemoryOf
<1>5. MemoryOf(p)'
  <2>1. CASE Read(p)
    <3>1. file # <<>> => pc'[p] = "readlock"
      BY <2>1 DEF LockInv, TypeOK, Read, Goto
    <3> QED
      BY <1>0, <1>2, <1>4, <1>q, <3>1, ParsesSome DEF MemoryOf, Parses, Whole, Versions
  <2>2. CASE ReadLock(p)
    <3>1. pc'[p] \in {"load", "readlock"} \/ ~quiet'[p]
      <4>1. CASE Goto(p, "load")
        BY <4>1 DEF LockInv, TypeOK, Goto
      <4>2. CASE /\ Retry(p, "readlock")
                 /\ IF tries'[p] = MaxTries
                      THEN Take(p, Fresh) /\ quiet' = [quiet EXCEPT ![p] = FALSE]
                      ELSE UNCHANGED <<mem, checksum, quiet>>
        BY <2>2, <4>2, MaxTriesAssumption DEF LockInv, TypeOK, Trying, ReadLock, Retry, Goto
      <4> QED
        BY <2>2, <4>1, <4>2 DEF ReadLock
    <3> QED
      BY <1>0, <1>2, <1>4, <1>q, <3>1 DEF MemoryOf, Parses, Whole, Versions
  <2>3. CASE Load(p)
    <3>1. Parses(file) => mem'[p] = file[1] /\ pc'[p] = "idle"
      BY <2>3 DEF LockInv, TypeOK, Load, Take, Goto
    <3>2. Parses(file) => file = Whole(mem'[p])
      BY <3>1, ParsesSome
    <3> QED
      BY <1>0, <1>2, <1>4, <1>q, <3>1, <3>2 DEF MemoryOf, Whole
  <2> QED
    BY <2>1, <2>2, <2>3
<1> QED
  BY <1>3, <1>5 DEF MemoryInv

LEMMA WriteMemory ==
  ASSUME LockInv, MemoryInv, NEW p \in Procs,
         BeginWrite(p) \/ OpenForWriting(p) \/ WriteLock(p) \/ Dump(p) \/ Close(p) \/ Kill(p)
  PROVE  MemoryInv'
<1>1. CASE OpenForWriting(p) \/ Dump(p)
  <2>1. \A q \in Procs : ~quiet'[q]
    BY <1>1 DEF OpenForWriting, Dump, Disturb
  <2> QED
    BY <2>1 DEF MemoryInv, MemoryOf
<1>2. CASE BeginWrite(p) \/ WriteLock(p) \/ Close(p) \/ Kill(p)
  <2>1. /\ file' = file /\ quiet' = quiet /\ hash' = hash
        /\ \A q \in Procs \ {p} : pc'[q] = pc[q]
    BY <1>2 DEF LockInv, TypeOK, BeginWrite, WriteLock, Retry, Close, Kill, Goto
  <2>2. /\ \A q \in Procs \ {p} : mem'[q] = mem[q]
        /\ botched => botched'
    BY <1>2 DEF LockInv, TypeOK, BeginWrite, WriteLock, Close, Kill
  <2>3. \A q \in Procs \ {p} : MemoryOf(q)'
    BY <2>1, <2>2, OthersKeep
  <2>4. MemoryOf(p)'
    <3>1. CASE BeginWrite(p)
      BY <2>1, <3>1 DEF LockInv, TypeOK, BeginWrite, Goto, MemoryOf
    <3>2. CASE WriteLock(p) \/ Close(p)
      <4>1. quiet[p] => botched
        BY <3>2 DEF WriteLock, Close, MemoryInv, MemoryOf
      <4> QED
        BY <2>1, <2>2, <4>1 DEF MemoryOf
    <3>3. CASE Kill(p)
      BY <2>1, <3>3 DEF LockInv, TypeOK, Kill, Goto, MemoryOf
    <3> QED
      BY <1>2, <3>1, <3>2, <3>3
  <2> QED
    BY <2>3, <2>4 DEF MemoryInv
<1> QED
  BY <1>1, <1>2

LEMMA NextMemory == LockInv /\ SoundInv /\ MemoryInv /\ [Next]_vars => MemoryInv'
<1> SUFFICES ASSUME LockInv, SoundInv, MemoryInv, [Next]_vars PROVE MemoryInv'
  OBVIOUS
<1>1. CASE \E p \in Procs : BeginRefresh(p) \/ BeginWrite(p) \/ Step(p) \/ Kill(p)
  BY <1>1, RefreshMemory, ReadMemory, WriteMemory DEF Step
<1>2. CASE UNCHANGED vars
  BY <1>2 DEF vars, MemoryInv, MemoryOf, Parses, Whole, Versions
<1> QED
  BY <1>1, <1>2 DEF Next, Over

\* A refresh that nobody disturbed leaves in memory what the file says,
\* although only a checksum is compared.
THEOREM MemoryIsFresh == Spec => []FreshMemory
<1>1. MemoryInv => FreshMemory
  BY DEF MemoryInv, MemoryOf, FreshMemory
<1>2. Spec => []MemoryInv
  BY InitMemory, NextMemory, LockAlways, SoundAlways, PTL DEF Spec
<1> QED
  BY <1>1, <1>2, PTL
=============================================================================
