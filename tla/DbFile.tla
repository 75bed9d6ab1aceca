------------------------------- MODULE DbFile -------------------------------
(***************************************************************************)
(* ContainersConfig.json as a file that many processes (the service, the   *)
(* command line tools, launchers) read and rewrite: _ContainersConfigFile, *)
(* read_container_config_file, write_container_config_file,                *)
(* container_config_hash and refresh_database of ContainersConfig.py.      *)
(*                                                                         *)
(* Each process has the whole database in memory and writes all of it.     *)
(* A database is abstracted to one flag of each process (a status that     *)
(* goes back and forth): the set of the processes whose flag is up.        *)
(* A file is a sequence of blocks, each of them part of a written database *)
(* or a hole; databases are of different length, and closing writes out    *)
(* the last block.  Opening for writing truncates, before the lock is      *)
(* asked for.                                                              *)
(***************************************************************************)
EXTENDS Naturals, Sequences, FiniteSets

CONSTANTS
  Procs,       \* processes
  Nobody,      \* not a process
  Hole,        \* what reads as zero bytes
  Size,        \* how many blocks each database takes
  MaxTries,    \* how often a lock is asked for (100 in the code)
  MaxOps,      \* bound: operations, of all processes
  MaxKills     \* bound: processes killed

ASSUME NobodyAssumption == Nobody \notin Procs
ASSUME HoleAssumption == \A v \in SUBSET Procs : v # Hole
ASSUME SizeAssumption == Size \in [SUBSET Procs -> Nat \ {0}]
ASSUME MaxTriesAssumption == MaxTries \in Nat \ {0}
ASSUME MaxOpsAssumption == MaxOps \in Nat
ASSUME MaxKillsAssumption == MaxKills \in Nat

VARIABLES
  file,       \* the blocks of the file; <<>> is empty, or absent
  flock,      \* who holds the lock
  mem,        \* container_list of each process
  checksum,   \* checksum of each process: the contents it is the sum of
  hash,       \* what container_config_hash is about to answer
  pc, tries,
  ops,        \* how many operations were begun
  written,    \* how many blocks the holder has written
  quiet,      \* history: nobody wrote since the process began to refresh
  botched     \* history: the last that were to write the file did not all do so

vars == <<file, flock, mem, checksum, hash, pc, tries, ops, written, quiet, botched>>

Versions == SUBSET Procs
Fresh == {}       \* what {} reads as, too
Files == Seq(Versions \cup {Hole})

PCs == {"idle", "hash", "hashlock", "compare", "read", "readlock", "load",
        "open", "writelock", "dump", "close", "dead", "killed"}

\* Between truncating the file and closing it.
Writing == {"open", "writelock", "dump", "close"}

Whole(v) == [k \in 1..Size[v] |-> v]

\* What json.load accepts.
Parses(f) == \E v \in Versions : f = Whole(v)

Init ==
  /\ file = Whole(Fresh)
  /\ flock = Nobody
  /\ mem = [p \in Procs |-> Fresh]
  /\ checksum = [p \in Procs |-> Whole(Fresh)]
  /\ hash = [p \in Procs |-> <<>>]
  /\ pc = [p \in Procs |-> "idle"]
  /\ tries = [p \in Procs |-> 0]
  /\ ops = 0
  /\ written = 0
  /\ quiet = [p \in Procs |-> FALSE]
  /\ botched = FALSE

Goto(p, l) == pc' = [pc EXCEPT ![p] = l]
Disturb == quiet' = [p \in Procs |-> FALSE]

-----------------------------------------------------------------------------
(* refresh_database *)

BeginRefresh(p) ==
  /\ pc[p] = "idle" /\ ops < MaxOps
  /\ ops' = ops + 1
  /\ quiet' = [quiet EXCEPT ![p] = \A q \in Procs : pc[q] \notin Writing]
  /\ Goto(p, "hash")
  /\ UNCHANGED <<file, flock, mem, checksum, hash, tries, written, botched>>

\* container_config_hash: nothing is summed of a file without contents.
Hash(p) ==
  /\ pc[p] = "hash"
  /\ hash' = [hash EXCEPT ![p] = <<>>]
  /\ Goto(p, IF file = <<>> THEN "compare" ELSE "hashlock")
  /\ UNCHANGED <<file, flock, mem, checksum, tries, ops, written, quiet, botched>>

\* flock(LOCK_EX) waits.  Reading, summing and closing are one step.
HashLock(p) ==
  /\ pc[p] = "hashlock" /\ flock = Nobody
  /\ hash' = [hash EXCEPT ![p] = file]
  /\ Goto(p, "compare")
  /\ UNCHANGED <<file, flock, mem, checksum, tries, ops, written, quiet, botched>>

\* Slip: the sum is the only thing that is brought up to date.
SumOnly(p) == hash[p] # checksum[p] /\ mem[p] = Fresh

Stale(p) == hash[p] # checksum[p]

\* Only another checksum makes refresh_database read the file.
Compare(p) ==
  /\ pc[p] = "compare"
  /\ tries' = [tries EXCEPT ![p] = 0]
  /\ Goto(p, IF Stale(p) THEN "read" ELSE "idle")
  /\ quiet' = [quiet EXCEPT ![p] = @ /\ (Stale(p) \/ checksum[p] = Whole(mem[p]))]
  /\ UNCHANGED <<file, flock, mem, checksum, hash, ops, written, botched>>

\* self.container_list = read_container_config_file(), and then the checksum,
\* which is that of what was there before.
Take(p, v) ==
  /\ mem' = [mem EXCEPT ![p] = v]
  /\ checksum' = [checksum EXCEPT ![p] = hash[p]]

\* A file without contents reads as {}.
Read(p) ==
  /\ pc[p] = "read"
  /\ IF file = <<>> THEN Take(p, Fresh) /\ Goto(p, "idle")
                    ELSE Goto(p, "readlock") /\ UNCHANGED <<mem, checksum>>
  /\ UNCHANGED <<file, flock, hash, tries, ops, written, quiet, botched>>

\* flock(LOCK_EX | LOCK_NB) succeeds.
Free == flock = Nobody

\* Slip: there is no last try.
AlwaysAgain(p, again) ==
  /\ ~Free
  /\ tries' = [tries EXCEPT ![p] = @ + 1]
  /\ Goto(p, again)

\* It fails: the file is closed, to be opened again unless that was the last try.
Retry(p, again) ==
  /\ ~Free
  /\ tries' = [tries EXCEPT ![p] = @ + 1]
  /\ Goto(p, IF tries'[p] < MaxTries THEN again ELSE "idle")

\* A file that stays locked reads as {}, too.
ReadLock(p) ==
  /\ pc[p] = "readlock"
  /\ \/ /\ Free
        /\ flock' = p
        /\ Goto(p, "load") /\ UNCHANGED <<tries, mem, checksum, quiet>>
     \/ /\ Retry(p, "readlock")
        /\ IF tries'[p] = MaxTries
             THEN Take(p, Fresh) /\ quiet' = [quiet EXCEPT ![p] = FALSE]
             ELSE UNCHANGED <<mem, checksum, quiet>>
        /\ UNCHANGED flock
  /\ UNCHANGED <<file, hash, ops, written, botched>>

\* json.load, which raises ValueError of what is not a database.
Load(p) ==
  /\ pc[p] = "load"
  /\ flock' = Nobody
  /\ IF Parses(file) THEN Take(p, file[1]) /\ Goto(p, "idle")
                     ELSE Goto(p, "dead") /\ UNCHANGED <<mem, checksum>>
  /\ UNCHANGED <<file, hash, tries, ops, written, quiet, botched>>

-----------------------------------------------------------------------------
(* write_container_config_file *)

\* An updater changes container_list and writes it.
BeginWrite(p) ==
  /\ pc[p] = "idle" /\ ops < MaxOps
  /\ ops' = ops + 1
  /\ mem' = [mem EXCEPT ![p] = (@ \ {p}) \cup ({p} \ @)]
  /\ tries' = [tries EXCEPT ![p] = 0]
  /\ Goto(p, "open")
  /\ UNCHANGED <<file, flock, checksum, hash, written, quiet, botched>>

\* open(container_config_file, 'w'): whatever was wrong with the file is gone,
\* and p has yet to write it.
OpenForWriting(p) ==
  /\ pc[p] = "open"
  /\ file' = <<>>
  /\ botched' = FALSE
  /\ Disturb
  /\ Goto(p, "writelock")
  /\ UNCHANGED <<flock, mem, checksum, hash, tries, ops, written>>

\* Somebody else has written the file since p truncated it, and more than p
\* is going to write.
LeavesATail(p) == Len(file) > Size[mem[p]]

\* A file that stays locked is not written, and nobody is told.
WriteLock(p) ==
  /\ pc[p] = "writelock"
  /\ \/ /\ Free
        /\ flock' = p
        /\ written' = 0
        /\ botched' = (botched \/ LeavesATail(p))
        /\ Goto(p, "dump") /\ UNCHANGED tries
     \/ /\ Retry(p, "open")
        /\ botched' = (botched \/ tries'[p] = MaxTries)
        /\ UNCHANGED <<flock, written>>
  /\ UNCHANGED <<file, mem, checksum, hash, ops, quiet>>

\* Slip: the last block stays in the buffer.
AllButOne(p) == written + 2 >= Size[mem[p]]

Dumped(p) == written + 1 = Size[mem[p]]

Position == written + 1

\* json.dump: a block is written where the last one ended, whatever has become
\* of the file since.
Dump(p) ==
  /\ pc[p] = "dump"
  /\ LET at == Position
         len == IF Len(file) < at THEN at ELSE Len(file)
     IN  file' = [k \in 1..len |-> IF k = at THEN mem[p]
                                   ELSE IF k <= Len(file) THEN file[k] ELSE Hole]
  /\ written' = written + 1
  /\ Disturb
  /\ Goto(p, IF Dumped(p) THEN "close" ELSE "dump")
  /\ UNCHANGED <<flock, mem, checksum, hash, tries, ops, botched>>

\* Slip: a process that is closed out goes on as before.
CloseAgain(p) ==
  /\ pc[p] = "close"
  /\ flock' = Nobody
  /\ Goto(p, "open")
  /\ UNCHANGED <<file, mem, checksum, hash, tries, ops, written, quiet, botched>>

Close(p) ==
  /\ pc[p] = "close"
  /\ flock' = Nobody
  /\ Goto(p, "idle")
  /\ UNCHANGED <<file, mem, checksum, hash, tries, ops, written, quiet, botched>>

-----------------------------------------------------------------------------
\* A process is killed; its lock goes with it.
Kill(p) ==
  /\ pc[p] \notin {"idle", "dead", "killed"}
  /\ Cardinality({q \in Procs : pc[q] = "killed"}) < MaxKills
  /\ flock' = IF flock = p THEN Nobody ELSE flock
  /\ botched' = (botched \/ pc[p] \in Writing)
  /\ Goto(p, "killed")
  /\ UNCHANGED <<file, mem, checksum, hash, tries, ops, written, quiet>>

Step(p) ==
  \/ Hash(p) \/ HashLock(p) \/ Compare(p) \/ Read(p) \/ ReadLock(p) \/ Load(p)
  \/ OpenForWriting(p) \/ WriteLock(p) \/ Dump(p) \/ Close(p)

Over ==
  /\ \A p \in Procs : pc[p] \in {"dead", "killed"} \/ (pc[p] = "idle" /\ ops = MaxOps)
  /\ UNCHANGED vars

Next == (\E p \in Procs : BeginRefresh(p) \/ BeginWrite(p) \/ Step(p) \/ Kill(p)) \/ Over

Spec == Init /\ [][Next]_vars

\* A process in the middle of an operation is scheduled.
FairSpec == Spec /\ \A p \in Procs : WF_vars(Step(p))

-----------------------------------------------------------------------------
(* Properties. *)

TypeOK ==
  /\ file \in Files
  /\ flock \in Procs \cup {Nobody}
  /\ mem \in [Procs -> Versions]
  /\ checksum \in [Procs -> Files]
  /\ hash \in [Procs -> Files]
  /\ pc \in [Procs -> PCs]
  /\ tries \in [Procs -> 0..MaxTries]
  /\ ops \in 0..MaxOps
  /\ written \in Nat
  /\ quiet \in [Procs -> BOOLEAN]
  /\ botched \in BOOLEAN

\* The lock keeps the file from becoming a mixture of two databases, although
\* it is truncated by processes that do not hold it: what is found there when
\* nobody is writing blocks comes from one process.
NoMixture ==
  (\A p \in Procs : pc[p] \notin {"dump", "close"}) =>
    \A k, l \in 1..Len(file) : file[k] # Hole /\ file[l] # Hole => file[k] = file[l]

\* The file is a database again whenever nobody is writing it.
WholeAtRest == (\A p \in Procs : pc[p] \notin Writing) => Parses(file)

\* The lock protects the file as well as a lock can that is taken after the
\* file was truncated; and whatever has become of the file, the next process
\* that opens it for writing puts it right.  (Unless it is killed, gives up on
\* the lock, or leaves the tail of a longer text that was written meanwhile.)
FileSound == ~botched => NoMixture /\ WholeAtRest

\* A process that refreshed while nobody wrote has in memory what the file
\* says, unless it gave up on the lock, or the file is what it has the checksum
\* of and its memory is not: the file was put back while the memory went on, or
\* the process gave up on the lock before.
FreshMemory ==
  \A p \in Procs :
    ~botched /\ pc[p] = "idle" /\ quiet[p] => file = Whole(mem[p])

\* Whoever waits for the lock gets it or gives up.
OperationsEnd ==
  \A p \in Procs : pc[p] \notin {"idle", "dead", "killed"} ~> pc[p] \in {"idle", "dead", "killed"}
=============================================================================
