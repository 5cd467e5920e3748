------------------------ MODULE DatabaseProtection ------------------------
(***************************************************************************)
(* The database protection of the bot's process: backups of the SQLite     *)
(* file and of the (legacy) ChromaDB directory, the validation and repair  *)
(* that on_ready runs before anything is opened, and the signal handler    *)
(* that makes a last backup before it ends the process.                    *)
(*                                                                         *)
(* Up to three calls of create_backup are under way at once: one of the    *)
(* main thread (before a repair, of the maintenance task, or at exit), the *)
(* one on_ready runs in a worker thread, and the one of the signal handler,*)
(* which runs on top of whatever the main thread was doing.  Every step    *)
(* that changes the disk is a step of its own, so the process can be killed*)
(* or a signal can arrive between any two.  The disk outlives the process. *)
(*                                                                         *)
(* Databases are present or not, sound or not; a backup's name stands for  *)
(* the time it was begun at.  The write-ahead log of SQLite and the        *)
(* restoring of a backup (no path of the code reaches                      *)
(* _recover_full_database: two invalid databases are "critical") are not   *)
(* modelled.                                                               *)
(*                                                                         *)
(* Only the first on_ready of a process is modelled.  The code validates   *)
(* and repairs at every on_ready, when the databases are open already, and *)
(* starts a start-up backup in a worker thread at each, so that two can    *)
(* be under way at once: the properties say nothing of those.              *)
(***************************************************************************)
EXTENDS Naturals, Sequences, FiniteSets, SequencesExt

CONSTANTS
    OldBackups,     \* backups on disk at the beginning
    MaxNames,       \* bound: backups begun in all
    MaxBackups,     \* self.max_backups (50)
    MaxFaults       \* bound: failing steps and damaged files

ASSUME ProtectionAssumption ==
    /\ OldBackups \in Nat
    /\ MaxNames \in Nat /\ OldBackups <= MaxNames
    /\ MaxBackups \in Nat \ {0, 1}      \* an archive beside its directory fills two
    /\ MaxFaults \in Nat

Name == 1..MaxNames
Database == {"sqlite", "chroma"}
Part == Database \cup {"info"}              \* what a backup directory holds
Piece == {"none", "torn", "whole"}          \* a file being written is torn
Path == Name \X {"dir", "tar"}
Job == {"loop", "thread", "handler"}        \* where create_backup runs
Stage == Part \cup {"idle", "archive", "remove", "discard", "prune"}

\* The process until the signal handler is installed, and after it.
Unprotected == {"starting", "recovering", "repairing", "rewriting", "refused"}
Protected == {"ready", "opened", "running", "closing"}

VARIABLES
    phase,      \* what the bot's process is doing
    sqlite,     \* bot_data.db: "fresh" is well-formed but without its rows
    chroma,     \* chroma_data/: "thin" lacks files, "bad" has an empty one
    paths,      \* the paths of the backup directory, by modification time
    dir,        \* the pieces in each backup directory
    tar,        \* each archive
    holds,      \* databases_backed_up of each backup
    failed,     \* its 'errors': the databases whose copy failed
    job,        \* the calls of create_backup: stage, name, paths to remove
    names,      \* the backups begun so far
    faults

vars == <<phase, sqlite, chroma, paths, dir, tar, holds, failed, job, names, faults>>

NoBackup == [stage |-> "idle", name |-> 0, doomed |-> <<>>]
NoPieces == [part \in Part |-> "none"]

TypeOK ==
    /\ phase \in {"down"} \cup Unprotected \cup Protected
    /\ sqlite \in {"none", "fresh", "sound", "damaged"}
    /\ chroma \in {"none", "thin", "sound", "bad"}
    /\ paths \in Seq(Path) /\ IsInjective(paths)
    /\ dir \in [Name -> [Part -> Piece]]
    /\ tar \in [Name -> Piece]
    /\ holds \in [Name -> SUBSET Database]
    /\ failed \in [Name -> SUBSET Database]
    /\ job \in [Job -> [stage : Stage, name : 0..names, doomed : Seq(Path)]]
    /\ \A j \in Job : job[j].stage # "idle" => job[j].name # 0
    /\ names \in 0..MaxNames
    /\ faults \in 0..MaxFaults

InitDisk ==
    /\ sqlite = "sound"
    /\ chroma \in {"none", "sound"}
    /\ paths = [n \in 1..OldBackups |-> <<n, "tar">>]
    /\ dir = [n \in Name |-> NoPieces]
    /\ tar = [n \in Name |-> IF n <= OldBackups THEN "whole" ELSE "none"]
    /\ holds = [n \in Name |-> IF n <= OldBackups THEN {"sqlite"} ELSE {}]
    /\ failed = [n \in Name |-> {}]
    /\ job = [j \in Job |-> NoBackup]
    /\ names = OldBackups
    /\ faults = 0

Init == InitDisk /\ phase = "down"

-----------------------------------------------------------------------------
(* The backup directory.                                                   *)

OnDisk(p) == p \in ToSet(paths)
Without(p) ==
    IF OnDisk(p) THEN RemoveAt(paths, CHOOSE k \in DOMAIN paths : paths[k] = p) ELSE paths
Touched(p) == Append(Without(p), p)

WholeDir(n) ==
    /\ OnDisk(<<n, "dir">>)
    /\ \A part \in holds[n] \cup {"info"} : dir[n][part] = "whole"

\* An archive that is cut off cannot be read; a directory needs its metadata.
ListedTar(n) == OnDisk(<<n, "tar">>) /\ tar[n] = "whole"
ListedDir(n) == OnDisk(<<n, "dir">>) /\ dir[n]["info"] = "whole"

\* What the metadata names is there in full; a database whose copy failed is
\* not named.
Whole(n) == ListedTar(n) \/ WholeDir(n)

\* One step of unlink, or of rmtree, which removes the entries first.
Erase(p) ==
    LET n == p[1]
    IN  \/ /\ p[2] = "tar"
           /\ tar' = [tar EXCEPT ![n] = "none"]
           /\ paths' = Without(p)
           /\ dir' = dir
        \/ \E part \in Part :
              /\ p[2] = "dir" /\ dir[n][part] # "none"
              /\ dir' = [dir EXCEPT ![n][part] = "none"]
              /\ paths' = Touched(p)
              /\ tar' = tar
        \/ /\ p[2] = "dir" /\ dir[n] = NoPieces
           /\ paths' = Without(p)
           /\ UNCHANGED <<dir, tar>>

\* Mutant: the latest are removed.
SurplusLatest(some) == {k \in some : Cardinality({l \in some : l < k}) >= MaxBackups}

\* All but the latest MaxBackups of some paths; a path is its place in the order.
Surplus(some) == {k \in some : Cardinality({l \in some : l > k}) >= MaxBackups}

LatestFirst(some) ==
    {q \in [1..Cardinality(some) -> some] : \A a, b \in DOMAIN q : a < b => q[a] > q[b]}

\* First the archives that are too many, then what else is.
SurplusTars == Surplus({k \in DOMAIN paths : paths[k][2] = "tar"})
SurplusRest == Surplus(DOMAIN paths \ SurplusTars)
Doomed == {s \o t : s \in LatestFirst(SurplusTars), t \in LatestFirst(SurplusRest)}

-----------------------------------------------------------------------------
(* create_backup.                                                          *)

Fault == faults < MaxFaults /\ faults' = faults + 1

\* The handler runs on the main thread: nothing else of that thread does.
CanRun(j) ==
    /\ phase # "down"
    /\ j = "loop" => job["handler"] = NoBackup

Advance(j, stage) == job' = [job EXCEPT ![j].stage = stage]

\* create_backup makes the directory and goes on from there.
Begins(j) ==
    /\ job[j] = NoBackup
    /\ names < MaxNames
    /\ names' = names + 1
    /\ paths' = Append(paths, <<names + 1, "dir">>)
    /\ job' = [job EXCEPT ![j] = [stage |-> "sqlite", name |-> names + 1,
                                  doomed |-> <<>>]]
    /\ UNCHANGED <<dir, tar, holds, failed>>

\* Mutant: the repair goes on when its backup failed.
ReturnsUnchecked(j, path) ==
    /\ phase' = CASE j = "handler" \/ (j = "loop" /\ phase = "closing") -> "down"
                  [] j = "loop" /\ phase = "recovering" -> "repairing"
                  [] OTHER -> phase
    /\ job' = IF phase' = "down" THEN [i \in Job |-> NoBackup]
              ELSE [job EXCEPT ![j] = NoBackup]

\* create_backup returns a path, or "" or an exception: what its caller does.
Returns(j, path) ==
    /\ phase' = CASE j = "handler" \/ (j = "loop" /\ phase = "closing") -> "down"
                  [] j = "loop" /\ phase = "recovering" ->
                        IF path THEN "repairing" ELSE "refused"
                  [] OTHER -> phase
    /\ job' = IF phase' = "down" THEN [i \in Job |-> NoBackup]
              ELSE [job EXCEPT ![j] = NoBackup]

NextStage(j, n) ==
    CASE job[j].stage = "sqlite" -> "chroma"
      [] job[j].stage = "chroma" -> "info"
      [] OTHER -> IF holds[n] = {} THEN "discard" ELSE "archive"

Absent(part) ==
    \/ part = "sqlite" /\ sqlite = "none"
    \/ part = "chroma" /\ chroma = "none"

BeginPiece(j) ==
    LET n == job[j].name  part == job[j].stage
    IN  /\ part \in Part /\ ~Absent(part) /\ dir[n][part] = "none"
        /\ OnDisk(<<n, "dir">>)
        /\ dir' = [dir EXCEPT ![n][part] = "torn"]
        /\ paths' = Touched(<<n, "dir">>)
        /\ UNCHANGED <<phase, tar, holds, failed, job, faults>>

EndPiece(j) ==
    LET n == job[j].name  part == job[j].stage
    IN  /\ part \in Part /\ dir[n][part] = "torn"
        /\ dir' = [dir EXCEPT ![n][part] = "whole"]
        /\ holds' = [holds EXCEPT ![n] = @ \cup ({part} \cap Database)]
        /\ Advance(j, NextStage(j, n))
        /\ UNCHANGED <<phase, paths, tar, failed, faults>>

SkipPiece(j) ==
    /\ job[j].stage \in Part /\ Absent(job[j].stage)
    /\ dir[job[j].name][job[j].stage] = "none"
    /\ Advance(j, NextStage(j, job[j].name))
    /\ UNCHANGED <<phase, paths, dir, tar, holds, failed, faults>>

\* Mutant: a database is noted in the metadata before it is copied.
FailPieceNoted(j) ==
    /\ job[j].stage \in Database /\ ~Absent(job[j].stage) /\ Fault
    /\ holds' = [holds EXCEPT ![job[j].name] = @ \cup {job[j].stage}]
    /\ Advance(j, NextStage(j, job[j].name))
    /\ UNCHANGED <<phase, paths, dir, tar, failed>>

\* A failing copy is recorded and the next is made; failing metadata raises.
FailPiece(j) ==
    /\ job[j].stage \in Part /\ ~Absent(job[j].stage)
    /\ IF OnDisk(<<job[j].name, "dir">>) THEN Fault ELSE faults' = faults
    /\ failed' = [failed EXCEPT ![job[j].name] = @ \cup ({job[j].stage} \cap Database)]
    /\ IF job[j].stage = "info" THEN Returns(j, FALSE)
       ELSE Advance(j, NextStage(j, job[j].name)) /\ phase' = phase
    /\ UNCHANGED <<paths, dir, tar, holds>>

BeginArchive(j) ==
    LET n == job[j].name
    IN  /\ job[j].stage = "archive" /\ tar[n] = "none"
        /\ tar' = [tar EXCEPT ![n] = "torn"]
        /\ paths' = Touched(<<n, "tar">>)
        /\ UNCHANGED <<phase, dir, holds, failed, job, faults>>

EndArchive(j) ==
    LET n == job[j].name
    IN  /\ job[j].stage = "archive" /\ tar[n] = "torn"
        /\ WholeDir(n)
        /\ tar' = [tar EXCEPT ![n] = "whole"]
        /\ paths' = Touched(<<n, "tar">>)
        /\ Advance(j, "remove")
        /\ UNCHANGED <<phase, dir, holds, failed, faults>>

ToPrune(j) ==
    \E q \in Doomed :
        job' = [job EXCEPT ![j].stage = "prune", ![j].doomed = [k \in DOMAIN q |-> paths[q[k]]]]

\* A failure of make_archive or of rmtree is only logged.
FailCompression(j) ==
    /\ job[j].stage \in {"archive", "remove"}
    /\ IF WholeDir(job[j].name) \/ job[j].stage = "remove" THEN Fault
       ELSE faults' = faults
    /\ ToPrune(j)
    /\ UNCHANGED <<phase, paths, dir, tar, holds, failed>>

RemoveDir(j) ==
    LET p == <<job[j].name, "dir">>
    IN  /\ job[j].stage \in {"remove", "discard"} /\ OnDisk(p)
        /\ Erase(p)
        /\ UNCHANGED <<phase, job, holds, failed, faults>>

RemovedDir(j) ==
    /\ job[j].stage \in {"remove", "discard"} /\ ~OnDisk(<<job[j].name, "dir">>)
    /\ IF job[j].stage = "remove" THEN ToPrune(j) /\ phase' = phase
       ELSE Returns(j, FALSE)
    /\ UNCHANGED <<paths, dir, tar, holds, failed, faults>>

\* _cleanup_old_backups has listed the directory and removes path by path.
Prune(j) ==
    LET doomed == job[j].doomed
    IN  /\ job[j].stage = "prune" /\ doomed # <<>> /\ OnDisk(Head(doomed))
        /\ Erase(Head(doomed))
        /\ job' = [job EXCEPT ![j].doomed =
                      IF Head(doomed) \in ToSet(paths') THEN @ ELSE Tail(@)]
        /\ UNCHANGED <<phase, holds, failed, faults>>

\* It ends with its list, or at the first path it cannot remove.
EndBackup(j) ==
    LET doomed == job[j].doomed
    IN  /\ job[j].stage = "prune"
        /\ IF doomed = <<>> \/ ~OnDisk(Head(doomed)) THEN faults' = faults ELSE Fault
        /\ Returns(j, TRUE)
        /\ UNCHANGED <<paths, dir, tar, holds, failed>>

BackupStep(j) ==
    /\ CanRun(j)
    /\ \/ BeginPiece(j) \/ EndPiece(j) \/ SkipPiece(j) \/ FailPiece(j)
       \/ BeginArchive(j) \/ EndArchive(j) \/ FailCompression(j)
       \/ RemoveDir(j) \/ RemovedDir(j) \/ Prune(j) \/ EndBackup(j)
    /\ UNCHANGED <<sqlite, chroma, names>>

-----------------------------------------------------------------------------
(* init_database_protection, called by on_ready.                           *)

SqliteErrors ==
    CASE sqlite = "none" -> {"sqlite is missing"}
      [] sqlite = "damaged" -> {"sqlite is corrupt"}
      [] OTHER -> {}

ChromaErrors ==
    CASE chroma \in {"none", "thin"} -> {"chroma is missing"}
      [] chroma = "bad" -> {"chroma is corrupt"}
      [] OTHER -> {}

Missing == {"sqlite is missing", "chroma is missing"}

\* Mutant: one missing database makes a fresh start.
OverallStatusAnyMissing ==
    LET errors == SqliteErrors \cup ChromaErrors
    IN  IF errors = {} \/ errors \cap Missing # {} THEN "valid"
        ELSE IF Cardinality(errors) = 1 THEN "recoverable" ELSE "critical"

OverallStatus ==
    LET errors == SqliteErrors \cup ChromaErrors
    IN  IF errors \subseteq Missing THEN "valid"
        ELSE IF Cardinality(errors) = 1 THEN "recoverable" ELSE "critical"

\* A "recoverable" database is backed up before it is repaired.
Validate ==
    /\ phase = "starting"
    /\ \/ /\ OverallStatus = "valid" /\ phase' = "ready"
          /\ UNCHANGED <<paths, dir, tar, holds, failed, job, names>>
       \/ /\ OverallStatus = "critical" /\ phase' = "refused"
          /\ UNCHANGED <<paths, dir, tar, holds, failed, job, names>>
       \/ /\ OverallStatus = "recoverable" /\ phase' = "recovering"
          /\ Begins("loop")
    /\ UNCHANGED <<sqlite, chroma, faults>>

\* _recover_sqlite_database reads every table and removes the file, ...
UnlinkSqlite ==
    /\ phase = "repairing" /\ sqlite = "damaged"
    /\ sqlite' = "none" /\ phase' = "rewriting"
    /\ UNCHANGED <<chroma, paths, dir, tar, holds, failed, job, names, faults>>

\* ... creates the tables again, and commits their rows in one transaction.
RewriteSqlite ==
    /\ phase = "rewriting"
    /\ \/ sqlite = "none" /\ sqlite' = "fresh" /\ phase' = phase
       \/ sqlite = "fresh" /\ sqlite' = "sound" /\ phase' = "ready"
    /\ UNCHANGED <<chroma, paths, dir, tar, holds, failed, job, names, faults>>

\* _recover_chroma_database removes the directory.
RepairChroma ==
    /\ phase = "repairing" /\ sqlite # "damaged"
    /\ \/ chroma = "bad" /\ chroma' = "thin" /\ phase' = phase
       \/ chroma = "thin" /\ chroma' = "none" /\ phase' = "ready"
    /\ UNCHANGED <<sqlite, paths, dir, tar, holds, failed, job, names, faults>>

\* A table cannot be read, or a file cannot be written or removed.
FailRepair ==
    /\ phase \in {"repairing", "rewriting"}
    /\ Fault
    /\ phase' = "refused"
    /\ UNCHANGED <<sqlite, chroma, paths, dir, tar, holds, failed, job, names>>

-----------------------------------------------------------------------------
(* The rest of the process's life.                                         *)

\* The memory system opens the database, or creates it.
OpenDatabase ==
    /\ phase = "ready" /\ job["handler"] = NoBackup
    /\ phase' = "opened"
    /\ sqlite' = IF sqlite = "none" THEN "fresh" ELSE sqlite
    /\ UNCHANGED <<chroma, paths, dir, tar, holds, failed, job, names, faults>>

StartupBackup ==
    /\ phase = "opened" /\ job["handler"] = NoBackup
    /\ Begins("thread")
    /\ phase' = "running"
    /\ UNCHANGED <<sqlite, chroma, faults>>

\* The maintenance task lives on when on_ready has refused the database.
ScheduledBackup ==
    /\ phase \in {"refused", "opened", "running"} /\ job["handler"] = NoBackup
    /\ Begins("loop")
    /\ UNCHANGED <<phase, sqlite, chroma, faults>>

\* main returns, asyncio.run waits for its threads, and atexit calls back.
EndMain ==
    /\ phase \in {"opened", "running"}
    /\ \A j \in Job : job[j] = NoBackup
    /\ Begins("loop")
    /\ phase' = "closing"
    /\ UNCHANGED <<sqlite, chroma, faults>>

Die ==
    /\ phase # "down"
    /\ phase' = "down"
    /\ job' = [j \in Job |-> NoBackup]
    /\ UNCHANGED <<sqlite, chroma, paths, dir, tar, holds, failed, names, faults>>

\* SIGINT or SIGTERM: the default action, a last backup, or the second signal.
\* (Past the bound MaxNames the process ends without the last backup.)
Terminate ==
    \/ phase \in Unprotected /\ Die
    \/ phase \in Protected /\ (job["handler"] # NoBackup \/ names = MaxNames) /\ Die
    \/ phase \in Protected /\ Begins("handler")
       /\ UNCHANGED <<phase, sqlite, chroma, faults>>

\* The disk damages a file while it is in use or after a loss of power.
Damage ==
    /\ phase \in {"down", "running"}
    /\ Fault
    /\ \/ sqlite = "sound" /\ sqlite' = "damaged" /\ chroma' = chroma
       \/ chroma = "sound" /\ chroma' \in {"thin", "bad"} /\ sqlite' = sqlite
    /\ UNCHANGED <<phase, paths, dir, tar, holds, failed, job, names>>

BotStep ==
    \/ \E j \in Job : BackupStep(j)
    \/ Validate \/ UnlinkSqlite \/ RewriteSqlite \/ RepairChroma \/ FailRepair
    \/ OpenDatabase \/ StartupBackup \/ ScheduledBackup \/ EndMain

\* Someone starts the bot; HotReloader says who.
Launch ==
    /\ phase = "down"
    /\ phase' = "starting"
    /\ UNCHANGED <<sqlite, chroma, paths, dir, tar, holds, failed, job, names, faults>>

ProtectionNext == BotStep \/ Launch \/ Terminate \/ Die \/ Damage

ProtectionSpec == Init /\ [][ProtectionNext]_vars

-----------------------------------------------------------------------------
\* The paths that can be later than those of backup n are three of each call
\* of create_backup: its directory, its archive and the directory that its
\* clean-up is removing, or was when it was cut off.  They are the calls begun
\* since, that of n itself, and up to two that were under way when it began.
Recent(n) == 3 * (names - n + 3) <= MaxBackups

\* What list_backups offers to a person has in full every database that its
\* metadata names, unless many backups were begun after it: wherever a backup
\* was cut off, its archive comes before its half-removed directory, and no
\* clean-up, its own or that of a call in another thread, removes it.
ListedIsWhole ==
    \A n \in Name : (ListedTar(n) \/ ListedDir(n)) /\ Recent(n) => Whole(n)

\* A backup that create_backup is about to report has not been removed,
\* unless many were begun while it was made.
ReportsWholeBackup ==
    \A j \in Job : job[j].stage = "prune" /\ Recent(job[j].name) => Whole(job[j].name)

\* The signal handlers and the memory system only ever come after a
\* validation or a repair that left no corrupt database behind, however
\* earlier attempts to repair it were cut off.
StartsSound ==
    [][phase # "ready" /\ phase' = "ready" =>
          sqlite' # "damaged" /\ chroma' # "bad"]_vars

\* A database that is in a backup, and can be read from there in full.
Copied(n, database) == Whole(n) /\ database \in holds[n]

\* A repair removes a database only when the backup made for it has that very
\* database in full on disk, or says in its metadata that it could not be
\* copied.  (With the other database copied create_backup returns its path all
\* the same, and the repair goes on: the second case is a loss of the code's.)
BackedUpBeforeRepair ==
    [][phase = "repairing" =>
          /\ sqlite' # sqlite => Copied(names, "sqlite") \/ "sqlite" \in failed[names]
          /\ chroma' # chroma => Copied(names, "chroma") \/ "chroma" \in failed[names]]_vars
=============================================================================
