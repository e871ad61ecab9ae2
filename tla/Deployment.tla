----------------------------- MODULE Deployment -----------------------------
(***************************************************************************)
(* What a container does before it serves: migrate_database                *)
(* (app/migrations.py) and ensure_demo_seeded (app/hosted_demo.py), by     *)
(* containers of several releases that start together, fail and die.       *)
(*                                                                         *)
(* The migrations of one start are one transaction under a transaction     *)
(* lock.  The seed runs under a session lock; run_demo records each of its *)
(* observations over a connection, and in a transaction, of its own.       *)
(*                                                                         *)
(* A file has a version, the stem of its name, and a checksum.  A release  *)
(* is the sequence of its files, sorted by name; schema_migrations is a    *)
(* set of rows that look like files, and is searched by version.           *)
(***************************************************************************)
EXTENDS Integers, Sequences, Functions

CONSTANTS
  Containers,
  Releases,       \* sequences of migration files
  Versions,       \* the stems of their names
  Checksums,
  SeedVersion,    \* the migration that creates network_observations
  Observations,   \* how many observations run_demo records
  None

Files == [version : Versions, checksum : Checksums]

\* A directory holds one file of each name.
ASSUME ReleasesAssumption ==
  /\ Releases \subseteq Seq(Files)
  /\ \A r \in Releases : \A m, n \in DOMAIN r : r[m].version = r[n].version => m = n
  /\ Observations \in Nat
  /\ None \notin Containers /\ None \notin Releases

VARIABLES
  recorded,        \* schema_migrations: version and checksum of each applied file
  observed,        \* network_observations: how often each one is recorded
  migrationLock,   \* holder of the lock MIGRATION_LOCK_ID
  seedLock,        \* holder of the lock DEMO_SEED_LOCK_ID
  pc,
  release,         \* the release of the container
  known,           \* recorded, as migrate_database read it
  done,            \* files handled by migrate_database, then observations made
  unguarded        \* history: a seed lost its lock before its first observation

database == <<recorded, observed>>
locks == <<migrationLock, seedLock>>
vars == <<database, locks, pc, release, known, done, unguarded>>

Places == {"down", "waitMigrate", "read", "files", "waitSeed", "count", "seeding", "serving"}

TypeOK ==
  /\ recorded \subseteq Files
  /\ observed \in [1..Observations -> Nat]
  /\ migrationLock \in Containers \union {None}
  /\ seedLock \in Containers \union {None}
  /\ pc \in [Containers -> Places]
  /\ release \in [Containers -> Releases \union {None}]
  /\ known \in [Containers -> SUBSET Files]
  /\ done \in [Containers -> Nat]
  /\ unguarded \in BOOLEAN

Init ==
  /\ recorded = {}
  /\ observed = [n \in 1..Observations |-> 0]
  /\ migrationLock = None /\ seedLock = None
  /\ pc = [c \in Containers |-> "down"]
  /\ release = [c \in Containers |-> None]
  /\ known = [c \in Containers |-> {}]
  /\ done = [c \in Containers |-> 0]
  /\ unguarded = FALSE

-----------------------------------------------------------------------------
(* Helpers *)

BugMigrationLockShared == TRUE
MigrationLockFree == migrationLock = None

BugSeedLockShared == TRUE
SeedLockFree == seedLock = None

FilesOf(r) == Range(r)

\* The file that migrate_database handles next.
FilesLeft(c) == done[c] < Len(release[c])
File(c) == release[c][done[c] + 1]

\* recorded.get(version)
IsApplied(c, f) == \E g \in known[c] : g.version = f.version

BugChecksumIgnored(c) == TRUE
ChecksumMatches(c) == File(c) \in known[c]

\* The files that are executed, and recorded when the transaction commits.
BugColumnsSwapped(c) ==
  {[version |-> f.checksum, checksum |-> f.version] :
     f \in {g \in FilesOf(release[c]) : ~IsApplied(c, g)}}
Pending(c) == {f \in FilesOf(release[c]) : ~IsApplied(c, f)}

ObservationsTable == \E f \in recorded : f.version = SeedVersion
Empty == \A n \in 1..Observations : observed[n] = 0

Goto(c, place) == pc' = [pc EXCEPT ![c] = place]
Reset(c) == done' = [done EXCEPT ![c] = 0]

\* The end of the container's connections frees its locks.
Unlock(c) ==
  /\ migrationLock' = IF migrationLock = c THEN None ELSE migrationLock
  /\ seedLock' = IF seedLock = c THEN None ELSE seedLock

\* The bootstrap ends, well or with an error: the start command goes on to the
\* server in either case.
Serve(c) ==
  /\ Unlock(c)
  /\ Goto(c, "serving")
  /\ Reset(c)
  /\ known' = [known EXCEPT ![c] = {}]
  /\ UNCHANGED <<database, release, unguarded>>

-----------------------------------------------------------------------------
(* migrate_database *)

Start(c, r) ==
  /\ pc[c] = "down"
  /\ release' = [release EXCEPT ![c] = r]
  /\ Goto(c, "waitMigrate")
  /\ UNCHANGED <<database, locks, known, done, unguarded>>

\* SELECT pg_advisory_xact_lock(MIGRATION_LOCK_ID)
LockMigrations(c) ==
  /\ pc[c] = "waitMigrate"
  /\ MigrationLockFree
  /\ migrationLock' = c
  /\ Goto(c, "read")
  /\ UNCHANGED <<database, seedLock, release, known, done, unguarded>>

\* SELECT version, checksum FROM schema_migrations
ReadRecorded(c) ==
  /\ pc[c] = "read"
  /\ known' = [known EXCEPT ![c] = recorded]
  /\ Goto(c, "files")
  /\ UNCHANGED <<database, locks, release, done, unguarded>>

\* A file that was applied, by its checksum, is skipped; any other is executed.
HandleFile(c) ==
  /\ pc[c] = "files"
  /\ FilesLeft(c)
  /\ IsApplied(c, File(c)) => ChecksumMatches(c)
  /\ done' = [done EXCEPT ![c] = @ + 1]
  /\ UNCHANGED <<database, locks, pc, release, known, unguarded>>

\* MigrationDriftError
Drift(c) ==
  /\ pc[c] = "files"
  /\ FilesLeft(c)
  /\ IsApplied(c, File(c)) /\ ~ChecksumMatches(c)
  /\ Serve(c)

\* The with block ends: what was executed is committed.  The primary key holds
\* back a version that another container has committed.
CommitMigrations(c) ==
  /\ pc[c] = "files"
  /\ ~FilesLeft(c)
  /\ \A f \in Pending(c), g \in recorded : f.version # g.version
  /\ recorded' = recorded \union Pending(c)
  /\ migrationLock' = IF migrationLock = c THEN None ELSE migrationLock
  /\ Goto(c, "waitSeed")
  /\ Reset(c)
  /\ known' = [known EXCEPT ![c] = {}]
  /\ UNCHANGED <<observed, seedLock, release, unguarded>>

-----------------------------------------------------------------------------
(* ensure_demo_seeded *)

\* SELECT pg_advisory_lock(DEMO_SEED_LOCK_ID)
LockSeed(c) ==
  /\ pc[c] = "waitSeed"
  /\ SeedLockFree
  /\ seedLock' = c
  /\ Goto(c, "count")
  /\ UNCHANGED <<database, migrationLock, release, known, done, unguarded>>

\* SELECT COUNT(*) FROM network_observations: some, or there is no such table
SeedNothing(c) ==
  /\ pc[c] = "count"
  /\ ~(ObservationsTable /\ Empty)
  /\ Serve(c)

FindEmpty(c) ==
  /\ pc[c] = "count"
  /\ ObservationsTable /\ Empty
  /\ Goto(c, "seeding")
  /\ UNCHANGED <<database, locks, release, known, done, unguarded>>

\* run_demo: the next exchange or late response records its observation.
Observe(c) ==
  /\ pc[c] = "seeding"
  /\ done[c] < Observations
  /\ observed' = [observed EXCEPT ![done[c] + 1] = @ + 1]
  /\ done' = [done EXCEPT ![c] = @ + 1]
  /\ UNCHANGED <<recorded, locks, pc, release, known, unguarded>>

\* pg_advisory_unlock
EndSeed(c) ==
  /\ pc[c] = "seeding"
  /\ done[c] = Observations
  /\ Serve(c)

-----------------------------------------------------------------------------
(* Failures *)

\* A statement raises: the open transaction rolls back, finally unlocks.
Fail(c) == pc[c] \notin {"down", "serving"} /\ Serve(c)

\* The connection that holds the seed lock is lost while it is idle: the lock is
\* free, and run_demo, on connections of its own, goes on.  The unlock will raise.
LoseSeedLock(c) ==
  /\ pc[c] = "seeding"
  /\ seedLock = c
  /\ seedLock' = None
  /\ unguarded' = (unguarded \/ Empty)
  /\ UNCHANGED <<database, migrationLock, pc, release, known, done>>

\* The container dies, or is stopped.
Crash(c) ==
  /\ pc[c] # "down"
  /\ Unlock(c)
  /\ Goto(c, "down")
  /\ Reset(c)
  /\ known' = [known EXCEPT ![c] = {}]
  /\ release' = [release EXCEPT ![c] = None]
  /\ UNCHANGED <<database, unguarded>>

-----------------------------------------------------------------------------

Next ==
  \E c \in Containers :
    \/ \E r \in Releases : Start(c, r)
    \/ LockMigrations(c) \/ ReadRecorded(c) \/ HandleFile(c)
    \/ Drift(c) \/ CommitMigrations(c)
    \/ LockSeed(c) \/ SeedNothing(c) \/ FindEmpty(c) \/ Observe(c) \/ EndSeed(c)
    \/ Fail(c) \/ LoseSeedLock(c) \/ Crash(c)

Spec == Init /\ [][Next]_vars

-----------------------------------------------------------------------------
(* Properties *)

\* Releases come whole: the schema is put together from complete releases, and a
\* container that got through its migrations finds every file of its own release
\* recorded as it has it, whoever started, failed or died meanwhile.  Releases
\* that edit a file exclude each other; releases that name files differently do
\* not, and the schema may hold both.
SchemaIsWholeReleases ==
  /\ \E S \in SUBSET Releases : recorded = UNION {FilesOf(r) : r \in S}
  /\ \A f, g \in recorded : f.version = g.version => f = g
  /\ \A c \in Containers :
       pc[c] \in {"waitSeed", "count", "seeding"} => FilesOf(release[c]) \subseteq recorded

\* The migration lock alone serialises the starts: none of them ever executes a
\* migration that another one has committed since it looked.
PendingStaysPending ==
  \A c \in Containers : pc[c] = "files" => recorded = known[c]

\* app/hosted_demo.py: "concurrent starts do not create duplicate demo
\* observations", whoever dies or fails in the middle of the seed: what is there
\* is the beginning of the demo, on a schema that has its table.  The one
\* exception is a lock connection lost before the first observation.
SeededOnce ==
  \A n \in 1..Observations :
    /\ observed[n] <= 1 \/ unguarded
    /\ observed[n] > 0 => ObservationsTable /\ \A m \in 1..n : observed[m] > 0
=============================================================================
