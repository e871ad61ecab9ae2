-------------------------- MODULE DeploymentProofs --------------------------
(***************************************************************************)
(* What Deployment promises holds for any containers, releases and number  *)
(* of observations.                                                        *)
(***************************************************************************)
EXTENDS Deployment, TLAPS

-----------------------------------------------------------------------------
(* The inductive invariant *)

\* Whoever is between the two ends of a critical section holds its lock, but for
\* a seed that has lost its own.
LocksHeld ==
  \A c \in Containers :
    /\ pc[c] \in {"read", "files"} => migrationLock = c
    /\ pc[c] = "count" => seedLock = c

\* What a container in the middle of its files knows: nothing has been recorded
\* since it looked, and the files it has passed are the recorded ones.
FilesChecked ==
  \A c \in Containers :
    /\ pc[c] # "down" => release[c] \in Releases
    /\ pc[c] = "files" =>
         /\ known[c] = recorded
         /\ done[c] <= Len(release[c])
         /\ \A n \in 1..done[c] :
              IsApplied(c, release[c][n]) => release[c][n] \in known[c]

\* The two loops are entered with nothing done.
StepsFromZero ==
  \A c \in Containers : pc[c] \notin {"files", "seeding", "serving"} => done[c] = 0

\* A container that seeds has made observations, on a schema that has their table.
SeedIsThere ==
  \A c \in Containers :
    pc[c] = "seeding" =>
      /\ ObservationsTable
      /\ done[c] <= Observations
      /\ \A n \in 1..done[c] : observed[n] > 0

\* ... it alone made them, and it holds the lock until the first one is made.
SeedIsOwn ==
  ~unguarded =>
    \A c \in Containers :
      pc[c] = "seeding" =>
        /\ \A n \in 1..Observations : observed[n] = IF n <= done[c] THEN 1 ELSE 0
        /\ Empty => seedLock = c
        /\ \A d \in Containers : pc[d] = "seeding" => d = c

SeedInv == SeedIsThere /\ SeedIsOwn /\ SeededOnce
MigrationInv == LocksHeld /\ FilesChecked /\ SchemaIsWholeReleases

IInv == TypeOK /\ StepsFromZero /\ MigrationInv /\ SeedInv

-----------------------------------------------------------------------------
(* The commit of a start *)

\* What a start records, once it has passed all its files, completes its release.
LEMMA PendingCompletes ==
  ASSUME IInv, NEW c \in Containers, pc[c] = "files", ~FilesLeft(c)
  PROVE  /\ recorded \union Pending(c) = recorded \union FilesOf(release[c])
         /\ Pending(c) \subseteq Files
         /\ \A f, g \in Pending(c) : f.version = g.version => f = g
<1>. DEFINE r == release[c]
<1>1. /\ r \in Seq(Files) /\ Len(r) \in Nat /\ DOMAIN r = 1..Len(r)
      /\ \A m, n \in DOMAIN r : r[m].version = r[n].version => m = n
  BY ReleasesAssumption DEF IInv, MigrationInv, FilesChecked
<1>2. FilesOf(r) = {r[n] : n \in 1..Len(r)} /\ FilesOf(r) \subseteq Files
  BY <1>1 DEF FilesOf, Range
<1>3. done[c] = Len(r) /\ known[c] = recorded
  BY <1>1 DEF IInv, TypeOK, MigrationInv, FilesChecked, FilesLeft
<1>4. \A n \in 1..Len(r) : IsApplied(c, r[n]) => r[n] \in recorded
  BY <1>3 DEF IInv, MigrationInv, FilesChecked
<1>5. \A f \in FilesOf(r) : f \notin Pending(c) => f \in recorded
  BY <1>2, <1>4 DEF Pending
<1>6. Pending(c) \subseteq FilesOf(r)
  BY DEF Pending
<1>7. \A f, g \in FilesOf(r) : f.version = g.version => f = g
  BY <1>1, <1>2
<1>. QED
  BY <1>2, <1>5, <1>6, <1>7

LEMMA CommitKeeps ==
  ASSUME IInv, NEW c \in Containers, CommitMigrations(c)
  PROVE  /\ recorded \subseteq recorded' /\ recorded' \subseteq Files
         /\ SchemaIsWholeReleases'
<1>. DEFINE r == release[c]
<1>1. /\ pc[c] = "files" /\ ~FilesLeft(c)
      /\ \A f \in Pending(c), g \in recorded : f.version # g.version
      /\ recorded' = recorded \union Pending(c)
      /\ release' = release /\ pc' = [pc EXCEPT ![c] = "waitSeed"]
  BY DEF CommitMigrations, Goto
<1>2. /\ recorded' = recorded \union FilesOf(r)
      /\ Pending(c) \subseteq Files
      /\ \A f, g \in Pending(c) : f.version = g.version => f = g
  BY <1>1, PendingCompletes
<1>3. r \in Releases
  BY <1>1 DEF IInv, MigrationInv, FilesChecked
<1>4. \E S \in SUBSET Releases : recorded' = UNION {FilesOf(q) : q \in S}
  <2>1. PICK S \in SUBSET Releases : recorded = UNION {FilesOf(q) : q \in S}
    BY DEF IInv, MigrationInv, SchemaIsWholeReleases
  <2>2. recorded' = UNION {FilesOf(q) : q \in S \union {r}}
    BY <1>2, <2>1
  <2>3. S \union {r} \in SUBSET Releases
    BY <1>3
  <2>. QED
    BY <2>2, <2>3
<1>5. \A f, g \in recorded' : f.version = g.version => f = g
  BY <1>1, <1>2 DEF IInv, MigrationInv, SchemaIsWholeReleases
<1>6. \A d \in Containers :
        pc'[d] \in {"waitSeed", "count", "seeding"} => FilesOf(release'[d]) \subseteq recorded'
  BY <1>1, <1>2 DEF IInv, TypeOK, MigrationInv, SchemaIsWholeReleases
<1>7. \E S \in SUBSET Releases : recorded' = UNION {FilesOf(q)' : q \in S}
  BY <1>4 DEF FilesOf
<1>8. SchemaIsWholeReleases'
  BY <1>5, <1>6, <1>7 DEF SchemaIsWholeReleases, FilesOf
<1>. QED
  BY <1>1, <1>2, <1>8 DEF IInv, TypeOK

-----------------------------------------------------------------------------
(* Every step keeps the invariant *)

LEMMA InitInvariant == Init => IInv
<1>. SUFFICES ASSUME Init PROVE IInv
  OBVIOUS
<1>1. TypeOK
  BY DEF Init, Places, TypeOK
<1>2. StepsFromZero /\ LocksHeld /\ FilesChecked
  BY DEF Init, LocksHeld, FilesChecked, StepsFromZero
<1>3. SeedInv
  BY DEF Init, SeedIsThere, SeedIsOwn, SeedInv, SeededOnce
<1>4. recorded = UNION {FilesOf(r) : r \in {}} /\ {} \in SUBSET Releases
  BY DEF Init
<1>5. SchemaIsWholeReleases
  BY <1>4 DEF Init, SchemaIsWholeReleases
<1>. QED
  BY <1>1, <1>2, <1>3, <1>5 DEF IInv, MigrationInv

\* Most steps leave the schema alone, and enter nothing but their own section.
LEMMA SchemaKept ==
  ASSUME IInv, recorded' = recorded,
         \A c \in Containers :
           pc'[c] \in {"waitSeed", "count", "seeding"} =>
             pc[c] \in {"waitSeed", "count", "seeding"} /\ release'[c] = release[c]
  PROVE  SchemaIsWholeReleases' /\ (ObservationsTable' <=> ObservationsTable)
<1>1. \E S \in SUBSET Releases : recorded' = UNION {FilesOf(r) : r \in S}
  BY DEF IInv, MigrationInv, SchemaIsWholeReleases
<1>2. \E S \in SUBSET Releases : recorded' = UNION {FilesOf(r)' : r \in S}
  BY <1>1 DEF FilesOf
<1>3. \A c \in Containers :
        pc'[c] \in {"waitSeed", "count", "seeding"} => FilesOf(release'[c]) \subseteq recorded'
  BY DEF IInv, MigrationInv, SchemaIsWholeReleases
<1>4. \A f, g \in recorded' : f.version = g.version => f = g
  BY DEF IInv, MigrationInv, SchemaIsWholeReleases
<1>5. SchemaIsWholeReleases'
  BY <1>2, <1>3, <1>4 DEF SchemaIsWholeReleases, FilesOf
<1>. QED
  BY <1>5 DEF ObservationsTable

LEMMA MigrationStep == IInv /\ [Next]_vars => TypeOK' /\ StepsFromZero' /\ MigrationInv'
<1>. SUFFICES ASSUME IInv, [Next]_vars PROVE TypeOK' /\ StepsFromZero' /\ MigrationInv'
  OBVIOUS
<1>. USE ReleasesAssumption
     DEF IInv, TypeOK, Places, MigrationInv, LocksHeld, FilesChecked, StepsFromZero, IsApplied,
         database, locks
<1>1. ASSUME NEW c \in Containers, NEW r \in Releases, Start(c, r)
      PROVE  TypeOK' /\ StepsFromZero' /\ MigrationInv'
  BY <1>1, SchemaKept DEF Start, Goto, Reset
<1>2. ASSUME NEW c \in Containers, LockMigrations(c)
      PROVE  TypeOK' /\ StepsFromZero' /\ MigrationInv'
  BY <1>2, SchemaKept DEF LockMigrations, MigrationLockFree, Goto, Reset
<1>3. ASSUME NEW c \in Containers, ReadRecorded(c)
      PROVE  TypeOK' /\ StepsFromZero' /\ MigrationInv'
  <2>1. SchemaIsWholeReleases'
    BY <1>3, SchemaKept DEF ReadRecorded, Goto
  <2>2. done[c] = 0 /\ release[c] \in Seq(Files) /\ Len(release[c]) \in Nat
    BY <1>3 DEF ReadRecorded
  <2>3. known'[c] = recorded /\ \A d \in Containers : d # c => known'[d] = known[d]
    BY <1>3 DEF ReadRecorded
  <2>4. TypeOK' /\ StepsFromZero' /\ LocksHeld'
    BY <1>3 DEF ReadRecorded, Goto
  <2>5. FilesChecked'
    BY <1>3, <2>2, <2>3 DEF ReadRecorded, Goto
  <2>. QED
    BY <2>1, <2>4, <2>5
<1>4. ASSUME NEW c \in Containers, HandleFile(c)
      PROVE  TypeOK' /\ StepsFromZero' /\ MigrationInv'
  <2>1. SchemaIsWholeReleases'
    BY <1>4, SchemaKept DEF HandleFile
  <2>2. release[c] \in Seq(Files) /\ Len(release[c]) \in Nat /\ done[c] \in Nat
    BY <1>4 DEF HandleFile
  <2>3. TypeOK' /\ StepsFromZero' /\ LocksHeld'
    BY <1>4, <2>2 DEF HandleFile
  <2>4. /\ done[c] + 1 <= Len(release[c])
        /\ IsApplied(c, release[c][done[c] + 1]) => release[c][done[c] + 1] \in known[c]
    BY <1>4, <2>2 DEF HandleFile, FilesLeft, File, ChecksumMatches
  <2>5. FilesChecked'
    BY <1>4, <2>2, <2>4 DEF HandleFile
  <2>. QED
    BY <2>1, <2>3, <2>5
<1>5. ASSUME NEW c \in Containers, Drift(c) \/ SeedNothing(c) \/ EndSeed(c) \/ Fail(c)
      PROVE  TypeOK' /\ StepsFromZero' /\ MigrationInv'
  <2>1. Serve(c) /\ pc[c] # "down"
    BY <1>5 DEF Drift, SeedNothing, EndSeed, Fail
  <2>2. SchemaIsWholeReleases'
    BY <2>1, SchemaKept DEF Serve, Goto
  <2>3. TypeOK' /\ StepsFromZero' /\ LocksHeld'
    BY <2>1 DEF Serve, Unlock, Goto, Reset
  <2>4. FilesChecked'
    BY <2>1 DEF Serve, Goto, Reset
  <2>. QED
    BY <2>2, <2>3, <2>4
<1>6. ASSUME NEW c \in Containers, CommitMigrations(c)
      PROVE  TypeOK' /\ StepsFromZero' /\ MigrationInv'
  <2>1. recorded' \subseteq Files /\ SchemaIsWholeReleases'
    BY <1>6, CommitKeeps
  <2>2. TypeOK' /\ StepsFromZero' /\ LocksHeld' /\ FilesChecked'
    BY <1>6, <2>1 DEF CommitMigrations, Goto, Reset
  <2>. QED
    BY <2>1, <2>2
<1>7. ASSUME NEW c \in Containers, LockSeed(c) \/ FindEmpty(c) \/ LoseSeedLock(c)
      PROVE  TypeOK' /\ StepsFromZero' /\ MigrationInv'
  <2>1. SchemaIsWholeReleases'
    BY <1>7, SchemaKept DEF LockSeed, FindEmpty, LoseSeedLock, Goto
  <2>2. TypeOK' /\ StepsFromZero' /\ LocksHeld'
    BY <1>7 DEF LockSeed, SeedLockFree, FindEmpty, LoseSeedLock, Goto
  <2>3. FilesChecked'
    BY <1>7 DEF LockSeed, FindEmpty, LoseSeedLock, Goto
  <2>. QED
    BY <2>1, <2>2, <2>3
<1>8. ASSUME NEW c \in Containers, Observe(c)
      PROVE  TypeOK' /\ StepsFromZero' /\ MigrationInv'
  <2>1. done' \in [Containers -> Nat] /\ done[c] + 1 \in 1..Observations
    BY <1>8 DEF Observe
  <2>2. observed' \in [1..Observations -> Nat]
    BY <1>8, <2>1 DEF Observe
  <2>3. SchemaIsWholeReleases'
    BY <1>8, SchemaKept DEF Observe
  <2>. QED
    BY <1>8, <2>1, <2>2, <2>3 DEF Observe
<1>9. ASSUME NEW c \in Containers, Crash(c)
      PROVE  TypeOK' /\ StepsFromZero' /\ MigrationInv'
  BY <1>9, SchemaKept DEF Crash, Unlock, Goto, Reset
<1>10. CASE UNCHANGED vars
  BY <1>10, SchemaKept DEF vars
<1>. QED
  BY <1>1, <1>2, <1>3, <1>4, <1>5, <1>6, <1>7, <1>8, <1>9, <1>10 DEF Next

\* A step that makes no observation and starts no seed keeps the seed's invariant,
\* if no seed loses its lock.
LEMMA SeedKept ==
  ASSUME IInv, UNCHANGED <<observed, unguarded>>, ObservationsTable => ObservationsTable',
         \A c \in Containers :
           pc'[c] = "seeding" =>
             pc[c] = "seeding" /\ done'[c] = done[c] /\ (seedLock = c => seedLock' = c)
  PROVE  SeedInv'
  BY DEF IInv, SeedInv, SeedIsThere, SeedIsOwn, SeededOnce, Empty

LEMMA SeedStep == IInv /\ [Next]_vars => SeedInv'
<1>. SUFFICES ASSUME IInv, [Next]_vars PROVE SeedInv'
  OBVIOUS
<1>0. None \notin Containers /\ Observations \in Nat
  BY ReleasesAssumption
<1>. USE <1>0 DEF IInv, TypeOK, Places, database, locks
<1>1. ASSUME NEW c \in Containers,
             \/ \E r \in Releases : Start(c, r)
             \/ LockMigrations(c) \/ ReadRecorded(c) \/ HandleFile(c) \/ LockSeed(c)
      PROVE  SeedInv'
  BY <1>1, SeedKept
     DEF Start, LockMigrations, ReadRecorded, HandleFile, LockSeed, SeedLockFree, Goto, Reset,
         ObservationsTable
<1>2. ASSUME NEW c \in Containers, Drift(c) \/ SeedNothing(c) \/ EndSeed(c) \/ Fail(c)
      PROVE  SeedInv'
  <2>1. Serve(c)
    BY <1>2 DEF Drift, SeedNothing, EndSeed, Fail
  <2>. QED
    BY <2>1, SeedKept DEF Serve, Unlock, Goto, Reset, ObservationsTable
<1>3. ASSUME NEW c \in Containers, CommitMigrations(c) PROVE SeedInv'
  <2>1. ObservationsTable => ObservationsTable'
    BY <1>3, CommitKeeps DEF ObservationsTable
  <2>. QED
    BY <1>3, <2>1, SeedKept DEF CommitMigrations, Goto, Reset
<1>4. ASSUME NEW c \in Containers, FindEmpty(c) PROVE SeedInv'
  <2>1. /\ pc[c] = "count" /\ ObservationsTable /\ Empty /\ done[c] = 0 /\ seedLock = c
        /\ pc' = [pc EXCEPT ![c] = "seeding"]
        /\ UNCHANGED <<recorded, observed, seedLock, done, unguarded>>
    BY <1>4 DEF FindEmpty, Goto, StepsFromZero, MigrationInv, LocksHeld
  <2>2. SeededOnce' /\ ObservationsTable'
    BY <2>1 DEF SeedInv, SeededOnce, ObservationsTable
  <2>3. SeedIsThere'
    <3>1. done'[c] <= Observations /\ \A n \in 1..done'[c] : observed'[n] > 0
      BY <2>1
    <3>. QED
      BY <2>1, <2>2, <3>1 DEF SeedInv, SeedIsThere
  <2>4. ~unguarded => \A d \in Containers : pc[d] # "seeding"
    BY <2>1 DEF SeedInv, SeedIsOwn
  <2>5. \A n \in 1..Observations : observed'[n] = IF n <= done'[c] THEN 1 ELSE 0
    BY <2>1 DEF Empty
  <2>6. SeedIsOwn'
    BY <2>1, <2>4, <2>5 DEF SeedIsOwn
  <2>. QED
    BY <2>2, <2>3, <2>6 DEF SeedInv
<1>5. ASSUME NEW c \in Containers, Observe(c) PROVE SeedInv'
  <2>1. /\ pc[c] = "seeding" /\ done[c] \in Nat /\ done[c] + 1 \in 1..Observations
        /\ observed' = [observed EXCEPT ![done[c] + 1] = @ + 1]
        /\ done' = [done EXCEPT ![c] = @ + 1]
        /\ UNCHANGED <<recorded, pc, seedLock, unguarded>>
    BY <1>5 DEF Observe
  <2>2. \A n \in 1..Observations :
          observed'[n] = IF n = done[c] + 1 THEN observed[n] + 1 ELSE observed[n]
    BY <2>1
  <2>3. /\ ObservationsTable /\ ObservationsTable'
        /\ \A n \in 1..done[c] : observed[n] > 0
    BY <2>1 DEF SeedInv, SeedIsThere, ObservationsTable
  <2>4. \A n \in 1..Observations : observed[n] > 0 => observed'[n] > 0
    BY <2>2
  <2>5. done'[c] = done[c] + 1 /\ \A d \in Containers \ {c} : done'[d] = done[d]
    BY <2>1
  <2>6. observed'[done[c] + 1] > 0
    BY <2>1, <2>2
  <2>7. SeedIsThere'
    <3>1. ASSUME NEW d \in Containers, pc'[d] = "seeding"
          PROVE  done'[d] <= Observations /\ \A n \in 1..done'[d] : observed'[n] > 0
      <4>1. CASE d = c
        BY <2>1, <2>3, <2>4, <2>5, <2>6, <4>1
      <4>2. CASE d # c
        BY <2>1, <2>4, <2>5, <3>1, <4>2 DEF SeedInv, SeedIsThere
      <4>. QED
        BY <4>1, <4>2
    <3>. QED
      BY <2>3, <3>1 DEF SeedIsThere
  <2>8. SeedIsOwn'
    <3>. SUFFICES ASSUME ~unguarded, NEW d \in Containers, pc[d] = "seeding"
                  PROVE  /\ d = c
                         /\ \A n \in 1..Observations :
                              observed'[n] = IF n <= done'[c] THEN 1 ELSE 0
                         /\ ~Empty'
      BY <2>1 DEF SeedIsOwn
    <3>1. d = c /\ \A n \in 1..Observations : observed[n] = IF n <= done[c] THEN 1 ELSE 0
      BY <2>1 DEF SeedInv, SeedIsOwn
    <3>2. ~Empty'
      BY <2>1, <2>6 DEF Empty
    <3>3. ASSUME NEW n \in 1..Observations
          PROVE  observed'[n] = IF n <= done[c] + 1 THEN 1 ELSE 0
      BY <2>1, <2>2, <3>1
    <3>. QED
      BY <2>5, <3>1, <3>2, <3>3
  <2>9. SeededOnce'
    <3>. SUFFICES ASSUME NEW n \in 1..Observations
                  PROVE  /\ observed'[n] <= 1 \/ unguarded
                         /\ observed'[n] > 0 => \A m \in 1..n : observed'[m] > 0
      BY <2>1, <2>3 DEF SeededOnce
    <3>1. observed'[n] <= 1 \/ unguarded
      BY <2>1, <2>8 DEF SeedIsOwn
    <3>2. CASE n = done[c] + 1
      BY <2>1, <2>3, <2>4, <2>6, <3>1, <3>2
    <3>3. CASE n # done[c] + 1
      <4>1. observed'[n] = observed[n] /\ \A m \in 1..n : m \in 1..Observations
        BY <2>2, <3>3
      <4>2. observed[n] > 0 => \A m \in 1..n : observed[m] > 0
        BY DEF SeedInv, SeededOnce
      <4>. QED
        BY <2>4, <3>1, <4>1, <4>2
    <3>. QED
      BY <3>2, <3>3
  <2>. QED
    BY <2>7, <2>8, <2>9 DEF SeedInv
<1>6. ASSUME NEW c \in Containers, LoseSeedLock(c) PROVE SeedInv'
  <2>1. /\ UNCHANGED <<recorded, observed, pc, done>>
        /\ unguarded' = (unguarded \/ Empty)
        /\ Empty' = Empty
    BY <1>6 DEF LoseSeedLock, Empty
  <2>2. ~unguarded' => ~unguarded /\ ~Empty
    BY <2>1
  <2>3. SeedIsOwn' /\ SeedIsThere' /\ SeededOnce'
    BY <2>1, <2>2 DEF SeedInv, SeedIsThere, SeedIsOwn, SeededOnce, ObservationsTable
  <2>. QED
    BY <2>3 DEF SeedInv
<1>7. ASSUME NEW c \in Containers, Crash(c) PROVE SeedInv'
  BY <1>7, SeedKept DEF Crash, Unlock, Goto, Reset, ObservationsTable
<1>8. CASE UNCHANGED vars
  BY <1>8, SeedKept DEF vars, ObservationsTable
<1>. QED
  BY <1>1, <1>2, <1>3, <1>4, <1>5, <1>6, <1>7, <1>8 DEF Next

LEMMA NextInvariant == IInv /\ [Next]_vars => IInv'
  BY MigrationStep, SeedStep DEF IInv

\* The invariant holds in every reachable state.
THEOREM Invariant == Spec => []IInv
<1>. QED
  BY InitInvariant, NextInvariant, PTL DEF Spec

-----------------------------------------------------------------------------
(* The properties *)

\* The state of the bootstrap is well typed, however many containers of whatever
\* releases start, fail and die.
THEOREM TypeCorrect == Spec => []TypeOK
<1>1. IInv => TypeOK
  BY DEF IInv
<1>. QED
  BY <1>1, Invariant, PTL

\* schema_migrations is made of whole releases, one checksum to a version, and
\* holds the release of every container that got past its migrations: whatever
\* the releases are, edited or with other names, and whoever fails or dies.
THEOREM SchemaComesInReleases == Spec => []SchemaIsWholeReleases
<1>1. IInv => SchemaIsWholeReleases
  BY DEF IInv, MigrationInv
<1>. QED
  BY <1>1, Invariant, PTL

\* Under MIGRATION_LOCK_ID nothing is recorded between the SELECT of a start and
\* its commit, so the primary key of schema_migrations never refuses it.
THEOREM LockKeepsPending == Spec => []PendingStaysPending
<1>1. IInv => PendingStaysPending
  BY DEF IInv, MigrationInv, FilesChecked, PendingStaysPending
<1>. QED
  BY <1>1, Invariant, PTL

\* Each observation of the demo is recorded at most once, in order, on a schema
\* that has the table, whoever dies or fails with the seed half done, as long as
\* no seed loses its lock before its first observation.
THEOREM SeedsOnce == Spec => []SeededOnce
<1>1. IInv => SeededOnce
  BY DEF IInv, SeedInv
<1>. QED
  BY <1>1, Invariant, PTL
=============================================================================
