--------------------------- MODULE TrivyCache_proofs -------------------------
(* The safety theorems of TrivyCache, for every set of jobs, repositories  *)
(* and versions.                                                           *)
EXTENDS TrivyCache, Integers, FiniteSetTheorems, TLAPS

\* Every variable stays within its type under each step of trivy-cache.sh and
\* of the pruning in cache.py.
THEOREM TypeCorrect == Spec => []TypeOK
<1> USE TrivyCacheAssumption
<1> USE DEF TypeOK, Pc, Running, Ended, Database, Whole, At, Goto, Own,
            locks, disk, prune
<1>1. Init => TypeOK
  BY DEF Init
<1>2. TypeOK /\ [Next]_vars => TypeOK'
  <2> SUFFICES ASSUME TypeOK, [Next]_vars PROVE TypeOK'
    OBVIOUS
  <2>1. CASE UNCHANGED vars
    BY <2>1 DEF vars
  <2>2. ASSUME NEW j \in Job, Start(j) PROVE TypeOK'
    BY <2>2 DEF Start
  <2>3. ASSUME NEW j \in Job, LockGate(j) PROVE TypeOK'
    BY <2>3 DEF LockGate
  <2>4. ASSUME NEW j \in Job, LockSetup(j) PROVE TypeOK'
    BY <2>4 DEF LockSetup
  <2>5. ASSUME NEW j \in Job, Prepare(j) PROVE TypeOK'
    BY <2>5 DEF Prepare
  <2>6. ASSUME NEW j \in Job, PruneDone(j) PROVE TypeOK'
    BY <2>6 DEF PruneDone
  <2>7. ASSUME NEW j \in Job, PruneSkips(j) PROVE TypeOK'
    BY <2>7 DEF PruneSkips, Visit, IsPrunable
  <2>8. ASSUME NEW j \in Job, PruneFinds(j) PROVE TypeOK'
    BY <2>8 DEF PruneFinds, Visit, IsPrunable
  <2>9. ASSUME NEW j \in Job, PruneLocksSetup(j) PROVE TypeOK'
    BY <2>9 DEF PruneLocksSetup
  <2>10. ASSUME NEW j \in Job, PruneSetupBusy(j) PROVE TypeOK'
    BY <2>10 DEF PruneSetupBusy
  <2>11. ASSUME NEW j \in Job, PruneLocksDatabase(j) PROVE TypeOK'
    BY <2>11 DEF PruneLocksDatabase, DatabaseLockIsFree, IsPrunable
  <2>12. ASSUME NEW j \in Job, PruneGivesUp(j) PROVE TypeOK'
    BY <2>12 DEF PruneGivesUp
  <2>13. ASSUME NEW j \in Job, PruneRemoved(j) PROVE TypeOK'
    BY <2>13 DEF PruneRemoved
  <2>14. ASSUME NEW j \in Job, CheckFresh(j) PROVE TypeOK'
    BY <2>14 DEF CheckFresh
  <2>15. ASSUME NEW j \in Job, LockDatabase(j) PROVE TypeOK'
    BY <2>15 DEF LockDatabase, DatabaseLockIsFree
  <2>16. ASSUME NEW j \in Job, Recheck(j) PROVE TypeOK'
    BY <2>16 DEF Recheck
  <2>17. ASSUME NEW j \in Job, Download(j) PROVE TypeOK'
    BY <2>17 DEF Download
  <2>18. ASSUME NEW j \in Job, Convert(j) PROVE TypeOK'
    BY <2>18 DEF Convert
  <2>19. ASSUME NEW j \in Job, LockToRead(j) PROVE TypeOK'
    BY <2>19 DEF LockToRead
  <2>20. ASSUME NEW j \in Job, Validate(j) PROVE TypeOK'
    BY <2>20 DEF Validate
  <2>21. ASSUME NEW j \in Job, NotFresh(j) PROVE TypeOK'
    BY <2>21 DEF NotFresh, Close
  <2>22. ASSUME NEW j \in Job, ScanDone(j) PROVE TypeOK'
    BY <2>22 DEF ScanDone, Close
  <2>23. ASSUME NEW j \in Job, Killed(j) PROVE TypeOK'
    BY <2>23 DEF Killed, Close
  <2>24. ASSUME NEW v \in Version, Age(v) PROVE TypeOK'
    BY <2>24 DEF Age
  <2>25. ASSUME NEW v \in Version, Expire(v) PROVE TypeOK'
    BY <2>25 DEF Expire
  <2> QED
    BY <2>1, <2>2, <2>3, <2>4, <2>5, <2>6, <2>7, <2>8, <2>9, <2>10, <2>11,
       <2>12, <2>13, <2>14, <2>15, <2>16, <2>17, <2>18, <2>19, <2>20, <2>21,
       <2>22, <2>23, <2>24, <2>25 DEF Next, Step
<1> QED
  BY <1>1, <1>2, PTL DEF Spec

-----------------------------------------------------------------------------
(* The inductive invariant: which lock a stage holds.                      *)

SetupStages == {"prepare", "prune", "trysetup", "trydatabase", "remove", "check",
                "write", "recheck", "download", "verify", "read", "validate"}

ScopeStages ==
    \A j \in Job \ Shared : pc[j] \in {"idle", "gate", "scan"} \cup Ended

HoldsGate ==
    \A j \in Job : pc[j] \in Running \ {"gate"} => gate[RepositoryOf[j]] = j

HoldsSetup ==
    \A j \in Shared : pc[j] \in SetupStages => setup[VersionOf[j]] = j

\* A pruner of another version holds that version's locks.
PrunerHolds ==
    \A j \in Job :
        /\ unvisited[j] \subseteq Version \ {VersionOf[j]}
        /\ pc[j] \in {"trysetup", "trydatabase", "remove"}
              => pruning[j] \in Version \ {VersionOf[j]}
        /\ pc[j] \in {"trydatabase", "remove"} => setup[pruning[j]] = j
        /\ pc[j] = "remove" => writer[pruning[j]] = j

WriterHolds ==
    \A j \in Job :
        pc[j] \in {"recheck", "download", "verify"} => writer[VersionOf[j]] = j

ReaderHolds ==
    \A j \in Shared : pc[j] \in {"validate", "scan"} => j \in readers[VersionOf[j]]

ReadersExcludeWriter ==
    \A v \in Version : readers[v] # {} => writer[v] = None

\* What is being removed is broken, and only a stale or broken database is
\* old enough to be removed.
RemovedIsBroken ==
    \A j \in Job : pc[j] = "remove" => database[pruning[j]] = "broken"

FreshIsYoung == \A v \in Version : database[v] = "fresh" => ~ old[v]

LockInv ==
    /\ RemovedIsBroken /\ FreshIsYoung
    /\ ScopeStages /\ HoldsGate /\ HoldsSetup /\ PrunerHolds
    /\ WriterHolds /\ ReaderHolds /\ ReadersExcludeWriter
    /\ ScanReadsWholeDatabase

\* Each stage of the script and of the pruning holds the locks it has taken, no
\* lock has both a writer and readers, and a scanned database is whole.
LEMMA LocksAreDisciplined == Spec => []LockInv
<1> USE TrivyCacheAssumption
<1> USE DEF LockInv, ScopeStages, HoldsGate, HoldsSetup, PrunerHolds, WriterHolds,
            ReaderHolds, ReadersExcludeWriter, RemovedIsBroken, FreshIsYoung,
            ScanReadsWholeDatabase, SetupStages,
            TypeOK, Pc, Running, Ended, Database, Whole, At, Goto, Own,
            locks, disk, prune
<1>1. Init => LockInv
  BY DEF Init
<1>2. TypeOK /\ LockInv /\ [Next]_vars => LockInv'
  <2> SUFFICES ASSUME TypeOK, LockInv, [Next]_vars PROVE LockInv'
    OBVIOUS
  <2>1. CASE UNCHANGED vars
    BY <2>1 DEF vars
  <2>2. ASSUME NEW j \in Job, Start(j) PROVE LockInv'
    BY <2>2 DEF Start
  <2>3. ASSUME NEW j \in Job, LockGate(j) PROVE LockInv'
    BY <2>3 DEF LockGate
  <2>4. ASSUME NEW j \in Job, LockSetup(j) PROVE LockInv'
    BY <2>4 DEF LockSetup
  <2>5. ASSUME NEW j \in Job, Prepare(j) PROVE LockInv'
    BY <2>5 DEF Prepare
  <2>6. ASSUME NEW j \in Job, PruneDone(j) PROVE LockInv'
    BY <2>6 DEF PruneDone
  <2>7. ASSUME NEW j \in Job, PruneSkips(j) PROVE LockInv'
    BY <2>7 DEF PruneSkips, Visit, IsPrunable
  <2>8. ASSUME NEW j \in Job, PruneFinds(j) PROVE LockInv'
    BY <2>8 DEF PruneFinds, Visit, IsPrunable
  <2>9. ASSUME NEW j \in Job, PruneLocksSetup(j) PROVE LockInv'
    BY <2>9 DEF PruneLocksSetup
  <2>10. ASSUME NEW j \in Job, PruneSetupBusy(j) PROVE LockInv'
    BY <2>10 DEF PruneSetupBusy
  <2>11. ASSUME NEW j \in Job, PruneLocksDatabase(j) PROVE LockInv'
    BY <2>11 DEF PruneLocksDatabase, DatabaseLockIsFree, IsPrunable
  <2>12. ASSUME NEW j \in Job, PruneGivesUp(j) PROVE LockInv'
    BY <2>12 DEF PruneGivesUp
  <2>13. ASSUME NEW j \in Job, PruneRemoved(j) PROVE LockInv'
    BY <2>13 DEF PruneRemoved
  <2>14. ASSUME NEW j \in Job, CheckFresh(j) PROVE LockInv'
    BY <2>14 DEF CheckFresh
  <2>15. ASSUME NEW j \in Job, LockDatabase(j) PROVE LockInv'
    BY <2>15 DEF LockDatabase, DatabaseLockIsFree
  <2>16. ASSUME NEW j \in Job, Recheck(j) PROVE LockInv'
    BY <2>16, SMTT(30) DEF Recheck
  <2>17. ASSUME NEW j \in Job, Download(j) PROVE LockInv'
    BY <2>17 DEF Download
  <2>18. ASSUME NEW j \in Job, Convert(j) PROVE LockInv'
    BY <2>18 DEF Convert
  <2>19. ASSUME NEW j \in Job, LockToRead(j) PROVE LockInv'
    BY <2>19 DEF LockToRead
  <2>20. ASSUME NEW j \in Job, Validate(j) PROVE LockInv'
    BY <2>20 DEF Validate
  <2>21. ASSUME NEW j \in Job, NotFresh(j) PROVE LockInv'
    BY <2>21 DEF NotFresh, Close
  <2>22. ASSUME NEW j \in Job, ScanDone(j) PROVE LockInv'
    BY <2>22 DEF ScanDone, Close
  <2>23. ASSUME NEW j \in Job, Killed(j) PROVE LockInv'
    BY <2>23 DEF Killed, Close
  <2>24. ASSUME NEW v \in Version, Age(v) PROVE LockInv'
    BY <2>24 DEF Age
  <2>25. ASSUME NEW v \in Version, Expire(v) PROVE LockInv'
    BY <2>25 DEF Expire
  <2> QED
    BY <2>1, <2>2, <2>3, <2>4, <2>5, <2>6, <2>7, <2>8, <2>9, <2>10, <2>11,
       <2>12, <2>13, <2>14, <2>15, <2>16, <2>17, <2>18, <2>19, <2>20, <2>21,
       <2>22, <2>23, <2>24, <2>25 DEF Next, Step
<1> QED
  BY <1>1, <1>2, TypeCorrect, PTL DEF Spec

\* A scan in shared scope reads a whole database to its end: the shared lock it
\* holds keeps the refresh and the pruning of every other job out.
THEOREM ScanSafety == Spec => []ScanReadsWholeDatabase
<1>1. LockInv => ScanReadsWholeDatabase
  BY DEF LockInv
<1> QED
  BY <1>1, LocksAreDisciplined, PTL

\* The gate lock, which both scopes take first, lets one job at a time use a
\* repository's scan cache.
THEOREM ScanCacheSafety == Spec => []OneJobPerScanCache
<1>1. TypeOK /\ LockInv => OneJobPerScanCache
  BY TrivyCacheAssumption
     DEF LockInv, HoldsGate, OneJobPerScanCache, TypeOK, Running, Pc, Ended
<1> QED
  BY <1>1, TypeCorrect, LocksAreDisciplined, PTL

\* No refresh and no pruning throws a fresh database away: each looks at it
\* again under the locks that keep the other jobs from refreshing it.
THEOREM FreshSafety == Spec => FreshDatabaseIsKept
<1> DEFINE Kept == \A v \in Version : database[v] = "fresh" => database'[v] \in Whole
<1>1. TypeOK /\ LockInv /\ [Next]_vars => [Kept]_vars
  <2> USE TrivyCacheAssumption
  <2> USE DEF LockInv, PrunerHolds, RemovedIsBroken, FreshIsYoung, TypeOK, Database,
              Whole, At, Own, locks, disk, prune
  <2> SUFFICES ASSUME TypeOK, LockInv, [Next]_vars PROVE Kept \/ UNCHANGED vars
    OBVIOUS
  <2>1. CASE UNCHANGED vars
    BY <2>1
  <2>2. ASSUME NEW j \in Job, Start(j) PROVE Kept
    BY <2>2 DEF Start
  <2>3. ASSUME NEW j \in Job, LockGate(j) PROVE Kept
    BY <2>3 DEF LockGate
  <2>4. ASSUME NEW j \in Job, LockSetup(j) PROVE Kept
    BY <2>4 DEF LockSetup
  <2>5. ASSUME NEW j \in Job, Prepare(j) PROVE Kept
    BY <2>5 DEF Prepare
  <2>6. ASSUME NEW j \in Job, PruneDone(j) PROVE Kept
    BY <2>6 DEF PruneDone
  <2>7. ASSUME NEW j \in Job, PruneSkips(j) PROVE Kept
    BY <2>7 DEF PruneSkips, Visit, IsPrunable
  <2>8. ASSUME NEW j \in Job, PruneFinds(j) PROVE Kept
    BY <2>8 DEF PruneFinds, Visit, IsPrunable
  <2>9. ASSUME NEW j \in Job, PruneLocksSetup(j) PROVE Kept
    BY <2>9 DEF PruneLocksSetup
  <2>10. ASSUME NEW j \in Job, PruneSetupBusy(j) PROVE Kept
    BY <2>10 DEF PruneSetupBusy
  <2>11. ASSUME NEW j \in Job, PruneLocksDatabase(j) PROVE Kept
    BY <2>11 DEF PruneLocksDatabase, DatabaseLockIsFree, IsPrunable
  <2>12. ASSUME NEW j \in Job, PruneGivesUp(j) PROVE Kept
    BY <2>12 DEF PruneGivesUp
  <2>13. ASSUME NEW j \in Job, PruneRemoved(j) PROVE Kept
    BY <2>13 DEF PruneRemoved
  <2>14. ASSUME NEW j \in Job, CheckFresh(j) PROVE Kept
    BY <2>14 DEF CheckFresh
  <2>15. ASSUME NEW j \in Job, LockDatabase(j) PROVE Kept
    BY <2>15 DEF LockDatabase, DatabaseLockIsFree
  <2>16. ASSUME NEW j \in Job, Recheck(j) PROVE Kept
    BY <2>16 DEF Recheck
  <2>17. ASSUME NEW j \in Job, Download(j) PROVE Kept
    BY <2>17 DEF Download
  <2>18. ASSUME NEW j \in Job, Convert(j) PROVE Kept
    BY <2>18 DEF Convert
  <2>19. ASSUME NEW j \in Job, LockToRead(j) PROVE Kept
    BY <2>19 DEF LockToRead
  <2>20. ASSUME NEW j \in Job, Validate(j) PROVE Kept
    BY <2>20 DEF Validate
  <2>21. ASSUME NEW j \in Job, NotFresh(j) PROVE Kept
    BY <2>21 DEF NotFresh, Close
  <2>22. ASSUME NEW j \in Job, ScanDone(j) PROVE Kept
    BY <2>22 DEF ScanDone, Close
  <2>23. ASSUME NEW j \in Job, Killed(j) PROVE Kept
    BY <2>23 DEF Killed, Close
  <2>24. ASSUME NEW v \in Version, Age(v) PROVE Kept
    BY <2>24 DEF Age
  <2>25. ASSUME NEW v \in Version, Expire(v) PROVE Kept
    BY <2>25 DEF Expire
  <2> QED
    BY <2>1, <2>2, <2>3, <2>4, <2>5, <2>6, <2>7, <2>8, <2>9, <2>10, <2>11,
       <2>12, <2>13, <2>14, <2>15, <2>16, <2>17, <2>18, <2>19, <2>20, <2>21,
       <2>22, <2>23, <2>24, <2>25 DEF Next, Step
<1> QED
  BY <1>1, TypeCorrect, LocksAreDisciplined, PTL DEF Spec, FreshDatabaseIsKept
-----------------------------------------------------------------------------
(* Waiting.  Four calls of flock block: those on the gate lock, on the     *)
(* setup lock of the own version, and the two on its database.             *)

\* Who holds the setup lock of version v, its database for writing, or for
\* reading.
SetsUp(k, v) ==
    \/ k \in Shared /\ VersionOf[k] = v /\ pc[k] \in SetupStages
    \/ pruning[k] = v /\ pc[k] \in {"trydatabase", "remove"}
Writes(k, v) ==
    \/ VersionOf[k] = v /\ pc[k] \in {"recheck", "download", "verify"}
    \/ pruning[k] = v /\ pc[k] = "remove"
Reads(k, v) == VersionOf[k] = v /\ pc[k] \in {"validate", "scan"}

HeldByItsJob ==
    /\ \A r \in Repository : gate[r] # None =>
          RepositoryOf[gate[r]] = r /\ pc[gate[r]] \in Running \ {"gate"}
    /\ \A v \in Version :
          /\ setup[v] # None => SetsUp(setup[v], v)
          /\ writer[v] # None => Writes(writer[v], v)
          /\ \A k \in readers[v] : Reads(k, v)

\* A lock is held by a job at a stage that holds it, and by nobody else: none
\* is left behind by a job that has gone on, was killed or has given up.
LEMMA NoLockIsLeftBehind == Spec => []HeldByItsJob
<1> USE TrivyCacheAssumption
<1> USE DEF HeldByItsJob, SetsUp, Writes, Reads, SetupStages, ScopeStages, PrunerHolds,
            TypeOK, Pc, Running, Ended, At, Goto, Own, locks, disk, prune
<1>1. Init => HeldByItsJob
  BY DEF Init
<1>2. TypeOK /\ ScopeStages /\ PrunerHolds /\ HeldByItsJob /\ [Next]_vars => HeldByItsJob'
  <2> SUFFICES ASSUME TypeOK, ScopeStages, PrunerHolds, HeldByItsJob, [Next]_vars
               PROVE  HeldByItsJob'
    OBVIOUS
  <2>1. CASE UNCHANGED vars
    BY <2>1 DEF vars
  <2>2. ASSUME NEW j \in Job, Start(j) PROVE HeldByItsJob'
    BY <2>2 DEF Start
  <2>3. ASSUME NEW j \in Job, LockGate(j) PROVE HeldByItsJob'
    BY <2>3 DEF LockGate
  <2>4. ASSUME NEW j \in Job, LockSetup(j) PROVE HeldByItsJob'
    BY <2>4, SMTT(30) DEF LockSetup
  <2>5. ASSUME NEW j \in Job, Prepare(j) PROVE HeldByItsJob'
    BY <2>5 DEF Prepare
  <2>6. ASSUME NEW j \in Job, PruneDone(j) PROVE HeldByItsJob'
    BY <2>6 DEF PruneDone
  <2>7. ASSUME NEW j \in Job, PruneSkips(j) PROVE HeldByItsJob'
    BY <2>7 DEF PruneSkips, Visit, IsPrunable
  <2>8. ASSUME NEW j \in Job, PruneFinds(j) PROVE HeldByItsJob'
    BY <2>8 DEF PruneFinds, Visit, IsPrunable
  <2>9. ASSUME NEW j \in Job, PruneLocksSetup(j) PROVE HeldByItsJob'
    BY <2>9 DEF PruneLocksSetup
  <2>10. ASSUME NEW j \in Job, PruneSetupBusy(j) PROVE HeldByItsJob'
    BY <2>10 DEF PruneSetupBusy
  <2>11. ASSUME NEW j \in Job, PruneLocksDatabase(j) PROVE HeldByItsJob'
    BY <2>11 DEF PruneLocksDatabase, DatabaseLockIsFree, IsPrunable
  <2>12. ASSUME NEW j \in Job, PruneGivesUp(j) PROVE HeldByItsJob'
    BY <2>12 DEF PruneGivesUp
  <2>13. ASSUME NEW j \in Job, PruneRemoved(j) PROVE HeldByItsJob'
    BY <2>13 DEF PruneRemoved
  <2>14. ASSUME NEW j \in Job, CheckFresh(j) PROVE HeldByItsJob'
    BY <2>14 DEF CheckFresh
  <2>15. ASSUME NEW j \in Job, LockDatabase(j) PROVE HeldByItsJob'
    BY <2>15 DEF LockDatabase, DatabaseLockIsFree
  <2>16. ASSUME NEW j \in Job, Recheck(j) PROVE HeldByItsJob'
    <3>1. UNCHANGED <<locks, pruning>> /\ \A k \in Job \ {j} : pc'[k] = pc[k]
      BY <2>16 DEF Recheck
    <3>2. pc[j] = "recheck" /\ pc'[j] \in {"verify", "download"}
      BY <2>16 DEF Recheck
    <3> QED
      BY <3>1, <3>2
  <2>17. ASSUME NEW j \in Job, Download(j) PROVE HeldByItsJob'
    BY <2>17 DEF Download
  <2>18. ASSUME NEW j \in Job, Convert(j) PROVE HeldByItsJob'
    BY <2>18 DEF Convert
  <2>19. ASSUME NEW j \in Job, LockToRead(j) PROVE HeldByItsJob'
    BY <2>19 DEF LockToRead
  <2>20. ASSUME NEW j \in Job, Validate(j) PROVE HeldByItsJob'
    BY <2>20 DEF Validate
  <2>21. ASSUME NEW j \in Job, NotFresh(j) PROVE HeldByItsJob'
    BY <2>21 DEF NotFresh, Close
  <2>22. ASSUME NEW j \in Job, ScanDone(j) PROVE HeldByItsJob'
    BY <2>22 DEF ScanDone, Close
  <2>23. ASSUME NEW j \in Job, Killed(j) PROVE HeldByItsJob'
    BY <2>23 DEF Killed, Close
  <2>24. ASSUME NEW v \in Version, Age(v) PROVE HeldByItsJob'
    BY <2>24 DEF Age
  <2>25. ASSUME NEW v \in Version, Expire(v) PROVE HeldByItsJob'
    BY <2>25 DEF Expire
  <2> QED
    BY <2>1, <2>2, <2>3, <2>4, <2>5, <2>6, <2>7, <2>8, <2>9, <2>10, <2>11,
       <2>12, <2>13, <2>14, <2>15, <2>16, <2>17, <2>18, <2>19, <2>20, <2>21, <2>22,
       <2>23, <2>24, <2>25 DEF Next, Step
<1>3. LockInv => ScopeStages /\ PrunerHolds
  BY DEF LockInv
<1> QED
  BY <1>1, <1>2, <1>3, TypeCorrect, LocksAreDisciplined, PTL DEF Spec

Waits(j) ==
    \/ At(j, "gate") /\ gate[RepositoryOf[j]] # None
    \/ At(j, "setup") /\ setup[Own(j)] # None
    \/ At(j, "write") /\ ~ DatabaseLockIsFree(Own(j))
    \/ At(j, "read") /\ writer[Own(j)] # None

WaitsFor(j, k) ==
    \/ At(j, "gate") /\ gate[RepositoryOf[j]] = k
    \/ At(j, "setup") /\ setup[Own(j)] = k
    \/ At(j, "write") /\ (writer[Own(j)] = k \/ k \in readers[Own(j)])
    \/ At(j, "read") /\ writer[Own(j)] = k

Level(step) ==
    CASE step = "gate" -> 0
      [] step = "setup" -> 1
      [] step \in {"write", "read"} -> 2
      [] OTHER -> 3

\* Who waits for a lock waits for running jobs that are further on than it is
\* itself: for the gate, then for the setup, then for the database.
NoRing ==
    \A j \in Job :
        /\ Waits(j) => \E k \in Job : WaitsFor(j, k)
        /\ \A k \in Job : WaitsFor(j, k) => pc[k] \in Running /\ Level(pc[j]) < Level(pc[k])

\* Waiting never goes in a ring, for any number of jobs, repositories and
\* versions: trivy-cache.sh takes its locks in one order, and the pruning, which
\* alone asks for the locks of other versions, does not wait for them
\* (cache.py, LOCK_NB).
THEOREM WaitingIsOrdered == Spec => []NoRing
<1>1. TypeOK /\ HeldByItsJob => NoRing
  <2> SUFFICES ASSUME TypeOK, HeldByItsJob, NEW j \in Job
               PROVE  /\ Waits(j) => \E k \in Job : WaitsFor(j, k)
                      /\ \A k \in Job : WaitsFor(j, k) =>
                            pc[k] \in Running /\ Level(pc[j]) < Level(pc[k])
    BY DEF NoRing
  <2> USE TrivyCacheAssumption
  <2>1. ASSUME Waits(j) PROVE \E k \in Job : WaitsFor(j, k)
    BY <2>1 DEF Waits, WaitsFor, TypeOK, Own, DatabaseLockIsFree
  <2>2. ASSUME NEW k \in Job, WaitsFor(j, k)
        PROVE  pc[k] \in Running /\ Level(pc[j]) < Level(pc[k])
    <3>1. CASE At(j, "gate") /\ gate[RepositoryOf[j]] = k
      BY <3>1 DEF HeldByItsJob, TypeOK, At, Level
    <3>2. CASE At(j, "setup") /\ setup[Own(j)] = k
      <4>1. SetsUp(k, Own(j))
        BY <3>2 DEF HeldByItsJob, Own
      <4> QED
        BY <3>2, <4>1 DEF SetsUp, SetupStages, At, Level, Running, Pc, Ended
    <3>3. CASE pc[j] \in {"write", "read"} /\ writer[Own(j)] = k
      <4>1. Writes(k, Own(j))
        BY <3>3 DEF HeldByItsJob, Own
      <4> QED
        BY <3>3, <4>1 DEF Writes, Level, Running, Pc, Ended
    <3>4. CASE At(j, "write") /\ k \in readers[Own(j)]
      <4>1. Reads(k, Own(j))
        BY <3>4 DEF HeldByItsJob, Own
      <4> QED
        BY <3>4, <4>1 DEF Reads, At, Level, Running, Pc, Ended
    <3> QED
      BY <2>2, <3>1, <3>2, <3>3, <3>4 DEF WaitsFor, At
  <2> QED
    BY <2>1, <2>2
<1> QED
  BY <1>1, TypeCorrect, NoLockIsLeftBehind, PTL

SomeJobProceeds ==
    \A j \in Job : pc[j] \in Running => \E k \in Job : pc[k] \in Running /\ ~ Waits(k)

\* As long as a job runs, one does that waits for nothing: the locks of
\* trivy-cache.sh never bring all jobs of a host to a halt.
THEOREM NeverAllWait == Spec => []SomeJobProceeds
<1>1. NoRing => SomeJobProceeds
  <2> SUFFICES ASSUME NoRing, NEW j \in Job, pc[j] \in Running,
                      \A k \in Job : pc[k] \in Running => Waits(k)
               PROVE  FALSE
    BY DEF SomeJobProceeds
  <2>1. ASSUME NEW k \in Job, Waits(k)
        PROVE  \E l \in Job : Waits(l) /\ Level(pc[k]) < Level(pc[l])
    BY <2>1 DEF NoRing
  <2>2. \A k \in Job : Waits(k) => Level(pc[k]) \in 0 .. 2
    BY DEF Waits, At, Level
  <2>3. PICK k \in Job : Waits(k) /\ Level(pc[k]) >= 1
    BY <2>1, <2>2
  <2>4. PICK l \in Job : Waits(l) /\ Level(pc[l]) >= 2
    BY <2>1, <2>2, <2>3
  <2> QED
    BY <2>1, <2>2, <2>4
<1> QED
  BY <1>1, WaitingIsOrdered, PTL

-----------------------------------------------------------------------------
(* The end of a job.                                                       *)

\* How many steps a job can still take: each of the other versions costs the
\* pruning at most four.
StepsLeft(j) ==
    LET toVisit == 4 * Cardinality(unvisited[j])
        all == 4 * Cardinality(Version)
    IN CASE pc[j] = "idle" -> all + 13
         [] pc[j] = "gate" -> all + 12
         [] pc[j] = "setup" -> all + 11
         [] pc[j] = "prepare" -> all + 10
         [] pc[j] = "trysetup" -> toVisit + 12
         [] pc[j] = "trydatabase" -> toVisit + 11
         [] pc[j] = "remove" -> toVisit + 10
         [] pc[j] = "prune" -> toVisit + 9
         [] pc[j] = "check" -> 8
         [] pc[j] = "write" -> 7
         [] pc[j] = "recheck" -> 6
         [] pc[j] = "download" -> 5
         [] pc[j] = "verify" -> 4
         [] pc[j] = "read" -> 3
         [] pc[j] = "validate" -> 2
         [] pc[j] = "scan" -> 1
         [] OTHER -> 0

EveryStepCounts ==
    [][\A j \in Job :
          /\ StepsLeft(j) \in Nat
          /\ StepsLeft(j)' <= StepsLeft(j)
          /\ Start(j) \/ Step(j) \/ Killed(j) => StepsLeft(j)' < StepsLeft(j)]_vars

\* The versions a job has still to visit, and all there are, are so many.
LEMMA VersionsAreCounted ==
    ASSUME IsFiniteSet(Version), TypeOK, NEW j \in Job
    PROVE  /\ Cardinality(Version) \in Nat
           /\ Cardinality(unvisited[j]) \in 0 .. Cardinality(Version)
           /\ \A v \in unvisited[j] :
                 Cardinality(unvisited[j] \ {v}) = Cardinality(unvisited[j]) - 1
           /\ \A v \in Version : Cardinality(Version \ {v}) = Cardinality(Version) - 1
<1>1. unvisited[j] \in SUBSET Version
  BY DEF TypeOK
<1> QED
  BY <1>1, FS_CardinalityType, FS_Subset, FS_RemoveElement

\* No step of a job goes back.
LEMMA StepsGoForward ==
    ASSUME IsFiniteSet(Version), TypeOK, NEW j \in Job, Start(j) \/ Step(j) \/ Killed(j)
    PROVE  /\ StepsLeft(j)' \in Nat /\ StepsLeft(j)' < StepsLeft(j)
           /\ \A k \in Job \ {j} : StepsLeft(k)' = StepsLeft(k)
<1> USE TrivyCacheAssumption DEF TypeOK, At, Goto, Own, locks, disk, prune
<1> DEFINE Forward == /\ StepsLeft(j)' \in Nat /\ StepsLeft(j)' < StepsLeft(j)
                      /\ \A k \in Job \ {j} : pc'[k] = pc[k] /\ unvisited'[k] = unvisited[k]
<1>0. /\ Cardinality(Version) \in Nat
      /\ Cardinality(unvisited[j]) \in 0 .. Cardinality(Version)
      /\ \A v \in unvisited[j] :
            Cardinality(unvisited[j] \ {v}) = Cardinality(unvisited[j]) - 1
      /\ Cardinality(Version \ {VersionOf[j]}) = Cardinality(Version) - 1
  BY VersionsAreCounted
<1> SUFFICES Forward
  BY DEF StepsLeft
<1>1. CASE Start(j)
  BY <1>0, <1>1 DEF Start, StepsLeft
<1>2. CASE LockGate(j)
  BY <1>0, <1>2 DEF LockGate, StepsLeft
<1>3. CASE LockSetup(j)
  BY <1>0, <1>3 DEF LockSetup, StepsLeft
<1>4. CASE Prepare(j)
  BY <1>0, <1>4 DEF Prepare, StepsLeft
<1>5. CASE PruneDone(j)
  BY <1>0, <1>5 DEF PruneDone, StepsLeft
<1>6. CASE PruneSkips(j)
  <2>1. PICK v \in unvisited[j] : unvisited' = [unvisited EXCEPT ![j] = @ \ {v}]
    BY <1>6 DEF PruneSkips, Visit
  <2>2. pc[j] = "prune" /\ pc' = [pc EXCEPT ![j] = "prune"]
    BY <1>6 DEF PruneSkips
  <2> QED
    BY <1>0, <2>1, <2>2 DEF StepsLeft
<1>7. CASE PruneFinds(j)
  <2>1. PICK v \in unvisited[j] : unvisited' = [unvisited EXCEPT ![j] = @ \ {v}]
    BY <1>7 DEF PruneFinds, Visit
  <2>2. pc[j] = "prune" /\ pc' = [pc EXCEPT ![j] = "trysetup"]
    BY <1>7 DEF PruneFinds
  <2> QED
    BY <1>0, <2>1, <2>2 DEF StepsLeft
<1>8. CASE PruneLocksSetup(j)
  BY <1>0, <1>8 DEF PruneLocksSetup, StepsLeft
<1>9. CASE PruneSetupBusy(j)
  BY <1>0, <1>9 DEF PruneSetupBusy, StepsLeft
<1>10. CASE PruneLocksDatabase(j)
  BY <1>0, <1>10 DEF PruneLocksDatabase, StepsLeft
<1>11. CASE PruneGivesUp(j)
  BY <1>0, <1>11 DEF PruneGivesUp, StepsLeft
<1>12. CASE PruneRemoved(j)
  BY <1>0, <1>12 DEF PruneRemoved, StepsLeft
<1>13. CASE CheckFresh(j)
  BY <1>0, <1>13 DEF CheckFresh, StepsLeft
<1>14. CASE LockDatabase(j)
  BY <1>0, <1>14 DEF LockDatabase, StepsLeft
<1>15. CASE Recheck(j)
  BY <1>0, <1>15 DEF Recheck, StepsLeft
<1>16. CASE Download(j)
  BY <1>0, <1>16 DEF Download, StepsLeft
<1>17. CASE Convert(j)
  BY <1>0, <1>17 DEF Convert, StepsLeft
<1>18. CASE LockToRead(j)
  BY <1>0, <1>18 DEF LockToRead, StepsLeft
<1>19. CASE Validate(j)
  BY <1>0, <1>19 DEF Validate, StepsLeft
<1>20. CASE NotFresh(j)
  BY <1>0, <1>20 DEF NotFresh, Close, StepsLeft, Running, Pc, Ended
<1>21. CASE ScanDone(j)
  BY <1>0, <1>21 DEF ScanDone, Close, StepsLeft, Running, Pc, Ended
<1>22. CASE Killed(j)
  BY <1>0, <1>22 DEF Killed, Close, StepsLeft, Running, Pc, Ended
<1> QED
  BY <1>1, <1>2, <1>3, <1>4, <1>5, <1>6, <1>7, <1>8, <1>9, <1>10, <1>11,
     <1>12, <1>13, <1>14, <1>15, <1>16, <1>17, <1>18, <1>19, <1>20, <1>21, <1>22 DEF Step

\* A job takes at most thirteen steps and four for each version on the host,
\* however its waits, other jobs and the pruning turn out: nothing is retried
\* and no version visited twice (trivy-cache.sh; cache.py, the loop over the
\* directories).
THEOREM JobsAreBounded ==
    ASSUME IsFiniteSet(Version) PROVE Spec => EveryStepCounts
<1> DEFINE Counts ==
      \A j \in Job :
          /\ StepsLeft(j) \in Nat
          /\ StepsLeft(j)' <= StepsLeft(j)
          /\ Start(j) \/ Step(j) \/ Killed(j) => StepsLeft(j)' < StepsLeft(j)
<1>1. ASSUME TypeOK, [Next]_vars PROVE [Counts]_vars
  <2>1. \A j \in Job : StepsLeft(j) \in Nat
    BY <1>1, VersionsAreCounted DEF StepsLeft
  <2>2. CASE UNCHANGED vars
    BY <2>2
  <2>3. ASSUME NEW j \in Job, Start(j) \/ Step(j) \/ Killed(j) PROVE Counts
    <3>1. /\ StepsLeft(j)' \in Nat /\ StepsLeft(j)' < StepsLeft(j)
          /\ \A k \in Job \ {j} : StepsLeft(k)' = StepsLeft(k)
      BY <1>1, <2>3, StepsGoForward
    <3>2. ASSUME NEW k \in Job \ {j}, Start(k) \/ Step(k) \/ Killed(k) PROVE FALSE
      <4>1. StepsLeft(k)' < StepsLeft(k)
        BY <1>1, <3>2, StepsGoForward
      <4> QED
        BY <2>1, <3>1, <4>1
    <3>3. ASSUME NEW k \in Job
          PROVE  /\ StepsLeft(k)' <= StepsLeft(k)
                 /\ Start(k) \/ Step(k) \/ Killed(k) => StepsLeft(k)' < StepsLeft(k)
      <4>1. CASE k = j
        <5>1. StepsLeft(k) = StepsLeft(j) /\ StepsLeft(k)' = StepsLeft(j)'
          BY <4>1 DEF StepsLeft
        <5> QED
          BY <2>1, <3>1, <5>1
      <4>2. CASE k # j
        BY <2>1, <3>1, <3>2, <4>2
      <4> QED
        BY <4>1, <4>2
    <3> QED
      BY <2>1, <3>3
  <2>4. ASSUME NEW v \in Version, Age(v) \/ Expire(v) PROVE Counts
    <3>1. ASSUME NEW j \in Job PROVE StepsLeft(j)' = StepsLeft(j)
      BY <2>4 DEF Age, Expire, prune, StepsLeft
    <3> QED
      BY <1>1, <2>1, <3>1, StepsGoForward
  <2> QED
    BY <1>1, <2>2, <2>3, <2>4 DEF Next
<1> QED
  BY <1>1, TypeCorrect, PTL DEF Spec, EveryStepCounts
=============================================================================
