----------------------------- MODULE TrivyCache -----------------------------
(***************************************************************************)
(* The lock protocol around the shared Trivy vulnerability database        *)
(* (scripts/security_gate/trivy-cache.sh and cache.py).                    *)
(*                                                                         *)
(* A job is one step that sources trivy-cache.sh and then scans.  It holds *)
(* its repository's gate lock to its end.  A job in shared scope then      *)
(* takes the setup lock of its Trivy version, prunes old databases of      *)
(* other versions, refreshes its own if it is not fresh, and scans under   *)
(* the shared lock of its database.  The kernel frees every lock of a job  *)
(* that ends, and flock serves whoever asks first.                         *)
(***************************************************************************)
CONSTANTS
    Job, Repository, Version,
    RepositoryOf,       \* [Job -> Repository]
    VersionOf,          \* [Job -> Version]
    Shared,             \* the jobs with cache_scope "shared"
    None

ASSUME TrivyCacheAssumption ==
    /\ RepositoryOf \in [Job -> Repository]
    /\ VersionOf \in [Job -> Version]
    /\ Shared \subseteq Job
    /\ None \notin Job \cup Version

VARIABLES
    pc,
    gate,               \* [Repository -> Job or None], flock -x 8
    setup,              \* [Version -> Job or None], flock -x 10
    writer,             \* [Version -> Job or None], flock -x 9
    readers,            \* [Version -> SUBSET Job], flock -s 9
    database,           \* [Version -> the state of <version>/db]
    old,                \* is the version's directory beyond the retention time?
    unvisited,          \* [Job -> the versions the pruning has still to look at]
    pruning             \* [Job -> the version being pruned or None]

locks == <<gate, setup, writer, readers>>
disk == <<database, old>>
prune == <<unvisited, pruning>>
vars == <<pc, locks, disk, prune>>

Database == {"absent", "broken", "stale", "fresh"}
Whole == {"stale", "fresh"}
Pc == {"idle", "gate", "setup", "prepare", "prune", "trysetup", "trydatabase", "remove",
       "check", "write", "recheck", "download", "verify", "read", "validate",
       "scan", "passed", "failed"}
Ended == {"passed", "failed"}
Running == Pc \ ({"idle"} \cup Ended)

At(j, step) == pc[j] = step
Goto(j, step) == pc' = [pc EXCEPT ![j] = step]
Own(j) == VersionOf[j]

Init ==
    /\ pc = [j \in Job |-> "idle"]
    /\ gate = [r \in Repository |-> None]
    /\ setup = [v \in Version |-> None]
    /\ writer = [v \in Version |-> None]
    /\ readers = [v \in Version |-> {}]
    /\ database \in [Version -> Database]
    /\ old \in [Version -> BOOLEAN]
    /\ \A v \in Version : database[v] \in {"fresh", "absent"} => ~ old[v]
    /\ unvisited = [j \in Job |-> {}]
    /\ pruning = [j \in Job |-> None]

-----------------------------------------------------------------------------
(* The locks of the script.                                                *)

Start(j) ==
    /\ At(j, "idle")
    /\ Goto(j, "gate")
    /\ UNCHANGED <<locks, disk, prune>>

\* Mutation: only the shared scope takes the lock.
LockGate_SharedOnly(j) ==
    /\ At(j, "gate")
    /\ IF j \in Shared
          THEN /\ gate[RepositoryOf[j]] = None
               /\ gate' = [gate EXCEPT ![RepositoryOf[j]] = j]
          ELSE UNCHANGED gate
    /\ Goto(j, IF j \in Shared THEN "setup" ELSE "scan")
    /\ UNCHANGED <<setup, writer, readers, disk, prune>>

\* exec 8>> gate.lock; flock -x 8.  A repository-scoped job has its cache to
\* itself from here on and meets no other lock.
LockGate(j) ==
    /\ At(j, "gate")
    /\ gate[RepositoryOf[j]] = None
    /\ gate' = [gate EXCEPT ![RepositoryOf[j]] = j]
    /\ Goto(j, IF j \in Shared THEN "setup" ELSE "scan")
    /\ UNCHANGED <<setup, writer, readers, disk, prune>>

\* exec 10>> setup.lock; flock -x 10.
LockSetup(j) ==
    /\ At(j, "setup")
    /\ setup[Own(j)] = None
    /\ setup' = [setup EXCEPT ![Own(j)] = j]
    /\ Goto(j, "prepare")
    /\ UNCHANGED <<gate, writer, readers, disk, prune>>

-----------------------------------------------------------------------------
(* cache.py prepare: the own version's directory, then the pruning.        *)

Prepare(j) ==
    /\ At(j, "prepare")
    /\ database' = [database EXCEPT ![Own(j)] = IF @ = "absent" THEN "broken" ELSE @]
    /\ old' = [old EXCEPT ![Own(j)] = IF database[Own(j)] = "absent" THEN FALSE ELSE @]
    /\ unvisited' = [unvisited EXCEPT ![j] = Version \ {Own(j)}]
    /\ Goto(j, "prune")
    /\ UNCHANGED <<locks, pruning>>

PruneDone(j) ==
    /\ At(j, "prune")
    /\ unvisited[j] = {}
    /\ Goto(j, "check")
    /\ UNCHANGED <<locks, disk, prune>>

IsPrunable(v) == database[v] # "absent" /\ old[v]
Visit(j, v) == unvisited' = [unvisited EXCEPT ![j] = @ \ {v}]

\* The first look at the age, without any lock.
PruneSkips(j) ==
    /\ At(j, "prune")
    /\ \E v \in unvisited[j] : ~ IsPrunable(v) /\ Visit(j, v)
    /\ UNCHANGED <<pc, locks, disk, pruning>>

PruneFinds(j) ==
    /\ At(j, "prune")
    /\ \E v \in unvisited[j] :
          /\ IsPrunable(v)
          /\ pruning' = [pruning EXCEPT ![j] = v]
          /\ Visit(j, v)
    /\ Goto(j, "trysetup")
    /\ UNCHANGED <<locks, disk>>

PruneLocksSetup(j) ==
    /\ At(j, "trysetup")
    /\ setup[pruning[j]] = None
    /\ setup' = [setup EXCEPT ![pruning[j]] = j]
    /\ Goto(j, "trydatabase")
    /\ UNCHANGED <<gate, writer, readers, disk, prune>>

\* Mutation: the pruning waits for the setup lock.
PruneSetupBusy_Waits(j) ==
    /\ At(j, "trysetup")
    /\ setup[pruning[j]] # None
    /\ UNCHANGED vars

\* LOCK_NB: somebody sets the version up, it is left alone.
PruneSetupBusy(j) ==
    /\ At(j, "trysetup")
    /\ setup[pruning[j]] # None
    /\ pruning' = [pruning EXCEPT ![j] = None]
    /\ Goto(j, "prune")
    /\ UNCHANGED <<locks, disk, unvisited>>

DatabaseLockIsFree(v) == writer[v] = None /\ readers[v] = {}

\* Mutation: the lock of the scans is not asked for.
PruneLocksDatabase_Unlocked(j) ==
    /\ At(j, "trydatabase")
    /\ IsPrunable(pruning[j])
    /\ database' = [database EXCEPT ![pruning[j]] = "broken"]
    /\ \E young \in BOOLEAN : old' = [old EXCEPT ![pruning[j]] = young]
    /\ Goto(j, "remove")
    /\ UNCHANGED <<locks, prune>>

\* Mutation: the age is not looked at again under the locks.
PruneLocksDatabase_NoSecondLook(j) ==
    /\ At(j, "trydatabase")
    /\ DatabaseLockIsFree(pruning[j])
    /\ writer' = [writer EXCEPT ![pruning[j]] = j]
    /\ database' = [database EXCEPT ![pruning[j]] = "broken"]
    /\ \E young \in BOOLEAN : old' = [old EXCEPT ![pruning[j]] = young]
    /\ Goto(j, "remove")
    /\ UNCHANGED <<gate, setup, readers, prune>>

\* The second LOCK_NB and, under both locks, the second look at the age;
\* rmtree begins.
PruneLocksDatabase(j) ==
    /\ At(j, "trydatabase")
    /\ DatabaseLockIsFree(pruning[j])
    /\ IsPrunable(pruning[j])
    /\ writer' = [writer EXCEPT ![pruning[j]] = j]
    /\ database' = [database EXCEPT ![pruning[j]] = "broken"]
    /\ \E young \in BOOLEAN : old' = [old EXCEPT ![pruning[j]] = young]
    /\ Goto(j, "remove")
    /\ UNCHANGED <<gate, setup, readers, prune>>

\* A scan still reads the database, or a job has refreshed it meanwhile.
PruneGivesUp(j) ==
    /\ At(j, "trydatabase")
    /\ ~ (DatabaseLockIsFree(pruning[j]) /\ IsPrunable(pruning[j]))
    /\ setup' = [setup EXCEPT ![pruning[j]] = None]
    /\ pruning' = [pruning EXCEPT ![j] = None]
    /\ Goto(j, "prune")
    /\ UNCHANGED <<gate, writer, readers, disk, unvisited>>

\* rmtree has ended; both locks are freed.
PruneRemoved(j) ==
    /\ At(j, "remove")
    /\ database' = [database EXCEPT ![pruning[j]] = "absent"]
    /\ old' = [old EXCEPT ![pruning[j]] = FALSE]
    /\ setup' = [setup EXCEPT ![pruning[j]] = None]
    /\ writer' = [writer EXCEPT ![pruning[j]] = None]
    /\ pruning' = [pruning EXCEPT ![j] = None]
    /\ Goto(j, "prune")
    /\ UNCHANGED <<gate, readers, unvisited>>

-----------------------------------------------------------------------------
(* The own database.                                                       *)

\* The first database-fresh.
CheckFresh(j) ==
    /\ At(j, "check")
    /\ Goto(j, IF database[Own(j)] = "fresh" THEN "read" ELSE "write")
    /\ UNCHANGED <<locks, disk, prune>>

\* flock -x 9, once the scans that read the database have ended.
LockDatabase(j) ==
    /\ At(j, "write")
    /\ DatabaseLockIsFree(Own(j))
    /\ writer' = [writer EXCEPT ![Own(j)] = j]
    /\ Goto(j, "recheck")
    /\ UNCHANGED <<gate, setup, readers, disk, prune>>

\* The second database-fresh; invalidate-shared-db removes the old files.
Recheck(j) ==
    /\ At(j, "recheck")
    /\ IF database[Own(j)] = "fresh"
          THEN /\ Goto(j, "verify")
               /\ UNCHANGED disk
          ELSE /\ database' = [database EXCEPT ![Own(j)] = "broken"]
               /\ old' = [old EXCEPT ![Own(j)] = FALSE]
               /\ Goto(j, "download")
    /\ UNCHANGED <<locks, prune>>

\* trivy --download-db-only replaces <version>/db; Killed says how it fails.
Download(j) ==
    /\ At(j, "download")
    /\ database' = [database EXCEPT ![Own(j)] = "fresh"]
    /\ old' = [old EXCEPT ![Own(j)] = FALSE]
    /\ Goto(j, "verify")
    /\ UNCHANGED <<locks, prune>>

\* The third database-fresh, then flock -s 9 as a conversion: the exclusive
\* lock is given up before the shared one is asked for.
Convert(j) ==
    /\ At(j, "verify")
    /\ database[Own(j)] = "fresh"
    /\ writer' = [writer EXCEPT ![Own(j)] = None]
    /\ Goto(j, "read")
    /\ UNCHANGED <<gate, setup, readers, disk, prune>>

LockToRead(j) ==
    /\ At(j, "read")
    /\ writer[Own(j)] = None
    /\ readers' = [readers EXCEPT ![Own(j)] = @ \cup {j}]
    /\ Goto(j, "validate")
    /\ UNCHANGED <<gate, setup, writer, disk, prune>>

\* The last database-fresh; flock -u 10 lets the next job in.
Validate(j) ==
    /\ At(j, "validate")
    /\ database[Own(j)] = "fresh"
    /\ setup' = [setup EXCEPT ![Own(j)] = None]
    /\ Goto(j, "scan")
    /\ UNCHANGED <<gate, writer, readers, disk, prune>>

\* The process has ended: the kernel closes the descriptors.
Close(j) ==
    /\ gate' = [r \in Repository |-> IF gate[r] = j THEN None ELSE gate[r]]
    /\ setup' = [v \in Version |-> IF setup[v] = j THEN None ELSE setup[v]]
    /\ writer' = [v \in Version |-> IF writer[v] = j THEN None ELSE writer[v]]
    /\ readers' = [v \in Version |-> readers[v] \ {j}]
    /\ unvisited' = [unvisited EXCEPT ![j] = {}]
    /\ pruning' = [pruning EXCEPT ![j] = None]
    /\ UNCHANGED disk

ScanDone(j) ==
    /\ At(j, "scan")
    /\ Goto(j, "passed")
    /\ Close(j)

\* database-fresh said no: return 2.
NotFresh(j) ==
    /\ pc[j] \in {"verify", "validate"}
    /\ database[Own(j)] # "fresh"
    /\ Goto(j, "failed")
    /\ Close(j)

\* Any command may fail under "set -e", and any job may be killed.
Killed(j) ==
    /\ pc[j] \in Running
    /\ Goto(j, "failed")
    /\ Close(j)

\* The database leaves the caller's age limit, then the retention time.
Age(v) ==
    /\ database[v] = "fresh"
    /\ database' = [database EXCEPT ![v] = "stale"]
    /\ UNCHANGED <<pc, locks, old, prune>>

Expire(v) ==
    /\ database[v] \in {"stale", "broken"}
    /\ old' = [old EXCEPT ![v] = TRUE]
    /\ UNCHANGED <<pc, locks, database, prune>>

\* What a job does by itself once it runs; nothing promises that a download
\* ends well, only that it ends.
Step(j) ==
    \/ LockGate(j) \/ LockSetup(j) \/ Prepare(j)
    \/ PruneSkips(j) \/ PruneFinds(j) \/ PruneLocksSetup(j) \/ PruneSetupBusy(j)
    \/ PruneLocksDatabase(j) \/ PruneGivesUp(j) \/ PruneRemoved(j) \/ PruneDone(j)
    \/ CheckFresh(j) \/ LockDatabase(j) \/ Recheck(j) \/ Download(j) \/ Convert(j)
    \/ LockToRead(j) \/ Validate(j) \/ NotFresh(j) \/ ScanDone(j)

Next ==
    \/ \E j \in Job : Start(j) \/ Step(j) \/ Killed(j)
    \/ \E v \in Version : Age(v) \/ Expire(v)

Spec == Init /\ [][Next]_vars
FairSpec == Spec /\ \A j \in Job : WF_vars(Step(j))

-----------------------------------------------------------------------------
TypeOK ==
    /\ pc \in [Job -> Pc]
    /\ gate \in [Repository -> Job \cup {None}]
    /\ setup \in [Version -> Job \cup {None}]
    /\ writer \in [Version -> Job \cup {None}]
    /\ readers \in [Version -> SUBSET Job]
    /\ database \in [Version -> Database]
    /\ old \in [Version -> BOOLEAN]
    /\ unvisited \in [Job -> SUBSET Version]
    /\ pruning \in [Job -> Version \cup {None}]

\* A scan in shared scope reads a whole database to its end: no refresh and no
\* pruning by any job of any version takes it away (docs/SECURITY_GATE.md:84,
\* the shared lock held through the scan; cache.py, the LOCK_NB pair).
ScanReadsWholeDatabase ==
    \A j \in Shared : pc[j] = "scan" => database[VersionOf[j]] \in Whole

\* No job throws a fresh database away: it only ages (trivy-cache.sh, the
\* database-fresh tests under the locks; cache.py:129, the second look).
FreshDatabaseIsKept ==
    [][\A v \in Version :
          database[v] = "fresh" => database'[v] \in Whole]_vars

\* Two jobs of one repository never use its scan cache together, whichever of
\* the two scopes each of them has (trivy-cache.sh:55).
OneJobPerScanCache ==
    \A j, k \in Job :
        (j # k /\ RepositoryOf[j] = RepositoryOf[k] /\ pc[j] = "scan")
            => pc[k] \notin Running \ {"gate"}

\* Every job that starts ends: waiting for the gate, the setup and the
\* database locks and trying the locks of other versions never goes in a ring.
EveryJobEnds == \A j \in Job : pc[j] \in Running ~> pc[j] \in Ended
=============================================================================
