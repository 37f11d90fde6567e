\* Three jobs in shared scope, whose versions form a ring of locks, and one in
\* repository scope; no symmetry, which would not be sound for liveness.
SPECIFICATION FairSpec
CONSTANTS
    j1 = j1
    j2 = j2
    j3 = j3
    j4 = j4
    r1 = r1
    r2 = r2
    r3 = r3
    v1 = v1
    v2 = v2
    None = None
    Job = {j1, j2, j3, j4}
    Repository = {r1, r2, r3}
    Version = {v1, v2}
    RepositoryOf <- Repositories
    VersionOf <- Versions
    Shared = {j1, j2, j3}
INVARIANTS
    ScanReadsWholeDatabase
    OneJobPerScanCache
PROPERTIES
    
    EveryJobEnds
CHECK_DEADLOCK FALSE
