\* Two jobs, for one SHA or for two; no symmetry, which would not be sound for
\* liveness.
SPECIFICATION FairSpec
CONSTANTS
    j1 = j1
    j2 = j2
    shaX = shaX
    shaY = shaY
    Job = {j1, j2}
    Sha = {shaX, shaY}
INVARIANTS
    BeforeIsKept
PROPERTIES
    
    PassedMeansPublished
    FailureKeepsSource
    EveryJobEnds
CHECK_DEADLOCK FALSE
