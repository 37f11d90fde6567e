\* Two deliveries whose adapters may pick any of two manifest paths: the
\* manifests of a plan may be overwritten, the plan must still be right.
SPECIFICATION FairRSpec
CONSTANTS
    d1 = d1
    d2 = d2
    svcA = svcA
    svcB = svcB
    shaX = shaX
    shaY = shaY
    n1 = n1
    n2 = n2
    rootA = rootA
    rootB = rootB
    p1 = p1
    p2 = p2
    NoOne = NoOne
    NoName = NoName
    NoTree = NoTree
    NoPath = NoPath
    NoManifest = NoManifest
    Delivery = {d1, d2}
    Service = {svcA, svcB}
    Sha = {shaX, shaY}
    SnapshotName = {n1, n2}
    SnapshotRootOf <- OwnRoots
    SnapshotChoices <- Choices
    Path = {p1, p2}
    PathChoices <- AnyPath
INVARIANTS
    LockHeldExactlyInside
    TreeUntouchedUntilSync
    ReadyMeansDeployed
    CandidatePreparedOnce
    
    
    
PROPERTIES
    ImplementsPromise
    EveryDeliveryEnds
    LockIsFreedAgain
CHECK_DEADLOCK FALSE
