\* Two publications of one commit, the first behind its validation gate, and the
\* promotion of a candidate.
SPECIFICATION FairRelease
CONSTANTS
    a = a
    b = b
    c = c
    j1a = j1a
    j1b = j1b
    j2a = j2a
    r1 = r1
    r2 = r2
    c1 = c1
    h = h
    x = x
    y = y
    z = z
    layer = layer
    child = child
    release = release
    sha = sha
    t1 = t1
    t2 = t2
    t3 = t3
    AnyTarget = AnyTarget
    NoBaseline = NoBaseline
    NoDigest = NoDigest
    NoTag = NoTag
    NoFile = NoFile
    MaxWindow <- Windows
    DueSoon = 1
    Service = {a, b, c}
    Job = {j1a, j1b, j2a}
    ServiceOf <- Services
    Digest = {x, y, z}
    Blobs <- BlobsOfImages
    Children <- ChildrenOfImages
    Tag = {release, sha, t1, t2, t3}
    MaxAuthRetries = 1
    Run = {r1, r2}
    RunOf <- RunOfJobs
    Commit = {h}
    CommitOf <- Commits
    Inline = {r1}
    Strict = {r1}
    Unchanged <- Others
    UnchangedExceptions <- OtherFiles
    Exceptions <- Files
    WindowsEnabled <- Enabled
    BuildsOf <- Builds
    CandidateExceptions <- CandidateFiles
    Evidence <- ImageEvidence
    GateOutcomes <- Outcomes
    NetworkAttempts <- Retries
    Promotion = {c1}
    PromotedService <- Promotes
    Today = 0
    ReleaseTag <- ReleaseTags
    ShaTag <- ShaTags
    CandidateTag <- CandidateTags
    Validation = {r1}
    GateCommit <- CommitOfGate
    GateCalls <- Calls
    AllowedPaths = {"hosted", "self-hosted", "reviewed-emergency"}
    Workspaces <- Trees
    MaxRetryAttempts = 2
    Transient = Transient
    NoRecord = NoRecord
    NoArtifact = NoArtifact
    NoSuite = NoSuite
    NoAttestation = NoAttestation
    MaxAttempts = 2
    MaxFaults = 1
INVARIANTS
    
    SuiteRestsOnOneAttempt
    AuthorizedMeansValidated
    PersistentRunnersRunTrustedCode
    TagsAreWhole
    OnlyWholeSetsAreReleased
    ManifestIsWhatWasValidated
PROPERTIES
    EveryPushEnds
CHECK_DEADLOCK FALSE
