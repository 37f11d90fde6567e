\* One gate call, of any of the inputs, against every policy that reviewers
\* may have written by then: two findings, two revisions each.
SPECIFICATION Spec
CONSTANTS
    p1 = p1
    imgA = imgA
    imgB = imgB
    base = base
    AnyTarget = AnyTarget
    NoBaseline = NoBaseline
    Gate = {p1}
    MaxWindow <- Windows
    DueSoon = 1
    GateInputs <- Inputs
    NoInput = NoInput
    InitialPolicies <- Policies
    Fingerprint <- Tracks
    MaxTime = 3
    MaxRevisions = 2
INVARIANTS
    
    AllowedOnlyWithinWindow
    ResolvedIsNotAllowedAgain
CHECK_DEADLOCK FALSE
