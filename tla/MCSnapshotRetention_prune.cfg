\* Two pruners on one root; one snapshot more arrives while they prune.
SPECIFICATION Spec
CONSTANTS
    p1 = p1
    p2 = p2
    Pruner = {p1, p2}
    MaxSnapshots = 3
    MaxTime = 3
    MaxSize = 2
    MaxBytes = 4
SYMMETRY Symmetric
INVARIANTS
    OldestGoFirst
    NewestSurvives
    KeepsTheMostAllowed
CHECK_DEADLOCK FALSE
