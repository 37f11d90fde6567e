\* All events, and commits with and without a skip instruction, that change
\* the portable contract or not.
SPECIFICATION FairSpec
CONSTANTS
    MaxCommits = 3
    MaxDispatches = 1
    MaxClosings = 1
    Skips = {FALSE, TRUE}
    Relevants = {FALSE, TRUE}
INVARIANTS
    OnlyValidatedIsPublished
PROPERTIES
    NeverMovesBack
    PublishedUnlessInterrupted
CHECK_DEADLOCK FALSE
