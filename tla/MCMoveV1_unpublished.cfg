\* Merges that change the contract, and merges that do not.
SPECIFICATION FairSpec
CONSTANTS
    MaxCommits = 2
    MaxDispatches = 0
    MaxClosings = 0
    Skips = {FALSE}
    Relevants = {FALSE, TRUE}
PROPERTIES
    ContractChangesArePublished
CHECK_DEADLOCK FALSE
