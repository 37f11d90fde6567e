\* One job suffices: its evidence cannot be written.
SPECIFICATION Spec
CONSTANTS
    j1 = j1
    j2 = j2
    shaX = shaX
    shaY = shaY
    Job = {j1, j2}
    Sha = {shaX, shaY}
PROPERTIES
    EveryFailureRestoresVolume
CHECK_DEADLOCK FALSE
