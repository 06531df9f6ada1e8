\* Every user and every Android: patient or hasty, recreating or not.
SPECIFICATION Spec
CONSTANTS
    p1 = p1
    p2 = p2
    io1 = io1
    io2 = io2
    rm1 = rm1
    Project = {p1, p2}
    Caller = {io1, io2}
    Cleaner = {rm1}
    MaxPicker = 2
INVARIANTS TypeOK MarkedWhileCalling KillHarmless LogsThroughOwnEnv FlagMeansCall
PROPERTIES StartsAlone BuildHasTarget FlagClears ProgressEnds
