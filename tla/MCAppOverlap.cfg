\* Taps faster than the main thread.
SPECIFICATION Spec
CONSTANTS
    p1 = p1
    p2 = p2
    io1 = io1
    io2 = io2
    rm1 = rm1
    Project = {p1, p2}
    Caller = {io1, io2}
    Cleaner = {rm1}
    MaxPicker = 2
PROPERTIES NothingOverlaps
