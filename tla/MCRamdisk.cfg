\* Ramdisks of every format, unpacked, edited and built, on disks of three sizes.
CONSTANTS
    BufferSize = 2
    END = END
    BAD = BAD
    Quoted <- MCQuoted
    Split <- MCSplit
    BeforeQuote <- MCBeforeQuote
    Torn <- MCTorn
    Zeros <- MCZeros
    Sources <- MCSources
    Rooms = {2, 5, 40}
    Ample = 40
    NewData <- MCNewData
SPECIFICATION Spec
INVARIANTS NothingLost BuiltUnpacksAgain
PROPERTIES UnpackedIsArchive CallEnds
CHECK_DEADLOCK FALSE
