CONSTANTS
    Workers = {w1, w2}
    Writer = writer
    Main = main
    QueueSize = 4
    WriteQueueSize = 4
    MaxChunks = 4
    RegisterSize = 1
    MaxGrowth = 2
    ReadFaults = TRUE
SPECIFICATION Spec
INVARIANT SuccessIsComplete
