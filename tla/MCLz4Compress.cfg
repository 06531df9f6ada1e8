CONSTANTS
    Workers = {w1, w2, w3}
    Writer = writer
    Main = main
    QueueSize = 4
    WriteQueueSize = 1
    MaxChunks = 4
    RegisterSize = 1
    MaxGrowth = 2
    ReadFaults = TRUE
SPECIFICATION Spec
INVARIANTS TypeOK OneReader ReaderNeverWaits NoJobOutlivesItsStack NoBlockStranded
PROPERTY WritesInOrder
