\* More blocks than buffers: every buffer is used again.
CONSTANTS
    Decoder = decoder
    Writer = writer
    Main = main
    MaxBlocks = 9
SPECIFICATION Spec
INVARIANTS BuffersExclusive NoJobOutlivesItsStack
PROPERTY WritesInOrder
