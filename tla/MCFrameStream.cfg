\* Sessions with a window of four bytes, of callers and of the jobs of lz4io.
CONSTANTS
    K64 = 4
    TmpBuff = 60
    TmpOut = 60
    GB1 = 10
    Sessions <- MCSessions
    Dictionary <- MCDictionary
    DictAt = 1
    ChunkSize = 8
    INBUFF_SIZE = 13
    OUTBUFF_SIZE = 16
    PlainAt = 10
    Top = 90
SPECIFICATION Spec
INVARIANTS FramesComeBack BuffersSuffice HintLeadsOn
