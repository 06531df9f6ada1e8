\* Sessions with a window of 32 bytes, of the fast coder and of every kind of level.
CONSTANTS
    K64 = 32
    HashSize = 8
    MidSize = 8
    KB4 = 24
    KB32 = 16
    GB1 = 150
    GB2 = 200
    SkipTrigger = 2
    LZ4_OPT_NUM = 24
    k_clTable <- MCLevels
    Top = 400
    Sessions <- MCSessions
    Dictionary <- MCDictionary
SPECIFICATION Spec
INVARIANTS BlocksComeBack FitsTheBuffer NoStray
