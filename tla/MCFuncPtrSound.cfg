\* Analysis against execution on the family of one-pointer programs.
SPECIFICATION SoundSpec
CONSTANTS
    Program <- Family
    MaxDepth = 3
    MaxObjects = 3
    MaxCalls = 2
INVARIANT
    CalleesComplete
    WithinReach
CHECK_DEADLOCK FALSE
