SPECIFICATION SoundSpec
CONSTANTS
    Program <- TwoFields
    MaxDepth = 3
    MaxObjects = 3
    MaxCalls = 2
INVARIANT
    CalleesComplete
CHECK_DEADLOCK FALSE
