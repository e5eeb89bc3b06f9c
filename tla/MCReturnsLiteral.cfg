SPECIFICATION SoundSpec
CONSTANTS
    Program <- ReturnsLiteral
    MaxObjects = 0
    MaxCalls = 3
INVARIANT
    CalleesComplete
CHECK_DEADLOCK FALSE
