SPECIFICATION SoundSpec
CONSTANTS
    Program <- UncalledCallback
    MaxObjects = 0
    MaxCalls = 3
INVARIANT
    EveryEntryHasCallees
CHECK_DEADLOCK FALSE
