\* Six modules of the test suite and the family of pointer-passing programs, in
\* every order of the maps, each then executed.
SPECIFICATION SoundSpec
CONSTANTS
    Program <- TestsAndFamily
    MaxObjects = 0
    MaxCalls = 3
INVARIANTS
    TypeOK
    ClosedWhenDone
    ExactWhenDone
    ExpectedCallees
    CalleesComplete
PROPERTY
    Termination
CHECK_DEADLOCK FALSE
