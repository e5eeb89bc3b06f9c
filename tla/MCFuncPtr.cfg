\* Six modules of the test suite and the one-pointer programs with a loop, in every
\* order of blocks and callees.
SPECIFICATION Spec
CONSTANTS
    Program <- TestsAndLoops
    MaxDepth = 5
INVARIANTS
    TypeOK
    NoStaleEdge
    CalleeSeesCaller
    ExpectedCallees
    AnalysedOnce
    NoCircle
    SitesApart
PROPERTIES
    EntriesGrow
    CallKeepsPointers
    Termination
