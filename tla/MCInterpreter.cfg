SPECIFICATION SpecC
CONSTANTS
    Program <- Programs
    Inputs <- TwoInputs
    Addresses <- LowPlaces
    IntValues = 65536
INVARIANTS
    TypeOK
    CallPending
    AssignsInScope
PROPERTIES
    NothingAfterReturn
    CallersUntouched
    RunsAsInC
