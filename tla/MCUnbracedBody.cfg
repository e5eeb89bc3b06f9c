SPECIFICATION SpecC
CONSTANTS
    Program <- UnbracedBody
    Inputs <- NoInput
    Addresses <- LowPlaces
    IntValues = 65536
INVARIANT
    PrintsAsInC
