SPECIFICATION Spec
CONSTANTS
    Program <- OnlyTest28
    MaxDepth = 5
INVARIANT
    ExpectedCallees
