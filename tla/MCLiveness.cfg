\* Every SSA loop skeleton over three blocks.
SPECIFICATION Spec
CONSTANTS
    b1 = b1
    b2 = b2
    b3 = b3
    p = p
    a = a
    q = q
    u = u
    d = d
    NoBlock = NoBlock
    Block = {b1, b2, b3}
    Inst = {p, a, q, u, d}
    Function <- AllFunctions
INVARIANTS
    TypeOK
    SettledBlocks
    LiveOnPaths
PROPERTIES
    Growing
    Termination
