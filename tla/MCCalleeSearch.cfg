\* Every map of points-to sets over two functions and three other values.
SPECIFICATION Spec
CONSTANTS
    f = f
    g = g
    x = x
    y = y
    z = z
    Func = {f, g}
    Value = {f, g, x, y, z}
INVARIANTS
    TypeOK
    VisitedOnce
    LinksWhatIsDenoted
    MatchesSearchedFrom
PROPERTIES
    Termination
    KeepsPromise
