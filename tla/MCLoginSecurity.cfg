\* Three checks from one of two addresses; one ban fits into the table.
SPECIFICATION Spec
CONSTANTS
    x = x
    y = y
    c1 = c1
    c2 = c2
    c3 = c3
    Ips = {x, y}
    Calls = {c1, c2, c3}
    Policies <- TwoPolicies
    MaxIps = 1
    ExpiryBatch = 1
    MaxRevision = 1
    MaxFaults = 1
INVARIANTS
    GuessesWithinThreshold
PROPERTIES
    PermanentBansStay
SYMMETRY AnyCall
