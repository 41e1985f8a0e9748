SPECIFICATION Spec
CONSTANTS
    ben = ben
    ann = ann
    p = p
    q = q
    t1 = t1
    t2 = t2
    s1 = s1
    k1 = k1
    k2 = k2
    i1 = i1
    Accounts = {ann, ben}
    Passwords = {p, q}
    Policies <- TwoPolicies
    Tasks = {t1, t2}
    Sessions = {s1}
    Keys = {k1, k2}
    Invitations = {i1}
    Uses = {1, 2}
    MaxActive = 1
    MaxStored = 1
    MaxDraws = 3
INVARIANTS
    SecretsAreCurrent
    GrantsAreSound
PROPERTY
    AdmittedWhenStored
SYMMETRY AnyNames
