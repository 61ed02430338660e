SPECIFICATION Spec
CONSTANTS
    Ids = {s1, s2, s3}
    Handlers = {h1, h2, h3}
    None = None
    MaxFaults = 1
SYMMETRY HandlerSymmetry
INVARIANT FamilyRevokedWhole
CHECK_DEADLOCK FALSE
