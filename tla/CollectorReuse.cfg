CONSTANTS
    s1 = s1
    s2 = s2
    c = c
    d = d
    Spaces = {s1, s2}
    Files <- MCFiles
    MaxVersions = 2
    DiesIn = {}
SPECIFICATION CachedSpec
SYMMETRY MCSymmetry
INVARIANT ReferencedIsStored
CHECK_DEADLOCK FALSE
