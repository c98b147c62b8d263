CONSTANTS
    f = f
    g = g
    Torn = Torn
    Absent = Absent
    s1 = s1
    s2 = s2
    Spaces = {s1, s2}
    Files = {f, Torn}
    Paths <- MCOnePath
    MaxVersions = 3
    Commands = {"commit", "sync"}
    DiesIn = {"published"}
    EditsAnyTime = FALSE
SPECIFICATION Spec
SYMMETRY MCSpaces
PROPERTY NothingRevertedSilently
CHECK_DEADLOCK FALSE
