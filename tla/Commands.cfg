CONSTANTS
    f = f
    g = g
    Torn = Torn
    DoubleStar = DoubleStar
    Refused = Refused
    Absent = Absent
    s1 = s1
    s2 = s2
    Spaces = {s1, s2}
    Files = {f, g, Torn}
    Paths <- MCOnePath
    MaxVersions = 3
    Commands = {"commit", "snapshot", "sync"}
    DiesIn <- MCHarmlessSteps
    EditsAnyTime = FALSE
SPECIFICATION PartsSpec
SYMMETRY MCSymmetry
INVARIANT BaseIsDeliberate
INVARIANT PartsTypeOK
INVARIANT ScanObeysTheFile
INVARIANT EveryFileIsAccountedFor
INVARIANT TextIsIdentity
INVARIANT CutFileIsRefused
PROPERTY NothingRevertedSilently
PROPERTY RefinesLinearHistory
CHECK_DEADLOCK FALSE
