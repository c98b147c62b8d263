CONSTANTS
    c = c
    d = d
    Absent = Absent
    Paths <- MCPaths
    Files <- MCFiles
    Ignored = {2}
    MaxVersions = 3
SPECIFICATION CarefulSpec
PROPERTY DisappearingIsRecoverable
CHECK_DEADLOCK FALSE
