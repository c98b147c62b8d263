CONSTANTS
    r1 = r1
    r2 = r2
    f = f
    g = g
    h = h
    m1 = m1
    m2 = m2
    Absent = Absent
    Processes = {r1, r2}
    Paths <- MCOnePath
    Files = {f, g, h}
    SizeOf <- MCSizeOf
    Commands <- MCCommands
    MaxVersions = 2
    Mtimes = {m1, m2}
    MaxChanges = 3
SPECIFICATION PartsSpec
SYMMETRY MCSymmetry
INVARIANT PartsTypeOK
INVARIANT VouchedWasPublished
INVARIANT VouchedIsTrue
INVARIANT RecordIsFaithful
INVARIANT RecordedIsRestorable
INVARIANT ChunksAreTheFile
CHECK_DEADLOCK FALSE
