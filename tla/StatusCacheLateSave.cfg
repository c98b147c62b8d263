CONSTANTS
    r1 = r1
    f = f
    g = g
    m1 = m1
    m2 = m2
    Absent = Absent
    Processes = {r1}
    Paths <- MCOnePath
    Files = {f, g}
    SizeOf <- MCSizeOf
    Commands <- MCCommits
    MaxVersions = 2
    Mtimes = {m1, m2}
    MaxChanges = 3
SPECIFICATION MovingSpec
SYMMETRY MCSymmetry
INVARIANT VouchedIsTrue
CHECK_DEADLOCK FALSE
