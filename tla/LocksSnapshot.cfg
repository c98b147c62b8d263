CONSTANTS
    s1 = s1
    s2 = s2
    Free = Free
    Spaces = {s1, s2}
    Paths <- MCOnePath
    Patterns <- MCSingles
    Commands = {"lock", "commit", "snapshot"}
    Expiring = FALSE
    DiesIn = {}
SPECIFICATION Spec
SYMMETRY MCSymmetry
PROPERTY CheckSeesEveryChange
CHECK_DEADLOCK FALSE
