CONSTANTS
    f = f
    g = g
    s1 = s1
    s2 = s2
    Torn = Torn
    Absent = Absent
    Free = Free
    Spaces = {s1, s2}
    Paths <- MCTwoPaths
    Patterns <- MCSingles
    Commands = {"lock", "unlock", "commit", "snapshot"}
    Expiring = FALSE
    DiesIn = {"acquire", "fill", "publish"}
SPECIFICATION PartsSpec
SYMMETRY MCSymmetry
INVARIANT TypeOK
INVARIANT BelievedIsHeld
INVARIANT LocksAreRemembered
 
CHECK_DEADLOCK FALSE
